\* One page from recording to the end of its one replay.
CONSTANTS
  Agents = {a1}
  NoAgent = NoAgent
  UserKinds = {"input", "menu"}
  Speeds = {0, 1, 2}
  InitialFiles <- NoFiles
  MaxEvents = 14
  MaxLength = 1
  MaxToken = 3
  MaxSwaps = 0
  MaxHold = 1
  Horizon = 2
  LastTick = 8
SPECIFICATION FairSpec
CHECK_DEADLOCK FALSE
PROPERTIES
  ReplayIsComplete
  ReplayEnds
