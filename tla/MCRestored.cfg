\* The mode is restored in a new renderer, the recorder is not.
CONSTANTS
  Agents = {a1}
  NoAgent = NoAgent
  UserKinds = {"input"}
  Speeds = {1}
  InitialFiles <- InputFile
  MaxEvents = 14
  MaxLength = 1
  MaxToken = 2
  MaxSwaps = 1
  MaxHold = 0
  Horizon = 1
  LastTick = 4
SPECIFICATION Spec
CHECK_DEADLOCK FALSE
INVARIANT RecorderPresent
