\* The pair of a stopped replay takes an event from the replay begun after it.
CONSTANTS
  Agents = {a1}
  NoAgent = NoAgent
  UserKinds = {"input"}
  Speeds = {1}
  InitialFiles <- InputFile
  MaxEvents = 14
  MaxLength = 1
  MaxToken = 4
  MaxSwaps = 0
  MaxHold = 0
  Horizon = 1
  LastTick = 4
SPECIFICATION Spec
CHECK_DEADLOCK FALSE
INVARIANT CancelIsInformational
