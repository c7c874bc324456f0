\* Two pages in one renderer, which may be replaced.
CONSTANTS
  Agents = {a1, a2}
  NoAgent = NoAgent
  UserKinds = {"input"}
  Speeds = {0, 1}
  InitialFiles <- InputFile
  MaxEvents = 12
  MaxLength = 1
  MaxToken = 2
  MaxSwaps = 1
  MaxHold = 0
  Horizon = 1
  LastTick = 4
SPECIFICATION Spec
CHECK_DEADLOCK FALSE
INVARIANTS
  ModesAgree
  StoreStartsWithRecStart
PROPERTIES
  ImplementsModes
