\* One page, a recording kept by the client, replays stopped and begun again.
CONSTANTS
  Agents = {a1}
  NoAgent = NoAgent
  UserKinds = {"input", "history"}
  Speeds = {0, 2}
  InitialFiles <- TwoEvents
  MaxEvents = 14
  MaxLength = 1
  MaxToken = 4
  MaxSwaps = 0
  MaxHold = 1
  Horizon = 1
  LastTick = 8
SPECIFICATION Spec
CHECK_DEADLOCK FALSE
INVARIANTS
  RecordingIsClosed
  InstrumentationInSync
  V8DataMatchesStore
  OneShotEventsOnce
PROPERTIES
  FirstInjectionsInOrder
  NothingSkipped
