SPECIFICATION FairSpec
CONSTANTS
  Clients = {"main", "other"}
  PageClients = {"main"}
  Requests = {"a"}
  Traces = {}
  NoTrace = "none"
  MaxLoads = 2
  MaxHops = 1
  MaxChunks = 1
  MaxToken = 3
INVARIANTS
  PendingIsWhatWasTold
PROPERTIES
  KeepsProtocol
  ReplayedLoadsEnd
CHECK_DEADLOCK FALSE
