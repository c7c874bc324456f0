SPECIFICATION Spec
CONSTANTS
  Clients = {"main", "other"}
  PageClients = {"main"}
  Requests = {"a"}
  Traces = {}
  NoTrace = "none"
  MaxLoads = 2
  MaxHops = 1
  MaxChunks = 1
  MaxToken = 3
PROPERTIES
  LoadsIgnoreAgentState
CHECK_DEADLOCK FALSE
