SPECIFICATION Spec
CONSTANTS
  Clients = {"main"}
  PageClients = {"main"}
  Requests = {"a", "b"}
  Traces = {"script"}
  NoTrace = "none"
  MaxLoads = 2
  MaxHops = 1
  MaxChunks = 0
  MaxToken = 5
INVARIANTS
  FaithfulReplay
  AnswersServedOnce
CHECK_DEADLOCK FALSE
