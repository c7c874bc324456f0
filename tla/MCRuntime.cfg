\* The bounds of the machines that MCRuntime extends; those of the others, and the inputs
\* of the calls, are in MCRuntime.
CONSTANTS
  Closures = {f, g}
  MaxFrames = 2
  MaxJobs = 1
  MaxCodes = 2
  Names = {"x"}
  Values = {a, b}
  MaxDepth = 3
  Bytes = {0, 1}
  MaxBytes = 4
  MaxBuffers = 2
  MaxViews = 2
  MaxCalls = 4
  Keys = {"k", "l", "m"}
  Capacity = 2
  MaxNested = 2
  MaxAnswers = 4
  Exceptions = {"e", "f"}
  Callbacks = {"c"}
  MaxStack = 4
  MaxTries = 2
  MaxTasks = 1
  Threads = {"s", "t"}
  MaxBlocks = 3
  kHandleBlockSize = 2
  MaxScopes = 3
SPECIFICATION Spec
SYMMETRY Symmetry
CHECK_DEADLOCK FALSE
INVARIANTS
  HoleNeverEscapes
  QueriesAgree
  QueuedHasJob
  GivenUpCodeIsGone
  ValuesArrive
  InspectionIsTruthful
  ViewsStayWithinBuffers
  ArraysAreES5
  CacheIsConsistent
  StringsAreRight
  NumbersAreES5
  InnermostHandlerCatches
  CallbacksWaitForOutermost
  HandlesAreRoots
PROPERTIES
  ConstantsStay
  OneVariableChanges
  CopiesAreOfTheOld
