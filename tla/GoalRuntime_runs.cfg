SPECIFICATION Spec
CONSTANTS
  None = None
  Foreign = Foreign
  Ids <- MCIds
  Marks <- MCMarks
  Budgets <- MCBudgets
  Sessions <- MCSessions
  TurnLimit = 2
  MaxQueued = 1
  MaxCommands = 2
  MaxInputs = 1
  MaxFaults = 1
  MaxResponses = 2
INVARIANTS SavedIsLive UsageIsChargedOnce OneContinuation
PROPERTIES StoppedStaysStopped StaleWorkIsStopped
CHECK_DEADLOCK FALSE
