SPECIFICATION Spec
CONSTANTS
  Paths <- MCPaths
  Turns <- MCTurns
  NotReported = NotReported
  MaxTokens = 4
  MaxCost = 2
  Deadlines = {0, 2, 5}
  TurnTimeout = 3
  AnalyzerTimeout = 1
  Delays <- MCDelays
  MaxCalls = 3
  MaxOperations = 3
INVARIANTS
  SpendIsBounded
  AuditAddsUp
  OverrunIsOneRequest
PROPERTY ReviewEnds
CHECK_DEADLOCK FALSE
