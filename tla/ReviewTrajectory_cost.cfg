SPECIFICATION Spec
CONSTANTS
  Paths <- MCPaths
  Turns <- MCTurns
  NotReported = NotReported
  MaxTokens = 4
  MaxCost = 2
  Deadlines = {5}
  TurnTimeout = 3
  AnalyzerTimeout = 1
  Delays <- MCDelays
  MaxCalls = 3
  MaxOperations = 3
INVARIANT CostCapCoversEveryTurn
CHECK_DEADLOCK FALSE
