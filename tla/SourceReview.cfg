SPECIFICATION Spec
CONSTANTS
  Categories = {"mirror", "malicious", "build"}
  Advisory = {"build"}
  MultiLocation = {"mirror"}
  Places = {"code", "comment", "missing"}
  Existing = {"code", "comment"}
  Executable = {"code"}
  MaxSteps = 2
  ReadBudget = 3
  Outputs = {1, 3}
  Timeout = 2
  Delays <- MCDelays
  NoDeadline = NoDeadline
  Deadlines <- MCDeadlines
  Submissions <- MCSubmissions
  MaxCalls = 3
  MaxOperations = 3
INVARIANTS
  OverrunIsOneTurn
  ExhaustionIsExact
  FindingIsGrounded
  LiveClaimIsNeverCleared
CHECK_DEADLOCK FALSE
