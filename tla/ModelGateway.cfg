SPECIFICATION Spec
CONSTANTS
  MinGatewayCalls = 1
  Asked <- MCAsked
  Surface = "model"
  Low = 2
  High = 3
  ExecTicks = 1
  MinElapsed = 3
  Timeout = 6
  CallCap = 3
  MaxCalls = 4
  MaxTurns = 2
INVARIANTS
  ClearMeansCalled
  RelayIsNeverHeld
  ChatRelayPasses
CHECK_DEADLOCK FALSE
