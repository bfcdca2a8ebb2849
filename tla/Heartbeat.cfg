SPECIFICATION HeartbeatSpec
CONSTANTS
  Agents = {g1, g2}
  NoAgent = NoAgent
  LastStage = 3
  MaxWall = 2
  MaxReports = 6
INVARIANTS
  ReportsAreTrue
CHECK_DEADLOCK FALSE
