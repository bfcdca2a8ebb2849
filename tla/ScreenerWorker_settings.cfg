SPECIFICATION Spec
CONSTANTS
  Attempts = {a1}
  NoAttempt = NoAttempt
  ScreenOutcomes <- MCOutcomes
  Lanes <- MCLanes
  Settings <- MCSettings
  Bootstrap <- MCBootstrap
  NoSettings = NoSettings
  Tries = 2
  MaxClaim = 1
  MaxCrashes = 1
INVARIANTS
  SaysWhatItRanUnder
PROPERTY StopEnds
CHECK_DEADLOCK FALSE
