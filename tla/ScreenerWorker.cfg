SPECIFICATION Spec
CONSTANTS
  Attempts = {a1, a2}
  NoAttempt = NoAttempt
  ScreenOutcomes = {"pass", "pass_inconclusive", "quarantine"}
  Lanes = {"full", "build_only", "duplicate"}
  Settings <- MCOneSetting
  Bootstrap <- MCBootstrap
  NoSettings = NoSettings
  Tries = 2
  MaxClaim = 2
  MaxCrashes = 1
SYMMETRY MCSymmetry
PROPERTY KeepsLedger
CHECK_DEADLOCK FALSE
