SPECIFICATION Spec
CONSTANTS
  Workers = {w1, w2}
  NoWorker = NoWorker
  None = None
  Bases = {b1, b2}
  Leads <- MCLeads
  Modes = {"off", "shadow", "enforce"}
  MaxReviews = 2
SYMMETRY MCSymmetry
INVARIANTS
  ClearanceIsCertified
PROPERTIES
  ViolationIsNotRetriedAway
  NothingIsPaidTwice
  AnswersRepeatTheCache
CHECK_DEADLOCK FALSE
