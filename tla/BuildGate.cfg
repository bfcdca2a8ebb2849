SPECIFICATION Spec
CONSTANTS
  NoDeadline = NoDeadline
  Deadlines <- MCDeadlines
  Manifests <- MCManifests
  Reviews <- MCReviews
  MinGatewayCalls = 1
  Journals = TRUE
  MinStage = 1
  VerifyCap = 1
  DownloadCap = 1
  ReviewCap = 5
  ReviewGrace = 1
  BuildCap = 2
  InspectCap = 1
  GatewayCap = 1
  RunCap = 1
  HealthCap = 1
  ChallengeCap = 1
  ExportCap = 2
  UploadCap = 2
  AbortCap = 1
  DrainCap = 1
  TeardownCap = 1
INVARIANTS
  NoBuildUnderOpenLead
  PassRestsOnItsReview
  ReviewReadsALiveTarball
  NoFilesLeftBehind
  EndsWithinOverrun
  JournalAgrees
PROPERTIES
  KeepsContract
  ScreenEnds
CHECK_DEADLOCK FALSE
