SPECIFICATION VerdictSpec
CONSTANTS
  MinGatewayCalls = 1
  MaxEvidence = 4
  Manifests <- MCManifests
  Reviews <- MCReviews
  Packs <- MCPacks
INVARIANTS
  LeadNeedsDedicatedClear
  CleanPassHeardEveryModule
  HoldCarriesLeadFinding
  RequestIsAccepted
  HoldShowsItsReason
CHECK_DEADLOCK FALSE
