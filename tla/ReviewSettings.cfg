SPECIFICATION SettingsSpec
CONSTANTS
  Published <- MCPublished
  Bootstraps <- MCBootstraps
  None = None
  MaxStale = 2
  MaxCall = 1
  MaxSetback = 1
  AgeBound = 6
INVARIANTS
  ServedInTime
  EnforceOutlivesOutage
  NeverAnEarlierRevision
PROPERTY FollowsPlatform
