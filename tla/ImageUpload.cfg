SPECIFICATION Spec
CONSTANTS
  Uploads = {u1, u2}
  NoUpload = NoUpload
  Attempts = 2
  DeclaredSize = 3
  PartSize = 2
  FileSizes <- MCFileSizes
INVARIANTS
  CompletionTilesTheImage
  ReturnedIsVerified
  LeftOpenOnlyIfAbortFailed
PROPERTY UploadEnds
CHECK_DEADLOCK FALSE
