SPECIFICATION Spec
CONSTANTS
  IdleFrames = 2
  Retries = 2
  MaxCaptures = 3
  MaxRestarts = 1
INVARIANT TypeOK
INVARIANT NothingLost
INVARIANT UploadsWaitForQuiet
PROPERTY ImplementsOutbox
PROPERTY UploadedInTheEnd
