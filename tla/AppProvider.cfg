SPECIFICATION Spec
CONSTANTS
  MaxRequests = 2
  MaxTimers = 2
INVARIANT TypeOK
INVARIANT ModeIsDriven
INVARIANT TimersBelong
PROPERTY DoorLocksAfterRelease
PROPERTY FireModeOpens
