SPECIFICATION Spec
CONSTANTS
  MaxRequests = 2
  MaxTimers = 2
INVARIANT NoOrphanTimer
