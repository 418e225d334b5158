SPECIFICATION FairSpec
CONSTANTS
  Threads = {"door", "shell"}
  Open = 2
  Max = 3
INVARIANTS TypeOK BusyHasOwner ArmClosed
PROPERTY SweepEnds
