SPECIFICATION FairSpec
CONSTANTS
  Remote = {"k230", "cloud"}
  RetriggerPolls = 2
  ConfirmCnt = 2
  OnCycles = 2
  OffCycles = 2
INVARIANTS TypeOK SilentWhenStopped ConfirmedQuiet
PROPERTIES AlarmSounds AlarmEnds FluctuatingGasHeard
