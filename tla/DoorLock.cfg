SPECIFICATION FairSpec
CONSTANT Calls = {"OPEN", "OPEN_ALARM", "CLOSE"}
INVARIANTS TypeOK ReportIsTrue TimerOnlyWhenOpen NoStrandedOpen RequestsConserved
PROPERTIES UnlockOnlyWhenAsked DoorLocksAgain HeldButtonOpens KeepsContract
