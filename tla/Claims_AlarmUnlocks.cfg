SPECIFICATION FairSpec
CONSTANT Calls = {"OPEN_ALARM", "CLOSE"}
PROPERTY AlarmUnlocks
