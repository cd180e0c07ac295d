SPECIFICATION FairSpec
CONSTANTS
    MaxEvents = 3
    MaxFaults = 1
CHECK_DEADLOCK FALSE
INVARIANTS
    SentinelSound
    RecordComplete
PROPERTIES
    ImplementsJobDir
    SentinelWritten
    CancelHonoured
