SPECIFICATION FairSpec
CONSTANTS
    Procs = {p1}
    Runs = {r1, r2}
    OldConvs = {c1}
    NewConvs = {n1}
    Fresh = Fresh
    NoProc = NoProc
    NoConv = NoConv
    NoRun = NoRun
    Cap = 1
    MaxCrashes = 2
    MaxSupCrashes = 1
    MaxUnreadable = 2
CHECK_DEADLOCK FALSE
INVARIANTS
    GateExact
    RestoreCountsRecorded
    NoSelfInflictedBusy
PROPERTIES
    SlotsReturned
    RestoredReturned
