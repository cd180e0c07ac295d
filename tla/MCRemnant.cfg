SPECIFICATION Spec
CONSTANTS
    Procs = {p1}
    Calls = {k1, k2}
    Requests = {qa}
    NoProc = NoProc
    NoCall = NoCall
    NoRequest = NoRequest
    MaxCrashes = 1
    MaxFaults = 0
CHECK_DEADLOCK FALSE
INVARIANTS
    RemnantNeverRan
