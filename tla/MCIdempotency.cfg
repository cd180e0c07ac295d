SPECIFICATION FairSpec
CONSTANTS
    Procs = {p1, p2}
    Calls = {k1, k2}
    Requests = {qa, qb}
    NoProc = NoProc
    NoCall = NoCall
    NoRequest = NoRequest
    MaxCrashes = 1
    MaxFaults = 2
CHECK_DEADLOCK FALSE
INVARIANTS
    AtMostOnce
    ReplayIsReal
    NoSelfInflictedBusy
    ClaimExact
PROPERTIES
    ClaimsReleased
