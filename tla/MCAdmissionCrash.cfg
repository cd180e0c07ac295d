SPECIFICATION Spec
CONSTANTS
    Procs = {p1, p2}
    Runs = {r1, r2}
    OldConvs = {c1}
    NewConvs = {n1}
    Fresh = Fresh
    NoProc = NoProc
    NoConv = NoConv
    NoRun = NoRun
    Cap = 1
    MaxCrashes = 2
    MaxSupCrashes = 1
    MaxUnreadable = 1
CHECK_DEADLOCK FALSE
SYMMETRY Symmetry
CONSTRAINT FewFaults
INVARIANTS
    ConversationExclusion
    ScanBlocksLiveJobs
PROPERTIES
    AdmissionRespectsCap
