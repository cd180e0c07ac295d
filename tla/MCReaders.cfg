SPECIFICATION FairSpec
CONSTANTS
    Tools = {t1}
    Hook = Hook
    NoTool = NoTool
    Ends <- MCEnds
    Casts <- MCCasts
    MaxText = 1
    MaxSweeps = 2
CHECK_DEADLOCK FALSE
INVARIANTS
    AnswerFinal
    AwaitSound
    SweepKeepsFresh
    NoLostWake
PROPERTIES
    HookEnds
