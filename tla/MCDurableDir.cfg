SPECIFICATION FairSpec
CONSTANTS
    Depth = 3
    MaxProgress = 1
    MaxFaults = 2
    Rival = TRUE
CHECK_DEADLOCK FALSE
INVARIANTS
    NeverTorn
    AcknowledgedSurvives
PROPERTIES
    OrphanReaped
