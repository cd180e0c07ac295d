SPECIFICATION Spec
CONSTANTS
    Codes <- MCCodes
    NoCode <- MCNoCode
CHECK_DEADLOCK FALSE
INVARIANTS
    StateAgrees
    Vouched
    NoTextLost
    QuotaExact
    AdviceFits
