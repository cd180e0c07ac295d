SPECIFICATION FairSpec
CONSTANTS
    Callers = {c1, c2}
    MaxAges = {1}
    DefaultMaxAge = 3
    MinMaxAge = 2
    Backoff = 2
    TrustAge = 2
    Low = 25
    Critical = 5
    Envelopes <- MCEnvelopes
    MaxProbes = 2
    MaxTime = 3
CHECK_DEADLOCK FALSE
INVARIANTS
    ProbesSpaced
    NoProbeAfterTurn
    AnswerHonest
    RefusalExact
PROPERTIES
    UsageReturns
