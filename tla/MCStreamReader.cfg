SPECIFICATION FairStreamSpec
CONSTANTS
    Lines <- MCLines
    MaxLines = 3
    Chunk = 2
    Cap = 5
    MaxFaults = 1
CHECK_DEADLOCK FALSE
INVARIANTS
    StreamFaithful
PROPERTIES
    ReaderEnds
