SPECIFICATION Spec
CONSTANTS
    Callers = {c1, c2}
    Paths = {p1, p2}
    Binaries <- MCBinaries
    Ancestors <- MCAncestors
    NoPath = NoPath
    Absent = Absent
    MaxChanges = 2
CHECK_DEADLOCK FALSE
INVARIANTS
    VerdictSound
    DoctorHonest
SYMMETRY Symmetry
CONSTRAINT Apart
