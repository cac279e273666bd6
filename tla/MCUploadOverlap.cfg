SPECIFICATION Spec
CONSTANTS
    Handlers = {h1, h2}
    Length = 2
    Quota = 3
    MaxInt = 7
    MaxFaults = 0
    Overlap = TRUE
SYMMETRY Symmetry
INVARIANTS
    AckedIsDurable
CHECK_DEADLOCK FALSE
