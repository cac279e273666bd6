SPECIFICATION FairSpec
CONSTANTS
    Handlers = {h1}
    Length = 4
    Quota = 5
    MaxInt = 7
    MaxFaults = 3
    Overlap = FALSE
INVARIANTS
    TypeOK
    AckedIsDurable
PROPERTIES
    ImplementsPromise
    UploadFinishes
CHECK_DEADLOCK FALSE
