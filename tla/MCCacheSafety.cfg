SPECIFICATION Spec
CONSTANTS
    Requests = {r1, r2}
    Collectors = {g1}
    NBuilds = 2
    Parent <- Chain
    MaxObjects = 2
    MaxFaults = 1
    Losable = {"patch"}
    Cancels = TRUE
SYMMETRY Symmetry
INVARIANTS
    TypeOK
    UploadedIsStored
    HeadIsNotEvicted
    EvictedIsRebuildable
    LockIsExclusive
