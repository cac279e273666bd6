SPECIFICATION Spec
CONSTANTS
    Requests = {r1, r2}
    Collectors = {g1}
    NBuilds = 2
    Parent <- Chain
    MaxObjects = 2
    MaxFaults = 0
    Losable = {}
    Cancels = TRUE
SYMMETRY Symmetry
INVARIANTS
    RebuildingIsAttended
