SPECIFICATION Spec
CONSTANTS
    Workers = {w1, w2}
    MaxUploads = 2
    MaxBuilds = 1
    MaxRows = 2
    MaxClientRows = 1
    MaxFaults = 1
    ClientKinds <- ButlerKinds
    StoredSizes = {"full"}
    HonestClients = TRUE
SYMMETRY Symmetry
INVARIANTS
    ProcessingIsAttended
