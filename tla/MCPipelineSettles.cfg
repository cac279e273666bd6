SPECIFICATION FairSpec
CONSTANTS
    Workers = {w1, w2}
    MaxUploads = 1
    MaxBuilds = 1
    MaxRows = 2
    MaxClientRows = 1
    MaxFaults = 0
    ClientKinds <- ButlerKinds
    StoredSizes = {"empty", "full"}
    HonestClients = FALSE
PROPERTIES
    FinalizedSettles
