SPECIFICATION Spec
CONSTANTS
    Workers = {w1, w2}
    MaxUploads = 3
    MaxBuilds = 2
    MaxRows = 2
    MaxClientRows = 1
    MaxFaults = 1
    ClientKinds <- ButlerKinds
    StoredSizes = {"short", "full"}
    HonestClients = TRUE
SYMMETRY Symmetry
INVARIANTS
    ParentIsOlder
    CompletedIsWhole
    HeadIsCompleted
    ParentIsUsable
    UpgradesResolve
    
    FailureIsWarranted
PROPERTIES
    SettledIsFinal
    ImplementsHistory
