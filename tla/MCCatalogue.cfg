SPECIFICATION Spec
CONSTANTS
    dev = dev
    boss = boss
    k1 = k1
    k2 = k2
    Commands = {c1, c2}
    Requests = {r1, r2}
    Names = {dev, boss}
    Keys = {k1, k2}
    NoKey = NoKey
    Titles = {title}
    Channels = {linux, windows}
    NoChannel = NoChannel
    Tables <- StartTables
    Budgets <- SomeBudgets
    MaxCommands = 3
    MaxPushes = 2
    MaxFaults = 1
    Overlap = FALSE
SYMMETRY Symmetry
CHECK_DEADLOCK FALSE
INVARIANTS
    TypeOK
    KeepsToNamespace
    PushesShareRows
    
    UploadTracksHead
PROPERTIES
    CommandsAreAtomic
