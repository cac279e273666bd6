SPECIFICATION FairSpec
CONSTANTS
    Requests = {r1}
    Collectors = {g1, g2}
    NBuilds = 2
    Parent <- Chain
    MaxObjects = 4
    MaxFaults = 1
    Losable = {}
    Cancels = TRUE
PROPERTIES
    LeftoverIsSwept
    RequestsEnd
