\* Two workers, batches of one and of three items, one change of their ways; or two
\* providers, calls three deep, one change of their ways.
SPECIFICATION MeshSpec
CONSTANTS
    Tubes = 2
    Floor = 1
    Unit = 4
    Alpha <- Half
    Explore <- Eighth
    Quality = {6, 24}
    Fails = Fails
    Malforms = Malforms
    Hangs = Hangs
    BatchSizes = {1, 3}
    MaxTurns = 1
    Speeds = {6, 24}
    Broken = Broken
    Denied = Denied
    Asks = Asks
    MaxNesting = 3
    MaxChanges = 1
INVARIANTS
    IInv
    EveryItemOnce
    RouteHolds
PROPERTIES
    NobodyStarved
    FasterWins
