SPECIFICATION Spec
CONSTANTS
    FileLength <- Files
    PieceLength = 3
    SliceLength = 2
    MinCacheSize = 2
    CacheSizes = {0, 17}
    Data = {good, bad}
    Good = good
INVARIANTS
    CachesSound
    OwnedIsGood
PROPERTIES
    ImplementsStore
