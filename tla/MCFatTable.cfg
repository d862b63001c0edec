CONSTANTS
    ClusterCount = 5
    EntriesPerSector = 4
SPECIFICATION Spec
INVARIANTS
    TypeOK
    FreeCountExact
    NoSharedClusters
    ChainsComplete
    UsedIsHeld
PROPERTIES
    PrefixKept
    OneChainPerCall
