CONSTANTS
    Names <- MCNames
    Aliases <- MCAliases
    PartsOf <- MCParts
    Candidates <- MCCandidates
    KeyOf <- MCKeys
    SlotsPerBlock = 2
    SlotsPerCluster = 2
    MaxClusters = 3
    MaxGrowth = 4
    f1 = f1
    f2 = f2
    Files = {f1, f2}
    MaxTroubles = 1
    MayLosePower = FALSE
SPECIFICATION Spec
SYMMETRY FileSymmetry
PROPERTIES
    RenameFreesOnlyTheOld
