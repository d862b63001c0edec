CONSTANTS
    f1 = f1
    f2 = f2
    Files = {f1, f2}
    ClusterCount = 4
    EntriesPerSector = 8
    MaxSize = 2
    FatCount = 2
    MayFail = TRUE
    MayLosePower = FALSE
SPECIFICATION Spec
SYMMETRY FileSymmetry
INVARIANT FailedCallConsumesNothing
