CONSTANTS
    f1 = f1
    f2 = f2
    Files = {f1, f2}
    ClusterCount = 4
    EntriesPerSector = 4
    MaxSize = 2
    FatCount = 2
    MayFail = TRUE
    MayLosePower = FALSE
SPECIFICATION Spec
SYMMETRY FileSymmetry
INVARIANTS
    MemorySound
    DirtyCoversDifference
    CopiesAgree
PROPERTIES
    FlagBeforeChange
    FlagClearedLast
