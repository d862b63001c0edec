CONSTANTS
    f1 = f1
    f2 = f2
    Files = {f1, f2}
    ClusterCount = 4
    EntriesPerSector = 8
    MaxSize = 2
    FatCount = 1
    MayFail = FALSE
    MayLosePower = TRUE
SPECIFICATION Spec
INVARIANTS
    TypeOK
    DeviceSound
    NoLeakUntroubled
PROPERTIES
    StoreSpec
    CallsReturn
