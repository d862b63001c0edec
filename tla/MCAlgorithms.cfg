\* Small blocks, words and fields stand for 512 bytes, u32 and 8.3.
CONSTANTS
    BLOCK_SIZE = 3
    SMALL_SPAN_BLOCKS = 2
    ZERO_CHUNK = 5
    ClusterBlocks = 2
    DataStart = 1
    ClusterCount = 5
    MaxU32 = 15
    Chains <- MCChains
    Limits <- MCLimits
    Capacities = {1, 2, 3, 4}
    Moments <- MCMoments
    MaxYear = 4095
    SECTOR = 8
    ENTRY = 4
    TABLE_ENTRY = 2
    FIRST_CLUSTER = 2
    MAX_FAT12_CLUSTERS = 2
    MAX_FAT16_CLUSTERS = 4
    MAX_FAT32_CLUSTERS = 14
    MAX_PARTITIONS = 2
    FatKinds = {11, 12}
    GptKind = 238
    Word = 32
    Unknown <- MCUnknown
    BootSectors <- MCBootSectors
    Devices <- MCDevices
    BASE = 4
    EXT = 2
    CHARS_PER_SLOT = 2
    MAX_LONG_NAME = 7
    MAX_LONG_SLOTS = 4
    MAX_TAIL = 99
    Uppers <- MCUppers
    Lowers <- MCLowers
    UpperOf <- MCUpperOf
    LowerOf <- MCLowerOf
    ByteCode <- MCByteCode
    SomeNames <- MCNames
    Codepages <- MCCodepages
    Aliases <- MCAliases
    Strays <- MCStrays
    Bases <- MCBases
    Extensions <- MCExtensions
SPECIFICATION Spec
CHECK_DEADLOCK FALSE
INVARIANTS
    ReadsExactly
    WritesExactly
    RunsInsideVolume
    BridgeMovesAll
    DaysAreCalendar
    StampsReadBack
    GeometrySound
    MountedInside
    NamesReadBack
    AliasesWork
