-------------------------------- MODULE Mount --------------------------------
(***************************************************************************)
(* From a device to a mounted volume: the boot sector's checks and the     *)
(* geometry that falls out of it (src/src/boot.rs), the partition table    *)
(* (src/src/mbr.rs) and the bounds a mount holds a volume to               *)
(* (src/src/fs.rs).  A sector is a record of its fields; the numbers are   *)
(* as wide as Word says.                                                   *)
(***************************************************************************)
EXTENDS Integers, Sequences

CONSTANTS SECTOR,              \* bytes in a block
          ENTRY,               \* bytes in a directory entry of FAT12 and FAT16
          TABLE_ENTRY,         \* bytes in an entry of the table
          FIRST_CLUSTER,       \* clusters are numbered from here
          MAX_FAT12_CLUSTERS, MAX_FAT16_CLUSTERS, MAX_FAT32_CLUSTERS,
          MAX_PARTITIONS,      \* entries of a partition table
          FatKinds, GptKind,   \* partition types
          Word,                \* what a u32 counts to
          Unknown              \* a size nothing reports, a hint nobody gives

ASSUME MountAssumption ==
    /\ {SECTOR, ENTRY, TABLE_ENTRY, MAX_PARTITIONS, Word} \subseteq Nat \ {0}
    /\ {FIRST_CLUSTER, MAX_FAT12_CLUSTERS, MAX_FAT16_CLUSTERS, MAX_FAT32_CLUSTERS} \subseteq Nat
    /\ MAX_FAT32_CLUSTERS + FIRST_CLUSTER + 1 < Word
    /\ GptKind \notin FatKinds
    /\ Unknown \notin Nat

Lower(a, b) == IF a < b THEN a ELSE b
SaturatingSub(a, b) == IF a < b THEN 0 ELSE a - b
Refused(why) == [ok |-> FALSE, why |-> why]

\* A count that fits the 16-bit field is there, any other in the 32-bit one.
TotalSectors(b) == IF b.total16 = 0 THEN b.total32 ELSE b.total16

PowersOfTwo == {1, 2, 4, 8, 16, 32, 64, 128}

\* What makes a sector no boot sector, in the order it is looked for.
Faults(b) == <<
    [found |-> b.short,                                   why |-> "ShortBlock"],
    [found |-> ~b.signature,                              why |-> "NotFat"],
    [found |-> b.bytesPerSector # SECTOR,                 why |-> "SectorSize"],
    [found |-> b.sectorsPerCluster \notin PowersOfTwo,    why |-> "SectorsPerCluster"],
    [found |-> b.reservedSectors = 0,                     why |-> "ReservedSectors"],
    [found |-> b.fatCount = 0,                            why |-> "FatCount"],
    [found |-> TotalSectors(b) = 0,                       why |-> "TotalSectors"]>>

\* classify_small: which format is being declined, if either.
ClassifySmall(b) ==
    LET rootSectors == (b.rootEntries * ENTRY + SECTOR - 1) \div SECTOR
        dataStart   == b.reservedSectors + b.fatCount * b.sectorsPerFat16 + rootSectors
        clusters    == SaturatingSub(TotalSectors(b), dataStart) \div b.sectorsPerCluster
    IN  Refused(CASE clusters <= MAX_FAT12_CLUSTERS -> "Fat12"
                  [] clusters \in MAX_FAT12_CLUSTERS + 1 .. MAX_FAT16_CLUSTERS -> "Fat16"
                  [] OTHER -> "ClusterCount")

\* The first sector of the data area; a release build wraps the sum.
DataStartOf(b) == (b.reservedSectors + b.fatCount * b.sectorsPerFat32) % Word

\* Mutant of Clusters: the volume's size alone decides.
ClustersUnclamped(b) == (TotalSectors(b) - DataStartOf(b)) \div b.sectorsPerCluster

\* The clusters the volume has room for and the table has entries for.
Clusters(b) ==
    LET byVolume == (TotalSectors(b) - DataStartOf(b)) \div b.sectorsPerCluster
        entries  == Lower(b.sectorsPerFat32 * (SECTOR \div TABLE_ENTRY), Word - 1)
    IN  Lower(byVolume, SaturatingSub(entries, FIRST_CLUSTER))

Geometry(b) ==
    [ok |-> TRUE, totalSectors |-> TotalSectors(b), sectorsPerCluster |-> b.sectorsPerCluster,
     sectorsPerFat |-> b.sectorsPerFat32, fatCount |-> b.fatCount,
     fatStart |-> b.reservedSectors, dataStart |-> DataStartOf(b),
     clusterCount |-> Clusters(b),
     fsInfoSector |-> IF b.fsInfoSector \in {0, 65535} THEN Unknown ELSE b.fsInfoSector]

\* BootSector::parse: the 16-bit table length classifies, never the count.
Parse(b) ==
    LET found == {k \in 1 .. 7 : Faults(b)[k].found}
        first == CHOOSE k \in found : \A j \in found : k <= j
    IN  IF found # {} THEN Refused(Faults(b)[first].why)
        ELSE IF b.sectorsPerFat16 # 0 THEN ClassifySmall(b)
        ELSE IF b.sectorsPerFat32 = 0 THEN Refused("FatLength")
        ELSE IF DataStartOf(b) >= TotalSectors(b) THEN Refused("DataBeyondVolume")
        ELSE IF Clusters(b) > MAX_FAT32_CLUSTERS THEN Refused("ClusterCount")
        ELSE Geometry(b)

IsClusterOf(boot, cluster) == cluster \in FIRST_CLUSTER .. FIRST_CLUSTER + boot.clusterCount - 1
ClusterSector(boot, cluster) ==
    boot.dataStart + (cluster - FIRST_CLUSTER) * boot.sectorsPerCluster

\* FsInfo::parse: hints that cannot be true are no hints.
FsInfo(block, boot) ==
    IF ~block.signatures THEN [freeClusters |-> Unknown, nextFree |-> Unknown]
    ELSE [freeClusters |-> IF block.free = Unknown \/ block.free > boot.clusterCount
                           THEN Unknown ELSE block.free,
          nextFree |-> IF block.next = Unknown \/ ~IsClusterOf(boot, block.next)
                       THEN Unknown ELSE block.next]

IsPartition(entry) == entry.kind # 0 /\ entry.blocks # 0 /\ entry.firstBlock # 0

\* PartitionTable::parse: the signature, four possible statuses and at least
\* one partition make a table.
IsTable(sector) ==
    /\ sector.signature
    /\ \A k \in 1 .. MAX_PARTITIONS : sector.entries[k].status \in {"inactive", "bootable"}
    /\ \E k \in 1 .. MAX_PARTITIONS : IsPartition(sector.entries[k])

\* The slots of a table that are partitions, and those a FAT is said to be in.
Partitions(sector)    == {k \in 1 .. MAX_PARTITIONS : IsPartition(sector.entries[k])}
FatPartitions(sector) == {k \in Partitions(sector) : sector.entries[k].kind \in FatKinds}

\* Mutant of Bound: a partition's length is enough.
BoundOfPartition(deviceBlocks, first, limit) ==
    IF limit # Unknown THEN first + limit ELSE deviceBlocks

\* What the volume may not reach past: the device, or what holds it.
Bound(deviceBlocks, first, limit) ==
    CASE deviceBlocks = Unknown -> IF limit = Unknown THEN Unknown ELSE first + limit
      [] limit = Unknown -> deviceBlocks
      [] OTHER -> Lower(deviceBlocks, first + limit)

\* What a mount reads besides the boot sector: the hints, if there are any,
\* and the first table as far as its clusters go.
SectorsRead(boot) ==
    LET perSector == SECTOR \div TABLE_ENTRY
        needed    == (boot.clusterCount + FIRST_CLUSTER + perSector - 1) \div perSector
    IN  ({boot.fsInfoSector} \ {Unknown}) \cup (boot.fatStart .. boot.fatStart + needed - 1)

\* mount_within.  A device is the sectors it has and the size it reports;
\* reading past its end is an error.
MountWithin(device, first, limit) ==
    LET boot  == Parse(device.sectors[first])
        bound == Bound(device.reports, first, limit)
    IN  IF first \notin DOMAIN device.sectors THEN Refused("Device")
        ELSE IF ~boot.ok THEN boot
        ELSE IF bound # Unknown /\ first + boot.totalSectors > bound
        THEN Refused("VolumeTooLarge")
        ELSE IF ~({first + sector : sector \in SectorsRead(boot)} \subseteq DOMAIN device.sectors)
        THEN Refused("Device")
        ELSE [ok |-> TRUE, boot |-> boot, firstBlock |-> first,
              fsInfo |-> IF boot.fsInfoSector = Unknown
                         THEN [freeClusters |-> Unknown, nextFree |-> Unknown]
                         ELSE FsInfo(device.sectors[first + boot.fsInfoSector], boot)]

\* mount: the volume is the whole device.
Mount(device) == MountWithin(device, 0, Unknown)

\* mount_partition: what table slot `index` describes.
MountPartition(device, index) ==
    LET entry == device.sectors[0].entries[index]
    IN  IF ~IsTable(device.sectors[0]) THEN Refused("NoPartitionTable")
        ELSE IF index \notin 1 .. MAX_PARTITIONS \/ ~IsPartition(entry)
        THEN Refused("NoSuchPartition")
        ELSE IF entry.kind = GptKind THEN Refused("NoPartitionTable")
        ELSE MountWithin(device, entry.firstBlock, entry.blocks)

\* mount_first_fat: the first partition called FAT, or the device itself.
MountFirstFat(device) ==
    LET table == device.sectors[0]
        fat   == FatPartitions(table)
        first == table.entries[CHOOSE k \in fat : \A j \in fat : k <= j]
    IN  IF ~IsTable(table) THEN Mount(device)
        ELSE IF \E k \in Partitions(table) : table.entries[k].kind = GptKind
        THEN Refused("NoPartitionTable")
        ELSE IF fat = {} THEN Refused("NoFatPartition")
        ELSE MountWithin(device, first.firstBlock, first.blocks)
=============================================================================
