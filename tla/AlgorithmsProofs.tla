-------------------------- MODULE AlgorithmsProofs --------------------------
(***************************************************************************)
(* The promises of the pure parts, for every volume and every input: which *)
(* runs read_run lets through, the geometry a boot sector is given, where a*)
(* mounted volume lies, which day a number of days is, what a timestamp    *)
(* reads back as, and what reads, writes, zeroing and the bridge move.     *)
(***************************************************************************)
EXTENDS Algorithms, WellFoundedInduction, TLAPS

\* What a behaviour's input can be, as far as these promises look at it.
InputOk ==
    /\ input.of \in {"read", "write", "zero"} =>
          /\ input.limit \in Limits /\ input.runs \in Chains
          /\ input.offset \in 0 .. FileBytes(input.runs)
          /\ input.length \in 0 .. FileBytes(input.runs) - input.offset
    /\ input.of = "stage" =>
          input.capacity \in Capacities /\ input.start \in 0 .. MaxU32 /\ input.n \in 0 .. MaxU32
    /\ input.of = "run"  => input.start \in 0 .. MaxU32 /\ input.clusters \in 0 .. MaxU32
    /\ input.of = "boot" => input.sector \in BootSectors
    /\ input.of = "device" => input.device \in Devices
    /\ input.of = "stamp" => /\ input.day \in Int
                             /\ input.rest \in Nat /\ input.rest < SecondsPerDay

\* Every input of a behaviour is one of those.
LEMMA InputsOk == Spec => []InputOk
<1>1. Init => InputOk
  BY DEF Init, InputOk, Nothing
<1>2. InputOk /\ [Next]_input => InputOk'
  <2> SUFFICES ASSUME InputOk, [Next]_input PROVE InputOk'
    OBVIOUS
  <2>1. CASE UNCHANGED input
    BY <2>1 DEF InputOk
  <2>2. CASE TransferAny
    <3>1. PICK of \in {"read", "write", "zero"}, limit \in Limits, runs \in Chains :
             \E offset \in 0 .. FileBytes(runs) :
                 \E length \in 0 .. FileBytes(runs) - offset :
                     input' = [of |-> of, limit |-> limit, runs |-> runs,
                               offset |-> offset, length |-> length]
      BY <2>2, Zenon DEF TransferAny
    <3>2. PICK offset \in 0 .. FileBytes(runs) :
             \E length \in 0 .. FileBytes(runs) - offset :
                 input' = [of |-> of, limit |-> limit, runs |-> runs,
                           offset |-> offset, length |-> length]
      BY <3>1
    <3>3. PICK length \in 0 .. FileBytes(runs) - offset :
             input' = [of |-> of, limit |-> limit, runs |-> runs,
                       offset |-> offset, length |-> length]
      BY <3>2
    <3>. QED
      BY <3>3 DEF InputOk
  <2>3. CASE ReadRunAny
    BY <2>3 DEF ReadRunAny, InputOk
  <2>4. CASE StageAny
    BY <2>4 DEF StageAny, InputOk
  <2>5. CASE StampAny
    <3>1. PICK moment \in Moments :
             input' = [of |-> "stamp", day |-> moment.day, rest |-> moment.rest]
      BY <2>5 DEF StampAny
    <3>2. moment \in [day : Int, rest : 0 .. SecondsPerDay - 1]
      BY MomentsAssumption
    <3>3. moment.day \in Int /\ moment.rest \in 0 .. SecondsPerDay - 1
      BY <3>2
    <3>4. moment.rest \in Nat /\ moment.rest < SecondsPerDay
      <4>1. SecondsPerDay \in Nat
        BY SMT DEF SecondsPerDay
      <4>. QED
        BY <3>3, <4>1
    <3>. QED
      BY <3>1, <3>3, <3>4 DEF InputOk
  <2>6. CASE ParseAny
    BY <2>6 DEF ParseAny, InputOk
  <2>7. CASE MountAny
    BY <2>7 DEF MountAny, InputOk
  <2>8. CASE NameAny
    BY <2>8 DEF NameAny, InputOk
  <2>9. CASE AliasAny
    BY <2>9 DEF AliasAny, InputOk
  <2>. QED
    BY <2>1, <2>2, <2>3, <2>4, <2>5, <2>6, <2>7, <2>8, <2>9 DEF Next
<1>. QED
  BY <1>1, <1>2, PTL DEF Spec

-----------------------------------------------------------------------------
(***************************************************************************)
(* read_run.                                                               *)
(***************************************************************************)

\* The two ends say it all, because the last cluster of the volume is far
\* from where its word wraps.
LEMMA EndsDecide ==
    ASSUME NEW start \in 0 .. MaxU32, NEW clusters \in 0 .. MaxU32
    PROVE  AcceptsRun(start, clusters)
               <=> \A k \in 0 .. clusters - 1 : IsValidCluster(start + k)
<1>1. MaxU32 \in Nat /\ ClusterCount \in Nat /\ ClusterCount + 1 <= MaxU32
  BY TransferAssumption
<1>2. CASE clusters = 0
  BY <1>2 DEF AcceptsRun
<1>3. CASE clusters # 0
  <2>1. ASSUME AcceptsRun(start, clusters), NEW k \in 0 .. clusters - 1
        PROVE  IsValidCluster(start + k)
    BY <1>1, <1>3, <2>1 DEF AcceptsRun, IsValidCluster, Least
  <2>2. ASSUME \A k \in 0 .. clusters - 1 : IsValidCluster(start + k)
        PROVE  AcceptsRun(start, clusters)
    <3>1. IsValidCluster(start + 0) /\ IsValidCluster(start + (clusters - 1))
      BY <1>3, <2>2
    <3>. QED
      BY <1>1, <1>3, <3>1 DEF AcceptsRun, IsValidCluster, Least
  <2>. QED
    BY <2>1, <2>2
<1>. QED
  BY <1>2, <1>3

\* read_run takes the runs that lie in the volume and no others, for volumes
\* and runs of any size.
THEOREM RunsInside == Spec => []RunsInsideVolume
<1>1. InputOk => RunsInsideVolume
  BY EndsDecide DEF InputOk, RunsInsideVolume
<1>. QED
  BY <1>1, InputsOk, PTL

-----------------------------------------------------------------------------
(***************************************************************************)
(* BootSector::parse.                                                      *)
(***************************************************************************)

\* Division by each of the cluster sizes the code accepts.
LEMMA DivideByPower ==
    ASSUME NEW n \in Nat, NEW d \in PowersOfTwo
    PROVE  /\ n \div d \in Nat
           /\ (n \div d) * d <= n
           /\ n < (n \div d + 1) * d
BY DEF PowersOfTwo

\* The sums of a sector's fields are numbers.
LEMMA SumTypes ==
    ASSUME NEW b, IsSector(b)
    PROVE  /\ TotalSectors(b) \in Nat /\ DataStartOf(b) \in Nat
           /\ b.sectorsPerFat32 * (SECTOR \div TABLE_ENTRY) \in Nat
<1>1. /\ b.reservedSectors \in Nat /\ b.fatCount \in Nat /\ b.sectorsPerFat32 \in Nat
      /\ b.total16 \in Nat /\ b.total32 \in Nat
  BY DEF IsSector
<1>2. SECTOR \in Nat /\ TABLE_ENTRY \in Nat \ {0} /\ Word \in Nat \ {0}
  BY MountAssumption
<1>3. TotalSectors(b) \in Nat
  BY <1>1 DEF TotalSectors
<1>4. b.fatCount * b.sectorsPerFat32 \in Nat
  BY <1>1
<1>5. DataStartOf(b) \in Nat
  BY <1>1, <1>2, <1>4 DEF DataStartOf
<1>6. SECTOR \div TABLE_ENTRY \in Nat
  BY <1>2
<1>. QED
  BY <1>1, <1>3, <1>5, <1>6

\* The count of clusters is the largest for which they lie in the volume and
\* have their entries in the table.
LEMMA LargestCount ==
    ASSUME NEW b, IsSector(b), b.sectorsPerCluster \in PowersOfTwo,
           DataStartOf(b) < TotalSectors(b), Clusters(b) <= MAX_FAT32_CLUSTERS
    PROVE  LET Holds(n) == /\ DataStartOf(b) + n * b.sectorsPerCluster <= TotalSectors(b)
                           /\ n + FIRST_CLUSTER <= b.sectorsPerFat32 * (SECTOR \div TABLE_ENTRY)
           IN  /\ Clusters(b) \in Nat
               /\ Clusters(b) > 0 => Holds(Clusters(b))
               /\ ~Holds(Clusters(b) + 1)
<1> DEFINE room     == TotalSectors(b) - DataStartOf(b)
           byVolume == room \div b.sectorsPerCluster
           entries  == b.sectorsPerFat32 * (SECTOR \div TABLE_ENTRY)
           byTable  == SaturatingSub(Lower(entries, Word - 1), FIRST_CLUSTER)
<1>1. /\ Word \in Nat /\ FIRST_CLUSTER \in Nat /\ MAX_FAT32_CLUSTERS \in Nat
      /\ MAX_FAT32_CLUSTERS + FIRST_CLUSTER + 1 < Word
  BY MountAssumption
<1>2. TotalSectors(b) \in Nat /\ DataStartOf(b) \in Nat /\ room \in Nat /\ entries \in Nat
  BY SumTypes
<1>3. /\ byVolume \in Nat
      /\ byVolume * b.sectorsPerCluster <= room
      /\ room < (byVolume + 1) * b.sectorsPerCluster
  BY <1>2, DivideByPower
<1>4. Clusters(b) = Lower(byVolume, byTable)
  BY DEF Clusters
<1>. HIDE DEF room, byVolume, entries
<1>5. byTable \in Nat /\ Clusters(b) \in Nat
  BY <1>1, <1>2, <1>3, <1>4 DEF Lower, SaturatingSub
<1>6. b.sectorsPerCluster \in Nat /\ b.sectorsPerCluster > 0
  BY DEF PowersOfTwo
<1>7. \A m, n \in Nat : m <= n => m * b.sectorsPerCluster <= n * b.sectorsPerCluster
  BY DEF PowersOfTwo
<1>8. /\ Clusters(b) <= byVolume /\ Clusters(b) <= byTable
      /\ Clusters(b) = byVolume \/ Clusters(b) = byTable
  BY <1>3, <1>4, <1>5 DEF Lower
<1>9. ASSUME Clusters(b) > 0
      PROVE  /\ Clusters(b) * b.sectorsPerCluster <= room
             /\ Clusters(b) + FIRST_CLUSTER <= entries
  <2>1. Clusters(b) * b.sectorsPerCluster <= byVolume * b.sectorsPerCluster
    BY <1>3, <1>5, <1>7, <1>8
  <2>2. byTable > 0
    BY <1>5, <1>8, <1>9
  <2>3. Clusters(b) + FIRST_CLUSTER <= entries
    BY <1>1, <1>2, <1>5, <1>8, <2>2 DEF SaturatingSub, Lower
  <2>4. Clusters(b) * b.sectorsPerCluster \in Nat /\ byVolume * b.sectorsPerCluster \in Nat
    BY <1>3, <1>5, <1>6
  <2>. QED
    BY <1>2, <1>3, <2>1, <2>3, <2>4
<1>10. \/ (Clusters(b) + 1) * b.sectorsPerCluster > room
       \/ Clusters(b) + 1 + FIRST_CLUSTER > entries
  <2>1. CASE Clusters(b) = byVolume
    BY <1>2, <1>3, <1>6, <2>1
  <2>2. CASE Clusters(b) = byTable
    BY <1>1, <1>2, <1>5, <2>2 DEF SaturatingSub, Lower
  <2>. QED
    BY <1>8, <2>1, <2>2
<1>11. \A n \in Nat : n * b.sectorsPerCluster \in Nat
  BY <1>6
<1>12. \A n \in Nat : n * b.sectorsPerCluster <= room
                        <=> DataStartOf(b) + n * b.sectorsPerCluster <= TotalSectors(b)
  <2>1. \A n \in Nat : n <= room <=> DataStartOf(b) + n <= TotalSectors(b)
    BY SumTypes DEF room
  <2>. QED
    BY <1>11, <2>1
<1>13. \A n \in Nat : n * b.sectorsPerCluster > room <=> ~(n * b.sectorsPerCluster <= room)
  BY <1>2, <1>11
<1>14. Clusters(b) + 1 + FIRST_CLUSTER > entries
          => ~(Clusters(b) + 1 + FIRST_CLUSTER <= entries)
  BY <1>1, <1>2, <1>5
<1>15. Clusters(b) + 1 \in Nat
  BY <1>5
<1>. QED
  BY <1>5, <1>9, <1>10, <1>12, <1>13, <1>14, <1>15 DEF entries

\* What parse has looked at by the time it accepts a sector.
LEMMA Accepted ==
    ASSUME NEW b, IsSector(b), Parse(b).ok
    PROVE  /\ Parse(b) = Geometry(b)
           /\ b.sectorsPerCluster \in PowersOfTwo
           /\ b.reservedSectors # 0
           /\ b.sectorsPerFat16 = 0
           /\ DataStartOf(b) < TotalSectors(b)
           /\ Clusters(b) <= MAX_FAT32_CLUSTERS
<1>1. \A k \in 1 .. 7 : ~Faults(b)[k].found
  BY Zenon DEF Parse, Refused
<1>2. b.sectorsPerFat16 = 0
  BY <1>1, Zenon DEF Parse, ClassifySmall, Refused
<1>3. /\ Parse(b) = Geometry(b)
      /\ ~(DataStartOf(b) >= TotalSectors(b))
      /\ ~(Clusters(b) > MAX_FAT32_CLUSTERS)
  BY <1>1, <1>2, Zenon DEF Parse, Refused
<1>4. ~Faults(b)[4].found /\ ~Faults(b)[5].found
  BY <1>1
<1>5. b.sectorsPerCluster \in PowersOfTwo /\ b.reservedSectors # 0
  BY <1>4 DEF Faults
<1>6. DataStartOf(b) < TotalSectors(b)
  BY <1>3, SumTypes
<1>7. Clusters(b) \in Nat
  <2>1. TotalSectors(b) - DataStartOf(b) \in Nat
    BY <1>6, SumTypes
  <2>2. (TotalSectors(b) - DataStartOf(b)) \div b.sectorsPerCluster \in Nat
    BY <1>5, <2>1, DivideByPower
  <2>. QED
    BY <2>2, SumTypes, MountAssumption DEF Clusters, Lower, SaturatingSub
<1>. QED
  BY <1>2, <1>3, <1>5, <1>6, <1>7, MountAssumption

\* Some numbers have a least.
LEMMA LeastOfSome ==
    ASSUME NEW S, S \subseteq Nat, S # {}
    PROVE  \E x \in S : \A y \in S : x <= y
<1>1. PICK x \in S : \A y \in S : ~(<<y, x>> \in OpToRel(<, Nat))
  BY NatLessThanWellFounded, WFMin, Zenon
<1>2. \A y \in S : x \in Nat /\ y \in Nat /\ ~(y < x)
  BY <1>1 DEF OpToRel
<1>. QED
  BY <1>2

\* A sector that is declined as FAT12 or FAT16 has a 16-bit table length.
LEMMA Declined ==
    ASSUME NEW b, IsSector(b), ~Parse(b).ok, Parse(b).why \in {"Fat12", "Fat16"}
    PROVE  b.sectorsPerFat16 # 0
<1>1. \A k \in 1 .. 7 : ~Faults(b)[k].found
  <2> SUFFICES ASSUME NEW j \in 1 .. 7, Faults(b)[j].found PROVE FALSE
    OBVIOUS
  <2> DEFINE found == {k \in 1 .. 7 : Faults(b)[k].found}
             first == CHOOSE k \in found : \A i \in found : k <= i
  <2>1. \A k \in 1 .. 7 : Faults(b)[k].why \notin {"Fat12", "Fat16"}
    BY DEF Faults
  <2>2. Parse(b) = Refused(Faults(b)[first].why)
    BY Zenon DEF Parse
  <2>3. found # {} /\ found \subseteq Nat
    OBVIOUS
  <2>4. \E k \in found : \A i \in found : k <= i
    <3> HIDE DEF found
    <3>. QED
      BY <2>3, LeastOfSome
  <2>5. first \in 1 .. 7
    BY <2>4
  <2>. QED
    BY <2>1, <2>2, <2>5 DEF Refused
<1>. QED
  BY <1>1 DEF Parse, Refused, Geometry

\* Of a sector that is accepted and whose sum fits, the tables end where the
\* data begins, and the count of clusters is as large as it can be and no
\* larger, whatever its fields and however wide its numbers.
THEOREM GeometryIsSound == Spec => []GeometrySound
<1>1. InputOk => GeometrySound
  <2> SUFFICES ASSUME InputOk, input.of = "boot"
               PROVE  GeometrySound
    BY DEF GeometrySound
  <2> DEFINE b == input.sector
  <2>1. IsSector(b)
    BY BootSectorsAssumption DEF InputOk
  <2>. HIDE DEF b
  <2>2. ASSUME Parse(b).ok, SumFits(b)
        PROVE  /\ b.sectorsPerFat16 = 0
               /\ 0 < Parse(b).fatStart
               /\ Parse(b).dataStart = Parse(b).fatStart + Parse(b).fatCount * Parse(b).sectorsPerFat
               /\ LET Holds(n) == /\ Parse(b).dataStart + n * b.sectorsPerCluster <= Parse(b).totalSectors
                                  /\ n + FIRST_CLUSTER <= Parse(b).sectorsPerFat * (SECTOR \div TABLE_ENTRY)
                  IN  /\ Parse(b).clusterCount > 0 => Holds(Parse(b).clusterCount)
                      /\ ~Holds(Parse(b).clusterCount + 1)
    <3>1. /\ Parse(b) = Geometry(b)
          /\ b.sectorsPerCluster \in PowersOfTwo
          /\ b.reservedSectors # 0
          /\ b.sectorsPerFat16 = 0
          /\ DataStartOf(b) < TotalSectors(b)
          /\ Clusters(b) <= MAX_FAT32_CLUSTERS
      BY <2>1, <2>2, Accepted
    <3>2. /\ b.reservedSectors \in Nat /\ b.fatCount \in Nat /\ b.sectorsPerFat32 \in Nat
      BY <2>1 DEF IsSector
    <3>3. b.fatCount * b.sectorsPerFat32 \in Nat
      BY <3>2
    <3>4. DataStartOf(b) = b.reservedSectors + b.fatCount * b.sectorsPerFat32
      <4>1. \A n \in Nat, w \in Nat \ {0} : n < w => n % w = n
        OBVIOUS
      <4>2. b.reservedSectors + b.fatCount * b.sectorsPerFat32 \in Nat
        BY <3>2, <3>3
      <4>. QED
        BY <2>2, <4>1, <4>2, MountAssumption, Zenon DEF DataStartOf, SumFits
    <3>. QED
      BY <2>1, <3>1, <3>2, <3>4, LargestCount DEF Geometry
  <2>. QED
    BY <2>1, <2>2, Declined DEF GeometrySound, b
<1>. QED
  BY <1>1, InputsOk, PTL

-----------------------------------------------------------------------------
(***************************************************************************)
(* mount, mount_partition and mount_first_fat.                             *)
(***************************************************************************)

\* The last cluster of an accepted sector ends where the volume does at the
\* latest, if the sum that places the data area fits its word or not.
LEMMA LastCluster ==
    ASSUME NEW b, IsSector(b), Parse(b).ok, Parse(b).clusterCount > 0
    PROVE  /\ ClusterSector(Parse(b), FIRST_CLUSTER + Parse(b).clusterCount - 1) \in Nat
           /\ Parse(b).sectorsPerCluster \in Nat
           /\ ClusterSector(Parse(b), FIRST_CLUSTER + Parse(b).clusterCount - 1)
                 + Parse(b).sectorsPerCluster <= Parse(b).totalSectors
<1> DEFINE n == Clusters(b)
           each == b.sectorsPerCluster
           start == DataStartOf(b)
           total == TotalSectors(b)
<1>1. /\ Parse(b) = Geometry(b)
      /\ each \in PowersOfTwo
      /\ start < total
      /\ n <= MAX_FAT32_CLUSTERS
  BY Accepted
<1>2. /\ Parse(b).clusterCount = n /\ Parse(b).sectorsPerCluster = each
      /\ Parse(b).dataStart = start /\ Parse(b).totalSectors = total
  BY <1>1 DEF Geometry
<1>3. n \in Nat /\ start + n * each <= total
  BY <1>1, <1>2, LargestCount
<1>4. start \in Nat /\ total \in Nat
  BY SumTypes
<1>5. each \in Nat
  BY <1>1 DEF PowersOfTwo
<1>6. ClusterSector(Parse(b), FIRST_CLUSTER + Parse(b).clusterCount - 1)
         = Parse(b).dataStart
              + ((FIRST_CLUSTER + Parse(b).clusterCount - 1) - FIRST_CLUSTER)
                   * Parse(b).sectorsPerCluster
  BY Zenon DEF ClusterSector
<1>7. n > 0
  BY <1>2
<1>. HIDE DEF n, each, start, total
<1>8. (FIRST_CLUSTER + Parse(b).clusterCount - 1) - FIRST_CLUSTER = n - 1 /\ n - 1 \in Nat
  BY <1>2, <1>3, <1>7, MountAssumption
<1>9. (n - 1) * each \in Nat /\ (n - 1) * each + each = n * each
  BY <1>3, <1>5, <1>7
<1>. QED
  BY <1>2, <1>3, <1>4, <1>5, <1>6, <1>8, <1>9

\* What holds of every volume that mount_within gives, whatever it was told
\* to hold the volume to.
LEMMA Within ==
    ASSUME NEW device \in Devices, NEW first \in Nat, NEW limit \in Nat \cup {Unknown},
           NEW mounted, mounted = MountWithin(device, first, limit), mounted.ok
    PROVE  /\ mounted.firstBlock = first
           /\ InDevice(device, mounted)
           /\ limit # Unknown => Inside(device, mounted, first + limit)
<1> DEFINE b == device.sectors[first]
           boot == Parse(b)
           bound == Bound(device.reports, first, limit)
           hints == IF boot.fsInfoSector = Unknown
                    THEN [freeClusters |-> Unknown, nextFree |-> Unknown]
                    ELSE FsInfo(device.sectors[first + boot.fsInfoSector], boot)
<1>1. /\ first \in DOMAIN device.sectors
      /\ boot.ok
      /\ ~(bound # Unknown /\ first + boot.totalSectors > bound)
      /\ {first + sector : sector \in SectorsRead(boot)} \subseteq DOMAIN device.sectors
      /\ mounted = [ok |-> TRUE, boot |-> boot, firstBlock |-> first, fsInfo |-> hints]
  BY Zenon DEF MountWithin, Refused
<1>2. mounted.boot = boot /\ mounted.firstBlock = first /\ mounted.fsInfo = hints
  BY <1>1
<1>3. IsSector(b) /\ device.reports \in Nat \cup {Unknown}
  BY <1>1, DevicesAssumption
<1>. HIDE DEF b
<1>4. /\ boot = Geometry(b)
      /\ b.sectorsPerCluster \in PowersOfTwo
      /\ DataStartOf(b) < TotalSectors(b)
      /\ Clusters(b) <= MAX_FAT32_CLUSTERS
  BY <1>1, <1>3, Accepted
<1>5. boot.clusterCount \in Nat /\ boot.totalSectors \in Nat
  BY <1>3, <1>4, LargestCount, SumTypes DEF Geometry
<1>6. boot.clusterCount > 0 =>
         /\ ClusterSector(boot, FIRST_CLUSTER + boot.clusterCount - 1) \in Nat
         /\ boot.sectorsPerCluster \in Nat
         /\ ClusterSector(boot, FIRST_CLUSTER + boot.clusterCount - 1)
               + boot.sectorsPerCluster <= boot.totalSectors
  BY <1>1, <1>3, LastCluster
<1>7. boot.fsInfoSector = Unknown \/ boot.fsInfoSector \in Nat
  BY <1>3, <1>4 DEF Geometry, IsSector
<1>. HIDE DEF boot, hints
<1>8. ASSUME NEW end \in Nat, first + boot.totalSectors <= end
      PROVE  Inside(device, mounted, end)
  <2>1. ASSUME boot.clusterCount > 0
        PROVE  first + ClusterSector(boot, FIRST_CLUSTER + boot.clusterCount - 1)
                 + boot.sectorsPerCluster <= end
    BY <1>5, <1>6, <1>8, <2>1
  <2>. QED
    BY <1>2, <1>8, <2>1, Zenon DEF Inside
<1>9. device.reports # Unknown => Inside(device, mounted, device.reports)
  <2> SUFFICES ASSUME device.reports # Unknown
               PROVE  first + boot.totalSectors <= device.reports
    BY <1>3, <1>8
  <2>1. bound \in Nat /\ bound <= device.reports
    BY <1>3, MountAssumption DEF Bound, Lower
  <2>. QED
    BY <1>1, <1>3, <1>5, <2>1, MountAssumption
<1>10. limit # Unknown => Inside(device, mounted, first + limit)
  <2> SUFFICES ASSUME limit # Unknown
               PROVE  first + boot.totalSectors <= first + limit
    BY <1>8
  <2>1. bound \in Nat /\ bound <= first + limit
    BY <1>3, MountAssumption DEF Bound, Lower
  <2>. QED
    BY <1>1, <1>5, <2>1, MountAssumption
<1>11. /\ hints.freeClusters # Unknown => hints.freeClusters <= boot.clusterCount
       /\ hints.nextFree # Unknown => IsClusterOf(boot, hints.nextFree)
  <2>1. CASE boot.fsInfoSector = Unknown
    BY <2>1 DEF hints
  <2>2. CASE boot.fsInfoSector # Unknown
    <3> DEFINE block == device.sectors[first + boot.fsInfoSector]
    <3>1. hints = FsInfo(block, boot)
      BY <2>2 DEF hints
    <3>2. boot.fsInfoSector \in SectorsRead(boot)
      BY <2>2 DEF SectorsRead
    <3>3. first + boot.fsInfoSector \in DOMAIN device.sectors
      BY <1>1, <3>2
    <3>4. block.free = Unknown \/ block.free \in Nat
      BY <3>3, DevicesAssumption
    <3>. HIDE DEF block
    <3>. QED
      <4>1. /\ hints.freeClusters # Unknown =>
                 /\ hints.freeClusters = block.free /\ block.free # Unknown
                 /\ ~(block.free > boot.clusterCount)
            /\ hints.nextFree # Unknown => IsClusterOf(boot, hints.nextFree)
        BY <3>1, Zenon DEF FsInfo
      <4>. QED
        BY <1>5, <3>4, <4>1
  <2>. QED
    BY <2>1, <2>2
<1>. QED
  BY <1>2, <1>9, <1>10, <1>11, Zenon DEF InDevice

\* A mounted volume fits the device and the partition it was found in, down
\* to its last cluster, and its hints name what it has, for every device and
\* every table; mount_first_fat takes a FAT partition of a table that is no
\* placeholder and the whole device only without a table.
THEOREM MountsInside == Spec => []MountedInside
<1>1. InputOk => MountedInside
  <2> SUFFICES ASSUME InputOk, input.of = "device"
               PROVE  MountedInside
    BY DEF MountedInside
  <2> DEFINE device  == input.device
             table   == device.sectors[0]
             entries == table.entries
             first   == MountFirstFat(device)
  <2>1. device \in Devices
    BY DEF InputOk
  <2>. HIDE DEF device
  <2>2. /\ DOMAIN entries = 1 .. MAX_PARTITIONS
        /\ \A k \in 1 .. MAX_PARTITIONS : entries[k].firstBlock \in Nat /\ entries[k].blocks \in Nat
    BY <2>1, DevicesAssumption
  <2>3. /\ Mount(device).ok => InDevice(device, Mount(device))
        /\ Mount(device).ok => Mount(device).firstBlock = 0
    <3>1. Mount(device) = MountWithin(device, 0, Unknown)
      BY DEF Mount
    <3>2. ASSUME NEW mounted, mounted = MountWithin(device, 0, Unknown), mounted.ok
          PROVE  InDevice(device, mounted) /\ mounted.firstBlock = 0
      <4>1. PICK at \in Nat, limit \in Nat \cup {Unknown} : at = 0 /\ limit = Unknown
        OBVIOUS
      <4>2. mounted = MountWithin(device, at, limit)
        BY <3>2, <4>1
      <4>3. mounted.firstBlock = at /\ InDevice(device, mounted)
        BY <2>1, <3>2, <4>2, Within
      <4>. QED
        BY <4>1, <4>3
    <3>. QED
      BY <3>1, <3>2
  <2>4. ASSUME NEW k \in 1 .. MAX_PARTITIONS,
               NEW mounted,
               mounted = MountWithin(device, entries[k].firstBlock, entries[k].blocks),
               mounted.ok
        PROVE  InDevice(device, mounted) /\ InPartition(device, mounted, entries[k])
    <3>1. entries[k].firstBlock \in Nat /\ entries[k].blocks \in Nat /\ entries[k].blocks # Unknown
      BY <2>2, MountAssumption
    <3>. HIDE DEF entries
    <3>2. /\ mounted.firstBlock = entries[k].firstBlock
          /\ InDevice(device, mounted)
          /\ Inside(device, mounted, entries[k].firstBlock + entries[k].blocks)
      BY <2>1, <2>4, <3>1, Within
    <3>. QED
      BY <3>2 DEF InPartition
  <2>5. ASSUME NEW k \in 1 .. MAX_PARTITIONS + 1, MountPartition(device, k).ok
        PROVE  /\ InDevice(device, MountPartition(device, k))
               /\ InPartition(device, MountPartition(device, k), entries[k])
               /\ entries[k].kind # GptKind
    <3>1. /\ k \in 1 .. MAX_PARTITIONS
          /\ entries[k].kind # GptKind
          /\ MountPartition(device, k)
                = MountWithin(device, entries[k].firstBlock, entries[k].blocks)
      BY <2>5, Zenon DEF MountPartition, Refused
    <3>. QED
      BY <2>4, <2>5, <3>1
  <2>6. ASSUME first.ok
        PROVE  /\ InDevice(device, first)
               /\ \/ ~IsTable(table) /\ first.firstBlock = 0
                  \/ /\ \A k \in DOMAIN entries : IsPartition(entries[k]) => entries[k].kind # GptKind
                     /\ \E k \in DOMAIN entries :
                           IsPartition(entries[k]) /\ entries[k].kind \in FatKinds
                             /\ InPartition(device, first, entries[k])
    <3>1. CASE ~IsTable(table)
      BY <2>3, <2>6, <3>1 DEF MountFirstFat
    <3>2. CASE IsTable(table)
      <4> DEFINE fat   == FatPartitions(table)
                 least == CHOOSE k \in fat : \A j \in fat : k <= j
      <4>1. /\ ~ \E k \in Partitions(table) : entries[k].kind = GptKind
            /\ fat # {}
            /\ first = MountWithin(device, entries[least].firstBlock, entries[least].blocks)
        BY <2>6, <3>2, Zenon DEF MountFirstFat, Refused
      <4>2. fat \subseteq Nat
        BY DEF FatPartitions, Partitions
      <4>3. least \in fat
        <5>1. \E k \in fat : \A j \in fat : k <= j
          <6>. HIDE DEF fat
          <6>. QED
            BY <4>1, <4>2, LeastOfSome
        <5>. QED
          BY <5>1
      <4>. HIDE DEF least
      <4>4. /\ least \in 1 .. MAX_PARTITIONS
            /\ IsPartition(entries[least]) /\ entries[least].kind \in FatKinds
        BY <4>3 DEF FatPartitions, Partitions
      <4>5. InDevice(device, first) /\ InPartition(device, first, entries[least])
        <5>. HIDE DEF first
        <5>. QED
          BY <2>4, <2>6, <4>1, <4>4
      <4>6. \A k \in DOMAIN entries : IsPartition(entries[k]) => entries[k].kind # GptKind
        BY <2>2, <4>1 DEF Partitions
      <4>. QED
        BY <2>2, <4>4, <4>5, <4>6
    <3>. QED
      BY <3>1, <3>2
  <2>. QED
    BY <2>3, <2>5, <2>6, Zenon DEF MountedInside, device
<1>. QED
  BY <1>1, InputsOk, PTL

-----------------------------------------------------------------------------
(***************************************************************************)
(* civil_from_days and days_from_civil.                                    *)
(***************************************************************************)

\* The days of the years before March year y, counted from March of year 0.
YearStart(y) == 365 * y + y \div 4 - y \div 100 + y \div 400

\* A March year is 366 days long if the February it ends with has 29.
YearLength(y) == IF IsLeapYear(y + 1) THEN 366 ELSE 365

\* A March year starts where the one before it ends.
LEMMA YearsFollow ==
    ASSUME NEW y \in Int
    PROVE  YearStart(y + 1) = YearStart(y) + YearLength(y)
<1>1. (y + 1) \div 4 = y \div 4 + (IF (y + 1) % 4 = 0 THEN 1 ELSE 0)
  BY SMT
<1>2. (y + 1) \div 100 = y \div 100 + (IF (y + 1) % 100 = 0 THEN 1 ELSE 0)
  BY SMT
<1>3. (y + 1) \div 400 = y \div 400 + (IF (y + 1) % 400 = 0 THEN 1 ELSE 0)
  BY SMT
<1>4. /\ (y + 1) % 100 = 0 => (y + 1) % 4 = 0
      /\ (y + 1) % 400 = 0 => (y + 1) % 100 = 0
  BY SMT
<1>5. /\ y \div 4 \in Int /\ y \div 100 \in Int /\ y \div 400 \in Int
  BY SMT
<1>. QED
  BY <1>1, <1>2, <1>3, <1>4, <1>5 DEF YearStart, YearLength, IsLeapYear

\* A year by its place in 400 years, their centuries and those' four years,
\* and the days before it.
YearAt(e, c, q, r)     == 400 * e + 100 * c + 4 * q + r
DaysBefore(e, c, q, r) == 146097 * e + 36524 * c + 1461 * q + 365 * r

\* A March year by its place in 400 years, in their centuries, in those'
\* four years.
LEMMA YearParts ==
    ASSUME NEW y \in Int
    PROVE  \E e \in Int, c \in 0 .. 3, q \in 0 .. 24, r \in 0 .. 3 :
              y = YearAt(e, c, q, r)
<1>1. y \div 400 \in Int /\ y - 400 * (y \div 400) \in 0 .. 399
  BY SMT
<1>2. PICK e \in Int, m \in 0 .. 399 : y = 400 * e + m
  BY <1>1
<1>3. m \div 100 \in 0 .. 3 /\ m - 100 * (m \div 100) \in 0 .. 99
  BY <1>2
<1>4. PICK c \in 0 .. 3, n \in 0 .. 99 : m = 100 * c + n
  BY <1>3
<1>5. n \div 4 \in 0 .. 24 /\ n - 4 * (n \div 4) \in 0 .. 3
  BY <1>4
<1>6. PICK q \in 0 .. 24, r \in 0 .. 3 : n = 4 * q + r
  BY <1>5
<1>7. y = YearAt(e, c, q, r)
  BY <1>2, <1>4, <1>6 DEF YearAt
<1>. QED
  BY <1>7

\* The year's start and its length in those parts.
LEMMA PartsStart ==
    ASSUME NEW e \in Int, NEW c \in 0 .. 3, NEW q \in 0 .. 24, NEW r \in 0 .. 3,
           NEW y, y = YearAt(e, c, q, r)
    PROVE  /\ YearStart(y) = DaysBefore(e, c, q, r)
           /\ IsLeapYear(y + 1) <=> r = 3 /\ (q # 24 \/ c = 3)
<1>1. y \div 4 = 100 * e + 25 * c + q
  BY SMT DEF YearAt
<1>2. y \div 100 = 4 * e + c
  BY SMT DEF YearAt
<1>3. y \div 400 = e
  BY SMT DEF YearAt
<1>4. YearStart(y) = DaysBefore(e, c, q, r)
  BY <1>1, <1>2, <1>3, SMT DEF YearStart, DaysBefore, YearAt
<1>5. (y + 1) % 4 = 0 <=> r = 3
  BY SMT DEF YearAt
<1>6. (y + 1) % 100 = 0 <=> r = 3 /\ q = 24
  BY SMT DEF YearAt
<1>7. (y + 1) % 400 = 0 <=> r = 3 /\ q = 24 /\ c = 3
  BY SMT DEF YearAt
<1>. QED
  BY <1>4, <1>5, <1>6, <1>7 DEF IsLeapYear


\* Every day falls in a March year: the eras, centuries, four years and years
\* that have passed, and the days of its own year.
LEMMA DayInYear ==
    ASSUME NEW at \in Int
    PROVE  \E y \in Int, t \in Nat : at = YearStart(y) + t /\ t < YearLength(y)
<1>1. at \div 146097 \in Int /\ 0 <= at - 146097 * (at \div 146097) /\ at - 146097 * (at \div 146097) < 146097
  BY SMT
<1>2. PICK e \in Int, doe \in Nat : at = 146097 * e + doe /\ doe < 146097
  BY <1>1, SMT
<1>3. PICK c \in 0 .. 3, d \in Nat :
         doe = 36524 * c + d /\ d <= 36524 /\ (d = 36524 => c = 3)
  <2>1. CASE doe = 146096
    <3>1. doe = 36524 * 3 + 36524
      BY <2>1, SMT
    <3>2. 3 \in 0 .. 3 /\ 36524 \in Nat
      BY SMT
    <3>. QED
      BY <3>1, <3>2, SMT
  <2>2. CASE doe < 146096
    <3>1. /\ doe \div 36524 \in 0 .. 3
            /\ 0 <= doe - 36524 * (doe \div 36524) /\ doe - 36524 * (doe \div 36524) < 36524
      BY <2>2, SMT
    <3>. QED
      BY <3>1, SMT
  <2>. QED
    BY <1>2, <2>1, <2>2, SMT
<1>4. /\ d \div 1461 \in 0 .. 24
      /\ 0 <= d - 1461 * (d \div 1461) /\ d - 1461 * (d \div 1461) < 1461
  BY <1>3, SMT
<1>5. PICK q \in 0 .. 24, s \in Nat : d = 1461 * q + s /\ s < 1461
  BY <1>4, SMT
<1>6. PICK r \in 0 .. 3, t \in Nat : s = 365 * r + t /\ t <= 365 /\ (t = 365 => r = 3)
  <2>1. CASE s = 1460
    <3>1. s = 365 * 3 + 365 /\ 3 \in 0 .. 3 /\ 365 \in Nat
      BY <2>1, SMT
    <3>. QED
      BY <3>1, SMT
  <2>2. CASE s < 1460
    <3>1. /\ s \div 365 \in 0 .. 3 /\ 0 <= s - 365 * (s \div 365) /\ s - 365 * (s \div 365) < 365
      BY <2>2, SMT
    <3>. QED
      BY <3>1, SMT
  <2>. QED
    BY <1>5, <2>1, <2>2, SMT
<1>7. t = 365 => r = 3 /\ (q # 24 \/ c = 3)
  BY <1>3, <1>5, <1>6, SMT
<1>8. PICK y \in Int : y = YearAt(e, c, q, r)
  BY SMT DEF YearAt
<1>9. /\ YearStart(y) = DaysBefore(e, c, q, r)
      /\ IsLeapYear(y + 1) <=> r = 3 /\ (q # 24 \/ c = 3)
  BY <1>8, PartsStart, SMT
<1>10. at = YearStart(y) + t /\ t < YearLength(y)
  BY <1>2, <1>3, <1>5, <1>6, <1>7, <1>9, SMT DEF YearLength, DaysBefore
<1>. QED
  BY <1>10, SMT

\* What civil_from_days takes for the year of a 400 years' day.
YearOf(doe) == (doe - doe \div 1460 + doe \div 36524 - doe \div 146096) \div 365

\* A day by its year's place and its own in that.
IsPlace(c, q, r, t, doe) ==
    /\ c \in 0 .. 3 /\ q \in 0 .. 24 /\ r \in 0 .. 3
    /\ t \in Nat /\ t <= 365 /\ (t = 365 => r = 3 /\ (q # 24 \/ c = 3))
    /\ doe = 36524 * c + 1461 * q + 365 * r + t

\* The year that civil_from_days works out is the one the day falls in.
LEMMA YearOfEra ==
    ASSUME NEW c, NEW q, NEW r, NEW t, NEW doe, IsPlace(c, q, r, t, doe)
    PROVE  doe \in Nat /\ doe < 146097 /\ YearOf(doe) = 100 * c + 4 * q + r
<1>. USE DEF IsPlace
<1> DEFINE over == IF 24 * c + q + 365 * r + t >= 1460 THEN 1 ELSE 0
<1>1. doe \in Nat /\ doe < 146097
  BY SMT
<1>2. doe \div 1460 = 25 * c + q + over
  <2>1. LET rest == 24 * c + q + 365 * r + t - 1460 * over
        IN  rest \in Nat /\ rest < 1460
    BY SMT
  <2>2. doe = 1460 * (25 * c + q + over) + (24 * c + q + 365 * r + t - 1460 * over)
    BY SMT
  <2>3. over \in 0 .. 1
    BY SMT
  <2>. HIDE DEF over
  <2>. QED
    BY <2>1, <2>2, <2>3, SMT
<1>3. CASE doe = 146096
  BY <1>3, SMT DEF YearOf
<1>4. CASE doe < 146096
  <2>1. doe \div 36524 = c
    BY <1>4, SMT
  <2>2. doe \div 146096 = 0
    BY <1>1, <1>4, SMT
  <2>3. doe - doe \div 1460 + doe \div 36524 - doe \div 146096
           = 365 * (100 * c + 4 * q + r) + (t - over)
    BY <1>2, <2>1, <2>2, SMT
  <2>4. t - over \in Nat /\ t - over < 365
    BY SMT
  <2>. QED
    BY <2>3, <2>4, SMT DEF YearOf
<1>. QED
  BY <1>1, <1>3, <1>4, SMT


\* The day of its March year that a month starts on, the month of a day and
\* its place in it, and the civil year.
FirstDay(mp) == (153 * mp + 2) \div 5
MonthAt(t)   == (5 * t + 2) \div 153
MonthOf(t)   == IF MonthAt(t) < 10 THEN MonthAt(t) + 3 ELSE MonthAt(t) - 9
Civil(y, t)  == <<IF MonthOf(t) <= 2 THEN y + 1 ELSE y, MonthOf(t), t - FirstDay(MonthAt(t)) + 1>>

\* civil_from_days, given the March year of a day and its place in it.
LEMMA CivilOf ==
    ASSUME NEW y \in Int, NEW t \in Nat, t < YearLength(y)
    PROVE  DateOf(YearStart(y) + t - 719468) = Civil(y, t)
<1>1. PICK e \in Int, c \in 0 .. 3, q \in 0 .. 24, r \in 0 .. 3 : y = YearAt(e, c, q, r)
  BY YearParts
<1>2. /\ YearStart(y) = DaysBefore(e, c, q, r)
      /\ IsLeapYear(y + 1) <=> r = 3 /\ (q # 24 \/ c = 3)
  BY <1>1, PartsStart
<1>3. PICK doe : doe = 36524 * c + 1461 * q + 365 * r + t
  OBVIOUS
<1>4. IsPlace(c, q, r, t, doe)
  BY <1>2, <1>3, SMT DEF YearLength, IsPlace
<1>5. doe \in Nat /\ doe < 146097 /\ YearOf(doe) = 100 * c + 4 * q + r
  BY <1>4, YearOfEra
<1>6. PICK at \in Int : at = 146097 * e + doe
  BY <1>5, SMT
<1>7. YearStart(y) + t = at /\ YearStart(y) \in Int
  BY <1>2, <1>3, <1>6, SMT DEF DaysBefore
<1>8. at \div 146097 = e /\ at - e * 146097 = doe
  BY <1>5, <1>6, SMT
<1>9. PICK yoe \in Int : yoe = 100 * c + 4 * q + r
  BY SMT
<1>10. yoe \div 4 = 25 * c + q /\ yoe \div 100 = c
  BY <1>9, SMT
<1>11. doe - (365 * yoe + yoe \div 4 - yoe \div 100) = t
  BY <1>3, <1>9, <1>10, SMT
<1>12. yoe + e * 400 = y
  BY <1>1, <1>9, SMT DEF YearAt
<1>13. PICK days \in Int : days = YearStart(y) + t - 719468 /\ days + 719468 = at
  BY <1>6, <1>7, SMT
<1>14. YearOf(doe) = yoe
  BY <1>5, <1>9
<1>15. DateOf(days) =
          LET m == IF MonthAt(t) < 10 THEN MonthAt(t) + 3 ELSE MonthAt(t) - 9
          IN  <<IF m <= 2 THEN yoe + e * 400 + 1 ELSE yoe + e * 400, m,
                t - FirstDay(MonthAt(t)) + 1>>
  <2> DEFINE era1 == (days + 719468) \div 146097
             doe1 == days + 719468 - era1 * 146097
             yoe1 == YearOf(doe1)
             doy1 == doe1 - (365 * yoe1 + yoe1 \div 4 - yoe1 \div 100)
  <2>1. DateOf(days) =
           LET m == IF MonthAt(doy1) < 10 THEN MonthAt(doy1) + 3 ELSE MonthAt(doy1) - 9
           IN  <<IF m <= 2 THEN yoe1 + era1 * 400 + 1 ELSE yoe1 + era1 * 400, m,
                 doy1 - FirstDay(MonthAt(doy1)) + 1>>
    BY SMT DEF DateOf, MonthAt, FirstDay, YearOf
  <2>2. era1 = e
    BY <1>8, <1>13, SMT
  <2>. HIDE DEF era1
  <2>3. doe1 = doe
    BY <1>8, <1>13, <2>2, SMT
  <2>. HIDE DEF doe1
  <2>4. yoe1 = yoe
    BY <1>14, <2>3
  <2>. HIDE DEF yoe1
  <2>5. doy1 = t
    BY <1>11, <2>3, <2>4, SMT
  <2>. HIDE DEF doy1
  <2>. QED
    BY <2>1, <2>2, <2>4, <2>5, SMT
<1>. QED
  BY <1>12, <1>13, <1>15, SMT DEF Civil, MonthOf

\* A day is in the month MonthAt says.
LEMMA MonthBounds ==
    ASSUME NEW t \in Nat, t < 366
    PROVE  /\ MonthAt(t) \in 0 .. 11
           /\ FirstDay(MonthAt(t)) <= t
           /\ t < FirstDay(MonthAt(t) + 1)
BY SMT DEF MonthAt, FirstDay

\* And in no other.
LEMMA MonthUnique ==
    ASSUME NEW t \in Nat, NEW mp \in Int, FirstDay(mp) <= t, t < FirstDay(mp + 1)
    PROVE  MonthAt(t) = mp
BY SMT DEF MonthAt, FirstDay

\* A month's length; the last of a March year is February.
LEMMA MonthLength ==
    ASSUME NEW y \in Int, NEW mp \in 0 .. 11
    PROVE  LET m == IF mp < 10 THEN mp + 3 ELSE mp - 9
           IN  DaysInMonth(IF m <= 2 THEN y + 1 ELSE y, m)
                  = IF mp = 11 THEN YearLength(y) - FirstDay(11)
                    ELSE FirstDay(mp + 1) - FirstDay(mp)
<1>1. \A k \in {0, 2, 4, 5, 7, 9, 10} : FirstDay(k + 1) - FirstDay(k) = 31
  BY SMT DEF FirstDay
<1>2. \A k \in {1, 3, 6, 8} : FirstDay(k + 1) - FirstDay(k) = 30
  BY SMT DEF FirstDay
<1>3. FirstDay(11) = 337
  BY SMT DEF FirstDay
<1>4. CASE mp \in {0, 2, 4, 5, 7, 9, 10}
  BY <1>1, <1>4, SMT DEF DaysInMonth
<1>5. CASE mp \in {1, 3, 6, 8}
  BY <1>2, <1>5, SMT DEF DaysInMonth
<1>6. CASE mp = 11
  BY <1>3, <1>6, SMT DEF DaysInMonth, YearLength
<1>. QED
  BY <1>4, <1>5, <1>6, SMT


\* Within a March year the day after a day is the calendar's next.
LEMMA NextInYear ==
    ASSUME NEW y \in Int, NEW t \in Nat, t + 1 < YearLength(y)
    PROVE  Civil(y, t + 1) = NextDay(Civil(y, t))
<1> DEFINE mp == MonthAt(t)
           m  == MonthOf(t)
           civilYear == IF m <= 2 THEN y + 1 ELSE y
<1>1. YearLength(y) \in {365, 366}
  BY SMT DEF YearLength
<1>2. mp \in 0 .. 11 /\ FirstDay(mp) <= t /\ t < FirstDay(mp + 1)
  BY <1>1, MonthBounds, SMT
<1>3. m = (IF mp < 10 THEN mp + 3 ELSE mp - 9)
  BY DEF MonthOf
<1>4. DaysInMonth(civilYear, m) = IF mp = 11 THEN YearLength(y) - FirstDay(11)
                                  ELSE FirstDay(mp + 1) - FirstDay(mp)
  <2>. HIDE DEF mp, m
  <2>. QED
    BY <1>2, <1>3, MonthLength, SMT
<1>5. Civil(y, t) = <<civilYear, m, t - FirstDay(mp) + 1>>
  BY SMT DEF Civil
<1>6. /\ FirstDay(mp) \in Int /\ FirstDay(mp + 1) \in Int
      /\ FirstDay(mp + 2) > FirstDay(mp + 1)
  BY <1>2, SMT DEF FirstDay
<1>. HIDE DEF mp, m
<1>7. CASE t + 1 < FirstDay(mp + 1)
  <2>1. MonthAt(t + 1) = mp
    BY <1>2, <1>6, <1>7, MonthUnique, SMT
  <2>2. MonthOf(t + 1) = m
    BY <1>3, <2>1, SMT DEF MonthOf
  <2>3. Civil(y, t + 1) = <<civilYear, m, t - FirstDay(mp) + 2>>
    BY <1>6, <2>1, <2>2, SMT DEF Civil
  <2>4. t - FirstDay(mp) + 1 < DaysInMonth(civilYear, m)
    <3>1. FirstDay(11) \in Int /\ (mp = 11 => FirstDay(mp) = FirstDay(11))
      BY SMT DEF FirstDay
    <3>. QED
      BY <1>1, <1>2, <1>4, <1>6, <1>7, <3>1, SMT
  <2>. HIDE DEF civilYear
  <2>. QED
    BY <1>5, <1>6, <2>3, <2>4, SMT DEF NextDay
<1>8. CASE t + 1 = FirstDay(mp + 1)
  <2>1. MonthAt(t + 1) = mp + 1
    BY <1>2, <1>6, <1>8, MonthUnique, SMT
  <2>2. mp < 11
    BY <1>1, <1>2, <1>8, SMT DEF FirstDay
  <2>3. MonthOf(t + 1) = IF m = 12 THEN 1 ELSE m + 1
    BY <1>2, <1>3, <2>1, <2>2, SMT DEF MonthOf
  <2>4. Civil(y, t + 1) = <<IF m = 12 THEN civilYear + 1 ELSE civilYear,
                            IF m = 12 THEN 1 ELSE m + 1, 1>>
    BY <1>2, <1>3, <1>6, <1>8, <2>1, <2>2, <2>3, SMT DEF Civil
  <2>5. t - FirstDay(mp) + 1 = DaysInMonth(civilYear, m)
    BY <1>2, <1>4, <1>6, <1>8, <2>2, SMT
  <2>6. m \in 1 .. 12
    BY <1>2, <1>3, SMT
  <2>. HIDE DEF civilYear
  <2>. QED
    BY <1>5, <1>6, <2>4, <2>5, <2>6, SMT DEF NextDay
<1>. QED
  BY <1>2, <1>6, <1>7, <1>8, SMT

\* After the last day of a March year comes 1 March.
LEMMA NextYear ==
    ASSUME NEW y \in Int, NEW t \in Nat, t + 1 = YearLength(y)
    PROVE  Civil(y + 1, 0) = NextDay(Civil(y, t))
<1>1. t \in {364, 365}
  BY SMT DEF YearLength
<1>2. MonthAt(t) = 11 /\ FirstDay(11) = 337
  BY <1>1, SMT DEF MonthAt, FirstDay
<1>3. Civil(y, t) = <<y + 1, 2, t - 336>>
  BY <1>1, <1>2, SMT DEF Civil, MonthOf
<1>4. DaysInMonth(y + 1, 2) = t - 336
  BY <1>1, SMT DEF DaysInMonth, YearLength
<1>5. Civil(y + 1, 0) = <<y + 1, 3, 1>>
  BY SMT DEF Civil, MonthOf, MonthAt, FirstDay
<1>. QED
  BY <1>1, <1>3, <1>4, <1>5, SMT DEF NextDay

\* days_from_civil undoes civil_from_days.
LEMMA DaysOf ==
    ASSUME NEW y \in Int, NEW t \in Nat, t < YearLength(y)
    PROVE  DaysFromCivil(Civil(y, t)[1], Civil(y, t)[2], Civil(y, t)[3])
              = YearStart(y) + t - 719468
<1> DEFINE mp == MonthAt(t)
           m  == MonthOf(t)
           civilYear == IF m <= 2 THEN y + 1 ELSE y
<1>1. t < 366
  BY SMT DEF YearLength
<1>2. mp \in 0 .. 11 /\ FirstDay(mp) \in Int
  BY <1>1, MonthBounds, SMT DEF FirstDay
<1>3. /\ m = (IF mp < 10 THEN mp + 3 ELSE mp - 9)
      /\ Civil(y, t) = <<civilYear, m, t - FirstDay(mp) + 1>>
  BY SMT DEF MonthOf, Civil
<1>. HIDE DEF mp, m
<1>4. (IF m > 2 THEN m - 3 ELSE m + 9) = mp
  BY <1>2, <1>3, SMT
<1>5. (IF m <= 2 THEN civilYear - 1 ELSE civilYear) = y
  BY <1>2, <1>3, SMT
<1>. HIDE DEF civilYear
<1>6. PICK e \in Int, c \in 0 .. 3, q \in 0 .. 24, r \in 0 .. 3 : y = YearAt(e, c, q, r)
  BY YearParts
<1>7. YearStart(y) = DaysBefore(e, c, q, r)
  BY <1>6, PartsStart
<1>8. PICK yoe \in Int : yoe = 100 * c + 4 * q + r
  BY SMT
<1>9. y \div 400 = e /\ y - e * 400 = yoe
  BY <1>6, <1>8, SMT DEF YearAt
<1>10. yoe \div 4 = 25 * c + q /\ yoe \div 100 = c
  BY <1>8, SMT
<1>11. DaysFromCivil(civilYear, m, t - FirstDay(mp) + 1)
          = e * 146097 + (yoe * 365 + yoe \div 4 - yoe \div 100
                             + (FirstDay(mp) + (t - FirstDay(mp) + 1) - 1)) - 719468
  <2> DEFINE d     == t - FirstDay(mp) + 1
             year1 == IF m <= 2 THEN civilYear - 1 ELSE civilYear
             yoe1  == year1 - (year1 \div 400) * 400
             mp1   == IF m > 2 THEN m - 3 ELSE m + 9
  <2>. HIDE DEF d
  <2>1. DaysFromCivil(civilYear, m, d)
           = (year1 \div 400) * 146097
                + (yoe1 * 365 + yoe1 \div 4 - yoe1 \div 100 + (FirstDay(mp1) + d - 1)) - 719468
    BY SMT DEF DaysFromCivil, FirstDay
  <2>. HIDE DEF mp1
  <2>2. mp1 = mp
    BY <1>4 DEF mp1
  <2>. HIDE DEF year1
  <2>3. year1 = y
    BY <1>5 DEF year1
  <2>4. yoe1 = yoe /\ year1 \div 400 = e
    BY <1>9, <2>3, SMT
  <2>. HIDE DEF yoe1
  <2>. QED
    BY <2>1, <2>2, <2>4 DEF d
<1>. QED
  BY <1>2, <1>3, <1>7, <1>8, <1>10, <1>11, SMT DEF DaysBefore


\* The arithmetic of a day: the date it has, the next day's, and the way back.
LEMMA Calendar ==
    ASSUME NEW day \in Int
    PROVE  LET civil == DateOf(day)
           IN  /\ DateOf(day + 1) = NextDay(civil)
               /\ DaysFromCivil(civil[1], civil[2], civil[3]) = day
<1>1. PICK y \in Int, t \in Nat : day + 719468 = YearStart(y) + t /\ t < YearLength(y)
  <2>1. day + 719468 \in Int
    BY SMT
  <2>. QED
    BY <2>1, DayInYear
<1>2. YearStart(y) \in Int /\ YearStart(y + 1) \in Int /\ YearLength(y) \in Int
  BY SMT DEF YearStart, YearLength
<1>3. day = YearStart(y) + t - 719468
  BY <1>1, <1>2, SMT
<1>4. DateOf(day) = Civil(y, t)
  BY <1>1, <1>3, CivilOf
<1>5. DaysFromCivil(Civil(y, t)[1], Civil(y, t)[2], Civil(y, t)[3]) = day
  BY <1>1, <1>3, DaysOf
<1>6. DateOf(day + 1) = NextDay(Civil(y, t))
  <2>1. CASE t + 1 < YearLength(y)
    <3>1. PICK u \in Nat : u = t + 1
      OBVIOUS
    <3>2. day + 1 = YearStart(y) + u - 719468
      BY <1>2, <1>3, <3>1, SMT
    <3>3. DateOf(YearStart(y) + u - 719468) = Civil(y, u)
      BY <2>1, <3>1, CivilOf
    <3>4. Civil(y, u) = NextDay(Civil(y, t))
      BY <2>1, <3>1, NextInYear
    <3>. QED
      BY <3>2, <3>3, <3>4
  <2>2. CASE t + 1 = YearLength(y)
    <3>1. PICK z \in Int, u \in Nat : z = y + 1 /\ u = 0
      OBVIOUS
    <3>2. YearStart(z) = YearStart(y) + YearLength(y)
      BY <3>1, YearsFollow
    <3>3. day + 1 = YearStart(z) + u - 719468
      BY <1>2, <1>3, <2>2, <3>1, <3>2, SMT
    <3>4. u < YearLength(z)
      BY <3>1, SMT DEF YearLength
    <3>5. DateOf(YearStart(z) + u - 719468) = Civil(z, u)
      BY <3>4, CivilOf
    <3>6. Civil(z, u) = NextDay(Civil(y, t))
      BY <2>2, <3>1, NextYear
    <3>. QED
      BY <3>3, <3>5, <3>6
  <2>. QED
    BY <1>1, <1>2, <2>1, <2>2, SMT
<1>. QED
  BY <1>4, <1>5, <1>6

\* The calendar starts where the clock does.
LEMMA FirstOfAll == DateOf(0) = <<1970, 1, 1>>
<1>1. PICK y \in Int, t \in Nat : y = 1969 /\ t = 306
  OBVIOUS
<1>2. YearStart(y) + t - 719468 = 0 /\ t < YearLength(y)
  BY <1>1, SMT DEF YearStart, YearLength
<1>3. DateOf(YearStart(y) + t - 719468) = Civil(y, t)
  BY <1>2, CivilOf
<1>4. Civil(y, t) = <<1970, 1, 1>>
  BY <1>1, SMT DEF Civil, MonthOf, MonthAt, FirstDay
<1>. QED
  BY <1>2, <1>3, <1>4

\* A day has a date: a month of the year and a day of that month.
LEMMA CivilIsDate ==
    ASSUME NEW day \in Int
    PROVE  \E year \in Int, month \in 1 .. 12, d \in 1 .. 31 :
              DateOf(day) = <<year, month, d>> /\ d <= DaysInMonth(year, month)
<1>1. PICK y \in Int, t \in Nat : day + 719468 = YearStart(y) + t /\ t < YearLength(y)
  <2>1. day + 719468 \in Int
    BY SMT
  <2>. QED
    BY <2>1, DayInYear
<1>2. YearStart(y) \in Int /\ YearLength(y) \in {365, 366}
  BY SMT DEF YearStart, YearLength
<1>3. day = YearStart(y) + t - 719468
  BY <1>1, <1>2, SMT
<1>4. DateOf(day) = Civil(y, t)
  BY <1>1, <1>3, CivilOf
<1> DEFINE mp == MonthAt(t)
           m  == MonthOf(t)
           civilYear == IF m <= 2 THEN y + 1 ELSE y
           d == t - FirstDay(mp) + 1
<1>5. mp \in 0 .. 11 /\ FirstDay(mp) <= t /\ t < FirstDay(mp + 1)
  BY <1>1, <1>2, MonthBounds, SMT
<1>6. /\ m = (IF mp < 10 THEN mp + 3 ELSE mp - 9)
      /\ Civil(y, t) = <<civilYear, m, d>>
  BY SMT DEF MonthOf, Civil
<1>. HIDE DEF mp, m
<1>7. DaysInMonth(civilYear, m) = IF mp = 11 THEN YearLength(y) - FirstDay(11)
                                  ELSE FirstDay(mp + 1) - FirstDay(mp)
  BY <1>5, <1>6, MonthLength, SMT
<1>8. /\ FirstDay(mp) \in Int /\ FirstDay(mp + 1) \in Int /\ FirstDay(11) \in Int
      /\ mp = 11 => FirstDay(mp) = FirstDay(11)
      /\ FirstDay(mp + 1) <= FirstDay(mp) + 31
  BY <1>5, SMT DEF FirstDay
<1>9. d \in 1 .. 31 /\ d <= DaysInMonth(civilYear, m)
  BY <1>1, <1>2, <1>5, <1>7, <1>8, SMT
<1>10. m \in 1 .. 12 /\ civilYear \in Int
  BY <1>5, <1>6, SMT
<1>. HIDE DEF civilYear, d
<1>. QED
  BY <1>4, <1>6, <1>9, <1>10

-----------------------------------------------------------------------------
(***************************************************************************)
(* Dates and times packed into a directory entry's fields.                 *)
(***************************************************************************)

\* Years go forward.
LEMMA YearsGrow ==
    ASSUME NEW y \in Int, NEW z \in Int, y <= z
    PROVE  YearStart(y) \in Int /\ YearStart(z) \in Int /\ YearStart(y) <= YearStart(z)
  BY SMT DEF YearStart

\* The date of a day whose year fits an i32 keeps its year.
LEMMA YearFits ==
    ASSUME NEW day \in Int, InYears(day)
    PROVE  CivilFromDays(day) = DateOf(day)
<1>. MaxYear \in Nat
  BY TimesAssumption
<1>1. PICK y \in Int, t \in Nat : day + 719468 = YearStart(y) + t /\ t < YearLength(y)
  <2>1. day + 719468 \in Int
    BY SMT
  <2>. QED
    BY <2>1, DayInYear
<1>2. YearStart(y) \in Int /\ YearLength(y) \in {365, 366}
  BY SMT DEF YearStart, YearLength
<1>3. DateOf(day) = Civil(y, t)
  <2>1. day = YearStart(y) + t - 719468
    BY <1>1, <1>2, SMT
  <2>. QED
    BY <1>1, <2>1, CivilOf
<1>4. PICK low \in Int : low = -MaxYear - 2
  OBVIOUS
<1>5. DaysFromCivil(-MaxYear - 1, 1, 1) = YearStart(low) + 306 - 719468
  <2>1. 306 < YearLength(low) /\ 306 \in Nat
    BY SMT DEF YearLength
  <2>2. DaysFromCivil(Civil(low, 306)[1], Civil(low, 306)[2], Civil(low, 306)[3])
           = YearStart(low) + 306 - 719468
    BY <2>1, DaysOf
  <2>3. Civil(low, 306) = <<-MaxYear - 1, 1, 1>>
    BY <1>4, SMT DEF Civil, MonthOf, MonthAt, FirstDay
  <2>. QED
    BY <2>2, <2>3
<1>6. DaysFromCivil(MaxYear, 12, 31) = YearStart(MaxYear) + 305 - 719468
  <2>1. 305 < YearLength(MaxYear) /\ 305 \in Nat
    BY SMT DEF YearLength
  <2>2. DaysFromCivil(Civil(MaxYear, 305)[1], Civil(MaxYear, 305)[2], Civil(MaxYear, 305)[3])
           = YearStart(MaxYear) + 305 - 719468
    BY <2>1, DaysOf
  <2>3. Civil(MaxYear, 305) = <<MaxYear, 12, 31>>
    BY SMT DEF Civil, MonthOf, MonthAt, FirstDay
  <2>. QED
    BY <2>2, <2>3
<1>7. YearStart(low) \in Int /\ YearStart(MaxYear) \in Int
  BY YearsGrow
<1>8. YearStart(low) + 306 <= YearStart(y) + t /\ YearStart(y) + t <= YearStart(MaxYear) + 305
  <2>1. /\ DaysFromCivil(-MaxYear - 1, 1, 1) <= day
        /\ day <= DaysFromCivil(MaxYear, 12, 31)
    BY DEF InYears
  <2>. QED
    BY <1>1, <1>2, <1>5, <1>6, <1>7, <2>1, SMT
<1>9. YearStart(y + 1) = YearStart(y) + YearLength(y)
  BY YearsFollow
<1>10. low <= y
  <2>1. CASE y + 1 <= low
    <3>1. YearStart(y + 1) <= YearStart(low)
      BY <2>1, YearsGrow
    <3>. QED
      BY <1>1, <1>2, <1>7, <1>8, <1>9, <3>1
  <2>. QED
    BY <2>1
<1>11. y <= MaxYear
  <2>1. CASE MaxYear + 1 <= y
    <3>1. YearStart(MaxYear + 1) <= YearStart(y)
      BY <2>1, YearsGrow
    <3>2. YearStart(MaxYear + 1) = YearStart(MaxYear) + YearLength(MaxYear)
      BY YearsFollow
    <3>3. YearLength(MaxYear) \in {365, 366}
      BY DEF YearLength
    <3>. QED
      BY <1>2, <1>7, <1>8, <3>1, <3>2, <3>3
  <2>. QED
    BY <2>1
<1>12. y = low => MonthOf(t) <= 2
  <2>1. y = low => t >= 306 /\ t < 366
    BY <1>1, <1>2, <1>8
  <2>2. t >= 306 /\ t < 366 => MonthOf(t) <= 2
    BY SMT DEF MonthOf, MonthAt
  <2>. QED
    BY <2>1, <2>2
<1>13. y = MaxYear => ~(MonthOf(t) <= 2)
  <2>1. y = MaxYear => t <= 305
    BY <1>1, <1>2, <1>8
  <2>2. t <= 305 => ~(MonthOf(t) <= 2)
    BY SMT DEF MonthOf, MonthAt
  <2>. QED
    BY <2>1, <2>2
<1>14. PICK year \in Int : /\ year = (IF MonthOf(t) <= 2 THEN y + 1 ELSE y)
                           /\ -MaxYear - 1 <= year /\ year <= MaxYear
  BY <1>4, <1>10, <1>11, <1>12, <1>13
<1>15. AsYear(year) = year
  <2>1. PICK x \in Nat, w \in Nat \ {0} : x = year + MaxYear + 1 /\ w = 2 * (MaxYear + 1) /\ x < w
    BY <1>14
  <2>2. x % w = x
    BY <2>1, SMT
  <2>3. AsYear(year) = x - (MaxYear + 1)
    BY <2>1, <2>2 DEF AsYear
  <2>. QED
    BY <2>1, <2>3
<1>16. PICK month, d : DateOf(day) = <<year, month, d>>
  <2>1. Civil(y, t) = <<year, MonthOf(t), t - FirstDay(MonthAt(t)) + 1>>
    BY <1>14, Zenon DEF Civil
  <2>. QED
    BY <1>3, <2>1, Zenon
<1>17. DateOf(day)[1] = year /\ DateOf(day)[2] = month /\ DateOf(day)[3] = d
  BY <1>16, SMT
<1>18. CivilFromDays(day) = <<AsYear(DateOf(day)[1]), DateOf(day)[2], DateOf(day)[3]>>
  BY Zenon DEF CivilFromDays
<1>. QED
  BY <1>15, <1>16, <1>17, <1>18, Zenon

\* The instants that FAT can hold to the second.
IsStamp(t) ==
    /\ t = [year |-> t.year, month |-> t.month, day |-> t.day, hour |-> t.hour,
            minute |-> t.minute, second |-> t.second, millisecond |-> t.millisecond]
    /\ t.year \in Int /\ FIRST_YEAR <= t.year /\ t.year <= LAST_YEAR
    /\ t.month \in 1 .. 12 /\ t.day \in 1 .. 31 /\ t.day <= DaysInMonth(t.year, t.month)
    /\ t.hour \in 0 .. 23 /\ t.minute \in 0 .. 59 /\ t.second \in 0 .. 59
    /\ t.millisecond \in {0, 990}

\* clamp_to_fat leaves what FAT can hold.
LEMMA NotClamped ==
    ASSUME NEW t, IsStamp(t)
    PROVE  Clamp(t) = t
<1>1. \A k \in 1 .. 7 : Fields(EPOCH)[k] <= Fields(t)[k] /\ Fields(t)[k] <= Fields(LATEST)[k]
  <2>1. Fields(EPOCH) = <<1980, 1, 1, 0, 0, 0, 0>>
    BY SMT DEF Fields, EPOCH, Instant, FIRST_YEAR
  <2>2. Fields(LATEST) = <<2107, 12, 31, 23, 59, 59, 990>>
    BY SMT DEF Fields, LATEST, Instant, LAST_YEAR, SecondsPerDay
  <2>3. Fields(t) = <<t.year, t.month, t.day, t.hour, t.minute, t.second, t.millisecond>>
    BY DEF Fields
  <2>. QED
    BY <2>1, <2>2, <2>3, SMT DEF IsStamp, FIRST_YEAR, LAST_YEAR
<1>2. \A k \in 1 .. 7 : Fields(t)[k] \in Int
  BY SMT DEF Fields, IsStamp
<1>3. \A k \in 1 .. 7 : Fields(EPOCH)[k] \in Int /\ Fields(LATEST)[k] \in Int
  BY SMT DEF Fields, EPOCH, LATEST, Instant, FIRST_YEAR, LAST_YEAR, SecondsPerDay
<1>4. ~Before(t, EPOCH) /\ ~Before(LATEST, t)
  BY <1>1, <1>2, <1>3, SMT DEF Before
<1>. QED
  BY <1>4 DEF Clamp

\* The fields of an entry hold a stamp whole, to the second.
LEMMA PackedBack ==
    ASSUME NEW t, IsStamp(t)
    PROVE  /\ Unpack(Pack(t)) = t
           /\ {Pack(t).date, Pack(t).time} \subseteq 0 .. FIELD_MAX
           /\ Pack(t).hundredths \in 0 .. 199
<1>1. PICK y, m, d, h, i, s, ms :
         /\ y = t.year - 1980 /\ m = t.month /\ d = t.day
         /\ h = t.hour /\ i = t.minute /\ s = t.second /\ ms = t.millisecond
  OBVIOUS
<1>2. /\ y \in 0 .. 127 /\ m \in 1 .. 12 /\ d \in 1 .. 31
      /\ h \in 0 .. 23 /\ i \in 0 .. 59 /\ s \in 0 .. 59 /\ ms \in {0, 990}
  BY <1>1, SMT DEF IsStamp, FIRST_YEAR, LAST_YEAR
<1>3. t = [year |-> 1980 + y, month |-> m, day |-> d, hour |-> h,
           minute |-> i, second |-> s, millisecond |-> ms]
  BY <1>1, <1>2, SMT DEF IsStamp
<1>4. PICK date, time, hundredths :
         /\ date = y * 512 + m * 32 + d
         /\ time = h * 2048 + i * 32 + s \div 2
         /\ hundredths = (s % 2) * 100 + ms \div 10
  OBVIOUS
<1>5. Pack(t) = [date |-> date, time |-> time, hundredths |-> hundredths]
  <2>1. Clamp(t) = t
    BY NotClamped
  <2>. QED
    BY <1>1, <1>4, <2>1, SMT DEF Pack, FIRST_YEAR
<1>6. /\ date \in Nat /\ date # 0 /\ date <= 65535
      /\ date \div 512 = y /\ (date \div 32) % 16 = m /\ date % 32 = d
  <2>1. date \div 32 = y * 16 + m
    BY <1>2, <1>4, SMT
  <2>. QED
    BY <1>2, <1>4, <2>1, SMT
<1>7. /\ time \in Nat /\ time <= 65535
      /\ time \div 2048 = h /\ (time \div 32) % 64 = i /\ time % 32 = s \div 2
  <2>1. time \div 32 = h * 64 + i
    BY <1>2, <1>4, SMT
  <2>. QED
    BY <1>2, <1>4, <2>1, SMT
<1>8. /\ hundredths \in 0 .. 199
      /\ hundredths \div 100 = s % 2 /\ (hundredths % 100) * 10 = ms
  BY <1>2, <1>4, SMT
<1>9. (s \div 2) * 2 + (s % 2) = s
  <2>1. s \div 2 \in Nat /\ 0 <= s - 2 * (s \div 2) /\ s - 2 * (s \div 2) < 2
    BY <1>2, SMT
  <2>2. PICK half \in Nat, odd \in Nat : s = 2 * half + odd /\ odd < 2
    BY <1>2, <2>1, SMT
  <2>3. s \div 2 = half /\ s % 2 = odd
    BY <2>2, SMT
  <2>. QED
    BY <1>2, <2>2, <2>3, SMT
<1>10. Unpack(Pack(t)) = [year |-> 1980 + y, month |-> m, day |-> d, hour |-> h,
                          minute |-> i, second |-> s, millisecond |-> ms]
  <2>1. Unpack(Pack(t)) =
           [year |-> 1980 + date \div 512, month |-> (date \div 32) % 16,
            day |-> date % 32, hour |-> time \div 2048, minute |-> (time \div 32) % 64,
            second |-> (time % 32) * 2 + hundredths \div 100,
            millisecond |-> (hundredths % 100) * 10]
    <3>1. Pack(t).hundredths = hundredths /\ Pack(t).date = date /\ Pack(t).time = time
      BY <1>5
    <3>2. ~(hundredths > 199)
      BY <1>8, SMT
    <3>. QED
      BY <1>6, <3>1, <3>2, SMT DEF Unpack, FIRST_YEAR
  <2>2. (time % 32) * 2 + hundredths \div 100 = s
    BY <1>7, <1>8, <1>9
  <2>. QED
    BY <1>6, <1>7, <1>8, <2>1, <2>2
<1>11. {date, time} \subseteq 0 .. FIELD_MAX
  <2>1. FIELD_MAX \in Nat /\ date <= FIELD_MAX /\ time <= FIELD_MAX
    BY <1>6, <1>7, SMT DEF FIELD_MAX
  <2>. QED
    BY <1>6, <1>7, <2>1, SMT
<1>. QED
  BY <1>3, <1>5, <1>8, <1>10, <1>11

\* An instant of a day that FAT has.
IsMoment(year, month, d, rest, ms) ==
    /\ year \in Int /\ FIRST_YEAR <= year /\ year <= LAST_YEAR
    /\ month \in 1 .. 12 /\ d \in 1 .. 31 /\ d <= DaysInMonth(year, month)
    /\ rest \in Nat /\ rest < SecondsPerDay /\ ms \in {0, 990}

\* What Instant makes of a day and its seconds is a timestamp of both.
LEMMA InstantIsStamp ==
    ASSUME NEW year, NEW month, NEW d, NEW rest, NEW ms, IsMoment(year, month, d, rest, ms),
           NEW t, t = Instant(year, month, d, rest, ms)
    PROVE  IsStamp(t) /\ IsDateTime(t) /\ ToUnix(t) = <<DaysFromCivil(year, month, d), rest>>
<1>. USE DEF IsMoment
<1>1. /\ rest \div 3600 \in 0 .. 23 /\ (rest \div 60) % 60 \in 0 .. 59 /\ rest % 60 \in 0 .. 59
      /\ (rest \div 3600) * 3600 + ((rest \div 60) % 60) * 60 + (rest % 60) = rest
  <2>1. /\ rest \div 60 \in Nat /\ rest \div 60 < 1440
        /\ 0 <= rest - 60 * (rest \div 60) /\ rest - 60 * (rest \div 60) < 60
    BY SMT DEF SecondsPerDay
  <2>2. PICK n \in Nat, sec \in Nat : rest = 60 * n + sec /\ n < 1440 /\ sec < 60
    BY <2>1, SMT
  <2>3. /\ n \div 60 \in Nat /\ n \div 60 < 24
        /\ 0 <= n - 60 * (n \div 60) /\ n - 60 * (n \div 60) < 60
    BY <2>2, SMT
  <2>4. PICK hour \in Nat, min \in Nat : n = 60 * hour + min /\ hour < 24 /\ min < 60
    BY <2>3, SMT
  <2>5. rest \div 60 = n /\ rest % 60 = sec /\ n % 60 = min
    BY <2>2, <2>4, SMT
  <2>6. rest \div 3600 = hour
    BY <2>2, <2>4, SMT
  <2>. QED
    <3>1. rest \div 3600 \in 0 .. 23 /\ (rest \div 60) % 60 \in 0 .. 59 /\ rest % 60 \in 0 .. 59
      BY <2>2, <2>4, <2>5, <2>6, SMT
    <3>2. hour * 3600 + min * 60 + sec = rest
      BY <2>2, <2>4, SMT
    <3>3. (rest \div 3600) * 3600 + ((rest \div 60) % 60) * 60 + (rest % 60)
             = hour * 3600 + min * 60 + sec
      BY <2>5, <2>6
    <3>. QED
      BY <3>1, <3>2, <3>3
<1>2. /\ t.year = year /\ t.month = month /\ t.day = d /\ t.hour = rest \div 3600
      /\ t.minute = (rest \div 60) % 60 /\ t.second = rest % 60 /\ t.millisecond = ms
      /\ t = [year |-> t.year, month |-> t.month, day |-> t.day, hour |-> t.hour,
              minute |-> t.minute, second |-> t.second, millisecond |-> t.millisecond]
  BY DEF Instant
<1>3. DaysInMonth(year, month) \in 0 .. 31
  BY SMT DEF DaysInMonth
<1>4. IsStamp(t)
  BY <1>1, <1>2, SMT DEF IsStamp
<1>5. IsDateTime(t)
  <2>1. d \in 1 .. DaysInMonth(year, month) /\ ms \in 0 .. 999
    BY <1>3, SMT
  <2>. QED
    BY <1>1, <1>2, <2>1 DEF IsDateTime
<1>6. ToUnix(t) = <<DaysFromCivil(year, month, d), rest>>
  BY <1>1, <1>2, SMT DEF ToUnix
<1>. QED
  BY <1>4, <1>5, <1>6

\* The arithmetic that turns days into dates is the calendar's, of every day
\* before and after 1970, and back.
THEOREM DaysAreTheCalendar == Spec => []DaysAreCalendar
<1>1. InputOk => DaysAreCalendar
  <2> SUFFICES ASSUME InputOk, input.of = "stamp", InYears(input.day), InYears(input.day + 1)
               PROVE  DaysAreCalendar
    BY DEF DaysAreCalendar
  <2>1. input.day \in Int
    BY DEF InputOk
  <2>2. input.day = 0 => DateOf(input.day) = <<1970, 1, 1>>
    BY FirstOfAll
  <2>3. LET civil == DateOf(input.day)
        IN  /\ DateOf(input.day + 1) = NextDay(civil)
            /\ DaysFromCivil(civil[1], civil[2], civil[3]) = input.day
    BY <2>1, Calendar
  <2>4. CivilFromDays(input.day) = DateOf(input.day)
    BY <2>1, YearFits
  <2>5. CivilFromDays(input.day + 1) = DateOf(input.day + 1)
    BY <2>1, YearFits
  <2>. QED
    BY <2>2, <2>3, <2>4, <2>5 DEF DaysAreCalendar
<1>. QED
  BY <1>1, InputsOk, PTL

\* What the clock says goes through a directory entry's fields and back to
\* the second, of every second of every day; a clock outside FAT's years
\* gives the nearest date it has.
THEOREM StampsComeBack == Spec => []StampsReadBack
<1>1. InputOk => StampsReadBack
  <2> SUFFICES ASSUME InputOk, input.of = "stamp", InYears(input.day)
               PROVE  StampsReadBack
    BY DEF StampsReadBack
  <2>1. PICK day \in Int, rest \in Nat :
           day = input.day /\ rest = input.rest /\ rest < SecondsPerDay
    BY DEF InputOk
  <2> DEFINE stamp == FromUnix(day, rest)
  <2>2. PICK year \in Int, month \in 1 .. 12, d \in 1 .. 31 :
           CivilFromDays(day) = <<year, month, d>> /\ d <= DaysInMonth(year, month)
    <3>1. CivilFromDays(day) = DateOf(day)
      BY <2>1, YearFits
    <3>. QED
      BY <3>1, CivilIsDate
  <2>3. /\ CivilFromDays(day)[1] = year /\ CivilFromDays(day)[2] = month
        /\ CivilFromDays(day)[3] = d
    BY <2>2
  <2>8. DaysFromCivil(year, month, d) = day
    <3>1. DateOf(day)[1] = year /\ DateOf(day)[2] = month /\ DateOf(day)[3] = d
      BY <2>1, <2>3, YearFits
    <3>. QED
      BY <3>1, Calendar
  <2>4. FIRST_YEAR \in Int /\ LAST_YEAR \in Int /\ FIRST_YEAR <= LAST_YEAR
    BY SMT DEF FIRST_YEAR, LAST_YEAR
  <2>5. /\ IsStamp(EPOCH) /\ IsDateTime(EPOCH)
        /\ IsStamp(LATEST) /\ IsDateTime(LATEST)
    <3>1. 0 \in Nat /\ 0 < SecondsPerDay /\ SecondsPerDay - 1 \in Nat /\ SecondsPerDay - 1 < SecondsPerDay
      BY SMT DEF SecondsPerDay
    <3>2. 1 <= DaysInMonth(FIRST_YEAR, 1) /\ 31 <= DaysInMonth(LAST_YEAR, 12)
      BY SMT DEF DaysInMonth
    <3>3. IsStamp(EPOCH) /\ IsDateTime(EPOCH)
      <4>1. IsMoment(FIRST_YEAR, 1, 1, 0, 0)
        BY <2>4, <3>1, <3>2, SMT DEF IsMoment
      <4>. QED
        BY <4>1, InstantIsStamp DEF EPOCH
    <3>4. IsStamp(LATEST) /\ IsDateTime(LATEST)
      <4>1. IsMoment(LAST_YEAR, 12, 31, SecondsPerDay - 1, 990)
        BY <2>4, <3>1, <3>2, SMT DEF IsMoment
      <4>. QED
        BY <4>1, InstantIsStamp DEF LATEST
    <3>. QED
      BY <3>3, <3>4
  <2>6. /\ IsStamp(stamp) /\ IsDateTime(stamp)
        /\ ToUnix(stamp) = CASE year < FIRST_YEAR -> ToUnix(EPOCH)
                             [] year > LAST_YEAR  -> ToUnix(LATEST)
                             [] OTHER             -> <<day, rest>>
    <3>1. CASE year < FIRST_YEAR
      <4>1. ~(year > LAST_YEAR)
        BY <2>4, <3>1
      <4>2. stamp = EPOCH
        BY <2>3, <3>1, <4>1, Zenon DEF FromUnix
      <4>. QED
        BY <2>5, <3>1, <4>1, <4>2
    <3>2. CASE year > LAST_YEAR
      <4>1. ~(year < FIRST_YEAR)
        BY <2>4, <3>2
      <4>2. stamp = LATEST
        BY <2>3, <3>2, <4>1, Zenon DEF FromUnix
      <4>. QED
        BY <2>5, <3>2, <4>1, <4>2
    <3>3. CASE ~(year < FIRST_YEAR) /\ ~(year > LAST_YEAR)
      <4>1. stamp = Instant(year, month, d, rest, 0)
        BY <2>3, <3>3, Zenon DEF FromUnix
      <4>2. FIRST_YEAR <= year /\ year <= LAST_YEAR
        BY <2>4, <3>3
      <4>3. /\ IsStamp(stamp) /\ IsDateTime(stamp)
            /\ ToUnix(stamp) = <<DaysFromCivil(year, month, d), rest>>
        <5>1. IsMoment(year, month, d, rest, 0)
          BY <2>1, <2>2, <4>2, SMT DEF IsMoment
        <5>. HIDE DEF stamp
        <5>. QED
          BY <4>1, <5>1, InstantIsStamp
      <4>. QED
        BY <2>8, <3>3, <4>3
    <3>. QED
      BY <3>1, <3>2, <3>3
  <2>. HIDE DEF stamp
  <2>7. /\ Unpack(Pack(stamp)) = stamp
        /\ {Pack(stamp).date, Pack(stamp).time} \subseteq 0 .. FIELD_MAX
        /\ Pack(stamp).hundredths \in 0 .. 199
    BY <2>6, PackedBack
  <2>. QED
    BY <2>1, <2>3, <2>6, <2>7, Zenon DEF StampsReadBack, stamp
<1>. QED
  BY <1>1, InputsOk, PTL

-----------------------------------------------------------------------------
(***************************************************************************)
(* What the transfers rest on: induction, division, sequences.             *)
(*                                                                         *)
(* A lemma cannot take a step of a recursion as its parameter, so each of  *)
(* the recursions of Transfer has its own lemma that a solution exists.    *)
(***************************************************************************)

\* Induction up to a number, the property given as the set of what has it.
LEMMA UpTo ==
    ASSUME NEW N \in Nat, NEW S, 0 \in S, \A n \in 1 .. N : n - 1 \in S => n \in S
    PROVE  \A n \in 0 .. N : n \in S
<1>. DEFINE bad == {n \in 0 .. N : n \notin S}
<1>. SUFFICES ASSUME bad # {} PROVE FALSE
  OBVIOUS
<1>1. PICK n \in bad : \A m \in bad : n <= m
  <2>1. bad \subseteq Nat
    OBVIOUS
  <2>. HIDE DEF bad
  <2>. QED
    BY <2>1, LeastOfSome
<1>2. n \in 1 .. N /\ n - 1 \in 0 .. N
  BY <1>1
<1>3. n - 1 \notin bad
  BY <1>1, <1>2
<1>. QED
  BY <1>1, <1>2, <1>3

\* Sequences are the same if their elements are.
LEMMA SameElements ==
    ASSUME NEW s, NEW t, NEW N \in Nat,
           s = [k \in 1 .. N |-> s[k]], t = [k \in 1 .. N |-> t[k]],
           \A k \in 1 .. N : s[k] = t[k]
    PROVE  s = t
  BY Zenon

\* Quotient and remainder.
LEMMA Division ==
    ASSUME NEW n \in Nat, NEW d \in Nat \ {0}
    PROVE  /\ n \div d \in Nat /\ n % d \in Nat /\ n % d < d
           /\ n = (n \div d) * d + (n % d)
  BY SMT

\* How many pieces of at most d an n falls into.
LEMMA Ceiling ==
    ASSUME NEW n \in Nat, NEW d \in Nat \ {0}
    PROVE  /\ CeilDiv(n, d) \in Nat
           /\ n <= CeilDiv(n, d) * d /\ CeilDiv(n, d) * d < n + d
           /\ CeilDiv(n, d) = 0 <=> n = 0
<1>1. PICK q \in Nat, r \in Nat : n + d - 1 = q * d + r /\ r < d /\ q = (n + d - 1) \div d
  <2>1. n + d - 1 \in Nat
    OBVIOUS
  <2>. QED
    BY <2>1, Division
<1>2. CeilDiv(n, d) = q
  BY <1>1 DEF CeilDiv
<1>3. n <= q * d /\ q * d < n + d /\ q * d \in Nat
  BY <1>1
<1>4. q = 0 => q * d = 0
  OBVIOUS
<1>5. q # 0 => q * d >= d
  <2>1. ASSUME q # 0 PROVE q * d = (q - 1) * d + d /\ (q - 1) * d >= 0
    BY <2>1, SMT
  <2>. QED
    BY <1>3, <2>1
<1>. QED
  BY <1>2, <1>3, <1>4, <1>5

\* The pieces lie one after the other and fill n.
LEMMA ChunksFill ==
    ASSUME NEW n \in Nat, NEW size \in Nat \ {0}
    PROVE  /\ Chunks(n, size) = [k \in 1 .. CeilDiv(n, size) |-> Chunks(n, size)[k]]
           /\ CeilDiv(n, size) \in Nat
           /\ \A k \in 1 .. CeilDiv(n, size) :
                 LET chunk == Chunks(n, size)[k]
                 IN  /\ chunk.at \in Nat /\ chunk.length \in 1 .. size
                     /\ chunk.at = (k - 1) * size
                     /\ chunk.at + chunk.length = IF k = CeilDiv(n, size) THEN n ELSE k * size
                     /\ chunk.at + chunk.length <= n
<1>1. /\ CeilDiv(n, size) \in Nat
      /\ n <= CeilDiv(n, size) * size /\ CeilDiv(n, size) * size < n + size
  BY Ceiling
<1>2. PICK q \in Nat : q = CeilDiv(n, size)
  BY <1>1
<1>3. ASSUME NEW k \in 1 .. q
      PROVE  /\ (k - 1) * size \in Nat
             /\ (k - 1) * size < n
             /\ k < q => k * size <= n
             /\ k * size = (k - 1) * size + size
  <2>1. (k - 1) * size \in Nat /\ k * size = (k - 1) * size + size
    BY SMT
  <2>2. \A a, b \in Nat : a <= b => a * size <= b * size
    BY SMT
  <2>3. q * size < n + size
    BY <1>1, <1>2
  <2>4. k * size <= q * size
    BY <2>2
  <2>5. ASSUME k < q PROVE k * size <= n
    <3>1. k + 1 <= q /\ (k + 1) * size = k * size + size
      BY <2>5, SMT
    <3>2. (k + 1) * size <= q * size
      BY <2>2, <3>1
    <3>3. (k + 1) * size \in Nat /\ q * size \in Nat /\ k * size \in Nat
      BY SMT
    <3>. QED
      BY <2>3, <3>1, <3>2, <3>3
  <2>6. k * size \in Nat /\ q * size \in Nat
    BY SMT
  <2>7. (k - 1) * size < n
    BY <2>1, <2>3, <2>4, <2>6
  <2>. QED
    BY <2>1, <2>5, <2>7
<1>4. ASSUME NEW k \in 1 .. q
      PROVE  Chunks(n, size)[k] = [at |-> (k - 1) * size, length |-> Least(size, n - (k - 1) * size)]
  BY <1>2 DEF Chunks
<1>5. ASSUME NEW k \in 1 .. q
      PROVE  LET chunk == Chunks(n, size)[k]
             IN  /\ chunk.at \in Nat /\ chunk.length \in 1 .. size
                 /\ chunk.at = (k - 1) * size
                 /\ chunk.at + chunk.length = IF k = q THEN n ELSE k * size
                 /\ chunk.at + chunk.length <= n
  <2>1. PICK at \in Nat : at = (k - 1) * size
    BY <1>3
  <2>2. at < n /\ (k < q => at + size <= n) /\ k * size = at + size
    BY <1>3, <2>1
  <2>3. k = q => n <= at + size
    BY <1>1, <1>2, <2>2
  <2>4. Chunks(n, size)[k].at = at /\ Chunks(n, size)[k].length = Least(size, n - at)
    <3>1. Chunks(n, size)[k] = [at |-> (k - 1) * size, length |-> Least(size, n - (k - 1) * size)]
      BY <1>4
    <3>2. Chunks(n, size)[k] = [at |-> at, length |-> Least(size, n - at)]
      BY <2>1, <3>1
    <3>. QED
      BY <3>2
  <2>5. Least(size, n - at) \in 1 .. size /\ at + Least(size, n - at) = IF k = q THEN n ELSE at + size
    BY <2>2, <2>3 DEF Least
  <2>. QED
    BY <2>1, <2>2, <2>4, <2>5
<1>6. Chunks(n, size) = [k \in 1 .. q |-> Chunks(n, size)[k]]
  BY <1>2 DEF Chunks
<1>. QED
  BY <1>2, <1>5, <1>6

-----------------------------------------------------------------------------
(***************************************************************************)
(* The transfers a range of blocks is split into.                          *)
(***************************************************************************)

\* What a sequence of transfers keeps to: the device's limit, and the blocks
\* from `lo` up to `hi`.
Calls == [block : Int, blocks : Int]
Keeps(calls, limit, lo, hi) ==
    /\ calls \in Seq(Calls)
    /\ \A k \in 1 .. Len(calls) :
          /\ calls[k].blocks \in 1 .. AtLeast1(limit)
          /\ lo <= calls[k].block /\ calls[k].block + calls[k].blocks <= hi

\* A transfer of at least one block is always allowed.
LEMMA LimitIsPositive == ASSUME NEW limit \in Nat PROVE AtLeast1(limit) \in Nat \ {0}
  BY DEF AtLeast1

\* Transfers that keep to something, one sequence after the other, do.
LEMMA KeepsBoth ==
    ASSUME NEW s, NEW t, NEW limit, NEW lo, NEW hi,
           Keeps(s, limit, lo, hi), Keeps(t, limit, lo, hi)
    PROVE  Keeps(s \o t, limit, lo, hi) /\ Len(s \o t) = Len(s) + Len(t)
<1>1. s \o t \in Seq(Calls) /\ Len(s \o t) = Len(s) + Len(t)
  BY DEF Keeps
<1>2. ASSUME NEW k \in 1 .. Len(s \o t)
      PROVE  /\ (s \o t)[k].blocks \in 1 .. AtLeast1(limit)
             /\ lo <= (s \o t)[k].block /\ (s \o t)[k].block + (s \o t)[k].blocks <= hi
  <2>1. CASE k <= Len(s)
    <3>1. (s \o t)[k] = s[k] /\ k \in 1 .. Len(s)
      BY <1>1, <2>1 DEF Keeps
    <3>. QED
      BY <3>1 DEF Keeps
  <2>2. CASE k > Len(s)
    <3>1. (s \o t)[k] = t[k - Len(s)] /\ k - Len(s) \in 1 .. Len(t)
      BY <1>1, <2>2 DEF Keeps
    <3>. QED
      BY <3>1 DEF Keeps
  <2>. QED
    BY <1>1, <2>1, <2>2 DEF Keeps
<1>. QED
  BY <1>1, <1>2, Zenon DEF Keeps

\* And they keep to more blocks.
LEMMA KeepsWider ==
    ASSUME NEW s, NEW limit, NEW lo \in Int, NEW hi \in Int, NEW low \in Int, NEW high \in Int,
           Keeps(s, limit, lo, hi), low <= lo, hi <= high
    PROVE  Keeps(s, limit, low, high)
<1>1. \A k \in 1 .. Len(s) : s[k].block \in Int /\ s[k].blocks \in Int
  <2>1. s \in Seq(Calls)
    BY DEF Keeps
  <2>2. \A k \in 1 .. Len(s) : s[k] \in Calls
    BY <2>1
  <2>. QED
    BY <2>2 DEF Calls
<1>2. \A k \in 1 .. Len(s) : /\ s[k].blocks \in 1 .. AtLeast1(limit)
                             /\ lo <= s[k].block /\ s[k].block + s[k].blocks <= hi
  BY Zenon DEF Keeps
<1>3. \A k \in 1 .. Len(s) : low <= s[k].block /\ s[k].block + s[k].blocks <= high
  BY <1>1, <1>2
<1>. QED
  BY <1>2, <1>3 DEF Keeps

\* Making no transfer keeps to anything.
LEMMA KeepsNone ==
    ASSUME NEW limit, NEW lo, NEW hi
    PROVE  Keeps(<<>>, limit, lo, hi) /\ Len(<<>>) = 0
  BY DEF Keeps

\* So does one of the right length in the right place.
LEMMA KeepsOne ==
    ASSUME NEW limit \in Nat, NEW block \in Int, NEW n \in Int, n \in 1 .. AtLeast1(limit)
    PROVE  Keeps(<<Transfer(block, n)>>, limit, block, block + n)
<1>1. <<Transfer(block, n)>> \in Seq(Calls)
  <2>1. Transfer(block, n) \in Calls
    BY DEF Transfer, Calls
  <2>. QED
    BY <2>1
<1>2. \A k \in 1 .. 1 : <<Transfer(block, n)>>[k] = Transfer(block, n)
  OBVIOUS
<1>. QED
  BY <1>1, <1>2 DEF Keeps, Transfer

\* Whole blocks are moved as few at a time as the limit allows.
LEMMA BlocksKeep ==
    ASSUME NEW limit \in Nat, NEW block \in Int, NEW n \in Nat
    PROVE  /\ Keeps(Blocks(limit, block, n), limit, block, block + n)
           /\ Len(Blocks(limit, block, n)) = CeilDiv(n, AtLeast1(limit))
<1>1. PICK size \in Nat \ {0} : size = AtLeast1(limit)
  BY LimitIsPositive
<1>2. PICK N \in Nat : N = CeilDiv(n, size)
  BY Ceiling
<1>3. /\ DOMAIN Chunks(n, size) = 1 .. N
      /\ \A k \in 1 .. N :
            LET chunk == Chunks(n, size)[k]
            IN  /\ chunk.at \in Nat /\ chunk.length \in 1 .. size
                /\ chunk.at + chunk.length <= n
  <2>1. DOMAIN Chunks(n, size) = 1 .. N
    BY <1>2 DEF Chunks
  <2>. QED
    BY <1>2, <2>1, ChunksFill
<1>4. Blocks(limit, block, n)
         = [k \in 1 .. N |-> Transfer(block + Chunks(n, size)[k].at, Chunks(n, size)[k].length)]
  BY <1>1, <1>3 DEF Blocks
<1>5. ASSUME NEW k \in 1 .. N
      PROVE  /\ Blocks(limit, block, n)[k] \in Calls
             /\ Blocks(limit, block, n)[k].blocks \in 1 .. size
             /\ block <= Blocks(limit, block, n)[k].block
             /\ Blocks(limit, block, n)[k].block + Blocks(limit, block, n)[k].blocks <= block + n
  <2>1. PICK at \in Nat, length \in 1 .. size :
           at = Chunks(n, size)[k].at /\ length = Chunks(n, size)[k].length /\ at + length <= n
    BY <1>3
  <2>2. Blocks(limit, block, n)[k] = [block |-> block + at, blocks |-> length]
    BY <1>4, <2>1 DEF Transfer
  <2>. QED
    BY <2>1, <2>2 DEF Calls
<1>6. \A k \in 1 .. N : Blocks(limit, block, n)[k] \in Calls
  BY <1>5
<1>7. Blocks(limit, block, n) \in Seq(Calls) /\ Len(Blocks(limit, block, n)) = N
  BY <1>4, <1>6
<1>8. \A k \in 1 .. N :
         /\ Blocks(limit, block, n)[k].blocks \in 1 .. size
         /\ block <= Blocks(limit, block, n)[k].block
         /\ Blocks(limit, block, n)[k].block + Blocks(limit, block, n)[k].blocks <= block + n
  BY <1>5
<1>. QED
  BY <1>1, <1>2, <1>7, <1>8, Zenon DEF Keeps

-----------------------------------------------------------------------------
(***************************************************************************)
(* Bytes of the device, and the spans read_span and write_span move.       *)
(***************************************************************************)

\* A block has bytes.
LEMMA BlockSize == BLOCK_SIZE \in Nat \ {0}
  BY TransferAssumption

\* A sequence of n elements, whatever they are.
IsRow(s, n) == s = [k \in 1 .. n |-> s[k]]

\* A row of elements of a set is a sequence over it.
LEMMA RowIsSeq ==
    ASSUME NEW s, NEW n \in Nat, IsRow(s, n), NEW S, \A k \in 1 .. n : s[k] \in S
    PROVE  s \in Seq(S) /\ Len(s) = n
  BY DEF IsRow

\* A row that is two of them, one after the other.
IsJoin(u, s, t, m, n) ==
    /\ IsRow(u, m + n)
    /\ \A k \in 1 .. m : u[k] = s[k]
    /\ \A k \in 1 .. n : u[m + k] = t[k]

\* Two rows joined are each where it should be.
LEMMA Joined ==
    ASSUME NEW s, NEW t, NEW m \in Nat, NEW n \in Nat, IsRow(s, m), IsRow(t, n)
    PROVE  IsJoin(s \o t, s, t, m, n)
<1>1. PICK S : S = {s[k] : k \in 1 .. m} \cup {t[k] : k \in 1 .. n}
  OBVIOUS
<1>2. s \in Seq(S) /\ Len(s) = m
  <2>1. \A k \in 1 .. m : s[k] \in S
    BY <1>1
  <2>. QED
    BY <2>1, RowIsSeq
<1>3. t \in Seq(S) /\ Len(t) = n
  <2>1. \A k \in 1 .. n : t[k] \in S
    BY <1>1
  <2>. QED
    BY <2>1, RowIsSeq
<1>4. s \o t \in Seq(S) /\ Len(s \o t) = Len(s) + Len(t)
  BY <1>2, <1>3
<1>5. \A k \in 1 .. Len(s) + Len(t) :
         (s \o t)[k] = IF k <= Len(s) THEN s[k] ELSE t[k - Len(s)]
  BY <1>2, <1>3
<1>6. \A k \in 1 .. m : (s \o t)[k] = s[k]
  BY <1>2, <1>3, <1>5
<1>7. ASSUME NEW k \in 1 .. n PROVE (s \o t)[m + k] = t[k]
  <2>1. m + k \in 1 .. Len(s) + Len(t) /\ ~(m + k <= Len(s)) /\ m + k - Len(s) = k
    BY <1>2, <1>3
  <2>2. PICK i : i = m + k
    OBVIOUS
  <2>. QED
    BY <1>5, <2>1, <2>2
<1>8. PICK N \in Nat : N = m + n
  OBVIOUS
<1>9. IsRow(s \o t, N)
  <2>1. PICK u : u = s \o t
    OBVIOUS
  <2>2. u \in Seq(S) /\ Len(u) = N
    BY <1>2, <1>3, <1>4, <1>8, <2>1
  <2>3. IsRow(u, N)
    BY <2>2 DEF IsRow
  <2>. QED
    BY <2>1, <2>3
<1>. QED
  BY <1>6, <1>7, <1>8, <1>9 DEF IsJoin

\* Rows are the same if their elements are.
LEMMA RowsAgree ==
    ASSUME NEW s, NEW t, NEW n \in Nat, IsRow(s, n), IsRow(t, n), \A k \in 1 .. n : s[k] = t[k]
    PROVE  s = t
  BY SameElements, Zenon DEF IsRow

\* What was read is a row of the device's bytes.
LEMMA BytesRow ==
    ASSUME NEW device, NEW from \in Int, NEW n \in Nat
    PROVE  /\ IsRow(Bytes(device, from, n), n)
           /\ \A k \in 1 .. n : Bytes(device, from, n)[k] = device[from + k - 1]
  BY DEF IsRow, Bytes

\* n bytes from `mid` follow m bytes from `from`.
Follow(from, m, mid, n, total) ==
    /\ from \in Int /\ m \in Nat /\ n \in Nat
    /\ mid = from + m /\ total = m + n
AreJoined(device, from, m, mid, n, total) ==
    Bytes(device, from, m) \o Bytes(device, mid, n) = Bytes(device, from, total)

\* Two reads, the second where the first ended, are one.
LEMMA BytesJoin ==
    ASSUME NEW device, NEW from, NEW m, NEW mid, NEW n, NEW total, Follow(from, m, mid, n, total)
    PROVE  AreJoined(device, from, m, mid, n, total)
<1>. from \in Int /\ m \in Nat /\ n \in Nat /\ mid = from + m /\ total = m + n
  BY DEF Follow
<1>1. PICK s, t, u :
         /\ s = Bytes(device, from, m) /\ t = Bytes(device, from + m, n)
         /\ u = Bytes(device, from, m + n)
  OBVIOUS
<1>2. IsRow(s, m) /\ \A k \in 1 .. m : s[k] = device[from + k - 1]
  BY <1>1, BytesRow
<1>3. IsRow(t, n) /\ \A k \in 1 .. n : t[k] = device[(from + m) + k - 1]
  <2>1. from + m \in Int
    OBVIOUS
  <2>. QED
    BY <1>1, <2>1, BytesRow
<1>4. IsRow(u, m + n) /\ \A k \in 1 .. m + n : u[k] = device[from + k - 1]
  <2>1. m + n \in Nat
    OBVIOUS
  <2>. QED
    BY <1>1, <2>1, BytesRow
<1>5. PICK v : v = s \o t
  OBVIOUS
<1>6. /\ IsRow(v, m + n)
      /\ \A k \in 1 .. m : v[k] = s[k]
      /\ \A k \in 1 .. n : v[m + k] = t[k]
  <2>1. IsJoin(v, s, t, m, n)
    BY <1>2, <1>3, <1>5, Joined, Zenon
  <2>. QED
    BY <2>1 DEF IsJoin
<1>7. ASSUME NEW k \in 1 .. m + n PROVE v[k] = u[k]
  <2>1. CASE k <= m
    BY <1>2, <1>4, <1>6, <2>1
  <2>2. CASE ~(k <= m)
    <3>1. PICK j \in 1 .. n : k = m + j
      <4>1. k - m \in 1 .. n /\ k = m + (k - m)
        BY <2>2
      <4>. QED
        BY <4>1
    <3>2. v[k] = t[j] /\ t[j] = device[(from + m) + j - 1] /\ (from + m) + j - 1 = from + k - 1
      BY <1>3, <1>6, <3>1
    <3>. QED
      BY <1>4, <3>2
  <2>. QED
    BY <2>1, <2>2
<1>8. v = u
  <2>1. PICK N \in Nat : N = m + n
    OBVIOUS
  <2>. QED
    BY <1>4, <1>6, <1>7, <2>1, RowsAgree
<1>. QED
  BY <1>1, <1>5, <1>8 DEF AreJoined

\* Reading nothing gives nothing.
LEMMA BytesNone ==
    ASSUME NEW device, NEW from
    PROVE  Bytes(device, from, 0) = <<>>
  BY DEF Bytes

IsPart(device, from, n, skip, length) ==
    SubSeq(Bytes(device, from, n), skip + 1, skip + length) = Bytes(device, from + skip, length)

\* A part of what was read is what is there.
LEMMA BytesWithin ==
    ASSUME NEW device, NEW from \in Int, NEW n \in Nat, NEW skip \in Nat, NEW length \in Nat,
           skip + length <= n
    PROVE  IsPart(device, from, n, skip, length)
<1>1. PICK s : s = Bytes(device, from, n)
  OBVIOUS
<1>2. s = [k \in 1 .. n |-> device[from + k - 1]]
  BY <1>1 DEF Bytes
<1>3. SubSeq(s, skip + 1, skip + length) = [k \in 1 .. length |-> s[skip + k]]
  <2>1. s \in Seq({device[a] : a \in Int}) /\ Len(s) = n
    BY <1>2
  <2>. QED
    BY <2>1
<1>4. \A k \in 1 .. length : s[skip + k] = device[from + skip + k - 1]
  BY <1>2
<1>. QED
  <2>1. Bytes(device, from + skip, length) = [k \in 1 .. length |-> device[from + skip + k - 1]]
    BY DEF Bytes
  <2>2. SubSeq(s, skip + 1, skip + length) = Bytes(device, from + skip, length)
    BY <1>3, <1>4, <2>1
  <2>. QED
    BY <1>1, <2>2 DEF IsPart

\* Bytes reach as far as blocks do.
LEMMA BlocksCover ==
    ASSUME NEW a \in Int, NEW b \in Int, NEW t \in Nat, a * BLOCK_SIZE + t <= b * BLOCK_SIZE
    PROVE  a <= b /\ (t > 0 => a + 1 <= b)
<1>1. \A m, n \in Int : m <= n => m * BLOCK_SIZE <= n * BLOCK_SIZE
  BY BlockSize, SMT
<1>2. \A m \in Int : (m + 1) * BLOCK_SIZE = m * BLOCK_SIZE + BLOCK_SIZE /\ m * BLOCK_SIZE \in Int
  BY BlockSize, SMT
<1>3. a <= b
  <2> SUFFICES ASSUME b + 1 <= a PROVE FALSE
    OBVIOUS
  <2>1. (b + 1) * BLOCK_SIZE <= a * BLOCK_SIZE
    BY <1>1
  <2>. QED
    BY <1>2, <2>1, BlockSize
<1>4. t > 0 => a # b
  BY <1>2
<1>. QED
  BY <1>3, <1>4

\* The parts of a span make it up; each but the whole blocks is short of one.
LEMMA PartsAre ==
    ASSUME NEW skip \in Nat, skip < BLOCK_SIZE, NEW length \in Nat,
           NEW parts, parts = Parts(skip, length)
    PROVE  /\ parts.lead \in Nat /\ parts.whole \in Nat /\ parts.tail \in Nat
           /\ parts.whole * BLOCK_SIZE \in Nat
           /\ parts.lead + parts.whole * BLOCK_SIZE + parts.tail = length
           /\ parts.tail < BLOCK_SIZE
           /\ skip = 0 => parts.lead = 0
           /\ skip # 0 => \/ skip + parts.lead = BLOCK_SIZE
                          \/ /\ parts.lead = length /\ parts.whole = 0 /\ parts.tail = 0
                             /\ skip + length < BLOCK_SIZE
<1> DEFINE lead == IF skip = 0 THEN 0 ELSE Least(BLOCK_SIZE - skip, length)
           whole == (length - lead) \div BLOCK_SIZE
<1>1. lead \in Nat /\ lead <= length
  BY BlockSize DEF Least
<1>2. /\ skip = 0 => lead = 0
      /\ skip # 0 => skip + lead = BLOCK_SIZE \/ (lead = length /\ skip + length < BLOCK_SIZE)
  BY BlockSize DEF Least
<1>3. parts = [lead |-> lead, whole |-> whole, tail |-> length - lead - whole * BLOCK_SIZE]
  BY DEF Parts
<1>. HIDE DEF lead
<1>4. PICK rest \in Nat : rest = length - lead
  BY <1>1
<1>5. /\ whole \in Nat /\ whole * BLOCK_SIZE \in Nat /\ rest - whole * BLOCK_SIZE \in Nat
      /\ rest - whole * BLOCK_SIZE < BLOCK_SIZE
  <2>1. PICK w, left : w = rest \div BLOCK_SIZE /\ left = rest % BLOCK_SIZE
    OBVIOUS
  <2>2. w \in Nat /\ left \in Nat /\ left < BLOCK_SIZE /\ rest = w * BLOCK_SIZE + left
    BY <2>1, BlockSize, Division
  <2>3. whole = w
    BY <1>4, <2>1
  <2>. HIDE DEF whole
  <2>4. w * BLOCK_SIZE \in Nat
    BY <2>2, BlockSize
  <2>. QED
    BY <2>2, <2>3, <2>4, BlockSize
<1>6. rest = 0 => whole = 0 /\ whole * BLOCK_SIZE = 0
  <2>1. whole # 0 => whole * BLOCK_SIZE >= 1
    BY <1>5, BlockSize, SMT
  <2>. QED
    BY <1>4, <1>5, <2>1
<1>. HIDE DEF whole
<1>. QED
  BY <1>1, <1>2, <1>3, <1>4, <1>5, <1>6

\* The same under one name, for proofs that use the parts beside much else.
IsParts(parts, skip, length) ==
    /\ parts.lead \in Nat /\ parts.whole \in Nat /\ parts.tail \in Nat
    /\ parts.whole * BLOCK_SIZE \in Nat
    /\ parts.lead + parts.whole * BLOCK_SIZE + parts.tail = length
    /\ parts.tail < BLOCK_SIZE
    /\ skip = 0 => parts.lead = 0
    /\ skip # 0 => \/ skip + parts.lead = BLOCK_SIZE
                   \/ /\ parts.lead = length /\ parts.whole = 0 /\ parts.tail = 0
                      /\ skip + length < BLOCK_SIZE

\* Parts gives such parts.
LEMMA PartsFit ==
    ASSUME NEW skip \in Nat, skip < BLOCK_SIZE, NEW length \in Nat,
           NEW parts, parts = Parts(skip, length)
    PROVE  IsParts(parts, skip, length)
  BY PartsAre DEF IsParts

\* Where the parts of a span lie: in the blocks up to `hi` if the span does.
LEMMA PartsLie ==
    ASSUME NEW first \in Int, NEW skip \in Nat, skip < BLOCK_SIZE, NEW length \in Nat \ {0},
           NEW hi \in Int, first * BLOCK_SIZE + skip + length <= hi * BLOCK_SIZE,
           NEW parts, parts = Parts(skip, length),
           NEW wholeAt, wholeAt = first + (IF skip = 0 THEN 0 ELSE 1),
           NEW tailAt, tailAt = wholeAt + parts.whole
    PROVE  /\ wholeAt \in Int /\ tailAt \in Int /\ first <= wholeAt /\ wholeAt <= tailAt
           /\ first + 1 <= hi /\ tailAt <= hi /\ (parts.tail # 0 => tailAt + 1 <= hi)
           /\ tailAt * BLOCK_SIZE = wholeAt * BLOCK_SIZE + parts.whole * BLOCK_SIZE
           /\ \/ parts.lead = length /\ parts.whole = 0 /\ parts.tail = 0
              \/ wholeAt * BLOCK_SIZE = first * BLOCK_SIZE + skip + parts.lead
<1>1. /\ parts.lead \in Nat /\ parts.whole \in Nat /\ parts.tail \in Nat
      /\ parts.whole * BLOCK_SIZE \in Nat
      /\ parts.lead + parts.whole * BLOCK_SIZE + parts.tail = length
      /\ skip = 0 => parts.lead = 0
      /\ skip # 0 => \/ skip + parts.lead = BLOCK_SIZE
                     \/ /\ parts.lead = length /\ parts.whole = 0 /\ parts.tail = 0
                        /\ skip + length < BLOCK_SIZE
  BY PartsAre
<1>2. PICK w \in Nat, l \in Nat, t \in Nat : w = parts.whole /\ l = parts.lead /\ t = parts.tail
  BY <1>1
<1>3. wholeAt \in Int /\ tailAt \in Int /\ first <= wholeAt /\ wholeAt <= tailAt
  BY <1>2
<1>4. PICK F \in Int, W \in Int, T \in Int, X \in Nat, H \in Int :
         /\ F = first * BLOCK_SIZE /\ W = wholeAt * BLOCK_SIZE /\ T = tailAt * BLOCK_SIZE
         /\ X = w * BLOCK_SIZE /\ H = hi * BLOCK_SIZE
  <2>1. /\ first * BLOCK_SIZE \in Int /\ wholeAt * BLOCK_SIZE \in Int
        /\ tailAt * BLOCK_SIZE \in Int /\ hi * BLOCK_SIZE \in Int
    BY <1>3, BlockSize
  <2>2. w * BLOCK_SIZE \in Nat
    BY BlockSize
  <2>. QED
    BY <2>1, <2>2
<1>5. T = W + X
  BY <1>2, <1>3, <1>4, BlockSize, SMT
<1>6. W = IF skip = 0 THEN F ELSE F + BLOCK_SIZE
  BY <1>4, BlockSize, SMT
<1>7. first + 1 <= hi
  <2>1. skip + length \in Nat /\ skip + length > 0
    OBVIOUS
  <2>2. PICK n \in Nat : n = skip + length
    BY <2>1
  <2>3. first * BLOCK_SIZE + n <= hi * BLOCK_SIZE
    BY <1>4, <2>2
  <2>. QED
    BY <2>1, <2>2, <2>3, BlocksCover
<1>8. \/ l = length /\ w = 0 /\ t = 0
      \/ W = F + skip + l
  BY <1>1, <1>2, <1>6, BlockSize
<1>9. tailAt <= hi /\ (t # 0 => tailAt + 1 <= hi)
  <2>1. CASE W = F + skip + l
    <3>1. T + t <= H
      BY <1>1, <1>2, <1>4, <1>5, <2>1
    <3>2. tailAt * BLOCK_SIZE + t <= hi * BLOCK_SIZE
      BY <1>4, <3>1
    <3>. QED
      BY <1>3, <3>2, BlocksCover
  <2>2. CASE w = 0 /\ t = 0
    BY <1>2, <1>7, <2>2
  <2>. QED
    BY <1>8, <2>1, <2>2
<1>. QED
  BY <1>2, <1>3, <1>4, <1>5, <1>7, <1>8, <1>9


\* A span that ends before block `hi`.
InBlocks(first, skip, length, hi) ==
    /\ first \in Int /\ skip \in Nat /\ skip < BLOCK_SIZE /\ length \in Nat \ {0}
    /\ hi \in Int /\ first * BLOCK_SIZE + skip + length <= hi * BLOCK_SIZE

\* The transfers of a span's parts.
CallsOf(limit, first, skip, length) ==
    LET parts   == Parts(skip, length)
        wholeAt == first + (IF skip = 0 THEN 0 ELSE 1)
        tailAt  == wholeAt + parts.whole
    IN  (IF skip = 0 THEN <<>> ELSE <<Transfer(first, 1)>>)
           \o Blocks(limit, wholeAt, parts.whole)
           \o (IF parts.tail = 0 THEN <<>> ELSE <<Transfer(tailAt, 1)>>)

\* The transfers of a span's parts: none is longer than the device allows, nor
\* reaches past the span's blocks.
LEMMA PartCalls ==
    ASSUME NEW limit \in Nat, NEW first, NEW skip, NEW length, NEW hi,
           InBlocks(first, skip, length, hi),
           NEW calls, calls = CallsOf(limit, first, skip, length)
    PROVE  /\ Keeps(calls, limit, first, hi)
           /\ skip = 0 /\ length % BLOCK_SIZE = 0 =>
                 Len(calls) = CeilDiv(length \div BLOCK_SIZE, AtLeast1(limit))
<1>. /\ first \in Int /\ skip \in Nat /\ skip < BLOCK_SIZE /\ length \in Nat \ {0}
     /\ hi \in Int /\ first * BLOCK_SIZE + skip + length <= hi * BLOCK_SIZE
  BY DEF InBlocks
<1>4. PICK parts : parts = Parts(skip, length)
  OBVIOUS
<1>6. PICK wholeAt, tailAt :
         wholeAt = first + (IF skip = 0 THEN 0 ELSE 1) /\ tailAt = wholeAt + parts.whole
  OBVIOUS
<1>7. calls = (IF skip = 0 THEN <<>> ELSE <<Transfer(first, 1)>>)
                \o Blocks(limit, wholeAt, parts.whole)
                \o (IF parts.tail = 0 THEN <<>> ELSE <<Transfer(tailAt, 1)>>)
  BY <1>4, <1>6, Zenon DEF CallsOf
<1>1. /\ parts.lead \in Nat /\ parts.whole \in Nat /\ parts.tail \in Nat
      /\ parts.whole * BLOCK_SIZE \in Nat
      /\ parts.lead + parts.whole * BLOCK_SIZE + parts.tail = length
  <2>1. IsParts(parts, skip, length)
    BY <1>4, PartsFit
  <2>. QED
    BY <2>1 DEF IsParts
<1>2. /\ wholeAt \in Int /\ tailAt \in Int /\ first <= wholeAt /\ wholeAt <= tailAt
      /\ first + 1 <= hi /\ tailAt <= hi /\ (parts.tail # 0 => tailAt + 1 <= hi)
  BY <1>4, <1>6, PartsLie
<1>3. PICK w \in Nat, l \in Nat, t \in Nat, X \in Nat :
         /\ w = parts.whole /\ l = parts.lead /\ t = parts.tail /\ X = parts.whole * BLOCK_SIZE
  BY <1>1
<1>5. l + X + t = length
  BY <1>1, <1>3
<1>11. PICK c1, c2, c3 :
          /\ c1 = IF skip = 0 THEN <<>> ELSE <<Transfer(first, 1)>>
          /\ c2 = Blocks(limit, wholeAt, w)
          /\ c3 = IF t = 0 THEN <<>> ELSE <<Transfer(tailAt, 1)>>
  OBVIOUS
<1>12. calls = c1 \o c2 \o c3
  BY <1>3, <1>7, <1>11, Zenon
<1>13. 1 \in 1 .. AtLeast1(limit)
  BY DEF AtLeast1
<1>14. Keeps(c1, limit, first, hi) /\ (skip = 0 => Len(c1) = 0)
  <2>1. CASE skip = 0
    BY <1>11, <2>1, KeepsNone
  <2>2. CASE skip # 0
    <3>1. PICK mid \in Int : mid = first + 1
      OBVIOUS
    <3>2. Keeps(c1, limit, first, mid)
      BY <1>11, <1>13, <2>2, <3>1, KeepsOne
    <3>3. mid <= hi /\ first <= first
      BY <1>2, <3>1
    <3>4. Keeps(c1, limit, first, hi)
      BY <3>2, <3>3, KeepsWider
    <3>. QED
      BY <2>2, <3>4
  <2>. QED
    BY <2>1, <2>2
<1>15. Keeps(c2, limit, first, hi) /\ Len(c2) = CeilDiv(w, AtLeast1(limit))
  <2>1. Keeps(c2, limit, wholeAt, wholeAt + w) /\ Len(c2) = CeilDiv(w, AtLeast1(limit))
    BY <1>2, <1>3, <1>11, BlocksKeep, Zenon
  <2>2. PICK mid \in Int : mid = wholeAt + w
    BY <1>2
  <2>3. mid <= hi
    BY <1>2, <1>3, <1>6, <2>2
  <2>4. Keeps(c2, limit, wholeAt, mid) /\ first <= wholeAt
    BY <1>2, <2>1, <2>2
  <2>5. Keeps(c2, limit, first, hi)
    BY <1>2, <2>3, <2>4, KeepsWider
  <2>. QED
    BY <2>1, <2>5
<1>16. Keeps(c3, limit, first, hi) /\ (t = 0 => Len(c3) = 0)
  <2>1. CASE t = 0
    BY <1>11, <2>1, KeepsNone
  <2>2. CASE t # 0
    <3>1. PICK mid \in Int : mid = tailAt + 1
      BY <1>2
    <3>2. Keeps(c3, limit, tailAt, mid)
      BY <1>2, <1>11, <1>13, <2>2, <3>1, KeepsOne
    <3>3. mid <= hi /\ first <= tailAt
      BY <1>2, <1>3, <2>2, <3>1
    <3>4. Keeps(c3, limit, first, hi)
      BY <1>2, <3>2, <3>3, KeepsWider
    <3>. QED
      BY <2>2, <3>4
  <2>. QED
    BY <2>1, <2>2
<1>17. Keeps(c1 \o c2, limit, first, hi) /\ Len(c1 \o c2) = Len(c1) + Len(c2)
  BY <1>14, <1>15, KeepsBoth
<1>18. PICK c12 : c12 = c1 \o c2
  OBVIOUS
<1>19. Keeps(c12 \o c3, limit, first, hi) /\ Len(c12 \o c3) = Len(c12) + Len(c3)
  BY <1>16, <1>17, <1>18, KeepsBoth
<1>20. ASSUME skip = 0, length % BLOCK_SIZE = 0
       PROVE  Len(calls) = CeilDiv(length \div BLOCK_SIZE, AtLeast1(limit))
  <2>1. PICK d \in Nat : d = length \div BLOCK_SIZE /\ length = d * BLOCK_SIZE
    <3>1. /\ length \div BLOCK_SIZE \in Nat
          /\ length = (length \div BLOCK_SIZE) * BLOCK_SIZE + (length % BLOCK_SIZE)
      BY BlockSize, Division
    <3>2. PICK d \in Nat : d = length \div BLOCK_SIZE
      BY <3>1
    <3>3. d * BLOCK_SIZE \in Nat
      BY BlockSize
    <3>4. length = d * BLOCK_SIZE
      BY <1>20, <3>1, <3>2, <3>3
    <3>. QED
      BY <3>2, <3>4
  <2>2. w = (length - 0) \div BLOCK_SIZE
    BY <1>3, <1>4, <1>20 DEF Parts
  <2>3. w = d
    BY <2>1, <2>2
  <2>4. t = 0 /\ l = 0
    <3>1. l = 0
      BY <1>3, <1>4, <1>20 DEF Parts
    <3>2. X = d * BLOCK_SIZE
      BY <1>3, <2>3
    <3>. QED
      BY <1>5, <2>1, <3>1, <3>2
  <2>5. Len(c1) = 0 /\ Len(c3) = 0 /\ Len(c2) = CeilDiv(d, AtLeast1(limit))
    BY <1>14, <1>15, <1>16, <1>20, <2>3, <2>4
  <2>6. CeilDiv(d, AtLeast1(limit)) \in Nat
    BY LimitIsPositive, Ceiling
  <2>. QED
    BY <1>12, <1>17, <1>18, <1>19, <2>1, <2>5, <2>6
<1>. QED
  BY <1>12, <1>18, <1>19, <1>20

\* A read of a span brings its bytes, in as few transfers as the limit allows if
\* they are whole blocks.
LEMMA ReadSpanIs ==
    ASSUME NEW device, NEW limit \in Nat, NEW first \in Int, NEW skip \in Nat,
           NEW length \in Nat \ {0}, NEW hi \in Int, InBlocks(first, skip, length, hi),
           NEW read, read = ReadSpan(device, limit, first, skip, length)
    PROVE  /\ read.data = Bytes(device, first * BLOCK_SIZE + skip, length)
           /\ Keeps(read.calls, limit, first, hi)
           /\ skip = 0 /\ length % BLOCK_SIZE = 0 =>
                 Len(read.calls) = CeilDiv(length \div BLOCK_SIZE, AtLeast1(limit))
<1>. skip < BLOCK_SIZE /\ first * BLOCK_SIZE + skip + length <= hi * BLOCK_SIZE
  BY DEF InBlocks
<1>1. PICK span : span = CeilDiv(skip + length, BLOCK_SIZE)
  OBVIOUS
<1>2. PICK ragged \in BOOLEAN : ragged = (skip # 0 \/ length % BLOCK_SIZE # 0)
  OBVIOUS
<1>3. PICK parts : parts = Parts(skip, length)
  OBVIOUS
<1>4. PICK wholeAt : wholeAt = first + (IF skip = 0 THEN 0 ELSE 1)
  OBVIOUS
<1>5. PICK tailAt : tailAt = wholeAt + parts.whole
  OBVIOUS
<1>6. PICK atOnce, split :
         /\ atOnce = [data  |-> SubSeq(Bytes(device, first * BLOCK_SIZE, span * BLOCK_SIZE),
                                      skip + 1, skip + length),
                      calls |-> <<Transfer(first, span)>>]
         /\ split = [data  |-> Bytes(device, first * BLOCK_SIZE + skip, parts.lead)
                                 \o Bytes(device, wholeAt * BLOCK_SIZE, parts.whole * BLOCK_SIZE)
                                 \o Bytes(device, tailAt * BLOCK_SIZE, parts.tail),
                     calls |-> (IF skip = 0 THEN <<>> ELSE <<Transfer(first, 1)>>)
                                  \o Blocks(limit, wholeAt, parts.whole)
                                  \o (IF parts.tail = 0 THEN <<>> ELSE <<Transfer(tailAt, 1)>>)]
         /\ read = IF ragged /\ span <= SMALL_SPAN_BLOCKS /\ span <= limit THEN atOnce ELSE split
  BY <1>1, <1>2, <1>3, <1>4, <1>5, Zenon DEF ReadSpan
<1>7. PICK F \in Int, H \in Int : F = first * BLOCK_SIZE /\ H = hi * BLOCK_SIZE
  BY BlockSize
<1>8. CASE ragged /\ span <= SMALL_SPAN_BLOCKS /\ span <= limit
  <2>1. PICK n \in Nat \ {0} : n = skip + length
    OBVIOUS
  <2>2. /\ span \in Nat /\ span # 0
        /\ n <= span * BLOCK_SIZE /\ span * BLOCK_SIZE < n + BLOCK_SIZE
    BY <1>1, <2>1, BlockSize, Ceiling
  <2>3. PICK N \in Nat : N = span * BLOCK_SIZE
    BY <2>2, BlockSize
  <2>4. read.data = SubSeq(Bytes(device, F, N), skip + 1, skip + length)
    <3>1. read = atOnce /\ atOnce.data = SubSeq(Bytes(device, first * BLOCK_SIZE, span * BLOCK_SIZE), skip + 1, skip + length)
      BY <1>6, <1>8, Zenon
    <3>. QED
      BY <1>7, <2>3, <3>1
  <2>5. read.data = Bytes(device, F + skip, length)
    <3>1. skip + length <= N
      BY <2>1, <2>2, <2>3
    <3>. QED
      <4>1. IsPart(device, F, N, skip, length)
        BY <3>1, BytesWithin
      <4>. QED
        BY <2>4, <4>1 DEF IsPart
  <2>6. first + span <= hi
    <3>1. PICK a \in Int, b \in Int : a = first + span /\ b = hi + 1
      BY <2>2
    <3>2. a * BLOCK_SIZE = F + N /\ b * BLOCK_SIZE = H + BLOCK_SIZE
      BY <1>7, <2>2, <2>3, <3>1, BlockSize, SMT
    <3>3. a * BLOCK_SIZE + 1 <= b * BLOCK_SIZE
      BY <1>7, <2>1, <2>2, <2>3, <3>2, BlockSize
    <3>4. a + 1 <= b
      BY <3>3, BlocksCover
    <3>. QED
      BY <2>2, <3>1, <3>4
  <2>7. Keeps(read.calls, limit, first, hi)
    <3>1. read.calls = <<Transfer(first, span)>>
      BY <1>6, <1>8
    <3>2. span \in 1 .. AtLeast1(limit)
      BY <1>8, <2>2 DEF AtLeast1
    <3>3. Keeps(<<Transfer(first, span)>>, limit, first, first + span)
      BY <2>2, <3>2, KeepsOne
    <3>4. PICK mid \in Int : mid = first + span
      BY <2>2
    <3>5. Keeps(read.calls, limit, first, mid) /\ first <= first /\ mid <= hi
      BY <2>6, <3>1, <3>3, <3>4
    <3>. QED
      BY <3>5, KeepsWider
  <2>8. ~(skip = 0 /\ length % BLOCK_SIZE = 0)
    BY <1>2, <1>8
  <2>. QED
    BY <1>7, <2>5, <2>7, <2>8
<1>9. CASE ~(ragged /\ span <= SMALL_SPAN_BLOCKS /\ span <= limit)
  <2>1. /\ parts.lead \in Nat /\ parts.whole \in Nat /\ parts.tail \in Nat
        /\ parts.whole * BLOCK_SIZE \in Nat
        /\ parts.lead + parts.whole * BLOCK_SIZE + parts.tail = length
    <3>1. IsParts(parts, skip, length)
      BY <1>3, PartsFit
    <3>. QED
      BY <3>1 DEF IsParts
  <2>2. /\ wholeAt \in Int /\ tailAt \in Int /\ first <= wholeAt /\ wholeAt <= tailAt
        /\ first + 1 <= hi /\ tailAt <= hi /\ (parts.tail # 0 => tailAt + 1 <= hi)
        /\ tailAt * BLOCK_SIZE = wholeAt * BLOCK_SIZE + parts.whole * BLOCK_SIZE
        /\ \/ parts.lead = length /\ parts.whole = 0 /\ parts.tail = 0
           \/ wholeAt * BLOCK_SIZE = first * BLOCK_SIZE + skip + parts.lead
    BY <1>3, <1>4, <1>5, PartsLie
  <2>3. PICK w \in Nat, l \in Nat, t \in Nat, X \in Nat, W \in Int, T \in Int :
           /\ w = parts.whole /\ l = parts.lead /\ t = parts.tail /\ X = parts.whole * BLOCK_SIZE
           /\ W = wholeAt * BLOCK_SIZE /\ T = tailAt * BLOCK_SIZE
    BY <2>1, <2>2, BlockSize
  <2>4. read.data = Bytes(device, F + skip, l) \o Bytes(device, W, X) \o Bytes(device, T, t)
    <3>1. split.data = Bytes(device, first * BLOCK_SIZE + skip, parts.lead)
                          \o Bytes(device, wholeAt * BLOCK_SIZE, parts.whole * BLOCK_SIZE)
                          \o Bytes(device, tailAt * BLOCK_SIZE, parts.tail)
      BY <1>6, Zenon
    <3>2. read = split
      BY <1>6, <1>9
    <3>. QED
      BY <1>7, <2>3, <3>1, <3>2, Zenon
  <2>5. l + X + t = length /\ T = W + X /\ ((l = length /\ X = 0 /\ t = 0) \/ W = F + skip + l)
    <3>1. w = 0 => X = 0
      BY <2>3, BlockSize
    <3>. QED
      BY <1>7, <2>1, <2>2, <2>3, <3>1
  <2>6. PICK A \in Int, M \in Int, E \in Int, y \in Nat :
           A = F + skip /\ M = A + l /\ E = A + y /\ y = l + X
    OBVIOUS
  <2>7. /\ Bytes(device, W, X) = Bytes(device, M, X)
        /\ Bytes(device, T, t) = Bytes(device, E, t)
    <3>1. CASE X = 0 /\ t = 0
      BY <3>1, BytesNone
    <3>2. CASE W = F + skip + l
      <4>1. W = M /\ T = E
        BY <2>5, <2>6, <3>2
      <4>. QED
        BY <4>1
    <3>. QED
      BY <2>5, <3>1, <3>2
  <2>8. Bytes(device, A, l) \o Bytes(device, M, X) = Bytes(device, A, y)
    <3>1. Follow(A, l, M, X, y)
      BY <2>3, <2>6 DEF Follow
    <3>2. AreJoined(device, A, l, M, X, y)
      BY <3>1, BytesJoin
    <3>. QED
      BY <3>2 DEF AreJoined
  <2>9. Bytes(device, A, y) \o Bytes(device, E, t) = Bytes(device, A, length)
    <3>1. length = y + t /\ y \in Nat /\ length \in Nat
      BY <2>3, <2>5, <2>6
    <3>2. Follow(A, y, E, t, length)
      BY <2>3, <2>6, <3>1 DEF Follow
    <3>3. AreJoined(device, A, y, E, t, length)
      BY <3>2, BytesJoin
    <3>. QED
      BY <3>3 DEF AreJoined
  <2>10. read.data = Bytes(device, F + skip, length)
    BY <2>4, <2>6, <2>7, <2>8, <2>9
  <2>11. read.calls = CallsOf(limit, first, skip, length)
    <3>1. read = split
      BY <1>6, <1>9
    <3>2. split.calls = (IF skip = 0 THEN <<>> ELSE <<Transfer(first, 1)>>)
                           \o Blocks(limit, wholeAt, parts.whole)
                           \o (IF parts.tail = 0 THEN <<>> ELSE <<Transfer(tailAt, 1)>>)
      BY <1>6, Zenon
    <3>. QED
      BY <1>3, <1>4, <1>5, <3>1, <3>2, Zenon DEF CallsOf
  <2>13. PICK calls : calls = read.calls
    OBVIOUS
  <2>14. /\ Keeps(calls, limit, first, hi)
         /\ skip = 0 /\ length % BLOCK_SIZE = 0 =>
               Len(calls) = CeilDiv(length \div BLOCK_SIZE, AtLeast1(limit))
    BY <2>11, <2>13, PartCalls
  <2>. QED
    BY <1>7, <2>10, <2>13, <2>14
<1>. QED
  BY <1>8, <1>9

\* A part of a row is one.
LEMMA Slice ==
    ASSUME NEW data, NEW N \in Nat, IsRow(data, N), NEW at \in Nat, NEW n \in Nat, at + n <= N
    PROVE  /\ IsRow(SubSeq(data, at + 1, at + n), n) /\ Len(SubSeq(data, at + 1, at + n)) = n
           /\ \A k \in 1 .. n : SubSeq(data, at + 1, at + n)[k] = data[at + k]
<1>1. PICK S : S = {data[k] : k \in 1 .. N}
  OBVIOUS
<1>2. data \in Seq(S) /\ Len(data) = N
  <2>1. \A k \in 1 .. N : data[k] \in S
    BY <1>1
  <2>. QED
    BY <2>1, RowIsSeq
<1>3. SubSeq(data, at + 1, at + n) = [k \in 1 .. n |-> data[at + k]]
  BY <1>2
<1>4. PICK s : s = SubSeq(data, at + 1, at + n)
  OBVIOUS
<1>5. s = [k \in 1 .. n |-> data[at + k]]
  BY <1>3, <1>4
<1>6. IsRow(s, n) /\ Len(s) = n /\ \A k \in 1 .. n : s[k] = data[at + k]
  BY <1>5 DEF IsRow
<1>. QED
  BY <1>4, <1>6

\* A device that is another but for n bytes from `from`, which are what comes
\* after `at` bytes of `data`.
Placed(new, old, from, n, data, at) ==
    /\ DOMAIN new = DOMAIN old
    /\ \A a \in DOMAIN old :
          new[a] = IF from <= a /\ a < from + n THEN data[at + (a - from + 1)] ELSE old[a]

\* What a slice of data put on a device makes of it.
IsSlice(s, data, at, n) ==
    /\ at \in Nat /\ n \in Nat /\ Len(s) = n
    /\ \A k \in 1 .. n : s[k] = data[at + k]

\* What SubSeq returns is the slice of the data it names.
LEMMA SliceIs ==
    ASSUME NEW data, NEW N \in Nat, IsRow(data, N), NEW at \in Nat, NEW n \in Nat, at + n <= N
    PROVE  IsSlice(SubSeq(data, at + 1, at + n), data, at, n)
<1>1. /\ Len(SubSeq(data, at + 1, at + n)) = n
      /\ \A k \in 1 .. n : SubSeq(data, at + 1, at + n)[k] = data[at + k]
  BY Slice
<1>. QED
  BY <1>1, Zenon DEF IsSlice

\* Writing a slice of the data places it.
LEMMA PatchPlaces ==
    ASSUME NEW device, DOMAIN device \subseteq Int, NEW from \in Int,
           NEW s, NEW data, NEW at, NEW n, IsSlice(s, data, at, n)
    PROVE  Placed(Patched(device, from, s), device, from, n, data, at)
<1>1. at \in Nat /\ n \in Nat /\ Len(s) = n /\ \A k \in 1 .. n : s[k] = data[at + k]
  BY DEF IsSlice
<1>2. PICK new : new = Patched(device, from, s)
  OBVIOUS
<1>3. /\ DOMAIN new = DOMAIN device
      /\ \A a \in DOMAIN device :
            new[a] = IF a \in from .. from + n - 1 THEN s[a - from + 1] ELSE device[a]
  BY <1>1, <1>2 DEF Patched
<1>4. ASSUME NEW a \in DOMAIN device
      PROVE  new[a] = IF from <= a /\ a < from + n THEN data[at + (a - from + 1)] ELSE device[a]
  <2>1. a \in Int
    OBVIOUS
  <2>2. CASE from <= a /\ a < from + n
    <3>1. PICK k \in 1 .. n : k = a - from + 1
      BY <1>1, <2>1, <2>2
    <3>2. a \in from .. from + n - 1
      BY <1>1, <2>1, <2>2
    <3>. QED
      BY <1>1, <1>3, <2>2, <3>1, <3>2
  <2>3. CASE ~(from <= a /\ a < from + n)
    <3>1. ~(a \in from .. from + n - 1)
      BY <1>1, <2>1, <2>3
    <3>. QED
      BY <1>3, <2>3, <3>1
  <2>. QED
    BY <2>2, <2>3
<1>. QED
  BY <1>2, <1>3, <1>4 DEF Placed

\* A block read, changed and written back changes what it was to.
LEMMA RewritePlaces ==
    ASSUME NEW device, DOMAIN device \subseteq Int, NEW block \in Int, NEW skip \in Nat,
           NEW s, NEW data, NEW at, NEW n, IsSlice(s, data, at, n), skip + n <= BLOCK_SIZE
    PROVE  Placed(RewriteBlock(device, block, skip, s), device, block * BLOCK_SIZE + skip, n, data, at)
<1>1. at \in Nat /\ n \in Nat /\ Len(s) = n /\ \A k \in 1 .. n : s[k] = data[at + k]
  BY DEF IsSlice
<1>2. PICK F \in Int, B \in Nat : F = block * BLOCK_SIZE /\ B = BLOCK_SIZE
  <2>1. block * BLOCK_SIZE \in Int /\ BLOCK_SIZE \in Nat
    BY BlockSize
  <2>. QED
    BY <2>1
<1>3. PICK scratch, changed, new :
         /\ scratch = Bytes(device, F, B)
         /\ changed = [k \in 1 .. B |-> IF k - 1 \in skip .. skip + n - 1 THEN s[k - skip]
                                        ELSE scratch[k]]
         /\ new = Patched(device, F, changed)
  OBVIOUS
<1>4. RewriteBlock(device, block, skip, s) = new
  BY <1>1, <1>2, <1>3, Zenon DEF RewriteBlock
<1>5. \A k \in 1 .. B : scratch[k] = device[F + k - 1]
  BY <1>3, BytesRow
<1>6. Len(changed) = B
  BY <1>3
<1>7. /\ DOMAIN new = DOMAIN device
      /\ \A a \in DOMAIN device :
            new[a] = IF a \in F .. F + B - 1 THEN changed[a - F + 1] ELSE device[a]
  BY <1>3, <1>6 DEF Patched
<1>10. n \in Nat /\ skip + n <= B
  BY <1>1, <1>2
<1>9. \A c \in 1 .. B : c - 1 \in skip .. skip + n - 1 => changed[c] = s[c - skip]
  BY <1>3
<1>8. ASSUME NEW a \in DOMAIN device
      PROVE  new[a] = IF F + skip <= a /\ a < F + skip + n THEN data[at + (a - (F + skip) + 1)]
                      ELSE device[a]
  <2>1. a \in Int
    OBVIOUS
  <2>2. CASE F + skip <= a /\ a < F + skip + n
    <3>1. PICK k \in 1 .. n : k = a - (F + skip) + 1
      BY <1>10, <2>1, <2>2
    <3>2. a \in F .. F + B - 1 /\ a - F + 1 = k + skip
      BY <1>10, <2>1, <2>2, <3>1
    <3>3. k + skip \in 1 .. B /\ (k + skip) - 1 \in skip .. skip + n - 1 /\ (k + skip) - skip = k
      BY <1>10, <3>1
    <3>4. changed[k + skip] = s[k]
      BY <1>9, <3>3
    <3>5. new[a] = changed[k + skip]
      BY <1>7, <3>2
    <3>6. s[k] = data[at + k]
      BY <1>1
    <3>. QED
      BY <2>2, <3>1, <3>4, <3>5, <3>6
  <2>3. CASE ~(F + skip <= a /\ a < F + skip + n)
    <3>1. CASE a \in F .. F + B - 1
      <4>1. PICK k \in 1 .. B : k = a - F + 1
        BY <1>2, <2>1, <3>1
      <4>2. ~(k - 1 \in skip .. skip + n - 1) /\ F + k - 1 = a
        BY <1>1, <2>1, <2>3, <4>1
      <4>3. changed[k] = device[a]
        BY <1>3, <1>5, <4>1, <4>2
      <4>. QED
        BY <1>7, <2>3, <3>1, <4>1, <4>3
    <3>2. CASE ~(a \in F .. F + B - 1)
      BY <1>7, <2>3, <3>2
    <3>. QED
      BY <3>1, <3>2
  <2>. QED
    BY <2>2, <2>3
<1>. QED
  BY <1>2, <1>4, <1>7, <1>8 DEF Placed

\* Nothing placed is no change.
LEMMA PlacedNone ==
    ASSUME NEW device, DOMAIN device \subseteq Int, NEW from \in Int, NEW data, NEW at
    PROVE  Placed(device, device, from, 0, data, at)
  BY DEF Placed

\* One slice of data after another.
LEMMA PlacedTwice ==
    ASSUME NEW d0, NEW d1, NEW d2, DOMAIN d0 \subseteq Int, NEW data,
           NEW from, NEW m, NEW mid, NEW n, NEW total, Follow(from, m, mid, n, total),
           NEW at \in Nat, NEW next, next = at + m,
           Placed(d1, d0, from, m, data, at), Placed(d2, d1, mid, n, data, next)
    PROVE  Placed(d2, d0, from, total, data, at)
<1>. from \in Int /\ m \in Nat /\ n \in Nat /\ mid = from + m /\ total = m + n
  BY DEF Follow
<1>1. DOMAIN d2 = DOMAIN d0 /\ DOMAIN d1 = DOMAIN d0
  BY DEF Placed
<1>2. ASSUME NEW a \in DOMAIN d0
      PROVE  d2[a] = IF from <= a /\ a < from + total THEN data[at + (a - from + 1)] ELSE d0[a]
  <2>1. a \in Int
    OBVIOUS
  <2>2. d1[a] = IF from <= a /\ a < from + m THEN data[at + (a - from + 1)] ELSE d0[a]
    BY DEF Placed
  <2>3. d2[a] = IF mid <= a /\ a < mid + n THEN data[next + (a - mid + 1)] ELSE d1[a]
    BY <1>1 DEF Placed
  <2>4. next + (a - mid + 1) = at + (a - from + 1)
    BY <2>1
  <2>. QED
    BY <2>1, <2>2, <2>3, <2>4
<1>. QED
  BY <1>1, <1>2 DEF Placed

\* A write of a span changes its bytes and no others.
LEMMA WriteSpanIs ==
    ASSUME NEW device, DOMAIN device \subseteq Int, NEW limit \in Nat,
           NEW first, NEW skip, NEW length, NEW hi, InBlocks(first, skip, length, hi),
           NEW data, IsRow(data, length), Len(data) = length,
           NEW wrote, wrote = WriteSpan(device, limit, first, skip, data)
    PROVE  /\ Placed(wrote.device, device, first * BLOCK_SIZE + skip, length, data, 0)
           /\ Keeps(wrote.calls, limit, first, hi)
<1>. /\ first \in Int /\ skip \in Nat /\ skip < BLOCK_SIZE /\ length \in Nat \ {0}
     /\ hi \in Int /\ first * BLOCK_SIZE + skip + length <= hi * BLOCK_SIZE
  BY DEF InBlocks
<1>1. PICK parts : parts = Parts(skip, length)
  OBVIOUS
<1>2. PICK wholeAt, tailAt :
         wholeAt = first + (IF skip = 0 THEN 0 ELSE 1) /\ tailAt = wholeAt + parts.whole
  OBVIOUS
<1>3. /\ parts.lead \in Nat /\ parts.whole \in Nat /\ parts.tail \in Nat
      /\ parts.whole * BLOCK_SIZE \in Nat
      /\ parts.lead + parts.whole * BLOCK_SIZE + parts.tail = length
      /\ parts.tail < BLOCK_SIZE
      /\ skip = 0 => parts.lead = 0
      /\ skip # 0 => \/ skip + parts.lead = BLOCK_SIZE
                     \/ /\ parts.lead = length /\ parts.whole = 0 /\ parts.tail = 0
                        /\ skip + length < BLOCK_SIZE
  <2>1. IsParts(parts, skip, length)
    BY <1>1, PartsFit
  <2>. QED
    BY <2>1 DEF IsParts
<1>4. /\ wholeAt \in Int /\ tailAt \in Int
      /\ tailAt * BLOCK_SIZE = wholeAt * BLOCK_SIZE + parts.whole * BLOCK_SIZE
      /\ \/ parts.lead = length /\ parts.whole = 0 /\ parts.tail = 0
         \/ wholeAt * BLOCK_SIZE = first * BLOCK_SIZE + skip + parts.lead
  BY <1>1, <1>2, PartsLie
<1>5. PICK F \in Int, W \in Int, T \in Int, l \in Nat, w \in Nat, t \in Nat, X \in Nat :
         /\ F = first * BLOCK_SIZE /\ W = wholeAt * BLOCK_SIZE /\ T = tailAt * BLOCK_SIZE
         /\ l = parts.lead /\ w = parts.whole /\ t = parts.tail /\ X = parts.whole * BLOCK_SIZE
  <2>1. first * BLOCK_SIZE \in Int /\ wholeAt * BLOCK_SIZE \in Int /\ tailAt * BLOCK_SIZE \in Int
    BY <1>4, BlockSize
  <2>. QED
    BY <1>3, <2>1
<1>6. l + X + t = length /\ T = W + X /\ ((l = length /\ X = 0 /\ t = 0) \/ W = F + skip + l)
  <2>1. w = 0 => X = 0
    BY <1>5, BlockSize
  <2>. QED
    BY <1>3, <1>4, <1>5, <2>1
<1>7. PICK A \in Int, y \in Nat, M \in Int, E \in Int : A = F + skip /\ y = l + X /\ M = A + l /\ E = A + y
  OBVIOUS
<1>8. PICK s1, s2, s3, led, filled, last, calls :
         /\ s1 = SubSeq(data, 1, l)
         /\ s2 = SubSeq(data, l + 1, length - t)
         /\ s3 = SubSeq(data, length - t + 1, length)
         /\ led = IF skip = 0 THEN device ELSE RewriteBlock(device, first, skip, s1)
         /\ filled = Patched(led, W, s2)
         /\ last = IF t = 0 THEN filled ELSE RewriteBlock(filled, tailAt, 0, s3)
         /\ calls = CallsOf(limit, first, skip, length)
  OBVIOUS
<1>9. wrote.device = last
  <2>1. wrote.device = IF parts.tail = 0 THEN filled ELSE RewriteBlock(filled, tailAt, 0, s3)
    BY <1>1, <1>2, <1>5, <1>8, Zenon DEF WriteSpan
  <2>. QED
    BY <1>5, <1>8, <2>1
<1>10. wrote.calls = calls
  <2>. USE <1>8
  <2>. QED
    BY Zenon DEF WriteSpan, CallsOf
<1>11. IsSlice(s1, data, 0, l) /\ IsSlice(s2, data, l, X) /\ IsSlice(s3, data, y, t)
  <2>1. IsSlice(SubSeq(data, 0 + 1, 0 + l), data, 0, l)
    <3>1. 0 + l <= length
      BY <1>6
    <3>. QED
      BY <3>1, SliceIs
  <2>2. IsSlice(SubSeq(data, l + 1, l + X), data, l, X)
    <3>1. l + X <= length
      BY <1>6
    <3>. QED
      BY <3>1, SliceIs
  <2>3. IsSlice(SubSeq(data, y + 1, y + t), data, y, t)
    <3>1. y + t <= length
      BY <1>6, <1>7
    <3>. QED
      BY <3>1, SliceIs
  <2>4. 0 + 1 = 1 /\ 0 + l = l /\ l + X = length - t /\ y = length - t /\ y + t = length
    BY <1>6, <1>7
  <2>. QED
    BY <1>8, <2>1, <2>2, <2>3, <2>4
<1>12. Placed(led, device, A, l, data, 0)
  <2>1. CASE skip = 0
    <3>1. l = 0 /\ led = device
      BY <1>3, <1>5, <1>8, <2>1
    <3>. QED
      BY <1>7, <3>1, PlacedNone
  <2>2. CASE skip # 0
    <3>1. skip + l <= BLOCK_SIZE
      <4>1. skip + l = BLOCK_SIZE \/ (l = length /\ skip + length < BLOCK_SIZE)
        BY <1>3, <1>5, <2>2
      <4>. QED
        BY <4>1, BlockSize
    <3>2. led = RewriteBlock(device, first, skip, s1)
      BY <1>8, <2>2
    <3>3. Placed(RewriteBlock(device, first, skip, s1), device, first * BLOCK_SIZE + skip, l, data, 0)
      BY <1>11, <3>1, RewritePlaces
    <3>. QED
      BY <1>5, <1>7, <3>2, <3>3
  <2>. QED
    BY <2>1, <2>2
<1>13. DOMAIN led = DOMAIN device
  BY <1>12 DEF Placed
<1>14. Placed(filled, led, W, X, data, l)
  BY <1>8, <1>11, <1>13, PatchPlaces
<1>15. DOMAIN filled = DOMAIN device
  BY <1>13, <1>14 DEF Placed
<1>16. t # 0 => Placed(last, filled, T, t, data, y)
  <2>. SUFFICES ASSUME t # 0 PROVE Placed(last, filled, T, t, data, y)
    OBVIOUS
  <2>1. last = RewriteBlock(filled, tailAt, 0, s3)
    BY <1>8
  <2>2. 0 + t <= BLOCK_SIZE
    BY <1>3, <1>5, BlockSize
  <2>3. Placed(RewriteBlock(filled, tailAt, 0, s3), filled, tailAt * BLOCK_SIZE + 0, t, data, y)
    BY <1>4, <1>11, <1>15, <2>2, RewritePlaces
  <2>4. tailAt * BLOCK_SIZE + 0 = T
    BY <1>5
  <2>. QED
    BY <2>1, <2>3, <2>4
<1>17. Placed(filled, led, M, X, data, l) /\ Placed(last, filled, E, t, data, y)
  <2>1. CASE W = F + skip + l
    <3>1. W = M /\ T = E
      BY <1>6, <1>7, <2>1
    <3>2. CASE t = 0
      <4>1. last = filled
        BY <1>8, <3>2
      <4>2. E \in Int
        BY <1>7
      <4>. QED
        BY <1>14, <1>15, <3>1, <3>2, <4>1, <4>2, PlacedNone
    <3>3. CASE t # 0
      BY <1>14, <1>16, <3>1, <3>3
    <3>. QED
      BY <3>2, <3>3
  <2>2. CASE X = 0 /\ t = 0
    <3>1. last = filled
      BY <1>8, <2>2
    <3>2. E \in Int /\ M \in Int
      BY <1>7
    <3>3. Placed(last, filled, E, t, data, y)
      BY <1>15, <2>2, <3>1, <3>2, PlacedNone
    <3>4. \A a \in DOMAIN led : filled[a] = led[a]
      <4>1. \A a \in DOMAIN led : a \in Int
        BY <1>13
      <4>. QED
        BY <1>14, <2>2, <4>1 DEF Placed
    <3>5. Placed(filled, led, M, X, data, l)
      <4>1. DOMAIN filled = DOMAIN led
        BY <1>13, <1>15
      <4>2. \A a \in DOMAIN led : a \in Int
        BY <1>13
      <4>. QED
        BY <2>2, <3>2, <3>4, <4>1, <4>2 DEF Placed
    <3>. QED
      BY <3>3, <3>5
  <2>. QED
    BY <1>6, <2>1, <2>2
<1>18. Placed(filled, device, A, y, data, 0)
  <2>1. Follow(A, l, M, X, y)
    BY <1>7 DEF Follow
  <2>2. l = 0 + l /\ 0 \in Nat
    OBVIOUS
  <2>. QED
    BY <1>12, <1>17, <2>1, <2>2, PlacedTwice
<1>19. Placed(last, device, A, length, data, 0)
  <2>1. Follow(A, y, E, t, length)
    BY <1>6, <1>7 DEF Follow
  <2>2. y = 0 + y /\ 0 \in Nat
    BY <1>7
  <2>. QED
    BY <1>17, <1>18, <2>1, <2>2, PlacedTwice
<1>20. Keeps(calls, limit, first, hi)
  BY <1>8, PartCalls
<1>. QED
  BY <1>5, <1>7, <1>9, <1>10, <1>19, <1>20

-----------------------------------------------------------------------------
(***************************************************************************)
(* A chain as the bytes of its file: every byte has one address, no two    *)
(* share one, and the address is in a block of the run that has it.        *)
(***************************************************************************)

\* Where a run lies in its file and on the device.
From(run) == run.fileCluster * ClusterBytes
To(run)   == (run.fileCluster + run.clusters) * ClusterBytes
Base(run) == ClusterBlock(run.start) * BLOCK_SIZE
BlockAfter(run) == ClusterBlock(run.start + run.clusters)

\* The sizes are numbers, and clusters whole blocks.
LEMMA ClusterSize ==
    /\ ClusterBlocks \in Nat \ {0} /\ ClusterBytes \in Nat \ {0}
    /\ ClusterBytes = ClusterBlocks * BLOCK_SIZE
    /\ DataStart \in Nat /\ ClusterCount \in Nat
<1>1. ClusterBlocks \in Nat \ {0} /\ DataStart \in Nat /\ ClusterCount \in Nat
  BY TransferAssumption
<1>2. \A m, n \in Nat \ {0} : m * n \in Nat \ {0}
  BY SMT
<1>. QED
  BY <1>1, <1>2, BlockSize DEF ClusterBytes

\* Products grow with their factors.
LEMMA Grows == \A m, n \in Int, d \in Nat : m <= n => m * d <= n * d
  BY SMT

\* A run is as long on the device as in its file.
LEMMA RunLies ==
    ASSUME NEW run \in [fileCluster : Nat, start : Nat, clusters : Nat \ {0}]
    PROVE  /\ From(run) \in Nat /\ To(run) \in Nat /\ Base(run) \in Int
           /\ ClusterBlock(run.start) \in Int /\ BlockAfter(run) \in Int
           /\ From(run) < To(run)
           /\ To(run) - From(run) = run.clusters * ClusterBytes
           /\ BlockAfter(run) * BLOCK_SIZE = Base(run) + (To(run) - From(run))
           /\ ClusterBlock(run.start) <= BlockAfter(run)
<1>1. PICK f \in Nat, s \in Nat, c \in Nat \ {0} :
         f = run.fileCluster /\ s = run.start /\ c = run.clusters
  OBVIOUS
<1>2. PICK CB \in Nat \ {0}, B \in Nat \ {0}, K \in Nat \ {0}, D \in Nat :
         /\ CB = ClusterBytes /\ B = BLOCK_SIZE /\ K = ClusterBlocks /\ D = DataStart
         /\ CB = K * B
  BY ClusterSize, BlockSize
<1>3. /\ f * CB \in Nat /\ c * CB \in Nat /\ (f + c) * CB = f * CB + c * CB
  BY SMT
<1>4. c * CB > 0
  BY SMT
<1>5. From(run) = f * CB /\ To(run) = f * CB + c * CB
  BY <1>1, <1>2, <1>3 DEF From, To
<1>6. /\ (s - 2) * K \in Int /\ c * K \in Nat
      /\ (s + c - 2) * K = (s - 2) * K + c * K
  BY SMT
<1>7. (c * K) * B = c * CB
  BY <1>2, SMT
<1>8. ClusterBlock(run.start) = D + (s - 2) * K /\ BlockAfter(run) = D + (s - 2) * K + c * K
  <2>1. ClusterBlock(run.start) = D + (s - 2) * K
    BY <1>1, <1>2 DEF ClusterBlock
  <2>2. BlockAfter(run) = D + (s + c - 2) * K
    BY <1>1, <1>2 DEF BlockAfter, ClusterBlock
  <2>. QED
    BY <1>6, <2>1, <2>2
<1>9. PICK b \in Int, n \in Nat : b = D + (s - 2) * K /\ n = c * K
  BY <1>6
<1>10. /\ b * B \in Int /\ n * B \in Nat /\ (b + n) * B = b * B + n * B
  BY SMT
<1>11. Base(run) = b * B /\ BlockAfter(run) * BLOCK_SIZE = b * B + n * B /\ n * B = c * CB
  BY <1>2, <1>7, <1>8, <1>9, <1>10 DEF Base
<1>12. To(run) - From(run) = run.clusters * ClusterBytes
  BY <1>1, <1>2, <1>3, <1>5
<1>. QED
  BY <1>3, <1>4, <1>5, <1>8, <1>9, <1>10, <1>11, <1>12

Runs == [fileCluster : Nat, start : Nat, clusters : Nat \ {0}]

\* A chain of N runs, in bytes and blocks.
Chain(runs, N) ==
    /\ N \in Nat /\ Len(runs) = N /\ DOMAIN runs = 1 .. N
    /\ \A k \in 1 .. N : runs[k] \in Runs
    /\ \A k \in 1 .. N : From(runs[k]) = IF k = 1 THEN 0 ELSE To(runs[k - 1])
    /\ \A k \in 1 .. N : /\ 2 <= runs[k].start
                         /\ runs[k].start + runs[k].clusters <= ClusterCount + 2
    /\ \A j, k \in 1 .. N : \/ j = k
                            \/ BlockAfter(runs[j]) <= ClusterBlock(runs[k].start)
                            \/ BlockAfter(runs[k]) <= ClusterBlock(runs[j].start)
    /\ FileBytes(runs) = IF N = 0 THEN 0 ELSE To(runs[N])

\* Later clusters lie in later blocks.
LEMMA BlocksGrow ==
    ASSUME NEW a \in Int, NEW b \in Int, a <= b
    PROVE  ClusterBlock(a) <= ClusterBlock(b) /\ ClusterBlock(a) \in Int /\ ClusterBlock(b) \in Int
<1>1. a - 2 \in Int /\ b - 2 \in Int /\ a - 2 <= b - 2
  OBVIOUS
<1>2. PICK x \in Int, y \in Int, K \in Nat : x = a - 2 /\ y = b - 2 /\ K = ClusterBlocks
  BY <1>1, ClusterSize
<1>3. x * K <= y * K /\ x * K \in Int /\ y * K \in Int
  BY <1>1, <1>2, SMT
<1>. QED
  BY <1>2, <1>3, ClusterSize DEF ClusterBlock

\* What IsChain says of runs is what the lemmas below ask of a chain.
LEMMA ChainIs ==
    ASSUME NEW runs, IsChain(runs)
    PROVE  Chain(runs, Len(runs))
<1>1. PICK R : R = Runs
  OBVIOUS
<1>2. runs \in Seq(R)
  BY <1>1 DEF IsChain, Runs
<1>3. Len(runs) \in Nat /\ DOMAIN runs = 1 .. Len(runs) /\ \A k \in 1 .. Len(runs) : runs[k] \in R
  BY <1>2
<1>4. PICK N \in Nat : N = Len(runs)
  BY <1>3
<1>5. \A k \in 1 .. N :
         /\ runs[k] \in Runs
         /\ 2 <= runs[k].start /\ runs[k].start + runs[k].clusters <= ClusterCount + 2
         /\ runs[k].fileCluster = IF k = 1 THEN 0 ELSE runs[k - 1].fileCluster + runs[k - 1].clusters
         /\ \A j \in 1 .. k - 1 :
               \/ runs[j].start + runs[j].clusters <= runs[k].start
               \/ runs[k].start + runs[k].clusters <= runs[j].start
  BY <1>1, <1>3, <1>4, Zenon DEF IsChain
<1>6. ASSUME NEW k \in 1 .. N PROVE From(runs[k]) = IF k = 1 THEN 0 ELSE To(runs[k - 1])
  <2>1. CASE k = 1
    <3>1. runs[k].fileCluster = 0
      BY <1>5, <2>1
    <3>2. 0 * ClusterBytes = 0
      BY ClusterSize
    <3>. QED
      BY <2>1, <3>1, <3>2 DEF From
  <2>2. CASE k # 1
    BY <1>5, <2>2, Zenon DEF From, To
  <2>. QED
    BY <2>1, <2>2
<1>7. ASSUME NEW j \in 1 .. N, NEW k \in 1 .. N,
             runs[j].start + runs[j].clusters <= runs[k].start
      PROVE  BlockAfter(runs[j]) <= ClusterBlock(runs[k].start)
  <2>1. runs[j].start + runs[j].clusters \in Int /\ runs[k].start \in Int
    <3>1. runs[j] \in Runs /\ runs[k] \in Runs
      BY <1>5
    <3>. QED
      BY <3>1 DEF Runs
  <2>. QED
    BY <1>7, <2>1, BlocksGrow DEF BlockAfter
<1>8. ASSUME NEW j \in 1 .. N, NEW k \in 1 .. N, j # k
      PROVE  \/ BlockAfter(runs[j]) <= ClusterBlock(runs[k].start)
             \/ BlockAfter(runs[k]) <= ClusterBlock(runs[j].start)
  <2>1. CASE j < k
    <3>1. j \in 1 .. k - 1
      BY <2>1
    <3>. QED
      BY <1>5, <1>7, <3>1
  <2>2. CASE k < j
    <3>1. k \in 1 .. j - 1
      BY <2>2
    <3>. QED
      BY <1>5, <1>7, <3>1
  <2>. QED
    BY <1>8, <2>1, <2>2
<1>9. FileBytes(runs) = IF N = 0 THEN 0 ELSE To(runs[N])
  <2>1. N = 0 <=> runs = <<>>
    BY <1>2, <1>4
  <2>. QED
    BY <1>4, <2>1, Zenon DEF FileBytes, Last, To
<1>. QED
  BY <1>3, <1>4, <1>5, <1>6, <1>8, <1>9, Zenon DEF Chain

\* What RunLies says of each run of a chain.
LEMMA RunsLie ==
    ASSUME NEW runs, NEW N, Chain(runs, N), NEW k \in 1 .. N
    PROVE  /\ From(runs[k]) \in Nat /\ To(runs[k]) \in Nat /\ Base(runs[k]) \in Int
           /\ ClusterBlock(runs[k].start) \in Int /\ BlockAfter(runs[k]) \in Int
           /\ From(runs[k]) < To(runs[k])
           /\ To(runs[k]) - From(runs[k]) = runs[k].clusters * ClusterBytes
           /\ BlockAfter(runs[k]) * BLOCK_SIZE = Base(runs[k]) + (To(runs[k]) - From(runs[k]))
           /\ ClusterBlock(runs[k].start) <= BlockAfter(runs[k])
<1>1. runs[k] \in Runs
  BY DEF Chain
<1>. QED
  BY <1>1, RunLies, Zenon DEF Runs

\* A run ends in the file before any later one begins.
LEMMA EarlierEnds ==
    ASSUME NEW runs, NEW N, Chain(runs, N), NEW j \in 1 .. N, NEW k \in 1 .. N, j < k
    PROVE  To(runs[j]) <= From(runs[k])
<1>1. N \in Nat /\ \A i \in 1 .. N : From(runs[i]) = IF i = 1 THEN 0 ELSE To(runs[i - 1])
  BY DEF Chain
<1>2. \A i \in 1 .. N : From(runs[i]) \in Nat /\ To(runs[i]) \in Nat /\ From(runs[i]) < To(runs[i])
  BY RunsLie
<1>3. PICK S : S = {n \in 0 .. N : \A i \in 1 .. N : j < i /\ i <= n => To(runs[j]) <= From(runs[i])}
  OBVIOUS
<1>4. 0 \in S
  BY <1>1, <1>3
<1>5. ASSUME NEW n \in 1 .. N, n - 1 \in S PROVE n \in S
  <2>1. \A i \in 1 .. N : j < i /\ i <= n - 1 => To(runs[j]) <= From(runs[i])
    BY <1>3, <1>5
  <2>2. ASSUME j < n PROVE To(runs[j]) <= From(runs[n])
    <3>1. n # 1 /\ n - 1 \in 1 .. N /\ From(runs[n]) = To(runs[n - 1])
      BY <1>1, <2>2
    <3>2. CASE j = n - 1
      BY <1>2, <3>1, <3>2
    <3>3. CASE j < n - 1
      <4>1. To(runs[j]) <= From(runs[n - 1])
        BY <2>1, <3>1, <3>3
      <4>. QED
        BY <1>2, <3>1, <4>1
    <3>. QED
      BY <2>2, <3>2, <3>3
  <2>3. \A i \in 1 .. N : i <= n => i = n \/ i <= n - 1
    OBVIOUS
  <2>4. n \in 0 .. N
    OBVIOUS
  <2>. QED
    BY <1>3, <2>1, <2>2, <2>3, <2>4
<1>6. \A n \in 0 .. N : n \in S
  BY <1>1, <1>4, <1>5, UpTo
<1>. QED
  BY <1>1, <1>3, <1>6

\* Where a place in a run of the chain is on the device.
LEMMA AddressIn ==
    ASSUME NEW runs, NEW N, Chain(runs, N), NEW k \in 1 .. N,
           NEW p \in Int, From(runs[k]) <= p, p < To(runs[k])
    PROVE  /\ Address(runs, p) = Base(runs[k]) + (p - From(runs[k]))
           /\ Address(runs, p) \in Int
           /\ Base(runs[k]) <= Address(runs, p)
           /\ Address(runs, p) < BlockAfter(runs[k]) * BLOCK_SIZE
<1>1. \A i \in 1 .. N : HasByte(runs[i], p) <=> From(runs[i]) <= p /\ p < To(runs[i])
  BY DEF HasByte, From, To
<1>2. ASSUME NEW i \in 1 .. N, HasByte(runs[i], p) PROVE i = k
  <2>1. From(runs[i]) <= p /\ p < To(runs[i])
    BY <1>1, <1>2
  <2>2. /\ From(runs[i]) \in Nat /\ To(runs[i]) \in Nat
        /\ From(runs[k]) \in Nat /\ To(runs[k]) \in Nat
    BY RunsLie
  <2>3. CASE i < k
    <3>1. To(runs[i]) <= From(runs[k])
      BY <2>3, EarlierEnds
    <3>. QED
      BY <2>1, <2>2, <3>1
  <2>4. CASE k < i
    <3>1. To(runs[k]) <= From(runs[i])
      BY <2>4, EarlierEnds
    <3>. QED
      BY <2>1, <2>2, <3>1
  <2>. QED
    BY <2>3, <2>4
<1>3. DOMAIN runs = 1 .. N
  BY DEF Chain
<1>4. (CHOOSE i \in DOMAIN runs : HasByte(runs[i], p)) = k
  BY <1>1, <1>2, <1>3
<1>5. Address(runs, p) = Base(runs[k]) + p - From(runs[k])
  BY <1>4, Zenon DEF Address, Base, From
<1>6. /\ From(runs[k]) \in Nat /\ To(runs[k]) \in Nat /\ Base(runs[k]) \in Int
      /\ BlockAfter(runs[k]) * BLOCK_SIZE = Base(runs[k]) + (To(runs[k]) - From(runs[k]))
  BY RunsLie
<1>. QED
  BY <1>5, <1>6

\* Every place of a file is in a run.
LEMMA PlaceHasRun ==
    ASSUME NEW runs, NEW N, Chain(runs, N), NEW p \in Nat, p < FileBytes(runs)
    PROVE  \E k \in 1 .. N : From(runs[k]) <= p /\ p < To(runs[k])
<1>. SUFFICES ASSUME \A k \in 1 .. N : ~(From(runs[k]) <= p /\ p < To(runs[k]))
              PROVE  FALSE
  OBVIOUS
<1>1. N \in Nat /\ \A i \in 1 .. N : From(runs[i]) = IF i = 1 THEN 0 ELSE To(runs[i - 1])
  BY DEF Chain
<1>2. \A i \in 1 .. N : From(runs[i]) \in Nat /\ To(runs[i]) \in Nat
  BY RunsLie
<1>3. PICK S : S = {n \in 0 .. N : n = 0 \/ To(runs[n]) <= p}
  OBVIOUS
<1>4. 0 \in S
  BY <1>1, <1>3
<1>5. ASSUME NEW n \in 1 .. N, n - 1 \in S PROVE n \in S
  <2>1. From(runs[n]) <= p
    <3>1. n = 1 \/ (n - 1 \in 1 .. N /\ To(runs[n - 1]) <= p)
      BY <1>3, <1>5
    <3>. QED
      BY <1>1, <3>1
  <2>2. To(runs[n]) <= p
    BY <1>2, <2>1
  <2>3. n \in 0 .. N
    OBVIOUS
  <2>. QED
    BY <1>3, <2>2, <2>3
<1>6. \A n \in 0 .. N : n \in S
  BY <1>1, <1>4, <1>5, UpTo
<1>7. FileBytes(runs) = IF N = 0 THEN 0 ELSE To(runs[N])
  BY DEF Chain
<1>8. N \in S
  BY <1>1, <1>6
<1>. QED
  BY <1>1, <1>2, <1>3, <1>7, <1>8

\* Two places of a file are two of the device.
LEMMA AddressApart ==
    ASSUME NEW runs, NEW N, Chain(runs, N), NEW p \in Nat, p < FileBytes(runs),
           NEW q \in Nat, q < FileBytes(runs), Address(runs, p) = Address(runs, q)
    PROVE  p = q
<1>1. PICK j \in 1 .. N : From(runs[j]) <= p /\ p < To(runs[j])
  BY PlaceHasRun
<1>2. PICK k \in 1 .. N : From(runs[k]) <= q /\ q < To(runs[k])
  BY PlaceHasRun
<1>3. /\ Address(runs, p) = Base(runs[j]) + (p - From(runs[j])) /\ Address(runs, p) \in Int
      /\ Base(runs[j]) <= Address(runs, p) /\ Address(runs, p) < BlockAfter(runs[j]) * BLOCK_SIZE
  BY <1>1, AddressIn
<1>4. /\ Address(runs, q) = Base(runs[k]) + (q - From(runs[k])) /\ Address(runs, q) \in Int
      /\ Base(runs[k]) <= Address(runs, q) /\ Address(runs, q) < BlockAfter(runs[k]) * BLOCK_SIZE
  BY <1>2, AddressIn
<1>5. /\ From(runs[j]) \in Nat /\ Base(runs[j]) \in Int
      /\ From(runs[k]) \in Nat /\ Base(runs[k]) \in Int
      /\ ClusterBlock(runs[j].start) \in Int /\ BlockAfter(runs[j]) \in Int
      /\ ClusterBlock(runs[k].start) \in Int /\ BlockAfter(runs[k]) \in Int
  BY RunsLie
<1>6. CASE j = k
  <2>1. PICK x \in Int, b \in Int, f \in Nat :
           x = Address(runs, p) /\ b = Base(runs[k]) /\ f = From(runs[k])
    BY <1>3, <1>5
  <2>2. x = b + (p - f) /\ x = b + (q - f)
    BY <1>3, <1>4, <1>6, <2>1
  <2>. QED
    BY <2>2
<1>7. ASSUME NEW i \in 1 .. N, NEW l \in 1 .. N, BlockAfter(runs[i]) <= ClusterBlock(runs[l].start),
             NEW a \in Int, a < BlockAfter(runs[i]) * BLOCK_SIZE, Base(runs[l]) <= a
      PROVE  FALSE
  <2>1. PICK m \in Int, n \in Int : m = BlockAfter(runs[i]) /\ n = ClusterBlock(runs[l].start)
    BY RunsLie
  <2>2. m * BLOCK_SIZE <= n * BLOCK_SIZE /\ m * BLOCK_SIZE \in Int /\ n * BLOCK_SIZE \in Int
    BY <1>7, <2>1, BlockSize, Grows
  <2>. QED
    BY <1>7, <2>1, <2>2 DEF Base
<1>8. j # k => \/ BlockAfter(runs[j]) <= ClusterBlock(runs[k].start)
               \/ BlockAfter(runs[k]) <= ClusterBlock(runs[j].start)
  BY DEF Chain
<1>. QED
  BY <1>3, <1>4, <1>6, <1>7, <1>8

\* Blocks of one run of a chain are the chain's.
LEMMA BlocksOfRun ==
    ASSUME NEW runs, NEW N, Chain(runs, N), NEW k \in 1 .. N,
           NEW b \in Int, ClusterBlock(runs[k].start) <= b, b < BlockAfter(runs[k])
    PROVE  b \in BlocksOf(runs)
<1>1. DOMAIN runs = 1 .. N
  BY DEF Chain
<1>2. /\ ClusterBlock(runs[k].start) \in Int
      /\ ClusterBlock(runs[k].start + runs[k].clusters) \in Int
      /\ b < ClusterBlock(runs[k].start + runs[k].clusters)
  BY RunsLie DEF BlockAfter
<1>3. b \in ClusterBlock(runs[k].start) .. ClusterBlock(runs[k].start + runs[k].clusters) - 1
  BY <1>2
<1>. QED
  BY <1>1, <1>3 DEF BlocksOf

\* A byte between two blocks is in a block between them.
LEMMA BlockOfByte ==
    ASSUME NEW lo \in Int, NEW hi \in Int, NEW x \in Int,
           lo * BLOCK_SIZE <= x, x < hi * BLOCK_SIZE
    PROVE  x \div BLOCK_SIZE \in Int /\ lo <= x \div BLOCK_SIZE /\ x \div BLOCK_SIZE < hi
<1>1. PICK q \in Int, r \in Int :
         q = x \div BLOCK_SIZE /\ x = q * BLOCK_SIZE + r /\ 0 <= r /\ r < BLOCK_SIZE
  <2>1. PICK B \in Nat \ {0} : B = BLOCK_SIZE
    BY BlockSize
  <2>2. x = (x \div B) * B + (x % B) /\ 0 <= x % B /\ x % B < B /\ x \div B \in Int /\ x % B \in Int
    BY SMT
  <2>. QED
    BY <2>1, <2>2
<1>2. lo < q + 1
  <2>1. CASE q + 1 <= lo
    <3>1. PICK m \in Int : m = q + 1
      OBVIOUS
    <3>2. m * BLOCK_SIZE <= lo * BLOCK_SIZE
      BY <2>1, <3>1, BlockSize, Grows
    <3>3. m * BLOCK_SIZE = q * BLOCK_SIZE + BLOCK_SIZE /\ q * BLOCK_SIZE \in Int /\ lo * BLOCK_SIZE \in Int
      BY <3>1, BlockSize, SMT
    <3>. QED
      BY <1>1, <3>2, <3>3, BlockSize
  <2>. QED
    BY <2>1
<1>3. q < hi
  <2>1. CASE hi <= q
    <3>1. hi * BLOCK_SIZE <= q * BLOCK_SIZE /\ q * BLOCK_SIZE \in Int /\ hi * BLOCK_SIZE \in Int
      BY <2>1, BlockSize, Grows
    <3>. QED
      BY <1>1, <3>1
  <2>. QED
    BY <2>1
<1>. QED
  BY <1>1, <1>2, <1>3

\* A byte of a file lies in one of its blocks.
LEMMA AddressBlock ==
    ASSUME NEW runs, NEW N, Chain(runs, N), NEW p \in Nat, p < FileBytes(runs)
    PROVE  Address(runs, p) \in Int /\ Address(runs, p) \div BLOCK_SIZE \in BlocksOf(runs)
<1>1. PICK k \in 1 .. N : From(runs[k]) <= p /\ p < To(runs[k])
  BY PlaceHasRun
<1>2. /\ Address(runs, p) \in Int /\ Base(runs[k]) <= Address(runs, p)
      /\ Address(runs, p) < BlockAfter(runs[k]) * BLOCK_SIZE
  BY <1>1, AddressIn
<1>3. PICK x \in Int, lo \in Int, hi \in Int :
         x = Address(runs, p) /\ lo = ClusterBlock(runs[k].start) /\ hi = BlockAfter(runs[k])
  BY <1>2, RunsLie
<1>4. lo * BLOCK_SIZE <= x /\ x < hi * BLOCK_SIZE
  BY <1>2, <1>3 DEF Base
<1>5. PICK b \in Int : b = x \div BLOCK_SIZE /\ lo <= b /\ b < hi
  BY <1>4, BlockOfByte
<1>6. b \in BlocksOf(runs)
  BY <1>3, <1>5, BlocksOfRun
<1>. QED
  BY <1>3, <1>5, <1>6

\* Transfers that ask a device for no more than it moves, of these blocks.
Moved(calls, limit, blocks) == calls \in Seq(Calls) /\ Moves(calls, limit, blocks)

\* What Moved says, transfer by transfer.
LEMMA MovedIs ==
    ASSUME NEW calls, NEW limit, NEW blocks
    PROVE  Moved(calls, limit, blocks) <=>
              /\ calls \in Seq(Calls)
              /\ \A k \in 1 .. Len(calls) :
                    /\ calls[k].blocks \in 1 .. AtLeast1(limit)
                    /\ calls[k].block .. calls[k].block + calls[k].blocks - 1 \subseteq blocks
<1>1. calls \in Seq(Calls) => DOMAIN calls = 1 .. Len(calls)
  OBVIOUS
<1>. QED
  BY <1>1, Zenon DEF Moved, Moves

\* Making no transfer moves nothing else.
LEMMA MovedNone == ASSUME NEW limit, NEW blocks PROVE Moved(<<>>, limit, blocks)
<1>0. <<>> \in Seq(Calls) /\ Len(<<>>) = 0
  OBVIOUS
<1>1. PICK e : e = <<>> /\ e \in Seq(Calls) /\ Len(e) = 0
  BY <1>0
<1>2. \A k \in 1 .. Len(e) : FALSE
  BY <1>1
<1>. QED
  BY <1>1, <1>2, MovedIs, Zenon

\* Two sequences of transfers that move only those blocks do together.
LEMMA MovedBoth ==
    ASSUME NEW s, NEW t, NEW limit, NEW blocks, Moved(s, limit, blocks), Moved(t, limit, blocks)
    PROVE  Moved(s \o t, limit, blocks)
<1>1. s \in Seq(Calls) /\ t \in Seq(Calls)
  BY MovedIs
<1>2. s \o t \in Seq(Calls) /\ Len(s \o t) = Len(s) + Len(t)
  BY <1>1
<1>3. ASSUME NEW k \in 1 .. Len(s \o t)
      PROVE  (\E j \in 1 .. Len(s) : (s \o t)[k] = s[j]) \/ (\E j \in 1 .. Len(t) : (s \o t)[k] = t[j])
  <2>1. CASE k <= Len(s)
    <3>1. (s \o t)[k] = s[k] /\ k \in 1 .. Len(s)
      BY <1>1, <1>2, <2>1
    <3>. QED
      BY <3>1
  <2>2. CASE k > Len(s)
    <3>1. (s \o t)[k] = t[k - Len(s)] /\ k - Len(s) \in 1 .. Len(t)
      BY <1>1, <1>2, <2>2
    <3>. QED
      BY <3>1
  <2>3. k \in Nat /\ Len(s) \in Nat
    BY <1>1
  <2>. QED
    BY <2>1, <2>2, <2>3
<1>4. PICK u : u = s \o t
  OBVIOUS
<1>5. \A k \in 1 .. Len(u) :
         /\ u[k].blocks \in 1 .. AtLeast1(limit)
         /\ u[k].block .. u[k].block + u[k].blocks - 1 \subseteq blocks
  <2>1. \A k \in 1 .. Len(s) :
           /\ s[k].blocks \in 1 .. AtLeast1(limit)
           /\ s[k].block .. s[k].block + s[k].blocks - 1 \subseteq blocks
    BY MovedIs
  <2>2. \A k \in 1 .. Len(t) :
           /\ t[k].blocks \in 1 .. AtLeast1(limit)
           /\ t[k].block .. t[k].block + t[k].blocks - 1 \subseteq blocks
    BY MovedIs
  <2>. QED
    BY <1>3, <1>4, <2>1, <2>2, Zenon
<1>. QED
  BY <1>2, <1>4, <1>5, MovedIs

\* Transfers within a run of a chain.
LEMMA KeepsMoved ==
    ASSUME NEW runs, NEW N, Chain(runs, N), NEW k \in 1 .. N, NEW calls, NEW limit \in Nat,
           NEW lo \in Int, NEW hi \in Int, Keeps(calls, limit, lo, hi),
           ClusterBlock(runs[k].start) <= lo, hi <= BlockAfter(runs[k])
    PROVE  Moved(calls, limit, BlocksOf(runs))
<1>1. calls \in Seq(Calls)
  BY DEF Keeps
<1>2. ASSUME NEW i \in 1 .. Len(calls)
      PROVE  /\ calls[i].blocks \in 1 .. AtLeast1(limit)
             /\ calls[i].block .. calls[i].block + calls[i].blocks - 1 \subseteq BlocksOf(runs)
  <2>1. calls[i] \in Calls
    BY <1>1
  <2>2. PICK at \in Int, n \in Int : at = calls[i].block /\ n = calls[i].blocks
    BY <2>1 DEF Calls
  <2>3. n \in 1 .. AtLeast1(limit) /\ lo <= at /\ at + n <= hi
    BY <2>2, Zenon DEF Keeps
  <2>4. ASSUME NEW b \in at .. at + n - 1 PROVE b \in BlocksOf(runs)
    <3>1. ClusterBlock(runs[k].start) \in Int /\ BlockAfter(runs[k]) \in Int
      BY RunsLie
    <3>2. b \in Int /\ ClusterBlock(runs[k].start) <= b /\ b < BlockAfter(runs[k])
      BY <2>3, <3>1
    <3>. QED
      BY <3>2, BlocksOfRun
  <2>. QED
    BY <2>2, <2>3, <2>4
<1>. QED
  BY <1>1, <1>2, MovedIs

\* A span of a range: some of one run, from where `done` bytes are cut.
IsSpan(runs, N, offset, length, span) ==
    /\ span.done \in Nat /\ span.take \in Nat \ {0} /\ span.done + span.take <= length
    /\ \E k \in 1 .. N :
          /\ InBlocks(span.first, span.skip, span.take, BlockAfter(runs[k]))
          /\ ClusterBlock(runs[k].start) <= span.first
          /\ \A i \in 0 .. span.take - 1 :
                Address(runs, offset + span.done + i) = span.first * BLOCK_SIZE + span.skip + i

\* Spans that cut the first `done` bytes of a range, one after the other.
Cuts(runs, N, offset, length, spans, done) ==
    /\ Len(spans) \in Nat /\ IsRow(spans, Len(spans))
    /\ \A j \in 1 .. Len(spans) :
          /\ IsSpan(runs, N, offset, length, spans[j])
          /\ spans[j].done = IF j = 1 THEN 0 ELSE spans[j - 1].done + spans[j - 1].take
    /\ done = IF Len(spans) = 0 THEN 0 ELSE spans[Len(spans)].done + spans[Len(spans)].take

\* What the first k runs leave of a range: all that lies past them.
CutUpTo(runs, N, offset, length, k, sofar) ==
    /\ sofar = [done |-> sofar.done, spans |-> sofar.spans]
    /\ sofar.done \in 0 .. length
    /\ LET end == IF k = 0 THEN 0 ELSE To(runs[k])
       IN  \/ end <= offset /\ sofar.done = 0
           \/ offset <= end /\ end <= offset + length /\ sofar.done = end - offset
           \/ offset + length <= end /\ sofar.done = length
    /\ Cuts(runs, N, offset, length, sofar.spans, sofar.done)

\* A span that starts where the last one ended is one more cut.
LEMMA CutsMore ==
    ASSUME NEW runs, NEW N, NEW offset, NEW length, NEW spans, NEW done \in Nat,
           Cuts(runs, N, offset, length, spans, done),
           NEW span, IsSpan(runs, N, offset, length, span), span.done = done
    PROVE  Cuts(runs, N, offset, length, Append(spans, span), done + span.take)
<1>1. PICK n \in Nat : n = Len(spans) /\ IsRow(spans, n)
  BY DEF Cuts
<1>2. PICK S : S = {spans[k] : k \in 1 .. n} \cup {span}
  OBVIOUS
<1>3. spans \in Seq(S) /\ span \in S
  <2>1. \A k \in 1 .. n : spans[k] \in S
    BY <1>2
  <2>. QED
    BY <1>1, <1>2, <2>1, RowIsSeq
<1>4. PICK more : more = Append(spans, span)
  OBVIOUS
<1>5. /\ more \in Seq(S) /\ Len(more) = n + 1
      /\ \A k \in 1 .. n : more[k] = spans[k]
      /\ more[n + 1] = span
  BY <1>1, <1>3, <1>4
<1>6. Len(more) \in Nat /\ IsRow(more, Len(more))
  BY <1>5 DEF IsRow
<1>7. \A j \in 1 .. n :
         /\ IsSpan(runs, N, offset, length, spans[j])
         /\ spans[j].done = IF j = 1 THEN 0 ELSE spans[j - 1].done + spans[j - 1].take
  BY <1>1 DEF Cuts
<1>8. done = IF n = 0 THEN 0 ELSE spans[n].done + spans[n].take
  BY <1>1 DEF Cuts
<1>9. ASSUME NEW j \in 1 .. n + 1
      PROVE  /\ IsSpan(runs, N, offset, length, more[j])
             /\ more[j].done = IF j = 1 THEN 0 ELSE more[j - 1].done + more[j - 1].take
  <2>1. CASE j = n + 1
    <3>1. n # 0 => n \in 1 .. n /\ j - 1 = n /\ more[j - 1] = spans[n]
      BY <1>5, <2>1
    <3>2. n = 0 <=> j = 1
      BY <2>1
    <3>3. more[j] = span
      BY <1>5, <2>1
    <3>. QED
      BY <1>8, <3>1, <3>2, <3>3
  <2>2. CASE j # n + 1
    <3>1. j \in 1 .. n /\ more[j] = spans[j]
      BY <1>5, <2>2
    <3>2. j # 1 => more[j - 1] = spans[j - 1]
      <4>1. j # 1 => j - 1 \in 1 .. n
        BY <3>1
      <4>. QED
        BY <1>5, <4>1
    <3>. QED
      BY <1>7, <3>1, <3>2
  <2>. QED
    BY <2>1, <2>2
<1>10. done + span.take = IF Len(more) = 0 THEN 0 ELSE more[Len(more)].done + more[Len(more)].take
  BY <1>5
<1>. QED
  BY <1>4, <1>5, <1>6, <1>9, <1>10 DEF Cuts

\* What one run adds.
LEMMA AddSpanCuts ==
    ASSUME NEW runs, NEW N, Chain(runs, N), NEW offset \in Nat, NEW length \in Nat,
           NEW k \in 1 .. N, NEW sofar, CutUpTo(runs, N, offset, length, k - 1, sofar)
    PROVE  CutUpTo(runs, N, offset, length, k, AddSpan(offset, length, sofar, runs[k]))
<1>1. PICK run : run = runs[k]
  OBVIOUS
<1>2. PICK f \in Nat, e \in Nat, base \in Int, b \in Int, hi \in Int :
         /\ f = From(run) /\ e = To(run) /\ base = Base(run)
         /\ b = ClusterBlock(run.start) /\ hi = BlockAfter(run)
  BY <1>1, RunsLie
<1>3. /\ f < e /\ e = f + run.clusters * ClusterBytes
      /\ hi * BLOCK_SIZE = base + (e - f) /\ base = b * BLOCK_SIZE
  <2>1. run.clusters * ClusterBytes = e - f
    BY <1>1, <1>2, RunsLie
  <2>. QED
    BY <1>1, <1>2, <2>1, RunsLie DEF Base
<1>4. f = IF k - 1 = 0 THEN 0 ELSE To(runs[k - 1])
  <2>1. f = IF k = 1 THEN 0 ELSE To(runs[k - 1])
    BY <1>1, <1>2 DEF Chain
  <2>. QED
    BY <2>1
<1>5. PICK done \in 0 .. length, spans \in {sofar.spans} :
         sofar = [done |-> done, spans |-> spans] /\ done = sofar.done /\ spans = sofar.spans
  BY DEF CutUpTo
<1>6. /\ \/ f <= offset /\ done = 0
         \/ offset <= f /\ f <= offset + length /\ done = f - offset
         \/ offset + length <= f /\ done = length
      /\ Cuts(runs, N, offset, length, spans, done)
  BY <1>4, <1>5, Zenon DEF CutUpTo
<1>7. PICK at \in Nat : at = offset + done
  OBVIOUS
<1>8. PICK take \in Int : take = Least(e - at, length - done)
  <2>1. e - at \in Int /\ length - done \in Int
    OBVIOUS
  <2>2. Least(e - at, length - done) \in {e - at, length - done}
    BY Zenon DEF Least
  <2>. QED
    BY <2>1, <2>2
<1>9. PICK span :
         span = [first |-> b + (at - f) \div BLOCK_SIZE, skip |-> (at - f) % BLOCK_SIZE,
                 done |-> done, take |-> take]
  OBVIOUS
<1>10. AddSpan(offset, length, sofar, run)
          = IF done = length \/ at >= e THEN sofar
            ELSE [done |-> done + take, spans |-> Append(spans, span)]
  <2>1. PICK start, end : start = run.fileCluster * ClusterBytes /\ end = start + run.clusters * ClusterBytes
    OBVIOUS
  <2>2. start = f /\ end = e
    BY <1>2, <1>3, <2>1 DEF From
  <2>3. AddSpan(offset, length, sofar, run)
           = IF sofar.done = length \/ offset + sofar.done >= end THEN sofar
             ELSE [done |-> sofar.done + Least(end - (offset + sofar.done), length - sofar.done),
                   spans |-> Append(sofar.spans,
                      [first |-> ClusterBlock(run.start) + ((offset + sofar.done) - start) \div BLOCK_SIZE,
                       skip |-> ((offset + sofar.done) - start) % BLOCK_SIZE,
                       done |-> sofar.done,
                       take |-> Least(end - (offset + sofar.done), length - sofar.done)])]
    BY <2>1, Zenon DEF AddSpan
  <2>. QED
    BY <1>2, <1>5, <1>7, <1>8, <1>9, <2>2, <2>3, Zenon
<1>11. CASE done = length \/ at >= e
  <2>1. AddSpan(offset, length, sofar, run) = sofar
    BY <1>10, <1>11
  <2>2. \/ e <= offset /\ done = 0
        \/ offset <= e /\ e <= offset + length /\ done = e - offset
        \/ offset + length <= e /\ done = length
    BY <1>3, <1>6, <1>7, <1>11
  <2>3. ~(k = 0)
    OBVIOUS
  <2>. QED
    BY <1>1, <1>2, <1>5, <1>6, <2>1, <2>2, <2>3, Zenon DEF CutUpTo
<1>12. CASE ~(done = length \/ at >= e)
  <2>1. done < length /\ f <= at /\ at < e
    BY <1>6, <1>7, <1>12
  <2>2. take \in Nat \ {0} /\ at + take <= e /\ done + take <= length
    BY <1>7, <1>8, <2>1 DEF Least
  <2>3. PICK q \in Nat, r \in Nat :
           /\ q = (at - f) \div BLOCK_SIZE /\ r = (at - f) % BLOCK_SIZE
           /\ r < BLOCK_SIZE /\ at - f = q * BLOCK_SIZE + r
    <3>1. PICK d \in Nat : d = at - f
      BY <2>1
    <3>. QED
      BY <3>1, BlockSize, Division
  <2>4. PICK first \in Int : first = b + q
    OBVIOUS
  <2>5. first * BLOCK_SIZE + r = base + (at - f) /\ first * BLOCK_SIZE \in Int
    <3>1. first * BLOCK_SIZE = b * BLOCK_SIZE + q * BLOCK_SIZE /\ first * BLOCK_SIZE \in Int
          /\ q * BLOCK_SIZE \in Int
      BY <2>4, BlockSize, SMT
    <3>. QED
      BY <1>3, <2>3, <3>1
  <2>6. span.first = first /\ span.skip = r /\ span.done = done /\ span.take = take
    BY <1>9, <2>3, <2>4
  <2>7. InBlocks(first, r, take, hi)
    <3>1. first * BLOCK_SIZE + r + take <= hi * BLOCK_SIZE
      BY <1>3, <2>2, <2>5
    <3>. QED
      BY <2>2, <2>3, <3>1 DEF InBlocks
  <2>8. ASSUME NEW i \in 0 .. take - 1
        PROVE  Address(runs, offset + done + i) = first * BLOCK_SIZE + r + i
    <3>1. PICK p \in Int : p = offset + done + i
      OBVIOUS
    <3>2. From(runs[k]) <= p /\ p < To(runs[k])
      BY <1>1, <1>2, <1>7, <2>1, <2>2, <3>1
    <3>3. Address(runs, p) = Base(runs[k]) + (p - From(runs[k]))
      BY <3>2, AddressIn
    <3>4. Address(runs, p) = base + (p - f)
      BY <1>1, <1>2, <3>3
    <3>. QED
      BY <1>7, <2>5, <3>1, <3>4
  <2>9. IsSpan(runs, N, offset, length, span)
    <3>1. b <= first
      BY <2>4
    <3>2. /\ done \in Nat /\ take \in Nat \ {0} /\ done + take <= length
      BY <2>2
    <3>3. /\ InBlocks(first, r, take, BlockAfter(runs[k]))
          /\ ClusterBlock(runs[k].start) <= first
          /\ \A i \in 0 .. take - 1 :
                Address(runs, offset + done + i) = first * BLOCK_SIZE + r + i
      BY <1>1, <1>2, <2>7, <2>8, <3>1
    <3>. QED
      BY <2>6, <3>2, <3>3, Zenon DEF IsSpan
  <2>10. PICK next : next = AddSpan(offset, length, sofar, run)
    OBVIOUS
  <2>11. next = [done |-> done + take, spans |-> Append(spans, span)]
    BY <1>10, <1>12, <2>10
  <2>12. Cuts(runs, N, offset, length, next.spans, next.done)
    <3>1. Cuts(runs, N, offset, length, Append(spans, span), done + span.take)
      BY <1>6, <2>6, <2>9, CutsMore
    <3>. QED
      BY <2>6, <2>11, <3>1
  <2>13. next.done \in 0 .. length /\ next = [done |-> next.done, spans |-> next.spans]
    BY <2>2, <2>11
  <2>14. \/ e <= offset /\ next.done = 0
         \/ offset <= e /\ e <= offset + length /\ next.done = e - offset
         \/ offset + length <= e /\ next.done = length
    <3>1. next.done = done + take
      BY <2>11
    <3>. QED
      BY <1>7, <1>8, <2>1, <2>2, <3>1 DEF Least
  <2>15. ~(k = 0)
    OBVIOUS
  <2>16. e = To(runs[k])
    BY <1>1, <1>2
  <2>17. CutUpTo(runs, N, offset, length, k, next)
    BY <2>12, <2>13, <2>14, <2>15, <2>16, Zenon DEF CutUpTo
  <2>. QED
    BY <1>1, <2>10, <2>17
<1>. QED
  BY <1>1, <1>11, <1>12

-----------------------------------------------------------------------------
(***************************************************************************)
(* What the loops of read_at, read_chain, write_chain and zero_range are   *)
(* after each round.                                                       *)
(***************************************************************************)

\* The recursion of Spans has a solution.
IsSpansFold(f, runs, offset, length, N) ==
    f = [k \in 0 .. N |-> IF k = 0 THEN [done |-> 0, spans |-> <<>>]
                          ELSE AddSpan(offset, length, f[k - 1], runs[k])]

\* Such a function exists.
LEMMA SpansFold ==
    ASSUME NEW runs, NEW offset, NEW length, NEW N \in Nat
    PROVE  \E f : IsSpansFold(f, runs, offset, length, N)
<1>1. PICK S : S = {n \in 0 .. N : \E f : IsSpansFold(f, runs, offset, length, n)}
  OBVIOUS
<1>2. 0 \in S
  <2>1. PICK f : f = [k \in 0 .. 0 |-> [done |-> 0, spans |-> <<>>]]
    OBVIOUS
  <2>2. \A k \in 0 .. 0 : k = 0
    OBVIOUS
  <2>3. IsSpansFold(f, runs, offset, length, 0)
    BY <2>1, <2>2, Zenon DEF IsSpansFold
  <2>. QED
    BY <1>1, <2>3
<1>3. ASSUME NEW n \in 1 .. N, n - 1 \in S PROVE n \in S
  <2>1. PICK f : IsSpansFold(f, runs, offset, length, n - 1)
    BY <1>1, <1>3
  <2>2. \A k \in 0 .. n - 1 : f[k] = IF k = 0 THEN [done |-> 0, spans |-> <<>>]
                                     ELSE AddSpan(offset, length, f[k - 1], runs[k])
    BY <2>1, Zenon DEF IsSpansFold
  <2>3. PICK g : g = [k \in 0 .. n |-> IF k = n THEN AddSpan(offset, length, f[n - 1], runs[n])
                                       ELSE f[k]]
    OBVIOUS
  <2>4. ASSUME NEW k \in 0 .. n
        PROVE  g[k] = IF k = 0 THEN [done |-> 0, spans |-> <<>>]
                      ELSE AddSpan(offset, length, g[k - 1], runs[k])
    <3>1. CASE k = n
      <4>1. k # 0 /\ n - 1 \in 0 .. n /\ n - 1 # n
        BY <3>1
      <4>2. g[n - 1] = f[n - 1]
        BY <2>3, <4>1
      <4>. QED
        BY <2>3, <3>1, <4>1, <4>2
    <3>2. CASE k # n
      <4>1. k \in 0 .. n - 1 /\ (k # 0 => k - 1 \in 0 .. n /\ k - 1 # n)
        BY <3>2
      <4>2. k # 0 => g[k - 1] = f[k - 1]
        BY <2>3, <4>1
      <4>. QED
        BY <2>2, <2>3, <3>2, <4>1, <4>2
    <3>. QED
      BY <3>1, <3>2
  <2>5. g = [k \in 0 .. n |-> g[k]]
    BY <2>3
  <2>6. IsSpansFold(g, runs, offset, length, n)
    BY <2>4, <2>5, Zenon DEF IsSpansFold
  <2>7. n \in 0 .. N
    OBVIOUS
  <2>. QED
    BY <1>1, <2>6, <2>7
<1>4. N \in S
  BY <1>2, <1>3, UpTo
<1>. QED
  BY <1>1, <1>4

SpansBy(f, runs, offset, length, last) ==
    /\ f[0] = [done |-> 0, spans |-> <<>>]
    /\ \A k \in 1 .. Len(runs) : f[k] = AddSpan(offset, length, f[k - 1], runs[k])
    /\ last = f[Len(runs)]

\* What Spans returns is what such a solution ends with.
LEMMA SpansAre ==
    ASSUME NEW runs, NEW offset, NEW length, Len(runs) \in Nat
    PROVE  \E f : SpansBy(f, runs, offset, length, Spans(runs, offset, length))
<1>1. PICK N \in Nat : N = Len(runs)
  OBVIOUS
<1>2. PICK f : f = CHOOSE g : IsSpansFold(g, runs, offset, length, N)
  OBVIOUS
<1>3. IsSpansFold(f, runs, offset, length, N)
  <2>1. \E g : IsSpansFold(g, runs, offset, length, N)
    BY SpansFold
  <2>. QED
    BY <1>2, <2>1, Zenon
<1>4. Spans(runs, offset, length) = f[N]
  BY <1>1, <1>2, Zenon DEF Spans, IsSpansFold
<1>5. \A k \in 0 .. N : f[k] = IF k = 0 THEN [done |-> 0, spans |-> <<>>]
                               ELSE AddSpan(offset, length, f[k - 1], runs[k])
  BY <1>3, Zenon DEF IsSpansFold
<1>6. 0 \in 0 .. N /\ \A k \in 1 .. N : k \in 0 .. N /\ k # 0
  OBVIOUS
<1>. QED
  BY <1>1, <1>4, <1>5, <1>6, Zenon DEF SpansBy

\* Spans cuts the whole range.
LEMMA SpansCut ==
    ASSUME NEW runs, NEW N, Chain(runs, N), NEW offset \in Nat, NEW length \in Nat,
           offset + length <= FileBytes(runs),
           NEW cut, cut = Spans(runs, offset, length)
    PROVE  cut.done = length /\ Cuts(runs, N, offset, length, cut.spans, length)
<1>1. N \in Nat /\ Len(runs) = N /\ FileBytes(runs) = IF N = 0 THEN 0 ELSE To(runs[N])
  BY DEF Chain
<1>2. PICK f : /\ f[0] = [done |-> 0, spans |-> <<>>]
               /\ \A k \in 1 .. N : f[k] = AddSpan(offset, length, f[k - 1], runs[k])
               /\ cut = f[N]
  <2>1. Len(runs) \in Nat
    BY <1>1
  <2>2. PICK f : SpansBy(f, runs, offset, length, Spans(runs, offset, length))
    BY <2>1, SpansAre
  <2>. QED
    BY <1>1, <2>2, Zenon DEF SpansBy
<1>3. PICK S : S = {n \in 0 .. N : CutUpTo(runs, N, offset, length, n, f[n])}
  OBVIOUS
<1>4. 0 \in S
  <2>1. f[0] = [done |-> 0, spans |-> <<>>]
    BY <1>2
  <2>2. Cuts(runs, N, offset, length, <<>>, 0)
    <3>1. PICK e : e = <<>> /\ Len(e) = 0 /\ IsRow(e, 0)
      BY DEF IsRow
    <3>2. \A k \in 1 .. Len(e) : FALSE
      BY <3>1
    <3>3. Len(e) \in Nat /\ IsRow(e, Len(e)) /\ 0 = IF Len(e) = 0 THEN 0 ELSE e[Len(e)].done + e[Len(e)].take
      BY <3>1
    <3>4. Cuts(runs, N, offset, length, e, 0)
      BY <3>2, <3>3, Zenon DEF Cuts
    <3>. QED
      BY <3>1, <3>4
  <2>3. 0 <= offset /\ 0 \in 0 .. length /\ 0 \in 0 .. N
    BY <1>1
  <2>4. f[0].done = 0 /\ f[0].spans = <<>> /\ f[0] = [done |-> f[0].done, spans |-> f[0].spans]
    BY <2>1
  <2>5. CutUpTo(runs, N, offset, length, 0, f[0])
    BY <2>2, <2>3, <2>4, Zenon DEF CutUpTo
  <2>. QED
    BY <1>3, <2>3, <2>5
<1>5. ASSUME NEW n \in 1 .. N, n - 1 \in S PROVE n \in S
  <2>1. n \in 0 .. N
    OBVIOUS
  <2>2. f[n] = AddSpan(offset, length, f[n - 1], runs[n])
    BY <1>2
  <2>3. CutUpTo(runs, N, offset, length, n - 1, f[n - 1])
    BY <1>3, <1>5
  <2>4. CutUpTo(runs, N, offset, length, n, AddSpan(offset, length, f[n - 1], runs[n]))
    BY <2>3, AddSpanCuts
  <2>. QED
    BY <1>3, <2>1, <2>2, <2>4
<1>6. N \in S
  <2>1. \A n \in 0 .. N : n \in S
    BY <1>1, <1>4, <1>5, UpTo
  <2>. QED
    BY <1>1, <2>1
<1>7. CutUpTo(runs, N, offset, length, N, cut)
  BY <1>2, <1>3, <1>6
<1>8. PICK end : end = IF N = 0 THEN 0 ELSE To(runs[N])
  OBVIOUS
<1>9. /\ cut.done \in 0 .. length
      /\ \/ end <= offset /\ cut.done = 0
         \/ offset <= end /\ end <= offset + length /\ cut.done = end - offset
         \/ offset + length <= end /\ cut.done = length
      /\ Cuts(runs, N, offset, length, cut.spans, cut.done)
  BY <1>7, <1>8, Zenon DEF CutUpTo
<1>10. end \in Nat
  <2>1. N # 0 => N \in 1 .. N
    BY <1>1
  <2>. QED
    BY <1>8, <2>1, RunsLie
<1>11. cut.done = length
  BY <1>1, <1>8, <1>9, <1>10
<1>. QED
  BY <1>9, <1>11

\* That of ReadSpans.
IsReadsFold(f, device, limit, spans, N) ==
    f = [k \in 0 .. N |-> IF k = 0 THEN [data |-> <<>>, calls |-> <<>>]
                          ELSE AddRead(device, limit, f[k - 1], spans[k])]

\* The recursion of ReadSpans has a solution.
LEMMA ReadsFold ==
    ASSUME NEW device, NEW limit, NEW spans, NEW N \in Nat
    PROVE  \E f : IsReadsFold(f, device, limit, spans, N)
<1>1. PICK S : S = {n \in 0 .. N : \E f : IsReadsFold(f, device, limit, spans, n)}
  OBVIOUS
<1>2. 0 \in S
  <2>1. PICK f : f = [k \in 0 .. 0 |-> [data |-> <<>>, calls |-> <<>>]]
    OBVIOUS
  <2>2. \A k \in 0 .. 0 : k = 0
    OBVIOUS
  <2>3. IsReadsFold(f, device, limit, spans, 0)
    BY <2>1, <2>2, Zenon DEF IsReadsFold
  <2>. QED
    BY <1>1, <2>3
<1>3. ASSUME NEW n \in 1 .. N, n - 1 \in S PROVE n \in S
  <2>1. PICK f : IsReadsFold(f, device, limit, spans, n - 1)
    BY <1>1, <1>3
  <2>2. \A k \in 0 .. n - 1 : f[k] = IF k = 0 THEN [data |-> <<>>, calls |-> <<>>]
                                     ELSE AddRead(device, limit, f[k - 1], spans[k])
    BY <2>1, Zenon DEF IsReadsFold
  <2>3. PICK g : g = [k \in 0 .. n |-> IF k = n THEN AddRead(device, limit, f[n - 1], spans[n])
                                       ELSE f[k]]
    OBVIOUS
  <2>4. ASSUME NEW k \in 0 .. n
        PROVE  g[k] = IF k = 0 THEN [data |-> <<>>, calls |-> <<>>]
                      ELSE AddRead(device, limit, g[k - 1], spans[k])
    <3>1. CASE k = n
      <4>1. k # 0 /\ n - 1 \in 0 .. n /\ n - 1 # n
        BY <3>1
      <4>2. g[n - 1] = f[n - 1]
        BY <2>3, <4>1
      <4>. QED
        BY <2>3, <3>1, <4>1, <4>2
    <3>2. CASE k # n
      <4>1. k \in 0 .. n - 1 /\ (k # 0 => k - 1 \in 0 .. n /\ k - 1 # n)
        BY <3>2
      <4>2. k # 0 => g[k - 1] = f[k - 1]
        BY <2>3, <4>1
      <4>. QED
        BY <2>2, <2>3, <3>2, <4>1, <4>2
    <3>. QED
      BY <3>1, <3>2
  <2>5. g = [k \in 0 .. n |-> g[k]]
    BY <2>3
  <2>6. IsReadsFold(g, device, limit, spans, n)
    BY <2>4, <2>5, Zenon DEF IsReadsFold
  <2>7. n \in 0 .. N
    OBVIOUS
  <2>. QED
    BY <1>1, <2>6, <2>7
<1>4. N \in S
  BY <1>2, <1>3, UpTo
<1>. QED
  BY <1>1, <1>4

ReadsBy(f, device, limit, spans, last) ==
    /\ f[0] = [data |-> <<>>, calls |-> <<>>]
    /\ \A k \in 1 .. Len(spans) : f[k] = AddRead(device, limit, f[k - 1], spans[k])
    /\ last = f[Len(spans)]

\* What ReadSpans returns is what such a solution ends with.
LEMMA ReadsAre ==
    ASSUME NEW device, NEW limit, NEW spans, Len(spans) \in Nat
    PROVE  \E f : ReadsBy(f, device, limit, spans, ReadSpans(device, limit, spans))
<1>1. PICK N \in Nat : N = Len(spans)
  OBVIOUS
<1>2. PICK f : f = CHOOSE g : IsReadsFold(g, device, limit, spans, N)
  OBVIOUS
<1>3. IsReadsFold(f, device, limit, spans, N)
  <2>1. \E g : IsReadsFold(g, device, limit, spans, N)
    BY ReadsFold
  <2>. QED
    BY <1>2, <2>1, Zenon
<1>4. ReadSpans(device, limit, spans) = f[N]
  BY <1>1, <1>2, Zenon DEF ReadSpans, IsReadsFold
<1>5. \A k \in 0 .. N : f[k] = IF k = 0 THEN [data |-> <<>>, calls |-> <<>>]
                               ELSE AddRead(device, limit, f[k - 1], spans[k])
  BY <1>3, Zenon DEF IsReadsFold
<1>6. 0 \in 0 .. N /\ \A k \in 1 .. N : k \in 0 .. N /\ k # 0
  OBVIOUS
<1>. QED
  BY <1>1, <1>4, <1>5, <1>6, Zenon DEF ReadsBy

\* That of ReadChain.
IsChainFold(f, device, limit, runs, N) ==
    f = [k \in 0 .. N |-> IF k = 0 THEN [data |-> <<>>, calls |-> <<>>]
                          ELSE AddRun(device, limit, f[k - 1], runs[k])]

\* The recursion of ReadChain has a solution.
LEMMA ChainFold ==
    ASSUME NEW device, NEW limit, NEW runs, NEW N \in Nat
    PROVE  \E f : IsChainFold(f, device, limit, runs, N)
<1>1. PICK S : S = {n \in 0 .. N : \E f : IsChainFold(f, device, limit, runs, n)}
  OBVIOUS
<1>2. 0 \in S
  <2>1. PICK f : f = [k \in 0 .. 0 |-> [data |-> <<>>, calls |-> <<>>]]
    OBVIOUS
  <2>2. \A k \in 0 .. 0 : k = 0
    OBVIOUS
  <2>3. IsChainFold(f, device, limit, runs, 0)
    BY <2>1, <2>2, Zenon DEF IsChainFold
  <2>. QED
    BY <1>1, <2>3
<1>3. ASSUME NEW n \in 1 .. N, n - 1 \in S PROVE n \in S
  <2>1. PICK f : IsChainFold(f, device, limit, runs, n - 1)
    BY <1>1, <1>3
  <2>2. \A k \in 0 .. n - 1 : f[k] = IF k = 0 THEN [data |-> <<>>, calls |-> <<>>]
                                     ELSE AddRun(device, limit, f[k - 1], runs[k])
    BY <2>1, Zenon DEF IsChainFold
  <2>3. PICK g : g = [k \in 0 .. n |-> IF k = n THEN AddRun(device, limit, f[n - 1], runs[n])
                                       ELSE f[k]]
    OBVIOUS
  <2>4. ASSUME NEW k \in 0 .. n
        PROVE  g[k] = IF k = 0 THEN [data |-> <<>>, calls |-> <<>>]
                      ELSE AddRun(device, limit, g[k - 1], runs[k])
    <3>1. CASE k = n
      <4>1. k # 0 /\ n - 1 \in 0 .. n /\ n - 1 # n
        BY <3>1
      <4>2. g[n - 1] = f[n - 1]
        BY <2>3, <4>1
      <4>. QED
        BY <2>3, <3>1, <4>1, <4>2
    <3>2. CASE k # n
      <4>1. k \in 0 .. n - 1 /\ (k # 0 => k - 1 \in 0 .. n /\ k - 1 # n)
        BY <3>2
      <4>2. k # 0 => g[k - 1] = f[k - 1]
        BY <2>3, <4>1
      <4>. QED
        BY <2>2, <2>3, <3>2, <4>1, <4>2
    <3>. QED
      BY <3>1, <3>2
  <2>5. g = [k \in 0 .. n |-> g[k]]
    BY <2>3
  <2>6. IsChainFold(g, device, limit, runs, n)
    BY <2>4, <2>5, Zenon DEF IsChainFold
  <2>7. n \in 0 .. N
    OBVIOUS
  <2>. QED
    BY <1>1, <2>6, <2>7
<1>4. N \in S
  BY <1>2, <1>3, UpTo
<1>. QED
  BY <1>1, <1>4

ChainBy(f, device, limit, runs, last) ==
    /\ f[0] = [data |-> <<>>, calls |-> <<>>]
    /\ \A k \in 1 .. Len(runs) : f[k] = AddRun(device, limit, f[k - 1], runs[k])
    /\ last = f[Len(runs)]

\* What ReadChain returns is what such a solution ends with.
LEMMA ChainsAre ==
    ASSUME NEW device, NEW limit, NEW runs, Len(runs) \in Nat
    PROVE  \E f : ChainBy(f, device, limit, runs, ReadChain(device, limit, runs))
<1>1. PICK N \in Nat : N = Len(runs)
  OBVIOUS
<1>2. PICK f : f = CHOOSE g : IsChainFold(g, device, limit, runs, N)
  OBVIOUS
<1>3. IsChainFold(f, device, limit, runs, N)
  <2>1. \E g : IsChainFold(g, device, limit, runs, N)
    BY ChainFold
  <2>. QED
    BY <1>2, <2>1, Zenon
<1>4. ReadChain(device, limit, runs) = f[N]
  BY <1>1, <1>2, Zenon DEF ReadChain, IsChainFold
<1>5. \A k \in 0 .. N : f[k] = IF k = 0 THEN [data |-> <<>>, calls |-> <<>>]
                               ELSE AddRun(device, limit, f[k - 1], runs[k])
  BY <1>3, Zenon DEF IsChainFold
<1>6. 0 \in 0 .. N /\ \A k \in 1 .. N : k \in 0 .. N /\ k # 0
  OBVIOUS
<1>. QED
  BY <1>1, <1>4, <1>5, <1>6, Zenon DEF ChainBy

\* That of WriteChain.
IsWritesFold(f, device, limit, data, spans, N) ==
    f = [k \in 0 .. N |-> IF k = 0 THEN [device |-> device, calls |-> <<>>]
                          ELSE AddWrite(limit, data, f[k - 1], spans[k])]

\* The recursion of WriteChain has a solution.
LEMMA WritesFold ==
    ASSUME NEW device, NEW limit, NEW data, NEW spans, NEW N \in Nat
    PROVE  \E f : IsWritesFold(f, device, limit, data, spans, N)
<1>1. PICK S : S = {n \in 0 .. N : \E f : IsWritesFold(f, device, limit, data, spans, n)}
  OBVIOUS
<1>2. 0 \in S
  <2>1. PICK f : f = [k \in 0 .. 0 |-> [device |-> device, calls |-> <<>>]]
    OBVIOUS
  <2>2. \A k \in 0 .. 0 : k = 0
    OBVIOUS
  <2>3. IsWritesFold(f, device, limit, data, spans, 0)
    BY <2>1, <2>2, Zenon DEF IsWritesFold
  <2>. QED
    BY <1>1, <2>3
<1>3. ASSUME NEW n \in 1 .. N, n - 1 \in S PROVE n \in S
  <2>1. PICK f : IsWritesFold(f, device, limit, data, spans, n - 1)
    BY <1>1, <1>3
  <2>2. \A k \in 0 .. n - 1 : f[k] = IF k = 0 THEN [device |-> device, calls |-> <<>>]
                                     ELSE AddWrite(limit, data, f[k - 1], spans[k])
    BY <2>1, Zenon DEF IsWritesFold
  <2>3. PICK g : g = [k \in 0 .. n |-> IF k = n THEN AddWrite(limit, data, f[n - 1], spans[n])
                                       ELSE f[k]]
    OBVIOUS
  <2>4. ASSUME NEW k \in 0 .. n
        PROVE  g[k] = IF k = 0 THEN [device |-> device, calls |-> <<>>]
                      ELSE AddWrite(limit, data, g[k - 1], spans[k])
    <3>1. CASE k = n
      <4>1. k # 0 /\ n - 1 \in 0 .. n /\ n - 1 # n
        BY <3>1
      <4>2. g[n - 1] = f[n - 1]
        BY <2>3, <4>1
      <4>. QED
        BY <2>3, <3>1, <4>1, <4>2
    <3>2. CASE k # n
      <4>1. k \in 0 .. n - 1 /\ (k # 0 => k - 1 \in 0 .. n /\ k - 1 # n)
        BY <3>2
      <4>2. k # 0 => g[k - 1] = f[k - 1]
        BY <2>3, <4>1
      <4>. QED
        BY <2>2, <2>3, <3>2, <4>1, <4>2
    <3>. QED
      BY <3>1, <3>2
  <2>5. g = [k \in 0 .. n |-> g[k]]
    BY <2>3
  <2>6. IsWritesFold(g, device, limit, data, spans, n)
    BY <2>4, <2>5, Zenon DEF IsWritesFold
  <2>7. n \in 0 .. N
    OBVIOUS
  <2>. QED
    BY <1>1, <2>6, <2>7
<1>4. N \in S
  BY <1>2, <1>3, UpTo
<1>. QED
  BY <1>1, <1>4

WritesBy(f, device, limit, data, spans, last) ==
    /\ f[0] = [device |-> device, calls |-> <<>>]
    /\ \A k \in 1 .. Len(spans) : f[k] = AddWrite(limit, data, f[k - 1], spans[k])
    /\ last = f[Len(spans)]

\* What WriteChain returns is what such a solution ends with.
LEMMA WritesAre ==
    ASSUME NEW device, NEW limit, NEW runs, NEW offset, NEW data,
           NEW spans, spans = Spans(runs, offset, Len(data)).spans, Len(spans) \in Nat
    PROVE  \E f : WritesBy(f, device, limit, data, spans, WriteChain(device, limit, runs, offset, data))
<1>1. PICK N \in Nat : N = Len(spans)
  OBVIOUS
<1>2. PICK f : f = CHOOSE g : IsWritesFold(g, device, limit, data, spans, N)
  OBVIOUS
<1>3. IsWritesFold(f, device, limit, data, spans, N)
  <2>1. \E g : IsWritesFold(g, device, limit, data, spans, N)
    BY WritesFold
  <2>. QED
    BY <1>2, <2>1, Zenon
<1>4. WriteChain(device, limit, runs, offset, data) = f[N]
  BY <1>1, <1>2, Zenon DEF WriteChain, IsWritesFold
<1>5. \A k \in 0 .. N : f[k] = IF k = 0 THEN [device |-> device, calls |-> <<>>]
                               ELSE AddWrite(limit, data, f[k - 1], spans[k])
  BY <1>3, Zenon DEF IsWritesFold
<1>6. 0 \in 0 .. N /\ \A k \in 1 .. N : k \in 0 .. N /\ k # 0
  OBVIOUS
<1>. QED
  BY <1>1, <1>4, <1>5, <1>6, Zenon DEF WritesBy

\* That of ZeroRange.
IsZerosFold(f, device, limit, runs, from, chunks, N) ==
    f = [k \in 0 .. N |-> IF k = 0 THEN [device |-> device, calls |-> <<>>]
                          ELSE AddZeros(limit, runs, from, f[k - 1], chunks[k])]

\* The recursion of ZeroRange has a solution.
LEMMA ZerosFold ==
    ASSUME NEW device, NEW limit, NEW runs, NEW from, NEW chunks, NEW N \in Nat
    PROVE  \E f : IsZerosFold(f, device, limit, runs, from, chunks, N)
<1>1. PICK S : S = {n \in 0 .. N : \E f : IsZerosFold(f, device, limit, runs, from, chunks, n)}
  OBVIOUS
<1>2. 0 \in S
  <2>1. PICK f : f = [k \in 0 .. 0 |-> [device |-> device, calls |-> <<>>]]
    OBVIOUS
  <2>2. \A k \in 0 .. 0 : k = 0
    OBVIOUS
  <2>3. IsZerosFold(f, device, limit, runs, from, chunks, 0)
    BY <2>1, <2>2, Zenon DEF IsZerosFold
  <2>. QED
    BY <1>1, <2>3
<1>3. ASSUME NEW n \in 1 .. N, n - 1 \in S PROVE n \in S
  <2>1. PICK f : IsZerosFold(f, device, limit, runs, from, chunks, n - 1)
    BY <1>1, <1>3
  <2>2. \A k \in 0 .. n - 1 : f[k] = IF k = 0 THEN [device |-> device, calls |-> <<>>]
                                     ELSE AddZeros(limit, runs, from, f[k - 1], chunks[k])
    BY <2>1, Zenon DEF IsZerosFold
  <2>3. PICK g : g = [k \in 0 .. n |-> IF k = n THEN AddZeros(limit, runs, from, f[n - 1], chunks[n])
                                       ELSE f[k]]
    OBVIOUS
  <2>4. ASSUME NEW k \in 0 .. n
        PROVE  g[k] = IF k = 0 THEN [device |-> device, calls |-> <<>>]
                      ELSE AddZeros(limit, runs, from, g[k - 1], chunks[k])
    <3>1. CASE k = n
      <4>1. k # 0 /\ n - 1 \in 0 .. n /\ n - 1 # n
        BY <3>1
      <4>2. g[n - 1] = f[n - 1]
        BY <2>3, <4>1
      <4>. QED
        BY <2>3, <3>1, <4>1, <4>2
    <3>2. CASE k # n
      <4>1. k \in 0 .. n - 1 /\ (k # 0 => k - 1 \in 0 .. n /\ k - 1 # n)
        BY <3>2
      <4>2. k # 0 => g[k - 1] = f[k - 1]
        BY <2>3, <4>1
      <4>. QED
        BY <2>2, <2>3, <3>2, <4>1, <4>2
    <3>. QED
      BY <3>1, <3>2
  <2>5. g = [k \in 0 .. n |-> g[k]]
    BY <2>3
  <2>6. IsZerosFold(g, device, limit, runs, from, chunks, n)
    BY <2>4, <2>5, Zenon DEF IsZerosFold
  <2>7. n \in 0 .. N
    OBVIOUS
  <2>. QED
    BY <1>1, <2>6, <2>7
<1>4. N \in S
  BY <1>2, <1>3, UpTo
<1>. QED
  BY <1>1, <1>4

ZerosBy(f, device, limit, runs, from, chunks, last) ==
    /\ f[0] = [device |-> device, calls |-> <<>>]
    /\ \A k \in 1 .. Len(chunks) : f[k] = AddZeros(limit, runs, from, f[k - 1], chunks[k])
    /\ last = f[Len(chunks)]

\* What ZeroRange returns is what such a solution ends with.
LEMMA ZerosAre ==
    ASSUME NEW device, NEW limit, NEW runs, NEW from, NEW to,
           NEW chunks, chunks = ZeroPasses(from, to), Len(chunks) \in Nat
    PROVE  \E f : ZerosBy(f, device, limit, runs, from, chunks, ZeroRange(device, limit, runs, from, to))
<1>1. PICK N \in Nat : N = Len(chunks)
  OBVIOUS
<1>2. PICK f : f = CHOOSE g : IsZerosFold(g, device, limit, runs, from, chunks, N)
  OBVIOUS
<1>3. IsZerosFold(f, device, limit, runs, from, chunks, N)
  <2>1. \E g : IsZerosFold(g, device, limit, runs, from, chunks, N)
    BY ZerosFold
  <2>. QED
    BY <1>2, <2>1, Zenon
<1>4. ZeroRange(device, limit, runs, from, to) = f[N]
  BY <1>1, <1>2, Zenon DEF ZeroRange, IsZerosFold
<1>5. \A k \in 0 .. N : f[k] = IF k = 0 THEN [device |-> device, calls |-> <<>>]
                               ELSE AddZeros(limit, runs, from, f[k - 1], chunks[k])
  BY <1>3, Zenon DEF IsZerosFold
<1>6. 0 \in 0 .. N /\ \A k \in 1 .. N : k \in 0 .. N /\ k # 0
  OBVIOUS
<1>. QED
  BY <1>1, <1>4, <1>5, <1>6, Zenon DEF ZerosBy

-----------------------------------------------------------------------------
(***************************************************************************)
(* read_at and read_chain: what has been read is the range up to there.    *)
(***************************************************************************)

\* The first n bytes of a range of a file, as the device has them.
FileRange(device, runs, offset, n) == [j \in 1 .. n |-> device[Address(runs, offset + j - 1)]]

\* n bytes of the device are the file's, m from `offset`.
LiesAt(runs, offset, m, n, total, F) ==
    /\ offset \in Nat /\ m \in Nat /\ n \in Nat /\ F \in Int /\ total = m + n
    /\ \A i \in 0 .. n - 1 : Address(runs, offset + m + i) = F + i

\* Bytes read there make the range longer by as many.
LEMMA RangeGrows ==
    ASSUME NEW device, NEW runs, NEW offset, NEW m, NEW n, NEW total, NEW F,
           LiesAt(runs, offset, m, n, total, F)
    PROVE  FileRange(device, runs, offset, m) \o Bytes(device, F, n)
              = FileRange(device, runs, offset, total)
<1>. /\ offset \in Nat /\ m \in Nat /\ n \in Nat /\ F \in Int /\ total = m + n
     /\ \A i \in 0 .. n - 1 : Address(runs, offset + m + i) = F + i
  BY DEF LiesAt
<1>1. PICK s, t, u : /\ s = FileRange(device, runs, offset, m) /\ t = Bytes(device, F, n)
                     /\ u = FileRange(device, runs, offset, m + n)
  OBVIOUS
<1>2. IsRow(s, m) /\ \A j \in 1 .. m : s[j] = device[Address(runs, offset + j - 1)]
  BY <1>1 DEF FileRange, IsRow
<1>3. IsRow(t, n) /\ \A j \in 1 .. n : t[j] = device[F + j - 1]
  BY <1>1, BytesRow
<1>4. IsRow(u, m + n) /\ \A j \in 1 .. m + n : u[j] = device[Address(runs, offset + j - 1)]
  BY <1>1 DEF FileRange, IsRow
<1>5. PICK v : v = s \o t
  OBVIOUS
<1>6. IsJoin(v, s, t, m, n)
  BY <1>2, <1>3, <1>5, Joined, Zenon
<1>7. /\ IsRow(v, m + n)
      /\ \A k \in 1 .. m : v[k] = s[k]
      /\ \A k \in 1 .. n : v[m + k] = t[k]
  BY <1>6 DEF IsJoin
<1>8. ASSUME NEW k \in 1 .. m + n PROVE v[k] = u[k]
  <2>1. CASE k <= m
    BY <1>2, <1>4, <1>7, <2>1
  <2>2. CASE ~(k <= m)
    <3>1. PICK j \in 1 .. n : k = m + j
      <4>1. k - m \in 1 .. n /\ k = m + (k - m)
        BY <2>2
      <4>. QED
        BY <4>1
    <3>2. v[k] = t[j]
      BY <1>7, <3>1
    <3>3. t[j] = device[F + j - 1]
      BY <1>3
    <3>4. Address(runs, offset + k - 1) = F + j - 1
      <4>1. PICK i \in 0 .. n - 1 : i = j - 1
        OBVIOUS
      <4>2. Address(runs, offset + m + i) = F + i
        OBVIOUS
      <4>3. offset + m + i = offset + k - 1 /\ F + i = F + j - 1
        BY <3>1, <4>1
      <4>. QED
        BY <4>2, <4>3
    <3>5. u[k] = device[Address(runs, offset + k - 1)]
      BY <1>4
    <3>. QED
      BY <3>2, <3>3, <3>4, <3>5
  <2>. QED
    BY <2>1, <2>2
<1>9. v = u
  <2>1. PICK K \in Nat : K = m + n
    OBVIOUS
  <2>. QED
    BY <1>4, <1>7, <1>8, <2>1, RowsAgree
<1>. QED
  BY <1>1, <1>5, <1>9

\* What has been read of a range after some spans.
ReadUpTo(device, limit, runs, offset, n, sofar) ==
    /\ sofar = [data |-> sofar.data, calls |-> sofar.calls]
    /\ sofar.data = FileRange(device, runs, offset, n)
    /\ Moved(sofar.calls, limit, BlocksOf(runs))

\* What one span adds to a read.
LEMMA AddReadReads ==
    ASSUME NEW device, NEW limit \in Nat, NEW runs, NEW N, Chain(runs, N),
           NEW offset \in Nat, NEW length \in Nat,
           NEW span, IsSpan(runs, N, offset, length, span),
           NEW sofar, ReadUpTo(device, limit, runs, offset, span.done, sofar)
    PROVE  ReadUpTo(device, limit, runs, offset, span.done + span.take,
                    AddRead(device, limit, sofar, span))
<1>1. PICK k \in 1 .. N :
         /\ InBlocks(span.first, span.skip, span.take, BlockAfter(runs[k]))
         /\ ClusterBlock(runs[k].start) <= span.first
         /\ \A i \in 0 .. span.take - 1 :
               Address(runs, offset + span.done + i) = span.first * BLOCK_SIZE + span.skip + i
  BY DEF IsSpan
<1>2. PICK first \in Int, skip \in Nat, take \in Nat \ {0}, hi \in Int, done \in Nat :
         /\ first = span.first /\ skip = span.skip /\ take = span.take /\ done = span.done
         /\ hi = BlockAfter(runs[k])
  BY <1>1 DEF InBlocks, IsSpan
<1>3. PICK read : read = ReadSpan(device, limit, first, skip, take)
  OBVIOUS
<1>4. read.data = Bytes(device, first * BLOCK_SIZE + skip, take) /\ Keeps(read.calls, limit, first, hi)
  <2>1. InBlocks(first, skip, take, hi)
    BY <1>1, <1>2
  <2>. QED
    BY <1>3, <2>1, ReadSpanIs
<1>5. PICK F \in Int : F = first * BLOCK_SIZE + skip
  <2>1. first * BLOCK_SIZE \in Int
    BY BlockSize
  <2>. QED
    BY <2>1
<1>6. FileRange(device, runs, offset, done) \o Bytes(device, F, take)
         = FileRange(device, runs, offset, done + take)
  <2>1. \A i \in 0 .. take - 1 : Address(runs, offset + done + i) = F + i
    BY <1>1, <1>2, <1>5
  <2>2. PICK total : total = done + take
    OBVIOUS
  <2>3. LiesAt(runs, offset, done, take, total, F)
    BY <2>1, <2>2 DEF LiesAt
  <2>4. FileRange(device, runs, offset, done) \o Bytes(device, F, take)
           = FileRange(device, runs, offset, total)
    BY <2>3, RangeGrows
  <2>. QED
    BY <2>2, <2>4
<1>7. Moved(read.calls, limit, BlocksOf(runs))
  BY <1>1, <1>2, <1>4, KeepsMoved
<1>8. PICK next : next = AddRead(device, limit, sofar, span)
  OBVIOUS
<1>9. next = [data |-> sofar.data \o read.data, calls |-> sofar.calls \o read.calls]
  BY <1>2, <1>3, <1>8, Zenon DEF AddRead
<1>10. next.data = FileRange(device, runs, offset, done + take)
  <2>1. next.data = sofar.data \o read.data
    BY <1>9, Zenon
  <2>2. sofar.data = FileRange(device, runs, offset, done)
    BY <1>2 DEF ReadUpTo
  <2>. QED
    BY <1>4, <1>5, <1>6, <2>1, <2>2, Zenon
<1>11. Moved(next.calls, limit, BlocksOf(runs))
  <2>1. next.calls = sofar.calls \o read.calls
    BY <1>9, Zenon
  <2>2. Moved(sofar.calls, limit, BlocksOf(runs))
    BY DEF ReadUpTo
  <2>. QED
    BY <1>7, <2>1, <2>2, MovedBoth, Zenon
<1>12. next = [data |-> next.data, calls |-> next.calls]
  BY <1>9, Zenon
<1>. QED
  BY <1>2, <1>8, <1>10, <1>11, <1>12, Zenon DEF ReadUpTo

\* What spans cut of a range after k of them.
CutBy(spans, k) == IF k = 0 THEN 0 ELSE spans[k].done + spans[k].take

\* Spans that cut a range follow one another.
LEMMA CutByIs ==
    ASSUME NEW runs, NEW N, NEW offset, NEW length, NEW spans, NEW done,
           Cuts(runs, N, offset, length, spans, done)
    PROVE  /\ Len(spans) \in Nat /\ CutBy(spans, 0) = 0 /\ done = CutBy(spans, Len(spans))
           /\ \A k \in 1 .. Len(spans) :
                 /\ IsSpan(runs, N, offset, length, spans[k])
                 /\ spans[k].done = CutBy(spans, k - 1)
                 /\ spans[k].done + spans[k].take = CutBy(spans, k)
<1>1. Len(spans) \in Nat /\ done = CutBy(spans, Len(spans))
  BY Zenon DEF Cuts, CutBy
<1>2. ASSUME NEW k \in 1 .. Len(spans)
      PROVE  /\ IsSpan(runs, N, offset, length, spans[k])
             /\ spans[k].done = CutBy(spans, k - 1)
             /\ spans[k].done + spans[k].take = CutBy(spans, k)
  <2>1. /\ IsSpan(runs, N, offset, length, spans[k])
        /\ spans[k].done = IF k = 1 THEN 0 ELSE spans[k - 1].done + spans[k - 1].take
    BY Zenon DEF Cuts
  <2>2. (k = 1 <=> k - 1 = 0) /\ k # 0
    BY <1>1
  <2>. QED
    BY <2>1, <2>2, Zenon DEF CutBy
<1>. QED
  BY <1>1, <1>2 DEF CutBy

\* The spans of a range are read to the range's bytes.
LEMMA SpansRead ==
    ASSUME NEW device, NEW limit \in Nat, NEW runs, NEW N, Chain(runs, N),
           NEW offset \in Nat, NEW length \in Nat,
           NEW spans, Cuts(runs, N, offset, length, spans, length)
    PROVE  ReadUpTo(device, limit, runs, offset, length, ReadSpans(device, limit, spans))
<1>1. /\ Len(spans) \in Nat /\ CutBy(spans, 0) = 0 /\ length = CutBy(spans, Len(spans))
      /\ \A k \in 1 .. Len(spans) :
            /\ IsSpan(runs, N, offset, length, spans[k])
            /\ spans[k].done = CutBy(spans, k - 1)
            /\ spans[k].done + spans[k].take = CutBy(spans, k)
  BY CutByIs
<1>2. PICK f : ReadsBy(f, device, limit, spans, ReadSpans(device, limit, spans))
  BY <1>1, ReadsAre
<1>3. PICK M \in Nat : M = Len(spans)
  BY <1>1
<1>4. /\ f[0] = [data |-> <<>>, calls |-> <<>>]
      /\ \A k \in 1 .. M : f[k] = AddRead(device, limit, f[k - 1], spans[k])
      /\ ReadSpans(device, limit, spans) = f[M]
  BY <1>2, <1>3, Zenon DEF ReadsBy
<1>5. PICK S : S = {n \in 0 .. M : ReadUpTo(device, limit, runs, offset, CutBy(spans, n), f[n])}
  OBVIOUS
<1>6. 0 \in S
  <2>1. FileRange(device, runs, offset, 0) = <<>>
    BY DEF FileRange
  <2>2. Moved(<<>>, limit, BlocksOf(runs))
    BY MovedNone
  <2>3. f[0].data = <<>> /\ f[0].calls = <<>> /\ f[0] = [data |-> f[0].data, calls |-> f[0].calls]
    BY <1>4
  <2>4. ReadUpTo(device, limit, runs, offset, 0, f[0])
    BY <2>1, <2>2, <2>3, Zenon DEF ReadUpTo
  <2>. QED
    BY <1>1, <1>5, <2>4
<1>7. ASSUME NEW n \in 1 .. M, n - 1 \in S PROVE n \in S
  <2>1. ReadUpTo(device, limit, runs, offset, CutBy(spans, n - 1), f[n - 1])
    BY <1>5, <1>7
  <2>2. PICK span : span = spans[n]
    OBVIOUS
  <2>3. /\ IsSpan(runs, N, offset, length, span)
        /\ span.done = CutBy(spans, n - 1)
        /\ span.done + span.take = CutBy(spans, n)
    BY <1>1, <1>3, <2>2
  <2>4. ReadUpTo(device, limit, runs, offset, CutBy(spans, n), AddRead(device, limit, f[n - 1], span))
    BY <2>1, <2>3, AddReadReads
  <2>5. f[n] = AddRead(device, limit, f[n - 1], span) /\ n \in 0 .. M
    BY <1>4, <2>2
  <2>. QED
    BY <1>5, <2>4, <2>5
<1>8. M \in S
  BY <1>6, <1>7, UpTo
<1>. QED
  BY <1>1, <1>3, <1>4, <1>5, <1>8

\* A range of a file in one run is one span.
LEMMA OneSpan ==
    ASSUME NEW runs, Chain(runs, 1), NEW offset \in Nat, NEW length \in Nat,
           offset + length <= FileBytes(runs),
           NEW spans, spans = Spans(runs, offset, length).spans
    PROVE  /\ length = 0 => spans = <<>>
           /\ length # 0 => \E span : /\ spans = <<span>> /\ span.take = length
                                      /\ span.skip = offset % BLOCK_SIZE
<1>1. Len(runs) = 1 /\ FileBytes(runs) = To(runs[1]) /\ From(runs[1]) = 0
  BY DEF Chain
<1>2. PICK f : SpansBy(f, runs, offset, length, Spans(runs, offset, length))
  BY <1>1, SpansAre
<1>3. PICK none, run : none = [done |-> 0, spans |-> <<>>] /\ run = runs[1]
  OBVIOUS
<1>4. Spans(runs, offset, length) = AddSpan(offset, length, none, run)
  <2>1. f[0] = none /\ Spans(runs, offset, length) = f[1]
    BY <1>1, <1>2, <1>3, Zenon DEF SpansBy
  <2>2. \A k \in 1 .. 1 : f[k] = AddSpan(offset, length, f[k - 1], runs[k])
    BY <1>1, <1>2, Zenon DEF SpansBy
  <2>3. 1 \in 1 .. 1 /\ 1 - 1 = 0
    OBVIOUS
  <2>. QED
    BY <1>3, <2>1, <2>2, <2>3
<1>5. PICK end \in Nat : end = To(run) /\ end = FileBytes(runs) /\ end = 0 + run.clusters * ClusterBytes
  <2>1. To(runs[1]) \in Nat /\ To(runs[1]) - From(runs[1]) = runs[1].clusters * ClusterBytes
    <3>1. 1 \in 1 .. 1
      OBVIOUS
    <3>. QED
      BY <3>1, RunsLie
  <2>. QED
    BY <1>1, <1>3, <2>1
<1>6. run.fileCluster * ClusterBytes = 0
  BY <1>1, <1>3 DEF From
<1>7. PICK at, take, span :
         /\ at = offset + none.done /\ take = Least(end - at, length - none.done)
         /\ span = [first |-> ClusterBlock(run.start) + (at - 0) \div BLOCK_SIZE,
                    skip |-> (at - 0) % BLOCK_SIZE, done |-> none.done, take |-> take]
  OBVIOUS
<1>8. AddSpan(offset, length, none, run)
         = IF none.done = length \/ at >= end THEN none
           ELSE [done |-> none.done + take, spans |-> Append(none.spans, span)]
  BY <1>5, <1>6, <1>7, Zenon DEF AddSpan
<1>9. none.done = 0 /\ none.spans = <<>> /\ at = offset
  BY <1>3, <1>7
<1>10. CASE length = 0
  BY <1>4, <1>8, <1>9, <1>10
<1>11. CASE length # 0
  <2>1. ~(none.done = length \/ at >= end)
    BY <1>5, <1>9, <1>11
  <2>2. spans = Append(<<>>, span)
    BY <1>4, <1>8, <1>9, <2>1
  <2>3. spans = <<span>>
    BY <2>2
  <2>4. take = length
    BY <1>5, <1>7, <1>9 DEF Least
  <2>5. span.take = length /\ span.skip = offset % BLOCK_SIZE
    BY <1>7, <1>9, <2>4
  <2>. QED
    BY <1>11, <2>3, <2>5
<1>. QED
  BY <1>10, <1>11

\* A range of whole blocks.
IsBlocks(offset, length, blocks) ==
    offset % BLOCK_SIZE = 0 /\ length % BLOCK_SIZE = 0 /\ blocks = length \div BLOCK_SIZE

Fewest(calls, limit, length, blocks) ==
    Len(calls) = IF length = 0 THEN 0 ELSE CeilDiv(blocks, AtLeast1(limit))

\* It is read in as few transfers as the limit allows if it is whole blocks.
LEMMA OneRunCalls ==
    ASSUME NEW device, NEW limit \in Nat, NEW runs, Chain(runs, 1),
           NEW offset \in Nat, NEW length \in Nat, offset + length <= FileBytes(runs),
           NEW spans, spans = Spans(runs, offset, length).spans,
           NEW blocks, IsBlocks(offset, length, blocks),
           NEW got, got = ReadSpans(device, limit, spans)
    PROVE  Fewest(got.calls, limit, length, blocks)
<1>. USE DEF Fewest
<1>. offset % BLOCK_SIZE = 0 /\ length % BLOCK_SIZE = 0 /\ blocks = length \div BLOCK_SIZE
  BY DEF IsBlocks
<1>1. Cuts(runs, 1, offset, length, spans, length)
  BY SpansCut
<1>2. Len(spans) \in Nat
  BY <1>1 DEF Cuts
<1>3. PICK f : ReadsBy(f, device, limit, spans, ReadSpans(device, limit, spans))
  BY <1>2, ReadsAre
<1>4. PICK none : none = [data |-> <<>>, calls |-> <<>>] /\ none = f[0] /\ none.calls = <<>>
  BY <1>3 DEF ReadsBy
<1>5. /\ \A k \in 1 .. Len(spans) : f[k] = AddRead(device, limit, f[k - 1], spans[k])
      /\ ReadSpans(device, limit, spans) = f[Len(spans)]
  BY <1>3, Zenon DEF ReadsBy
<1>6. CASE length = 0
  <2>1. spans = <<>>
    BY <1>6, OneSpan
  <2>2. ReadSpans(device, limit, spans) = none
    <3>1. Len(spans) = 0
      BY <2>1
    <3>. QED
      BY <1>4, <1>5, <3>1
  <2>. QED
    BY <1>4, <1>6, <2>2
<1>7. CASE length # 0
  <2>1. PICK span : spans = <<span>> /\ span.take = length /\ span.skip = offset % BLOCK_SIZE
    BY <1>7, OneSpan
  <2>2. Len(spans) = 1 /\ spans[1] = span
    BY <2>1
  <2>3. PICK last : last = f[1] /\ last = AddRead(device, limit, none, span)
                    /\ last = ReadSpans(device, limit, spans)
    <3>1. 1 \in 1 .. Len(spans) /\ 1 - 1 = 0
      BY <2>2
    <3>. QED
      BY <1>4, <1>5, <2>2, <3>1
  <2>4. IsSpan(runs, 1, offset, length, span)
    BY <1>1, <2>2 DEF Cuts
  <2>5. PICK k \in 1 .. 1 : InBlocks(span.first, span.skip, span.take, BlockAfter(runs[k]))
    BY <2>4 DEF IsSpan
  <2>6. PICK first \in Int, skip \in Nat, take \in Nat \ {0}, hi \in Int :
           /\ first = span.first /\ skip = span.skip /\ take = span.take /\ hi = BlockAfter(runs[k])
           /\ InBlocks(first, skip, take, hi)
    BY <2>5 DEF InBlocks
  <2>7. PICK read : read = ReadSpan(device, limit, first, skip, take)
    OBVIOUS
  <2>8. skip = 0 /\ take % BLOCK_SIZE = 0 /\ take = length
    BY <2>1, <2>6
  <2>9. /\ Keeps(read.calls, limit, first, hi)
        /\ Len(read.calls) = CeilDiv(take \div BLOCK_SIZE, AtLeast1(limit))
    BY <2>6, <2>7, <2>8, ReadSpanIs
  <2>10. last.calls = none.calls \o read.calls
    <3>1. last = [data |-> none.data \o read.data, calls |-> none.calls \o read.calls]
      BY <2>3, <2>6, <2>7, Zenon DEF AddRead
    <3>. QED
      BY <3>1, Zenon
  <2>11. Len(<<>> \o read.calls) = Len(<<>>) + Len(read.calls) /\ Len(<<>>) = 0
    BY <2>9, KeepsNone, KeepsBoth
  <2>12. Len(read.calls) \in Nat
    BY <2>9 DEF Keeps
  <2>. QED
    BY <1>4, <1>7, <2>3, <2>8, <2>9, <2>10, <2>11, <2>12
<1>. QED
  BY <1>6, <1>7

-----------------------------------------------------------------------------
\* A range of the file's contents is what a read of it would return.
AreContents(device, runs, offset, n) ==
    SubSeq(Contents(device, runs), offset + 1, offset + n) = FileRange(device, runs, offset, n)

\* Any range of a file's contents is what the device has at its addresses.
LEMMA ContentsSlice ==
    ASSUME NEW device, NEW runs, NEW N, Chain(runs, N), NEW offset \in Nat, NEW n \in Nat,
           offset + n <= FileBytes(runs)
    PROVE  AreContents(device, runs, offset, n)
<1>1. PICK size \in Nat : size = FileBytes(runs)
  <2>1. N \in Nat /\ (FileBytes(runs) = IF N = 0 THEN 0 ELSE To(runs[N]))
    BY DEF Chain
  <2>2. N # 0 => To(runs[N]) \in Nat
    <3>1. N # 0 => N \in 1 .. N
      BY <2>1
    <3>. QED
      BY <3>1, RunsLie
  <2>. QED
    BY <2>1, <2>2
<1>2. PICK all : all = Contents(device, runs)
  OBVIOUS
<1>3. IsRow(all, size) /\ \A k \in 1 .. size : all[k] = device[Address(runs, k - 1)]
  BY <1>1, <1>2 DEF Contents, IsRow
<1>4. PICK s, t : s = SubSeq(all, offset + 1, offset + n) /\ t = FileRange(device, runs, offset, n)
  OBVIOUS
<1>5. IsRow(s, n) /\ \A k \in 1 .. n : s[k] = all[offset + k]
  BY <1>1, <1>3, <1>4, Slice
<1>6. IsRow(t, n) /\ \A k \in 1 .. n : t[k] = device[Address(runs, offset + k - 1)]
  BY <1>4 DEF FileRange, IsRow
<1>7. ASSUME NEW k \in 1 .. n PROVE s[k] = t[k]
  <2>1. offset + k \in 1 .. size /\ (offset + k) - 1 = offset + k - 1
    BY <1>1
  <2>. QED
    BY <1>3, <1>5, <1>6, <2>1
<1>8. s = t
  BY <1>5, <1>6, <1>7, RowsAgree
<1>. QED
  BY <1>2, <1>4, <1>8 DEF AreContents

\* What a read to before `end` promises, of any device and range.
ReadsRight(read, device, limit, runs, offset, end) ==
    /\ read.data = SubSeq(Contents(device, runs), offset + 1, end)
    /\ Moves(read.calls, limit, BlocksOf(runs))
    /\ Len(runs) = 1 /\ offset % BLOCK_SIZE = 0 /\ end % BLOCK_SIZE = 0
          => Len(read.calls) = IF offset >= end THEN 0
                               ELSE CeilDiv((end - offset) \div BLOCK_SIZE, AtLeast1(limit))

\* read_at keeps that promise.
LEMMA ReadAtReads ==
    ASSUME NEW device, NEW limit \in Nat, NEW runs, IsChain(runs),
           NEW offset \in Nat, NEW want \in Nat, NEW size \in Nat, size = FileBytes(runs),
           offset <= size,
           NEW read, read = ReadAt(device, limit, runs, size, offset, want),
           NEW end \in Nat, end = Least(offset + want, size)
    PROVE  ReadsRight(read, device, limit, runs, offset, end)
<1>1. PICK N \in Nat : N = Len(runs) /\ Chain(runs, N)
  <2>1. Chain(runs, Len(runs))
    BY ChainIs
  <2>2. Len(runs) \in Nat
    BY <2>1 DEF Chain
  <2>. QED
    BY <2>1, <2>2
<1>2. PICK wanted \in Nat : /\ wanted = IF offset >= size THEN 0 ELSE Least(want, size - offset)
                            /\ offset + wanted = end
  BY DEF Least
<1>3. PICK cut : cut = Spans(runs, offset, wanted)
  OBVIOUS
<1>4. offset + wanted <= FileBytes(runs)
  BY <1>2 DEF Least
<1>5. cut.done = wanted /\ Cuts(runs, N, offset, wanted, cut.spans, wanted)
  BY <1>1, <1>3, <1>4, SpansCut
<1>6. PICK got : got = ReadSpans(device, limit, cut.spans)
  OBVIOUS
<1>7. ReadUpTo(device, limit, runs, offset, wanted, got)
  BY <1>1, <1>5, <1>6, SpansRead
<1>8. read = [got EXCEPT !.data = IF cut.done = wanted THEN @ ELSE <<"chain shorter than file">>]
  BY <1>2, <1>3, <1>6, Zenon DEF ReadAt
<1>9. read = got
  <2>1. got = [data |-> got.data, calls |-> got.calls]
    BY <1>7 DEF ReadUpTo
  <2>2. cut.done = wanted
    BY <1>5
  <2>3. read = [got EXCEPT !.data = got.data]
    BY <1>8, <2>2, Zenon
  <2>. QED
    BY <2>1, <2>3
<1>10. read.data = SubSeq(Contents(device, runs), offset + 1, end)
  <2>1. got.data = FileRange(device, runs, offset, wanted)
    BY <1>7 DEF ReadUpTo
  <2>2. AreContents(device, runs, offset, wanted)
    BY <1>1, <1>4, ContentsSlice
  <2>3. SubSeq(Contents(device, runs), offset + 1, offset + wanted)
           = FileRange(device, runs, offset, wanted)
    BY <2>2 DEF AreContents
  <2>. QED
    BY <1>2, <1>9, <2>1, <2>3
<1>11. Moves(read.calls, limit, BlocksOf(runs))
  BY <1>7, <1>9 DEF ReadUpTo, Moved
<1>12. ASSUME Len(runs) = 1, offset % BLOCK_SIZE = 0, end % BLOCK_SIZE = 0
       PROVE  Len(read.calls) = IF offset >= end THEN 0
                                ELSE CeilDiv((end - offset) \div BLOCK_SIZE, AtLeast1(limit))
  <2>1. Chain(runs, 1)
    BY <1>1, <1>12
  <2>2. wanted % BLOCK_SIZE = 0
    <3>1. PICK B \in Nat \ {0} : B = BLOCK_SIZE
      BY BlockSize
    <3>2. offset = (offset \div B) * B + (offset % B) /\ end = (end \div B) * B + (end % B)
      BY SMT
    <3>3. PICK m \in Int, n \in Int : offset = m * B /\ end = n * B
      <4>1. PICK m \in Int, n \in Int : m = offset \div B /\ n = end \div B
        BY SMT
      <4>2. offset = m * B + 0 /\ end = n * B + 0
        BY <1>12, <3>1, <3>2, <4>1
      <4>3. m * B \in Int /\ n * B \in Int
        OBVIOUS
      <4>4. offset = m * B /\ end = n * B
        BY <4>2, <4>3
      <4>. QED
        BY <4>4
    <3>4. wanted = (n - m) * B
      BY <1>2, <3>3, SMT
    <3>5. ((n - m) * B) % B = 0
      <4>1. PICK d \in Int : d = n - m
        OBVIOUS
      <4>2. (d * B) % B = 0
        BY SMT
      <4>. QED
        BY <4>1, <4>2
    <3>. QED
      BY <3>1, <3>4, <3>5
  <2>3. PICK spans : spans = cut.spans /\ spans = Spans(runs, offset, wanted).spans
    BY <1>3
  <2>4. Len(ReadSpans(device, limit, spans).calls)
           = IF wanted = 0 THEN 0 ELSE CeilDiv(wanted \div BLOCK_SIZE, AtLeast1(limit))
    <3>1. PICK blocks : blocks = wanted \div BLOCK_SIZE
      OBVIOUS
    <3>2. IsBlocks(offset, wanted, blocks)
      BY <1>12, <2>2, <3>1 DEF IsBlocks
    <3>3. Fewest(got.calls, limit, wanted, blocks)
      BY <1>4, <1>6, <2>1, <2>3, <3>2, OneRunCalls
    <3>. QED
      BY <1>6, <2>3, <3>1, <3>3, Zenon DEF Fewest
  <2>5. wanted = end - offset /\ (wanted = 0 <=> offset >= end)
    BY <1>2
  <2>6. read = ReadSpans(device, limit, spans)
    BY <1>6, <1>9, <2>3
  <2>. QED
    BY <2>4, <2>5, <2>6
<1>. QED
  BY <1>10, <1>11, <1>12, Zenon DEF ReadsRight

\* Where the first k runs of a chain end in the file.
RunEnd(runs, k) == IF k = 0 THEN 0 ELSE To(runs[k])

\* The chain of a file, run by run, is the file.
LEMMA ReadChainReads ==
    ASSUME NEW device, NEW limit, NEW runs, IsChain(runs)
    PROVE  ReadChain(device, limit, runs).data = Contents(device, runs)
<1>1. PICK N \in Nat : N = Len(runs) /\ Chain(runs, N)
  <2>1. Chain(runs, Len(runs))
    BY ChainIs
  <2>2. Len(runs) \in Nat
    BY <2>1 DEF Chain
  <2>. QED
    BY <2>1, <2>2
<1>2. PICK f : ChainBy(f, device, limit, runs, ReadChain(device, limit, runs))
  BY <1>1, ChainsAre
<1>3. /\ f[0] = [data |-> <<>>, calls |-> <<>>]
      /\ \A k \in 1 .. N : f[k] = AddRun(device, limit, f[k - 1], runs[k])
      /\ ReadChain(device, limit, runs) = f[N]
  BY <1>1, <1>2, Zenon DEF ChainBy
<1>4. \A k \in 1 .. N : From(runs[k]) = RunEnd(runs, k - 1) /\ To(runs[k]) = RunEnd(runs, k)
  BY <1>1 DEF Chain, RunEnd
<1>5. PICK S : S = {n \in 0 .. N : f[n].data = FileRange(device, runs, 0, RunEnd(runs, n))}
  OBVIOUS
<1>6. 0 \in S
  <2>1. f[0].data = <<>> /\ RunEnd(runs, 0) = 0 /\ FileRange(device, runs, 0, 0) = <<>>
    BY <1>3 DEF RunEnd, FileRange
  <2>. QED
    BY <1>5, <2>1
<1>7. ASSUME NEW n \in 1 .. N, n - 1 \in S PROVE n \in S
  <2>1. f[n - 1].data = FileRange(device, runs, 0, RunEnd(runs, n - 1))
    BY <1>5, <1>7
  <2>2. PICK run : run = runs[n]
    OBVIOUS
  <2>3. PICK b \in Nat, e \in Nat, F \in Int :
           /\ b = From(run) /\ e = To(run) /\ F = Base(run) /\ b < e
           /\ e - b = run.clusters * ClusterBytes
    BY <1>1, <2>2, RunsLie
  <2>4. PICK size \in Nat : size = e - b /\ e = b + size
    <3>1. e - b \in Nat /\ e = b + (e - b)
      BY <2>3
    <3>. QED
      BY <3>1
  <2>5. \A i \in 0 .. size - 1 : Address(runs, 0 + b + i) = F + i
    <3>1. ASSUME NEW i \in 0 .. size - 1 PROVE Address(runs, 0 + b + i) = F + i
      <4>1. PICK p \in Int : p = b + i /\ b <= p /\ p < e /\ p = 0 + b + i /\ p - b = i
        BY <2>4
      <4>2. Address(runs, p) = F + (p - b)
        <5>1. From(runs[n]) <= p /\ p < To(runs[n])
          BY <2>2, <2>3, <4>1
        <5>2. Address(runs, p) = Base(runs[n]) + (p - From(runs[n]))
          BY <1>1, <4>1, <5>1, AddressIn
        <5>. QED
          BY <2>2, <2>3, <5>2
      <4>. QED
        BY <4>1, <4>2
    <3>. QED
      BY <3>1
  <2>6. LiesAt(runs, 0, b, size, e, F)
    BY <2>4, <2>5 DEF LiesAt
  <2>7. FileRange(device, runs, 0, b) \o Bytes(device, F, size) = FileRange(device, runs, 0, e)
    BY <2>6, RangeGrows
  <2>8. f[n].data = f[n - 1].data \o Bytes(device, F, size)
    <3>1. f[n] = AddRun(device, limit, f[n - 1], run)
      BY <1>3, <2>2
    <3>2. size = run.clusters * ClusterBytes /\ F = ClusterBlock(run.start) * BLOCK_SIZE
      BY <2>3, <2>4 DEF Base
    <3>3. PICK next : next = f[n]
      OBVIOUS
    <3>4. next = [data  |-> f[n - 1].data \o Bytes(device, F, size),
                  calls |-> f[n - 1].calls \o Blocks(limit, ClusterBlock(run.start),
                                                     run.clusters * ClusterBlocks)]
      BY <3>1, <3>2, <3>3, Zenon DEF AddRun
    <3>5. next.data = f[n - 1].data \o Bytes(device, F, size)
      BY <3>4, Zenon
    <3>. QED
      BY <3>3, <3>5
  <2>9. b = RunEnd(runs, n - 1) /\ e = RunEnd(runs, n) /\ n \in 0 .. N
    BY <1>4, <2>2, <2>3
  <2>. QED
    BY <1>5, <2>1, <2>7, <2>8, <2>9
<1>8. N \in S
  <2>1. \A n \in 0 .. N : n \in S
    BY <1>6, <1>7, UpTo
  <2>. QED
    BY <2>1
<1>9. FileRange(device, runs, 0, FileBytes(runs)) = Contents(device, runs)
  <2>1. PICK size \in Nat : size = FileBytes(runs)
    <3>1. FileBytes(runs) = IF N = 0 THEN 0 ELSE To(runs[N])
      BY <1>1 DEF Chain
    <3>2. N # 0 => To(runs[N]) \in Nat
      <4>1. N # 0 => N \in 1 .. N
        BY <1>1
      <4>. QED
        BY <1>1, <4>1, RunsLie
    <3>. QED
      BY <3>1, <3>2
  <2>2. PICK s, t : s = Contents(device, runs) /\ t = FileRange(device, runs, 0, size)
    OBVIOUS
  <2>3. IsRow(s, size) /\ \A k \in 1 .. size : s[k] = device[Address(runs, k - 1)]
    BY <2>1, <2>2 DEF Contents, IsRow
  <2>4. IsRow(t, size) /\ \A k \in 1 .. size : t[k] = device[Address(runs, 0 + k - 1)]
    BY <2>2 DEF FileRange, IsRow
  <2>5. \A k \in 1 .. size : 0 + k - 1 = k - 1
    OBVIOUS
  <2>6. \A k \in 1 .. size : s[k] = t[k]
    BY <2>3, <2>4, <2>5
  <2>. QED
    BY <2>1, <2>2, <2>3, <2>4, <2>6, RowsAgree
<1>10. RunEnd(runs, N) = FileBytes(runs)
  BY <1>1, Zenon DEF Chain, RunEnd
<1>. QED
  BY <1>3, <1>5, <1>8, <1>9, <1>10

-----------------------------------------------------------------------------
(***************************************************************************)
(* write_chain and zero_range: the bytes up to there are the new ones, and *)
(* no other byte of the device has changed.                                *)
(***************************************************************************)

\* A device that has every byte of a file, which is no longer than a length.
HasFile(device, runs, N, hi) ==
    /\ Chain(runs, N) /\ DOMAIN device \subseteq Int /\ hi \in Nat /\ hi <= FileBytes(runs)
    /\ \A p \in 0 .. hi - 1 : Address(runs, p) \in DOMAIN device

\* A device that is another but for a file's bytes from `lo` to before `hi`.
Written(new, old, runs, bytes, lo, hi) ==
    /\ lo \in Nat /\ hi \in Nat /\ lo <= hi /\ DOMAIN new = DOMAIN old
    /\ \A p \in lo .. hi - 1 : new[Address(runs, p)] = bytes[p]
    /\ \A a \in DOMAIN old : (\A p \in lo .. hi - 1 : Address(runs, p) # a) => new[a] = old[a]

\* A file has a length.
LEMMA FileSize == ASSUME NEW runs, NEW N, Chain(runs, N) PROVE FileBytes(runs) \in Nat
<1>1. N \in Nat /\ (FileBytes(runs) = IF N = 0 THEN 0 ELSE To(runs[N]))
  BY DEF Chain
<1>2. N # 0 => To(runs[N]) \in Nat
  <2>1. N # 0 => N \in 1 .. N
    BY <1>1
  <2>. QED
    BY <2>1, RunsLie
<1>. QED
  BY <1>1, <1>2

\* Nothing written is no change.
LEMMA WrittenNone ==
    ASSUME NEW device, NEW runs, NEW bytes, NEW lo \in Nat
    PROVE  Written(device, device, runs, bytes, lo, lo)
  BY DEF Written

\* Only the bytes of the range matter.
LEMMA WrittenAlike ==
    ASSUME NEW new, NEW old, NEW runs, NEW bytes, NEW others, NEW lo, NEW hi,
           Written(new, old, runs, bytes, lo, hi), \A p \in lo .. hi - 1 : bytes[p] = others[p]
    PROVE  Written(new, old, runs, others, lo, hi)
  BY Zenon DEF Written

\* One range after another.
LEMMA WrittenTwice ==
    ASSUME NEW d0, NEW d1, NEW d2, NEW runs, NEW N, NEW bytes, NEW lo, NEW mid, NEW hi,
           HasFile(d0, runs, N, hi),
           Written(d1, d0, runs, bytes, lo, mid), Written(d2, d1, runs, bytes, mid, hi)
    PROVE  Written(d2, d0, runs, bytes, lo, hi)
<1>1. /\ Chain(runs, N) /\ hi <= FileBytes(runs)
      /\ \A p \in 0 .. hi - 1 : Address(runs, p) \in DOMAIN d0
  BY DEF HasFile
<1>2. /\ lo \in Nat /\ mid \in Nat /\ hi \in Nat /\ lo <= mid /\ mid <= hi
      /\ DOMAIN d1 = DOMAIN d0 /\ DOMAIN d2 = DOMAIN d0
  BY DEF Written
<1>3. /\ \A p \in lo .. mid - 1 : d1[Address(runs, p)] = bytes[p]
      /\ \A a \in DOMAIN d0 : (\A p \in lo .. mid - 1 : Address(runs, p) # a) => d1[a] = d0[a]
  BY DEF Written
<1>4. /\ \A p \in mid .. hi - 1 : d2[Address(runs, p)] = bytes[p]
      /\ \A a \in DOMAIN d0 : (\A p \in mid .. hi - 1 : Address(runs, p) # a) => d2[a] = d1[a]
  BY <1>2 DEF Written
<1>5. ASSUME NEW p \in lo .. hi - 1 PROVE d2[Address(runs, p)] = bytes[p]
  <2>1. CASE p >= mid
    <3>1. p \in mid .. hi - 1
      BY <1>2, <2>1
    <3>. QED
      BY <1>4, <3>1
  <2>2. CASE p < mid
    <3>1. p \in lo .. mid - 1 /\ p \in 0 .. hi - 1 /\ p \in Nat
      BY <1>2, <2>2
    <3>2. PICK size \in Int : size = FileBytes(runs) /\ hi <= size
      BY <1>1, <1>2, FileSize
    <3>3. ASSUME NEW q \in mid .. hi - 1, Address(runs, q) = Address(runs, p) PROVE FALSE
      <4>1. q \in Nat /\ q < FileBytes(runs) /\ p < FileBytes(runs) /\ p # q
        BY <1>2, <2>2, <3>1, <3>2
      <4>. QED
        BY <1>1, <3>1, <3>3, <4>1, AddressApart
    <3>4. d2[Address(runs, p)] = d1[Address(runs, p)]
      BY <1>1, <1>4, <3>1, <3>3
    <3>. QED
      BY <1>3, <3>1, <3>4
  <2>. QED
    BY <1>2, <2>1, <2>2
<1>6. ASSUME NEW a \in DOMAIN d0, \A p \in lo .. hi - 1 : Address(runs, p) # a
      PROVE  d2[a] = d0[a]
  <2>1. lo .. mid - 1 \subseteq lo .. hi - 1 /\ mid .. hi - 1 \subseteq lo .. hi - 1
    BY <1>2
  <2>. QED
    BY <1>3, <1>4, <1>6, <2>1
<1>7. lo <= hi
  BY <1>2
<1>. QED
  BY <1>2, <1>5, <1>6, <1>7 DEF Written

\* Where n of a file's bytes are to be put, and what they are.
PutAt(runs, bytes, lo, n, F, data) ==
    \A i \in 0 .. n - 1 : Address(runs, lo + i) = F + i /\ data[i + 1] = bytes[lo + i]

\* A slice put where the file has its range writes the range.
LEMMA PlacedWrites ==
    ASSUME NEW new, NEW old, NEW runs, NEW N, NEW bytes, NEW lo \in Nat, NEW n \in Nat,
           NEW hi, hi = lo + n, NEW F \in Int, NEW data,
           HasFile(old, runs, N, hi), Placed(new, old, F, n, data, 0),
           PutAt(runs, bytes, lo, n, F, data)
    PROVE  Written(new, old, runs, bytes, lo, hi)
<1>. \A i \in 0 .. n - 1 : Address(runs, lo + i) = F + i /\ data[i + 1] = bytes[lo + i]
  BY DEF PutAt
<1>1. /\ DOMAIN new = DOMAIN old
      /\ \A a \in DOMAIN old :
            new[a] = IF F <= a /\ a < F + n THEN data[0 + (a - F + 1)] ELSE old[a]
  BY DEF Placed
<1>2. DOMAIN old \subseteq Int /\ \A p \in 0 .. hi - 1 : Address(runs, p) \in DOMAIN old
  BY DEF HasFile
<1>3. ASSUME NEW p \in lo .. hi - 1 PROVE new[Address(runs, p)] = bytes[p]
  <2>1. PICK i \in 0 .. n - 1 : p = lo + i
    <3>1. p - lo \in 0 .. n - 1 /\ p = lo + (p - lo)
      OBVIOUS
    <3>. QED
      BY <3>1
  <2>2. PICK a \in Int : a = Address(runs, p) /\ a = F + i /\ a \in DOMAIN old
    <3>1. p \in 0 .. hi - 1 /\ Address(runs, lo + i) = F + i
      OBVIOUS
    <3>. QED
      BY <1>2, <2>1, <3>1
  <2>3. new[a] = data[0 + (a - F + 1)]
    <3>1. F <= a /\ a < F + n
      BY <2>2
    <3>. QED
      BY <1>1, <2>2, <3>1
  <2>4. 0 + (a - F + 1) = i + 1
    BY <2>2
  <2>5. data[i + 1] = bytes[lo + i]
    OBVIOUS
  <2>. QED
    BY <2>1, <2>2, <2>3, <2>4, <2>5
<1>4. ASSUME NEW a \in DOMAIN old, \A p \in lo .. hi - 1 : Address(runs, p) # a
      PROVE  new[a] = old[a]
  <2>1. a \in Int
    BY <1>2
  <2>2. ASSUME F <= a, a < F + n PROVE FALSE
    <3>1. PICK i \in 0 .. n - 1 : a = F + i
      <4>1. a - F \in 0 .. n - 1 /\ a = F + (a - F)
        BY <2>1, <2>2
      <4>. QED
        BY <4>1
    <3>2. Address(runs, lo + i) = a /\ lo + i \in lo .. hi - 1
      BY <3>1
    <3>. QED
      BY <1>4, <3>2
  <2>. QED
    BY <1>1, <2>2
<1>. QED
  BY <1>1, <1>3, <1>4 DEF Written

\* What the places of a range are given.
Given(bytes, offset, length, data) ==
    \A i \in 0 .. length - 1 : data[i + 1] = bytes[offset + i]

\* What has been written of a range once its first n bytes are cut.
WrittenUpTo(device, limit, runs, bytes, offset, n, sofar) ==
    /\ sofar = [device |-> sofar.device, calls |-> sofar.calls]
    /\ Written(sofar.device, device, runs, bytes, offset, offset + n)
    /\ Moved(sofar.calls, limit, BlocksOf(runs))

\* A device of the same addresses has the file too, and any less of it.
LEMMA HasLess ==
    ASSUME NEW device, NEW runs, NEW N, NEW hi, HasFile(device, runs, N, hi),
           NEW n \in Nat, n <= hi, NEW other, DOMAIN other = DOMAIN device
    PROVE  HasFile(other, runs, N, n)
<1>1. /\ Chain(runs, N) /\ DOMAIN device \subseteq Int /\ hi \in Nat /\ hi <= FileBytes(runs)
      /\ \A p \in 0 .. hi - 1 : Address(runs, p) \in DOMAIN device
  BY DEF HasFile
<1>2. PICK size \in Int : size = FileBytes(runs)
  BY <1>1, FileSize
<1>3. n <= FileBytes(runs) /\ \A p \in 0 .. n - 1 : p \in 0 .. hi - 1
  BY <1>1, <1>2
<1>. QED
  BY <1>1, <1>3 DEF HasFile

\* What one span adds to a write.
LEMMA AddWriteWrites ==
    ASSUME NEW device, NEW limit \in Nat, NEW runs, NEW N, NEW bytes,
           NEW offset \in Nat, NEW length \in Nat, NEW size, size = offset + length,
           HasFile(device, runs, N, size),
           NEW data, IsRow(data, length), Given(bytes, offset, length, data),
           NEW span, IsSpan(runs, N, offset, length, span),
           NEW sofar, WrittenUpTo(device, limit, runs, bytes, offset, span.done, sofar)
    PROVE  WrittenUpTo(device, limit, runs, bytes, offset, span.done + span.take,
                       AddWrite(limit, data, sofar, span))
<1>1. PICK k \in 1 .. N :
         /\ InBlocks(span.first, span.skip, span.take, BlockAfter(runs[k]))
         /\ ClusterBlock(runs[k].start) <= span.first
         /\ \A i \in 0 .. span.take - 1 :
               Address(runs, offset + span.done + i) = span.first * BLOCK_SIZE + span.skip + i
  BY DEF IsSpan
<1>2. PICK first \in Int, skip \in Nat, take \in Nat \ {0}, hi \in Int, done \in Nat :
         /\ first = span.first /\ skip = span.skip /\ take = span.take /\ done = span.done
         /\ hi = BlockAfter(runs[k]) /\ done + take <= length
  BY <1>1 DEF InBlocks, IsSpan
<1>3. Chain(runs, N) /\ DOMAIN device \subseteq Int
  BY DEF HasFile
<1>4. PICK old : old = sofar.device
  OBVIOUS
<1>5. Written(old, device, runs, bytes, offset, offset + done) /\ DOMAIN old = DOMAIN device
  BY <1>2, <1>4 DEF WrittenUpTo, Written
<1>6. PICK part : part = SubSeq(data, done + 1, done + take)
  OBVIOUS
<1>7. IsRow(part, take) /\ Len(part) = take /\ \A i \in 1 .. take : part[i] = data[done + i]
  <2>1. /\ IsRow(SubSeq(data, done + 1, done + take), take)
        /\ Len(SubSeq(data, done + 1, done + take)) = take
        /\ \A i \in 1 .. take : SubSeq(data, done + 1, done + take)[i] = data[done + i]
    BY <1>2, Slice
  <2>. QED
    BY <1>6, <2>1
<1>8. PICK wrote : wrote = WriteSpan(old, limit, first, skip, part)
  OBVIOUS
<1>9. PICK F \in Int : F = first * BLOCK_SIZE + skip
  <2>1. first * BLOCK_SIZE \in Int
    BY BlockSize
  <2>. QED
    BY <2>1
<1>10. Placed(wrote.device, old, F, take, part, 0) /\ Keeps(wrote.calls, limit, first, hi)
  <2>1. InBlocks(first, skip, take, hi)
    BY <1>1, <1>2
  <2>2. DOMAIN old \subseteq Int
    BY <1>3, <1>5
  <2>3. /\ Placed(wrote.device, old, first * BLOCK_SIZE + skip, take, part, 0)
        /\ Keeps(wrote.calls, limit, first, hi)
    BY <1>7, <1>8, <2>1, <2>2, WriteSpanIs
  <2>. QED
    BY <1>9, <2>3
<1>11. Written(wrote.device, old, runs, bytes, offset + done, offset + (done + take))
  <2>1. PICK lo \in Nat, end \in Nat : lo = offset + done /\ end = lo + take /\ end = offset + (done + take)
    <3>1. offset + done \in Nat /\ offset + done + take \in Nat
      OBVIOUS
    <3>. QED
      BY <3>1
  <2>2. end <= size /\ size \in Nat
    BY <1>2, <2>1
  <2>3. HasFile(old, runs, N, end)
    BY <1>5, <2>2, HasLess
  <2>4. \A i \in 0 .. take - 1 : Address(runs, lo + i) = F + i
    BY <1>1, <1>2, <1>9, <2>1
  <2>5. \A i \in 0 .. take - 1 : part[i + 1] = bytes[lo + i]
    <3>1. ASSUME NEW i \in 0 .. take - 1 PROVE part[i + 1] = bytes[lo + i]
      <4>1. part[i + 1] = data[done + (i + 1)]
        <5>1. i + 1 \in 1 .. take
          OBVIOUS
        <5>. QED
          BY <1>7, <5>1
      <4>2. PICK j \in 0 .. length - 1 : j = done + i /\ j + 1 = done + (i + 1) /\ offset + j = lo + i
        <5>1. done + i \in 0 .. length - 1 /\ offset + (done + i) = lo + i /\ (done + i) + 1 = done + (i + 1)
          BY <1>2, <2>1
        <5>. QED
          BY <5>1
      <4>3. data[j + 1] = bytes[offset + j]
        BY DEF Given
      <4>. QED
        BY <4>1, <4>2, <4>3
    <3>. QED
      BY <3>1
  <2>6. Written(wrote.device, old, runs, bytes, lo, end)
    <3>1. PutAt(runs, bytes, lo, take, F, part)
      BY <2>4, <2>5 DEF PutAt
    <3>. QED
      BY <1>10, <2>1, <2>3, <3>1, PlacedWrites
  <2>. QED
    BY <2>1, <2>6
<1>12. Written(wrote.device, device, runs, bytes, offset, offset + (done + take))
  <2>1. PICK mid \in Nat, end \in Nat : mid = offset + done /\ end = offset + (done + take) /\ end <= size /\ size \in Nat
    <3>1. offset + done \in Nat /\ offset + (done + take) \in Nat /\ offset + (done + take) <= size
      BY <1>2
    <3>. QED
      BY <3>1
  <2>2. HasFile(device, runs, N, end)
    BY <2>1, HasLess
  <2>3. Written(old, device, runs, bytes, offset, mid) /\ Written(wrote.device, old, runs, bytes, mid, end)
    BY <1>5, <1>11, <2>1
  <2>4. Written(wrote.device, device, runs, bytes, offset, end)
    BY <2>2, <2>3, WrittenTwice
  <2>. QED
    BY <2>1, <2>4
<1>13. Moved(wrote.calls, limit, BlocksOf(runs))
  BY <1>1, <1>2, <1>3, <1>10, KeepsMoved
<1>14. PICK next : next = AddWrite(limit, data, sofar, span)
  OBVIOUS
<1>15. next = [device |-> wrote.device, calls |-> sofar.calls \o wrote.calls]
  BY <1>2, <1>4, <1>6, <1>8, <1>14, Zenon DEF AddWrite
<1>16. Moved(next.calls, limit, BlocksOf(runs))
  <2>1. next.calls = sofar.calls \o wrote.calls
    BY <1>15, Zenon
  <2>2. Moved(sofar.calls, limit, BlocksOf(runs))
    BY DEF WrittenUpTo
  <2>. QED
    BY <1>13, <2>1, <2>2, MovedBoth, Zenon
<1>17. next = [device |-> next.device, calls |-> next.calls] /\ next.device = wrote.device
  BY <1>15, Zenon
<1>. QED
  BY <1>2, <1>12, <1>14, <1>16, <1>17, Zenon DEF WrittenUpTo

\* The spans of a range are written with the range's bytes.
LEMMA WriteChainWrites ==
    ASSUME NEW device, NEW limit \in Nat, NEW runs, NEW N, NEW bytes,
           NEW offset \in Nat, NEW length \in Nat, NEW size, size = offset + length,
           HasFile(device, runs, N, size),
           NEW data, IsRow(data, length), Given(bytes, offset, length, data),
           NEW wrote, wrote = WriteChain(device, limit, runs, offset, data)
    PROVE  WrittenUpTo(device, limit, runs, bytes, offset, length, wrote)
<1>1. Chain(runs, N) /\ offset + length <= FileBytes(runs)
  BY DEF HasFile
<1>2. Len(data) = length
  BY DEF IsRow
<1>3. PICK spans : spans = Spans(runs, offset, length).spans
  OBVIOUS
<1>4. Cuts(runs, N, offset, length, spans, length)
  BY <1>1, <1>3, SpansCut
<1>5. /\ Len(spans) \in Nat /\ CutBy(spans, 0) = 0 /\ length = CutBy(spans, Len(spans))
      /\ \A k \in 1 .. Len(spans) :
            /\ IsSpan(runs, N, offset, length, spans[k])
            /\ spans[k].done = CutBy(spans, k - 1)
            /\ spans[k].done + spans[k].take = CutBy(spans, k)
  BY <1>4, CutByIs
<1>6. PICK f : WritesBy(f, device, limit, data, spans, wrote)
  BY <1>2, <1>3, <1>5, WritesAre
<1>7. PICK M \in Nat : M = Len(spans)
  BY <1>5
<1>8. /\ f[0] = [device |-> device, calls |-> <<>>]
      /\ \A k \in 1 .. M : f[k] = AddWrite(limit, data, f[k - 1], spans[k])
      /\ wrote = f[M]
  BY <1>6, <1>7, Zenon DEF WritesBy
<1>9. PICK S : S = {n \in 0 .. M : WrittenUpTo(device, limit, runs, bytes, offset, CutBy(spans, n), f[n])}
  OBVIOUS
<1>10. 0 \in S
  <2>1. Written(device, device, runs, bytes, offset, offset + 0)
    <3>1. Written(device, device, runs, bytes, offset, offset)
      BY WrittenNone
    <3>2. offset + 0 = offset
      OBVIOUS
    <3>. QED
      BY <3>1, <3>2
  <2>2. Moved(<<>>, limit, BlocksOf(runs))
    BY MovedNone
  <2>3. f[0].device = device /\ f[0].calls = <<>> /\ f[0] = [device |-> f[0].device, calls |-> f[0].calls]
    BY <1>8
  <2>4. WrittenUpTo(device, limit, runs, bytes, offset, 0, f[0])
    BY <2>1, <2>2, <2>3, Zenon DEF WrittenUpTo
  <2>. QED
    BY <1>5, <1>9, <2>4
<1>11. ASSUME NEW n \in 1 .. M, n - 1 \in S PROVE n \in S
  <2>1. WrittenUpTo(device, limit, runs, bytes, offset, CutBy(spans, n - 1), f[n - 1])
    BY <1>9, <1>11
  <2>2. PICK span : span = spans[n]
    OBVIOUS
  <2>3. /\ IsSpan(runs, N, offset, length, span)
        /\ span.done = CutBy(spans, n - 1)
        /\ span.done + span.take = CutBy(spans, n)
    BY <1>5, <1>7, <2>2
  <2>4. WrittenUpTo(device, limit, runs, bytes, offset, CutBy(spans, n), AddWrite(limit, data, f[n - 1], span))
    BY <2>1, <2>3, AddWriteWrites
  <2>5. f[n] = AddWrite(limit, data, f[n - 1], span) /\ n \in 0 .. M
    BY <1>8, <2>2
  <2>. QED
    BY <1>9, <2>4, <2>5
<1>12. M \in S
  <2>1. \A n \in 0 .. M : n \in S
    BY <1>10, <1>11, UpTo
  <2>. QED
    BY <2>1
<1>. QED
  BY <1>5, <1>7, <1>8, <1>9, <1>12

\* What one pass adds to zeroing.
LEMMA AddZerosWrites ==
    ASSUME NEW device, NEW limit \in Nat, NEW runs, NEW N, NEW bytes,
           NEW from \in Nat, NEW at \in Nat, NEW n \in Nat, NEW size \in Nat,
           from + at + n <= size, HasFile(device, runs, N, size),
           \A p \in from .. size - 1 : bytes[p] = 0,
           NEW chunk, chunk = [at |-> at, length |-> n],
           NEW sofar, WrittenUpTo(device, limit, runs, bytes, from, at, sofar)
    PROVE  WrittenUpTo(device, limit, runs, bytes, from, at + n,
                       AddZeros(limit, runs, from, sofar, chunk))
<1>1. PICK data : data = [k \in 1 .. n |-> 0]
  OBVIOUS
<1>2. PICK lo \in Nat, end \in Nat : lo = from + at /\ end = lo + n /\ end <= size /\ end = from + (at + n)
  <2>1. from + at \in Nat /\ from + at + n \in Nat /\ from + at + n = from + (at + n)
    OBVIOUS
  <2>. QED
    BY <2>1
<1>3. PICK old : old = sofar.device
  OBVIOUS
<1>4. Written(old, device, runs, bytes, from, lo) /\ DOMAIN old = DOMAIN device
  BY <1>2, <1>3 DEF WrittenUpTo, Written
<1>5. HasFile(old, runs, N, end) /\ HasFile(device, runs, N, end)
  BY <1>2, <1>4, HasLess
<1>6. PICK wrote : wrote = WriteChain(old, limit, runs, lo, data)
  OBVIOUS
<1>7. IsRow(data, n) /\ Given(bytes, lo, n, data)
  <2>1. ASSUME NEW i \in 0 .. n - 1 PROVE data[i + 1] = bytes[lo + i]
    <3>1. i + 1 \in 1 .. n /\ lo + i \in from .. size - 1
      BY <1>2
    <3>. QED
      BY <1>1, <3>1
  <2>. QED
    BY <1>1, <2>1 DEF IsRow, Given
<1>8. WrittenUpTo(old, limit, runs, bytes, lo, n, wrote)
  BY <1>2, <1>5, <1>6, <1>7, WriteChainWrites
<1>9. Written(wrote.device, old, runs, bytes, lo, end) /\ Moved(wrote.calls, limit, BlocksOf(runs))
  BY <1>2, <1>8, Zenon DEF WrittenUpTo
<1>10. Written(wrote.device, device, runs, bytes, from, end)
  BY <1>4, <1>5, <1>9, WrittenTwice
<1>11. PICK next : next = AddZeros(limit, runs, from, sofar, chunk)
  OBVIOUS
<1>12. next = [device |-> wrote.device, calls |-> sofar.calls \o wrote.calls]
  <2>1. chunk.at = at /\ chunk.length = n
    OBVIOUS
  <2>. QED
    BY <1>1, <1>2, <1>3, <1>6, <1>11, <2>1, Zenon DEF AddZeros
<1>13. next.device = wrote.device /\ next.calls = sofar.calls \o wrote.calls
       /\ next = [device |-> next.device, calls |-> next.calls]
  BY <1>12, Zenon
<1>14. Moved(next.calls, limit, BlocksOf(runs))
  <2>1. Moved(sofar.calls, limit, BlocksOf(runs))
    BY DEF WrittenUpTo
  <2>. QED
    BY <1>9, <1>13, <2>1, MovedBoth, Zenon
<1>. QED
  BY <1>2, <1>10, <1>11, <1>13, <1>14, Zenon DEF WrittenUpTo

\* What the first k passes leave behind.
PassedBy(chunks, k) == IF k = 0 THEN 0 ELSE chunks[k].at + chunks[k].length

\* Passes of at most a size that fill a total, one after the other.
IsPasses(chunks, size, total) ==
    /\ Len(chunks) \in Nat /\ PassedBy(chunks, 0) = 0
    /\ PassedBy(chunks, Len(chunks)) = total
    /\ \A k \in 1 .. Len(chunks) :
          /\ chunks[k] = [at |-> chunks[k].at, length |-> chunks[k].length]
          /\ chunks[k].at \in Nat /\ chunks[k].length \in 1 .. size
          /\ chunks[k].at + chunks[k].length <= total
          /\ chunks[k].at = PassedBy(chunks, k - 1)
          /\ chunks[k].at + chunks[k].length = PassedBy(chunks, k)

\* Chunks are such passes.
LEMMA ChunksPass ==
    ASSUME NEW n \in Nat, NEW size \in Nat \ {0}, NEW chunks, chunks = Chunks(n, size)
    PROVE  IsPasses(chunks, size, n)
<1>1. PICK q \in Nat : q = CeilDiv(n, size) /\ (q = 0 <=> n = 0)
  BY Ceiling
<1>2. DOMAIN chunks = 1 .. q
      /\ \A k \in 1 .. q : chunks[k] = [at |-> (k - 1) * size, length |-> Least(size, n - (k - 1) * size)]
  BY <1>1 DEF Chunks
<1>3. Len(chunks) = q
  <2>1. chunks = [k \in 1 .. q |-> chunks[k]]
    BY <1>1 DEF Chunks
  <2>. QED
    BY <2>1
<1>4. \A k \in 1 .. q :
         /\ chunks[k].at \in Nat /\ chunks[k].length \in 1 .. size
         /\ chunks[k].at = (k - 1) * size
         /\ chunks[k].at + chunks[k].length = IF k = q THEN n ELSE k * size
         /\ chunks[k].at + chunks[k].length <= n
  <2>1. /\ CeilDiv(n, size) \in Nat
        /\ \A k \in 1 .. CeilDiv(n, size) :
              LET chunk == Chunks(n, size)[k]
              IN  /\ chunk.at \in Nat /\ chunk.length \in 1 .. size
                  /\ chunk.at = (k - 1) * size
                  /\ chunk.at + chunk.length = IF k = CeilDiv(n, size) THEN n ELSE k * size
                  /\ chunk.at + chunk.length <= n
    BY ChunksFill
  <2>. QED
    BY <1>1, <2>1, Zenon
<1>5. ASSUME NEW k \in 1 .. q PROVE chunks[k].at = PassedBy(chunks, k - 1)
  <2>1. CASE k = 1
    <3>1. (k - 1) * size = 0
      BY <2>1
    <3>. QED
      BY <1>4, <2>1, <3>1 DEF PassedBy
  <2>2. CASE k # 1
    <3>1. PICK j \in 1 .. q : j = k - 1 /\ j # q /\ j # 0
      BY <2>2
    <3>2. chunks[j].at + chunks[j].length = j * size
      BY <1>4, <3>1
    <3>. QED
      BY <1>4, <3>1, <3>2 DEF PassedBy
  <2>. QED
    BY <2>1, <2>2
<1>6. PassedBy(chunks, q) = n /\ PassedBy(chunks, 0) = 0
  <2>1. q # 0 => q \in 1 .. q
    BY <1>1
  <2>. QED
    BY <1>1, <1>4, <2>1 DEF PassedBy
<1>7. \A k \in 1 .. q : chunks[k].at + chunks[k].length = PassedBy(chunks, k)
  BY DEF PassedBy
<1>8. \A k \in 1 .. q : chunks[k] = [at |-> chunks[k].at, length |-> chunks[k].length]
  <2>1. ASSUME NEW k \in 1 .. q
        PROVE  chunks[k] = [at |-> chunks[k].at, length |-> chunks[k].length]
    <3>1. PICK at, l, chunk : chunk = chunks[k] /\ chunk = [at |-> at, length |-> l]
      BY <1>2
    <3>. QED
      BY <3>1
  <2>. QED
    BY <2>1
<1>9. \A k \in 1 .. q : chunks[k].at \in Nat /\ chunks[k].length \in 1 .. size
  BY <1>4
<1>. QED
  BY <1>3, <1>4, <1>5, <1>6, <1>7, <1>8, <1>9 DEF IsPasses

\* And so are those of zero_range.
LEMMA PassesFill ==
    ASSUME NEW from \in Nat, NEW to \in Nat, from <= to,
           NEW length, length = to - from, NEW chunks, chunks = ZeroPasses(from, to)
    PROVE  IsPasses(chunks, ZERO_CHUNK, length)
<1>1. CASE from = to
  <2>1. from >= to
    BY <1>1
  <2>2. chunks = <<>>
    BY <2>1, Zenon DEF ZeroPasses
  <2>3. Len(chunks) = 0
    BY <2>2
  <2>. QED
    BY <1>1, <2>3 DEF PassedBy, IsPasses
<1>2. CASE from # to
  <2>1. length \in Nat /\ ZERO_CHUNK \in Nat \ {0} /\ ~(from >= to)
    BY <1>2, TransferAssumption
  <2>2. chunks = Chunks(length, ZERO_CHUNK)
    BY <2>1, Zenon DEF ZeroPasses
  <2>. QED
    BY <2>1, <2>2, ChunksPass
<1>. QED
  BY <1>1, <1>2

\* The zeroing of a range, a buffer at a time, zeroes it.
LEMMA ZeroRangeWrites ==
    ASSUME NEW device, NEW limit \in Nat, NEW runs, NEW N, NEW bytes,
           NEW from \in Nat, NEW to \in Nat, from <= to, NEW length, length = to - from,
           HasFile(device, runs, N, to), \A p \in from .. to - 1 : bytes[p] = 0,
           NEW wrote, wrote = ZeroRange(device, limit, runs, from, to)
    PROVE  WrittenUpTo(device, limit, runs, bytes, from, length, wrote)
<1>1. PICK chunks : chunks = ZeroPasses(from, to)
  OBVIOUS
<1>2. /\ Len(chunks) \in Nat /\ PassedBy(chunks, 0) = 0
      /\ PassedBy(chunks, Len(chunks)) = length
      /\ \A k \in 1 .. Len(chunks) :
            /\ chunks[k] = [at |-> chunks[k].at, length |-> chunks[k].length]
            /\ chunks[k].at \in Nat /\ chunks[k].length \in 1 .. ZERO_CHUNK
            /\ chunks[k].at + chunks[k].length <= length
            /\ chunks[k].at = PassedBy(chunks, k - 1)
            /\ chunks[k].at + chunks[k].length = PassedBy(chunks, k)
  <2>1. IsPasses(chunks, ZERO_CHUNK, length)
    BY <1>1, PassesFill
  <2>. QED
    BY <2>1, Zenon DEF IsPasses
<1>3. PICK f : ZerosBy(f, device, limit, runs, from, chunks, wrote)
  BY <1>1, <1>2, ZerosAre
<1>4. PICK M \in Nat : M = Len(chunks)
  BY <1>2
<1>5. /\ f[0] = [device |-> device, calls |-> <<>>]
      /\ \A k \in 1 .. M : f[k] = AddZeros(limit, runs, from, f[k - 1], chunks[k])
      /\ wrote = f[M]
  BY <1>3, <1>4, Zenon DEF ZerosBy
<1>6. PICK S : S = {n \in 0 .. M : WrittenUpTo(device, limit, runs, bytes, from, PassedBy(chunks, n), f[n])}
  OBVIOUS
<1>7. 0 \in S
  <2>1. Written(device, device, runs, bytes, from, from + 0)
    <3>1. Written(device, device, runs, bytes, from, from)
      BY WrittenNone
    <3>2. from + 0 = from
      OBVIOUS
    <3>. QED
      BY <3>1, <3>2
  <2>2. Moved(<<>>, limit, BlocksOf(runs))
    BY MovedNone
  <2>3. f[0].device = device /\ f[0].calls = <<>> /\ f[0] = [device |-> f[0].device, calls |-> f[0].calls]
    BY <1>5
  <2>4. WrittenUpTo(device, limit, runs, bytes, from, 0, f[0])
    BY <2>1, <2>2, <2>3, Zenon DEF WrittenUpTo
  <2>. QED
    BY <1>2, <1>6, <2>4
<1>8. ASSUME NEW n \in 1 .. M, n - 1 \in S PROVE n \in S
  <2>1. WrittenUpTo(device, limit, runs, bytes, from, PassedBy(chunks, n - 1), f[n - 1])
    BY <1>6, <1>8
  <2>2. PICK chunk : chunk = chunks[n]
    OBVIOUS
  <2>3. PICK at \in Nat, l \in 1 .. ZERO_CHUNK : /\ chunk = [at |-> at, length |-> l] /\ at + l <= length
                                     /\ at = PassedBy(chunks, n - 1) /\ at + l = PassedBy(chunks, n)
    BY <1>2, <1>4, <2>2
  <2>4. from + at + l <= to
    BY <2>3
  <2>5. WrittenUpTo(device, limit, runs, bytes, from, at + l, AddZeros(limit, runs, from, f[n - 1], chunk))
    BY <2>1, <2>3, <2>4, AddZerosWrites
  <2>6. f[n] = AddZeros(limit, runs, from, f[n - 1], chunk) /\ n \in 0 .. M
    BY <1>5, <2>2
  <2>. QED
    BY <1>6, <2>3, <2>5, <2>6
<1>9. M \in S
  <2>1. \A n \in 0 .. M : n \in S
    BY <1>7, <1>8, UpTo
  <2>. QED
    BY <2>1
<1>. QED
  BY <1>2, <1>4, <1>5, <1>6, <1>9

\* The device has every byte of a file.
LEMMA DeviceHasFile ==
    ASSUME NEW runs, NEW N, Chain(runs, N), NEW hi \in Nat, hi <= FileBytes(runs)
    PROVE  HasFile(Device, runs, N, hi)
<1>1. PICK top \in Int, end \in Int : top = ClusterBlock(ClusterCount + 2) /\ end = top * BLOCK_SIZE
  <2>1. ClusterCount + 2 \in Int
    BY ClusterSize
  <2>2. PICK top \in Int : top = ClusterBlock(ClusterCount + 2)
    BY <2>1, BlocksGrow
  <2>3. top * BLOCK_SIZE \in Int
    BY BlockSize
  <2>. QED
    BY <2>2, <2>3
<1>2. DOMAIN Device = 0 .. end - 1
  BY <1>1 DEF Device
<1>3. ASSUME NEW p \in 0 .. hi - 1 PROVE Address(runs, p) \in DOMAIN Device
  <2>1. p \in Nat /\ p < FileBytes(runs)
    BY FileSize
  <2>2. PICK k \in 1 .. N : From(runs[k]) <= p /\ p < To(runs[k])
    BY <2>1, PlaceHasRun
  <2>3. /\ Address(runs, p) \in Int /\ Base(runs[k]) <= Address(runs, p)
        /\ Address(runs, p) < BlockAfter(runs[k]) * BLOCK_SIZE
    BY <2>1, <2>2, AddressIn
  <2>4. PICK run : run = runs[k] /\ run \in Runs /\ 2 <= run.start /\ run.start + run.clusters <= ClusterCount + 2
    BY DEF Chain
  <2>5. run.start \in Int /\ run.start + run.clusters \in Int /\ 2 \in Int /\ ClusterCount + 2 \in Int
    BY <2>4, ClusterSize DEF Runs
  <2>6. PICK lo \in Int, after \in Int, first \in Int :
           /\ lo = ClusterBlock(run.start) /\ after = BlockAfter(run) /\ first = ClusterBlock(2)
           /\ first <= lo /\ after <= top
    <3>1. ClusterBlock(2) <= ClusterBlock(run.start) /\ ClusterBlock(2) \in Int /\ ClusterBlock(run.start) \in Int
      BY <2>4, <2>5, BlocksGrow
    <3>2. /\ ClusterBlock(run.start + run.clusters) <= ClusterBlock(ClusterCount + 2)
          /\ ClusterBlock(run.start + run.clusters) \in Int
      BY <2>4, <2>5, BlocksGrow
    <3>. QED
      BY <1>1, <3>1, <3>2 DEF BlockAfter
  <2>7. first \in Nat
    <3>1. PICK D \in Nat, K \in Nat : D = DataStart /\ K = ClusterBlocks /\ (2 - 2) * K = 0
      BY ClusterSize
    <3>. QED
      BY <2>6, <3>1 DEF ClusterBlock
  <2>8. 0 <= lo * BLOCK_SIZE /\ after * BLOCK_SIZE <= end /\ lo * BLOCK_SIZE \in Int /\ after * BLOCK_SIZE \in Int
    <3>1. PICK B \in Nat : B = BLOCK_SIZE
      BY BlockSize
    <3>2. lo \in Nat
      BY <2>6, <2>7
    <3>3. lo * B \in Nat /\ after * B \in Int
      BY <3>2, SMT
    <3>4. after * B <= top * B
      BY <2>6, Grows
    <3>. QED
      BY <1>1, <3>1, <3>3, <3>4
  <2>9. lo * BLOCK_SIZE <= Address(runs, p) /\ Address(runs, p) < after * BLOCK_SIZE
    BY <2>3, <2>4, <2>6 DEF Base
  <2>. QED
    BY <1>1, <1>2, <2>3, <2>8, <2>9
<1>4. DOMAIN Device \subseteq Int
  BY <1>2
<1>. QED
  BY <1>3, <1>4 DEF HasFile

\* A range and no other byte of the device is written.
Exactly(new, device, runs, offset, length, data) ==
    /\ Contents(new, runs)
          = [k \in 1 .. FileBytes(runs) |->
                IF k - 1 \in offset .. offset + length - 1
                THEN data[k - offset] ELSE Contents(device, runs)[k]]
    /\ \A a \in DOMAIN device : a \div BLOCK_SIZE \notin BlocksOf(runs) => new[a] = device[a]

\* The bytes a file is given from a place on.
Bytewise(offset, length, data) == [p \in offset .. offset + length - 1 |-> data[p - offset + 1]]

\* A device with the range's bytes written has exactly those changed.
LEMMA WrittenExactly ==
    ASSUME NEW new, NEW device, NEW runs, NEW N, NEW size \in Nat, size = FileBytes(runs),
           HasFile(device, runs, N, size), NEW offset \in Nat, NEW length \in Nat, NEW data,
           NEW end, end = offset + length, end <= size,
           Written(new, device, runs, Bytewise(offset, length, data), offset, end)
    PROVE  Exactly(new, device, runs, offset, length, data)
<1>1. /\ Chain(runs, N) /\ DOMAIN device \subseteq Int
      /\ \A p \in 0 .. size - 1 : Address(runs, p) \in DOMAIN device
  BY DEF HasFile
<1>2. PICK bytes : bytes = Bytewise(offset, length, data)
  OBVIOUS
<1>3. /\ \A p \in offset .. end - 1 : new[Address(runs, p)] = bytes[p]
      /\ \A a \in DOMAIN device :
            (\A p \in offset .. end - 1 : Address(runs, p) # a) => new[a] = device[a]
  BY <1>2 DEF Written
<1>4. \A p \in offset .. end - 1 : bytes[p] = data[p - offset + 1]
  BY <1>2 DEF Bytewise
<1>5. PICK all, now : all = Contents(device, runs) /\ now = Contents(new, runs)
  OBVIOUS
<1>6. /\ \A k \in 1 .. size : all[k] = device[Address(runs, k - 1)]
      /\ \A k \in 1 .. size : now[k] = new[Address(runs, k - 1)]
      /\ IsRow(now, size)
  BY <1>5 DEF Contents, IsRow
<1>7. PICK want : want = [k \in 1 .. size |-> IF k - 1 \in offset .. offset + length - 1
                                               THEN data[k - offset] ELSE all[k]]
  OBVIOUS
<1>8. IsRow(want, size)
  BY <1>7 DEF IsRow
<1>9. ASSUME NEW k \in 1 .. size PROVE now[k] = want[k]
  <2>1. PICK p \in 0 .. size - 1 : p = k - 1 /\ p \in Nat /\ p < FileBytes(runs) /\ p - offset + 1 = k - offset
    <3>1. k - 1 \in 0 .. size - 1 /\ k - 1 \in Nat /\ k - 1 < FileBytes(runs)
          /\ (k - 1) - offset + 1 = k - offset
      OBVIOUS
    <3>. QED
      BY <3>1
  <2>2. CASE p \in offset .. end - 1
    <3>1. now[k] = data[k - offset]
      BY <1>3, <1>4, <1>6, <2>1, <2>2
    <3>. QED
      BY <1>7, <2>1, <2>2, <3>1
  <2>3. CASE p \notin offset .. end - 1
    <3>1. \A q \in offset .. end - 1 : Address(runs, q) # Address(runs, p)
      <4>1. ASSUME NEW q \in offset .. end - 1, Address(runs, q) = Address(runs, p) PROVE FALSE
        <5>1. q \in Nat /\ q < FileBytes(runs) /\ q # p
          BY <2>3
        <5>. QED
          BY <1>1, <2>1, <4>1, <5>1, AddressApart
      <4>. QED
        BY <4>1
    <3>2. new[Address(runs, p)] = device[Address(runs, p)]
      BY <1>1, <1>3, <3>1
    <3>3. now[k] = all[k]
      BY <1>6, <2>1, <3>2
    <3>. QED
      BY <1>7, <2>1, <2>3, <3>3
  <2>. QED
    BY <2>2, <2>3
<1>10. now = want
  BY <1>6, <1>8, <1>9, RowsAgree
<1>11. ASSUME NEW a \in DOMAIN device, a \div BLOCK_SIZE \notin BlocksOf(runs)
       PROVE  new[a] = device[a]
  <2>1. ASSUME NEW q \in offset .. end - 1, Address(runs, q) = a PROVE FALSE
    <3>1. q \in Nat /\ q < FileBytes(runs)
      OBVIOUS
    <3>2. Address(runs, q) \div BLOCK_SIZE \in BlocksOf(runs)
      BY <1>1, <3>1, AddressBlock
    <3>. QED
      BY <1>11, <2>1, <3>2
  <2>. QED
    BY <1>3, <2>1
<1>. QED
  BY <1>5, <1>7, <1>10, <1>11 DEF Exactly

\* write_chain keeps that promise.
LEMMA WriteIsExact ==
    ASSUME NEW limit \in Nat, NEW runs, IsChain(runs), NEW offset \in Nat, NEW length \in Nat,
           offset + length <= FileBytes(runs),
           NEW data, IsRow(data, length),
           NEW wrote, wrote = WriteChain(Device, limit, runs, offset, data)
    PROVE  /\ Exactly(wrote.device, Device, runs, offset, length, data)
           /\ Moves(wrote.calls, limit, BlocksOf(runs))
<1>1. PICK N : Chain(runs, N)
  BY ChainIs
<1>2. PICK size \in Nat, end \in Nat : size = FileBytes(runs) /\ end = offset + length /\ end <= size
  BY <1>1, FileSize
<1>3. HasFile(Device, runs, N, size) /\ HasFile(Device, runs, N, end)
  BY <1>1, <1>2, DeviceHasFile
<1>4. PICK bytes : bytes = Bytewise(offset, length, data)
  OBVIOUS
<1>5. Given(bytes, offset, length, data)
  <2>1. ASSUME NEW i \in 0 .. length - 1 PROVE data[i + 1] = bytes[offset + i]
    <3>1. PICK p \in offset .. offset + length - 1 : p = offset + i /\ p - offset + 1 = i + 1
      <4>1. offset + i \in offset .. offset + length - 1 /\ (offset + i) - offset + 1 = i + 1
        OBVIOUS
      <4>. QED
        BY <4>1
    <3>2. bytes[p] = data[p - offset + 1]
      BY <1>4 DEF Bytewise
    <3>. QED
      BY <3>1, <3>2
  <2>. QED
    BY <2>1 DEF Given
<1>6. WrittenUpTo(Device, limit, runs, bytes, offset, length, wrote)
  BY <1>2, <1>3, <1>5, WriteChainWrites
<1>7. /\ Written(wrote.device, Device, runs, bytes, offset, end)
      /\ Moves(wrote.calls, limit, BlocksOf(runs))
  BY <1>2, <1>6, Zenon DEF WrittenUpTo, Moved
<1>8. Exactly(wrote.device, Device, runs, offset, length, data)
  BY <1>2, <1>3, <1>4, <1>7, WrittenExactly
<1>. QED
  BY <1>7, <1>8

\* zero_range keeps it, the data being zeroes.
LEMMA ZeroIsExact ==
    ASSUME NEW limit \in Nat, NEW runs, IsChain(runs), NEW offset \in Nat, NEW length \in Nat,
           offset + length <= FileBytes(runs),
           NEW data, data = [k \in 1 .. length |-> 0],
           NEW wrote, wrote = ZeroRange(Device, limit, runs, offset, offset + length)
    PROVE  /\ Exactly(wrote.device, Device, runs, offset, length, data)
           /\ Moves(wrote.calls, limit, BlocksOf(runs))
<1>1. PICK N : Chain(runs, N)
  BY ChainIs
<1>2. PICK size \in Nat, end \in Nat : /\ size = FileBytes(runs) /\ end = offset + length /\ end <= size
                                       /\ offset <= end /\ length = end - offset
  <2>1. offset + length \in Nat /\ offset <= offset + length /\ length = (offset + length) - offset
    OBVIOUS
  <2>. QED
    BY <1>1, <2>1, FileSize
<1>3. HasFile(Device, runs, N, size) /\ HasFile(Device, runs, N, end)
  BY <1>1, <1>2, DeviceHasFile
<1>4. PICK bytes : bytes = Bytewise(offset, length, data)
  OBVIOUS
<1>5. \A p \in offset .. end - 1 : bytes[p] = 0
  <2>1. \A p \in offset .. end - 1 : p - offset + 1 \in 1 .. length
    BY <1>2
  <2>. QED
    BY <1>2, <1>4, <2>1 DEF Bytewise
<1>6. WrittenUpTo(Device, limit, runs, bytes, offset, length, wrote)
  <2>1. wrote = ZeroRange(Device, limit, runs, offset, end)
    BY <1>2
  <2>. QED
    BY <1>2, <1>3, <1>5, <2>1, ZeroRangeWrites
<1>7. /\ Written(wrote.device, Device, runs, bytes, offset, end)
      /\ Moves(wrote.calls, limit, BlocksOf(runs))
  BY <1>2, <1>6, Zenon DEF WrittenUpTo, Moved
<1>8. Exactly(wrote.device, Device, runs, offset, length, data)
  BY <1>2, <1>3, <1>4, <1>7, WrittenExactly
<1>. QED
  BY <1>7, <1>8

-----------------------------------------------------------------------------
(***************************************************************************)
(* The bridge's staging: its batches, one after the other, are the request.*)
(***************************************************************************)

\* The value FlattenSeq gives a function of its own: one that joins the
\* sequences one after the other.
IsFlatFold(f, seqs, N) ==
    f = [i \in 1 .. N |-> IF i = 1 THEN seqs[i] ELSE f[i - 1] \o seqs[i]]

\* Such a function exists.
LEMMA FlatFold ==
    ASSUME NEW seqs, NEW N \in Nat
    PROVE  \E f : IsFlatFold(f, seqs, N)
<1>1. PICK S : S = {n \in 0 .. N : \E f : IsFlatFold(f, seqs, n)}
  OBVIOUS
<1>2. 0 \in S
  <2>1. PICK f : f = [i \in 1 .. 0 |-> 0]
    OBVIOUS
  <2>2. \A i \in 1 .. 0 : FALSE
    OBVIOUS
  <2>3. IsFlatFold(f, seqs, 0)
    BY <2>1, <2>2, Zenon DEF IsFlatFold
  <2>. QED
    BY <1>1, <2>3
<1>3. ASSUME NEW n \in 1 .. N, n - 1 \in S PROVE n \in S
  <2>1. PICK f : IsFlatFold(f, seqs, n - 1)
    BY <1>1, <1>3
  <2>2. \A i \in 1 .. n - 1 : f[i] = IF i = 1 THEN seqs[i] ELSE f[i - 1] \o seqs[i]
    BY <2>1, Zenon DEF IsFlatFold
  <2>3. PICK last : last = IF n = 1 THEN seqs[n] ELSE f[n - 1] \o seqs[n]
    OBVIOUS
  <2>4. PICK g : g = [i \in 1 .. n |-> IF i = n THEN last ELSE f[i]]
    OBVIOUS
  <2>5. ASSUME NEW i \in 1 .. n
        PROVE  g[i] = IF i = 1 THEN seqs[i] ELSE g[i - 1] \o seqs[i]
    <3>1. i # 1 => i - 1 \in 1 .. n /\ i - 1 # n
      OBVIOUS
    <3>2. i # 1 => g[i - 1] = f[i - 1]
      BY <2>4, <3>1
    <3>3. CASE i = n
      BY <2>3, <2>4, <3>2, <3>3
    <3>4. CASE i # n
      <4>1. i \in 1 .. n - 1
        BY <3>4
      <4>. QED
        BY <2>2, <2>4, <3>2, <3>4, <4>1
    <3>. QED
      BY <3>3, <3>4
  <2>6. g = [i \in 1 .. n |-> g[i]]
    BY <2>4
  <2>7. IsFlatFold(g, seqs, n)
    BY <2>5, <2>6, Zenon DEF IsFlatFold
  <2>8. n \in 0 .. N
    OBVIOUS
  <2>. QED
    BY <1>1, <2>7, <2>8
<1>4. N \in S
  BY <1>2, <1>3, UpTo
<1>. QED
  BY <1>1, <1>4

FlatBy(f, seqs, last) ==
    /\ f[1] = seqs[1]
    /\ \A i \in 2 .. Len(seqs) : f[i] = f[i - 1] \o seqs[i]
    /\ last = f[Len(seqs)]

\* What FlattenSeq returns is what it ends with.
LEMMA FlatAre ==
    ASSUME NEW seqs, Len(seqs) \in Nat \ {0}
    PROVE  \E f : FlatBy(f, seqs, FlattenSeq(seqs))
<1>1. PICK N \in Nat \ {0} : N = Len(seqs)
  OBVIOUS
<1>2. PICK f : f = CHOOSE g : IsFlatFold(g, seqs, N)
  OBVIOUS
<1>3. IsFlatFold(f, seqs, N)
  <2>1. \E g : IsFlatFold(g, seqs, N)
    BY FlatFold
  <2>. QED
    BY <1>2, <2>1, Zenon
<1>4. FlattenSeq(seqs) = f[N]
  BY <1>1, <1>2, Zenon DEF FlattenSeq, IsFlatFold
<1>5. \A i \in 1 .. N : f[i] = IF i = 1 THEN seqs[i] ELSE f[i - 1] \o seqs[i]
  BY <1>3, Zenon DEF IsFlatFold
<1>6. 1 \in 1 .. N /\ \A i \in 2 .. N : i \in 1 .. N /\ i # 1
  BY <1>1
<1>. QED
  BY <1>1, <1>4, <1>5, <1>6, Zenon DEF FlatBy

\* Blocks numbered from 0, and from where they go.
Numbered(n, start) == [k \in 1 .. n |-> <<k - 1, start + k - 1>>]

\* The n of them after the first m.
IsBatch(batch, m, n, total, start) ==
    /\ m \in Nat /\ n \in Nat /\ start \in Nat /\ total = m + n
    /\ batch = [k \in 1 .. n |-> <<m + k - 1, (start + m) + k - 1>>]

Continues(batch, m, total, start) == Numbered(m, start) \o batch = Numbered(total, start)

\* A batch that follows is the next of the request's blocks.
LEMMA NumberedJoin ==
    ASSUME NEW m, NEW n, NEW total, NEW start, NEW batch, IsBatch(batch, m, n, total, start)
    PROVE  Continues(batch, m, total, start)
<1>. m \in Nat /\ n \in Nat /\ start \in Nat /\ total = m + n
  BY DEF IsBatch
<1>1. PICK s, u, v : s = Numbered(m, start) /\ u = Numbered(total, start) /\ v = s \o batch
  OBVIOUS
<1>2. IsRow(s, m) /\ \A k \in 1 .. m : s[k] = <<k - 1, start + k - 1>>
  BY <1>1 DEF IsRow, Numbered
<1>3. IsRow(batch, n) /\ \A k \in 1 .. n : batch[k] = <<m + k - 1, (start + m) + k - 1>>
  BY DEF IsRow, IsBatch
<1>4. IsRow(u, total) /\ \A k \in 1 .. total : u[k] = <<k - 1, start + k - 1>>
  BY <1>1 DEF IsRow, Numbered
<1>5. IsJoin(v, s, batch, m, n)
  BY <1>1, <1>2, <1>3, Joined, Zenon
<1>6. /\ IsRow(v, total)
      /\ \A k \in 1 .. m : v[k] = s[k]
      /\ \A k \in 1 .. n : v[m + k] = batch[k]
  BY <1>5 DEF IsJoin
<1>7. ASSUME NEW k \in 1 .. total PROVE v[k] = u[k]
  <2>1. CASE k <= m
    <3>1. k \in 1 .. m
      BY <2>1
    <3>. QED
      BY <1>2, <1>4, <1>6, <3>1
  <2>2. CASE ~(k <= m)
    <3>1. PICK j \in 1 .. n : k = m + j
      <4>1. k - m \in 1 .. n /\ k = m + (k - m)
        BY <2>2
      <4>. QED
        BY <4>1
    <3>2. v[k] = <<m + j - 1, (start + m) + j - 1>>
      BY <1>3, <1>6, <3>1
    <3>3. m + j - 1 = k - 1 /\ (start + m) + j - 1 = start + k - 1
      BY <3>1
    <3>. QED
      BY <1>4, <3>2, <3>3
  <2>. QED
    BY <2>1, <2>2
<1>8. v = u
  BY <1>4, <1>6, <1>7, RowsAgree
<1>. QED
  BY <1>1, <1>8 DEF Continues

\* A batch the bridge stages, block by block.
BatchOf(s) == [k \in 1 .. s.blocks |-> <<s.from + k - 1, s.to + k - 1>>]

\* Batches of a request, and what they are to be.
AreBatches(seqs, staged, capacity, start, n) ==
    /\ staged = Staged(capacity, start, n)
    /\ seqs = [k \in DOMAIN staged |-> BatchOf(staged[k])]
AllMoved(seqs, staged, capacity, start, n) ==
    /\ FlattenSeq(seqs) = Numbered(n, start)
    /\ \A k \in DOMAIN staged : staged[k].blocks \in 1 .. capacity

\* A request reaches the card as the same blocks, each once and in order.
LEMMA StagedMoves ==
    ASSUME NEW capacity \in Nat \ {0}, NEW start \in Nat, NEW n \in Nat, start + n <= MaxU32 + 1,
           NEW staged, NEW seqs, AreBatches(seqs, staged, capacity, start, n)
    PROVE  AllMoved(seqs, staged, capacity, start, n)
<1>. /\ staged = Staged(capacity, start, n)
     /\ seqs = [k \in DOMAIN staged |-> BatchOf(staged[k])]
  BY DEF AreBatches
<1>1. PICK chunks : chunks = Chunks(n, capacity)
  OBVIOUS
<1>2. IsPasses(chunks, capacity, n)
  BY <1>1, ChunksPass
<1>3. PICK M \in Nat : M = Len(chunks) /\ DOMAIN chunks = 1 .. M
  <2>1. Len(chunks) \in Nat
    BY <1>2 DEF IsPasses
  <2>2. CeilDiv(n, capacity) \in Nat
    BY Ceiling
  <2>3. DOMAIN chunks = 1 .. Len(chunks)
    BY <1>1, <2>2 DEF Chunks
  <2>. QED
    BY <2>1, <2>3
<1>4. /\ PassedBy(chunks, 0) = 0 /\ PassedBy(chunks, M) = n
      /\ \A k \in 1 .. M :
            /\ chunks[k].at \in Nat /\ chunks[k].length \in 1 .. capacity
            /\ chunks[k].at + chunks[k].length <= n
            /\ chunks[k].at = PassedBy(chunks, k - 1)
            /\ chunks[k].at + chunks[k].length = PassedBy(chunks, k)
  BY <1>2, <1>3, Zenon DEF IsPasses
<1>5. ASSUME NEW k \in 1 .. M
      PROVE  /\ staged[k].from = chunks[k].at /\ staged[k].to = start + chunks[k].at
             /\ staged[k].blocks = chunks[k].length
  <2>1. PICK at \in Nat, l \in 1 .. capacity : at = chunks[k].at /\ l = chunks[k].length /\ at + l <= n
    BY <1>4
  <2>2. staged[k] = [from |-> at, to |-> (start + at) % (MaxU32 + 1), blocks |-> l]
    BY <1>1, <1>3, <2>1 DEF Staged
  <2>3. (start + at) % (MaxU32 + 1) = start + at
    <3>1. PICK x \in Nat, w \in Nat \ {0} : x = start + at /\ w = MaxU32 + 1 /\ x < w
      <4>1. start + at \in Nat /\ MaxU32 + 1 \in Nat \ {0} /\ start + at < MaxU32 + 1
        BY <2>1, TransferAssumption
      <4>. QED
        BY <4>1
    <3>2. x % w = x
      BY <3>1, SMT
    <3>. QED
      BY <3>1, <3>2
  <2>. QED
    BY <2>1, <2>2, <2>3
<1>6. DOMAIN staged = 1 .. M
  BY <1>1, <1>3 DEF Staged
<1>7. Len(seqs) = M /\ \A k \in 1 .. M : seqs[k] = BatchOf(staged[k])
  BY <1>6
<1>8. ASSUME NEW k \in 1 .. M
      PROVE  seqs[k] = [j \in 1 .. chunks[k].length |->
                           <<chunks[k].at + j - 1, (start + chunks[k].at) + j - 1>>]
  BY <1>5, <1>7, Zenon DEF BatchOf
<1>9. CASE M = 0
  <2>1. n = 0
    BY <1>4, <1>9
  <2>2. Numbered(n, start) = <<>>
    BY <2>1 DEF Numbered
  <2>3. seqs = <<>>
    BY <1>6, <1>9
  <2>4. FlattenSeq(seqs) = seqs
    BY <1>7, <1>9 DEF FlattenSeq
  <2>5. \A k \in DOMAIN staged : staged[k].blocks \in 1 .. capacity
    BY <1>6, <1>9
  <2>. QED
    BY <2>2, <2>3, <2>4, <2>5 DEF AllMoved
<1>10. CASE M # 0
  <2>1. PICK f : FlatBy(f, seqs, FlattenSeq(seqs))
    BY <1>7, <1>10, FlatAre
  <2>2. /\ f[1] = seqs[1]
        /\ \A i \in 2 .. M : f[i] = f[i - 1] \o seqs[i]
        /\ FlattenSeq(seqs) = f[M]
    BY <1>7, <2>1, Zenon DEF FlatBy
  <2>3. PICK S : S = {i \in 0 .. M : i = 0 \/ f[i] = Numbered(PassedBy(chunks, i), start)}
    OBVIOUS
  <2>4. 0 \in S
    BY <2>3
  <2>5. ASSUME NEW i \in 1 .. M, i - 1 \in S PROVE i \in S
    <3>1. PICK at \in Nat, l \in Nat :
             /\ at = chunks[i].at /\ l = chunks[i].length
             /\ at = PassedBy(chunks, i - 1) /\ at + l = PassedBy(chunks, i)
      BY <1>4
    <3>2. seqs[i] = [j \in 1 .. l |-> <<at + j - 1, (start + at) + j - 1>>]
      BY <1>8, <3>1
    <3>3. Numbered(at, start) \o seqs[i] = Numbered(PassedBy(chunks, i), start)
      <4>1. PICK batch, total : batch = seqs[i] /\ total = at + l
        OBVIOUS
      <4>2. IsBatch(batch, at, l, total, start)
        BY <3>2, <4>1, Zenon DEF IsBatch
      <4>3. Continues(batch, at, total, start)
        BY <4>2, NumberedJoin, Zenon
      <4>. QED
        BY <3>1, <4>1, <4>3, Zenon DEF Continues
    <3>4. f[i] = Numbered(PassedBy(chunks, i), start)
      <4>1. CASE i = 1
        <5>1. at = 0 /\ l = PassedBy(chunks, i)
          BY <1>4, <3>1, <4>1
        <5>2. \A j \in 1 .. l : at + j - 1 = j - 1 /\ (start + at) + j - 1 = start + j - 1
          BY <5>1
        <5>3. seqs[i] = Numbered(l, start)
          BY <3>2, <5>2, Zenon DEF Numbered
        <5>. QED
          BY <2>2, <4>1, <5>1, <5>3
      <4>2. CASE i # 1
        <5>1. i \in 2 .. M /\ i - 1 # 0
          BY <4>2
        <5>2. f[i - 1] = Numbered(at, start)
          BY <2>3, <2>5, <3>1, <5>1
        <5>. QED
          BY <2>2, <3>3, <5>1, <5>2
      <4>. QED
        BY <4>1, <4>2
    <3>5. i \in 0 .. M
      OBVIOUS
    <3>. QED
      BY <2>3, <3>4, <3>5
  <2>6. M \in S
    BY <2>4, <2>5, UpTo
  <2>7. \A k \in DOMAIN staged : staged[k].blocks \in 1 .. capacity
    BY <1>4, <1>5, <1>6
  <2>8. FlattenSeq(seqs) = Numbered(n, start)
    BY <1>4, <1>10, <2>2, <2>3, <2>6
  <2>. QED
    BY <2>7, <2>8 DEF AllMoved
<1>. QED
  BY <1>9, <1>10

-----------------------------------------------------------------------------
(***************************************************************************)
(* The promises of transfers.                                              *)
(***************************************************************************)

\* What a transfer is asked for.
LEMMA Asked ==
    ASSUME InputOk, input.of \in {"read", "write", "zero"}
    PROVE  /\ input.limit \in Nat /\ IsChain(input.runs) /\ FileBytes(input.runs) \in Nat
           /\ input.offset \in Nat /\ input.length \in Nat
           /\ input.offset + input.length <= FileBytes(input.runs)
<1>1. /\ input.limit \in Limits /\ input.runs \in Chains
      /\ input.offset \in 0 .. FileBytes(input.runs)
      /\ input.length \in 0 .. FileBytes(input.runs) - input.offset
  BY DEF InputOk
<1>2. input.limit \in Nat /\ IsChain(input.runs)
  BY <1>1, TransfersAssumption
<1>3. FileBytes(input.runs) \in Nat
  BY <1>2, ChainIs, FileSize
<1>. QED
  BY <1>1, <1>2, <1>3

\* A read returns the file's bytes, asks the device for no more than it moves
\* at once and of no other block than the file's, and wastes no transfer: of
\* every chain, limit, offset and length.
THEOREM ReadsAreExact == Spec => []ReadsExactly
<1>1. InputOk => ReadsExactly
  <2>. SUFFICES ASSUME InputOk, input.of = "read" PROVE ReadsExactly
    BY DEF ReadsExactly
  <2>1. /\ input.limit \in Nat /\ IsChain(input.runs) /\ FileBytes(input.runs) \in Nat
        /\ input.offset \in Nat /\ input.length \in Nat
        /\ input.offset + input.length <= FileBytes(input.runs)
    BY Asked
  <2>2. PICK limit \in Nat : limit = input.limit
    BY <2>1
  <2>3. PICK runs : runs = input.runs
    OBVIOUS
  <2>4. PICK offset \in Nat, length \in Nat : offset = input.offset /\ length = input.length
    BY <2>1
  <2>5. PICK size \in Nat : size = FileBytes(runs)
    BY <2>1, <2>3
  <2>6. /\ limit = input.limit /\ runs = input.runs /\ offset = input.offset
        /\ length = input.length /\ size = FileBytes(runs) /\ IsChain(runs)
        /\ offset <= size
    BY <2>1, <2>2, <2>3, <2>4, <2>5
  <2>7. PICK want \in Nat : want = offset + length
    OBVIOUS
  <2>8. PICK end \in Nat : end = Least(offset + want, size)
    BY DEF Least
  <2>9. PICK read : read = ReadAt(Device, limit, runs, size, offset, want)
    OBVIOUS
  <2>10. ReadsRight(read, Device, limit, runs, offset, end)
    BY <2>6, <2>8, <2>9, ReadAtReads
  <2>11. ReadChain(Device, limit, runs).data = Contents(Device, runs)
    BY <2>6, ReadChainReads
  <2>. QED
    BY <2>6, <2>7, <2>8, <2>9, <2>10, <2>11, Zenon DEF ReadsExactly, ReadsRight
<1>. QED
  BY <1>1, InputsOk, PTL

\* A write and the zeroing of a gap change their range and no other byte.
THEOREM WritesAreExact == Spec => []WritesExactly
<1>1. InputOk => WritesExactly
  <2>. SUFFICES ASSUME InputOk, input.of \in {"write", "zero"} PROVE WritesExactly
    BY DEF WritesExactly
  <2>1. /\ input.limit \in Nat /\ IsChain(input.runs) /\ FileBytes(input.runs) \in Nat
        /\ input.offset \in Nat /\ input.length \in Nat
        /\ input.offset + input.length <= FileBytes(input.runs)
    BY Asked
  <2>2. PICK limit \in Nat : limit = input.limit
    BY <2>1
  <2>3. PICK runs : runs = input.runs
    OBVIOUS
  <2>4. PICK offset \in Nat, length \in Nat : offset = input.offset /\ length = input.length
    BY <2>1
  <2>5. /\ limit = input.limit /\ runs = input.runs /\ offset = input.offset
        /\ length = input.length /\ IsChain(runs) /\ offset + length <= FileBytes(runs)
    BY <2>1, <2>2, <2>3, <2>4
  <2>6. PICK data, wrote : data = Payload(input) /\ wrote = Wrote(input)
    OBVIOUS
  <2>7. ASSUME input.of = "zero"
        PROVE  /\ Exactly(wrote.device, Device, runs, offset, length, data)
               /\ Moves(wrote.calls, limit, BlocksOf(runs))
    <3>1. data = [k \in 1 .. length |-> 0]
      BY <2>5, <2>6, <2>7 DEF Payload
    <3>2. wrote = ZeroRange(Device, limit, runs, offset, offset + length)
      BY <2>5, <2>6, <2>7, Zenon DEF Wrote
    <3>. QED
      BY <2>5, <3>1, <3>2, ZeroIsExact
  <2>8. ASSUME input.of = "write"
        PROVE  /\ Exactly(wrote.device, Device, runs, offset, length, data)
               /\ Moves(wrote.calls, limit, BlocksOf(runs))
    <3>1. IsRow(data, length)
      BY <2>5, <2>6 DEF Payload, IsRow
    <3>2. wrote = WriteChain(Device, limit, runs, offset, data)
      <4>1. input.of # "zero"
        BY <2>8
      <4>. QED
        BY <2>5, <2>6, <4>1, Zenon DEF Wrote
    <3>. QED
      BY <2>5, <3>1, <3>2, WriteIsExact
  <2>9. /\ Exactly(wrote.device, Device, runs, offset, length, data)
        /\ Moves(wrote.calls, limit, BlocksOf(runs))
    BY <2>7, <2>8
  <2>. QED
    BY <2>5, <2>6, <2>9, Zenon DEF WritesExactly, Exactly
<1>. QED
  BY <1>1, InputsOk, PTL

\* The bridge moves every block of a request once and in order.
THEOREM BridgeMoves == Spec => []BridgeMovesAll
<1>1. InputOk => BridgeMovesAll
  <2>. SUFFICES ASSUME InputOk, input.of = "stage", input.start + input.n <= MaxU32 + 1
                PROVE  BridgeMovesAll
    BY DEF BridgeMovesAll
  <2>0. /\ input.capacity \in Capacities /\ input.start \in 0 .. MaxU32
        /\ input.n \in 0 .. MaxU32
    BY DEF InputOk
  <2>1. PICK capacity \in Nat \ {0}, start \in Nat, n \in Nat :
           /\ capacity = input.capacity /\ start = input.start /\ n = input.n
           /\ start + n <= MaxU32 + 1
    <3>1. input.capacity \in Nat \ {0}
      BY <2>0, TransfersAssumption
    <3>2. MaxU32 \in Nat
      BY TransferAssumption
    <3>. QED
      BY <2>0, <3>1, <3>2
  <2>2. PICK staged : staged = Staged(capacity, start, n)
    OBVIOUS
  <2>3. PICK seqs : seqs = [k \in DOMAIN staged |-> BatchOf(staged[k])]
    OBVIOUS
  <2>4. /\ FlattenSeq(seqs) = Numbered(n, start)
        /\ \A k \in DOMAIN staged : staged[k].blocks \in 1 .. capacity
    <3>1. AreBatches(seqs, staged, capacity, start, n)
      BY <2>2, <2>3, Zenon DEF AreBatches
    <3>2. AllMoved(seqs, staged, capacity, start, n)
      BY <2>1, <3>1, StagedMoves
    <3>. QED
      BY <3>2, Zenon DEF AllMoved
  <2>5. staged = Staged(input.capacity, input.start, input.n)
    BY <2>1, <2>2
  <2>6. /\ FlattenSeq([k \in DOMAIN staged |-> BatchOf(staged[k])]) = Numbered(input.n, input.start)
        /\ \A k \in DOMAIN staged : staged[k].blocks \in 1 .. input.capacity
    BY <2>1, <2>3, <2>4
  <2>. QED
    BY <2>5, <2>6, Zenon DEF BridgeMovesAll, BatchOf, Numbered
<1>. QED
  BY <1>1, InputsOk, PTL
=============================================================================
