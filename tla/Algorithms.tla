----------------------------- MODULE Algorithms -----------------------------
(***************************************************************************)
(* What the parts of the crate that compute rather than keep state promise *)
(* of every input in bounds: transfers, times, mounting and names.  A      *)
(* behaviour takes one input; the properties are about what the operators  *)
(* of the four modules make of it.                                         *)
(***************************************************************************)
EXTENDS Transfer, Times, Mount, Names, FiniteSets

CONSTANTS Chains,             \* the runs of a file's chain, in order
          Limits,             \* what a device moves in one transfer
          Capacities,         \* blocks the bridge stages at once
          Moments,            \* days since 1970, each with a second of it
          BootSectors, Devices,
          SomeNames, Codepages,
          Aliases,            \* keys a directory has already
          Strays,             \* long-name slots left in front of an entry
          Bases, Extensions   \* mangled fields

\* A sector's fields are numbers, whichever kind of sector it is read as.
IsSector(b) ==
    {b.bytesPerSector, b.sectorsPerCluster, b.reservedSectors, b.fatCount, b.total16, b.total32,
     b.sectorsPerFat16, b.sectorsPerFat32, b.rootEntries, b.fsInfoSector} \subseteq Nat

ASSUME BootSectorsAssumption == \A b \in BootSectors : IsSector(b)

ASSUME DevicesAssumption ==
    \A device \in Devices :
        /\ device.reports \in Nat \cup {Unknown}
        /\ 0 \in DOMAIN device.sectors
        /\ \A n \in DOMAIN device.sectors :
              LET sector == device.sectors[n]
              IN  /\ n \in Nat /\ IsSector(sector)
                  /\ {sector.free, sector.next} \subseteq Nat \cup {Unknown}
                  /\ DOMAIN sector.entries = 1 .. MAX_PARTITIONS
                  /\ \A k \in 1 .. MAX_PARTITIONS :
                        {sector.entries[k].firstBlock, sector.entries[k].blocks} \subseteq Nat

\* The runs of a chain come one after the other and lie apart in the volume.
IsChain(runs) ==
    /\ runs \in Seq([fileCluster : Nat, start : Nat, clusters : Nat \ {0}])
    /\ \A k \in DOMAIN runs :
          /\ 2 <= runs[k].start /\ runs[k].start + runs[k].clusters <= ClusterCount + 2
          /\ runs[k].fileCluster = IF k = 1 THEN 0 ELSE runs[k - 1].fileCluster + runs[k - 1].clusters
          /\ \A j \in 1 .. k - 1 :
                \/ runs[j].start + runs[j].clusters <= runs[k].start
                \/ runs[k].start + runs[k].clusters <= runs[j].start

ASSUME TransfersAssumption ==
    /\ \A runs \in Chains : IsChain(runs)
    /\ Limits \subseteq Nat /\ Capacities \subseteq Nat \ {0}

ASSUME MomentsAssumption == Moments \subseteq [day : Int, rest : 0 .. SecondsPerDay - 1]

VARIABLE input

Nothing == [of |-> "nothing"]
Init == input = Nothing
FileBytes(runs) ==
    IF runs = <<>> THEN 0 ELSE (Last(runs).fileCluster + Last(runs).clusters) * ClusterBytes
BlocksOf(runs) ==
    UNION {ClusterBlock(runs[k].start) .. ClusterBlock(runs[k].start + runs[k].clusters) - 1 :
              k \in DOMAIN runs}
Device == [a \in 0 .. ClusterBlock(ClusterCount + 2) * BLOCK_SIZE - 1 |-> a]

TransferAny ==
    /\ input = Nothing
    /\ \E of \in {"read", "write", "zero"}, limit \in Limits, runs \in Chains :
           \E offset \in 0 .. FileBytes(runs) :
               \E length \in 0 .. FileBytes(runs) - offset :
                   input' = [of |-> of, limit |-> limit, runs |-> runs,
                             offset |-> offset, length |-> length]
ReadRunAny ==
    /\ input = Nothing
    /\ \E start, clusters \in 0 .. MaxU32 :
           input' = [of |-> "run", start |-> start, clusters |-> clusters]
StageAny ==
    /\ input = Nothing
    /\ \E capacity \in Capacities, start, n \in 0 .. MaxU32 :
           input' = [of |-> "stage", capacity |-> capacity, start |-> start, n |-> n]
StampAny ==
    /\ input = Nothing
    /\ \E moment \in Moments :
           input' = [of |-> "stamp", day |-> moment.day, rest |-> moment.rest]
ParseAny ==
    /\ input = Nothing
    /\ \E sector \in BootSectors : input' = [of |-> "boot", sector |-> sector]
MountAny ==
    /\ input = Nothing
    /\ \E device \in Devices : input' = [of |-> "device", device |-> device]
NameAny ==
    /\ input = Nothing
    /\ \E name \in SomeNames, codepage \in Codepages, taken \in Aliases, strays \in Strays :
           /\ Storable(name)
           /\ input' = [of |-> "name", name |-> name, codepage |-> codepage,
                        taken |-> taken, strays |-> strays]
AliasAny ==
    /\ input = Nothing
    /\ \E base \in Bases, ext \in Extensions, codepage \in Codepages :
           /\ \A byte \in ToSet(base \o ext) :
                 \E c \in DOMAIN codepage.encode : codepage.encode[c] = byte
           /\ input' = [of |-> "alias", base |-> base, ext |-> ext, codepage |-> codepage]

Next ==
    \/ TransferAny \/ ReadRunAny \/ StageAny \/ StampAny
    \/ ParseAny \/ MountAny \/ NameAny \/ AliasAny
Spec == Init /\ [][Next]_input

-----------------------------------------------------------------------------
\* Where the byte at place p of a file lies, and the file's bytes in its own
\* order, taken from the device.
HasByte(run, p) ==
    run.fileCluster * ClusterBytes <= p /\ p < (run.fileCluster + run.clusters) * ClusterBytes
Address(runs, p) ==
    LET run == runs[CHOOSE k \in DOMAIN runs : HasByte(runs[k], p)]
    IN  ClusterBlock(run.start) * BLOCK_SIZE + p - run.fileCluster * ClusterBytes
Contents(device, runs) == [k \in 1 .. FileBytes(runs) |-> device[Address(runs, k - 1)]]

\* Whether the device was only asked for what it moves at once, of these blocks.
Moves(calls, limit, blocks) ==
    \A k \in DOMAIN calls :
        /\ calls[k].blocks \in 1 .. AtLeast1(limit)
        /\ calls[k].block .. calls[k].block + calls[k].blocks - 1 \subseteq blocks

\* A read returns the file's bytes from its offset, whatever the runs, the
\* device's limit and the alignment, and touches no block of another file;
\* an aligned file in one run costs as few transfers as the limit allows.
ReadsExactly ==
    input.of = "read" =>
        LET size == FileBytes(input.runs)
            want == input.offset + input.length
            read == ReadAt(Device, input.limit, input.runs, size, input.offset, want)
            end  == Least(input.offset + want, size)
        IN  /\ read.data = SubSeq(Contents(Device, input.runs), input.offset + 1, end)
            /\ Moves(read.calls, input.limit, BlocksOf(input.runs))
            /\ Len(input.runs) = 1 /\ input.offset % BLOCK_SIZE = 0 /\ end % BLOCK_SIZE = 0
                  => Len(read.calls) = IF input.offset >= end THEN 0
                                       ELSE CeilDiv((end - input.offset) \div BLOCK_SIZE,
                                                    AtLeast1(input.limit))
            /\ ReadChain(Device, input.limit, input.runs).data = Contents(Device, input.runs)

\* What is put into a range, and what comes of putting it there.
Payload(in) == [k \in 1 .. in.length |-> IF in.of = "zero" THEN 0 ELSE 1000 + k]
Wrote(in) ==
    IF in.of = "zero"
    THEN ZeroRange(Device, in.limit, in.runs, in.offset, in.offset + in.length)
    ELSE WriteChain(Device, in.limit, in.runs, in.offset, Payload(in))

\* A write, and the zeroing of a gap, change the bytes of their range and no
\* other byte of the device: what shares a block with the range survives.
WritesExactly ==
    input.of \in {"write", "zero"} =>
        LET data   == Payload(input)
            wrote  == Wrote(input)
            inFile == BlocksOf(input.runs)
        IN  /\ Contents(wrote.device, input.runs)
                  = [k \in 1 .. FileBytes(input.runs) |->
                        IF k - 1 \in input.offset .. input.offset + input.length - 1
                        THEN data[k - input.offset] ELSE Contents(Device, input.runs)[k]]
            /\ \A a \in DOMAIN Device :
                  a \div BLOCK_SIZE \notin inFile => wrote.device[a] = Device[a]
            /\ Moves(wrote.calls, input.limit, inFile)

\* read_run takes the runs that lie in the volume and no others, however long
\* a run its caller made up.
RunsInsideVolume ==
    input.of = "run" =>
        (AcceptsRun(input.start, input.clusters)
            <=> \A k \in 0 .. input.clusters - 1 : IsValidCluster(input.start + k))

\* A request longer than the bridge's staging buffer reaches the card as the
\* same blocks, each once and in order, while they can be numbered in 32 bits.
BridgeMovesAll ==
    input.of = "stage" /\ input.start + input.n <= MaxU32 + 1 =>
        LET staged == Staged(input.capacity, input.start, input.n)
            Batch(s) == [k \in 1 .. s.blocks |-> <<s.from + k - 1, s.to + k - 1>>]
        IN  /\ FlattenSeq([k \in DOMAIN staged |-> Batch(staged[k])])
                  = [k \in 1 .. input.n |-> <<k - 1, input.start + k - 1>>]
            /\ \A k \in DOMAIN staged : staged[k].blocks \in 1 .. input.capacity

-----------------------------------------------------------------------------
\* The day after a date, as a calendar has it.
NextDay(civil) ==
    CASE civil[3] < DaysInMonth(civil[1], civil[2]) -> <<civil[1], civil[2], civil[3] + 1>>
      [] civil[3] = DaysInMonth(civil[1], civil[2]) /\ civil[2] < 12 -> <<civil[1], civil[2] + 1, 1>>
      [] OTHER -> <<civil[1] + 1, 1, 1>>

\* The days of the years that fit an i32.
InYears(day) ==
    DaysFromCivil(-MaxYear - 1, 1, 1) <= day /\ day <= DaysFromCivil(MaxYear, 12, 31)

\* The arithmetic that turns days into dates follows the calendar a day at a
\* time from 1 January 1970, leap days and centuries included, and back, as
\* long as the year fits.
DaysAreCalendar ==
    input.of = "stamp" /\ InYears(input.day) /\ InYears(input.day + 1) =>
        LET civil == CivilFromDays(input.day)
        IN  /\ CivilFromDays(input.day + 1) = NextDay(civil)
            /\ DaysFromCivil(civil[1], civil[2], civil[3]) = input.day
            /\ input.day = 0 => civil = <<1970, 1, 1>>

\* What the clock says goes through a directory entry's fields and back to
\* the second; a clock outside FAT's years, whose year fits all the same,
\* gives the nearest date it has.
StampsReadBack ==
    input.of = "stamp" /\ InYears(input.day) =>
        LET stamp == FromUnix(input.day, input.rest)
            civil == CivilFromDays(input.day)
            back  == Unpack(Pack(stamp))
        IN  /\ IsDateTime(stamp) /\ back = stamp
            /\ ToUnix(back) = CASE civil[1] < FIRST_YEAR -> ToUnix(EPOCH)
                                [] civil[1] > LAST_YEAR  -> ToUnix(LATEST)
                                [] OTHER                 -> <<input.day, input.rest>>
            /\ {Pack(stamp).date, Pack(stamp).time} \subseteq 0 .. FIELD_MAX
            /\ Pack(stamp).hundredths \in 0 .. 199

-----------------------------------------------------------------------------
\* Whether the sum that places the data area fits its word.
SumFits(b) == b.reservedSectors + b.fatCount * b.sectorsPerFat32 < Word

\* Of a boot sector that is accepted and whose sum fits: the tables end where
\* the data begins, every cluster lies in the volume and has an entry in the
\* table, and one cluster more would not.  A sector with a 16-bit table
\* length is never accepted, nor called FAT12 or FAT16 beyond their counts.
GeometrySound ==
    input.of = "boot" =>
        LET b == input.sector
            parsed == Parse(b)
            Holds(n) == /\ parsed.dataStart + n * b.sectorsPerCluster <= parsed.totalSectors
                        /\ n + FIRST_CLUSTER <= parsed.sectorsPerFat * (SECTOR \div TABLE_ENTRY)
        IN  /\ parsed.ok /\ SumFits(b) =>
                  /\ b.sectorsPerFat16 = 0
                  /\ 0 < parsed.fatStart
                  /\ parsed.dataStart = parsed.fatStart + parsed.fatCount * parsed.sectorsPerFat
                  /\ parsed.clusterCount > 0 => Holds(parsed.clusterCount)
                  /\ ~Holds(parsed.clusterCount + 1)
            /\ ~parsed.ok /\ parsed.why \in {"Fat12", "Fat16"} => b.sectorsPerFat16 # 0

\* Whether a mounted volume, and its last cluster with it, ends before `end`.
Inside(device, mounted, end) ==
    LET boot == mounted.boot
        last == FIRST_CLUSTER + boot.clusterCount - 1
    IN  /\ mounted.firstBlock + boot.totalSectors <= end
        /\ SumFits(device.sectors[mounted.firstBlock]) /\ boot.clusterCount > 0 =>
              mounted.firstBlock + ClusterSector(boot, last) + boot.sectorsPerCluster <= end

\* Whether it fits the device, and its hints name what it has.
InDevice(device, mounted) ==
    /\ device.reports # Unknown => Inside(device, mounted, device.reports)
    /\ mounted.fsInfo.freeClusters # Unknown =>
          mounted.fsInfo.freeClusters <= mounted.boot.clusterCount
    /\ mounted.fsInfo.nextFree # Unknown => IsClusterOf(mounted.boot, mounted.fsInfo.nextFree)

\* Whether it is the volume of a partition, and fits that.
InPartition(device, mounted, entry) ==
    /\ mounted.firstBlock = entry.firstBlock
    /\ Inside(device, mounted, entry.firstBlock + entry.blocks)

\* A mounted volume fits the device and the partition that holds it, and so
\* does each of its clusters; its hints name what it has.  mount_first_fat
\* takes a FAT partition of a table that is no placeholder, and the whole
\* device only if it has no table.
MountedInside ==
    input.of = "device" =>
        LET device  == input.device
            entries == device.sectors[0].entries
            first   == MountFirstFat(device)
        IN  /\ Mount(device).ok => InDevice(device, Mount(device))
            /\ \A k \in 1 .. MAX_PARTITIONS + 1 :
                  LET mounted == MountPartition(device, k)
                  IN  mounted.ok => /\ InDevice(device, mounted)
                                    /\ InPartition(device, mounted, entries[k])
                                    /\ entries[k].kind # GptKind
            /\ first.ok =>
                  /\ InDevice(device, first)
                  /\ \/ ~IsTable(device.sectors[0]) /\ first.firstBlock = 0
                     \/ /\ \A k \in DOMAIN entries : IsPartition(entries[k]) => entries[k].kind # GptKind
                        /\ \E k \in DOMAIN entries :
                              IsPartition(entries[k]) /\ entries[k].kind \in FatKinds
                                /\ InPartition(device, first, entries[k])

-----------------------------------------------------------------------------
\* A lower case character that its upper case form's lower case is.
ComesBack(c) == c \notin Lowers \/ Len(UpperOf[c]) # 1 \/ ToLower(UpperOf[c][1]) = <<c>>

\* A name that was stored is read back as it was asked for, case and all,
\* whatever stray slots precede its own; one in the case bits alone if each
\* of its characters survives a change of case and back.  Its alias is free.
NamesReadBack ==
    input.of = "name" =>
        LET stored == StoredName(input.name, input.codepage, input.taken)
        IN  stored.short # NoAlias =>
                /\ Len(stored.slots) <= MAX_LONG_SLOTS
                /\ \/ stored.slots = <<>> /\ \E c \in ToSet(input.name) : ~ComesBack(c)
                   \/ ReadBack(input.strays \o stored.slots, stored.short, input.codepage)
                         = input.name
                /\ stored.slots # <<>> =>
                      Key(Display(stored.short, input.codepage)) \notin input.taken

\* The numbered aliases of a name are all different, and each names itself:
\* looked up as it is shown, it is stored as the very same bytes.
AliasesWork ==
    input.of = "alias" =>
        LET Alias(tail) == FromRaw(WithTail(input.base, input.ext, tail), "upper", "upper")
            Shown(tail) == Display(Alias(tail), input.codepage)
        IN  /\ Cardinality({Alias(tail) : tail \in 1 .. MAX_TAIL}) = MAX_TAIL
            /\ \A tail \in 1 .. MAX_TAIL :
                  /\ Storable(Shown(tail)) /\ Fits83(Shown(tail), input.codepage)
                  /\ Direct83(Shown(tail), input.codepage) = Alias(tail)
=============================================================================
