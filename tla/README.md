# resident-fat: models, checks and proofs

`resident-fat` is a FAT32 driver that keeps the whole allocation table in
memory.  Reading never touches the table on the device; changing it marks
sectors of it dirty, and the file operations decide when they are written back.
Directory entries, on the other hand, are written through.  What a volume looks
like after a power cut or a failed write therefore depends on the order in which
the two kinds of write reach the device, and that order is what this project is
mostly about.

## The system

| Component | Source | State | Operations |
|---|---|---|---|
| Allocation table | `fat.rs` | `entries`, `next_free`, `free_count`, dirty sectors, change counter | `load`, `allocate`, `append`, `free_chain`, `truncate_chain`, `runs`, `dirty_runs`, `clear_dirty` |
| Write ordering, dirty flag | `fs.rs` | `marked_dirty`, the device | `mount*`, `mark_dirty`, `flush_fat`, `write_fs_info`, `sync`, `unmount`, `write_blocks` |
| Directory writes | `fs.rs`, `dir.rs` | slots on the device | `edit_entry`, `write_entries`, `delete_entries`, `free_slots`, `grow_directory` |
| File operations | `file.rs` | `File` handles held by the caller | `create_with_size`, `write_at`, `write_file`, `truncate`, `remove`, `read_at` |
| Handles | `file.rs`, `fs.rs` | slot generations | `check_live`, `invalidate_slot` |
| Rename and move | `file.rs` | none of its own | `rename`, `replace_file`, `rename_here`, `move_to_new_name`, `write_new_then_delete` |
| Directory tree | `file.rs`, `fs.rs` | `..` entries | `create_dir`, `remove_dir`, `resolve_dir`, `is_within` |
| Names | `name.rs`, `dir.rs` | none | `stored_name`, alias search, slot building and parsing |
| Caches | `fs.rs` | resident directories, `run_cache` | `read_dir`, `forget_directory`, `take_runs`, `keep_runs` |
| Data transfers | `file.rs`, `fs.rs` | none | `read_span`, `write_span`, `read_blocks` |
| Mount, geometry, partitions | `fs.rs`, `boot.rs`, `mbr.rs` | boot sector fields | `BootSector::parse`, `FsInfo::parse`, `Mbr::parse`, `mount_within` |
| Timestamps | `time.rs` | none | `pack`, `unpack`, `from_unix_seconds` |
| Counters, bridge, code pages | `counted.rs`, `bridge.rs`, `codepage.rs` | wrapping counters, one block buffer | pass-through device adapters |

How they interact: a file operation runs on the caller's thread (`&mut self`, so
there is one at a time), resolves its path through the resident directories,
changes the table in memory, calls `flush_fat` at the point its ordering rule
names, and writes its directory entry through `edit_entry` or `write_entries`.
Every write passes `write_blocks`, which raises the volume's dirty flag first;
`sync` flushes, refreshes the FSInfo hints and lowers the flag.

Nothing is concurrent inside the crate.  What is hard is everything between two
device writes: the power may go out there, the second write may fail and the
call return half done, and the caller may then retry, carry on with something
else, or unmount.

What makes each part correct:

- **Table**: no cluster on two chains, no chain that dangles or loops, no
  cluster allocated and held by nobody, a free count that is always the number
  of free entries, a hint inside the volume, a chain that only ever grows at its
  end or is cut at it.
- **Write ordering**: at every moment the entries on the device name chains that
  the *device's* table holds whole; the flag is up before the first change and
  down only after the last; nothing changed in memory is forgotten by a flush
  that failed.
- **File operations**: each is atomic to a later mount, a length never covers
  bytes that were not written for the file, a call consumes nothing when it
  fails, a call returns.
- **Handles**: a handle never reads or writes another file's clusters.
- **Rename**: at every moment the contents have at most one name, and after
  success exactly one; an existing target is replaced whole.
- **Tree**: `..` leads to the root from everywhere; no directory is its own
  ancestor; a removed directory was empty.
- **Names**: an alias is unique in its directory; what is written parses back.
- **Caches**: a resident directory equals the device's, a cached chain the
  table's.
- **Transfers**: every byte of the range is moved once and no other.
- **Mount, time, adapters**: arithmetic that stays in range and inverts.

## Modules

| Module | What it is |
|---|---|
| `Table` | Pure operators of `fat.rs`: chains, the two searches, what each operation leaves in the table. |
| `FatTable` | `Fat` as a state machine over `Table`, with the set of chains its callers hold. |
| `FileStore` | Abstract: each name is absent or a file of some length, and changes one at a time and at once. |
| `Volume` | The mounted volume over a device: calls split at every device write, failed writes, power cuts. Refines `FileStore`. |
| `Directory` | One directory slot by slot: parsing, free runs, growth, block writes, create, open, write, remove and rename, stale handles, failed writes, power cuts. |
| `Tree` | The directory tree: create, remove, create_dir, remove_dir, moves between directories and their `..`, path resolution, failures and cuts. |
| `Transfer` | Pure operators: byte ranges over a fragmented chain split into device transfers, `read_run`, the bridge's staging. |
| `Times` | Pure operators: civil days, packing and unpacking of dates. |
| `Mount` | Pure operators: boot sector, FSInfo and partition table parsing, what a mount accepts. |
| `Names` | Pure operators: 8.3 names, aliases, long-name slots and reading them back. |
| `Algorithms` | A state machine that takes one input of any of the four, and what they promise of it. |
| `TableProofs` | Lemmas about the table's operators. |
| `FatTableProofs`, `DirectoryProofs`, `TreeProofs`, `AlgorithmsProofs` | The theorems of `FatTable`, `Directory`, `Tree` and `Algorithms`. |
| `VolumeProofs`, `VolumeSoundProofs`, `StoreProofs` | The theorems of `Volume`, each module building on the one before: what is marked and flagged; what the resident table holds for the entries; what the device holds, and the refinement of `FileStore`. |
| `MCFatTable`, `MCVolume`, `MCDirectory`, `MCTree`, `MCAlgorithms` | What TLC instantiates. |

`Volume`, `Directory` and `Tree` look at the same calls at three grains.  `Volume`
has the table's sectors and one slot per name; `Directory` has every slot and block
of one directory and sees the table as the set of allocated files and the number
of clusters the directory has; `Tree` has many directories, an entry per name, and
a table that is written at once.  Each splits a call at every device write it can
see, in the order the code makes them.

### Table

Entries hold their masked value.  Every end-of-chain value is written
`END_OF_CHAIN_MARK` and every value that is not a cluster of the volume
`BAD_CLUSTER`, because `runs` and `next` do not tell them apart; the reserved top
four bits, which `set_entry` preserves, are left out.

A chain is the least set that holds its head and what its members link to.
`WalkSucceeds` is `runs` returning `Ok`: no free and no bad entry on it, and a
member with the mark.  `runs` finds loops by counting; a cluster has one link, so a
walk that reaches a mark cannot have looped.  A member's place in the file is
what remains of the chain's length, which needs no recursion either.

The searches are described by the order they visit clusters in (`SearchKey`):
from the hint to the end, then from the first cluster to the hint.
`find_contiguous` treats the two ranges separately, `find_scattered` takes the
first free clusters of the whole scan, and `allocate` links what it took in that
order.  `HintAfter` and `HintAfterFree` are the two updates of `next_free`.

### FatTable

One action per operation: `Allocate`, `Append`, `FreeChain`, `TruncateChain`,
with the guards the code returns `DiskFull` or a walk error from, and `Reload`,
which is `load` on a volume that was synced.  `heads` stands for the callers: an
operation is given a head some directory entry holds.  A call whose guard fails
changes nothing and is no step.  `Init` is a fresh volume with any clusters
marked bad.

### Volume

Memory is `entries`, `nextFree`, `dirty`, `marked`, the call in progress and the
writes left of its flush.  The device is `fats` (each copy of the table), `dir`
(the entries), `flag` and `bytes`, a record of whose bytes each cluster holds.

A call starts with what it does in memory before its first device write
(`Create`, `WriteToEmpty`, `WriteExtending`, `WriteWithin`, `Shrink`, `Remove`,
`Sync`), and goes on by one step per device access: `MarkDirty` (the flag, from
`write_blocks`), `FlushSector` (one table sector of one copy, in `flush_fat`'s
order), `FlushDone` (`clear_dirty`), `WriteEntry`, `WriteFirst`, `WriteData`,
`WriteSize`, `WriteShrunk`, `DeleteEntry`, `DeleteNames`, `WriteHints`,
`ClearFlag`.  What the code does in memory right after a write, before the next,
is part of the write's action.  `Fail` is a device write reporting an error: the
call returns it, and only `create_with_size` undoes its allocation.  `Crash` is a
power cut followed by a mount, which loads the first copy.

What it assumes:

- a block is written whole or not at all, and an error means the block kept its
  contents;
- file lengths are in clusters, and a write covers whole clusters: the byte split
  inside a block belongs to the transfer code;
- the directory is one cluster with room for every name, so `free_slots` does not
  grow it, and every name has long-name slots, so a remove makes writes after the
  8.3 entry's;
- calls open the path they work on (handles kept across calls are in
  `Directory`);
- `DiskFull` compares against the number of free entries, which `FatTable`
  proves the maintained count to be;
- the volume has an FSInfo sector;
- caches are transparent (`Directory` and `Tree` check that of the resident
  directories, `ResidentAgrees`).

### Directory

The device has `slots`, of which the first `linked` clusters belong to the
directory by the device's table; memory has `length`, the same by the resident
table, `resident`, the parse `read_dir` keeps (its slots stand for it), `held`,
the files whose chain is allocated, and one `handle`.  A file is an identity that
stands for its chain: two entries with one identity share clusters.

A slot is an end marker, deleted, a part of a long name or an 8.3 entry.  `PartsAt`
is `absorb_long_name_slot` and `finish`: parts count as a name only if they are
numbered down to one and carry the entry's checksum, for which the alias stands.
Slots in front of an entry are freed with it whether or not they do (`FirstSlot`,
the code's `long_run`).  `Lookup` is the index of `parse`: an entry's long name
over any alias, the first alias and the last long name winning.  `FreeRun` is the
list `note_free` builds.

A call works out its device writes when it starts, as the code does from one
parse, and then makes one per step: `Edit` is `edit_entry`, `WriteEntries` one
write per block in ascending order, `DeleteEntries` the 8.3 slot and then the parts
from the nearest, all generations having moved first.  A call that needs new slots
is in the step "find" until `FindSlots`, `Grow` or `NoRoom` ends it.  The resident
parse is dropped where the code drops it: after the last block of
`write_entries`, after each `edit_entry`, after growth, and not when a write fails.

The handle is kept while its slot's generation is the one it was stamped with and
forgotten when the generation moves, so `Live` is the rest of `check_live`: an
entry in that slot, of that 8.3 name.  One handle is enough, since nothing a handle
does affects another.

`promised` remembers what the last call on each file reported.  A file is `Unsure`
from the start of a call on it until it reports success; a refused call gives back
what was promised before.

### Tree

The device has `tree`, what each cluster that was ever a directory holds, and
`onDevice`, what its table has allocated; memory has `allocated` and `resident`.
`Trail` is `resolve_dir`; a `..` of 0 leads to the root.  `Reparent` is the write
of the moved directory's `..`, between its new name and the old one's deletion.
`RenameHere` covers both forms of a rename within a directory, either of which may
be the one a name's length asks for.

A removed directory whose flush fails stays resident under a free cluster
(`staled`); the code then reads a directory made there as the old one.  A move that
is cut short leaves two names (`doubled`), as its documentation says.  The
properties that cannot hold in those states say so in their guard, and nothing
else is excepted.

### Transfer, Times, Mount, Names

Loops over a chain's runs or over chunks are recursive functions, one step of the
loop an operator of its own (`AddSpan`, `AddRead`, `AddWrite`, `AddZeros`,
`AddRun`), those over the characters of a name are folds; a device is a function
from addresses to bytes; a boot sector is a record of its fields.  `WriteSpan` and
`ReadSpan` return what they moved and the transfers they made, so that the
properties can bound both.  `Mount` keeps the width of `data_start` (`% Word`),
which wraps in a release build, and `Times` that of a year (`AsYear`).  In `Names` a character may have an upper-case
form of several characters, one that belongs to another letter, or one whose byte
is the deletion mark; a code page is a pair of functions; a long-name slot holds
`CHARS_PER_SLOT` units.  `Algorithms` gives them inputs: one action per family, one
input per behaviour, and each property compares an operator with a definition that
does not look at how the code computes it: the file's bytes in order, a calendar
that goes on by one day, the largest number of clusters that fits.

### Refinement

`FileStore` says what is promised of a volume's files.  `Volume` maps each name to
its length on the device, provided that the chain is there in the first copy of
the table and holds bytes written for that file up to that length, and to
`Damaged`, which no abstract step produces, otherwise.  A power cut or a failed
write maps to no change at all.

## Runs

| Run | Bounds | Question |
|---|---|---|
| `fat_table` (passes) | 5 clusters, any of them bad | Every table the four operations and reloads can reach: `FreeCountExact`, `NoSharedClusters`, `ChainsComplete`, `UsedIsHeld`, `PrefixKept`, `OneChainPerCall` |
| `volume_crash` (passes) | 2 files of up to 2 clusters, 4 clusters with the root, table in one sector, power cuts without limit | `DeviceSound`, `StoreSpec` (refinement), `NoLeakUntroubled`, `CallsReturn` |
| `volume_failures` (passes) | the same with 2 copies of the table in 2 sectors each, failed writes without limit | `MemorySound`, `DirtyCoversDifference`, `CopiesAgree`, `FlagBeforeChange`, `FlagClearedLast` |
| `directory` (passes) | 3 names of 1, 2 and 3 slots, two of which differ by case only; blocks and clusters of 2 slots, up to 3 clusters; 2 files, 1 handle; one failed write or power cut | `DeviceReadable`, `AliasesUnique`, `ResidentAgrees`, `LiveHandleIsItsFile`, `PromisesKept`, `RenameKeepsTheFile`, `SharedOnlyByMoves` |
| `tree` (passes) | the root, 2 directories, 2 files, 2 names, paths of up to two components with `..`; two failed writes or power cuts | `EntriesNameWhatIsThere`, `OneParent`, `ResidentAgrees`, `NoDirectoryLost` |
| `algorithms` (passes) | blocks of 3 bytes, clusters of 2 blocks, every range of chains of up to 3 clusters in up to 2 runs, 4 transfer limits; words of 16 and 32; every day from 1967 to 2110; 4863 boot sectors and 13824 devices; names of up to 8 characters in fields of 4 and 2 | `ReadsExactly`, `WritesExactly`, `RunsInsideVolume`, `BridgeMovesAll`, `DaysAreCalendar`, `StampsReadBack`, `GeometrySound`, `MountedInside`, `NamesReadBack`, `AliasesWork` |
| `directory_retry` (violated) | as `directory`, with one failed write and no power cut | `RenameFreesOnlyTheOld` |
| `tree_dot` (violated) | as `tree`, nothing fails, callers may remove `path/.` | `EntriesNameWhatIsThere` |
| `fat_table_single_run` (violated) | 6 clusters | `SingleRunIfOneExists` |
| `volume_flush_order` (violated) | table in 2 sectors, power cuts | `DeviceSound` |
| `volume_retry` (violated) | table in 1 sector, failed writes, no power cut | `DeviceSound` |
| `volume_leak` (violated) | table in 1 sector, failed writes, no power cut | `FailedCallConsumesNothing` |

Why the bounds are enough: five clusters hold two chains that interleave, a
scattered allocation around a third, a wrap of the search, and a bad cluster in
any of these places.  On the volume, four clusters are the root and three
for two files, so a full volume, reuse of a freed cluster by the other
file, and an append behind a foreign cluster all occur.  The numbers of calls, power
cuts and failed writes are not bounded: the model only remembers whether there has
been one, so mounts cut short in their turn, retries that fail again and leaks that
pile up until the volume is full are all reached.  Two table sectors
make a flush of two writes that can be parted, and two copies one that fails between
the copies.  `volume_crash` has one copy, since a mount reads only the first and its
properties are about that one; the theorems have any number.  A file is used by name
only, so the two are interchangeable; the runs without refinement or liveness use
that symmetry.

In `directory` a three-slot name always straddles two blocks, so that its writes can
be parted; the directory grows twice; deleted and never used slots mix; a short
name takes the alias a longer one wanted, and the other way round; a rename fits in
place, does not, or replaces.  One failure is enough for each of the properties,
because a call after it works from what that failure left and the model has no
other memory of it; `tree` has two, for a failed move followed by a cut.  Two
directories are what a move into one's own contents takes.  The bounds of
`algorithms` are chosen so that each limit is passed as well as met: ranges that
start and end in any place of a block, runs longer than a transfer, fields shorter
than names, tails of one and two digits, counts that do not fit their word, hints
beyond the volume, tables longer than their volume and volumes longer than their
table.  `MaxYear` is 4095, so that FAT's years and those around them fit.  The run ends
after one input, so deadlock is not checked there; it is everywhere else.

Fairness: `WF_vars(Progress)`.  A call runs on its caller's thread and the crate
never waits for anything, so a call in progress takes its next step.  Nothing
obliges a caller to start a call, and nothing obliges a write to fail or the
power to go out.  `CallsReturn` is checked under it.

What the violated runs show:

1. `volume_flush_order`: `flush_fat` writes sectors in ascending order.  When one
   operation changes two sectors, the device can hold an append's link without
   the chain it leads to, or a truncation's freed tail without the mark before
   it.  The comments of `append` and `truncate_chain` ("The link is the **last**
   thing written") hold for the resident table only.  The tests interrupt
   volumes where the changed entries share a sector.
2. `volume_retry`: an append whose flush failed stays in memory; the retried
   write needs no append, skips the flush and records the new length, so the
   device's entry is longer than the device's chain until something flushes.
3. `volume_leak`: calls other than `create_with_size` return an error without
   giving back what they allocated, or after unlinking what they then do not
   free.
4. `fat_table_single_run`: a free run that straddles the hint is not found, and
   the file is scattered.
5. `directory_retry`: a move whose old name could not be deleted leaves two names
   for one chain, as documented.  The caller that tries the same rename again finds
   the new name taken, replaces it by the file it already is, and the chain is
   freed while the name stays.
6. `tree_dot`: `remove_dir("a/.")` finds the entry `.` in `a`, finds `a` empty,
   deletes the `.` and frees `a`'s cluster; `a` keeps its name in its parent.

`volume_crash` is the same model with the table in one sector: there the ordering
rules do what the comments say, for every interleaving of calls and cuts.

## Proofs

For every value of the constants.  Nothing is assumed but what the modules state of
their constants: `TableAssumption` (at least one cluster, at most
`MAX_FAT32_CLUSTERS`, at least one entry per sector), `VolumeAssumption` (a copy of
the table and a cluster besides the root's), `DirectoryAssumption` (every name has an
alias to try, clusters are whole blocks, the value that stands for no file is none),
`TreeAssumption` (the root is not one of the clusters given out, of which there are
finitely many, files are not directories, and the values that stand for no entry,
cluster 0 and a former owner's bytes are neither), and for the pure operators
`TransferAssumption`, `MountAssumption`, `NamesAssumption`, `BootSectorsAssumption`,
`DevicesAssumption`, `TransfersAssumption`, `TimesAssumption` and `MomentsAssumption`
(the code's limits are numbers, FAT's last year fits the type of a year, the highest
cluster fits the word, whatever a sector is read as its fields are natural numbers, a
device has a first sector, the chains transferred are those the table holds: valid
clusters, no run empty, none sharing a cluster with another, and moments are days and
seconds of a day).  Where a theorem needs more, it says so in
its statement, and the reason is given below.

**The table.**

- `TableProofs`: lemmas on the operators.  A chain is the least closed set from
  its head (`ChainLeast`) and disjoint from chains it does not meet
  (`ChainsDisjoint`); an allocation takes free clusters (`ChosenFree`), and
  linking, appending, freeing and cutting keep the table *well linked*
  (`LinkedWell`, `AppendedWell`, `FreedWell`, `CutAfterWell`).
- `FatTableProofs`: `Spec => []` of `TypeOK`, `FreeCountExact`, `NoSharedClusters`,
  `ChainsComplete` and `UsedIsHeld`, and `OneChainPerCall` and `PrefixKept` as
  properties of every step.  The properties are not inductive alone: two disjoint
  chains say nothing about a used cluster on neither, which a link could lead into.
  The invariant `IInv` adds that links are one-to-one, lead only to allocated clusters
  and never to a held head, and that every held chain can be walked to its mark;
  `HInv` adds that every allocated cluster is on a held chain.  A chain can only grow
  where every link stays (`ChainGrows`); what an allocation links is one chain, since
  each cluster of it is linked to by the one found before it (`LinkedIsOneChain`); of
  two clusters of a chain one comes after the other (`ChainIsOrdered`), so an append or
  a truncation moves the end of every suffix of the chain alike (`ShiftedInPlace`);
  and a chain nothing links into does not loop (`NoLoop`), so what a truncation cuts
  is what its new end linked to.

**The volume**, for any number of files, clusters, table sectors and copies.

- `VolumeProofs`: `DirtyCoversDifference` as an invariant, `FlagBeforeChange` and
  `FlagClearedLast` as properties of every step, with any number of failures and power
  cuts.  The invariant `VInv` adds that within a flush the sectors already written to
  the first copy agree with memory, that `marked` implies the flag, and that the table
  is clean between a sync's flush and its last write.  `CopiesAgree` says of every copy
  what `DirtyCoversDifference` says of the first, until the power goes out, and is
  inductive with the same addition for each copy (`KInv`).  What `FlagBeforeChange`
  counts as a change is any write but the flag's own: of a table sector, an entry, a
  cluster's bytes (`DataLands`) or the hints (`HintsLand`).
- `VolumeSoundProofs`: `TypeOK` and `NoLeakUntroubled` as they stand, and `MemorySound`
  until the first power cut, however many writes fail.  None is inductive, because a
  call holds a chain that no entry names for as long as it lasts.  `CInv` says where a
  call stands: which of its steps it can be in, with what file, chain and length, and
  what the entry it will write next still says.  On top of it, `Owned` gives every
  chain one owner, which is the root, an entry, or the call (`Pending`: a chain reserved
  and not yet named, or one whose entry has gone and whose clusters are freed last), and
  `NoLeak` says that until a call fails every allocated cluster has an owner.  Each
  operation of the table moves chains between owners by the lemmas of `TableProofs`.
- `StoreProofs`: `DeviceSound`, and that `Volume` implements `FileStore`.  `OnDevice`
  says that outside a flush the first copy of the table is the resident one, and that
  where no flush parts it the first copy is sound for the entries: the table changes
  only on the way into a flush, and an entry names or drops a chain only where both
  tables bear it, which is what the order of each call's writes is for.
  `Bytes` says whose bytes the clusters of a chain hold: an entry's up to its length,
  and a write's as far as it has got.  From the two, what a mount would read of a file
  is its length (`LengthsAreSizes`), so the refinement mapping is `dir`'s sizes, and a
  step of the volume is a step of the store exactly when it writes an 8.3 entry whose
  length changes.

The hypotheses of `StoreProofs` are the circumstances in which the code keeps its
promise, and the violated runs show that none can be dropped:

| Theorem | Supposes | Otherwise |
|---|---|---|
| `SoundOnDevice`, `FilesReadBack` | no write has failed and no power cut has come; not between two sectors of one flush of the first copy (`Unbroken`) | `volume_retry`; `volume_flush_order` |
| `SoundAtEveryCut` | a copy of the table is one sector (`OneSector`); no write has failed | `volume_flush_order`; `volume_retry` |
| `ImplementsStore` | `OneSector`, and a device whose writes land (`~MayFail`) | the same two |

So with a table of any size the first cut that does not part a flush finds every
entry's chain whole and every file's bytes its own, and with a flush that cannot be
parted any number of cuts do.

Proving `CInv` found one fault of the model: `WriteExtending` could start with nothing
beyond the file's chain to write, a write of no bytes at the end, which `write_at`
returns from before it reserves anything (`file.rs:709`); the guard `at < want` is that
return.

**The directory.**

- `DirectoryProofs`: `TypeOK`, `DeviceReadable`, `ResidentAgrees`,
  `LiveHandleIsItsFile`, `SharedOnlyByMoves` and `RenameKeepsTheFile`, for any names,
  files and aliases, slots per block and blocks per cluster, and any number of failed
  writes and power cuts.  A call works out its device writes from one parse and
  makes them one by one, so no property is inductive without saying what the writes
  left will find.  `Fit` says that of a sequence of writes: each goes to a slot of the
  directory, none puts an entry past an end marker that stays or in a cluster the
  device does not link by then, the slot of a live handle keeps its file unless its
  generation moves first, and one that keeps the resident parse touches no entry.
  A suffix of a fitting sequence fits what its first write leaves, which is what a
  step needs, and what a call begins with fits by the code's plan: `FreeRun` takes
  free slots only, and its last reaches no further than the end marker.
  `RenameKeepsTheFile` adds `Keeps`: some entry now holds the renamed file, and stays
  until the write that makes another.  `SharedOnlyByMoves` adds `Apart`: a call writes
  entries of one file in one slot, writes over every other entry of that file, and
  unless it moves the file does so first.

**The tree**, for any number of directories, files, names, paths, failed writes and
power cuts, and of any depth.

- `TreeProofs` proves every property of the `tree` run: `TypeOK`, `ResidentAgrees`,
  `EntriesNameWhatIsThere` and `OneParent` as invariants and `NoDirectoryLost` as a
  property of every step, for callers that do not remove `path/.` (`Spec`; with them,
  `tree_dot` shows that entries come to name what is free).  Two inductive invariants
  do it.
- `RInv`, for `ResidentAgrees`: a create_dir writes its new directory past any resident
  parse, so agreement alone is not inductive.  `RInv` adds that only allocated
  directories are resident (a path leads through no others, and a flush that frees one
  drops it), so that the cluster of a new one is not, and that no other write left of a
  call skips the drop.
- `NInv`, for the rest: `Typed`; `Planned`, which says of each sequence of writes a call
  may have left what those will find (what is being made has no name yet, what is being
  removed no longer has one when its chain is freed, what is being moved has exactly the
  old name, both or the new one, and a `..` that goes with it); and, until a move is cut
  short, `OneTree`: what has a name, reached or not, is allocated in memory and on the
  device, has that one name and a `..` that follows it, and a directory kept resident
  under a cluster that is free shows no names.  That last part is what a removal whose
  flush failed leaves behind, and what made `OneParent` provable without excepting it.
- Paths and walks have no bound on their length, and the provers have no induction over
  them.  The proofs take the least place where a claim about a walk fails
  (`LeastOfSome`) and show that the place before it fails too: so the walk of `Reached`
  is closed (`ReachedIsClosed`, because a round that finds nothing new is the last, and
  there are not more directories than rounds) and the least closed set
  (`ReachedIsLeast`), and a path leads to what it reaches (`PathsStayReached`).
- `NoDirectoryLost` then rests on `NotWithin`: where the climb by `..` of `is_within`
  does not meet a directory, the root leads to where it started by other directories.
  A move keeps that (`Clear`) until it deletes the old name, so what the new name is in
  is still reached without the old one.  Every other write changes names of files, of an
  empty directory, or none (`StillReached`).

**The pure parts.**

- `AlgorithmsProofs`: `RunsInsideVolume` for volumes and runs of any size;
  `GeometrySound` for every boot sector, with the cluster sizes the code accepts; and
  `MountedInside` for every device, partition table and boot sector.
  Dividing by each of the eight powers of two is linear (`DivideByPower`), from which
  the count of clusters is the largest that both the data area and the table hold
  (`LargestCount`); each refusal of `Parse` is what its fields say (`Declined`); the
  last cluster ends inside the volume (`LastCluster`), the volume inside what
  `mount_within` was told to hold it to (`Within`), and the three ways to mount
  differ only in what they tell it.
- `DaysAreCalendar` for every day whose year fits an `i32` (`InYears`), before and after
  1970, and `StampsReadBack` for every second of those days; for the others the cast
  (`AsYear`) comes round, and no run asks about them: `civil_from_days` casts before
  `from_unix_seconds` clamps, so 135536077748150352 seconds, in the year 4294969295,
  are stamped 1999 where the comment at `time.rs:245` promises the nearest date.  The arithmetic is done a piece at a
  time: March years follow one another (`YearsFollow`), a day falls into one of them
  (`DayInYear`) and the division by 146096 finds it (`YearOfEra`), which makes
  `civil_from_days` the year, month and day of its place in that year (`CivilOf`);
  months are one case each.  The bit fields come apart again because each stays within
  its width (`PackedBack`).  Years go forward (`YearsGrow`), so the cast leaves the year
  of a day within `InYears` as it is (`YearFits`).
- `ReadsExactly`, `WritesExactly` and `BridgeMovesAll` for chains of any number of runs
  of any lengths, any ranges, limits, block and cluster sizes, chunks and staging
  buffers.  A chain is first turned into bytes: each byte of the file has one address, no
  two share one (`AddressApart`), and it lies in a block of the run that has it
  (`AddressBlock`).  The loop of `read_at` then has an invariant, `CutUpTo`: the spans so
  far cut the range up to where the runs so far end, without gap or overlap
  (`AddSpanCuts`).  For each span `ReadSpanIs` and `WriteSpanIs` say what its three parts
  add up to, whichever of them are empty: the bytes asked for and no others
  (`Placed` of a write), in transfers that keep to the limit and to the span's blocks.
  Over the spans, and over the passes of `zero_range`, that gives what has been read
  (`ReadUpTo`) or written (`WrittenUpTo`) up to there.
- Each of these loops needs an induction over its rounds.  The provers cannot take a
  property as a parameter, but a set will do: `UpTo` says that a set with 0 in it, and
  with each number after one it has, has them all, and each loop's invariant is given
  to it as the set of the rounds that have it.

Only model-checked, and why:

- `CallsReturn`: liveness depends on fairness, which is outside the prover's reach.
- `NamesReadBack` and `AliasesWork`: a name goes through folds over its characters, its
  slots and the digits of its tail, each with a different step.  Each would need
  lemmas like those of the transfers, and what they would say for all names depends on
  what the code page maps to what.
- `AliasesUnique` and `PromisesKept` of `Directory`: they do not hold for every
  value of the constants.  A name spelled like an alias that another name left
  orphaned slots for takes those over (see below), and what is promised by name is
  then found under another; the proof would need an assumption on the names that no
  code makes true.
- `DeviceSound` past the first power cut with a table of several sectors, and
  `MemorySound` past it: a cut may part a flush, and then they are false.

## Where a property stops short

- `AliasesUnique`, `SharedOnlyByMoves` (`Directory`) and `EntriesNameWhatIsThere`,
  `OneParent`, `NoDirectoryLost` (`Tree`) say nothing once a move has been cut short
  with both names in place (`doubled`): calling `remove` on either then frees what
  the other names.
- `ResidentAgrees` and `NoDirectoryLost` of `Tree` say nothing once the flush of
  `remove_dir` has failed (`staled`), until the next mount.
- `LiveHandleIsItsFile` lets a handle stay live when a rename in place keeps its
  8.3 alias.  The documentation of `rename` (`file.rs:842`) calls every handle to
  the source stale; the code refuses one only where its slot was freed or its alias
  changed.  What is written through it still goes to its own file.
- `CopiesAgree` says nothing once the power has gone out: a copy left behind then
  stays different until each of its sectors is next dirtied.
- `GeometrySound` supposes that `data_start` does not wrap (`SumFits`), and so does
  what `MountedInside` says of clusters; `BridgeMovesAll` supposes that block numbers
  fit 32 bits, and `DaysAreCalendar` and `StampsReadBack` that the year does.
- `NamesReadBack` excepts names stored in the case bits alone that have a
  lower-case letter whose upper case is another letter's (`ComesBack`): the long s
  is stored as `S` with the lower-case bit and reads back as `s`.
- `PromisesKept` asks for the display name only while nothing has failed: a
  rename in place that is interrupted may show the alias or, if parts of the old
  and of the new name add up, a name of both.
- No name of `directory`'s instance is spelled like an alias that another name may
  leave orphaned slots for.  A file created by exactly such a name takes over a
  complete orphaned long name, since the checksum is that of its own 8.3 name.
- The models take an error to mean the block kept its contents.  A device that
  reports an error for a write that landed defeats every undo in the crate.

## Not modelled

- Transfer counters (`counted.rs`): each call adds one and passes through, and a
  difference of snapshots is one wrapping subtraction; there is no order of steps
  to get wrong.
- The run cache: `take_runs` and `keep_runs` compare one change counter of the table
  and nothing but reads runs between them.
- Clocks and the display of dates, attributes and sizes of directory entries.
- The contents of the code pages, the wording of errors, `Debug` output, and
  allocation failure of the host.

## Plan

What is left, the most consequential first:

1. `MemorySound` across power cuts where a copy is one sector and writes fail: what a
   mount loads after a failed call's leak.
2. `AliasesUnique` under a named assumption that no name is spelled like another's
   alias, with a run that has such names beside it.
3. `NamesReadBack` for every name, its folds written as recursive functions like those
   of `Transfer`.
4. The run cache, if it ever reads more than the one change counter.
