------------------------------- MODULE Volume -------------------------------
(***************************************************************************)
(* A mounted volume: the resident table of src/src/fat.rs, the write       *)
(* ordering of src/src/fs.rs and the file operations of src/src/file.rs,   *)
(* over a device whose every write is a step of its own that may land,     *)
(* report an error, or be the last one before the power goes out.          *)
(*                                                                         *)
(* Directory entries are written through, the table is written back: the   *)
(* order in which the two reach the device decides what a mount after a    *)
(* crash finds.  A file is one 8.3 entry in a directory with room for it,  *)
(* its length is counted in clusters, and the root directory is the one-   *)
(* cluster chain at FIRST_CLUSTER.  Calls open the path they work on.      *)
(***************************************************************************)
EXTENDS Table

CONSTANTS Files,        \* the names in the directory
          MaxSize,      \* bound: the longest file, in clusters
          FatCount,     \* copies of the table on the device, fat_count
          MayFail,      \* whether device writes may report errors
          MayLosePower  \* whether the power may go out

ASSUME VolumeAssumption ==
    /\ MaxSize \in Nat
    /\ FatCount \in Nat \ {0}
    /\ MayFail \in BOOLEAN
    /\ MayLosePower \in BOOLEAN
    /\ ClusterCount > 1

VARIABLES entries,    \* memory: the resident table
          nextFree,   \* memory: where the next allocation starts
          dirty,      \* memory: table sectors changed since the last flush
          marked,     \* memory: marked_dirty, this mount has set the flag
          call,       \* memory: the call in progress, or Idle
          todo,       \* memory: the sector writes left of the flush under way
          fats,       \* device: the copies of the table
          dir,        \* device: the directory's entries
          flag,       \* device: the boot sector's dirty bit
          bytes,      \* device: whose bytes each cluster holds
          failed,     \* a device write has reported an error
          interrupted \* the power has gone out

memory == <<entries, nextFree, dirty, marked, call, todo>>
device == <<fats, dir, flag, bytes>>
vars   == <<memory, device, failed, interrupted>>

Copies  == 1 .. FatCount
NoEntry == [first |-> 0, size |-> -1]
Entry   == [first : Clusters \cup {0}, size : 0 .. MaxSize]
Stale   == "stale"
Present(f) == dir[f] # NoEntry

\* A call in progress: what it does to which file, the size it is to end
\* with, the cluster its data goes on from, the first cluster it works with,
\* and the device access it has reached.
Ops   == {"none", "create", "write", "shrink", "remove", "sync"}
Steps == {"idle", "flush", "create", "first", "data", "size", "shrink",
          "delete", "names", "hints", "clear"}
Calls == [op : Ops, file : Files \cup {Stale}, want : 0 .. MaxSize,
          at : 0 .. MaxSize, first : Clusters \cup {0}, step : Steps]
Idle  == [op |-> "none", file |-> Stale, want |-> 0, at |-> 0, first |-> 0,
          step |-> "idle"]

-----------------------------------------------------------------------------
(***************************************************************************)
(* Changing the resident table marks sectors dirty, nothing more.          *)
(***************************************************************************)

Touched(S) == dirty' = dirty \cup {SectorOf(c) : c \in S}

\* allocate(count) for file f, whose clusters still hold stale bytes.
Allocate(f, count) ==
    LET got == Chosen(entries, nextFree, count)
    IN  /\ entries' = Linked(entries, nextFree, got)
        /\ nextFree' = HintAfter(nextFree, got)
        /\ Touched(got)
        /\ bytes' = [c \in Clusters |-> IF c \in got THEN Stale ELSE bytes[c]]

\* append(last, count).
Append(h, count) ==
    LET got  == Chosen(entries, nextFree, count)
        last == LastOf(entries, h)
    IN  /\ entries' = Appended(entries, nextFree, got, last)
        /\ nextFree' = HintAfter(nextFree, got)
        /\ Touched(got \cup {last})
        /\ bytes' = [c \in Clusters |-> IF c \in got THEN Stale ELSE bytes[c]]

\* free_chain(h); a walk that fails changes nothing.
Free(h) ==
    IF WalkSucceeds(entries, h)
    THEN /\ entries' = Freed(entries, h)
         /\ nextFree' = HintAfterFree(entries, h, nextFree)
         /\ Touched(Chain(entries, h))
    ELSE UNCHANGED <<entries, nextFree, dirty>>

\* truncate_chain(h, keep) for 0 < keep < length.
Cut(h, keep) ==
    \E last \in Chain(entries, h) :
        /\ PlaceIn(entries, h, last) = keep - 1
        /\ entries' = CutAfter(entries, last)
        /\ nextFree' = HintAfterFree(entries, entries[last], nextFree)
        /\ Touched({last} \cup Chain(entries, entries[last]))

-----------------------------------------------------------------------------
(***************************************************************************)
(* flush_fat: each stretch of adjacent dirty sectors, once per copy, in    *)
(* ascending order.  A sector is what the device writes atomically.        *)
(***************************************************************************)

StretchStart(s) ==
    CHOOSE r \in dirty : /\ r <= s /\ r .. s \subseteq dirty
                         /\ r - 1 \notin dirty

\* Write p = <<copy, sector>> is made before q.
Before(p, q) ==
    LET a == StretchStart(p[2])
        b == StretchStart(q[2])
    IN  \/ a < b
        \/ a = b /\ p[1] < q[1]
        \/ a = b /\ p[1] = q[1] /\ p[2] < q[2]

NextWrite == CHOOSE p \in todo : \A q \in todo \ {p} : Before(p, q)

\* Mutant of Flushing: the first copy of the table is left out.
FlushingBackups(c) == /\ call' = [c EXCEPT !.step = "flush"]
                      /\ todo' = (Copies \ {1}) \X dirty'

\* Mutant of Flushing: only the copy that is read is written.
FlushingFirst(c) == /\ call' = [c EXCEPT !.step = "flush"]
                    /\ todo' = {1} \X dirty'

\* The call's state when it reaches a flush: the writes are worked out from
\* the table as it has just become.
Flushing(c) == /\ call' = [c EXCEPT !.step = "flush"]
               /\ todo' = Copies \X dirty'

Return == call' = Idle /\ todo' = {}
Goto(step) == call' = [call EXCEPT !.step = step] /\ UNCHANGED todo

\* Steps that are device writes made through write_blocks, which raises the
\* dirty flag first.
MarkingSteps == {"create", "first", "data", "size", "shrink", "delete", "names", "hints"}
WriteDue == \/ call.step \in MarkingSteps
            \/ call.step = "flush" /\ todo # {}

-----------------------------------------------------------------------------
(***************************************************************************)
(* Calls.  Each starts with what happens in memory before its first device *)
(* write; a call refused by a guard changes nothing and is no step.        *)
(***************************************************************************)

\* Mutant of Starting: data goes to the last cluster of the range only, so a
\* gap past the old end is not zeroed.
StartingLate(op, f, want, at, first) ==
    [op |-> op, file |-> f, want |-> want, at |-> IF want = 0 THEN 0 ELSE want - 1,
     first |-> first, step |-> "idle"]

Starting(op, f, want, at, first) ==
    [op |-> op, file |-> f, want |-> want, at |-> at, first |-> first, step |-> "idle"]

HasRoom(count) == count <= Cardinality(FreeClusters(entries))
FirstOf(count) == FirstFound(nextFree, Chosen(entries, nextFree, count))

\* create_with_size(f, count): the reservation is flushed before the entry
\* that names it is written.
Create(f, count) ==
    /\ call = Idle
    /\ ~Present(f)
    /\ HasRoom(count)
    /\ IF count = 0
       THEN UNCHANGED <<entries, nextFree, dirty, bytes>>
       ELSE Allocate(f, count)
    /\ Flushing(Starting("create", f, 0, 0, IF count = 0 THEN 0 ELSE FirstOf(count)))
    /\ UNCHANGED <<marked, fats, dir, flag, failed, interrupted>>

\* write_at of a range ending at `want`, or a growing truncate.  Data goes
\* to clusters from `at`: the offset, or the old end when the offset is past
\* it, since that gap is zeroed first.  `reserve` has three cases.
WriteToEmpty(f, want) ==
    /\ call = Idle
    /\ Present(f)
    /\ dir[f].first = 0
    /\ HasRoom(want)
    /\ Allocate(f, want)
    /\ Flushing(Starting("write", f, want, dir[f].size, FirstOf(want)))
    /\ UNCHANGED <<marked, fats, dir, flag, failed, interrupted>>

WriteExtending(f, at, want) ==
    /\ call = Idle
    /\ Present(f)
    /\ at <= dir[f].size
    /\ at < want
    /\ WalkSucceeds(entries, dir[f].first)
    /\ want > ChainLength(entries, dir[f].first)
    /\ HasRoom(want - ChainLength(entries, dir[f].first))
    /\ Append(dir[f].first, want - ChainLength(entries, dir[f].first))
    /\ Flushing(Starting("write", f, want, at, dir[f].first))
    /\ UNCHANGED <<marked, fats, dir, flag, failed, interrupted>>

WriteWithin(f, at, want) ==
    /\ call = Idle
    /\ Present(f)
    /\ at <= dir[f].size
    /\ at < want
    /\ WalkSucceeds(entries, dir[f].first)
    /\ want <= ChainLength(entries, dir[f].first)
    /\ call' = [Starting("write", f, want, at, dir[f].first) EXCEPT !.step = "data"]
    /\ UNCHANGED <<entries, nextFree, dirty, marked, todo, device, failed, interrupted>>

\* truncate to a smaller size: the entry first, then the chain.
Shrink(f, want) ==
    /\ call = Idle
    /\ Present(f)
    /\ want < dir[f].size
    /\ call' = [Starting("shrink", f, want, 0, dir[f].first) EXCEPT !.step = "shrink"]
    /\ UNCHANGED <<entries, nextFree, dirty, marked, todo, device, failed, interrupted>>

\* remove: the entry first, then the chain.
Remove(f) ==
    /\ call = Idle
    /\ Present(f)
    /\ call' = [Starting("remove", f, 0, 0, dir[f].first) EXCEPT !.step = "delete"]
    /\ UNCHANGED <<entries, nextFree, dirty, marked, todo, device, failed, interrupted>>

\* Mutant of Sync: the table is not flushed before the flag is cleared.
SyncUnflushed ==
    /\ call = Idle
    /\ marked
    /\ call' = [Starting("sync", Stale, 0, 0, 0) EXCEPT !.step = "hints"]
    /\ UNCHANGED <<entries, nextFree, dirty, marked, todo, device, failed, interrupted>>

\* sync, which returns at once unless this mount has raised the flag.
Sync ==
    /\ call = Idle
    /\ marked
    /\ UNCHANGED <<entries, nextFree, dirty>>
    /\ Flushing(Starting("sync", Stale, 0, 0, 0))
    /\ UNCHANGED <<marked, device, failed, interrupted>>

-----------------------------------------------------------------------------
(***************************************************************************)
(* Device writes.                                                          *)
(***************************************************************************)

\* Mutant of MarkDirty: marked_dirty is never set, so every write asks again.
MarkDirtyForgotten ==
    /\ WriteDue
    /\ ~marked
    /\ flag' = TRUE
    /\ UNCHANGED <<memory, fats, dir, bytes, failed, interrupted>>

\* mark_dirty: the flag reaches the device before the first change does.
MarkDirty ==
    /\ WriteDue
    /\ ~marked
    /\ marked' = TRUE
    /\ flag' = TRUE
    /\ UNCHANGED <<entries, nextFree, dirty, call, todo, fats, dir, bytes, failed, interrupted>>

FlushSector ==
    /\ call.step = "flush"
    /\ marked
    /\ todo # {}
    /\ LET p == NextWrite
       IN  /\ fats' = [fats EXCEPT ![p[1]] =
                          [c \in Clusters |-> IF SectorOf(c) = p[2] THEN entries[c] ELSE @[c]]]
           /\ todo' = todo \ {p}
    /\ UNCHANGED <<entries, nextFree, dirty, marked, call, dir, flag, bytes, failed, interrupted>>

\* clear_dirty, and on to what the call flushed for.
FlushDone ==
    /\ call.step = "flush"
    /\ todo = {}
    /\ dirty' = {}
    /\ CASE call.op = "create" -> Goto("create")
         [] call.op = "write"  -> Goto(IF dir[call.file].first = 0 THEN "first" ELSE "data")
         [] call.op = "sync"   -> Goto("hints")
         [] OTHER              -> Return
    /\ UNCHANGED <<entries, nextFree, marked, device, failed, interrupted>>

\* write_entries, the 8.3 entry last: length zero over the reserved chain.
WriteEntry ==
    /\ call.step = "create"
    /\ marked
    /\ dir' = [dir EXCEPT ![call.file] = [first |-> call.first, size |-> 0]]
    /\ Return
    /\ UNCHANGED <<entries, nextFree, dirty, marked, fats, flag, bytes, failed, interrupted>>

\* reserve names the chain it gave an empty file, length unchanged.
WriteFirst ==
    /\ call.step = "first"
    /\ marked
    /\ dir' = [dir EXCEPT ![call.file].first = call.first]
    /\ Goto("data")
    /\ UNCHANGED <<entries, nextFree, dirty, marked, fats, flag, bytes, failed, interrupted>>

\* write_chain, one cluster at a time along the resident chain.
WriteData ==
    /\ call.step = "data"
    /\ marked
    /\ \E c \in Chain(entries, call.first) :
        /\ PlaceIn(entries, call.first, c) = call.at
        /\ bytes' = [bytes EXCEPT ![c] = call.file]
    /\ \/ /\ call.at + 1 < call.want
          /\ call' = [call EXCEPT !.at = @ + 1]
          /\ UNCHANGED todo
       \/ /\ call.at + 1 = call.want
          /\ call.want > dir[call.file].size
          /\ Goto("size")
       \/ /\ call.at + 1 = call.want
          /\ call.want <= dir[call.file].size
          /\ Return
    /\ UNCHANGED <<entries, nextFree, dirty, marked, fats, dir, flag, failed, interrupted>>

\* The length follows the data.
WriteSize ==
    /\ call.step = "size"
    /\ marked
    /\ dir' = [dir EXCEPT ![call.file] = [first |-> call.first, size |-> call.want]]
    /\ Return
    /\ UNCHANGED <<entries, nextFree, dirty, marked, fats, flag, bytes, failed, interrupted>>

\* truncate's entry write, with the truncate_chain that follows it.
WriteShrunk ==
    /\ call.step = "shrink"
    /\ marked
    /\ dir' = [dir EXCEPT ![call.file] =
                 [first |-> IF call.want = 0 THEN 0 ELSE call.first, size |-> call.want]]
    /\ IF WalkSucceeds(entries, call.first)
       THEN /\ CASE call.want = 0 -> Free(call.first)
                 [] call.want > 0 /\ call.want < ChainLength(entries, call.first)
                      -> Cut(call.first, call.want)
                 [] OTHER -> UNCHANGED <<entries, nextFree, dirty>>
            /\ Flushing(call)
       ELSE UNCHANGED <<entries, nextFree, dirty>> /\ Return
    /\ UNCHANGED <<marked, fats, flag, bytes, failed, interrupted>>

\* delete_entries marks the 8.3 slot deleted first.
DeleteEntry ==
    /\ call.step = "delete"
    /\ marked
    /\ dir' = [dir EXCEPT ![call.file] = NoEntry]
    /\ Goto("names")
    /\ UNCHANGED <<entries, nextFree, dirty, marked, fats, flag, bytes, failed, interrupted>>

\* Mutant of DeleteNames: the chain is not freed.
DeleteNamesOnly ==
    /\ call.step = "names"
    /\ marked
    /\ Return
    /\ UNCHANGED <<entries, nextFree, dirty, marked, device, failed, interrupted>>

\* The long-name slots follow, and once they are gone the chain is freed.
DeleteNames ==
    /\ call.step = "names"
    /\ marked
    /\ IF WalkSucceeds(entries, call.first)
       THEN Free(call.first) /\ Flushing(call)
       ELSE UNCHANGED <<entries, nextFree, dirty>> /\ Return
    /\ UNCHANGED <<marked, device, failed, interrupted>>

\* write_fs_info; sync then forgets the flag before it clears it.
WriteHints ==
    /\ call.step = "hints"
    /\ marked
    /\ marked' = FALSE
    /\ Goto("clear")
    /\ UNCHANGED <<entries, nextFree, dirty, device, failed, interrupted>>

ClearFlag ==
    /\ call.step = "clear"
    /\ flag' = FALSE
    /\ Return
    /\ UNCHANGED <<entries, nextFree, dirty, marked, fats, dir, bytes, failed, interrupted>>

-----------------------------------------------------------------------------

\* Mutants of Fail: undoing every call the way create is undone; forgetting
\* the dirty sectors of a flush that failed; keeping marked_dirty set when the
\* flag did not reach the device.
FailUndoingAll ==
    /\ WriteDue \/ call.step = "clear"
    /\ MayFail
    /\ failed' = TRUE
    /\ Free(call.first)
    /\ Return
    /\ UNCHANGED <<marked, device, interrupted>>

FailForgetting ==
    /\ WriteDue
    /\ MayFail
    /\ failed' = TRUE
    /\ dirty' = {}
    /\ Return
    /\ UNCHANGED <<entries, nextFree, marked, device, interrupted>>

FailMarked ==
    /\ WriteDue
    /\ MayFail
    /\ failed' = TRUE
    /\ marked' = TRUE
    /\ Return
    /\ UNCHANGED <<entries, nextFree, dirty, device, interrupted>>

\* A device write reports an error and the call returns it.  Only create
\* gives back what it had allocated.
Fail ==
    /\ WriteDue \/ call.step = "clear"
    /\ MayFail
    /\ failed' = TRUE
    /\ IF call.op = "create" THEN Free(call.first)
                             ELSE UNCHANGED <<entries, nextFree, dirty>>
    /\ Return
    /\ UNCHANGED <<marked, device, interrupted>>

\* The power goes out and the volume is mounted again: load reads the first
\* copy of the table.
Crash ==
    /\ MayLosePower
    /\ interrupted' = TRUE
    /\ entries' = fats[1]
    /\ nextFree' = FIRST_CLUSTER
    /\ dirty' = {}
    /\ marked' = FALSE
    /\ Return
    /\ UNCHANGED <<device, failed>>

Init ==
    /\ entries = [c \in Clusters |-> IF c = FIRST_CLUSTER THEN END_OF_CHAIN_MARK ELSE FREE]
    /\ nextFree = FIRST_CLUSTER
    /\ dirty = {}
    /\ marked = FALSE
    /\ call = Idle
    /\ todo = {}
    /\ fats = [i \in Copies |-> entries]
    /\ dir = [f \in Files |-> NoEntry]
    /\ flag = FALSE
    /\ bytes = [c \in Clusters |-> Stale]
    /\ failed = FALSE
    /\ interrupted = FALSE

Start ==
    \/ \E f \in Files, count \in 0 .. MaxSize : Create(f, count)
    \/ \E f \in Files, want \in 1 .. MaxSize : WriteToEmpty(f, want)
    \/ \E f \in Files, want \in 1 .. MaxSize, at \in 0 .. MaxSize : WriteExtending(f, at, want)
    \/ \E f \in Files, want \in 1 .. MaxSize, at \in 0 .. MaxSize : WriteWithin(f, at, want)
    \/ \E f \in Files, want \in 0 .. MaxSize : Shrink(f, want)
    \/ \E f \in Files : Remove(f)
    \/ Sync

Progress ==
    \/ MarkDirty  \/ FlushSector \/ FlushDone   \/ WriteEntry  \/ WriteFirst \/ WriteData
    \/ WriteSize  \/ WriteShrunk \/ DeleteEntry \/ DeleteNames \/ WriteHints \/ ClearFlag

Next == Start \/ Progress \/ Fail \/ Crash

\* The caller's thread runs: a call in progress takes its next step.
Spec == Init /\ [][Next]_vars /\ WF_vars(Progress)

-----------------------------------------------------------------------------
(***************************************************************************)
(* What is checked.                                                        *)
(***************************************************************************)

\* The types of the state.
TypeOK ==
    /\ entries \in Tables
    /\ nextFree \in Clusters
    /\ dirty \subseteq Sectors
    /\ marked \in BOOLEAN
    /\ call \in Calls
    /\ todo \subseteq Copies \X Sectors
    /\ fats \in [Copies -> Tables]
    /\ dir \in [Files -> Entry \cup {NoEntry}]
    /\ flag \in BOOLEAN
    /\ bytes \in [Clusters -> Files \cup {Stale}]
    /\ failed \in BOOLEAN
    /\ interrupted \in BOOLEAN

\* The files whose entry names a chain.
Chained == {f \in Files : dir[f].first # 0}

\* Every entry on the device names a chain that the table e holds whole, in
\* clusters no other entry and no directory has, and long enough for its
\* length.
Sound(e) ==
    /\ WalkSucceeds(e, FIRST_CLUSTER)
    /\ \A f \in Chained :
          /\ WalkSucceeds(e, dir[f].first)
          /\ dir[f].size <= ChainLength(e, dir[f].first)
          /\ FIRST_CLUSTER \notin Chain(e, dir[f].first)
    /\ \A f, g \in Chained :
          f # g => Chain(e, dir[f].first) \cap Chain(e, dir[g].first) = {}

\* Whenever the power goes out, the mount that follows finds nothing dangling
\* and nothing shared: the table it loads is sound for the entries on the
\* device.  This is what tests/write.rs interrupts calls to look for.
DeviceSound == Sound(fats[1])

\* The resident table is sound for the entries on the device too, failed
\* calls or not, so the next allocation takes no cluster a name still holds.
MemorySound == Sound(entries)

\* What the resident table and the first copy disagree on is marked dirty,
\* so the next flush that succeeds reconciles them.
DirtyCoversDifference ==
    \A c \in Clusters : entries[c] # fats[1][c] => SectorOf(c) \in dirty

\* Until the power has gone out every copy of the table is kept: what a copy
\* lacks of the resident table is marked dirty, even when the flush failed
\* between two copies or between two sectors of one.
CopiesAgree ==
    ~interrupted =>
        \A i \in Copies : \A c \in Clusters : entries[c] # fats[i][c] => SectorOf(c) \in dirty

\* Data, or zeros, reach a cluster; allocating one only says whose bytes it
\* has been left with.
DataLands == \E c \in Clusters : bytes'[c] \notin {Stale, bytes[c]}
\* The hints reach the FSInfo sector.
HintsLand == call.step = "hints" /\ call'.step = "clear"

\* The flag is up before anything else on the device changes, be it table,
\* entries, data or hints: "necessarily happens before the write it is
\* warning about".
FlagBeforeChange == [][fats' # fats \/ dir' # dir \/ DataLands \/ HintsLand => flag]_vars

\* The flag comes down only when the resident table has reached the device:
\* "only once everything it was warning about has landed".
FlagClearedLast == [][flag /\ ~flag' => fats[1] = entries /\ dirty = {}]_vars

\* As long as every write succeeds and the power stays on, a call leaves no
\* cluster allocated that no entry and no directory holds.
NoLeakUntroubled ==
    ~failed /\ ~interrupted /\ call = Idle =>
        {c \in Clusters : entries[c] # FREE} =
            Chain(entries, FIRST_CLUSTER) \cup UNION {Chain(entries, dir[f].first) : f \in Chained}

\* A call that reported an error has consumed nothing: tests/write.rs, "a
\* call that reports failure should not have consumed space, because nothing
\* names it and nothing ever will".
FailedCallConsumesNothing ==
    ~interrupted /\ call = Idle =>
        {c \in Clusters : entries[c] # FREE} =
            Chain(entries, FIRST_CLUSTER) \cup UNION {Chain(entries, dir[f].first) : f \in Chained}

\* Every call returns, to success or an error, if its thread keeps running.
CallsReturn == call # Idle ~> call = Idle

\* What a reader of the device finds under f: the length, if the chain is
\* there and the length covers only bytes written for f.
Readable(f) ==
    LET head == dir[f].first
    IN  /\ WalkSucceeds(fats[1], head)
        /\ dir[f].size <= ChainLength(fats[1], head)
        /\ \A c \in Chain(fats[1], head) :
              PlaceIn(fats[1], head, c) < dir[f].size => bytes[c] = f

Damaged == -2

Store == INSTANCE FileStore WITH
    length <- [f \in Files |-> IF ~Present(f) THEN -1
                               ELSE IF dir[f].size = 0 \/ Readable(f) THEN dir[f].size
                               ELSE Damaged]

\* A mount at any moment reads each file whole, at its old length or its new
\* one: no crash, failure or call on another file changes what it holds, and
\* a length never covers bytes that were not written for the file.
StoreSpec == Store!Spec
=============================================================================
