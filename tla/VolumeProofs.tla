---------------------------- MODULE VolumeProofs ----------------------------
(***************************************************************************)
(* Three promises of fs.rs about write-back and the dirty flag, for every  *)
(* volume, every flush order and any number of failures and power cuts.    *)
(***************************************************************************)
EXTENDS Volume, TableProofs

\* A value of the table's shape, whatever its entries.
Shaped(e) == e = [c \in Clusters |-> e[c]]

\* During a flush, the sectors already written to the first copy agree.
Written ==
    \A c \in Clusters : SectorOf(c) \in dirty /\ <<1, SectorOf(c)>> \notin todo
                            => entries[c] = fats[1][c]

VInv ==
    /\ Shaped(entries)
    /\ fats = [i \in Copies |-> fats[i]] /\ \A i \in Copies : Shaped(fats[i])
    /\ "step" \in DOMAIN call
    /\ marked => flag
    /\ DirtyCoversDifference
    /\ call.step = "flush" => Written
    /\ call.step \in {"hints", "clear"} => dirty = {}
    /\ call.step = "clear" => ~marked

\* What a step of the resident table may do: keep its shape, and change only
\* clusters whose sectors it marks dirty.
TableStep ==
    /\ Shaped(entries')
    /\ dirty \subseteq dirty'
    /\ \A c \in Clusters : entries'[c] # entries[c] => SectorOf(c) \in dirty'

LEMMA FirstCopy == 1 \in Copies
BY VolumeAssumption DEF Copies

-----------------------------------------------------------------------------
(***************************************************************************)
(* Each change of the resident table is such a step.                       *)
(***************************************************************************)

\* An allocation changes only the clusters it takes.
LEMMA AllocateStep ==
    ASSUME NEW f, NEW count, Allocate(f, count)
    PROVE  TableStep
<1> DEFINE got == Chosen(entries, nextFree, count)
<1>1. entries' = Linked(entries, nextFree, got) /\ dirty' = dirty \cup {SectorOf(c) : c \in got}
  BY DEF Allocate, Touched
<1>2. Shaped(entries') /\ \A c \in Clusters : c \notin got => entries'[c] = entries[c]
  <2> HIDE DEF got
  <2>. QED  BY <1>1 DEF Linked, Shaped
<1>. QED  BY <1>1, <1>2 DEF TableStep

\* An append changes only those and the old last cluster.
LEMMA AppendStep ==
    ASSUME NEW h, NEW count, Append(h, count)
    PROVE  TableStep
<1> DEFINE got  == Chosen(entries, nextFree, count)
           last == LastOf(entries, h)
<1>1. /\ entries' = Appended(entries, nextFree, got, last)
      /\ dirty' = dirty \cup {SectorOf(c) : c \in got \cup {last}}
  BY DEF Append, Touched
<1>2. Shaped(entries') /\ \A c \in Clusters : c \notin got \cup {last} => entries'[c] = entries[c]
  <2> HIDE DEF got, last
  <2>. QED  BY <1>1 DEF Appended, SetEntry, Linked, Shaped
<1>. QED  BY <1>1, <1>2 DEF TableStep

\* Freeing changes only the chain's clusters.
LEMMA FreeStep ==
    ASSUME Shaped(entries), NEW h, Free(h)
    PROVE  TableStep
<1>1. CASE WalkSucceeds(entries, h)
  <2>1. /\ entries' = Freed(entries, h)
        /\ dirty' = dirty \cup {SectorOf(c) : c \in Chain(entries, h)}
    BY <1>1 DEF Free, Touched
  <2>2. Shaped(entries') /\ \A c \in Clusters : c \notin Chain(entries, h) => entries'[c] = entries[c]
    BY <2>1 DEF Freed, Shaped
  <2>. QED  BY <2>1, <2>2 DEF TableStep
<1>2. CASE ~WalkSucceeds(entries, h)
  BY <1>2 DEF Free, TableStep
<1>. QED  BY <1>1, <1>2

\* Removing a link lets a chain only shrink.
LEMMA CutChainShrinks ==
    ASSUME NEW e, Shaped(e), NEW last \in Clusters, NEW h
    PROVE  Chain(SetEntry(e, last, END_OF_CHAIN_MARK), h) \subseteq Chain(e, h)
<1> DEFINE ended == SetEntry(e, last, END_OF_CHAIN_MARK)
<1>1. \A c \in Clusters : ended[c] \in Clusters => ended[c] = e[c]
  BY MarksApart DEF SetEntry, Shaped
<1>2. \A S \in SUBSET Clusters : Closed(e, S) => Closed(ended, S)
  BY <1>1 DEF Closed
<1>. QED  BY <1>2 DEF Chain

\* Cutting changes only the new last cluster and what followed it.
LEMMA CutStep ==
    ASSUME Shaped(entries), NEW h, NEW keep, Cut(h, keep)
    PROVE  TableStep
<1>1. PICK last \in Chain(entries, h) :
        /\ entries' = CutAfter(entries, last)
        /\ dirty' = dirty \cup {SectorOf(c) : c \in {last} \cup Chain(entries, entries[last])}
  BY DEF Cut, Touched
<1> DEFINE ended == SetEntry(entries, last, END_OF_CHAIN_MARK)
           tail  == Chain(ended, entries[last])
<1>2. last \in Clusters /\ tail \subseteq Chain(entries, entries[last])
  BY CutChainShrinks DEF Chain
<1>3. Shaped(entries')
  BY <1>1 DEF CutAfter, Freed, Shaped
<1>4. \A c \in Clusters : c # last /\ c \notin tail => entries'[c] = entries[c]
  BY <1>1 DEF CutAfter, Freed, SetEntry, Shaped
<1>. QED  BY <1>1, <1>2, <1>3, <1>4 DEF TableStep

-----------------------------------------------------------------------------
(***************************************************************************)
(* The invariant is inductive.                                             *)
(***************************************************************************)

LEMMA InitVInv == Init => VInv
BY FirstCopy DEF Init, VInv, Shaped, DirtyCoversDifference, Idle

\* A table step with no device write keeps what is dirty covering what
\* differs.
LEMMA CoverKept ==
    ASSUME DirtyCoversDifference, TableStep, fats' = fats
    PROVE  DirtyCoversDifference'
BY DEF DirtyCoversDifference, TableStep

\* A table step that goes on to a flush.
LEMMA FlushingKeeps ==
    ASSUME VInv, TableStep, NEW c, "step" \in DOMAIN c, Flushing(c),
           UNCHANGED <<marked, fats, flag>>
    PROVE  VInv'
<1>1. call'.step = "flush" /\ "step" \in DOMAIN call' /\ todo' = Copies \X dirty'
  BY DEF Flushing
<1>2. Written'
  BY <1>1, FirstCopy DEF Written
<1>3. DirtyCoversDifference'
  BY CoverKept DEF VInv
<1>. QED  BY <1>1, <1>2, <1>3 DEF VInv, TableStep

\* A table step that ends the call, or goes on to a device write other than
\* those of sync.
LEMMA OtherwiseKeeps ==
    ASSUME VInv, TableStep, "step" \in DOMAIN call',
           call'.step \notin {"flush", "hints", "clear"},
           fats' = fats, marked' => flag'
    PROVE  VInv'
<1>1. DirtyCoversDifference'
  BY CoverKept DEF VInv
<1>. QED  BY <1>1 DEF VInv, TableStep

\* Leaving the table alone is a table step.
LEMMA NoTableStep ==
    ASSUME VInv, UNCHANGED <<entries, dirty>>
    PROVE  TableStep
BY DEF VInv, TableStep

LEMMA StartKeeps == VInv /\ Start => VInv'
<1> SUFFICES ASSUME VInv, Start PROVE VInv'
  OBVIOUS
<1>1. ASSUME NEW f, NEW count, Create(f, count) PROVE VInv'
  <2>1. TableStep
    BY <1>1, AllocateStep, NoTableStep DEF Create
  <2>. QED  BY <1>1, <2>1, FlushingKeeps DEF Create, Starting
<1>2. ASSUME NEW f, NEW want, WriteToEmpty(f, want) PROVE VInv'
  BY <1>2, AllocateStep, FlushingKeeps DEF WriteToEmpty, Starting
<1>3. ASSUME NEW f, NEW at, NEW want, WriteExtending(f, at, want) PROVE VInv'
  BY <1>3, AppendStep, FlushingKeeps DEF WriteExtending, Starting
<1>4. ASSUME NEW f, NEW at, NEW want, WriteWithin(f, at, want) PROVE VInv'
  BY <1>4, NoTableStep, OtherwiseKeeps DEF WriteWithin, Starting, VInv, device
<1>5. ASSUME NEW f, NEW want, Shrink(f, want) PROVE VInv'
  BY <1>5, NoTableStep, OtherwiseKeeps DEF Shrink, Starting, VInv, device
<1>6. ASSUME NEW f, Remove(f) PROVE VInv'
  BY <1>6, NoTableStep, OtherwiseKeeps DEF Remove, Starting, VInv, device
<1>7. CASE Sync
  BY <1>7, NoTableStep, FlushingKeeps DEF Sync, Starting, device
<1>. QED  BY <1>1, <1>2, <1>3, <1>4, <1>5, <1>6, <1>7 DEF Start

LEMMA MarkDirtyKeeps == VInv /\ MarkDirty => VInv'
BY DEF VInv, MarkDirty, WriteDue, MarkingSteps, DirtyCoversDifference, Written

\* A sector write makes the copy agree there, and changes it nowhere else.
LEMMA FlushSectorKeeps == VInv /\ FlushSector => VInv'
<1> SUFFICES ASSUME VInv, FlushSector PROVE VInv'
  OBVIOUS
<1> DEFINE p == NextWrite
<1>1. /\ fats' = [fats EXCEPT ![p[1]] =
                    [c \in Clusters |-> IF SectorOf(c) = p[2] THEN entries[c] ELSE @[c]]]
      /\ todo' = todo \ {p} /\ call.step = "flush"
      /\ UNCHANGED <<entries, dirty, marked, call, flag>>
  BY DEF FlushSector
<1> HIDE DEF p
<1>2. /\ fats' = [i \in Copies |-> fats'[i]]
      /\ \A i \in Copies : Shaped(fats'[i])
      /\ \A c \in Clusters : fats'[1][c] \in {entries[c], fats[1][c]}
      /\ p[1] = 1 => \A c \in Clusters : SectorOf(c) = p[2] => fats'[1][c] = entries[c]
  BY <1>1, FirstCopy DEF VInv, Shaped
<1>3. DirtyCoversDifference'
  BY <1>1, <1>2 DEF VInv, DirtyCoversDifference
<1>4. Written'
  <2> SUFFICES ASSUME NEW c \in Clusters, SectorOf(c) \in dirty, <<1, SectorOf(c)>> \notin todo'
               PROVE  entries[c] = fats'[1][c]
    BY <1>1 DEF Written
  <2>1. CASE <<1, SectorOf(c)>> \notin todo
    BY <1>1, <1>2, <2>1 DEF VInv, Written
  <2>2. CASE <<1, SectorOf(c)>> = p
    BY <1>2, <2>2
  <2>. QED  BY <1>1, <2>1, <2>2
<1>. QED  BY <1>1, <1>2, <1>3, <1>4 DEF VInv

\* clear_dirty comes when the whole flush is on the device.
LEMMA FlushDoneKeeps == VInv /\ FlushDone => VInv'
<1> SUFFICES ASSUME VInv, FlushDone PROVE VInv'
  OBVIOUS
<1>1. /\ call.step = "flush" /\ todo = {} /\ dirty' = {}
      /\ UNCHANGED <<entries, marked, fats, flag>>
  BY DEF FlushDone, device
<1>2. \A c \in Clusters : entries[c] = fats[1][c]
  BY <1>1 DEF VInv, Written, DirtyCoversDifference
<1>3. "step" \in DOMAIN call' /\ call'.step \notin {"flush", "clear"}
  <2>1. CASE call' = Idle
    BY <2>1 DEF Idle
  <2>2. CASE \E s \in {"create", "first", "data", "hints"} : call' = [call EXCEPT !.step = s]
    BY <2>2 DEF VInv
  <2>3. call' = Idle \/ \E s \in {"create", "first", "data", "hints"} : call' = [call EXCEPT !.step = s]
    BY DEF FlushDone, Goto, Return
  <2>. QED  BY <2>1, <2>2, <2>3
<1>. QED  BY <1>1, <1>2, <1>3 DEF VInv, DirtyCoversDifference

LEMMA ProgressKeeps == VInv /\ Progress => VInv'
<1> SUFFICES ASSUME VInv, Progress PROVE VInv'
  OBVIOUS
<1>1. CASE MarkDirty
  BY <1>1, MarkDirtyKeeps
<1>2. CASE FlushSector
  BY <1>2, FlushSectorKeeps
<1>3. CASE FlushDone
  BY <1>3, FlushDoneKeeps
<1>4. CASE WriteEntry
  BY <1>4, NoTableStep, OtherwiseKeeps DEF WriteEntry, Return, Idle, VInv
<1>5. CASE WriteFirst
  BY <1>5, NoTableStep, OtherwiseKeeps DEF WriteFirst, Goto, VInv
<1>6. CASE WriteData
  BY <1>6, NoTableStep, OtherwiseKeeps DEF WriteData, Goto, Return, Idle, VInv
<1>7. CASE WriteSize
  BY <1>7, NoTableStep, OtherwiseKeeps DEF WriteSize, Return, Idle, VInv
<1>8. CASE WriteShrunk
  <2>1. CASE ~WalkSucceeds(entries, call.first)
    BY <1>8, <2>1, NoTableStep, OtherwiseKeeps DEF WriteShrunk, Return, Idle, VInv
  <2>2. CASE WalkSucceeds(entries, call.first)
    <3>1. TableStep
      BY <1>8, <2>2, FreeStep, CutStep, NoTableStep DEF WriteShrunk, VInv
    <3>. QED  BY <1>8, <2>2, <3>1, FlushingKeeps DEF WriteShrunk, VInv
  <2>. QED  BY <2>1, <2>2
<1>9. CASE DeleteEntry
  BY <1>9, NoTableStep, OtherwiseKeeps DEF DeleteEntry, Goto, VInv
<1>10. CASE DeleteNames
  <2>1. CASE ~WalkSucceeds(entries, call.first)
    BY <1>10, <2>1, NoTableStep, OtherwiseKeeps DEF DeleteNames, Return, Idle, VInv, device
  <2>2. CASE WalkSucceeds(entries, call.first)
    BY <1>10, <2>2, FreeStep, FlushingKeeps DEF DeleteNames, VInv, device
  <2>. QED  BY <2>1, <2>2
<1>11. CASE WriteHints
  BY <1>11 DEF WriteHints, Goto, VInv, DirtyCoversDifference, device
<1>12. CASE ClearFlag
  BY <1>12, NoTableStep, OtherwiseKeeps DEF ClearFlag, Return, Idle, VInv
<1>. QED  BY <1>1, <1>2, <1>3, <1>4, <1>5, <1>6, <1>7, <1>8, <1>9, <1>10, <1>11, <1>12
     DEF Progress

LEMMA FailKeeps == VInv /\ Fail => VInv'
<1> SUFFICES ASSUME VInv, Fail PROVE VInv'
  OBVIOUS
<1>1. TableStep
  BY FreeStep, NoTableStep DEF Fail, VInv
<1>. QED  BY <1>1, OtherwiseKeeps DEF Fail, Return, Idle, VInv, device

LEMMA CrashKeeps == VInv /\ Crash => VInv'
BY FirstCopy DEF VInv, Crash, Return, Idle, DirtyCoversDifference, device

LEMMA NextVInv == VInv /\ [Next]_vars => VInv'
<1>1. VInv /\ UNCHANGED vars => VInv'
  BY DEF vars, memory, device, VInv, DirtyCoversDifference, Written
<1>. QED  BY <1>1, StartKeeps, ProgressKeeps, FailKeeps, CrashKeeps DEF Next

THEOREM Invariance == Spec => []VInv
BY InitVInv, NextVInv, PTL DEF Spec

-----------------------------------------------------------------------------

\* A change that has not reached the first copy is always marked dirty, so
\* no failed flush or abandoned call loses track of one.
THEOREM DirtyTracksAll == Spec => []DirtyCoversDifference
<1>1. VInv => DirtyCoversDifference
  BY DEF VInv
<1>. QED  BY <1>1, Invariance, PTL

-----------------------------------------------------------------------------
(***************************************************************************)
(* Every copy of the table, until the power goes out.                      *)
(***************************************************************************)

\* During a flush, the sectors already written to a copy agree with memory.
EachWritten ==
    \A i \in Copies : \A c \in Clusters :
        SectorOf(c) \in dirty /\ <<i, SectorOf(c)>> \notin todo => entries[c] = fats[i][c]

KInv == /\ CopiesAgree
        /\ ~interrupted /\ call.step = "flush" => EachWritten

\* A table step that leaves the copies alone, and no flush under way.
LEMMA ElsewhereKeeps ==
    ASSUME KInv, TableStep, UNCHANGED <<fats, interrupted>>, call'.step # "flush"
    PROVE  KInv'
<1>1. CopiesAgree'
  BY DEF KInv, CopiesAgree, TableStep
<1>. QED  BY <1>1 DEF KInv

\* A flush sets out to write every dirty sector to every copy.
LEMMA FlushStarts ==
    ASSUME KInv, TableStep, NEW c, Flushing(c), UNCHANGED <<fats, interrupted>>
    PROVE  KInv'
<1>1. CopiesAgree'
  BY DEF KInv, CopiesAgree, TableStep
<1>2. EachWritten'
  BY DEF EachWritten, Flushing
<1>. QED  BY <1>1, <1>2 DEF KInv

LEMMA StartCopies == VInv /\ KInv /\ Start => KInv'
<1> SUFFICES ASSUME VInv, KInv, Start PROVE KInv'
  OBVIOUS
<1>1. ASSUME NEW f, NEW count, Create(f, count) PROVE KInv'
  <2>1. TableStep
    BY <1>1, AllocateStep, NoTableStep DEF Create
  <2>. QED  BY <1>1, <2>1, FlushStarts DEF Create
<1>2. ASSUME NEW f, NEW want, WriteToEmpty(f, want) PROVE KInv'
  BY <1>2, AllocateStep, FlushStarts DEF WriteToEmpty
<1>3. ASSUME NEW f, NEW at, NEW want, WriteExtending(f, at, want) PROVE KInv'
  BY <1>3, AppendStep, FlushStarts DEF WriteExtending
<1>4. ASSUME NEW f, NEW at, NEW want, WriteWithin(f, at, want) PROVE KInv'
  BY <1>4, NoTableStep, ElsewhereKeeps DEF WriteWithin, Starting, device
<1>5. ASSUME NEW f, NEW want, Shrink(f, want) PROVE KInv'
  BY <1>5, NoTableStep, ElsewhereKeeps DEF Shrink, Starting, device
<1>6. ASSUME NEW f, Remove(f) PROVE KInv'
  BY <1>6, NoTableStep, ElsewhereKeeps DEF Remove, Starting, device
<1>7. CASE Sync
  BY <1>7, NoTableStep, FlushStarts DEF Sync, device
<1>. QED  BY <1>1, <1>2, <1>3, <1>4, <1>5, <1>6, <1>7 DEF Start

\* A sector write makes its copy agree there, and changes the others nowhere.
LEMMA FlushSectorCopies == VInv /\ KInv /\ FlushSector => KInv'
<1> SUFFICES ASSUME VInv, KInv, FlushSector, ~interrupted PROVE KInv'
  BY DEF KInv, CopiesAgree, FlushSector
<1> DEFINE p == NextWrite
<1>1. /\ fats' = [fats EXCEPT ![p[1]] =
                    [c \in Clusters |-> IF SectorOf(c) = p[2] THEN entries[c] ELSE @[c]]]
      /\ todo' = todo \ {p} /\ call.step = "flush"
      /\ UNCHANGED <<entries, dirty, call, interrupted>>
  BY DEF FlushSector
<1> HIDE DEF p
<1>2. ASSUME NEW i \in Copies, NEW c \in Clusters
      PROVE  /\ fats'[i][c] \in {entries[c], fats[i][c]}
             /\ i = p[1] /\ SectorOf(c) = p[2] => fats'[i][c] = entries[c]
  BY <1>1 DEF VInv, Shaped
<1>3. CopiesAgree'
  BY <1>1, <1>2 DEF KInv, CopiesAgree
<1>4. EachWritten'
  <2> SUFFICES ASSUME NEW i \in Copies, NEW c \in Clusters, SectorOf(c) \in dirty,
                      <<i, SectorOf(c)>> \notin todo'
               PROVE  entries[c] = fats'[i][c]
    BY <1>1 DEF EachWritten
  <2>1. CASE <<i, SectorOf(c)>> \notin todo
    BY <1>1, <1>2, <2>1 DEF KInv, EachWritten
  <2>2. CASE <<i, SectorOf(c)>> = p
    BY <1>2, <2>2
  <2>. QED  BY <1>1, <2>1, <2>2
<1>. QED  BY <1>3, <1>4 DEF KInv

\* clear_dirty comes when every copy has every sector.
LEMMA FlushDoneCopies == VInv /\ KInv /\ FlushDone => KInv'
<1> SUFFICES ASSUME VInv, KInv, FlushDone PROVE KInv'
  OBVIOUS
<1>1. /\ call.step = "flush" /\ todo = {} /\ dirty' = {}
      /\ UNCHANGED <<entries, fats, interrupted>>
  BY DEF FlushDone, device
<1>2. CopiesAgree'
  BY <1>1 DEF KInv, CopiesAgree, EachWritten
<1>3. call'.step # "flush"
  <2>1. call' = Idle \/ \E s \in {"create", "first", "data", "hints"} : call' = [call EXCEPT !.step = s]
    BY DEF FlushDone, Goto, Return
  <2>. QED  BY <2>1 DEF VInv, Idle
<1>. QED  BY <1>2, <1>3 DEF KInv

LEMMA ProgressCopies == VInv /\ KInv /\ Progress => KInv'
<1> SUFFICES ASSUME VInv, KInv, Progress PROVE KInv'
  OBVIOUS
<1>1. CASE MarkDirty
  BY <1>1 DEF MarkDirty, KInv, CopiesAgree, EachWritten
<1>2. CASE FlushSector
  BY <1>2, FlushSectorCopies
<1>3. CASE FlushDone
  BY <1>3, FlushDoneCopies
<1>4. CASE WriteEntry
  BY <1>4, NoTableStep, ElsewhereKeeps DEF WriteEntry, Return, Idle
<1>5. CASE WriteFirst
  BY <1>5, NoTableStep, ElsewhereKeeps DEF WriteFirst, Goto, VInv
<1>6. CASE WriteData
  BY <1>6, NoTableStep, ElsewhereKeeps DEF WriteData, Goto, Return, Idle, VInv
<1>7. CASE WriteSize
  BY <1>7, NoTableStep, ElsewhereKeeps DEF WriteSize, Return, Idle
<1>8. CASE WriteShrunk
  <2>1. CASE ~WalkSucceeds(entries, call.first)
    BY <1>8, <2>1, NoTableStep, ElsewhereKeeps DEF WriteShrunk, Return, Idle
  <2>2. CASE WalkSucceeds(entries, call.first)
    <3>1. TableStep
      BY <1>8, <2>2, FreeStep, CutStep, NoTableStep DEF WriteShrunk, VInv
    <3>. QED  BY <1>8, <2>2, <3>1, FlushStarts DEF WriteShrunk
  <2>. QED  BY <2>1, <2>2
<1>9. CASE DeleteEntry
  BY <1>9, NoTableStep, ElsewhereKeeps DEF DeleteEntry, Goto, VInv
<1>10. CASE DeleteNames
  <2>1. CASE ~WalkSucceeds(entries, call.first)
    BY <1>10, <2>1, NoTableStep, ElsewhereKeeps DEF DeleteNames, Return, Idle, device
  <2>2. CASE WalkSucceeds(entries, call.first)
    BY <1>10, <2>2, FreeStep, FlushStarts DEF DeleteNames, VInv, device
  <2>. QED  BY <2>1, <2>2
<1>11. CASE WriteHints
  BY <1>11, NoTableStep, ElsewhereKeeps DEF WriteHints, Goto, VInv, device
<1>12. CASE ClearFlag
  BY <1>12, NoTableStep, ElsewhereKeeps DEF ClearFlag, Return, Idle
<1>. QED  BY <1>1, <1>2, <1>3, <1>4, <1>5, <1>6, <1>7, <1>8, <1>9, <1>10, <1>11, <1>12
     DEF Progress

LEMMA FailCopies == VInv /\ KInv /\ Fail => KInv'
<1> SUFFICES ASSUME VInv, KInv, Fail PROVE KInv'
  OBVIOUS
<1>1. TableStep
  BY FreeStep, NoTableStep DEF Fail, VInv
<1>. QED  BY <1>1, ElsewhereKeeps DEF Fail, Return, Idle, device

\* Until the power goes out no copy of the table is left behind for good:
\* whatever one of them lacks, the next flush that succeeds writes to it.
THEOREM EveryCopyKept == Spec => []CopiesAgree
<1>1. Init => KInv
  BY DEF Init, KInv, CopiesAgree, Idle
<1>2. VInv /\ KInv /\ [Next]_vars => KInv'
  <2>1. VInv /\ KInv /\ UNCHANGED vars => KInv'
    BY DEF vars, memory, device, KInv, CopiesAgree, EachWritten
  <2>2. Crash => KInv'
    BY DEF Crash, KInv, CopiesAgree
  <2>. QED  BY <2>1, <2>2, StartCopies, ProgressCopies, FailCopies DEF Next
<1>3. KInv => CopiesAgree
  BY DEF KInv
<1>. QED  BY <1>1, <1>2, <1>3, Invariance, PTL DEF Spec

-----------------------------------------------------------------------------

\* No table copy, no directory entry, no data and no hint is written before
\* the dirty flag is on the device.
THEOREM FlagFirst == Spec => FlagBeforeChange
<1> DEFINE A == fats' # fats \/ dir' # dir \/ DataLands \/ HintsLand => flag
<1>1. VInv /\ [Next]_vars => [A]_vars
  <2> SUFFICES ASSUME VInv, Next, fats' # fats \/ dir' # dir \/ DataLands \/ HintsLand
               PROVE  flag
    OBVIOUS
  <2>1. CASE fats' # fats \/ dir' # dir
    <3>1. marked
      BY <2>1 DEF Next, Start, Progress, Create, WriteToEmpty, WriteExtending, WriteWithin, Shrink,
             Remove, Sync, MarkDirty, FlushSector, FlushDone, WriteEntry, WriteFirst, WriteData,
             WriteSize, WriteShrunk, DeleteEntry, DeleteNames, WriteHints, ClearFlag, Fail,
             Crash, device
    <3>. QED  BY <3>1 DEF VInv
  <2>2. CASE DataLands
    <3>1. PICK c \in Clusters : bytes'[c] \notin {Stale, bytes[c]}
      BY <2>2 DEF DataLands
    <3>2. ASSUME NEW f, NEW count, Allocate(f, count) PROVE FALSE
      BY <3>1, <3>2 DEF Allocate
    <3>3. ASSUME NEW h, NEW count, Append(h, count) PROVE FALSE
      BY <3>1, <3>3 DEF Append
    <3>4. marked
      BY <3>1, <3>2, <3>3 DEF Next, Start, Progress, Create, WriteToEmpty, WriteExtending,
             WriteWithin, Shrink, Remove, Sync, MarkDirty, FlushSector, FlushDone, WriteEntry,
             WriteFirst, WriteData, WriteSize, WriteShrunk, DeleteEntry, DeleteNames, WriteHints,
             ClearFlag, Fail, Crash, device
    <3>. QED  BY <3>4 DEF VInv
  <2>3. CASE HintsLand
    <3>1. call.step = "hints" /\ call'.step = "clear"
      BY <2>3 DEF HintsLand
    <3>2. call # Idle /\ call' # Idle /\ call' # call
      BY <3>1 DEF Idle
    <3>3. ~Start
      BY <3>2 DEF Start, Create, WriteToEmpty, WriteExtending, WriteWithin, Shrink, Remove, Sync
    <3>4. ~Fail /\ ~Crash
      BY <3>2 DEF Fail, Crash, Return
    <3>5. marked
      BY <3>1, <3>2, <3>3, <3>4 DEF Next, Progress, MarkDirty, FlushSector, FlushDone, WriteEntry,
             WriteFirst, WriteData, WriteSize, WriteShrunk, DeleteEntry, DeleteNames, WriteHints,
             ClearFlag
    <3>. QED  BY <3>5 DEF VInv
  <2>. QED  BY <2>1, <2>2, <2>3
<1>. QED  BY <1>1, Invariance, PTL DEF Spec, FlagBeforeChange

\* The flag comes down only over a table whose every change has landed.
THEOREM FlagLast == Spec => FlagClearedLast
<1> DEFINE A == flag /\ ~flag' => fats[1] = entries /\ dirty = {}
<1>1. VInv /\ [Next]_vars => [A]_vars
  <2> SUFFICES ASSUME VInv, Next, flag, ~flag'
               PROVE  fats[1] = entries /\ dirty = {}
    OBVIOUS
  <2>1. call.step = "clear"
    BY DEF Next, Start, Progress, Create, WriteToEmpty, WriteExtending, WriteWithin, Shrink,
           Remove, Sync, MarkDirty, FlushSector, FlushDone, WriteEntry, WriteFirst, WriteData,
           WriteSize, WriteShrunk, DeleteEntry, DeleteNames, WriteHints, ClearFlag, Fail,
           Crash, device
  <2>2. dirty = {}
    BY <2>1 DEF VInv
  <2>3. \A c \in Clusters : fats[1][c] = entries[c]
    BY <2>2 DEF VInv, DirtyCoversDifference
  <2>. QED  BY <2>2, <2>3, FirstCopy DEF VInv, Shaped
<1>. QED  BY <1>1, Invariance, PTL DEF Spec, FlagClearedLast
=============================================================================
