----------------------------- MODULE StoreProofs -----------------------------
(***************************************************************************)
(* What a mount would find on the device.  As long as no write has         *)
(* reported an error, the first copy of the table is sound for the entries *)
(* at every moment but one: between two sectors of one flush of that copy. *)
(* Where the copy is written at once, power cuts may come at any moment    *)
(* and as often as they like, and the volume implements FileStore.         *)
(***************************************************************************)
EXTENDS VolumeSoundProofs

\* The device writes a copy of the table at once.
OneSector == \A s, t \in Sectors : s = t

\* No flush has written some dirty sectors of the first copy and not others.
Unbroken ==
    \/ call.step # "flush"
    \/ \A s \in dirty : <<1, s>> \in todo
    \/ \A s \in dirty : <<1, s>> \notin todo

-----------------------------------------------------------------------------
(***************************************************************************)
(* The writes of a flush.                                                  *)
(***************************************************************************)

\* A flush writes sectors that are dirty.
FlushesDirty == call.step = "flush" => todo \subseteq Copies \X dirty

LEMMA SectorTypes == Sectors \subseteq Nat
<1>1. \A c \in Clusters : c \in Nat
  BY TableAssumption DEF Clusters, FIRST_CLUSTER, End
<1>2. \A c \in Clusters : SectorOf(c) \in Nat
  BY <1>1, TableAssumption DEF SectorOf
<1>. QED  BY <1>2 DEF Sectors

\* A dirty sector belongs to a stretch.
LEMMA StretchStarts ==
    ASSUME dirty \subseteq Sectors, NEW s \in dirty
    PROVE  StretchStart(s) \in Nat
<1> DEFINE T == {r \in Nat : r <= s /\ r .. s \subseteq dirty}
<1>1. s \in Nat /\ dirty \subseteq Nat
  BY SectorTypes
<1>2. s \in T
  BY <1>1
<1>3. PICK r \in T : \A q \in T : r <= q
  <2> HIDE DEF T
  <2>1. T \in SUBSET Nat
    BY DEF T
  <2>. QED  BY <1>2, <2>1, LeastNatural
<1>4. r \in dirty /\ r <= s /\ r .. s \subseteq dirty
  BY <1>1
<1>5. r - 1 \notin dirty
  <2> SUFFICES ASSUME r - 1 \in dirty PROVE FALSE
    OBVIOUS
  <2>1. r - 1 \in Nat /\ r - 1 <= s
    BY <1>1, <1>4
  <2>2. \A q \in (r - 1) .. s : q = r - 1 \/ q \in r .. s
    BY <1>1, <1>4
  <2>3. r - 1 \in T
    BY <1>4, <2>1, <2>2
  <2>. QED  BY <1>3, <2>1, <2>3
<1>. QED  BY <1>1, <1>4, <1>5 DEF StretchStart

\* There is a next write.
LEMMA NextWriteExists ==
    ASSUME dirty \subseteq Sectors, todo \subseteq Copies \X dirty, todo # {}
    PROVE  NextWrite \in todo
<1>1. \A p \in todo : p = <<p[1], p[2]>> /\ p[1] \in Nat /\ p[2] \in Nat /\ StretchStart(p[2]) \in Nat
  <2>1. Copies \subseteq Nat /\ dirty \subseteq Nat
    BY SectorTypes, VolumeAssumption DEF Copies
  <2>2. \A p \in todo : p = <<p[1], p[2]>> /\ p[1] \in Copies /\ p[2] \in dirty
    OBVIOUS
  <2>3. \A s \in dirty : StretchStart(s) \in Nat
    BY StretchStarts
  <2>. QED  BY <2>1, <2>2, <2>3
<1> DEFINE A == {StretchStart(p[2]) : p \in todo}
<1>2. PICK p1 \in todo : \A q \in todo : StretchStart(p1[2]) <= StretchStart(q[2])
  <2>1. A \in SUBSET Nat /\ A # {}
    BY <1>1
  <2>2. PICK a \in A : \A b \in A : a <= b
    <3> HIDE DEF A
    <3>. QED  BY <2>1, LeastNatural
  <2>. QED  BY <2>2
<1> DEFINE early == {p \in todo : StretchStart(p[2]) = StretchStart(p1[2])}
           B     == {p[1] : p \in early}
<1>3. PICK p2 \in early : \A q \in early : p2[1] <= q[1]
  <2>1. B \in SUBSET Nat /\ B # {}
    BY <1>1
  <2>2. PICK a \in B : \A b \in B : a <= b
    <3> HIDE DEF B
    <3>. QED  BY <2>1, LeastNatural
  <2>. QED  BY <2>2
<1> DEFINE copy == {p \in early : p[1] = p2[1]}
           C    == {p[2] : p \in copy}
<1>4. PICK p \in copy : \A q \in copy : p[2] <= q[2]
  <2>1. C \in SUBSET Nat /\ C # {}
    BY <1>1
  <2>2. PICK a \in C : \A b \in C : a <= b
    <3> HIDE DEF C
    <3>. QED  BY <2>1, LeastNatural
  <2>. QED  BY <2>2
<1>5. p \in todo /\ \A q \in todo \ {p} : Before(p, q)
  <2> SUFFICES ASSUME NEW q \in todo, q # p PROVE Before(p, q)
    OBVIOUS
  <2> DEFINE a == StretchStart(p[2])
             b == StretchStart(q[2])
  <2>1. a \in Nat /\ b \in Nat /\ a <= b /\ p[1] \in Nat /\ q[1] \in Nat /\ p[2] \in Nat /\ q[2] \in Nat
    BY <1>1, <1>2
  <2>2. a = b => p[1] <= q[1]
    BY <1>3
  <2>3. a = b /\ p[1] = q[1] => p[2] <= q[2] /\ p[2] # q[2]
    BY <1>1, <1>4
  <2> HIDE DEF a, b
  <2>4. a < b \/ (a = b /\ p[1] < q[1]) \/ (a = b /\ p[1] = q[1] /\ p[2] < q[2])
    BY <2>1, <2>2, <2>3
  <2>. QED  BY <2>4 DEF Before, a, b
<1>. QED  BY <1>5 DEF NextWrite


LEMMA NextFlushesDirty == CInv /\ FlushesDirty /\ [Next]_vars => FlushesDirty'
<1> SUFFICES ASSUME CInv, FlushesDirty, [Next]_vars PROVE FlushesDirty'
  OBVIOUS
<1>1. ASSUME NEW c, Flushing(c) PROVE FlushesDirty'
  BY <1>1 DEF Flushing, FlushesDirty
<1>2. ASSUME call'.step # "flush" PROVE FlushesDirty'
  BY <1>2 DEF FlushesDirty
<1>3. ASSUME UNCHANGED <<call, dirty>>, todo' \subseteq todo PROVE FlushesDirty'
  BY <1>3 DEF FlushesDirty
<1>4. CASE Return
  BY <1>2, <1>4 DEF Return, Idle
<1>5. ASSUME NEW step \in Steps \ {"flush"}, Goto(step) PROVE FlushesDirty'
  BY <1>2, <1>5, GoneTo
<1>6. CASE Start
  BY <1>1, <1>2, <1>6 DEF Start, Create, WriteToEmpty, WriteExtending, WriteWithin, Shrink, Remove,
                          Sync, Starting
<1>7. CASE WriteShrunk \/ DeleteNames \/ Fail \/ Crash \/ ClearFlag \/ WriteEntry \/ WriteSize
  BY <1>1, <1>4, <1>7 DEF WriteShrunk, DeleteNames, Fail, Crash, ClearFlag, WriteEntry, WriteSize
<1>8. CASE MarkDirty \/ FlushSector \/ UNCHANGED vars
  BY <1>3, <1>8 DEF MarkDirty, FlushSector, vars, memory
<1>9. CASE WriteFirst \/ DeleteEntry \/ WriteHints \/ FlushDone
  <2>1. Return \/ \E step \in {"data", "names", "clear", "create", "first", "hints"} : Goto(step)
    BY <1>9 DEF WriteFirst, DeleteEntry, WriteHints, FlushDone
  <2>2. {"data", "names", "clear", "create", "first", "hints"} \subseteq Steps \ {"flush"}
    BY DEF Steps
  <2>. QED  BY <1>4, <1>5, <2>1, <2>2
<1>10. CASE WriteData
  <2>1. CASE call' = [call EXCEPT !.at = @ + 1]
    BY <1>2, <1>10, <2>1 DEF WriteData, CInv, TypeOK, Calls
  <2>2. "size" \in Steps \ {"flush"}
    BY DEF Steps
  <2>. QED  BY <1>4, <1>5, <1>10, <2>1, <2>2 DEF WriteData
<1>. QED  BY <1>6, <1>7, <1>8, <1>9, <1>10 DEF Next, Progress

\* What has reached the first copy when none of its dirty sectors is left.
LEMMA AllWritten ==
    ASSUME VInv, call.step = "flush", \A s \in dirty : <<1, s>> \notin todo
    PROVE  fats[1] = entries
<1>1. \A c \in Clusters : fats[1][c] = entries[c]
  BY DEF VInv, Written, DirtyCoversDifference
<1>. QED  BY <1>1, FirstCopy DEF VInv, Shaped

-----------------------------------------------------------------------------
(***************************************************************************)
(* The first copy follows the table.                                       *)
(***************************************************************************)

OnDevice ==
    /\ call.step # "flush" => fats[1] = entries
    /\ Unbroken => Rooted(fats[1], dir, 0)

LEMMA FirstCopySame == UNCHANGED fats => fats'[1] = fats[1]
OBVIOUS

\* Whatever a call owns, the entries' chains are rooted.
LEMMA OwnedEntries ==
    ASSUME CInv, Owned
    PROVE  Rooted(entries, dir, 0) /\ dir \in Dirs
<1>1. dir \in Dirs /\ Pending \in Clusters \cup {0} /\ Rooted(entries, dir, Pending)
  BY DEF CInv, TypeOK, Dirs, Calls, Pending, Owned
<1>. QED  BY <1>1, RootedForgotten

\* Outside a flush the first copy is the table.
LEMMA SettledOnDevice ==
    ASSUME CInv, Owned, fats[1] = entries
    PROVE  OnDevice
BY OwnedEntries DEF OnDevice

\* Steps from outside a flush: the table changes only on the way into one.
LEMMA OffFlushOnDevice ==
    ASSUME CInv, Owned, OnDevice, CInv', Owned', call.step # "flush", UNCHANGED fats,
           UNCHANGED entries \/ call'.step = "flush",
           UNCHANGED dir \/ call'.step # "flush" \/ Rooted(fats[1], dir', 0)
    PROVE  OnDevice'
<1>1. fats[1] = entries /\ Rooted(fats[1], dir, 0)
  BY DEF OnDevice, Unbroken
<1>2. CASE call'.step # "flush"
  <2>1. fats'[1] = entries'
    BY <1>1, <1>2
  <2>2. (CInv /\ Owned /\ fats[1] = entries => OnDevice)'
    BY SettledOnDevice, PTL
  <2>. QED  BY <2>1, <2>2
<1>3. CASE call'.step = "flush"
  BY <1>1, <1>3 DEF OnDevice
<1>. QED  BY <1>2, <1>3

LEMMA StartOnDevice == CInv /\ Owned /\ OnDevice /\ CInv' /\ Owned' /\ Start => OnDevice'
<1> SUFFICES ASSUME CInv, Owned, OnDevice, CInv', Owned', Start PROVE OnDevice'
  OBVIOUS
<1>1. call = Idle /\ UNCHANGED <<fats, dir>> /\ (UNCHANGED entries \/ call'.step = "flush")
  BY DEF Start, Create, WriteToEmpty, WriteExtending, WriteWithin, Shrink, Remove, Sync, Flushing,
         Starting, device
<1>. QED  BY <1>1, OffFlushOnDevice DEF Idle

\* A sector is written: unless the first copy is broken off, it is as it was
\* or is the table.
LEMMA FlushSectorFirst ==
    ASSUME CInv, FlushesDirty, VInv', FlushSector, Unbroken'
    PROVE  fats'[1] = entries' \/ (Unbroken /\ fats'[1] = fats[1])
<1> DEFINE p == NextWrite
<1>1. /\ call.step = "flush" /\ call' = call /\ dirty' = dirty
      /\ fats' = [fats EXCEPT ![p[1]] =
                    [c \in Clusters |-> IF SectorOf(c) = p[2] THEN entries[c] ELSE @[c]]]
      /\ todo' = todo \ {p}
  BY DEF FlushSector
<1>2. p \in todo /\ p = <<p[1], p[2]>> /\ p[1] \in Copies /\ p[2] \in dirty
  <2>1. todo \subseteq Copies \X dirty /\ todo # {}
    BY DEF FlushesDirty, FlushSector
  <2>2. p \in todo
    BY <2>1, NextWriteExists DEF CInv, TypeOK
  <2> HIDE DEF p
  <2>. QED  BY <2>1, <2>2
<1> HIDE DEF p
<1>3. CASE \A s \in dirty : <<1, s>> \notin todo'
  <2>1. (VInv /\ call.step = "flush" /\ (\A s \in dirty : <<1, s>> \notin todo) => fats[1] = entries)'
    BY AllWritten, PTL
  <2>. QED  BY <1>1, <1>3, <2>1
<1>4. CASE \A s \in dirty : <<1, s>> \in todo'
  <2>1. p[1] # 1
    BY <1>1, <1>2, <1>4
  <2>2. fats'[1] = fats[1]
    BY <1>1, <2>1, FirstCopy DEF CInv, TypeOK
  <2>. QED  BY <1>1, <1>4, <2>2 DEF Unbroken
<1>. QED  BY <1>1, <1>3, <1>4 DEF Unbroken

LEMMA FlushSectorOnDevice ==
    ASSUME CInv, FlushesDirty, OnDevice, CInv', VInv', Owned', FlushSector
    PROVE  OnDevice'
<1>1. call.step = "flush" /\ call' = call /\ dir' = dir
  BY DEF FlushSector
<1>2. CASE fats'[1] = entries'
  <2>1. (CInv /\ Owned /\ fats[1] = entries => OnDevice)'
    BY SettledOnDevice, PTL
  <2>. QED  BY <1>2, <2>1
<1>3. CASE fats'[1] # entries'
  BY <1>1, <1>3, FlushSectorFirst DEF OnDevice
<1>. QED  BY <1>2, <1>3

LEMMA FlushDoneOnDevice ==
    ASSUME VInv, CInv', Owned', FlushDone
    PROVE  OnDevice'
<1>1. fats'[1] = entries'
  <2>1. fats[1] = entries
    BY AllWritten DEF FlushDone
  <2>. QED  BY <2>1 DEF FlushDone, device
<1>2. (CInv /\ Owned /\ fats[1] = entries => OnDevice)'
  BY SettledOnDevice, PTL
<1>. QED  BY <1>1, <1>2

\* A shorter entry names no more of the chain it named.
LEMMA ShrunkEntryRooted ==
    ASSUME CInv, Owned, WriteShrunk
    PROVE  Rooted(entries, dir', 0)
<1> DEFINE f  == call.file
           en == [first |-> IF call.want = 0 THEN 0 ELSE call.first, size |-> call.want]
<1>1. /\ f \in Files /\ call.first = dir[f].first /\ call.want < dir[f].size /\ call \in Calls
      /\ call.step = "shrink"
  BY StandsAt DEF WriteShrunk, OnEntry
<1>2. call.want \in Nat /\ dir[f].size \in Int /\ dir[f].first # 0 /\ dir[f].first \in Clusters
  <2>1. call.want \in Nat /\ dir[f].size \in Int /\ dir[f].first \in Clusters \cup {0}
    BY <1>1, EntryTypes DEF CInv, Calls
  <2>. QED  BY <1>1, <2>1 DEF CInv
<1>3. en \in Entry /\ en.size = call.want /\ en.first = IF call.want = 0 THEN 0 ELSE dir[f].first
  BY <1>1 DEF Calls, Entry
<1>4. dir' = [dir EXCEPT ![f] = en]
  BY DEF WriteShrunk
<1>5. Rooted(entries, dir, 0) /\ dir \in Dirs
  BY OwnedEntries
<1> HIDE DEF en, f
<1>6. dir' \in Dirs
  BY <1>3, <1>4, <1>5 DEF Dirs
<1>7. CASE call.want = 0
  <2>1. Rooted(entries, dir', dir[f].first)
    BY <1>1, <1>3, <1>4, <1>5, <1>7, RootedUnnamed
  <2>. QED  BY <1>2, <1>6, <2>1, RootedForgotten
<1>8. CASE call.want > 0
  <2>1. en.first = dir[f].first /\ en.size <= dir[f].size
    BY <1>1, <1>2, <1>3, <1>8
  <2>. QED  BY <1>1, <1>2, <1>3, <1>4, <1>5, <2>1, RootedShorter
<1>. QED  BY <1>2, <1>7, <1>8

LEMMA ProgressOnDevice ==
    ASSUME CInv, VInv, FlushesDirty, Owned, OnDevice, CInv', VInv', Owned', Progress
    PROVE  OnDevice'
<1>1. CASE MarkDirty
  <2>1. UNCHANGED <<entries, dirty, call, todo, fats, dir>>
    BY <1>1 DEF MarkDirty
  <2>. QED  BY <2>1 DEF OnDevice, Unbroken
<1>2. CASE WriteEntry \/ WriteFirst \/ WriteData \/ WriteSize \/ DeleteEntry \/ WriteHints \/ ClearFlag
  <2>1. UNCHANGED <<entries, fats>> /\ call.step # "flush"
    BY <1>2 DEF WriteEntry, WriteFirst, WriteData, WriteSize, DeleteEntry, WriteHints, ClearFlag, device
  <2>2. call'.step # "flush"
    <3>1. CASE Return
      BY <3>1 DEF Return, Idle
    <3>2. ASSUME NEW step \in {"data", "size", "names", "clear"}, Goto(step)
          PROVE  call'.step # "flush"
      <4>1. step \in Steps /\ step # "flush"
        BY DEF Steps
      <4>. QED  BY <3>2, <4>1, GoneTo
    <3>3. CASE call' = [call EXCEPT !.at = @ + 1]
      BY <2>1, <3>3 DEF CInv, TypeOK, Calls
    <3>. QED  BY <1>2, <3>1, <3>2, <3>3 DEF WriteEntry, WriteFirst, WriteData, WriteSize,
                                            DeleteEntry, WriteHints, ClearFlag
  <2>. QED  BY <2>1, <2>2, OffFlushOnDevice
<1>3. CASE WriteShrunk
  <2>1. fats[1] = entries /\ call.step # "flush" /\ UNCHANGED fats
    BY <1>3 DEF WriteShrunk, OnDevice
  <2>2. Rooted(fats[1], dir', 0)
    BY <1>3, <2>1, ShrunkEntryRooted
  <2>3. UNCHANGED entries \/ call'.step = "flush"
    BY <1>3 DEF WriteShrunk, Flushing, CInv, TypeOK, Calls
  <2>. QED  BY <2>1, <2>2, <2>3, OffFlushOnDevice
<1>4. CASE DeleteNames
  <2>1. UNCHANGED <<fats, dir>> /\ call.step # "flush"
    BY <1>4 DEF DeleteNames, device
  <2>2. UNCHANGED entries \/ call'.step = "flush"
    BY <1>4 DEF DeleteNames, Flushing, CInv, TypeOK, Calls
  <2>. QED  BY <2>1, <2>2, OffFlushOnDevice
<1>. QED  BY <1>1, <1>2, <1>3, <1>4, FlushSectorOnDevice, FlushDoneOnDevice DEF Progress

\* The mount after a power cut loads a copy the entries are sound in.
LEMMA CrashOnDevice ==
    ASSUME CInv, OneSector, OnDevice, CInv', Crash
    PROVE  Owned' /\ OnDevice'
<1>1. Unbroken
  BY DEF OneSector, Unbroken, CInv, TypeOK
<1>2. entries' = fats[1] /\ fats' = fats /\ dir' = dir /\ Return
  BY DEF Crash, device
<1>3. Owned'
  BY <1>1, <1>2, IdleOwnsNothing DEF OnDevice, Owned
<1>4. fats'[1] = entries'
  BY <1>2
<1>5. (CInv /\ Owned /\ fats[1] = entries => OnDevice)'
  BY SettledOnDevice, PTL
<1>. QED  BY <1>3, <1>4, <1>5

\* What is known of the device as long as no write has reported an error, and
\* until the power goes out between two sectors of the table.
DevInv == ~failed /\ (OneSector \/ ~interrupted) => Owned /\ OnDevice

EInv == CInv /\ VInv /\ FlushesDirty /\ DevInv

LEMMA InitEInv == Init => EInv
<1> SUFFICES ASSUME Init PROVE EInv
  OBVIOUS
<1>1. CInv /\ VInv /\ Owned
  BY InitCInv, InitVInv, InitOwned
<1>2. call.step # "flush" /\ fats[1] = entries
  BY FirstCopy DEF Init, Idle
<1>. QED  BY <1>1, <1>2, SettledOnDevice DEF EInv, DevInv, FlushesDirty

LEMMA NextEInv == EInv /\ [Next]_vars => EInv'
<1> SUFFICES ASSUME EInv, [Next]_vars PROVE EInv'
  OBVIOUS
<1>1. CInv' /\ VInv' /\ FlushesDirty'
  BY NextCInv, NextVInv, NextFlushesDirty DEF EInv
<1>2. DevInv'
  <2> SUFFICES ASSUME ~failed', OneSector \/ ~interrupted' PROVE Owned' /\ OnDevice'
    BY DEF DevInv
  <2>1. CASE Crash
    BY <1>1, <2>1, CrashOnDevice DEF EInv, DevInv, Crash
  <2>2. CASE Fail
    BY <2>2 DEF Fail
  <2>3. CASE [Start \/ Progress]_vars
    <3>1. UNCHANGED <<failed, interrupted>>
      BY <2>3 DEF Start, Progress, Create, WriteToEmpty, WriteExtending, WriteWithin, Shrink, Remove,
             Sync, MarkDirty, FlushSector, FlushDone, WriteEntry, WriteFirst, WriteData, WriteSize,
             WriteShrunk, DeleteEntry, DeleteNames, WriteHints, ClearFlag, vars
    <3>2. Owned /\ OnDevice
      BY <3>1 DEF EInv, DevInv
    <3>3. Owned'
      BY <2>3, <3>2, NextOwned DEF EInv, OwnersKept
    <3>4. CASE UNCHANGED vars
      <4>1. UNCHANGED <<entries, dirty, call, todo, fats, dir>>
        BY <3>4 DEF vars, memory, device
      <4>. QED  BY <3>2, <3>3, <4>1 DEF OnDevice, Unbroken
    <3>. QED  BY <1>1, <2>3, <3>2, <3>3, <3>4, StartOnDevice, ProgressOnDevice DEF EInv
  <2>. QED  BY <2>1, <2>2, <2>3 DEF Next
<1>. QED  BY <1>1, <1>2 DEF EInv

THEOREM DeviceInvariance == Spec => []EInv
BY InitEInv, NextEInv, PTL DEF Spec

LEMMA OnDeviceIsSound ==
    ASSUME EInv, ~failed, OneSector \/ ~interrupted, Unbroken
    PROVE  DeviceSound
<1>1. Rooted(fats[1], dir, 0) /\ dir \in Dirs
  BY DEF EInv, DevInv, OnDevice, CInv, TypeOK, Dirs
<1>. QED  BY <1>1, RootedIsSound DEF DeviceSound

\* Until a write reports an error, the first power cut finds the device sound
\* for a mount unless it comes between two sectors of the first copy, whatever
\* the number of sectors, copies and files.
THEOREM SoundOnDevice ==
    Spec => [](~failed /\ ~interrupted /\ Unbroken => DeviceSound)
<1>1. EInv => (~failed /\ ~interrupted /\ Unbroken => DeviceSound)
  BY OnDeviceIsSound
<1>. QED  BY <1>1, DeviceInvariance, PTL

\* Where a copy of the table is written at once, every one of any number of
\* power cuts does, and the table the mount loads is sound like the one lost.
THEOREM SoundAtEveryCut ==
    ASSUME OneSector
    PROVE  Spec => [](~failed => DeviceSound /\ MemorySound)
<1>1. EInv => (~failed => DeviceSound)
  <2>1. EInv => Unbroken
    BY DEF EInv, OneSector, Unbroken, CInv, TypeOK
  <2>. QED  BY <2>1, OnDeviceIsSound
<1>2. EInv => (~failed => MemorySound)
  BY OwnedEntries, RootedIsSound DEF EInv, DevInv, MemorySound
<1>. QED  BY <1>1, <1>2, DeviceInvariance, PTL

-----------------------------------------------------------------------------
(***************************************************************************)
(* Whose bytes the chains hold.                                            *)
(***************************************************************************)

\* The first n clusters of the chain at h hold bytes written for f.
WrittenTo(e, b, h, f, n) == \A c \in Chain(e, h) : PlaceIn(e, h, c) < n => b[c] = f

\* A file's length covers its own bytes only.
Filled(e, d, b) == \A f \in Files : d[f].first # 0 => WrittenTo(e, b, d[f].first, f, d[f].size)

LEMMA PlaceTypes ==
    ASSUME NEW e, NEW h \in Clusters
    PROVE  \A c \in Chain(e, h) : PlaceIn(e, h, c) \in Nat
<1> SUFFICES ASSUME NEW c \in Chain(e, h) PROVE PlaceIn(e, h, c) \in Nat
  OBVIOUS
<1>1. Chain(e, c) \subseteq Chain(e, h)
  BY ChainWithin
<1>2. Chain(e, h) \in SUBSET Clusters /\ Chain(e, c) \in SUBSET Clusters
  BY DEF Chain
<1>3. Cardinality(Chain(e, c)) <= Cardinality(Chain(e, h))
      /\ Cardinality(Chain(e, c)) \in Nat /\ Cardinality(Chain(e, h)) \in Nat
  BY <1>1, <1>2, SomeClusters, FS_Subset
<1>. QED  BY <1>3 DEF PlaceIn, ChainLength

\* Whatever the chain, nothing is asked of it for an empty file.
LEMMA NothingWritten ==
    ASSUME NEW e, NEW h \in Clusters, NEW b, NEW f, NEW n \in Int, n <= 0
    PROVE  WrittenTo(e, b, h, f, n)
BY PlaceTypes DEF WrittenTo

\* What is known of the files' chains.
LEMMA FileChains ==
    ASSUME NEW e, NEW d \in Dirs, NEW p \in Clusters \cup {0}, Rooted(e, d, p)
    PROVE  \A f \in Files : d[f].first # 0 =>
              /\ d[f].first \in Clusters /\ d[f].first \in Heads(d, p)
              /\ Unlinked(e, d[f].first)
              /\ d[f].first \in Chain(e, d[f].first)
              /\ d[f].size <= ChainLength(e, d[f].first)
              /\ \A c \in Chain(e, d[f].first) : c \in Clusters /\ e[c] \notin Unusable
              /\ \A g \in Files : d[g].first # 0 /\ g # f =>
                    Chain(e, d[f].first) \cap Chain(e, d[g].first) = {}
              /\ p # 0 => Chain(e, d[f].first) \cap Chain(e, p) = {}
<1> DEFINE H == Heads(d, p)
<1>1. WellLinked(e, H) /\ Apart(d, p) /\ LongEnough(e, d)
  BY DEF Rooted
<1>2. (\A f \in Files : d[f].first # 0 => d[f].first \in H) /\ (p # 0 => p \in H)
  BY HeadsAre
<1> HIDE DEF H
<1>3. /\ LinksInjective(e) /\ LinksToUsed(e)
      /\ \A h \in H : h \in Clusters /\ e[h] \notin Unusable /\ Unlinked(e, h)
  BY <1>1 DEF WellLinked
<1>4. \A h \in H : h \in Chain(e, h) /\ \A c \in Chain(e, h) : c \in Clusters /\ e[c] \notin Unusable
  BY <1>3, ChainUsed, ChainLeast
<1>5. \A h, k \in H : h # k => Chain(e, h) \cap Chain(e, k) = {}
  BY <1>3, ChainsDisjoint
<1>6. \A f \in Files : d[f].first # 0 =>
         /\ \A g \in Files : g # f => d[g].first # d[f].first
         /\ p # 0 => d[f].first # p
  BY <1>1 DEF Apart
<1>. QED  BY <1>1, <1>2, <1>3, <1>4, <1>5, <1>6 DEF LongEnough, H

\* A change of the table that leaves the files' chains alone.
LEMMA FilledKept ==
    ASSUME NEW e, NEW n, NEW d \in Dirs, NEW b, NEW b2, Filled(e, d, b),
           \A f \in Files : d[f].first # 0 =>
              \A c \in Chain(e, d[f].first) : Chain(n, c) = Chain(e, c) /\ b2[c] = b[c]
    PROVE  Filled(n, d, b2)
<1> SUFFICES ASSUME NEW f \in Files, d[f].first # 0
             PROVE  WrittenTo(n, b2, d[f].first, f, d[f].size)
  BY DEF Filled
<1> DEFINE h == d[f].first
<1>1. h \in Clusters
  BY DirTypes
<1>2. h \in Chain(e, h)
  BY <1>1, ChainLeast
<1>3. Chain(n, h) = Chain(e, h)
      /\ \A c \in Chain(e, h) : PlaceIn(n, h, c) = PlaceIn(e, h, c) /\ b2[c] = b[c]
  BY <1>2 DEF PlaceIn, ChainLength
<1>. QED  BY <1>3 DEF Filled, WrittenTo

\* Clusters are taken, their bytes now stale.
LEMMA TakenFilled ==
    ASSUME NEW e, NEW d \in Dirs, Rooted(e, d, 0), NEW nf \in Clusters,
           NEW A \in SUBSET FreeClusters(e), A # {},
           NEW b, NEW b2, \A c \in Clusters \ A : b2[c] = b[c], Filled(e, d, b)
    PROVE  Filled(e, d, b2) /\ Filled(Linked(e, nf, A), d, b2)
<1> DEFINE n == Linked(e, nf, A)
<1>1. WellLinked(e, Heads(d, 0))
  BY DEF Rooted
<1>2. \A c \in Clusters : e[c] \notin Unusable => Chain(n, c) = Chain(e, c)
  BY <1>1, LinkedChains
<1>3. \A f \in Files : d[f].first # 0 =>
         \A c \in Chain(e, d[f].first) : c \in Clusters /\ e[c] \notin Unusable
  BY FileChains
<1>4. \A c \in A : e[c] \in Unusable
  BY DEF FreeClusters, Unusable
<1> HIDE DEF n
<1>5. \A f \in Files : d[f].first # 0 =>
         \A c \in Chain(e, d[f].first) : Chain(n, c) = Chain(e, c) /\ b2[c] = b[c]
  BY <1>2, <1>3, <1>4
<1>6. Filled(e, d, b2)
  BY <1>5, FilledKept
<1>7. Filled(n, d, b2)
  BY <1>5, FilledKept
<1>. QED  BY <1>6, <1>7 DEF n

\* A file's chain is extended with stale clusters, beyond its length.
LEMMA GrownFilled ==
    ASSUME NEW e, NEW d \in Dirs, Rooted(e, d, 0), NEW nf \in Clusters,
           NEW A \in SUBSET FreeClusters(e), A # {},
           NEW f \in Files, d[f].first # 0,
           NEW last \in Chain(e, d[f].first), e[last] = END_OF_CHAIN_MARK,
           NEW b, NEW b2, \A c \in Clusters \ A : b2[c] = b[c], Filled(e, d, b)
    PROVE  Filled(e, d, b2) /\ Filled(Appended(e, nf, A, last), d, b2)
<1> DEFINE a == Appended(e, nf, A, last)
           H == Heads(d, 0)
<1>1. WellLinked(e, H)
  BY DEF Rooted
<1>2. \A g \in Files : d[g].first # 0 =>
         /\ d[g].first \in Clusters /\ d[g].first \in H
         /\ d[g].size <= ChainLength(e, d[g].first) /\ d[g].size \in Int
         /\ \A c \in Chain(e, d[g].first) : c \in Clusters /\ e[c] \notin Unusable
         /\ g # f => Chain(e, d[f].first) \cap Chain(e, d[g].first) = {}
  BY FileChains, DirTypes
<1>3. last \in Clusters /\ \A c \in A : e[c] \in Unusable /\ c \in Clusters
  BY <1>2 DEF FreeClusters, Unusable
<1>4. Filled(e, d, b2)
  BY TakenFilled
<1>5. /\ Chain(a, d[f].first) = Chain(e, d[f].first) \cup A
      /\ \A c \in Chain(e, d[f].first) : PlaceIn(a, d[f].first, c) = PlaceIn(e, d[f].first, c)
      /\ \A c \in A : PlaceIn(a, d[f].first, c) >= ChainLength(e, d[f].first)
  BY <1>1, <1>2, AppendedPlaces
<1>6. \A c \in Clusters : e[c] \notin Unusable /\ last \notin Chain(e, c) => Chain(a, c) = Chain(e, c)
  BY <1>1, <1>3, AppendedChains
<1> HIDE DEF a, H
<1>7. ASSUME NEW g \in Files, d[g].first # 0
      PROVE  WrittenTo(a, b2, d[g].first, g, d[g].size)
  <2> DEFINE h == d[g].first
  <2>1. WrittenTo(e, b2, h, g, d[g].size)
    BY <1>4, <1>7 DEF Filled
  <2>2. CASE g = f
    <3>1. PlaceIn(a, h, h) \in Int /\ ChainLength(e, h) \in Nat /\ d[g].size \in Int
          /\ \A c \in A : PlaceIn(a, h, c) \in Int
      BY <1>2, <1>7, SomeClusters DEF PlaceIn, ChainLength, Chain
    <3>2. \A c \in A : ~(PlaceIn(a, h, c) < d[g].size)
      BY <1>2, <1>5, <1>7, <2>2, <3>1
    <3>. QED  BY <1>5, <2>1, <2>2, <3>2 DEF WrittenTo
  <2>3. CASE g # f
    <3>1. \A c \in Chain(e, h) : Chain(e, c) \subseteq Chain(e, h)
      BY <1>2, <1>7, ChainWithin
    <3>2. \A c \in Chain(e, h) : Chain(a, c) = Chain(e, c)
      BY <1>2, <1>6, <1>7, <2>3, <3>1
    <3>3. h \in Chain(e, h)
      BY <1>2, <1>7, ChainLeast
    <3>. QED  BY <2>1, <3>2, <3>3 DEF WrittenTo, PlaceIn, ChainLength
  <2>. QED  BY <2>2, <2>3
<1>. QED  BY <1>4, <1>7 DEF Filled, a

\* The call's chain goes back to the table.
LEMMA FreedFilled ==
    ASSUME NEW e, NEW d \in Dirs, NEW p \in Clusters, Rooted(e, d, p), NEW b, Filled(e, d, b)
    PROVE  Filled(Freed(e, p), d, b)
<1>1. \A f \in Files : d[f].first # 0 =>
         d[f].first \in Clusters /\ Chain(e, d[f].first) \cap Chain(e, p) = {}
  BY FileChains, MarksApart DEF FREE
<1>2. \A f \in Files : d[f].first # 0 =>
         \A c \in Chain(e, d[f].first) : Chain(Freed(e, p), c) = Chain(e, c)
  BY <1>1, FreedChains
<1>. QED  BY <1>2, FilledKept

\* A file's chain is cut.
LEMMA CutFilled ==
    ASSUME NEW e, NEW d \in Dirs, Rooted(e, d, 0), NEW f \in Files, d[f].first # 0,
           NEW last \in Chain(e, d[f].first), e[last] \in Clusters, NEW b, Filled(e, d, b)
    PROVE  Filled(CutAfter(e, last), d, b)
<1> DEFINE n == CutAfter(e, last)
           H == Heads(d, 0)
<1>1. WellLinked(e, H)
  BY DEF Rooted
<1>2. \A g \in Files : d[g].first # 0 =>
         /\ d[g].first \in Clusters /\ d[g].first \in H
         /\ g # f => d[g].first # d[f].first
         /\ d[g].first \in Chain(e, d[g].first)
  BY FileChains
<1>3. /\ Chain(n, d[f].first) \subseteq Chain(e, d[f].first)
      /\ \A c \in Chain(n, d[f].first) : PlaceIn(n, d[f].first, c) = PlaceIn(e, d[f].first, c)
  BY <1>1, <1>2, CutPlaces
<1>4. ASSUME NEW g \in Files, d[g].first # 0, g # f
      PROVE  \A c \in Chain(e, d[g].first) : Chain(n, c) = Chain(e, c)
  BY <1>1, <1>2, <1>4, CutOthers
<1> HIDE DEF n, H
<1>5. ASSUME NEW g \in Files, d[g].first # 0
      PROVE  WrittenTo(n, b, d[g].first, g, d[g].size)
  <2>1. WrittenTo(e, b, d[g].first, g, d[g].size)
    BY <1>5 DEF Filled
  <2>2. CASE g = f
    BY <1>3, <2>1, <2>2 DEF WrittenTo
  <2>3. CASE g # f
    BY <1>2, <1>4, <1>5, <2>1, <2>3 DEF WrittenTo, PlaceIn, ChainLength
  <2>. QED  BY <2>2, <2>3
<1>. QED  BY <1>5 DEF Filled, n

\* A file's entry changes.
LEMMA EntryFilled ==
    ASSUME NEW e, NEW d \in Dirs, NEW b, Filled(e, d, b), NEW f \in Files, NEW en,
           en.first # 0 => WrittenTo(e, b, en.first, f, en.size)
    PROVE  Filled(e, [d EXCEPT ![f] = en], b)
BY DEF Filled, Dirs

\* A cluster of a file's chain is written for it.
LEMMA DataFilled ==
    ASSUME NEW e, NEW d \in Dirs, Rooted(e, d, 0), NEW f \in Files, d[f].first # 0,
           NEW c \in Chain(e, d[f].first), NEW b \in [Clusters -> Files \cup {Stale}], Filled(e, d, b)
    PROVE  Filled(e, d, [b EXCEPT ![c] = f])
<1>1. \A g \in Files : d[g].first # 0 =>
         /\ \A x \in Chain(e, d[g].first) : x \in Clusters
         /\ g # f => c \notin Chain(e, d[g].first)
  BY FileChains
<1>. QED  BY <1>1 DEF Filled, WrittenTo

-----------------------------------------------------------------------------
(***************************************************************************)
(* Every step but a power cut keeps each file's bytes its own.             *)
(***************************************************************************)

\* How far a write has come.
Reached == IF call.step = "size" THEN call.want ELSE call.at

WriteReached ==
    call.op = "write" => WrittenTo(entries, bytes, call.first, call.file, Reached)

Bytes ==
    /\ Filled(entries, dir, bytes)
    /\ Unbroken => Filled(fats[1], dir, bytes)
    /\ WriteReached

\* A step from outside a flush finds the table in the first copy, and changes
\* the table only on the way into a flush.
LEMMA BytesMove ==
    ASSUME OnDevice, OnDevice', call.step # "flush", UNCHANGED fats,
           Filled(entries, dir', bytes'), Filled(entries', dir', bytes'), WriteReached'
    PROVE  Bytes'
<1>1. fats[1] = entries /\ (call'.step # "flush" => fats'[1] = entries')
  BY DEF OnDevice
<1>2. fats'[1] = entries \/ fats'[1] = entries'
  BY <1>1
<1>. QED  BY <1>2 DEF Bytes

LEMMA NoWriteReached == call'.op # "write" => WriteReached'
BY DEF WriteReached

LEMMA ReturnReached == Return => WriteReached'
BY DEF Return, Idle, WriteReached

LEMMA CreateBytes ==
    ASSUME CInv, Owned, OnDevice, OnDevice', Bytes,
           NEW f \in Files, NEW count \in 0 .. MaxSize, Create(f, count)
    PROVE  Bytes'
<1>1. call = Idle /\ UNCHANGED <<dir, fats>> /\ HasRoom(count) /\ call'.op # "write"
  BY DEF Create, Flushing, Starting
<1>2. call.step # "flush" /\ WriteReached'
  BY <1>1, NoWriteReached DEF Idle
<1>3. CASE count = 0
  BY <1>1, <1>2, <1>3, BytesMove DEF Create, Bytes
<1>4. CASE count # 0
  <2> DEFINE got == Chosen(entries, nextFree, count)
  <2>1. entries' = Linked(entries, nextFree, got) /\ \A c \in Clusters \ got : bytes'[c] = bytes[c]
    BY <1>4 DEF Create, Allocate
  <2>2. got \in SUBSET FreeClusters(entries) /\ got # {} /\ nextFree \in Clusters
    BY <1>1, <1>4, TakesClusters, VolumeAssumption DEF CInv, TypeOK, TableTypes
  <2> HIDE DEF got
  <2>3. Filled(entries, dir, bytes') /\ Filled(entries', dir, bytes')
    BY <2>1, <2>2, OwnedEntries, TakenFilled DEF Bytes
  <2>. QED  BY <1>1, <1>2, <2>3, BytesMove
<1>. QED  BY <1>3, <1>4

LEMMA WriteToEmptyBytes ==
    ASSUME CInv, Owned, OnDevice, OnDevice', Bytes,
           NEW f \in Files, NEW want \in 1 .. MaxSize, WriteToEmpty(f, want)
    PROVE  Bytes'
<1> DEFINE got   == Chosen(entries, nextFree, want)
           first == FirstFound(nextFree, got)
<1>1. /\ call = Idle /\ UNCHANGED <<dir, fats>> /\ HasRoom(want) /\ dir[f].first = 0
      /\ call' = [Starting("write", f, want, dir[f].size, first) EXCEPT !.step = "flush"]
      /\ entries' = Linked(entries, nextFree, got) /\ \A c \in Clusters \ got : bytes'[c] = bytes[c]
  BY DEF WriteToEmpty, Flushing, FirstOf, Allocate
<1>2. /\ got \in SUBSET FreeClusters(entries) /\ got # {} /\ nextFree \in Clusters
      /\ first \in Clusters
  BY <1>1, TakesClusters, VolumeAssumption DEF CInv, TypeOK, TableTypes
<1>3. dir[f].size \in Int /\ dir[f].size <= 0
  BY <1>1, EntryTypes DEF CInv
<1> HIDE DEF got, first
<1>4. Filled(entries, dir, bytes') /\ Filled(entries', dir, bytes')
  BY <1>1, <1>2, OwnedEntries, TakenFilled DEF Bytes
<1>5. WriteReached'
  <2>1. call'.step = "flush" /\ call'.first = first /\ call'.at = dir[f].size
    BY <1>1 DEF Starting
  <2>2. WrittenTo(entries', bytes', first, call'.file, dir[f].size)
    BY <1>2, <1>3, NothingWritten
  <2>. QED  BY <2>1, <2>2 DEF WriteReached, Reached
<1>. QED  BY <1>1, <1>4, <1>5, BytesMove DEF Idle

\* What a file's length covers, a part of it does.
LEMMA WrittenLess ==
    ASSUME NEW e, NEW b, NEW h \in Clusters, NEW f, NEW n \in Int, NEW m \in Int, m <= n,
           WrittenTo(e, b, h, f, n)
    PROVE  WrittenTo(e, b, h, f, m)
BY PlaceTypes DEF WrittenTo

LEMMA WriteExtendingBytes ==
    ASSUME CInv, Owned, OnDevice, OnDevice', Bytes,
           NEW f \in Files, NEW want \in 1 .. MaxSize, NEW at \in 0 .. MaxSize,
           WriteExtending(f, at, want)
    PROVE  Bytes'
<1> DEFINE h     == dir[f].first
           count == want - ChainLength(entries, h)
           got   == Chosen(entries, nextFree, count)
           last  == LastOf(entries, h)
<1>1. /\ call = Idle /\ UNCHANGED <<dir, fats>> /\ HasRoom(count) /\ at <= dir[f].size
      /\ WalkSucceeds(entries, h) /\ want > ChainLength(entries, h)
      /\ call' = [Starting("write", f, want, at, h) EXCEPT !.step = "flush"]
      /\ entries' = Appended(entries, nextFree, got, last)
      /\ \A c \in Clusters \ got : bytes'[c] = bytes[c]
  BY DEF WriteExtending, Flushing, Append
<1>2. h \in Clusters /\ h # 0 /\ ChainLength(entries, h) \in Nat
  BY <1>1, MarksApart, SomeClusters DEF WalkSucceeds, FREE, ChainLength, Chain
<1>3. count \in Nat \ {0}
  BY <1>1, <1>2, VolumeAssumption
<1>4. got \in SUBSET FreeClusters(entries) /\ got # {} /\ nextFree \in Clusters
  BY <1>1, <1>3, TakesClusters DEF CInv, TypeOK, TableTypes
<1>5. last \in Chain(entries, h) /\ entries[last] = END_OF_CHAIN_MARK
  BY <1>1, LastCarriesMark
<1> HIDE DEF got, last
<1>6. Filled(entries, dir, bytes') /\ Filled(entries', dir, bytes')
  BY <1>1, <1>2, <1>4, <1>5, OwnedEntries, GrownFilled DEF Bytes
<1>7. WriteReached'
  <2>1. call'.step = "flush" /\ call'.first = h /\ call'.at = at /\ call'.file = f
    BY <1>1 DEF Starting
  <2>2. WrittenTo(entries', bytes', h, f, dir[f].size)
    BY <1>2, <1>6 DEF Filled
  <2>3. at \in Int /\ dir[f].size \in Int
    BY EntryTypes DEF CInv
  <2>4. WrittenTo(entries', bytes', h, f, at)
    BY <1>1, <1>2, <2>2, <2>3, WrittenLess
  <2>. QED  BY <2>1, <2>4 DEF WriteReached, Reached
<1>. QED  BY <1>1, <1>6, <1>7, BytesMove DEF Idle

LEMMA WriteWithinBytes ==
    ASSUME CInv, Owned, OnDevice, OnDevice', Bytes,
           NEW f \in Files, NEW want \in 1 .. MaxSize, NEW at \in 0 .. MaxSize,
           WriteWithin(f, at, want)
    PROVE  Bytes'
<1> DEFINE h == dir[f].first
<1>1. /\ call = Idle /\ UNCHANGED <<entries, dir, fats, bytes>> /\ at <= dir[f].size
      /\ WalkSucceeds(entries, h)
      /\ call' = [Starting("write", f, want, at, h) EXCEPT !.step = "data"]
  BY DEF WriteWithin, device
<1>2. h \in Clusters /\ h # 0 /\ at \in Int /\ dir[f].size \in Int
  BY <1>1, MarksApart, EntryTypes DEF WalkSucceeds, FREE, CInv
<1>3. WriteReached'
  <2>1. call'.step = "data" /\ call'.first = h /\ call'.at = at /\ call'.file = f
    BY <1>1 DEF Starting
  <2>2. WrittenTo(entries, bytes, h, f, dir[f].size)
    BY <1>2 DEF Filled, Bytes
  <2>3. WrittenTo(entries, bytes, h, f, at)
    BY <1>1, <1>2, <2>2, WrittenLess
  <2>. QED  BY <1>1, <2>1, <2>3 DEF WriteReached, Reached
<1>. QED  BY <1>1, <1>3, BytesMove DEF Idle, Bytes

LEMMA OthersStartBytes ==
    ASSUME OnDevice, OnDevice', Bytes, \/ \E f \in Files, want \in 0 .. MaxSize : Shrink(f, want)
                                       \/ \E f \in Files : Remove(f)
                                       \/ Sync
    PROVE  Bytes'
<1>1. call = Idle /\ UNCHANGED <<entries, dir, fats, bytes>> /\ call'.op # "write"
  BY DEF Shrink, Remove, Sync, Flushing, Starting, device
<1>. QED  BY <1>1, NoWriteReached, BytesMove DEF Idle, Bytes

LEMMA FlushBytes ==
    ASSUME CInv, VInv, FlushesDirty, CInv', VInv', OnDevice', Bytes,
           MarkDirty \/ FlushSector \/ FlushDone
    PROVE  Bytes'
<1>1. UNCHANGED <<entries, dir, bytes>>
  BY DEF MarkDirty, FlushSector, FlushDone, device
<1>2. CASE MarkDirty
  <2>1. UNCHANGED <<call, dirty, todo, fats>>
    BY <1>2 DEF MarkDirty
  <2>. QED  BY <1>1, <2>1 DEF Bytes, Unbroken, WriteReached, Reached
<1>3. CASE FlushSector
  <2>1. call' = call
    BY <1>3 DEF FlushSector
  <2>2. Unbroken' => Filled(fats'[1], dir, bytes)
    BY <1>1, <1>3, FlushSectorFirst DEF Bytes
  <2>. QED  BY <1>1, <2>1, <2>2 DEF Bytes, WriteReached, Reached
<1>4. CASE FlushDone
  <2>1. UNCHANGED fats /\ fats[1] = entries /\ call.step = "flush"
    BY <1>4, AllWritten DEF FlushDone, device
  <2>2. WriteReached'
    <3>1. CASE Return
      BY <3>1, ReturnReached
    <3>2. ASSUME NEW step \in {"create", "first", "data", "hints"}, Goto(step)
          PROVE  WriteReached'
      <4>1. step \in Steps /\ step # "size"
        BY DEF Steps
      <4>2. /\ call'.op = call.op /\ call'.step = step /\ call'.file = call.file
            /\ call'.first = call.first /\ call'.at = call.at
        BY <3>2, <4>1, GoneTo
      <4>. QED  BY <1>1, <2>1, <4>1, <4>2 DEF Bytes, WriteReached, Reached
    <3>. QED  BY <1>4, <3>1, <3>2 DEF FlushDone
  <2>. QED  BY <1>1, <2>1, <2>2 DEF Bytes
<1>. QED  BY <1>2, <1>3, <1>4

\* An entry is written over a table that stays.
LEMMA EntryBytes ==
    ASSUME CInv, OnDevice, OnDevice', Bytes, call.step # "flush", UNCHANGED <<entries, fats, bytes>>,
           NEW f \in Files, NEW en, dir' = [dir EXCEPT ![f] = en],
           en.first # 0 => WrittenTo(entries, bytes, en.first, f, en.size), WriteReached'
    PROVE  Bytes'
<1>1. dir \in Dirs /\ Filled(entries, dir, bytes)
  BY DEF CInv, TypeOK, Dirs, Bytes
<1>2. Filled(entries, dir', bytes)
  BY <1>1, EntryFilled
<1>. QED  BY <1>2, BytesMove

LEMMA WriteEntryBytes ==
    ASSUME CInv, OnDevice, OnDevice', Bytes, WriteEntry
    PROVE  Bytes'
<1> DEFINE en == [first |-> call.first, size |-> 0]
<1>1. /\ dir' = [dir EXCEPT ![call.file] = en] /\ Return
      /\ UNCHANGED <<entries, fats, bytes>> /\ call.step # "flush"
  BY DEF WriteEntry
<1>2. call.file \in Files /\ call.first \in Clusters \cup {0}
  BY StandsAt DEF WriteEntry, Calls
<1>3. en.first # 0 => WrittenTo(entries, bytes, en.first, call.file, en.size)
  BY <1>2, NothingWritten
<1> HIDE DEF en
<1>. QED  BY <1>1, <1>2, <1>3, ReturnReached, EntryBytes

LEMMA WriteFirstBytes ==
    ASSUME CInv, OnDevice, OnDevice', Bytes, WriteFirst
    PROVE  Bytes'
<1> DEFINE f  == call.file
           en == [dir[f] EXCEPT !.first = call.first]
<1>1. /\ dir' = [dir EXCEPT ![f] = en] /\ Goto("data")
      /\ UNCHANGED <<entries, fats, bytes>> /\ call.step = "first"
  BY DEF WriteFirst
<1>2. call.op = "write" /\ f \in Files /\ call.first \in Clusters /\ dir[f].first = 0 /\ Present(f)
  BY StandsAt DEF WriteFirst, Writing
<1>3. dir[f] \in Entry /\ dir[f].size \in Int /\ dir[f].size <= 0
  BY <1>2, EntryTypes DEF CInv
<1>4. en.first = call.first /\ en.size = dir[f].size
  BY <1>3 DEF Entry
<1>5. WrittenTo(entries, bytes, en.first, f, en.size)
  BY <1>2, <1>3, <1>4, NothingWritten
<1>6. "data" \in Steps
  BY DEF Steps
<1>7. /\ call'.op = call.op /\ call'.step = "data" /\ call'.file = call.file
      /\ call'.first = call.first /\ call'.at = call.at
  BY <1>1, <1>6, GoneTo
<1>8. WriteReached'
  BY <1>1, <1>7 DEF Bytes, WriteReached, Reached
<1> HIDE DEF en, f
<1>9. f \in Files /\ call.step # "flush"
  BY <1>1, <1>2
<1>. QED  BY <1>1, <1>5, <1>8, <1>9, EntryBytes

LEMMA WriteSizeBytes ==
    ASSUME CInv, OnDevice, OnDevice', Bytes, WriteSize
    PROVE  Bytes'
<1> DEFINE en == [first |-> call.first, size |-> call.want]
<1>1. /\ dir' = [dir EXCEPT ![call.file] = en] /\ Return
      /\ UNCHANGED <<entries, fats, bytes>> /\ call.step = "size"
  BY DEF WriteSize
<1>2. call.op = "write" /\ call.file \in Files
  BY StandsAt DEF WriteSize, Writing
<1>3. en.first # 0 => WrittenTo(entries, bytes, en.first, call.file, en.size)
  BY <1>1, <1>2 DEF Bytes, WriteReached, Reached
<1> HIDE DEF en
<1>4. call.step # "flush"
  BY <1>1
<1>. QED  BY <1>1, <1>2, <1>3, <1>4, ReturnReached, EntryBytes

LEMMA DeleteEntryBytes ==
    ASSUME CInv, OnDevice, OnDevice', Bytes, DeleteEntry
    PROVE  Bytes'
<1>1. /\ dir' = [dir EXCEPT ![call.file] = NoEntry] /\ Goto("names") /\ NoEntry.first = 0
      /\ UNCHANGED <<entries, fats, bytes>> /\ call.step # "flush"
  BY DEF DeleteEntry, NoEntry
<1>2. call.op = "remove" /\ call.file \in Files
  BY StandsAt DEF DeleteEntry, OnEntry
<1>3. "names" \in Steps
  BY DEF Steps
<1>4. WriteReached'
  BY <1>1, <1>2, <1>3, GoneTo, NoWriteReached
<1>. QED  BY <1>1, <1>2, <1>4, EntryBytes

\* The write goes on by a cluster, at the place it had reached.
LEMMA WriteDataBytes ==
    ASSUME CInv, Owned, OnDevice, OnDevice', Bytes, WriteData
    PROVE  Bytes'
<1> DEFINE f == call.file
           h == call.first
<1>1. /\ call.op = "write" /\ call.step = "data" /\ f \in Files /\ h = dir[f].first /\ h # 0
      /\ call \in Calls /\ h \in Clusters
  BY StandsAt DEF WriteData, Writing
<1>2. /\ UNCHANGED <<entries, dir, fats>>
      /\ \E x \in Chain(entries, h) :
            PlaceIn(entries, h, x) = call.at /\ bytes' = [bytes EXCEPT ![x] = f]
  BY DEF WriteData
<1>3. PICK c \in Chain(entries, h) :
         PlaceIn(entries, h, c) = call.at /\ bytes' = [bytes EXCEPT ![c] = f]
  BY <1>2
<1>4. Rooted(entries, dir, 0) /\ dir \in Dirs /\ bytes \in [Clusters -> Files \cup {Stale}]
  BY OwnedEntries DEF CInv, TypeOK
<1>5. Filled(entries, dir, bytes')
  BY <1>1, <1>3, <1>4, DataFilled DEF Bytes
<1>6. WrittenTo(entries, bytes', h, f, call.at + 1)
  <2>1. LinksInjective(entries) /\ Unlinked(entries, h)
    BY <1>1, <1>4, MarksApart, FileChains DEF Rooted, WellLinked
  <2>2. \A x \in Chain(entries, h) : x \in Clusters /\ PlaceIn(entries, h, x) \in Nat
    BY <1>1, PlaceTypes DEF Chain
  <2>3. \A x \in Chain(entries, h) : PlaceIn(entries, h, x) = PlaceIn(entries, h, c) => x = c
    BY <1>1, <2>1, PlacesDiffer
  <2>4. WrittenTo(entries, bytes, h, f, call.at)
    BY <1>1 DEF Bytes, WriteReached, Reached
  <2>5. call.at \in Nat
    BY <1>1 DEF Calls
  <2> SUFFICES ASSUME NEW x \in Chain(entries, h), PlaceIn(entries, h, x) < call.at + 1
               PROVE  bytes'[x] = f
    BY DEF WrittenTo
  <2>6. CASE x = c
    BY <1>3, <1>4, <2>2, <2>6
  <2>7. CASE x # c
    <3>1. PlaceIn(entries, h, x) < call.at
      BY <1>3, <2>2, <2>3, <2>5, <2>7
    <3>. QED  BY <1>3, <1>4, <2>2, <2>4, <2>7, <3>1 DEF WrittenTo
  <2>. QED  BY <2>6, <2>7
<1>7. WriteReached'
  <2>1. CASE Return
    BY <2>1, ReturnReached
  <2>2. CASE call' = [call EXCEPT !.at = @ + 1]
    <3>1. /\ call'.step = "data" /\ call'.file = f /\ call'.first = h /\ call'.at = call.at + 1
      BY <1>1, <2>2 DEF Calls
    <3>. QED  BY <1>2, <1>6, <3>1 DEF WriteReached, Reached
  <2>3. CASE call.at + 1 = call.want /\ Goto("size")
    <3>1. "size" \in Steps
      BY DEF Steps
    <3>2. call'.step = "size" /\ call'.file = f /\ call'.first = h /\ call'.want = call.at + 1
      BY <2>3, <3>1, GoneTo
    <3>. QED  BY <1>2, <1>6, <3>2 DEF WriteReached, Reached
  <2>. QED  BY <2>1, <2>2, <2>3 DEF WriteData
<1>. QED  BY <1>1, <1>2, <1>5, <1>7, BytesMove

LEMMA WriteShrunkBytes ==
    ASSUME CInv, Owned, OnDevice, OnDevice', Bytes, WriteShrunk
    PROVE  Bytes'
<1> DEFINE f  == call.file
           h  == dir[f].first
           en == [first |-> IF call.want = 0 THEN 0 ELSE call.first, size |-> call.want]
<1>1. /\ call.op = "shrink" /\ call.step = "shrink" /\ f \in Files /\ call.first = h
      /\ call.want < dir[f].size /\ call \in Calls
  BY StandsAt DEF WriteShrunk, OnEntry
<1>2. call.want \in Nat /\ dir[f].size \in Int /\ h # 0 /\ h \in Clusters
  <2>1. call.want \in Nat /\ dir[f].size \in Int /\ dir[f].first \in Clusters \cup {0}
    BY <1>1, EntryTypes DEF CInv, Calls
  <2>. QED  BY <1>1, <2>1 DEF CInv
<1>3. WalkSucceeds(entries, h)
  BY <1>1, <1>2, OwnedWalk
<1>4. /\ dir' = [dir EXCEPT ![f] = en] /\ UNCHANGED <<fats, bytes>> /\ Flushing(call)
      /\ call.want = 0 => entries' = Freed(entries, h)
      /\ call.want > 0 => \/ UNCHANGED entries
                          \/ /\ call.want < ChainLength(entries, h)
                             /\ \E last \in Chain(entries, h) :
                                   /\ PlaceIn(entries, h, last) = call.want - 1
                                   /\ entries' = CutAfter(entries, last)
  <2>1. /\ dir' = [dir EXCEPT ![f] = en] /\ UNCHANGED <<fats, bytes>> /\ Flushing(call)
        /\ call.want = 0 => Free(call.first)
        /\ call.want > 0 => \/ call.want < ChainLength(entries, call.first) /\ Cut(call.first, call.want)
                            \/ UNCHANGED entries
    BY <1>1, <1>2, <1>3 DEF WriteShrunk
  <2>2. Free(call.first) => entries' = Freed(entries, call.first)
    BY <1>1, <1>3 DEF Free
  <2>3. Cut(call.first, call.want) =>
           \E last \in Chain(entries, call.first) :
              /\ PlaceIn(entries, call.first, last) = call.want - 1
              /\ entries' = CutAfter(entries, last)
    BY DEF Cut
  <2> HIDE DEF en, f
  <2>. QED  BY <1>1, <2>1, <2>2, <2>3
<1>5. en \in Entry /\ en.size = call.want /\ en.first = IF call.want = 0 THEN 0 ELSE h
  BY <1>1 DEF Calls, Entry
<1>6. Rooted(entries, dir, 0) /\ dir \in Dirs /\ Filled(entries, dir, bytes)
  BY OwnedEntries DEF Bytes
<1>7. call.step # "flush" /\ WriteReached'
  BY <1>1, <1>4, NoWriteReached DEF Flushing, Calls
<1> HIDE DEF en, f, h
<1>8. Filled(entries, dir', bytes)
  <2>1. h = dir[f].first
    BY DEF h
  <2>2. en.first # 0 => WrittenTo(entries, bytes, en.first, f, en.size)
    BY <1>1, <1>2, <1>5, <1>6, <2>1, WrittenLess DEF Filled
  <2>. QED  BY <1>1, <1>4, <1>6, <2>2, EntryFilled
<1>9. Filled(entries', dir', bytes)
  <2>1. dir' \in Dirs /\ dir'[f] = en
    BY <1>1, <1>4, <1>5, <1>6 DEF Dirs
  <2>2. CASE call.want = 0
    <3>1. Rooted(entries, dir', h)
      BY <1>1, <1>4, <1>5, <1>6, <2>2, RootedUnnamed DEF h
    <3>. QED  BY <1>2, <1>4, <1>8, <2>1, <2>2, <3>1, FreedFilled
  <2>3. CASE call.want > 0
    <3>1. Rooted(entries, dir', 0)
      BY ShrunkEntryRooted
    <3>2. dir'[f].first = h /\ h # 0 /\ f \in Files
      BY <1>1, <1>2, <1>5, <2>1, <2>3
    <3>3. ASSUME call.want < ChainLength(entries, h),
                 NEW last \in Chain(entries, h), PlaceIn(entries, h, last) = call.want - 1,
                 entries' = CutAfter(entries, last)
          PROVE  Filled(entries', dir', bytes)
      <4>1. entries[last] \in Clusters
        BY <1>2, <3>3, CutBeforeEnd
      <4>. QED  BY <1>8, <2>1, <3>1, <3>2, <3>3, <4>1, CutFilled
    <3>. QED  BY <1>4, <1>8, <2>3, <3>3
  <2>. QED  BY <1>2, <2>2, <2>3
<1>. QED  BY <1>4, <1>7, <1>8, <1>9, BytesMove

LEMMA DeleteNamesBytes ==
    ASSUME CInv, Owned, OnDevice, OnDevice', Bytes, DeleteNames
    PROVE  Bytes'
<1>1. /\ call.op = "remove" /\ call.step = "names" /\ call \in Calls
      /\ UNCHANGED <<dir, fats, bytes>>
  BY StandsAt DEF DeleteNames, device
<1>2. WriteReached'
  BY <1>1, ReturnReached, NoWriteReached DEF DeleteNames, Flushing, Calls
<1>3. Filled(entries', dir, bytes)
  <2>1. dir \in Dirs /\ Filled(entries, dir, bytes) /\ Rooted(entries, dir, call.first)
    BY <1>1, OwnedEntries DEF Bytes, Owned, Pending
  <2>2. CASE WalkSucceeds(entries, call.first)
    <3>1. entries' = Freed(entries, call.first) /\ call.first \in Clusters
      BY <2>2 DEF DeleteNames, Free, WalkSucceeds
    <3>. QED  BY <2>1, <3>1, FreedFilled
  <2>3. CASE ~WalkSucceeds(entries, call.first)
    BY <2>1, <2>3 DEF DeleteNames
  <2>. QED  BY <2>2, <2>3
<1>4. Filled(entries, dir, bytes) /\ call.step # "flush"
  BY <1>1 DEF Bytes
<1>. QED  BY <1>1, <1>2, <1>3, <1>4, BytesMove

LEMMA SyncBytes ==
    ASSUME CInv, OnDevice, OnDevice', Bytes, WriteHints \/ ClearFlag
    PROVE  Bytes'
<1>1. UNCHANGED <<entries, dir, fats, bytes>> /\ call.op = "sync" /\ call.step # "flush"
  BY StandsAt DEF WriteHints, ClearFlag, device
<1>2. WriteReached'
  <2>1. "clear" \in Steps
    BY DEF Steps
  <2>. QED  BY <1>1, <2>1, GoneTo, ReturnReached, NoWriteReached DEF WriteHints, ClearFlag
<1>. QED  BY <1>1, <1>2, BytesMove DEF Bytes

LEMMA NextBytes ==
    ASSUME CInv, VInv, FlushesDirty, Owned, OnDevice, CInv', VInv', OnDevice', Bytes,
           [Start \/ Progress]_vars
    PROVE  Bytes'
<1>1. CASE Start
  BY <1>1, CreateBytes, WriteToEmptyBytes, WriteExtendingBytes, WriteWithinBytes,
     OthersStartBytes DEF Start
<1>2. CASE Progress
  BY <1>2, FlushBytes, WriteEntryBytes, WriteFirstBytes, WriteDataBytes, WriteSizeBytes,
     WriteShrunkBytes, DeleteEntryBytes, DeleteNamesBytes, SyncBytes DEF Progress
<1>3. CASE UNCHANGED vars
  <2>1. UNCHANGED <<entries, dirty, call, todo, fats, dir, bytes>>
    BY <1>3 DEF vars, memory, device
  <2>. QED  BY <2>1 DEF Bytes, Unbroken, WriteReached, Reached
<1>. QED  BY <1>1, <1>2, <1>3

\* The mount after a power cut finds the files' bytes where the copy it loads
\* has them.
LEMMA CrashBytes ==
    ASSUME CInv, OneSector, Bytes, Crash
    PROVE  Bytes'
<1>1. Unbroken
  BY DEF OneSector, Unbroken, CInv, TypeOK
<1>2. entries' = fats[1] /\ UNCHANGED <<fats, dir, bytes>> /\ Return
  BY DEF Crash, device
<1>. QED  BY <1>1, <1>2, ReturnReached DEF Bytes

-----------------------------------------------------------------------------
(***************************************************************************)
(* The volume implements the file store.                                   *)
(***************************************************************************)

FInv ==
    /\ EInv
    /\ ~failed /\ (OneSector \/ ~interrupted) => Bytes
    /\ ~MayFail => ~failed

LEMMA InitFInv == Init => FInv
<1> SUFFICES ASSUME Init PROVE FInv
  OBVIOUS
<1>1. EInv /\ ~failed
  BY InitEInv DEF Init
<1>2. /\ \A f \in Files : dir[f].first = 0
      /\ call.op # "write"
  BY DEF Init, NoEntry, Idle
<1>. QED  BY <1>1, <1>2 DEF FInv, Bytes, Filled, WriteReached

LEMMA NextFInv == FInv /\ [Next]_vars => FInv'
<1> SUFFICES ASSUME FInv, [Next]_vars PROVE FInv'
  OBVIOUS
<1>1. EInv'
  BY NextEInv DEF FInv
<1>2. ~MayFail => ~failed'
  BY DEF FInv, Next, Start, Progress, Create, WriteToEmpty, WriteExtending, WriteWithin, Shrink,
         Remove, Sync, MarkDirty, FlushSector, FlushDone, WriteEntry, WriteFirst, WriteData,
         WriteSize, WriteShrunk, DeleteEntry, DeleteNames, WriteHints, ClearFlag, Fail, Crash, vars
<1>3. ASSUME ~failed', OneSector \/ ~interrupted' PROVE Bytes'
  <2>1. CASE Crash
    BY <1>3, <2>1, CrashBytes DEF FInv, EInv, Crash
  <2>2. CASE Fail
    BY <1>3, <2>2 DEF Fail
  <2>3. CASE [Start \/ Progress]_vars
    <3>1. UNCHANGED <<failed, interrupted>>
      BY <2>3 DEF Start, Progress, Create, WriteToEmpty, WriteExtending, WriteWithin, Shrink, Remove,
             Sync, MarkDirty, FlushSector, FlushDone, WriteEntry, WriteFirst, WriteData, WriteSize,
             WriteShrunk, DeleteEntry, DeleteNames, WriteHints, ClearFlag, vars
    <3>. QED  BY <1>1, <1>3, <2>3, <3>1, NextBytes DEF FInv, EInv, DevInv
  <2>. QED  BY <2>1, <2>2, <2>3 DEF Next
<1>. QED  BY <1>1, <1>2, <1>3 DEF FInv

THEOREM BytesInvariance == Spec => []FInv
BY InitFInv, NextFInv, PTL DEF Spec

\* What a mount reads of a file that is there.
LEMMA ReadsBack ==
    ASSUME FInv, ~failed, OneSector \/ ~interrupted, Unbroken
    PROVE  \A f \in Files : Present(f) => dir[f].size = 0 \/ Readable(f)
<1>1. DeviceSound /\ Filled(fats[1], dir, bytes) /\ CInv
  BY OnDeviceIsSound DEF FInv, Bytes, EInv
<1> SUFFICES ASSUME NEW f \in Files, Present(f), dir[f].size # 0 PROVE Readable(f)
  OBVIOUS
<1>2. dir[f].size > 0
  BY <1>1, VolumeAssumption DEF CInv, TypeOK, Entry, Present
<1>3. dir[f].first # 0
  <2>1. dir[f].first = 0 => dir[f].size <= 0
    BY <1>1 DEF CInv
  <2>2. dir[f].size \in Int
    BY <1>1, EntryTypes DEF CInv
  <2>. QED  BY <1>2, <2>1, <2>2
<1>4. f \in Chained
  BY <1>3 DEF Chained
<1>. QED  BY <1>1, <1>3, <1>4 DEF DeviceSound, Sound, Readable, Filled, WrittenTo

\* Every file the first power cut finds is read back whole, in its own bytes,
\* unless the cut comes between two sectors of the first copy.
THEOREM FilesReadBack ==
    Spec => [](~failed /\ ~interrupted /\ Unbroken
                  => \A f \in Files : Present(f) => dir[f].size = 0 \/ Readable(f))
<1>1. FInv => (~failed /\ ~interrupted /\ Unbroken
                  => \A f \in Files : Present(f) => dir[f].size = 0 \/ Readable(f))
  BY ReadsBack
<1>. QED  BY <1>1, BytesInvariance, PTL

Sizes == [f \in Files |-> dir[f].size]

\* An entry write is one change of one file, and nothing else is a change.
LEMMA SizeSteps ==
    ASSUME CInv, [Next]_vars
    PROVE  \/ Sizes' = Sizes
           \/ \E f \in Files :
                 \/ Sizes[f] = -1 /\ Sizes' = [Sizes EXCEPT ![f] = 0]
                 \/ Sizes[f] # -1 /\ \E n \in 0 .. MaxSize : Sizes' = [Sizes EXCEPT ![f] = n]
                 \/ Sizes[f] # -1 /\ Sizes' = [Sizes EXCEPT ![f] = -1]
<1>1. dir \in Dirs /\ \A f \in Files : Present(f) <=> Sizes[f] # -1
  BY VolumeAssumption DEF CInv, TypeOK, Dirs, Entry, NoEntry, Present, Sizes
<1>2. ASSUME NEW f \in Files, NEW en, dir' = [dir EXCEPT ![f] = en]
      PROVE  Sizes' = [Sizes EXCEPT ![f] = en.size]
  BY <1>1, <1>2 DEF Sizes, Dirs
<1>3. CASE UNCHANGED dir
  BY <1>3 DEF Sizes
<1>4. CASE WriteEntry
  <2>1. call.file \in Files /\ ~Present(call.file)
    BY <1>4, StandsAt DEF WriteEntry
  <2>2. Sizes' = [Sizes EXCEPT ![call.file] = [first |-> call.first, size |-> 0].size]
    BY <1>2, <1>4, <2>1 DEF WriteEntry
  <2>. QED  BY <1>1, <2>1, <2>2
<1>5. CASE WriteFirst
  <2>1. call.file \in Files /\ Present(call.file)
    BY <1>5, StandsAt DEF WriteFirst, Writing
  <2>2. dir[call.file] \in Entry
    BY <2>1, EntryTypes DEF CInv
  <2>3. [dir[call.file] EXCEPT !.first = call.first].size = dir[call.file].size
    BY <2>2 DEF Entry
  <2>4. Sizes' = [Sizes EXCEPT ![call.file] = dir[call.file].size]
    BY <1>2, <1>5, <2>1, <2>3 DEF WriteFirst
  <2>5. Sizes' = Sizes
    BY <2>1, <2>4 DEF Sizes
  <2>. QED  BY <2>5
<1>6. CASE WriteSize \/ WriteShrunk
  <2>1. call.file \in Files /\ Present(call.file) /\ call.want \in 0 .. MaxSize
    BY <1>6, StandsAt DEF WriteSize, WriteShrunk, Writing, OnEntry, Calls
  <2>2. Sizes' = [Sizes EXCEPT ![call.file] = call.want]
    BY <1>2, <1>6, <2>1 DEF WriteSize, WriteShrunk
  <2>. QED  BY <1>1, <2>1, <2>2
<1>7. CASE DeleteEntry
  <2>1. call.file \in Files /\ Present(call.file)
    BY <1>7, StandsAt DEF DeleteEntry, OnEntry
  <2>2. Sizes' = [Sizes EXCEPT ![call.file] = NoEntry.size]
    BY <1>2, <1>7, <2>1 DEF DeleteEntry
  <2>. QED  BY <1>1, <2>1, <2>2 DEF NoEntry
<1>8. UNCHANGED dir \/ WriteEntry \/ WriteFirst \/ WriteSize \/ WriteShrunk \/ DeleteEntry
  BY DEF Next, Start, Progress, Create, WriteToEmpty, WriteExtending, WriteWithin, Shrink,
         Remove, Sync, MarkDirty, FlushSector, FlushDone, WriteData, DeleteNames, WriteHints,
         ClearFlag, Fail, Crash, vars, device
<1>. QED  BY <1>3, <1>4, <1>5, <1>6, <1>7, <1>8

\* The length the store is shown to have under a name.
Length(f) == IF ~Present(f) THEN -1
             ELSE IF dir[f].size = 0 \/ Readable(f) THEN dir[f].size ELSE Damaged

\* Where every file reads back, that is the size in its entry.
LEMMA LengthsAreSizes ==
    ASSUME FInv, OneSector, ~MayFail
    PROVE  [f \in Files |-> Length(f)] = Sizes
<1>1. Unbroken
  BY DEF FInv, EInv, OneSector, Unbroken, CInv, TypeOK
<1>2. \A f \in Files : Present(f) => dir[f].size = 0 \/ Readable(f)
  BY <1>1, ReadsBack DEF FInv
<1>3. \A f \in Files : ~Present(f) => dir[f].size = -1
  BY DEF Present, NoEntry
<1>. QED  BY <1>2, <1>3 DEF Length, Sizes

\* Where a copy of the table is written at once and writes land, a volume is a
\* store whose files change one at a time, each at once, and never because the
\* power goes out: a mount at any moment reads every file whole, at its old
\* length or its new one.
THEOREM ImplementsStore ==
    ASSUME OneSector, ~MayFail
    PROVE  Spec => StoreSpec
<1> DEFINE L == [f \in Files |-> IF ~Present(f) THEN -1
                                 ELSE IF dir[f].size = 0 \/ Readable(f) THEN dir[f].size
                                 ELSE Damaged]
<1>1. FInv => L = Sizes
  BY LengthsAreSizes DEF Length
<1>2. (FInv => L = Sizes)'
  BY <1>1, PTL
<1>3. Init => Store!Init
  <2> SUFFICES ASSUME Init PROVE L = [f \in Files |-> -1]
    BY DEF Store!Init, Store!Absent
  <2>1. \A f \in Files : ~Present(f)
    BY DEF Init, Present
  <2>. QED  BY <2>1
<1>4. FInv /\ FInv' /\ [Next]_vars => [Store!Next]_L
  <2> SUFFICES ASSUME FInv, FInv', [Next]_vars PROVE L' = L \/ Store!Next
    OBVIOUS
  <2>1. L = Sizes /\ L' = Sizes'
    BY <1>1, <1>2
  <2> HIDE DEF L
  <2>2. \/ L' = L
        \/ \E f \in Files :
              \/ L[f] = -1 /\ L' = [L EXCEPT ![f] = 0]
              \/ L[f] # -1 /\ \E n \in 0 .. MaxSize : L' = [L EXCEPT ![f] = n]
              \/ L[f] # -1 /\ L' = [L EXCEPT ![f] = -1]
    BY <2>1, SizeSteps DEF FInv, EInv
  <2>. QED  BY <2>2 DEF Store!Next, Store!Create, Store!Resize, Store!Remove, Store!Absent, L
<1>. QED  BY <1>3, <1>4, BytesInvariance, PTL DEF Spec, StoreSpec, Store!Spec
=============================================================================
