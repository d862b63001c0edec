------------------------- MODULE VolumeSoundProofs -------------------------
(***************************************************************************)
(* The resident table is sound for the entries on the device, for every    *)
(* volume, any sectors and any number of failed writes; and the types,     *)
(* power cuts included.  The invariant says where each call stands and     *)
(* whose every chain is: the root's, a file's, or, between the change of   *)
(* the table and that of the entry, the call's.                            *)
(***************************************************************************)
EXTENDS VolumeProofs

-----------------------------------------------------------------------------
(***************************************************************************)
(* Where a call stands.                                                    *)
(***************************************************************************)

\* The call works on a file that has an entry, and is given the cluster that
\* entry names.
OnEntry(c) == c.file \in Files /\ Present(c.file) /\ c.first = dir[c.file].first

Writing(c) ==
    /\ c.file \in Files /\ Present(c.file)
    /\ c.first \in Clusters
    /\ dir[c.file].first \in {0, c.first}
    /\ c.step = "first" => dir[c.file].first = 0
    /\ c.step \in {"data", "size"} => dir[c.file].first # 0
    /\ c.step # "size" => c.at < c.want

CallStands(c) ==
    \/ c.op = "none" /\ c.step = "idle"
    \/ c.op = "create" /\ c.step \in {"flush", "create"} /\ c.file \in Files /\ ~Present(c.file)
    \/ c.op = "write" /\ c.step \in {"flush", "first", "data", "size"} /\ Writing(c)
    \/ c.op = "shrink" /\ c.step = "shrink" /\ OnEntry(c) /\ c.want < dir[c.file].size
    \/ c.op = "remove" /\ c.step = "delete" /\ OnEntry(c)
    \/ c.op = "remove" /\ c.step = "names" /\ c.file \in Files /\ ~Present(c.file)
    \/ c.op \in {"shrink", "remove"} /\ c.step = "flush"
    \/ c.op = "sync" /\ c.step \in {"flush", "hints", "clear"}

CInv ==
    /\ TypeOK
    /\ \A f \in Files : dir[f].first = 0 => dir[f].size <= 0
    /\ CallStands(call)

-----------------------------------------------------------------------------
(***************************************************************************)
(* Types.                                                                  *)
(***************************************************************************)

TableTypes == entries \in Tables /\ nextFree \in Clusters /\ dirty \subseteq Sectors

LEMMA SectorsOf ==
    ASSUME dirty \subseteq Sectors, NEW S \in SUBSET Clusters, Touched(S)
    PROVE  dirty' \subseteq Sectors
BY DEF Touched, Sectors

\* What an allocation takes.
LEMMA TakesClusters ==
    ASSUME TableTypes, NEW count \in Nat \ {0}, HasRoom(count)
    PROVE  LET got == Chosen(entries, nextFree, count)
           IN  /\ got \in SUBSET FreeClusters(entries) /\ got # {} /\ got \in SUBSET Clusters
               /\ Cardinality(got) = count
               /\ FirstFound(nextFree, got) \in got
<1> DEFINE got == Chosen(entries, nextFree, count)
<1>1. /\ got \in SUBSET FreeClusters(entries) /\ got # {}
      /\ Cardinality(got) = count
  BY ChosenFree, ChosenCount DEF TableTypes, HasRoom
<1>2. got \in SUBSET Clusters
  BY <1>1 DEF FreeClusters
<1> HIDE DEF got
<1>3. FirstFound(nextFree, got) \in got
  BY <1>1, <1>2, FirstFoundExists DEF TableTypes
<1>. QED  BY <1>1, <1>2, <1>3 DEF got

LEMMA AllocateTypes ==
    ASSUME TypeOK, NEW f, NEW count \in Nat \ {0}, HasRoom(count), Allocate(f, count)
    PROVE  TableTypes' /\ bytes' \in [Clusters -> Files \cup {Stale}]
<1> DEFINE got == Chosen(entries, nextFree, count)
<1>1. got \in SUBSET Clusters /\ got # {}
  BY TakesClusters DEF TypeOK, TableTypes
<1>2. /\ entries' = Linked(entries, nextFree, got) /\ nextFree' = HintAfter(nextFree, got)
      /\ Touched(got)
      /\ bytes' = [c \in Clusters |-> IF c \in got THEN Stale ELSE bytes[c]]
  BY DEF Allocate
<1> HIDE DEF got
<1>3. entries' \in Tables /\ nextFree' \in Clusters /\ dirty' \subseteq Sectors
  BY <1>1, <1>2, LinkedType, HintAfterType, SectorsOf DEF TypeOK
<1>. QED  BY <1>2, <1>3 DEF TypeOK, TableTypes

LEMMA AppendTypes ==
    ASSUME TypeOK, NEW h, WalkSucceeds(entries, h), NEW count \in Nat \ {0}, HasRoom(count),
           Append(h, count)
    PROVE  TableTypes' /\ bytes' \in [Clusters -> Files \cup {Stale}]
<1> DEFINE got  == Chosen(entries, nextFree, count)
           last == LastOf(entries, h)
<1>1. got \in SUBSET Clusters /\ got # {}
  BY TakesClusters DEF TypeOK, TableTypes
<1>2. /\ entries' = Appended(entries, nextFree, got, last)
      /\ nextFree' = HintAfter(nextFree, got)
      /\ Touched(got \cup {last})
      /\ bytes' = [c \in Clusters |-> IF c \in got THEN Stale ELSE bytes[c]]
  BY DEF Append
<1>3. last \in Clusters
  BY LastCarriesMark
<1> HIDE DEF got, last
<1>4. entries' \in Tables /\ nextFree' \in Clusters
  BY <1>1, <1>2, AppendedType, HintAfterType DEF TypeOK
<1>5. dirty' \subseteq Sectors
  <2>1. got \cup {last} \in SUBSET Clusters
    BY <1>1, <1>3
  <2>. QED  BY <1>2, <2>1, SectorsOf DEF TypeOK
<1>. QED  BY <1>2, <1>4, <1>5 DEF TypeOK, TableTypes

LEMMA FreeTypes ==
    ASSUME TypeOK, NEW h, Free(h)
    PROVE  TableTypes'
<1>1. CASE WalkSucceeds(entries, h)
  <2>1. Chain(entries, h) \in SUBSET Clusters
    BY DEF Chain
  <2>2. dirty' \subseteq Sectors
    BY <1>1, <2>1, SectorsOf DEF Free, TypeOK
  <2>. QED  BY <1>1, <2>2, FreedType, HintAfterFreeType DEF Free, TypeOK, TableTypes
<1>2. CASE ~WalkSucceeds(entries, h)
  BY <1>2 DEF Free, TypeOK, TableTypes
<1>. QED  BY <1>1, <1>2

LEMMA CutTypes ==
    ASSUME TypeOK, NEW h, NEW keep, Cut(h, keep)
    PROVE  TableTypes'
<1>1. PICK last \in Chain(entries, h) :
        /\ entries' = CutAfter(entries, last)
        /\ nextFree' = HintAfterFree(entries, entries[last], nextFree)
        /\ Touched({last} \cup Chain(entries, entries[last]))
  BY DEF Cut
<1>2. {last} \cup Chain(entries, entries[last]) \in SUBSET Clusters
  BY DEF Chain
<1>3. dirty' \subseteq Sectors
  BY <1>1, <1>2, SectorsOf DEF TypeOK
<1>. QED  BY <1>1, <1>3, CutAfterType, HintAfterFreeType DEF TypeOK, TableTypes

-----------------------------------------------------------------------------
(***************************************************************************)
(* Every step leaves the call where its protocol has it.                   *)
(***************************************************************************)

\* A step that leaves the entries and the device's tables alone.
LEMMA CallMoves ==
    ASSUME CInv, TableTypes', bytes' \in [Clusters -> Files \cup {Stale}],
           UNCHANGED <<fats, dir>>, todo' \subseteq Copies \X Sectors,
           marked' \in BOOLEAN, flag' \in BOOLEAN, failed' \in BOOLEAN, interrupted' \in BOOLEAN,
           call' \in Calls, CallStands(call)'
    PROVE  CInv'
BY DEF CInv, TypeOK, TableTypes

\* A flush is worked out from the sectors that are dirty.
LEMMA FlushType ==
    ASSUME TableTypes', NEW c, Flushing(c)
    PROVE  todo' \subseteq Copies \X Sectors
BY DEF TableTypes, Flushing

\* The call that is about to start does not touch the table.
LEMMA TableSame ==
    ASSUME CInv, UNCHANGED <<entries, nextFree, dirty>>
    PROVE  TableTypes'
BY DEF CInv, TypeOK, TableTypes

LEMMA CreateStands ==
    ASSUME CInv, NEW f \in Files, NEW count \in 0 .. MaxSize, Create(f, count)
    PROVE  CInv'
<1>1. TableTypes' /\ bytes' \in [Clusters -> Files \cup {Stale}]
  <2>1. CASE count = 0
    BY <2>1, TableSame DEF Create, CInv, TypeOK
  <2>2. CASE count # 0
    BY <2>2, AllocateTypes, VolumeAssumption DEF Create, CInv
  <2>. QED  BY <2>1, <2>2
<1>2. (IF count = 0 THEN 0 ELSE FirstOf(count)) \in Clusters \cup {0}
  BY TakesClusters, VolumeAssumption DEF Create, CInv, TypeOK, TableTypes, FirstOf
<1> DEFINE first == IF count = 0 THEN 0 ELSE FirstOf(count)
<1>3. /\ call' = [Starting("create", f, 0, 0, first) EXCEPT !.step = "flush"]
      /\ UNCHANGED <<marked, fats, dir, flag, failed, interrupted>> /\ ~Present(f)
  BY DEF Create, Flushing
<1>4. todo' \subseteq Copies \X Sectors
  BY <1>1, FlushType DEF Create
<1> HIDE DEF first
<1>5. first \in Clusters \cup {0}
  BY <1>2 DEF first
<1>6. /\ call'.op = "create" /\ call'.step = "flush" /\ call'.file = f
      /\ call' \in Calls
  BY <1>3, <1>5, VolumeAssumption DEF Starting, Calls, Ops, Steps
<1>7. CallStands(call)'
  BY <1>3, <1>6 DEF CallStands, Present
<1>. QED  BY <1>1, <1>3, <1>4, <1>6, <1>7, CallMoves DEF CInv, TypeOK

LEMMA WriteToEmptyStands ==
    ASSUME CInv, NEW f \in Files, NEW want \in 1 .. MaxSize, WriteToEmpty(f, want)
    PROVE  CInv'
<1> DEFINE first == FirstOf(want)
<1>1. TableTypes' /\ bytes' \in [Clusters -> Files \cup {Stale}]
  BY AllocateTypes, VolumeAssumption DEF WriteToEmpty, CInv
<1>2. first \in Clusters
  BY TakesClusters, VolumeAssumption DEF WriteToEmpty, CInv, TypeOK, TableTypes, FirstOf
<1>3. /\ call' = [Starting("write", f, want, dir[f].size, first) EXCEPT !.step = "flush"]
      /\ UNCHANGED <<marked, fats, dir, flag, failed, interrupted>>
      /\ Present(f) /\ dir[f].first = 0
  BY DEF WriteToEmpty, Flushing
<1>4. todo' \subseteq Copies \X Sectors
  BY <1>1, FlushType DEF WriteToEmpty
<1>5. dir[f].size = 0
  BY <1>3 DEF CInv, TypeOK, Entry, NoEntry, Present
<1> HIDE DEF first
<1>6. /\ call'.op = "write" /\ call'.step = "flush" /\ call'.file = f
      /\ call'.first \in Clusters /\ call'.at = 0 /\ call'.want = want
      /\ call' \in Calls
  BY <1>2, <1>3, <1>5, VolumeAssumption DEF Starting, Calls, Ops, Steps
<1>7. CallStands(call)'
  BY <1>3, <1>6 DEF CallStands, Writing, Present
<1>. QED  BY <1>1, <1>3, <1>4, <1>6, <1>7, CallMoves DEF CInv, TypeOK

LEMMA WriteExtendingStands ==
    ASSUME CInv, NEW f \in Files, NEW want \in 1 .. MaxSize, NEW at \in 0 .. MaxSize,
           WriteExtending(f, at, want)
    PROVE  CInv'
<1> DEFINE first == dir[f].first
<1>1. TableTypes' /\ bytes' \in [Clusters -> Files \cup {Stale}]
  <2>1. want - ChainLength(entries, first) \in Nat \ {0}
    <3>1. ChainLength(entries, first) \in Nat
      BY SomeClusters DEF ChainLength, Chain
    <3>. QED  BY <3>1, VolumeAssumption DEF WriteExtending
  <2>. QED  BY <2>1, AppendTypes DEF WriteExtending, CInv
<1>2. first \in Clusters
  BY DEF WriteExtending, WalkSucceeds
<1>3. /\ call' = [Starting("write", f, want, at, first) EXCEPT !.step = "flush"]
      /\ UNCHANGED <<marked, fats, dir, flag, failed, interrupted>>
      /\ Present(f) /\ at < want
  BY DEF WriteExtending, Flushing
<1>4. todo' \subseteq Copies \X Sectors
  BY <1>1, FlushType DEF WriteExtending
<1>6. /\ call'.op = "write" /\ call'.step = "flush" /\ call'.file = f
      /\ call'.first = first /\ call'.at = at /\ call'.want = want
      /\ call' \in Calls
  BY <1>2, <1>3, VolumeAssumption DEF Starting, Calls, Ops, Steps
<1>7. CallStands(call)'
  BY <1>2, <1>3, <1>6 DEF CallStands, Writing, Present
<1>. QED  BY <1>1, <1>3, <1>4, <1>6, <1>7, CallMoves DEF CInv, TypeOK

LEMMA WriteWithinStands ==
    ASSUME CInv, NEW f \in Files, NEW want \in 1 .. MaxSize, NEW at \in 0 .. MaxSize,
           WriteWithin(f, at, want)
    PROVE  CInv'
<1>1. TableTypes'
  BY TableSame DEF WriteWithin
<1>2. dir[f].first \in Clusters
  BY DEF WriteWithin, WalkSucceeds
<1>3. /\ call' = [Starting("write", f, want, at, dir[f].first) EXCEPT !.step = "data"]
      /\ UNCHANGED <<todo, marked, fats, dir, flag, bytes, failed, interrupted>>
      /\ Present(f) /\ at < want
  BY DEF WriteWithin, device
<1>4. /\ call'.op = "write" /\ call'.step = "data" /\ call'.file = f
      /\ call'.first = dir[f].first /\ call'.at = at /\ call'.want = want
      /\ call' \in Calls
  BY <1>2, <1>3, VolumeAssumption DEF Starting, Calls, Ops, Steps
<1>5. CallStands(call)'
  BY <1>2, <1>3, <1>4, MarksApart DEF CallStands, Writing, Present, FREE
<1>. QED  BY <1>1, <1>3, <1>4, <1>5, CallMoves DEF CInv, TypeOK

\* What an entry that is present holds.
LEMMA EntryTypes ==
    ASSUME TypeOK, NEW f \in Files
    PROVE  /\ dir[f].first \in Clusters \cup {0} /\ dir[f].size \in Int
           /\ Present(f) => dir[f] \in Entry
BY DEF TypeOK, Entry, NoEntry, Present

LEMMA ShrinkStands ==
    ASSUME CInv, NEW f \in Files, NEW want \in 0 .. MaxSize, Shrink(f, want)
    PROVE  CInv'
<1>1. TableTypes'
  BY TableSame DEF Shrink
<1>2. dir[f].first \in Clusters \cup {0}
  BY EntryTypes DEF CInv
<1>3. /\ call' = [Starting("shrink", f, want, 0, dir[f].first) EXCEPT !.step = "shrink"]
      /\ UNCHANGED <<todo, marked, fats, dir, flag, bytes, failed, interrupted>>
      /\ Present(f) /\ want < dir[f].size
  BY DEF Shrink, device
<1>4. /\ call'.op = "shrink" /\ call'.step = "shrink" /\ call'.file = f
      /\ call'.first = dir[f].first /\ call'.want = want
      /\ call' \in Calls
  BY <1>2, <1>3, VolumeAssumption DEF Starting, Calls, Ops, Steps
<1>5. CallStands(call)'
  BY <1>3, <1>4 DEF CallStands, OnEntry, Present
<1>. QED  BY <1>1, <1>3, <1>4, <1>5, CallMoves DEF CInv, TypeOK

LEMMA RemoveStands ==
    ASSUME CInv, NEW f \in Files, Remove(f)
    PROVE  CInv'
<1>1. TableTypes'
  BY TableSame DEF Remove
<1>2. dir[f].first \in Clusters \cup {0}
  BY EntryTypes DEF CInv
<1>3. /\ call' = [Starting("remove", f, 0, 0, dir[f].first) EXCEPT !.step = "delete"]
      /\ UNCHANGED <<todo, marked, fats, dir, flag, bytes, failed, interrupted>>
      /\ Present(f)
  BY DEF Remove, device
<1>4. /\ call'.op = "remove" /\ call'.step = "delete" /\ call'.file = f
      /\ call'.first = dir[f].first
      /\ call' \in Calls
  BY <1>2, <1>3, VolumeAssumption DEF Starting, Calls, Ops, Steps
<1>5. CallStands(call)'
  BY <1>3, <1>4 DEF CallStands, OnEntry, Present
<1>. QED  BY <1>1, <1>3, <1>4, <1>5, CallMoves DEF CInv, TypeOK

LEMMA SyncStands == CInv /\ Sync => CInv'
<1> SUFFICES ASSUME CInv, Sync PROVE CInv'
  OBVIOUS
<1>1. TableTypes'
  BY TableSame DEF Sync
<1>2. /\ call' = [Starting("sync", Stale, 0, 0, 0) EXCEPT !.step = "flush"]
      /\ UNCHANGED <<marked, fats, dir, flag, bytes, failed, interrupted>>
  BY DEF Sync, Flushing, device
<1>3. todo' \subseteq Copies \X Sectors
  BY <1>1, FlushType DEF Sync
<1>4. call'.op = "sync" /\ call'.step = "flush" /\ call' \in Calls
  BY <1>2, VolumeAssumption DEF Starting, Calls, Ops, Steps
<1>5. CallStands(call)'
  BY <1>4 DEF CallStands
<1>. QED  BY <1>1, <1>2, <1>3, <1>4, <1>5, CallMoves DEF CInv, TypeOK

\* Where a call stands when its step is one of a device write.
LEMMA StandsAt ==
    ASSUME CInv
    PROVE  /\ call.step = "create" => call.op = "create" /\ call.file \in Files /\ ~Present(call.file)
           /\ call.step \in {"first", "data", "size"} => call.op = "write" /\ Writing(call)
           /\ call.step = "shrink" => call.op = "shrink" /\ OnEntry(call) /\ call.want < dir[call.file].size
           /\ call.step = "delete" => call.op = "remove" /\ OnEntry(call)
           /\ call.step = "names" => call.op = "remove" /\ call.file \in Files /\ ~Present(call.file)
           /\ call.step \in {"hints", "clear"} => call.op = "sync"
           /\ call \in Calls
BY DEF CInv, CallStands, TypeOK

\* A call that returns stands nowhere.
LEMMA Returned ==
    ASSUME Return
    PROVE  call' \in Calls /\ CallStands(call)' /\ todo' \subseteq Copies \X Sectors
BY VolumeAssumption DEF Return, Idle, Calls, Ops, Steps, CallStands

LEMMA GoneTo ==
    ASSUME CInv, NEW step \in Steps, Goto(step)
    PROVE  /\ call' \in Calls /\ call'.op = call.op /\ call'.step = step
           /\ call'.file = call.file /\ call'.first = call.first
           /\ call'.at = call.at /\ call'.want = call.want
           /\ todo' \subseteq Copies \X Sectors
BY DEF Goto, CInv, TypeOK, Calls

LEMMA MarkDirtyStands == CInv /\ MarkDirty => CInv'
BY DEF MarkDirty, CInv, TypeOK, CallStands, Writing, OnEntry, Present

LEMMA FlushSectorStands == CInv /\ FlushSector => CInv'
<1> SUFFICES ASSUME CInv, FlushSector PROVE CInv'
  OBVIOUS
<1> DEFINE p == NextWrite
           copy(old) == [c \in Clusters |-> IF SectorOf(c) = p[2] THEN entries[c] ELSE old[c]]
<1>1. /\ fats' = [fats EXCEPT ![p[1]] = copy(fats[p[1]])]
      /\ todo' = todo \ {p}
      /\ UNCHANGED <<entries, nextFree, dirty, marked, call, dir, flag, bytes, failed, interrupted>>
  BY DEF FlushSector
<1> HIDE DEF p
<1>2. p[1] \in Copies => copy(fats[p[1]]) \in Tables
  BY DEF CInv, TypeOK, Tables
<1> HIDE DEF copy
<1>3. fats' \in [Copies -> Tables]
  BY <1>1, <1>2 DEF CInv, TypeOK
<1>. QED  BY <1>1, <1>3 DEF CInv, TypeOK, CallStands, Writing, OnEntry, Present

LEMMA FlushDoneStands == CInv /\ FlushDone => CInv'
<1> SUFFICES ASSUME CInv, FlushDone PROVE CInv'
  OBVIOUS
<1>1. /\ call.step = "flush" /\ dirty' = {}
      /\ UNCHANGED <<entries, nextFree, marked, fats, dir, flag, bytes, failed, interrupted>>
  BY DEF FlushDone, device
<1>2. TableTypes'
  BY <1>1 DEF CInv, TypeOK, TableTypes
<1>3. call' \in Calls /\ CallStands(call)' /\ todo' \subseteq Copies \X Sectors
  <2>1. CASE call.op = "create"
    <3>1. Goto("create") /\ "create" \in Steps
      BY <2>1 DEF FlushDone, Steps
    <3>2. call.file \in Files /\ ~Present(call.file)
      BY <2>1 DEF CInv, CallStands
    <3>. QED  BY <1>1, <2>1, <3>1, <3>2, GoneTo DEF CallStands, Present
  <2>2. CASE call.op = "write"
    <3>1. Writing(call)
      BY <2>2 DEF CInv, CallStands
    <3>2. CASE dir[call.file].first = 0
      <4>1. Goto("first") /\ "first" \in Steps
        BY <2>2, <3>2 DEF FlushDone, Steps
      <4>. QED  BY <1>1, <2>2, <3>1, <3>2, <4>1, GoneTo DEF CallStands, Writing, Present
    <3>3. CASE dir[call.file].first # 0
      <4>1. Goto("data") /\ "data" \in Steps
        BY <2>2, <3>3 DEF FlushDone, Steps
      <4>. QED  BY <1>1, <2>2, <3>1, <3>3, <4>1, GoneTo DEF CallStands, Writing, Present
    <3>. QED  BY <3>2, <3>3
  <2>3. CASE call.op = "sync"
    <3>1. Goto("hints") /\ "hints" \in Steps
      BY <2>3 DEF FlushDone, Steps
    <3>. QED  BY <2>3, <3>1, GoneTo DEF CallStands
  <2>4. CASE call.op \notin {"create", "write", "sync"}
    BY <2>4, Returned DEF FlushDone
  <2>. QED  BY <2>1, <2>2, <2>3, <2>4
<1>. QED  BY <1>1, <1>2, <1>3, CallMoves DEF CInv, TypeOK

\* A step that writes the entry of one file.
LEMMA EntryMoves ==
    ASSUME CInv, TableTypes', UNCHANGED <<fats, bytes, marked, flag, failed, interrupted>>,
           NEW entry \in Entry \cup {NoEntry}, entry.first = 0 => entry.size <= 0,
           dir' = [dir EXCEPT ![call.file] = entry],
           todo' \subseteq Copies \X Sectors, call' \in Calls, CallStands(call)'
    PROVE  CInv'
<1>1. dir' \in [Files -> Entry \cup {NoEntry}]
  BY DEF CInv, TypeOK
<1>2. \A f \in Files : dir'[f].first = 0 => dir'[f].size <= 0
  BY DEF CInv, TypeOK
<1>. QED  BY <1>1, <1>2 DEF CInv, TypeOK, TableTypes

LEMMA WriteEntryStands == CInv /\ WriteEntry => CInv'
<1> SUFFICES ASSUME CInv, WriteEntry PROVE CInv'
  OBVIOUS
<1> DEFINE entry == [first |-> call.first, size |-> 0]
<1>1. entry \in Entry /\ entry.size <= 0
  BY VolumeAssumption DEF CInv, TypeOK, Calls, Entry
<1>2. /\ dir' = [dir EXCEPT ![call.file] = entry]
      /\ Return /\ UNCHANGED <<entries, nextFree, dirty, fats, bytes, marked, flag, failed, interrupted>>
  BY DEF WriteEntry
<1> HIDE DEF entry
<1>. QED  BY <1>1, <1>2, TableSame, Returned, EntryMoves

LEMMA WriteFirstStands == CInv /\ WriteFirst => CInv'
<1> SUFFICES ASSUME CInv, WriteFirst PROVE CInv'
  OBVIOUS
<1> DEFINE entry == [first |-> call.first, size |-> dir[call.file].size]
<1>1. Writing(call) /\ call.op = "write" /\ dir[call.file].first = 0 /\ call.step = "first"
  BY StandsAt DEF WriteFirst, Writing
<1>2. dir[call.file] \in Entry /\ call.first \in Clusters
  BY <1>1, EntryTypes DEF Writing, CInv
<1>3. entry \in Entry /\ entry.first # 0
  BY <1>2, MarksApart DEF Entry, FREE
<1>4. /\ dir' = [dir EXCEPT ![call.file] = entry]
      /\ Goto("data") /\ UNCHANGED <<entries, nextFree, dirty, fats, bytes, marked, flag, failed, interrupted>>
  <2>1. [dir[call.file] EXCEPT !.first = call.first] = entry
    BY <1>2 DEF Entry
  <2>. QED  BY <2>1 DEF WriteFirst
<1> HIDE DEF entry
<1>5. CallStands(call)' /\ call' \in Calls /\ todo' \subseteq Copies \X Sectors
  <2>1. "data" \in Steps
    BY DEF Steps
  <2>2. dir'[call.file] = entry /\ entry.first = call.first /\ entry # NoEntry
    BY <1>1, <1>3, <1>4 DEF CInv, TypeOK, Writing, NoEntry, entry
  <2>. QED  BY <1>1, <1>3, <1>4, <2>1, <2>2, GoneTo DEF CallStands, Writing, Present
<1>. QED  BY <1>3, <1>4, <1>5, TableSame, EntryMoves

LEMMA WriteDataStands == CInv /\ WriteData => CInv'
<1> SUFFICES ASSUME CInv, WriteData PROVE CInv'
  OBVIOUS
<1>1. Writing(call) /\ call.op = "write" /\ call.step = "data" /\ call \in Calls
  BY StandsAt DEF WriteData
<1>2. /\ UNCHANGED <<entries, nextFree, dirty, marked, fats, dir, flag, failed, interrupted>>
      /\ \E c \in Clusters : bytes' = [bytes EXCEPT ![c] = call.file]
  BY DEF WriteData, Chain
<1>3. bytes' \in [Clusters -> Files \cup {Stale}]
  BY <1>1, <1>2 DEF CInv, TypeOK, Writing
<1>4. CallStands(call)' /\ call' \in Calls /\ todo' \subseteq Copies \X Sectors
  <2>1. CASE call.at + 1 < call.want /\ call' = [call EXCEPT !.at = @ + 1] /\ UNCHANGED todo
    <3>1. /\ call'.at = call.at + 1 /\ call' \in Calls
          /\ call'.op = call.op /\ call'.step = call.step /\ call'.file = call.file
          /\ call'.first = call.first /\ call'.want = call.want
      BY <1>1, <2>1, VolumeAssumption DEF Calls
    <3>. QED  BY <1>1, <1>2, <2>1, <3>1 DEF CallStands, Writing, Present, CInv, TypeOK
  <2>2. CASE Goto("size")
    <3>1. "size" \in Steps
      BY DEF Steps
    <3>. QED  BY <1>1, <1>2, <2>2, <3>1, GoneTo DEF CallStands, Writing, Present
  <2>3. CASE Return
    BY <2>3, Returned
  <2>. QED  BY <2>1, <2>2, <2>3 DEF WriteData
<1>. QED  BY <1>2, <1>3, <1>4, TableSame, CallMoves DEF CInv, TypeOK

LEMMA WriteSizeStands == CInv /\ WriteSize => CInv'
<1> SUFFICES ASSUME CInv, WriteSize PROVE CInv'
  OBVIOUS
<1> DEFINE entry == [first |-> call.first, size |-> call.want]
<1>1. Writing(call) /\ call \in Calls
  BY StandsAt DEF WriteSize
<1>2. entry \in Entry /\ entry.first # 0
  BY <1>1, MarksApart DEF Writing, Calls, Entry, FREE
<1>3. /\ dir' = [dir EXCEPT ![call.file] = entry]
      /\ Return /\ UNCHANGED <<entries, nextFree, dirty, fats, bytes, marked, flag, failed, interrupted>>
  BY DEF WriteSize
<1> HIDE DEF entry
<1>. QED  BY <1>2, <1>3, TableSame, Returned, EntryMoves

LEMMA WriteShrunkStands == CInv /\ WriteShrunk => CInv'
<1> SUFFICES ASSUME CInv, WriteShrunk PROVE CInv'
  OBVIOUS
<1> DEFINE entry == [first |-> IF call.want = 0 THEN 0 ELSE call.first, size |-> call.want]
<1>1. OnEntry(call) /\ call.op = "shrink" /\ call.want < dir[call.file].size /\ call \in Calls
  BY StandsAt DEF WriteShrunk
<1>2. entry \in Entry /\ (entry.first = 0 => entry.size <= 0)
  <2>1. call.first # 0
    <3>1. call.want \in 0 .. MaxSize /\ dir[call.file].size \in Int
      BY <1>1, EntryTypes DEF CInv, OnEntry, Calls
    <3>. QED  BY <1>1, <3>1, VolumeAssumption DEF CInv, OnEntry
  <2>. QED  BY <1>1, <2>1 DEF Calls, Entry
<1>3. /\ dir' = [dir EXCEPT ![call.file] = entry]
      /\ UNCHANGED <<fats, bytes, marked, flag, failed, interrupted>>
  BY DEF WriteShrunk
<1> HIDE DEF entry
<1>4. TableTypes'
  BY FreeTypes, CutTypes, TableSame DEF WriteShrunk, CInv
<1>5. CallStands(call)' /\ call' \in Calls /\ todo' \subseteq Copies \X Sectors
  <2>1. CASE Return
    BY <2>1, Returned
  <2>2. CASE Flushing(call)
    <3>1. call'.op = "shrink" /\ call'.step = "flush" /\ call' \in Calls
      BY <1>1, <2>2 DEF Flushing, Calls, Steps
    <3>. QED  BY <1>4, <2>2, <3>1, FlushType DEF CallStands
  <2>. QED  BY <2>1, <2>2 DEF WriteShrunk
<1>. QED  BY <1>2, <1>3, <1>4, <1>5, EntryMoves

LEMMA DeleteEntryStands == CInv /\ DeleteEntry => CInv'
<1> SUFFICES ASSUME CInv, DeleteEntry PROVE CInv'
  OBVIOUS
<1>1. OnEntry(call) /\ call.op = "remove"
  BY StandsAt DEF DeleteEntry
<1>2. /\ dir' = [dir EXCEPT ![call.file] = NoEntry] /\ Goto("names")
      /\ UNCHANGED <<entries, nextFree, dirty, fats, bytes, marked, flag, failed, interrupted>>
  BY DEF DeleteEntry
<1>3. CallStands(call)' /\ call' \in Calls /\ todo' \subseteq Copies \X Sectors
  <2>1. "names" \in Steps
    BY DEF Steps
  <2>2. dir'[call.file] = NoEntry
    BY <1>1, <1>2 DEF CInv, TypeOK, OnEntry
  <2>. QED  BY <1>1, <1>2, <2>1, <2>2, GoneTo DEF CallStands, OnEntry, Present
<1>4. NoEntry.first = 0 => NoEntry.size <= 0
  BY DEF NoEntry
<1>. QED  BY <1>2, <1>3, <1>4, TableSame, EntryMoves

LEMMA DeleteNamesStands == CInv /\ DeleteNames => CInv'
<1> SUFFICES ASSUME CInv, DeleteNames PROVE CInv'
  OBVIOUS
<1>1. call.op = "remove" /\ call \in Calls
  BY StandsAt DEF DeleteNames
<1>2. TableTypes'
  BY FreeTypes, TableSame DEF DeleteNames, CInv
<1>3. UNCHANGED <<fats, dir, flag, bytes, marked, failed, interrupted>>
  BY DEF DeleteNames, device
<1>4. CallStands(call)' /\ call' \in Calls /\ todo' \subseteq Copies \X Sectors
  <2>1. CASE Return
    BY <2>1, Returned
  <2>2. CASE Flushing(call)
    <3>1. call'.op = "remove" /\ call'.step = "flush" /\ call' \in Calls
      BY <1>1, <2>2 DEF Flushing, Calls, Steps
    <3>. QED  BY <1>2, <2>2, <3>1, FlushType DEF CallStands
  <2>. QED  BY <2>1, <2>2 DEF DeleteNames
<1>. QED  BY <1>2, <1>3, <1>4, CallMoves DEF CInv, TypeOK

LEMMA WriteHintsStands == CInv /\ WriteHints => CInv'
<1> SUFFICES ASSUME CInv, WriteHints PROVE CInv'
  OBVIOUS
<1>1. call.op = "sync" /\ "clear" \in Steps
  BY StandsAt DEF WriteHints, Steps
<1>2. /\ Goto("clear") /\ marked' = FALSE
      /\ UNCHANGED <<entries, nextFree, dirty, fats, dir, flag, bytes, failed, interrupted>>
  BY DEF WriteHints, device
<1>3. CallStands(call)' /\ call' \in Calls /\ todo' \subseteq Copies \X Sectors
  BY <1>1, <1>2, GoneTo DEF CallStands
<1>. QED  BY <1>2, <1>3, TableSame, CallMoves DEF CInv, TypeOK

LEMMA ClearFlagStands == CInv /\ ClearFlag => CInv'
BY Returned, TableSame, CallMoves DEF ClearFlag, CInv, TypeOK

LEMMA FailStands == CInv /\ Fail => CInv'
<1> SUFFICES ASSUME CInv, Fail PROVE CInv'
  OBVIOUS
<1>1. TableTypes'
  BY FreeTypes, TableSame DEF Fail, CInv
<1>. QED  BY <1>1, Returned, CallMoves DEF Fail, CInv, TypeOK, device

LEMMA CrashStands == CInv /\ Crash => CInv'
<1> SUFFICES ASSUME CInv, Crash PROVE CInv'
  OBVIOUS
<1>1. TableTypes'
  BY FirstCopy, MarksApart DEF Crash, CInv, TypeOK, TableTypes
<1>. QED  BY <1>1, Returned, CallMoves DEF Crash, CInv, TypeOK, device

LEMMA InitCInv == Init => CInv
<1> SUFFICES ASSUME Init PROVE CInv
  OBVIOUS
<1>1. entries \in Tables
  BY DEF Init, Tables, EntryValues
<1>2. fats \in [Copies -> Tables]
  BY <1>1 DEF Init
<1>3. call \in Calls /\ CallStands(call)
  BY VolumeAssumption DEF Init, Idle, Calls, Ops, Steps, CallStands
<1>4. dir \in [Files -> Entry \cup {NoEntry}] /\ bytes \in [Clusters -> Files \cup {Stale}]
  BY DEF Init
<1>5. \A f \in Files : dir[f].first = 0 => dir[f].size <= 0
  BY DEF Init, NoEntry
<1>6. nextFree \in Clusters /\ dirty \subseteq Sectors /\ todo \subseteq Copies \X Sectors
  BY MarksApart DEF Init
<1>7. marked \in BOOLEAN /\ flag \in BOOLEAN /\ failed \in BOOLEAN /\ interrupted \in BOOLEAN
  BY DEF Init
<1>. QED  BY <1>1, <1>2, <1>3, <1>4, <1>5, <1>6, <1>7 DEF CInv, TypeOK

LEMMA NextCInv == CInv /\ [Next]_vars => CInv'
<1> SUFFICES ASSUME CInv, [Next]_vars PROVE CInv'
  OBVIOUS
<1>1. CASE Start
  BY <1>1, CreateStands, WriteToEmptyStands, WriteExtendingStands, WriteWithinStands,
     ShrinkStands, RemoveStands, SyncStands DEF Start
<1>2. CASE Progress
  BY <1>2, MarkDirtyStands, FlushSectorStands, FlushDoneStands, WriteEntryStands, WriteFirstStands,
     WriteDataStands, WriteSizeStands, WriteShrunkStands, DeleteEntryStands, DeleteNamesStands,
     WriteHintsStands, ClearFlagStands DEF Progress
<1>3. CASE UNCHANGED vars
  BY <1>3 DEF vars, memory, device, CInv, TypeOK, CallStands, Writing, OnEntry, Present
<1>. QED  BY <1>1, <1>2, <1>3, FailStands, CrashStands DEF Next

THEOREM CallInvariance == Spec => []CInv
BY InitCInv, NextCInv, PTL DEF Spec

\* Every value stays in its type, failures and power cuts included: in
\* particular no table ever holds a link outside the volume, and no entry a
\* size beyond the longest.
THEOREM TypeCorrect == Spec => []TypeOK
<1>1. CInv => TypeOK
  BY DEF CInv
<1>. QED  BY <1>1, CallInvariance, PTL

-----------------------------------------------------------------------------
(***************************************************************************)
(* Whose the chains are.                                                   *)
(***************************************************************************)

\* The chain a call has taken from the table and named in no entry yet, or
\* the one whose entry it has deleted; 0 when there is none.
Pending ==
    IF \/ call.op = "create"
       \/ call.op = "write" /\ dir[call.file].first = 0
       \/ call.step = "names"
    THEN call.first ELSE 0

Heads(d, p) == ({FIRST_CLUSTER, p} \cup {d[f].first : f \in Files}) \ {0}

\* No chain is two owners'.
Apart(d, p) ==
    /\ p # FIRST_CLUSTER
    /\ \A f \in Files : d[f].first # FIRST_CLUSTER /\ (d[f].first = p => p = 0)
    /\ \A f, g \in Files : f # g /\ d[f].first = d[g].first => d[f].first = 0

LongEnough(e, d) == \A f \in Files : d[f].first # 0 => d[f].size <= ChainLength(e, d[f].first)

Rooted(e, d, p) == WellLinked(e, Heads(d, p)) /\ Apart(d, p) /\ LongEnough(e, d)

\* Every allocated cluster is on a chain of H.
AllHeld(e, H) == Covered(e, H) /\ \A c \in Clusters : e[c] # BAD_CLUSTER

-----------------------------------------------------------------------------
(***************************************************************************)
(* What each change of the table or of an entry makes of the owners.       *)
(***************************************************************************)

Dirs == [Files -> Entry \cup {NoEntry}]

LEMMA DirTypes ==
    ASSUME NEW d \in Dirs
    PROVE  \A f \in Files : d[f].first \in Clusters \cup {0} /\ d[f].size \in Int
BY DEF Dirs, Entry, NoEntry

\* A head is the root's, a file's or the call's.
LEMMA HeadsAre ==
    ASSUME NEW d \in Dirs, NEW p \in Clusters \cup {0}
    PROVE  /\ FIRST_CLUSTER \in Heads(d, p)
           /\ \A f \in Files : d[f].first # 0 => d[f].first \in Heads(d, p)
           /\ p # 0 => p \in Heads(d, p)
           /\ Heads(d, 0) = IF Apart(d, p) THEN Heads(d, p) \ {p} ELSE Heads(d, 0)
           /\ Heads(d, p) = IF p = 0 THEN Heads(d, 0) ELSE Heads(d, 0) \cup {p}
           /\ Heads(d, p) \subseteq Clusters
BY DirTypes, MarksApart DEF Heads, Apart, FREE, FIRST_CLUSTER

LEMMA HeadFacts ==
    ASSUME NEW e, NEW H, WellLinked(e, H), NEW h \in H
    PROVE  /\ e \in Tables /\ h \in Clusters /\ e[h] \notin Unusable /\ Unlinked(e, h)
           /\ LinksInjective(e) /\ LinksToUsed(e)
           /\ h \in Chain(e, h) /\ Chain(e, h) \in SUBSET Clusters
           /\ ChainLength(e, h) \in Nat
BY ChainLeast, SomeClusters DEF WellLinked, ChainLength

\* Fewer roots are still well linked.
LEMMA FewerHeads ==
    ASSUME NEW e, NEW H, WellLinked(e, H), NEW K \in SUBSET H
    PROVE  WellLinked(e, K)
BY DEF WellLinked

\* Clusters are taken from the table: the call owns their chain.
LEMMA RootedTaken ==
    ASSUME NEW e, NEW d \in Dirs, Rooted(e, d, 0), NEW nf \in Clusters,
           NEW A \in SUBSET FreeClusters(e), A # {}
    PROVE  LET n     == Linked(e, nf, A)
               first == FirstFound(nf, A)
           IN  /\ Rooted(n, d, first)
               /\ ChainLength(n, first) = Cardinality(A)
               /\ AllHeld(e, Heads(d, 0)) => AllHeld(n, Heads(d, first))
<1> DEFINE n     == Linked(e, nf, A)
           first == FirstFound(nf, A)
           H     == Heads(d, 0)
<1>1. WellLinked(e, H) /\ Apart(d, 0) /\ LongEnough(e, d)
  BY DEF Rooted
<1>2. /\ WellLinked(n, H \cup {first}) /\ first \in A
      /\ \A c \in Clusters \ A : n[c] = e[c]
      /\ \A c \in A : n[c] \in A \cup {END_OF_CHAIN_MARK}
  BY <1>1, LinkedWell
<1>3. /\ Chain(n, first) = A
      /\ \A c \in Clusters : e[c] \notin Unusable => Chain(n, c) = Chain(e, c)
  BY <1>1, LinkedChains
<1>4. Covered(e, H) => Covered(n, H \cup {first})
  BY <1>1, LinkedCovers
<1>5. A \in SUBSET Clusters /\ \A c \in A : e[c] \in Unusable
  BY DEF FreeClusters, Unusable
<1> HIDE DEF n, first, H
<1>6. \A h \in H : h \in Clusters /\ e[h] \notin Unusable
  BY <1>1, HeadFacts
<1>7. first \in Clusters /\ first # 0 /\ first \notin H
  BY <1>2, <1>5, <1>6, MarksApart DEF FREE
<1>8. Heads(d, first) = H \cup {first} /\ FIRST_CLUSTER \in H
      /\ \A f \in Files : d[f].first # 0 => d[f].first \in H
  BY <1>7, HeadsAre DEF H
<1>9. Apart(d, first)
  BY <1>1, <1>7, <1>8 DEF Apart
<1>10. LongEnough(n, d)
  BY <1>1, <1>3, <1>6, <1>8 DEF LongEnough, ChainLength
<1>11. AllHeld(e, H) => AllHeld(n, H \cup {first})
  <2>1. (\A c \in Clusters : e[c] # BAD_CLUSTER) => \A c \in Clusters : n[c] # BAD_CLUSTER
    BY <1>2, <1>5, MarksApart
  <2>. QED  BY <1>4, <2>1 DEF AllHeld
<1>. QED  BY <1>2, <1>3, <1>8, <1>9, <1>10, <1>11 DEF Rooted, ChainLength, n, first, H

\* A file's chain is extended.
LEMMA RootedGrown ==
    ASSUME NEW e, NEW d \in Dirs, Rooted(e, d, 0), NEW nf \in Clusters,
           NEW A \in SUBSET FreeClusters(e), A # {},
           NEW f \in Files, d[f].first # 0,
           NEW last \in Chain(e, d[f].first), e[last] = END_OF_CHAIN_MARK
    PROVE  LET a == Appended(e, nf, A, last)
           IN  /\ Rooted(a, d, 0)
               /\ ChainLength(a, d[f].first) = ChainLength(e, d[f].first) + Cardinality(A)
               /\ AllHeld(e, Heads(d, 0)) => AllHeld(a, Heads(d, 0))
<1> DEFINE a == Appended(e, nf, A, last)
           H == Heads(d, 0)
           h == d[f].first
<1>1. WellLinked(e, H) /\ Apart(d, 0) /\ LongEnough(e, d) /\ h \in H
      /\ \A g \in Files : d[g].first # 0 => d[g].first \in H
  BY HeadsAre DEF Rooted
<1>2. h \in Clusters /\ last \in Clusters /\ A \in SUBSET Clusters
  BY <1>1, HeadFacts DEF FreeClusters
<1>3. WellLinked(a, H)
  BY <1>1, <1>2, AppendedWell
<1>4. ChainLength(a, h) = ChainLength(e, h) + Cardinality(A)
  BY <1>1, AppendedPlaces
<1>5. ASSUME NEW k \in H, k # h
      PROVE  Chain(a, k) = Chain(e, k)
  <2>1. \A c \in Clusters : e[c] \notin Unusable /\ last \notin Chain(e, c) => Chain(a, c) = Chain(e, c)
    BY <1>1, <1>2, AppendedChains
  <2> HIDE DEF a, H, h
  <2>2. k \in Clusters /\ e[k] \notin Unusable /\ Unlinked(e, k) /\ Unlinked(e, h) /\ LinksInjective(e)
    BY <1>1, HeadFacts
  <2>3. last \notin Chain(e, k)
    <3>1. last \in Chain(e, h)
      BY DEF h
    <3>. QED  BY <1>2, <1>5, <2>2, <3>1, ChainsDisjoint
  <2>. QED  BY <2>1, <2>2, <2>3
<1>6. Covered(e, H) => Covered(a, H)
  BY <1>1, AppendedCovers
<1>7. \A c \in Clusters : e[c] # BAD_CLUSTER => a[c] # BAD_CLUSTER
  <2>1. /\ WellLinked(Linked(e, nf, A), H \cup {FirstFound(nf, A)}) /\ FirstFound(nf, A) \in A
        /\ \A c \in Clusters \ A : Linked(e, nf, A)[c] = e[c]
        /\ \A c \in A : Linked(e, nf, A)[c] \in A \cup {END_OF_CHAIN_MARK}
    BY <1>1, LinkedWell, SMTT(60)
  <2>2. \A c \in Clusters : a[c] \in {FirstFound(nf, A), Linked(e, nf, A)[c]}
    BY DEF Appended, SetEntry, Linked
  <2>. QED  BY <1>2, <2>1, <2>2, MarksApart
<1>8. \A k \in H : ChainLength(e, k) \in Nat
  BY <1>1, HeadFacts
<1>9. Cardinality(A) \in Nat
  BY <1>2, SomeClusters
<1> HIDE DEF a, H
<1>10. LongEnough(a, d)
  <2> SUFFICES ASSUME NEW g \in Files, d[g].first # 0
               PROVE  d[g].size <= ChainLength(a, d[g].first)
    BY DEF LongEnough
  <2>1. d[g].size <= ChainLength(e, d[g].first) /\ d[g].size \in Int /\ d[g].first \in H
    BY <1>1, DirTypes DEF LongEnough
  <2>2. CASE d[g].first = h
    BY <1>1, <1>4, <1>8, <1>9, <2>1, <2>2
  <2>3. CASE d[g].first # h
    BY <1>5, <2>1, <2>3 DEF ChainLength
  <2>. QED  BY <2>2, <2>3
<1>. QED  BY <1>1, <1>3, <1>4, <1>6, <1>7, <1>10 DEF Rooted, AllHeld, a, H

\* The call gives its chain back.
LEMMA RootedFreed ==
    ASSUME NEW e, NEW d \in Dirs, NEW p \in Clusters, Rooted(e, d, p)
    PROVE  /\ WalkSucceeds(e, p)
           /\ Rooted(Freed(e, p), d, 0)
           /\ AllHeld(e, Heads(d, p)) => AllHeld(Freed(e, p), Heads(d, 0))
<1> DEFINE n == Freed(e, p)
           H == Heads(d, p)
<1>1. WellLinked(e, H) /\ Apart(d, p) /\ LongEnough(e, d) /\ p # 0
  BY MarksApart DEF Rooted, FREE
<1>2. /\ p \in H /\ Heads(d, 0) = H \ {p}
      /\ \A g \in Files : d[g].first # 0 => d[g].first \in H \ {p}
  BY <1>1, HeadsAre DEF Apart
<1> HIDE DEF H
<1>3. WalkSucceeds(e, p)
  BY <1>1, <1>2, WalkReachesEnd
<1>4. /\ e[p] \notin Unusable /\ Unlinked(e, p) /\ LinksInjective(e)
      /\ \A k \in H : k \in Clusters /\ Unlinked(e, k) /\ k \in Chain(e, k)
  BY <1>1, <1>2, HeadFacts
<1>5. WellLinked(n, H \ {p})
  BY <1>1, <1>4, FreedWell
<1>6. ASSUME NEW k \in H \ {p}
      PROVE  Chain(n, k) = Chain(e, k)
  BY <1>4, ChainsDisjoint, FreedChains
<1>7. Covered(e, H) => Covered(n, H \ {p})
  BY <1>1, <1>2, FreedCovers
<1>8. \A c \in Clusters : e[c] # BAD_CLUSTER => n[c] # BAD_CLUSTER
  BY MarksApart DEF Freed
<1> HIDE DEF n
<1>9. LongEnough(n, d)
  BY <1>1, <1>2, <1>6 DEF LongEnough, ChainLength
<1>10. Apart(d, 0)
  BY <1>1, MarksApart DEF Apart, FREE, FIRST_CLUSTER
<1>. QED  BY <1>2, <1>3, <1>5, <1>7, <1>8, <1>9, <1>10 DEF Rooted, AllHeld, n, H

\* The call forgets its chain.
LEMMA RootedForgotten ==
    ASSUME NEW e, NEW d \in Dirs, NEW p \in Clusters \cup {0}, Rooted(e, d, p)
    PROVE  Rooted(e, d, 0)
<1>1. Heads(d, 0) \in SUBSET Heads(d, p)
  BY DEF Heads
<1>2. Apart(d, 0)
  BY MarksApart DEF Rooted, Apart, FREE, FIRST_CLUSTER
<1>. QED  BY <1>1, <1>2, FewerHeads DEF Rooted

\* An entry that names no chain is given the call's.
LEMMA RootedNamed ==
    ASSUME NEW e, NEW d \in Dirs, NEW p \in Clusters \cup {0}, Rooted(e, d, p),
           NEW f \in Files, d[f].first = 0,
           NEW n \in Dirs, \A g \in Files : g # f => n[g] = d[g],
           n[f].first = p, p # 0 => n[f].size <= ChainLength(e, p)
    PROVE  Rooted(e, n, 0) /\ Heads(n, 0) = Heads(d, p)
<1>1. Heads(n, 0) = Heads(d, p)
  BY DEF Heads
<1>2. Apart(n, 0)
  BY MarksApart DEF Rooted, Apart, FREE, FIRST_CLUSTER
<1>3. LongEnough(e, n)
  BY DEF Rooted, LongEnough
<1>. QED  BY <1>1, <1>2, <1>3 DEF Rooted

\* An entry lets its chain go to the call.
LEMMA RootedUnnamed ==
    ASSUME NEW e, NEW d \in Dirs, Rooted(e, d, 0), NEW f \in Files,
           NEW en \in Entry \cup {NoEntry}, en.first = 0
    PROVE  LET n == [d EXCEPT ![f] = en]
           IN  Rooted(e, n, d[f].first) /\ Heads(n, d[f].first) = Heads(d, 0)
<1> DEFINE n == [d EXCEPT ![f] = en]
<1>1. n \in Dirs /\ n[f] = en /\ \A g \in Files : g # f => n[g] = d[g]
  BY DEF Dirs
<1> HIDE DEF n
<1>2. Heads(n, d[f].first) = Heads(d, 0)
  BY <1>1 DEF Heads
<1>3. Apart(n, d[f].first)
  BY <1>1, MarksApart DEF Rooted, Apart, FREE, FIRST_CLUSTER
<1>4. LongEnough(e, n)
  BY <1>1 DEF Rooted, LongEnough
<1>. QED  BY <1>2, <1>3, <1>4 DEF Rooted, n

\* An entry is given another size its chain is long enough for.
LEMMA RootedSized ==
    ASSUME NEW e, NEW d \in Dirs, Rooted(e, d, 0), NEW f \in Files,
           NEW en \in Entry, en.first = d[f].first,
           en.first # 0 => en.size <= ChainLength(e, en.first)
    PROVE  LET n == [d EXCEPT ![f] = en]
           IN  Rooted(e, n, 0) /\ Heads(n, 0) = Heads(d, 0)
<1> DEFINE n == [d EXCEPT ![f] = en]
<1>1. n \in Dirs /\ n[f] = en /\ \A g \in Files : g # f => n[g] = d[g]
  BY DEF Dirs
<1> HIDE DEF n
<1>2. Heads(n, 0) = Heads(d, 0)
  BY <1>1 DEF Heads
<1>3. Apart(n, 0)
  BY <1>1, MarksApart DEF Rooted, Apart, FREE, FIRST_CLUSTER
<1>4. LongEnough(e, n)
  BY <1>1 DEF Rooted, LongEnough
<1>. QED  BY <1>2, <1>3, <1>4 DEF Rooted, n

\* An entry is given a smaller size.
LEMMA RootedShorter ==
    ASSUME NEW e, NEW d \in Dirs, Rooted(e, d, 0), NEW f \in Files, d[f].first # 0,
           NEW en \in Entry, en.first = d[f].first, en.size <= d[f].size
    PROVE  LET n == [d EXCEPT ![f] = en]
           IN  Rooted(e, n, 0) /\ Heads(n, 0) = Heads(d, 0)
<1>1. /\ d[f].size <= ChainLength(e, d[f].first) /\ d[f].size \in Int /\ en.size \in Int
      /\ ChainLength(e, d[f].first) \in Nat
  BY DirTypes, SomeClusters DEF Rooted, LongEnough, Entry, ChainLength, Chain
<1>2. en.size <= ChainLength(e, en.first)
  BY <1>1
<1>. QED  BY <1>2, RootedSized

\* A file's chain is cut behind the size its entry has.
LEMMA RootedCut ==
    ASSUME NEW e, NEW d \in Dirs, Rooted(e, d, 0), NEW f \in Files, d[f].first # 0,
           NEW last \in Chain(e, d[f].first), e[last] \in Clusters,
           PlaceIn(e, d[f].first, last) = d[f].size - 1, d[f].size \in Nat
    PROVE  LET n == CutAfter(e, last)
           IN  /\ Rooted(n, d, 0)
               /\ AllHeld(e, Heads(d, 0)) => AllHeld(n, Heads(d, 0))
<1> DEFINE n == CutAfter(e, last)
           H == Heads(d, 0)
           h == d[f].first
<1>1. WellLinked(e, H) /\ Apart(d, 0) /\ LongEnough(e, d) /\ h \in H
      /\ \A g \in Files : d[g].first # 0 => d[g].first \in H
  BY HeadsAre DEF Rooted
<1>2. last \in Clusters
  BY <1>1, HeadFacts
<1>3. WellLinked(n, H)
  BY <1>1, <1>2, CutAfterWell
<1>4. ChainLength(n, h) = d[f].size
  BY <1>1, CutLength
<1>5. ASSUME NEW k \in H, k # h
      PROVE  Chain(n, k) = Chain(e, k)
  BY <1>1, <1>5, CutOthers, HeadFacts
<1>6. Covered(e, H) => Covered(n, H)
  BY <1>1, CutCovers
<1>7. \A c \in Clusters : e[c] # BAD_CLUSTER => n[c] # BAD_CLUSTER
  BY <1>1, CutChains, MarksApart
<1> HIDE DEF n, H
<1>8. LongEnough(n, d)
  <2> SUFFICES ASSUME NEW g \in Files, d[g].first # 0
               PROVE  d[g].size <= ChainLength(n, d[g].first)
    BY DEF LongEnough
  <2>1. CASE d[g].first = h
    <3>1. g = f
      BY <1>1, <2>1 DEF Apart
    <3>. QED  BY <1>4, <3>1
  <2>2. CASE d[g].first # h
    BY <1>1, <1>5, <2>2 DEF LongEnough, ChainLength
  <2>. QED  BY <2>1, <2>2
<1>. QED  BY <1>1, <1>3, <1>6, <1>7, <1>8 DEF Rooted, AllHeld, n, H

-----------------------------------------------------------------------------
(***************************************************************************)
(* Every step but a power cut keeps the owners apart.                      *)
(***************************************************************************)

Owned ==
    /\ Rooted(entries, dir, Pending)
    /\ call.op = "write" => call.want <= ChainLength(entries, call.first)

\* Until a call fails, every allocated cluster has an owner.
NoLeak == ~failed => AllHeld(entries, Heads(dir, Pending))

OwnersKept == Owned' /\ (NoLeak => NoLeak')

\* The call between two others owns nothing.
LEMMA IdleOwnsNothing == /\ call = Idle => Pending = 0
                         /\ Return => call'.op # "write" /\ Pending' = 0
BY DEF Idle, Pending, Return

\* A step that leaves the table, the entries and the call's chain alone.
LEMMA OwnersSame ==
    ASSUME Owned, UNCHANGED <<entries, dir, failed>>, Pending' = Pending,
           call'.op = "write" => call'.want <= ChainLength(entries, call'.first)
    PROVE  OwnersKept
BY DEF Owned, NoLeak, OwnersKept

LEMMA CreateOwners ==
    ASSUME CInv, Owned, NEW f \in Files, NEW count \in 0 .. MaxSize, Create(f, count)
    PROVE  OwnersKept
<1> DEFINE first == IF count = 0 THEN 0 ELSE FirstOf(count)
<1>1. /\ call = Idle /\ UNCHANGED <<dir, failed>> /\ HasRoom(count)
      /\ call' = [Starting("create", f, 0, 0, first) EXCEPT !.step = "flush"]
  BY DEF Create, Flushing
<1> HIDE DEF first
<1>2. Pending = 0 /\ Pending' = first /\ call'.op # "write"
  BY <1>1, IdleOwnsNothing DEF Pending, Starting
<1>3. CASE count = 0
  BY <1>1, <1>2, <1>3, OwnersSame DEF Create, first
<1>4. CASE count # 0
  <2> DEFINE got == Chosen(entries, nextFree, count)
  <2>1. entries' = Linked(entries, nextFree, got) /\ first = FirstFound(nextFree, got)
    BY <1>4 DEF Create, Allocate, first, FirstOf
  <2>2. got \in SUBSET FreeClusters(entries) /\ got # {} /\ nextFree \in Clusters /\ dir \in Dirs
    BY <1>1, <1>4, TakesClusters, VolumeAssumption DEF CInv, TypeOK, TableTypes, Dirs
  <2> HIDE DEF got
  <2>3. /\ Rooted(entries', dir, first)
        /\ AllHeld(entries, Heads(dir, 0)) => AllHeld(entries', Heads(dir, first))
    BY <1>2, <2>1, <2>2, RootedTaken DEF Owned
  <2>. QED  BY <1>1, <1>2, <2>3 DEF OwnersKept, Owned, NoLeak
<1>. QED  BY <1>3, <1>4

LEMMA WriteToEmptyOwners ==
    ASSUME CInv, Owned, NEW f \in Files, NEW want \in 1 .. MaxSize, WriteToEmpty(f, want)
    PROVE  OwnersKept
<1> DEFINE got   == Chosen(entries, nextFree, want)
           first == FirstFound(nextFree, got)
<1>1. /\ call = Idle /\ UNCHANGED <<dir, failed>> /\ HasRoom(want) /\ dir[f].first = 0
      /\ call' = [Starting("write", f, want, dir[f].size, first) EXCEPT !.step = "flush"]
      /\ entries' = Linked(entries, nextFree, got)
  BY DEF WriteToEmpty, Flushing, FirstOf, Allocate
<1>2. /\ got \in SUBSET FreeClusters(entries) /\ got # {} /\ nextFree \in Clusters /\ dir \in Dirs
      /\ Cardinality(got) = want
  BY <1>1, TakesClusters, VolumeAssumption DEF CInv, TypeOK, TableTypes, Dirs
<1> HIDE DEF got
<1>3. Pending = 0 /\ Pending' = first /\ call'.want = want /\ call'.first = first
  BY <1>1, IdleOwnsNothing DEF Pending, Starting
<1>4. /\ Rooted(entries', dir, first)
      /\ ChainLength(entries', first) = want
      /\ AllHeld(entries, Heads(dir, 0)) => AllHeld(entries', Heads(dir, first))
  BY <1>1, <1>2, <1>3, RootedTaken DEF Owned
<1> HIDE DEF first
<1>5. want <= want
  BY VolumeAssumption
<1>. QED  BY <1>1, <1>3, <1>4, <1>5 DEF OwnersKept, Owned, NoLeak

LEMMA WriteExtendingOwners ==
    ASSUME CInv, Owned, NEW f \in Files, NEW want \in 1 .. MaxSize, NEW at \in 0 .. MaxSize,
           WriteExtending(f, at, want)
    PROVE  OwnersKept
<1> DEFINE h     == dir[f].first
           count == want - ChainLength(entries, h)
           got   == Chosen(entries, nextFree, count)
           last  == LastOf(entries, h)
<1>1. /\ call = Idle /\ UNCHANGED <<dir, failed>> /\ HasRoom(count)
      /\ WalkSucceeds(entries, h) /\ want > ChainLength(entries, h)
      /\ call' = [Starting("write", f, want, at, h) EXCEPT !.step = "flush"]
      /\ entries' = Appended(entries, nextFree, got, last)
  BY DEF WriteExtending, Flushing, Append
<1>2. h \in Clusters /\ h # 0 /\ ChainLength(entries, h) \in Nat
  BY <1>1, MarksApart, SomeClusters DEF WalkSucceeds, FREE, ChainLength, Chain
<1>3. count \in Nat \ {0}
  BY <1>1, <1>2, VolumeAssumption
<1>4. /\ got \in SUBSET FreeClusters(entries) /\ got # {} /\ nextFree \in Clusters /\ dir \in Dirs
      /\ Cardinality(got) = count
  BY <1>1, <1>3, TakesClusters DEF CInv, TypeOK, TableTypes, Dirs
<1>5. last \in Chain(entries, h) /\ entries[last] = END_OF_CHAIN_MARK
  BY <1>1, LastCarriesMark
<1> HIDE DEF got, last
<1>6. Pending = 0 /\ Pending' = 0 /\ call'.want = want /\ call'.first = h
  BY <1>1, <1>2, IdleOwnsNothing DEF Pending, Starting
<1>7. /\ Rooted(entries', dir, 0)
      /\ ChainLength(entries', h) = ChainLength(entries, h) + Cardinality(got)
      /\ AllHeld(entries, Heads(dir, 0)) => AllHeld(entries', Heads(dir, 0))
  BY <1>1, <1>2, <1>4, <1>5, <1>6, RootedGrown DEF Owned
<1>8. call'.want <= ChainLength(entries', call'.first)
  BY <1>2, <1>4, <1>6, <1>7, VolumeAssumption
<1>. QED  BY <1>1, <1>6, <1>7, <1>8 DEF OwnersKept, Owned, NoLeak

LEMMA WriteWithinOwners ==
    ASSUME CInv, Owned, NEW f \in Files, NEW want \in 1 .. MaxSize, NEW at \in 0 .. MaxSize,
           WriteWithin(f, at, want)
    PROVE  OwnersKept
<1>1. /\ call = Idle /\ UNCHANGED <<entries, dir, failed>>
      /\ WalkSucceeds(entries, dir[f].first) /\ want <= ChainLength(entries, dir[f].first)
      /\ call' = [Starting("write", f, want, at, dir[f].first) EXCEPT !.step = "data"]
  BY DEF WriteWithin, device
<1>2. dir[f].first # 0
  BY <1>1, MarksApart DEF WalkSucceeds, FREE
<1>3. /\ Pending = 0 /\ Pending' = 0
      /\ call'.want = want /\ call'.first = dir[f].first
  BY <1>1, <1>2, IdleOwnsNothing DEF Pending, Starting
<1>. QED  BY <1>1, <1>3, OwnersSame

\* The calls that begin with a device write, and sync.
LEMMA OthersStartOwners ==
    ASSUME Owned, \/ \E f \in Files, want \in 0 .. MaxSize : Shrink(f, want)
                  \/ \E f \in Files : Remove(f)
                  \/ Sync
    PROVE  OwnersKept
<1>1. /\ call = Idle /\ UNCHANGED <<entries, dir, failed>>
      /\ call'.op \in {"shrink", "remove", "sync"} /\ call'.step # "names"
  BY DEF Shrink, Remove, Sync, Flushing, Starting, device
<1>2. Pending = 0 /\ Pending' = 0 /\ call'.op # "write"
  BY <1>1, IdleOwnsNothing DEF Pending
<1>. QED  BY <1>1, <1>2, OwnersSame

\* The writes that are neither of an entry nor of the table's chains.
LEMMA MarkDirtyOwners == Owned /\ (MarkDirty \/ FlushSector) => OwnersKept
<1> SUFFICES ASSUME Owned, MarkDirty \/ FlushSector PROVE OwnersKept
  OBVIOUS
<1>1. UNCHANGED <<entries, dir, call, failed>>
  BY DEF MarkDirty, FlushSector
<1>2. Pending' = Pending
  BY <1>1 DEF Pending
<1>. QED  BY <1>1, <1>2, OwnersSame DEF Owned

LEMMA FlushDoneOwners == CInv /\ Owned /\ FlushDone => OwnersKept
<1> SUFFICES ASSUME CInv, Owned, FlushDone PROVE OwnersKept
  OBVIOUS
<1>1. call.step = "flush" /\ UNCHANGED <<entries, dir, failed>>
  BY DEF FlushDone, device
<1>2. CASE call.op \in {"create", "write", "sync"}
  <2>1. PICK step \in {"create", "first", "data", "hints"} : Goto(step)
    BY <1>2 DEF FlushDone
  <2>2. step \in Steps /\ step # "names"
    BY DEF Steps
  <2>3. /\ call'.op = call.op /\ call'.first = call.first /\ call'.file = call.file
        /\ call'.want = call.want /\ call'.step # "names"
    BY <2>1, <2>2, GoneTo
  <2>4. Pending' = Pending
    BY <1>1, <2>3 DEF Pending
  <2>. QED  BY <1>1, <2>3, <2>4, OwnersSame DEF Owned
<1>3. CASE call.op \notin {"create", "write", "sync"}
  <2>1. Return
    BY <1>3 DEF FlushDone
  <2>2. Pending = 0
    BY <1>1, <1>3 DEF Pending
  <2>. QED  BY <1>1, <2>1, <2>2, IdleOwnsNothing, OwnersSame
<1>. QED  BY <1>2, <1>3

\* The entry names what the call owned: created, or given to an empty file.
LEMMA EntryNamesChain ==
    ASSUME CInv, Owned, UNCHANGED <<entries, failed>>, NEW f \in Files, dir[f].first = 0,
           NEW en \in Entry, en.first = Pending,
           en.first # 0 => en.size <= ChainLength(entries, en.first),
           dir' = [dir EXCEPT ![f] = en], Pending' = 0,
           call'.op = "write" => call'.want <= ChainLength(entries, call'.first)
    PROVE  OwnersKept
<1>1. dir \in Dirs /\ Pending \in Clusters \cup {0}
  BY DEF CInv, TypeOK, Dirs, Calls, Pending
<1>2. Rooted(entries, dir, Pending)
  BY DEF Owned
<1>3. dir' \in Dirs /\ dir'[f] = en /\ \A g \in Files : g # f => dir'[g] = dir[g]
  BY <1>1 DEF Dirs
<1>4. dir'[f].first = Pending /\ (Pending # 0 => dir'[f].size <= ChainLength(entries, Pending))
  BY <1>3
<1>5. Rooted(entries, dir', 0) /\ Heads(dir', 0) = Heads(dir, Pending)
  <2>. DEFINE p == Pending  d == dir  n == dir'
  <2>1. /\ d \in Dirs /\ p \in Clusters \cup {0} /\ Rooted(entries, d, p) /\ d[f].first = 0
        /\ n \in Dirs /\ n[f].first = p /\ (p # 0 => n[f].size <= ChainLength(entries, p))
        /\ \A g \in Files : g # f => n[g] = d[g]
    BY <1>1, <1>2, <1>3, <1>4
  <2>. HIDE DEF p, d, n
  <2>2. Rooted(entries, n, 0) /\ Heads(n, 0) = Heads(d, p)
    BY <2>1, RootedNamed
  <2>. QED  BY <2>2 DEF p, d, n
<1>. QED  BY <1>5 DEF OwnersKept, Owned, NoLeak

LEMMA WriteEntryOwners == CInv /\ Owned /\ WriteEntry => OwnersKept
<1> SUFFICES ASSUME CInv, Owned, WriteEntry PROVE OwnersKept
  OBVIOUS
<1> DEFINE en == [first |-> call.first, size |-> 0]
<1>1. /\ dir' = [dir EXCEPT ![call.file] = en]
      /\ Return /\ UNCHANGED <<entries, failed>>
  BY DEF WriteEntry
<1>2. call.op = "create" /\ call.file \in Files /\ dir[call.file].first = 0 /\ call \in Calls
  BY StandsAt DEF WriteEntry, Present, NoEntry
<1>3. en \in Entry /\ en.first = Pending /\ en.size = 0
  BY <1>2, VolumeAssumption DEF Calls, Entry, Pending
<1> HIDE DEF en
<1>4. en.first # 0 => en.size <= ChainLength(entries, en.first)
  <2>1. ChainLength(entries, en.first) \in Nat
    BY SomeClusters DEF ChainLength, Chain
  <2>. QED  BY <1>3, <2>1
<1>. QED  BY <1>1, <1>2, <1>3, <1>4, IdleOwnsNothing, EntryNamesChain

LEMMA WriteFirstOwners == CInv /\ Owned /\ WriteFirst => OwnersKept
<1> SUFFICES ASSUME CInv, Owned, WriteFirst PROVE OwnersKept
  OBVIOUS
<1> DEFINE f  == call.file
           en == [dir[f] EXCEPT !.first = call.first]
<1>1. /\ dir' = [dir EXCEPT ![f] = en]
      /\ Goto("data") /\ UNCHANGED <<entries, failed>>
  BY DEF WriteFirst
<1>2. /\ call.op = "write" /\ f \in Files /\ Present(f) /\ dir[f].first = 0
      /\ call.first \in Clusters
  BY StandsAt DEF WriteFirst, Writing
<1>3. dir[f] \in Entry /\ dir[f].size <= 0 /\ dir \in Dirs
  BY <1>2, EntryTypes DEF CInv, TypeOK, Dirs
<1>4. en \in Entry /\ en.first = call.first /\ en.size = dir[f].size /\ call.first # 0
  BY <1>2, <1>3, MarksApart DEF Entry, FREE
<1>5. "data" \in Steps
  BY DEF Steps
<1>6. /\ call'.op = "write" /\ call'.step = "data" /\ call'.file = f
      /\ call'.first = call.first /\ call'.want = call.want
  BY <1>1, <1>2, <1>5, GoneTo
<1> HIDE DEF en
<1>7. Pending = call.first
  BY <1>2 DEF Pending
<1>8. dir'[f] = en
  BY <1>1, <1>2, <1>3 DEF Dirs
<1>9. Pending' = 0
  BY <1>4, <1>6, <1>8 DEF Pending
<1>10. en.size <= ChainLength(entries, en.first)
  <2>1. ChainLength(entries, en.first) \in Nat
    BY SomeClusters DEF ChainLength, Chain
  <2>. QED  BY <1>3, <1>4, <2>1 DEF Entry
<1>11. call'.want <= ChainLength(entries, call'.first)
  BY <1>2, <1>6 DEF Owned
<1>. QED  BY <1>1, <1>2, <1>4, <1>7, <1>9, <1>10, <1>11, EntryNamesChain

LEMMA WriteDataOwners == CInv /\ Owned /\ WriteData => OwnersKept
<1> SUFFICES ASSUME CInv, Owned, WriteData PROVE OwnersKept
  OBVIOUS
<1>1. UNCHANGED <<entries, dir, failed>>
  BY DEF WriteData
<1>2. Pending = 0 /\ call.op = "write" /\ call \in Calls /\ dir[call.file].first # 0
  BY StandsAt DEF WriteData, Writing, Pending
<1>3. CASE Return
  BY <1>1, <1>2, <1>3, IdleOwnsNothing, OwnersSame
<1>4. CASE call' = [call EXCEPT !.at = @ + 1] \/ Goto("size")
  <2>1. /\ call'.op = call.op /\ call'.first = call.first /\ call'.file = call.file
        /\ call'.want = call.want /\ call'.step # "names"
    BY <1>2, <1>4 DEF Calls, Goto, WriteData
  <2>2. Pending' = 0
    BY <1>1, <1>2, <2>1 DEF Pending
  <2>. QED  BY <1>1, <1>2, <2>1, <2>2, OwnersSame DEF Owned
<1>. QED  BY <1>3, <1>4 DEF WriteData

LEMMA WriteSizeOwners == CInv /\ Owned /\ WriteSize => OwnersKept
<1> SUFFICES ASSUME CInv, Owned, WriteSize PROVE OwnersKept
  OBVIOUS
<1> DEFINE f  == call.file
           en == [first |-> call.first, size |-> call.want]
<1>1. /\ dir' = [dir EXCEPT ![f] = en]
      /\ Return /\ UNCHANGED <<entries, failed>>
  BY DEF WriteSize
<1>2. /\ call.op = "write" /\ f \in Files /\ dir[f].first = call.first /\ dir[f].first # 0
      /\ call.step # "names" /\ call \in Calls /\ dir \in Dirs
  BY StandsAt DEF WriteSize, Writing, CInv, TypeOK, Dirs
<1>3. en \in Entry /\ en.first = dir[f].first /\ en.size <= ChainLength(entries, en.first)
  BY <1>2 DEF Calls, Entry, Owned
<1> HIDE DEF en
<1>4. Pending = 0
  BY <1>2 DEF Pending
<1>5. Rooted(entries, dir, 0)
  BY <1>4 DEF Owned
<1> HIDE DEF f
<1>6. LET n == [dir EXCEPT ![f] = en] IN Rooted(entries, n, 0) /\ Heads(n, 0) = Heads(dir, 0)
  BY <1>2, <1>3, <1>5, RootedSized
<1>. QED  BY <1>1, <1>4, <1>6, IdleOwnsNothing DEF OwnersKept, Owned, NoLeak

\* An owner's chain is walked to its end.
LEMMA OwnedWalk ==
    ASSUME CInv, Owned
    PROVE  /\ Pending # 0 => WalkSucceeds(entries, Pending)
           /\ \A f \in Files : dir[f].first # 0 => WalkSucceeds(entries, dir[f].first)
<1>1. dir \in Dirs /\ Pending \in Clusters \cup {0}
  BY DEF CInv, TypeOK, Dirs, Calls, Pending
<1>. QED  BY <1>1, HeadsAre, WalkReachesEnd DEF Owned, Rooted

\* truncate to nothing: the entry lets go of the chain, then it is freed.
LEMMA EmptiedOwners ==
    ASSUME CInv, Owned, Pending = 0, NEW f \in Files, dir[f].first # 0,
           NEW en \in Entry, en.first = 0, dir' = [dir EXCEPT ![f] = en],
           Free(dir[f].first), failed' = failed, call'.op # "write", Pending' = 0
    PROVE  OwnersKept
<1> DEFINE h == dir[f].first
<1>1. dir \in Dirs /\ h \in Clusters /\ Rooted(entries, dir, 0)
  BY EntryTypes DEF CInv, TypeOK, Dirs, Owned
<1>2. entries' = Freed(entries, h)
  BY OwnedWalk DEF Free
<1>3. Rooted(entries, dir', h) /\ Heads(dir', h) = Heads(dir, 0) /\ dir' \in Dirs
  <2>1. LET n == [dir EXCEPT ![f] = en] IN Rooted(entries, n, h) /\ Heads(n, h) = Heads(dir, 0)
    BY <1>1, RootedUnnamed
  <2>. QED  BY <1>1, <2>1 DEF Dirs
<1> HIDE DEF h
<1>4. /\ Rooted(Freed(entries, h), dir', 0)
      /\ AllHeld(entries, Heads(dir', h)) => AllHeld(Freed(entries, h), Heads(dir', 0))
  BY <1>1, <1>3, RootedFreed
<1>. QED  BY <1>2, <1>3, <1>4 DEF OwnersKept, Owned, NoLeak

\* truncate to less: the entry is shorter, then its chain may be cut.
LEMMA ShortenedOwners ==
    ASSUME CInv, Owned, Pending = 0, NEW f \in Files, dir[f].first # 0,
           NEW en \in Entry, en.first = dir[f].first, en.size > 0, en.size <= dir[f].size,
           dir' = [dir EXCEPT ![f] = en],
           \/ en.size < ChainLength(entries, dir[f].first) /\ Cut(dir[f].first, en.size)
           \/ UNCHANGED entries,
           failed' = failed, call'.op # "write", Pending' = 0
    PROVE  OwnersKept
<1> DEFINE h == dir[f].first
<1>1. dir \in Dirs /\ h \in Clusters /\ Rooted(entries, dir, 0)
      /\ en.size \in Nat /\ dir[f].size \in Int /\ ChainLength(entries, h) \in Nat
  BY EntryTypes, SomeClusters DEF CInv, TypeOK, Dirs, Owned, Entry, ChainLength, Chain
<1>2. Rooted(entries, dir', 0) /\ Heads(dir', 0) = Heads(dir, 0) /\ dir' \in Dirs /\ dir'[f] = en
  <2>1. LET n == [dir EXCEPT ![f] = en] IN Rooted(entries, n, 0) /\ Heads(n, 0) = Heads(dir, 0)
    BY <1>1, RootedShorter
  <2>. QED  BY <1>1, <2>1 DEF Dirs
<1>3. CASE UNCHANGED entries
  BY <1>2, <1>3 DEF OwnersKept, Owned, NoLeak
<1>4. CASE en.size < ChainLength(entries, h) /\ Cut(h, en.size)
  <2>1. PICK last \in Chain(entries, h) :
          PlaceIn(entries, h, last) = en.size - 1 /\ entries' = CutAfter(entries, last)
    BY <1>4 DEF Cut
  <2> HIDE DEF h
  <2>2. entries[last] \in Clusters
    BY <1>1, <1>4, <2>1, CutBeforeEnd
  <2>3. /\ Rooted(CutAfter(entries, last), dir', 0)
        /\ AllHeld(entries, Heads(dir', 0)) => AllHeld(CutAfter(entries, last), Heads(dir', 0))
    <3>1. dir'[f].first = h /\ dir'[f].size = en.size
      BY <1>2 DEF h
    <3>. QED  BY <1>1, <1>2, <2>1, <2>2, <3>1, MarksApart, RootedCut DEF FREE
  <2>. QED  BY <1>2, <2>1, <2>3 DEF OwnersKept, Owned, NoLeak
<1>. QED  BY <1>3, <1>4

LEMMA WriteShrunkOwners == CInv /\ Owned /\ WriteShrunk => OwnersKept
<1> SUFFICES ASSUME CInv, Owned, WriteShrunk PROVE OwnersKept
  OBVIOUS
<1> DEFINE f  == call.file
           en == [first |-> IF call.want = 0 THEN 0 ELSE call.first, size |-> call.want]
<1>1. /\ call.op = "shrink" /\ call.step = "shrink" /\ f \in Files /\ call.first = dir[f].first
      /\ call.want < dir[f].size /\ call \in Calls
  BY StandsAt DEF WriteShrunk, OnEntry
<1>2. call.want \in Nat /\ dir[f].size \in Int /\ dir[f].first # 0 /\ call.first \in Clusters
  <2>1. call.want \in Nat /\ dir[f].size \in Int /\ dir[f].first \in Clusters \cup {0}
    BY <1>1, EntryTypes DEF CInv, Calls
  <2>. QED  BY <1>1, <2>1 DEF CInv
<1>3. WalkSucceeds(entries, call.first)
  BY <1>1, <1>2, OwnedWalk
<1>4. /\ dir' = [dir EXCEPT ![f] = en] /\ failed' = failed /\ Flushing(call)
      /\ call.want = 0 => Free(call.first)
      /\ call.want > 0 => \/ call.want < ChainLength(entries, call.first) /\ Cut(call.first, call.want)
                          \/ UNCHANGED entries
  BY <1>2, <1>3 DEF WriteShrunk
<1>5. Pending = 0 /\ Pending' = 0 /\ call'.op # "write"
  <2>1. call'.op = "shrink" /\ call'.step = "flush"
    BY <1>1, <1>4 DEF Flushing, Calls
  <2>. QED  BY <1>1, <2>1 DEF Pending
<1>6. en \in Entry /\ en.size = call.want /\ en.first = IF call.want = 0 THEN 0 ELSE dir[f].first
  BY <1>1 DEF Calls, Entry
<1> HIDE DEF en, f
<1>7. CASE call.want = 0
  BY <1>1, <1>2, <1>4, <1>5, <1>6, <1>7, EmptiedOwners
<1>8. CASE call.want > 0
  <2>1. \/ en.size < ChainLength(entries, dir[f].first) /\ Cut(dir[f].first, en.size)
        \/ UNCHANGED entries
    BY <1>1, <1>4, <1>6, <1>8 DEF Cut
  <2>2. en.first = dir[f].first /\ en.size > 0 /\ en.size <= dir[f].size
    BY <1>1, <1>2, <1>6, <1>8
  <2>. QED  BY <1>1, <1>2, <1>4, <1>5, <1>6, <2>1, <2>2, ShortenedOwners
<1>. QED  BY <1>2, <1>7, <1>8

LEMMA DeleteEntryOwners == CInv /\ Owned /\ DeleteEntry => OwnersKept
<1> SUFFICES ASSUME CInv, Owned, DeleteEntry PROVE OwnersKept
  OBVIOUS
<1> DEFINE f == call.file
<1>1. /\ dir' = [dir EXCEPT ![f] = NoEntry]
      /\ Goto("names") /\ UNCHANGED <<entries, failed>>
  BY DEF DeleteEntry
<1>2. /\ call.op = "remove" /\ call.step = "delete" /\ f \in Files /\ call.first = dir[f].first
      /\ dir \in Dirs
  BY StandsAt DEF DeleteEntry, OnEntry, CInv, TypeOK, Dirs
<1> HIDE DEF f
<1>3. "names" \in Steps
  BY DEF Steps
<1>4. call'.op = "remove" /\ call'.step = "names" /\ call'.first = dir[f].first
  BY <1>1, <1>2, <1>3, GoneTo
<1>5. Pending = 0 /\ Pending' = dir[f].first
  BY <1>2, <1>4 DEF Pending
<1>6. Rooted(entries, dir, 0) /\ NoEntry.first = 0
  BY <1>5 DEF Owned, NoEntry
<1>7. LET n == [dir EXCEPT ![f] = NoEntry]
      IN  Rooted(entries, n, dir[f].first) /\ Heads(n, dir[f].first) = Heads(dir, 0)
  BY <1>2, <1>6, RootedUnnamed
<1>. QED  BY <1>1, <1>4, <1>5, <1>7 DEF OwnersKept, Owned, NoLeak

\* The call gives its chain back to the table, or had none.
LEMMA GivenBackOwners ==
    ASSUME CInv, Owned, dir' = dir, Free(Pending), call'.op # "write", Pending' = 0
    PROVE  Owned' /\ (failed' = failed /\ NoLeak => NoLeak')
<1>1. dir \in Dirs /\ Pending \in Clusters \cup {0} /\ Rooted(entries, dir, Pending)
  BY DEF CInv, TypeOK, Dirs, Calls, Pending, Owned
<1>2. CASE Pending = 0
  <2>1. entries' = entries
    BY <1>2, MarksApart DEF Free, WalkSucceeds, FREE
  <2>. QED  BY <1>2, <2>1 DEF Owned, NoLeak
<1>3. CASE Pending # 0
  <2>1. entries' = Freed(entries, Pending)
    BY <1>3, OwnedWalk DEF Free
  <2>2. /\ Rooted(Freed(entries, Pending), dir, 0)
        /\ AllHeld(entries, Heads(dir, Pending)) => AllHeld(Freed(entries, Pending), Heads(dir, 0))
    BY <1>1, <1>3, RootedFreed
  <2>. QED  BY <2>1, <2>2 DEF Owned, NoLeak
<1>. QED  BY <1>2, <1>3

LEMMA DeleteNamesOwners == CInv /\ Owned /\ DeleteNames => OwnersKept
<1> SUFFICES ASSUME CInv, Owned, DeleteNames PROVE OwnersKept
  OBVIOUS
<1>1. /\ call.op = "remove" /\ call.step = "names" /\ call \in Calls
      /\ UNCHANGED <<dir, failed>>
  BY StandsAt DEF DeleteNames, device
<1>2. Pending = call.first
  BY <1>1 DEF Pending
<1>3. Free(Pending)
  BY <1>2 DEF DeleteNames, Free
<1>4. Pending' = 0 /\ call'.op # "write"
  <2>1. CASE Return
    BY <2>1, IdleOwnsNothing
  <2>2. CASE Flushing(call)
    <3>1. call'.op = "remove" /\ call'.step = "flush"
      BY <1>1, <2>2 DEF Flushing, Calls
    <3>. QED  BY <3>1 DEF Pending
  <2>. QED  BY <2>1, <2>2 DEF DeleteNames
<1>. QED  BY <1>1, <1>3, <1>4, GivenBackOwners DEF OwnersKept

\* A failed create gives its chain back; every other call that fails with a
\* chain no entry names leaves it to no one.
LEMMA FailOwners == CInv /\ Owned /\ Fail => OwnersKept
<1> SUFFICES ASSUME CInv, Owned, Fail PROVE OwnersKept
  OBVIOUS
<1>1. UNCHANGED dir /\ failed' /\ Pending' = 0 /\ call'.op # "write"
  BY IdleOwnsNothing DEF Fail, device
<1>2. Owned'
  <2>1. CASE call.op = "create"
    <3>1. Free(Pending)
      BY <2>1 DEF Fail, Pending
    <3>. QED  BY <1>1, <3>1, GivenBackOwners
  <2>2. CASE call.op # "create"
    <3>1. dir \in Dirs /\ Pending \in Clusters \cup {0} /\ Rooted(entries, dir, Pending)
      BY DEF CInv, TypeOK, Dirs, Calls, Pending, Owned
    <3>2. Rooted(entries, dir, 0)
      BY <3>1, RootedForgotten
    <3>. QED  BY <1>1, <2>2, <3>2 DEF Fail, Owned
  <2>. QED  BY <2>1, <2>2
<1>. QED  BY <1>1, <1>2 DEF OwnersKept, NoLeak

\* Every step but a power cut.
LEMMA NextOwned == CInv /\ Owned /\ [Start \/ Progress \/ Fail]_vars => OwnersKept
<1> SUFFICES ASSUME CInv, Owned, [Start \/ Progress \/ Fail]_vars PROVE OwnersKept
  OBVIOUS
<1>1. CASE Start
  BY <1>1, CreateOwners, WriteToEmptyOwners, WriteExtendingOwners, WriteWithinOwners,
     OthersStartOwners DEF Start
<1>2. CASE Progress
  <2>1. CASE WriteHints \/ ClearFlag
    <3>1. UNCHANGED <<entries, dir, failed>> /\ call.op = "sync" /\ call.step # "names"
      BY <2>1, StandsAt DEF WriteHints, ClearFlag, device
    <3>2. call'.op # "write" /\ Pending' = 0
      <4>1. CASE Goto("clear")
        <5>1. "clear" \in Steps
          BY DEF Steps
        <5>. QED  BY <3>1, <4>1, <5>1, GoneTo DEF Pending
      <4>2. CASE Return
        BY <4>2, IdleOwnsNothing
      <4>. QED  BY <2>1, <4>1, <4>2 DEF WriteHints, ClearFlag
    <3>. QED  BY <3>1, <3>2, OwnersSame DEF Pending
  <2>. QED  BY <1>2, <2>1, MarkDirtyOwners, FlushDoneOwners, WriteEntryOwners, WriteFirstOwners,
            WriteDataOwners, WriteSizeOwners, WriteShrunkOwners, DeleteEntryOwners,
            DeleteNamesOwners DEF Progress
<1>3. CASE UNCHANGED vars
  <2>1. UNCHANGED <<entries, dir, call, failed>>
    BY <1>3 DEF vars, memory, device
  <2>2. Pending' = Pending
    BY <2>1 DEF Pending
  <2>. QED  BY <2>1, <2>2, OwnersSame DEF Owned
<1>. QED  BY <1>1, <1>2, <1>3, FailOwners

-----------------------------------------------------------------------------
(***************************************************************************)
(* The volume is sound in memory.                                          *)
(***************************************************************************)

UInv == CInv /\ (~interrupted => Owned /\ NoLeak)

LEMMA InitOwned == Init => Owned /\ NoLeak
<1> SUFFICES ASSUME Init PROVE Owned /\ NoLeak
  OBVIOUS
<1>1. /\ entries = [c \in Clusters |-> IF c = FIRST_CLUSTER THEN END_OF_CHAIN_MARK ELSE FREE]
      /\ dir = [f \in Files |-> NoEntry] /\ call = Idle
  BY DEF Init
<1>2. Pending = 0 /\ Heads(dir, 0) = {FIRST_CLUSTER} /\ \A f \in Files : dir[f].first = 0
  BY <1>1, IdleOwnsNothing DEF Heads, NoEntry, FIRST_CLUSTER
<1>3. WellLinked(entries, {FIRST_CLUSTER})
  BY <1>1, MarksApart DEF WellLinked, Tables, EntryValues, LinksInjective, LinksToUsed, Unlinked,
                          Unusable
<1>4. Apart(dir, 0) /\ LongEnough(entries, dir)
  BY <1>2, MarksApart DEF Apart, LongEnough, FIRST_CLUSTER
<1>5. AllHeld(entries, {FIRST_CLUSTER})
  <2>1. FIRST_CLUSTER \in Chain(entries, FIRST_CLUSTER)
    BY MarksApart, ChainLeast
  <2>. QED  BY <1>1, <2>1, MarksApart DEF AllHeld, Covered, Unusable
<1>. QED  BY <1>1, <1>2, <1>3, <1>4, <1>5 DEF Owned, NoLeak, Rooted, Idle

LEMMA NextUInv == UInv /\ [Next]_vars => UInv'
<1> SUFFICES ASSUME UInv, [Next]_vars PROVE UInv'
  OBVIOUS
<1>1. CInv'
  BY NextCInv DEF UInv
<1>2. CASE Crash
  BY <1>1, <1>2 DEF Crash, UInv
<1>3. CASE [Start \/ Progress \/ Fail]_vars
  <2>1. interrupted' = interrupted
    BY <1>3 DEF Start, Progress, Create, WriteToEmpty, WriteExtending, WriteWithin, Shrink, Remove,
           Sync, MarkDirty, FlushSector, FlushDone, WriteEntry, WriteFirst, WriteData, WriteSize,
           WriteShrunk, DeleteEntry, DeleteNames, WriteHints, ClearFlag, Fail, vars
  <2>. QED  BY <1>1, <1>3, <2>1, NextOwned DEF UInv, OwnersKept
<1>. QED  BY <1>2, <1>3 DEF Next

THEOREM Ownership == Spec => []UInv
BY InitCInv, InitOwned, NextUInv, PTL DEF Spec, UInv

\* Owned chains are whole, long enough and nobody else's.
LEMMA RootedIsSound ==
    ASSUME NEW e, dir \in Dirs, NEW p \in Clusters \cup {0}, Rooted(e, dir, p)
    PROVE  Sound(e)
<1> DEFINE H == Heads(dir, p)
<1>1. WellLinked(e, H) /\ Apart(dir, p) /\ LongEnough(e, dir)
  BY DEF Rooted
<1>2. FIRST_CLUSTER \in H /\ \A f \in Chained : dir[f].first \in H
  BY HeadsAre DEF Chained
<1> HIDE DEF H
<1>3. WalkSucceeds(e, FIRST_CLUSTER) /\ \A f \in Chained : WalkSucceeds(e, dir[f].first)
  BY <1>1, <1>2, WalkReachesEnd
<1>4. LinksInjective(e) /\ \A h \in H : h \in Clusters /\ Unlinked(e, h)
  BY <1>1 DEF WellLinked
<1>5. \A f \in Chained : dir[f].first # FIRST_CLUSTER
  BY <1>1 DEF Apart, Chained
<1>6. \A f \in Chained : FIRST_CLUSTER \notin Chain(e, dir[f].first)
  BY <1>2, <1>4, <1>5, UnlinkedOnOwnChain
<1>7. \A f, g \in Chained : f # g => dir[f].first # dir[g].first
  BY <1>1 DEF Apart, Chained
<1>8. \A f, g \in Chained : f # g => Chain(e, dir[f].first) \cap Chain(e, dir[g].first) = {}
  BY <1>2, <1>4, <1>7, ChainsDisjoint
<1>. QED  BY <1>1, <1>3, <1>6, <1>8 DEF Sound, LongEnough, Chained

\* Until the power goes out, and however many calls fail, every entry names a
\* chain the resident table holds whole, long enough for its size and shared
\* with no other entry: no allocation ever takes a cluster a name still holds.
THEOREM SoundInMemory == Spec => [](~interrupted => MemorySound)
<1>1. UInv => (~interrupted => MemorySound)
  BY RootedIsSound DEF UInv, Owned, MemorySound, CInv, TypeOK, Dirs, Calls, Pending
<1>. QED  BY <1>1, Ownership, PTL

\* A call that succeeds leaves no cluster allocated that nothing names.
THEOREM NoLeaks == Spec => []NoLeakUntroubled
<1>1. UInv => NoLeakUntroubled
  <2> SUFFICES ASSUME UInv, ~failed, ~interrupted, call = Idle
               PROVE  {c \in Clusters : entries[c] # FREE} =
                        Chain(entries, FIRST_CLUSTER)
                           \cup UNION {Chain(entries, dir[f].first) : f \in Chained}
    BY DEF NoLeakUntroubled
  <2> DEFINE H == Heads(dir, 0)
  <2>1. /\ dir \in Dirs /\ WellLinked(entries, H) /\ AllHeld(entries, H)
    BY IdleOwnsNothing DEF UInv, Owned, NoLeak, Rooted, CInv, TypeOK, Dirs
  <2>2. H = {FIRST_CLUSTER} \cup {dir[f].first : f \in Chained}
    BY DEF Heads, Chained, FIRST_CLUSTER
  <2> HIDE DEF H
  <2>3. \A h \in H : /\ Chain(entries, h) \in SUBSET Clusters
                     /\ \A c \in Chain(entries, h) : entries[c] # FREE
    BY <2>1, HeadFacts, ChainUsed DEF Unusable
  <2>4. \A c \in Clusters : entries[c] # FREE => \E h \in H : c \in Chain(entries, h)
    BY <2>1 DEF AllHeld, Covered, Unusable
  <2>. QED  BY <2>2, <2>3, <2>4
<1>. QED  BY <1>1, Ownership, PTL
=============================================================================
