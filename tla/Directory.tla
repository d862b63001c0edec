----------------------------- MODULE Directory -----------------------------
(***************************************************************************)
(* One directory of a mounted volume, slot by slot: how src/src/dir.rs     *)
(* parses it, how src/src/fs.rs finds, grows, writes and deletes slots,    *)
(* and how src/src/file.rs creates, removes and renames the files named    *)
(* there and refuses stale handles to them.                                *)
(*                                                                         *)
(* Slots are written through, a block at a time, beside a resident parse   *)
(* of them; any write may report an error or be the last before the power  *)
(* goes out.  A file is an identity, standing for its cluster chain.  A    *)
(* long name is its parts, one to a slot; the alias in a part stands for   *)
(* its checksum.  A name without parts is its own alias.                   *)
(***************************************************************************)
EXTENDS Integers, Sequences, FiniteSets, TLC

CONSTANTS Names,          \* the names callers use
          Aliases,        \* the 8.3 names those may be stored under
          PartsOf,        \* long-name slots of each name
          Candidates,     \* the aliases tried for each name, in order
          KeyOf,          \* names and aliases, upper-cased
          SlotsPerBlock,  \* slots in one device block, SLOTS_PER_BLOCK
          SlotsPerCluster,\* slots in one cluster
          MaxClusters,    \* bound: clusters the directory can have
          MaxGrowth,      \* MAX_DIRECTORY_GROWTH
          Files,          \* bound: the files there can be at one time
          MaxTroubles,    \* bound: failed writes and power cuts in a behaviour
          MayLosePower    \* whether the power may go out

ASSUME DirectoryAssumption ==
    /\ PartsOf \in [Names -> Nat]
    /\ \A n \in Names : /\ Candidates[n] \in Seq(Aliases)
                        /\ Candidates[n] # <<>>
                        /\ PartsOf[n] = 0 => n = Candidates[n][1]
    /\ Names \cup Aliases \subseteq DOMAIN KeyOf
    /\ SlotsPerBlock \in Nat \ {0}
    /\ SlotsPerCluster \in Nat \ {0}
    /\ SlotsPerCluster % SlotsPerBlock = 0
    /\ MaxClusters \in Nat \ {0}
    /\ "none" \notin Files   \* None names no file
    /\ {MaxGrowth, MaxTroubles} \subseteq Nat
    /\ MayLosePower \in BOOLEAN

VARIABLES length,     \* memory: clusters the resident table gives the directory
          resident,   \* memory: the slots as last parsed, or NotRead
          handle,     \* the caller's File while its slot's generation is the
                      \* one it was stamped with, or NoHandle
          held,       \* memory: files whose chain is allocated
          call,       \* memory: the call in progress, or Idle
          todo,       \* memory: the device writes left of it
          slots,      \* device: the slots, those of unlinked clusters included
          linked,     \* device: clusters the device's table gives the directory
          promised,   \* the name each file was last reported to have
          troubles,   \* how often a write failed or the power went out
          doubled     \* that has left a file with both names of a move

vars == <<length, resident, handle, held, call, todo, slots, linked,
          promised, troubles, doubled>>

AllSlots == 0 .. MaxClusters * SlotsPerCluster - 1
None     == "none"      \* no file, no name
Unsure   == "unsure"    \* promised: a call on it did not succeed, or has not yet

End     == [kind |-> "end"]
Deleted == [kind |-> "deleted"]
LongSlot(n, p, a) == [kind |-> "long", name |-> n, part |-> p,
                      last |-> p = PartsOf[n], alias |-> a]
ShortSlot(a, id)  == [kind |-> "short", alias |-> a, id |-> id]
\* What the last owner of a cluster left in it reads as an entry of no file.
Junk == ShortSlot("junk", None)

NotRead  == <<>>
NoHandle == [index |-> -1, alias |-> None, id |-> None]
Idle     == [op |-> "none", step |-> "idle"]

View(table) == [i \in 0 .. table * SlotsPerCluster - 1 |-> slots[i]]

-----------------------------------------------------------------------------
(***************************************************************************)
(* Parsing a view v of the directory.                                      *)
(***************************************************************************)

IsFree(slot) == slot \in {End, Deleted}

\* An entry past the end marker is refused, and so is the directory.
Parses(v) == \A i, j \in DOMAIN v : i < j /\ v[i] = End => IsFree(v[j])

ShortSlots(v) == {i \in DOMAIN v : v[i].kind = "short"}

\* Where the long-name slots in front of the entry at i begin, whatever name
\* they belong to.
FirstSlot(v, i) ==
    CHOOSE f \in 0 .. i : /\ \A j \in f .. i - 1 : v[j].kind = "long"
                          /\ f = 0 \/ v[f - 1].kind # "long"

\* The length of the finished run of parts in front of the entry at i, or 0:
\* from a last part down to part 1, all with the entry's checksum.
PartsAt(v, i) ==
    LET Run(k) == /\ v[i - k].last
                  /\ \A p \in 1 .. k : /\ v[i - p].part = p
                                       /\ v[i - p].alias = v[i].alias
                                       /\ v[i - p].last => p = k
        lengths == {k \in 1 .. i - FirstSlot(v, i) : Run(k)}
    IN  IF lengths = {} THEN 0 ELSE CHOOSE k \in lengths : TRUE

\* Parts of different names that add up to a run show as a name of its own.
Mixed == "mixed"
DisplayName(v, i) ==
    LET k     == PartsAt(v, i)
        owner == {v[i - p].name : p \in 1 .. k}
    IN  CASE k = 0                                         -> v[i].alias
          [] k > 0 /\ Cardinality(owner) = 1               -> CHOOSE n \in owner : TRUE
          [] OTHER                                         -> Mixed

\* The index holds every entry's alias, the first winning, and every entry's
\* long name, the last winning and over any alias.
NotFound == -1
Lookup(v, key) ==
    LET byLong  == {i \in ShortSlots(v) : PartsAt(v, i) > 0 /\ DisplayName(v, i) # Mixed
                                            /\ KeyOf[DisplayName(v, i)] = key}
        byShort == {i \in ShortSlots(v) : v[i].id # None /\ KeyOf[v[i].alias] = key}
    IN  CASE byLong # {}                  -> CHOOSE i \in byLong : \A j \in byLong : j <= i
          [] byLong = {} /\ byShort # {}  -> CHOOSE i \in byShort : \A j \in byShort : i <= j
          [] OTHER                        -> NotFound

\* free_run: the first stretch of free slots at least `count` long; a stretch
\* begins where a free slot follows one that is not.
FreeRunOf(v, need) ==
    LET starts == {i \in DOMAIN v : /\ i = 0 \/ ~IsFree(v[i - 1])
                                    /\ i + need - 1 \in DOMAIN v
                                    /\ \A j \in i .. i + need - 1 : IsFree(v[j])}
    IN  IF starts = {} THEN NotFound ELSE CHOOSE i \in starts : \A j \in starts : i <= j

\* Mutant of FreeRun: a stretch one slot too short will do.
FreeRunShort(v, count) == FreeRunOf(v, IF count > 1 THEN count - 1 ELSE count)

FreeRun(v, count) == FreeRunOf(v, count)

\* read_dir: the resident parse, or the device's slots by the resident table.
Read == IF resident = NotRead THEN View(length) ELSE resident

-----------------------------------------------------------------------------
(***************************************************************************)
(* Names and the device writes they take.                                  *)
(***************************************************************************)

\* stored_name: a name without parts is its own alias; any other takes the
\* first candidate that is not taken, if there is one.
StoredAliases(n, taken) ==
    IF PartsOf[n] = 0 THEN {n}
    ELSE {Candidates[n][k] : k \in {k \in DOMAIN Candidates[n] :
              /\ Candidates[n][k] \notin taken
              /\ \A j \in 1 .. k - 1 : Candidates[n][j] \in taken}}

SlotsFor(n) == PartsOf[n] + 1

\* name_entries: the parts, last first, then the 8.3 entry.
NameEntries(n, a, id) ==
    [k \in 1 .. SlotsFor(n) |-> IF k = SlotsFor(n) THEN ShortSlot(a, id)
                                                   ELSE LongSlot(n, SlotsFor(n) - k, a)]

\* A device write: the slots it puts, all in one block, or a flush of the
\* table; what moves in memory before it, generations and freed files; and
\* whether the resident parse is dropped after it.
PutSlot(i, slot, bump, drop) ==
    [kind |-> "put", put |-> [j \in {i} |-> slot], bump |-> bump, frees |-> {}, drop |-> drop]

\* Mutant of Edit: the resident parse is kept.
EditKept(i, slot, bump) == PutSlot(i, slot, bump, FALSE)

\* edit_entry: one slot's write.
Edit(i, slot, bump) == PutSlot(i, slot, bump, TRUE)

\* free_chain of the files in `frees`, and flush_fat.
Flush(frees) == [kind |-> "flush", put |-> <<>>, bump |-> {}, frees |-> frees, drop |-> FALSE]

\* Mutant of DeleteEntries: no generation moves.
DeleteEntriesUnbumped(first, last) ==
    [k \in 1 .. last - first + 1 |-> Edit(last + 1 - k, Deleted, {})]

\* delete_entries: every generation moves first, then the 8.3 slot goes, then
\* the slots in front of it from the nearest.
DeleteEntries(first, last) ==
    [k \in 1 .. last - first + 1 |->
        Edit(last + 1 - k, Deleted, IF k = 1 THEN first .. last ELSE {})]

\* The blocks a run of entries at `first` falls into, and what goes in each.
BlockOf(i) == i \div SlotsPerBlock
BlockWrite(first, entries, block, final) ==
    [kind |-> "put", bump |-> {}, frees |-> {}, drop |-> final,
     put  |-> [i \in {i \in first .. first + Len(entries) - 1 : BlockOf(i) = block}
                  |-> entries[i - first + 1]]]

\* write_entries: one write per block, in ascending order.
WriteEntries(first, entries) ==
    LET final == BlockOf(first + Len(entries) - 1)
    IN  [k \in 1 .. final - BlockOf(first) + 1 |->
            BlockWrite(first, entries, BlockOf(first) + k - 1, BlockOf(first) + k - 1 = final)]

-----------------------------------------------------------------------------
(***************************************************************************)
(* Calls.  A call that is refused changes nothing and is no step.          *)
(***************************************************************************)

\* A call that works out its device writes at once, or first looks for slots.
\* `over` is the file it replaces, `old` the slots it leaves, `alias` the 8.3
\* name it writes; `was` is the file's promise so far, Unsure if an earlier call
\* on any of its files went wrong.
NoSlots == [first |-> 0, last |-> -1]
Calling(op, step, id, over, name, alias, old) ==
    [op |-> op, step |-> step, id |-> id, over |-> over, name |-> name,
     alias |-> alias, old |-> old, grown |-> 0,
     was |-> IF Unsure \in {promised[f] : f \in {id, over} \ {None}} THEN Unsure
             ELSE promised[id]]

Start(c, writes) ==
    /\ call' = c
    /\ todo' = writes
    /\ resident' = Read
    /\ promised' = [f \in Files |-> IF f \in {c.id, c.over} /\ c.op # "update"
                                  THEN Unsure ELSE promised[f]]

\* A file created is any that nothing names: no entry, and no handle.
Listed(v) == {v[i].id : i \in ShortSlots(v)}
NewFiles == Files \ (Listed(View(length)) \cup {handle.id})

\* create_with_size with room for data: plan_name, then the allocation.
Create(n) ==
    /\ call = Idle
    /\ Parses(Read)
    /\ Lookup(Read, KeyOf[n]) = NotFound
    /\ \E f \in NewFiles,
          a \in StoredAliases(n, {b \in Aliases : Lookup(Read, KeyOf[b]) # NotFound}) :
          /\ Start([Calling("create", "find", f, None, n, a, NoSlots) EXCEPT !.was = None], <<>>)
          /\ held' = held \cup {f}
    /\ UNCHANGED <<length, handle, slots, linked, troubles, doubled>>

\* open, which stamps the handle with the slot's generation.
Open(n) ==
    /\ call = Idle
    /\ Parses(Read)
    /\ Lookup(Read, KeyOf[n]) # NotFound
    /\ LET i == Lookup(Read, KeyOf[n])
       IN  handle' = [index |-> i, alias |-> Read[i].alias, id |-> Read[i].id]
    /\ resident' = Read
    /\ UNCHANGED <<length, held, call, todo, slots, linked, promised, troubles, doubled>>

\* check_live: the slot's generation has not moved, since a handle whose
\* slot's has is forgotten, and the slot holds an entry of the same 8.3 name.
Live(h) ==
    /\ h.index \in DOMAIN Read
    /\ Read[h.index].kind = "short"
    /\ Read[h.index].alias = h.alias

\* The generations of the slots in `bump` move: no handle to one of them will
\* pass check_live again.
Bump(bump) == handle' = IF handle.index \in bump THEN NoHandle ELSE handle

\* A write or truncation through the handle rewrites its slot's first cluster.
Update ==
    /\ call = Idle
    /\ handle # NoHandle
    /\ Parses(Read)
    /\ Live(handle)
    /\ slots[handle.index].kind = "short"
    /\ Start(Calling("update", "write", handle.id, None, promised[handle.id], handle.alias, NoSlots),
             <<Edit(handle.index, ShortSlot(slots[handle.index].alias, handle.id), {})>>)
    /\ UNCHANGED <<length, handle, held, slots, linked, troubles, doubled>>

\* remove: the entry and its slots, then the chain.
Remove(n) ==
    /\ call = Idle
    /\ Parses(Read)
    /\ LET i == Lookup(Read, KeyOf[n])
       IN  /\ i # NotFound
           /\ Start(Calling("remove", "write", Read[i].id, None, None, Read[i].alias, NoSlots),
                    DeleteEntries(FirstSlot(Read, i), i) \o <<Flush({Read[i].id})>>)
    /\ UNCHANGED <<length, handle, held, slots, linked, troubles, doubled>>

\* Mutant of ReplaceFile: the target is repointed before the source goes.
ReplaceFileRepointingFirst(s, t) ==
    Start(Calling("rename", "write", slots[s].id, Read[t].id, DisplayName(Read, t),
                  Read[t].alias, NoSlots),
          <<Edit(t, ShortSlot(slots[t].alias, slots[s].id), {t})>>
             \o DeleteEntries(FirstSlot(Read, s), s) \o <<Flush({Read[t].id})>>)

\* Mutant of ReplaceFile: the target's entry is deleted, not repointed.
ReplaceFileDeleting(s, t) ==
    Start(Calling("rename", "write", slots[s].id, Read[t].id, DisplayName(Read, t),
                  Read[t].alias, NoSlots),
          DeleteEntries(FirstSlot(Read, s), s) \o <<Edit(t, Deleted, {t})>>
             \o <<Edit(t, ShortSlot(slots[t].alias, slots[s].id), {}), Flush({Read[t].id})>>)

\* replace_file: the source's slots go, the target's entry takes its contents
\* under a new generation, and the target's old chain is freed.
ReplaceFile(s, t) ==
    Start(Calling("rename", "write", slots[s].id, Read[t].id, DisplayName(Read, t),
                  Read[t].alias, NoSlots),
          DeleteEntries(FirstSlot(Read, s), s)
             \o <<Edit(t, ShortSlot(slots[t].alias, slots[s].id), {t}), Flush({Read[t].id})>>)

\* rename_here, in place when the new name's slots fit the old one's.  The
\* entry's own alias may be kept; the slots in front the new name does not
\* reach are deleted.
RenameInPlace(s, m, a) ==
    LET first    == FirstSlot(Read, s)
        newFirst == s + 1 - SlotsFor(m)
    IN  Start(Calling("rename", "write", slots[s].id, None, m, a, NoSlots),
              WriteEntries(newFirst, NameEntries(m, a, slots[s].id))
                 \o DeleteEntries(first, newFirst - 1))

\* write_new_then_delete, when they do not: the old entry is live until the
\* new one is written, so its alias counts as taken.
RenameMoving(s, m, a) ==
    Start(Calling("rename", "find", slots[s].id, None, m, a,
                  [first |-> FirstSlot(Read, s), last |-> s]), <<>>)

\* Mutant of RenameTaken: no alias counts as taken.
RenameTakenNever(s, fits, b) == FALSE

\* plan_name_except: whether alias b is taken for a rename of the entry at s.
RenameTaken(s, fits, b) == Lookup(Read, KeyOf[b]) \notin (IF fits THEN {s, NotFound} ELSE {NotFound})

\* rename within the directory: a target that is another entry is replaced;
\* one that is the source itself is a change of case, or nothing at all.
Rename(n, m) ==
    /\ call = Idle
    /\ Parses(Read)
    /\ LET s    == Lookup(Read, KeyOf[n])
           t    == Lookup(Read, KeyOf[m])
           fits == SlotsFor(m) <= s - FirstSlot(Read, s) + 1
       IN  /\ s # NotFound
           /\ \/ /\ t \notin {s, NotFound}
                 /\ ReplaceFile(s, t)
              \/ /\ t \in {s, NotFound}
                 /\ DisplayName(Read, s) # m
                 /\ \E a \in StoredAliases(m, {b \in Aliases : RenameTaken(s, fits, b)}) :
                       IF fits THEN RenameInPlace(s, m, a) ELSE RenameMoving(s, m, a)
    /\ UNCHANGED <<length, handle, held, slots, linked, troubles, doubled>>

-----------------------------------------------------------------------------
(***************************************************************************)
(* The rest of a call, a device write at a time.                           *)
(***************************************************************************)

NewEntries == NameEntries(call.name, call.alias, call.id)
Found == FreeRun(Read, SlotsFor(call.name))

\* Mutant of FindSlots: the flush is left out.
FindSlotsUnflushed ==
    /\ call.step = "find"
    /\ Found # NotFound
    /\ call' = [call EXCEPT !.step = "write"]
    /\ todo' = WriteEntries(Found, NewEntries) \o DeleteEntries(call.old.first, call.old.last)
    /\ resident' = Read
    /\ UNCHANGED <<length, handle, held, slots, linked, promised, troubles, doubled>>

\* free_slots finds a run: what free_slots may have linked is flushed before
\* an entry is written into it, and a moved entry's old slots go last.
FindSlots ==
    /\ call.step = "find"
    /\ Found # NotFound
    /\ call' = [call EXCEPT !.step = "write"]
    /\ todo' = <<Flush({})>> \o WriteEntries(Found, NewEntries)
                  \o DeleteEntries(call.old.first, call.old.last)
    /\ resident' = Read
    /\ UNCHANGED <<length, handle, held, slots, linked, promised, troubles, doubled>>

CanGrow == call.grown < MaxGrowth /\ length < MaxClusters

\* Mutant of Grow: the new cluster is not zeroed.
GrowUnzeroed ==
    /\ call.step = "find"
    /\ Found = NotFound
    /\ CanGrow
    /\ length' = length + 1
    /\ resident' = NotRead
    /\ call' = [call EXCEPT !.grown = @ + 1]
    /\ UNCHANGED <<handle, held, todo, slots, linked, promised, troubles, doubled>>

\* grow_directory: a new cluster is zeroed on the device, then linked in the
\* resident table, and the resident parse is dropped.
Grow ==
    /\ call.step = "find"
    /\ Found = NotFound
    /\ CanGrow
    /\ slots' = [i \in AllSlots |-> IF i \div SlotsPerCluster = length THEN End ELSE slots[i]]
    /\ length' = length + 1
    /\ resident' = NotRead
    /\ call' = [call EXCEPT !.grown = @ + 1]
    /\ UNCHANGED <<handle, held, todo, linked, promised, troubles, doubled>>

\* The undo of create_with_size: nothing names the chain yet.
Undone == IF call.op = "create" THEN held \ {call.id} ELSE held

\* free_slots gives up: DirectoryFull, or no cluster to grow by.
NoRoom ==
    /\ call.step = "find"
    /\ Found = NotFound
    /\ ~CanGrow
    /\ held' = Undone
    /\ call' = Idle
    /\ resident' = Read
    /\ promised' = [promised EXCEPT ![call.id] = call.was]
    /\ UNCHANGED <<length, handle, todo, slots, linked, troubles, doubled>>

\* The last device write of a call is followed by its return.
Advance ==
    IF Len(todo) > 1
    THEN todo' = Tail(todo) /\ UNCHANGED <<call, promised>>
    ELSE /\ todo' = <<>>
         /\ call' = Idle
         /\ promised' = IF call.was = Unsure THEN promised
                        ELSE [f \in Files |-> CASE f = call.id   -> call.name
                                              [] f = call.over -> None
                                              [] OTHER         -> promised[f]]

Due(kind) == call.step = "write" /\ Head(todo).kind = kind

\* One block of slots, read, changed and written back.
WriteSlots ==
    /\ Due("put")
    /\ Bump(Head(todo).bump)
    /\ slots' = [i \in AllSlots \cup DOMAIN Head(todo).put |->
          IF i \in DOMAIN Head(todo).put THEN Head(todo).put[i] ELSE slots[i]]
    /\ resident' = IF Head(todo).drop THEN NotRead ELSE resident
    /\ Advance
    /\ UNCHANGED <<length, held, linked, troubles, doubled>>

\* free_chain in memory, then flush_fat, which also publishes any growth.
FlushTable ==
    /\ Due("flush")
    /\ Head(todo).frees \subseteq held
    /\ held' = held \ Head(todo).frees
    /\ linked' = length
    /\ Advance
    /\ UNCHANGED <<length, resident, handle, slots, troubles, doubled>>

\* free_chain of a chain that is free already fails, and the call with it.
FreeFails ==
    /\ Due("flush")
    /\ ~(Head(todo).frees \subseteq held)
    /\ call' = Idle
    /\ todo' = <<>>
    /\ UNCHANGED <<length, resident, handle, held, slots, linked, promised, troubles, doubled>>

\* A call that ends here leaves its file with both names of its move.
Doubling == call.over = None /\ Cardinality({i \in ShortSlots(View(length)) : slots[i].id = call.id}) > 1

\* A device write reports an error, and the call returns it.
Fail ==
    /\ troubles < MaxTroubles
    /\ call # Idle
    /\ \/ call.step = "find" /\ Found = NotFound /\ CanGrow
       \/ call.step = "write"
    /\ troubles' = troubles + 1
    /\ doubled' = (doubled \/ (call # Idle /\ Doubling))
    /\ IF call.step = "find"
       THEN held' = Undone /\ UNCHANGED handle
       ELSE /\ held' = Undone \ Head(todo).frees
            /\ Bump(Head(todo).bump)
    /\ call' = Idle
    /\ todo' = <<>>
    /\ resident' = IF call.step = "find" THEN Read ELSE resident
    /\ UNCHANGED <<length, slots, linked, promised>>

\* The power goes out and the volume is mounted again.  A cluster the device's
\* table does not link is not the one the directory grows by next.
Crash ==
    /\ MayLosePower
    /\ troubles < MaxTroubles
    /\ troubles' = troubles + 1
    /\ doubled' = (doubled \/ (call # Idle /\ Doubling))
    /\ length' = linked
    /\ resident' = NotRead
    /\ handle' = NoHandle
    /\ call' = Idle
    /\ todo' = <<>>
    /\ slots' = [i \in AllSlots |-> IF i \div SlotsPerCluster < linked THEN slots[i] ELSE Junk]
    /\ UNCHANGED <<held, linked, promised>>

Init ==
    /\ length = 1
    /\ resident = NotRead
    /\ handle = NoHandle
    /\ held = {}
    /\ call = Idle
    /\ todo = <<>>
    /\ slots = [i \in AllSlots |-> IF i < SlotsPerCluster THEN End ELSE Junk]
    /\ linked = 1
    /\ promised = [f \in Files |-> None]
    /\ troubles = 0
    /\ doubled = FALSE

Next ==
    \/ \E n \in Names : Create(n) \/ Open(n) \/ Remove(n)
    \/ \E n, m \in Names : Rename(n, m)
    \/ Update \/ FindSlots \/ Grow \/ NoRoom \/ WriteSlots \/ FlushTable \/ FreeFails
    \/ Fail \/ Crash

Spec == Init /\ [][Next]_vars

-----------------------------------------------------------------------------
(***************************************************************************)
(* What is checked.  `OnDevice` is what a mount at this moment would read. *)
(***************************************************************************)

OnDevice == View(linked)
Shown    == Names \cup Aliases \cup {Mixed}
Slots    == {End, Deleted, Junk}
            \cup {LongSlot(n, p, a) : n \in Names, p \in 1 .. SlotsPerCluster * MaxClusters, a \in Aliases}
            \cup {ShortSlot(a, f) : a \in Aliases, f \in Files}

\* The types of the state.
TypeOK ==
    /\ length \in 1 .. MaxClusters
    /\ linked \in 1 .. length
    /\ slots \in [AllSlots -> Slots]
    /\ resident # NotRead => \A i \in DOMAIN resident : i \in AllSlots /\ resident[i] \in Slots
    /\ handle # NoHandle => handle \in [index : AllSlots, alias : Aliases, id : Files]
    /\ held \subseteq Files
    /\ promised \in [Files -> Shown \cup {None, Unsure}]
    /\ troubles \in 0 .. MaxTroubles
    /\ doubled \in BOOLEAN
    /\ call # Idle => /\ call.op \in {"create", "remove", "rename", "update"}
                      /\ call.step \in {"find", "write"}
                      /\ call.id \in Files /\ call.over \in Files \cup {None}
    /\ todo # <<>> => call.step = "write"

\* At any moment the directory on the device parses, and lists nothing of
\* what a cluster held before it joined the directory: no entry stands past
\* the end marker, no cluster is linked before it is zeroed.
DeviceReadable ==
    /\ Parses(OnDevice)
    /\ Junk \notin {OnDevice[i] : i \in DOMAIN OnDevice}

\* No two entries have the same 8.3 name, on the device or past it in memory,
\* through every moment of a rename and whatever went wrong before, until a
\* move is cut short with both its names in place.
AliasesUnique ==
    ~doubled => \A i, j \in ShortSlots(View(length)) : i # j => slots[i].alias # slots[j].alias

\* The resident parse shows exactly the 8.3 entries the device has, even when
\* a call failed part-way and left the parse in place; so planning a name or
\* checking a handle against it is as good as reading the device.
ResidentAgrees ==
    resident # NotRead =>
        /\ DOMAIN resident = DOMAIN View(length)
        /\ \A i \in DOMAIN resident :
              "short" \in {resident[i].kind, slots[i].kind} => resident[i] = slots[i]

\* A handle that passes check_live names its own file: whatever was removed,
\* replaced, created or renamed since, a write through it changes no other
\* file's entry.
LiveHandleIsItsFile ==
    call = Idle /\ handle # NoHandle /\ Live(handle) =>
        /\ slots[handle.index].kind = "short"
        /\ slots[handle.index].id = handle.id

\* The file found under a name, or None.
FileAt(v, name) == IF Lookup(v, KeyOf[name]) = NotFound THEN None ELSE v[Lookup(v, KeyOf[name])].id

\* What a call reported is so on the device, and stays so through every later
\* failure, power cut and call on other files: a file created or renamed is
\* found under its name with its chain allocated, and shown under that name
\* if nothing went wrong; a file removed or replaced is not listed.
PromisesKept ==
    \A f \in Files :
        /\ promised[f] \in Names =>
              /\ f \in held
              /\ FileAt(OnDevice, promised[f]) = f
              /\ troubles = 0 => DisplayName(OnDevice, Lookup(OnDevice, KeyOf[promised[f]])) = promised[f]
        /\ promised[f] = None => f \notin Listed(OnDevice)

\* A rename loses nothing at any moment.  A file given a new name is listed
\* throughout; a file replaced has, throughout, its entry naming either the
\* old file or the new one.
RenameKeepsTheFile ==
    call.op = "rename" =>
        IF call.over = None THEN call.id \in Listed(OnDevice)
        ELSE \E i \in ShortSlots(OnDevice) :
                OnDevice[i].alias = call.alias /\ OnDevice[i].id \in {call.id, call.over}

\* Two entries share a file only while it is moved to a name nothing has, or
\* once such a move has been cut short with both its names in place: replacing
\* a file never lets a cluster belong to two names.
SharedOnlyByMoves ==
    ~doubled => \A i, j \in ShortSlots(View(length)) :
        i # j /\ slots[i].id = slots[j].id =>
            call.op = "rename" /\ call.over = None /\ call.id = slots[i].id

\* "`to` always names a whole file, the old one or the new one" (rename's
\* documentation, of replacing a file): no step of a rename frees the chain of
\* the file it renames, the step of a call tried again included.
RenameFreesOnlyTheOld ==
    [][call.op = "rename" /\ call.id \in held => call.id \in held']_vars
=============================================================================
