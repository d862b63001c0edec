-------------------------------- MODULE Tree --------------------------------
(***************************************************************************)
(* The directory tree of a mounted volume: how src/src/file.rs makes and   *)
(* removes directories and moves files and directories between them, how   *)
(* src/src/fs.rs finds a directory by its path, and what is left of the    *)
(* tree when a device write fails or the power goes out between two.       *)
(*                                                                         *)
(* A name's slots are one entry here (module Directory has the slots), the *)
(* allocation table is the set of what is allocated (module Volume has its *)
(* sectors), and a directory is one cluster.                               *)
(***************************************************************************)
EXTENDS Integers, Sequences, FiniteSets

CONSTANTS Names,        \* the names callers use
          Root,         \* the root directory's cluster
          Clusters,     \* bound: the clusters directories can be given
          Files,        \* bound: the files there can be, each with its chain
          Paths,        \* the paths callers use, as sequences of components
          MaxTroubles   \* bound: failed writes and power cuts in a behaviour

None == "none"    \* no entry
Zero == "zero"    \* cluster 0

ASSUME TreeAssumption ==
    /\ Root \notin Clusters
    /\ Files \cap (Clusters \cup {Root}) = {}
    /\ {None, Zero, "junk"} \cap (Files \cup Clusters) = {}
    /\ Names \cap {".", ".."} = {}
    /\ Paths \subseteq Seq(Names \cup {".", ".."})
    /\ IsFiniteSet(Clusters)
    /\ MaxTroubles \in Nat

VARIABLES allocated,  \* memory: directories and files whose chain is allocated
          resident,   \* memory: the directories as parsed, NotRead if not
          call,       \* memory: the call in progress, or Idle
          todo,       \* memory: the device writes left of it
          onDevice,   \* device: what its table has allocated
          tree,       \* device: what the clusters directories live in hold
          troubles,   \* how often a write failed or the power went out
          doubled,    \* that has left something with both names of its move
          staled      \* that has left a removed directory resident

vars == <<allocated, resident, call, todo, onDevice, tree, troubles, doubled, staled>>

Directories == Clusters \cup {Root}
Nodes       == Clusters \cup Files
Entries     == Names \cup {".", ".."}
NotRead     == <<>>
Idle        == [op |-> "none", node |-> None]

\* What the last owner of a cluster left in it.
Junk == [e \in Entries |-> "junk"]

-----------------------------------------------------------------------------
(***************************************************************************)
(* Reading.                                                                *)
(***************************************************************************)

\* `..` names 0 where the parent is the root.
Link(d)     == IF d = Root THEN Zero ELSE d
Place(link) == IF link = Zero THEN Root ELSE link

\* read_dir: the resident parse, or the device's slots.
Read(d) == IF resident[d] = NotRead THEN tree[d] ELSE resident[d]

\* One component of a path.  A name that is missing, a file, or a directory
\* whose chain is free leads nowhere.
NotFound == "not found"
Component(d, e) ==
    IF e = "." THEN d
    ELSE LET node == IF Read(d)[e] = Zero THEN Root ELSE Read(d)[e]
         IN  IF node \in allocated \cap Clusters \/ node = Root THEN node ELSE NotFound

\* resolve_dir: the directories a path goes through, the root first.
Trail(path) ==
    LET at[k \in 0 .. Len(path)] ==
            IF k = 0 THEN Root
            ELSE IF at[k - 1] = NotFound THEN NotFound
            ELSE Component(at[k - 1], path[k])
    IN  at
Resolve(path) == Trail(path)[Len(path)]
Visited(path) == {d \in allocated \cup {Root} : \E k \in 0 .. Len(path) : Trail(path)[k] = d}

\* Mutant of IsWithin: only the directory itself is looked at.
IsWithinItself(d, ancestor) == d = ancestor

\* is_within: whether `..` leads from d to `ancestor` before the root.
IsWithin(d, ancestor) ==
    LET up[k \in 0 .. Cardinality(Clusters)] ==
            IF k = 0 THEN d
            ELSE IF up[k - 1] = Root THEN Root
            ELSE Place(Read(up[k - 1])[".."])
    IN  \E k \in DOMAIN up : up[k] = ancestor

-----------------------------------------------------------------------------
(***************************************************************************)
(* Device writes, and the calls that make them.  A call that is refused    *)
(* changes nothing.                                                        *)
(***************************************************************************)

\* write_entries, edit_entry and delete_entries: what they put in d, whose
\* resident parse they drop.
PutAll(d, entries) == [kind |-> "put", dir |-> d, put |-> entries, drop |-> TRUE, frees |-> {}]
Put(d, name, node) == PutAll(d, [e \in {name} |-> node])

\* The dot entries of a new directory, written past any resident parse.
Prepare(c, parent) ==
    [kind |-> "put", dir |-> c, drop |-> FALSE, frees |-> {},
     put |-> [e \in Entries |-> CASE e = "."  -> c
                                  [] e = ".." -> Link(parent)
                                  [] OTHER    -> None]]

\* free_chain of what is in `frees`, and flush_fat.
Flush(frees) == [kind |-> "flush", frees |-> frees]

Start(op, node, reads, writes) ==
    /\ call' = [op |-> op, node |-> node]
    /\ todo' = writes
    /\ resident' = [d \in Directories |-> IF d \in reads THEN Read(d) ELSE resident[d]]
    /\ UNCHANGED <<onDevice, tree, troubles, doubled, staled>>

\* open_dir: the directories on the way become resident.
OpenDir(path) ==
    /\ call = Idle
    /\ Resolve(path) # NotFound
    /\ resident' = [d \in Directories |-> IF d \in Visited(path) THEN Read(d) ELSE resident[d]]
    /\ UNCHANGED <<allocated, call, todo, onDevice, tree, troubles, doubled, staled>>

\* create_with_size, for a file with room for data.
Create(path, n) ==
    /\ call = Idle
    /\ Resolve(path) # NotFound
    /\ LET d == Resolve(path)
       IN  /\ Read(d)[n] = None
           /\ \E f \in Files \ allocated :
                 /\ allocated' = allocated \cup {f}
                 /\ Start("create", f, Visited(path), <<Flush({}), Put(d, n, f)>>)

\* remove, of a file.
Remove(path, n) ==
    /\ call = Idle
    /\ Resolve(path) # NotFound
    /\ LET d == Resolve(path)
       IN  /\ Read(d)[n] \in Files
           /\ Start("remove", Read(d)[n], Visited(path),
                    <<Put(d, n, None), Flush({Read(d)[n]})>>)
    /\ UNCHANGED allocated

\* Mutant of CreateDir: the entry comes before the directory it names.
CreateDirNamedFirst(path, n) ==
    /\ call = Idle
    /\ Resolve(path) # NotFound
    /\ LET d == Resolve(path)
       IN  /\ Read(d)[n] = None
           /\ \E c \in Clusters \ allocated :
                 /\ allocated' = allocated \cup {c}
                 /\ Start("create_dir", c, Visited(path),
                          <<Put(d, n, c), Prepare(c, d), Flush({})>>)

\* create_dir: a cluster is allocated, prepared, flushed, and only then named.
CreateDir(path, n) ==
    /\ call = Idle
    /\ Resolve(path) # NotFound
    /\ LET d == Resolve(path)
       IN  /\ Read(d)[n] = None
           /\ \E c \in Clusters \ allocated :
                 /\ allocated' = allocated \cup {c}
                 /\ Start("create_dir", c, Visited(path),
                          <<Prepare(c, d), Flush({}), Put(d, n, c)>>)

Empty(contents) == \A n \in Names : contents[n] = None

\* remove_dir: the entry of an empty directory, then its cluster.
RemoveDir(path, n) ==
    /\ call = Idle
    /\ Resolve(path) # NotFound
    /\ LET d == Resolve(path)
           c == Read(d)[n]
       IN  /\ c \in allocated \cap Clusters
           /\ Empty(Read(c))
           /\ Start("remove_dir", c, Visited(path) \cup {c},
                    <<Put(d, n, None), Flush({c})>>)
    /\ UNCHANGED allocated

\* remove_dir of path/".", which is an entry like any other.
RemoveDot(path) ==
    /\ call = Idle
    /\ Resolve(path) \in Clusters
    /\ LET d == Resolve(path)
       IN  /\ Read(d)["."] = d
           /\ Empty(Read(d))
           /\ Start("remove_dir", d, Visited(path),
                    <<Put(d, ".", None), Flush({d})>>)
    /\ UNCHANGED allocated

-----------------------------------------------------------------------------
(***************************************************************************)
(* Renames and moves.                                                      *)
(***************************************************************************)

\* replace_file: the old name goes, the target is repointed, its chain freed.
ReplaceFile(fromDir, n, toDir, m) ==
    /\ {Read(fromDir)[n], Read(toDir)[m]} \subseteq Files
    /\ todo' = <<Put(fromDir, n, None), Put(toDir, m, Read(fromDir)[n]),
                 Flush({Read(toDir)[m]})>>

\* rename_here: in place if the new name's slots fit the old one's, which one
\* block write then settles; otherwise a new entry, then the old one deleted.
RenameHere(d, n, m) ==
    /\ Read(d)[m] = None
    /\ \/ todo' = <<PutAll(d, [e \in {n, m} |-> IF e = n THEN None ELSE Read(d)[n]])>>
       \/ todo' = <<Flush({}), Put(d, m, Read(d)[n]), Put(d, n, None)>>

\* Mutant of Reparent: `..` stays as it was.
ReparentNothing(node, toDir) == <<>>

\* Mutant of Reparent: `..` names the root by its own cluster.
ReparentLiterally(node, toDir) == IF node \in Clusters THEN <<Put(node, "..", toDir)>> ELSE <<>>

\* A directory's `..` names its new parent between the two.
Reparent(node, toDir) == IF node \in Clusters THEN <<Put(node, "..", Link(toDir))>> ELSE <<>>

\* move_to_new_name: not into itself or beneath; the new name, then the old.
MoveToNewName(fromDir, n, toDir, m) ==
    LET node == Read(fromDir)[n]
    IN  /\ Read(toDir)[m] = None
        /\ node \in Clusters => ~IsWithin(toDir, node)
        /\ todo' = <<Flush({}), Put(toDir, m, node)>> \o Reparent(node, toDir)
                     \o <<Put(fromDir, n, None)>>

\* rename: a file may replace a file, and nothing replaces a directory.
Rename(from, n, to, m) ==
    /\ call = Idle
    /\ Resolve(from) # NotFound
    /\ Resolve(to) # NotFound
    /\ LET fromDir == Resolve(from)
           toDir   == Resolve(to)
       IN  /\ Read(fromDir)[n] # None
           /\ <<fromDir, n>> # <<toDir, m>>
           /\ \/ ReplaceFile(fromDir, n, toDir, m)
              \/ fromDir = toDir /\ RenameHere(fromDir, n, m)
              \/ fromDir # toDir /\ MoveToNewName(fromDir, n, toDir, m)
           /\ call' = [op |-> "rename", node |-> Read(fromDir)[n]]
    /\ resident' = [d \in Directories |->
          IF d \in Visited(from) \cup Visited(to) THEN Read(d) ELSE resident[d]]
    /\ UNCHANGED <<allocated, onDevice, tree, troubles, doubled, staled>>

-----------------------------------------------------------------------------
(***************************************************************************)
(* The rest of a call, a device write at a time.                           *)
(***************************************************************************)

Due(kind) == call # Idle /\ Head(todo).kind = kind

\* The last device write of a call is followed by its return.
Advance ==
    /\ todo' = Tail(todo)
    /\ call' = IF Len(todo) > 1 THEN call ELSE Idle

WriteEntries ==
    /\ Due("put")
    /\ tree' = [tree EXCEPT ![Head(todo).dir] =
          [e \in Entries |-> IF e \in DOMAIN Head(todo).put THEN Head(todo).put[e] ELSE @[e]]]
    /\ resident' = IF Head(todo).drop THEN [resident EXCEPT ![Head(todo).dir] = NotRead]
                                      ELSE resident
    /\ Advance
    /\ UNCHANGED <<allocated, onDevice, troubles, doubled, staled>>

\* Mutant of FlushTable: a removed directory stays resident.
FlushTableRemembering ==
    /\ Due("flush")
    /\ Head(todo).frees \subseteq allocated
    /\ allocated' = allocated \ Head(todo).frees
    /\ onDevice' = allocated'
    /\ Advance
    /\ UNCHANGED <<resident, tree, troubles, doubled, staled>>

\* free_chain in memory, then flush_fat; remove_dir then forgets the parse.
FlushTable ==
    /\ Due("flush")
    /\ Head(todo).frees \subseteq allocated
    /\ allocated' = allocated \ Head(todo).frees
    /\ onDevice' = allocated'
    /\ resident' = [d \in Directories |-> IF d \in Head(todo).frees THEN NotRead ELSE resident[d]]
    /\ Advance
    /\ UNCHANGED <<tree, troubles, doubled, staled>>

\* free_chain of a chain that is free already fails, and the call with it.
FreeFails ==
    /\ Due("flush")
    /\ ~(Head(todo).frees \subseteq allocated)
    /\ call' = Idle
    /\ todo' = <<>>
    /\ UNCHANGED <<allocated, resident, onDevice, tree, troubles, doubled, staled>>

\* A call that ends here leaves what it moves with both its names.
NamesOf(node) == {p \in Directories \X Names : tree[p[1]][p[2]] = node}
Doubling == call.op = "rename" /\ \E p, q \in NamesOf(call.node) : p # q

\* A device write reports an error and the call returns it; create and
\* create_dir give back what they allocated, in memory.
Fail ==
    /\ troubles < MaxTroubles
    /\ call # Idle
    /\ troubles' = troubles + 1
    /\ LET frees  == IF Head(todo).kind = "flush" THEN Head(todo).frees ELSE {}
           undone == IF call.op \in {"create", "create_dir"} THEN {call.node} ELSE {}
       IN  /\ allocated' = allocated \ (frees \cup undone)
           /\ staled' = (staled \/ frees \cap Clusters # {})
    /\ doubled' = (doubled \/ Doubling)
    /\ call' = Idle
    /\ todo' = <<>>
    /\ UNCHANGED <<resident, onDevice, tree>>

\* The power goes out and the volume is mounted again.
Crash ==
    /\ troubles < MaxTroubles
    /\ troubles' = troubles + 1
    /\ allocated' = onDevice
    /\ resident' = [d \in Directories |-> NotRead]
    /\ call' = Idle
    /\ todo' = <<>>
    /\ doubled' = (doubled \/ Doubling)
    /\ staled' = FALSE
    /\ UNCHANGED <<onDevice, tree>>

Init ==
    /\ allocated = {}
    /\ resident = [d \in Directories |-> NotRead]
    /\ call = Idle
    /\ todo = <<>>
    /\ onDevice = {}
    /\ tree = [d \in Directories |-> IF d = Root THEN [e \in Entries |-> None] ELSE Junk]
    /\ troubles = 0
    /\ doubled = FALSE
    /\ staled = FALSE

Next ==
    \/ \E p \in Paths : OpenDir(p)
    \/ \E p \in Paths, n \in Names :
          Create(p, n) \/ Remove(p, n) \/ CreateDir(p, n) \/ RemoveDir(p, n)
    \/ \E p, q \in Paths, n, m \in Names : Rename(p, n, q, m)
    \/ WriteEntries \/ FlushTable \/ FreeFails \/ Fail \/ Crash

Spec == Init /\ [][Next]_vars

\* The same with callers that remove a directory by its ".".
DotNext == Next \/ \E p \in Paths : RemoveDot(p)
DotSpec == Init /\ [][DotNext]_vars

-----------------------------------------------------------------------------
(***************************************************************************)
(* What is checked.                                                        *)
(***************************************************************************)

\* The directories a walk from the root finds on the device.
Reached ==
    LET upTo[k \in 0 .. Cardinality(Clusters)] ==
            IF k = 0 THEN {Root}
            ELSE upTo[k - 1] \cup {c \in Clusters :
                    \E d \in upTo[k - 1], n \in Names : tree[d][n] = c}
    IN  upTo[Cardinality(Clusters)]

\* The types of the state.
TypeOK ==
    /\ {allocated, onDevice} \subseteq SUBSET Nodes
    /\ \A d \in Directories : /\ \A n \in Names : tree[d][n] \in Nodes \cup {None, "junk"}
                              /\ tree[d]["."] \in Clusters \cup {None, "junk"}
                              /\ tree[d][".."] \in Clusters \cup {Zero, None, "junk"}
    /\ \A d \in Directories : resident[d] # NotRead => DOMAIN resident[d] = Entries
    /\ call # Idle => call.node \in Nodes /\ todo # <<>>
    /\ troubles \in 0 .. MaxTroubles
    /\ doubled \in BOOLEAN /\ staled \in BOOLEAN

\* An entry of the device's tree names what the device's table has allocated,
\* and a directory it names has been prepared, whatever failed and wherever
\* the power goes out; until a move is cut short with both names in place, for
\* removing one of those frees what the other names.
EntriesNameWhatIsThere ==
    ~doubled => \A d \in Reached, n \in Names :
        LET node == tree[d][n]
        IN  node # None => node \in onDevice /\ (node \in Clusters => tree[node]["."] # "junk")

\* The tree is one: nothing has two names but what is being moved, and every
\* `..` names the directory its own is in, 0 for the root.
OneParent ==
    ~doubled => \A d \in Reached, n \in Names :
        LET node == tree[d][n]
        IN  node = None \/ node = call.node
            \/ /\ NamesOf(node) \cap (Reached \X Names) = {<<d, n>>}
               /\ node \in Clusters => tree[node][".."] = Link(d)

\* No step loses a directory: one the tree no longer reaches was empty.  A
\* move into a directory's own contents would break this, and so would
\* deleting a moved directory's old name before the new one is there.
NoDirectoryLost ==
    [][~doubled /\ ~staled => \A c \in Reached \cap Clusters : c \notin Reached' => Empty(tree[c])]_vars

\* A directory parsed once and kept is what the device has, through every call
\* that changed, removed, moved or made one, and every failure of one but that
\* of a removal's flush, which leaves the parse of a directory that is gone.
ResidentAgrees ==
    ~staled => \A d \in Directories : resident[d] # NotRead => resident[d] = tree[d]
=============================================================================
