----------------------------- MODULE TreeProofs -----------------------------
(***************************************************************************)
(* Tree, for any number of directories, files and names, any paths and any *)
(* number of failures and power cuts: first that a resident directory is   *)
(* what the device has, then that names and parents make one tree, whose   *)
(* entries name what is there and of which nothing is lost.                *)
(***************************************************************************)
EXTENDS Tree, TLAPS, WellFoundedInduction, FiniteSetTheorems

\* Only a directory being made is written past a resident parse.
Orderly(write, by) ==
    write.kind = "put" /\ ~write.drop => by.op = "create_dir" /\ write.dir = by.node

\* The writes left of a call.
Elements(s) == {s[i] : i \in 1 .. Len(s)}
Left        == Elements(todo)

\* While no removal's flush has failed, only what is allocated is resident,
\* and a directory being made is not.
ResidentIsAllocated ==
    ~staled => \A d \in Directories : resident[d] # NotRead => d \in allocated \cup {Root}
NewIsNotResident ==
    ~staled /\ call.op = "create_dir" => resident[call.node] = NotRead

RInv ==
    /\ resident = [d \in Directories |-> resident[d]]
    /\ tree = [d \in Directories |-> tree[d]]
    /\ todo \in Seq(Left)
    /\ call # Idle => Len(todo) > 0
    /\ \A write \in Left : Orderly(write, call)
    /\ call.op = "create" => call.node \in Files
    /\ call.op = "create_dir" => call.node \in Clusters
    /\ ResidentIsAllocated
    /\ NewIsNotResident
    /\ ResidentAgrees

-----------------------------------------------------------------------------
(***************************************************************************)
(* The writes left of a call.                                              *)
(***************************************************************************)

\* The elements of a sequence over a set are in it, and the sequence is one
\* over its own elements.
LEMMA ElementsOf ==
    ASSUME NEW W, NEW s \in Seq(W)
    PROVE  Elements(s) \subseteq W /\ s \in Seq(Elements(s))
BY DEF Elements

\* The rest of a call's writes are among those that were left.
LEMMA RestOfWrites ==
    ASSUME todo \in Seq(Left), Len(todo) > 0, todo' = Tail(todo)
    PROVE  /\ todo' \in Seq(Left')
           /\ Left' \subseteq Left
           /\ Head(todo) \in Left
           /\ Len(todo) > 1 => Len(todo') > 0
           /\ Len(todo) <= 1 => Left' = {}
<1>1. /\ todo' \in Seq(Left)
      /\ Len(todo') = Len(todo) - 1
      /\ Len(todo) \in Nat
  OBVIOUS
<1>2. Head(todo) \in Left
  BY DEF Left, Elements
<1>3. Left' \subseteq Left /\ todo' \in Seq(Left')
  <2>1. Elements(todo') \subseteq Left /\ todo' \in Seq(Elements(todo'))
    BY <1>1, ElementsOf
  <2>. QED
    BY <2>1 DEF Left
<1>4. Len(todo) <= 1 => Left' = {}
  BY <1>1 DEF Left, Elements
<1>. QED
  BY <1>1, <1>2, <1>3, <1>4

\* The writes of a call that starts.
LEMMA NewWrites ==
    ASSUME NEW W, todo' \in Seq(W)
    PROVE  Left' \subseteq W /\ todo' \in Seq(Left')
BY ElementsOf DEF Left

\* Every write but the preparing of a new directory drops the parse.
LEMMA Dropping ==
    /\ \A d, entries, by : Orderly(PutAll(d, entries), by)
    /\ \A d, name, node, by : Orderly(Put(d, name, node), by)
    /\ \A frees, by : Orderly(Flush(frees), by)
BY DEF Orderly, PutAll, Put, Flush

-----------------------------------------------------------------------------
(***************************************************************************)
(* Each action preserves the invariant.                                    *)
(***************************************************************************)

\* Reading directories that are allocated, the device being left alone.
LEMMA Reading ==
    ASSUME RInv, NEW reads,
           resident' = [d \in Directories |-> IF d \in reads THEN Read(d) ELSE resident[d]],
           tree' = tree, staled' = staled, allocated \subseteq allocated',
           reads \subseteq allocated' \cup {Root}
    PROVE  /\ resident' = [d \in Directories |-> resident'[d]]
           /\ tree' = [d \in Directories |-> tree'[d]]
           /\ ResidentIsAllocated'
           /\ ResidentAgrees'
<1>1. \A d \in Directories : resident'[d] = IF d \in reads THEN Read(d) ELSE resident[d]
  OBVIOUS
<1>2. ResidentIsAllocated'
  BY <1>1 DEF RInv, ResidentIsAllocated, Directories
<1>3. ResidentAgrees'
  BY <1>1 DEF RInv, ResidentAgrees, Read
<1>. QED
  BY <1>2, <1>3 DEF RInv

\* The directories a path goes through are allocated.
LEMMA VisitedAllocated == \A path : Visited(path) \subseteq allocated \cup {Root}
BY DEF Visited

\* A call that starts, reads what is allocated, makes no directory and has
\* two orderly writes.
LEMMA Starting ==
    ASSUME RInv, NEW op, NEW node, NEW reads, NEW first, NEW second,
           Start(op, node, reads, <<first, second>>),
           allocated \subseteq allocated', reads \subseteq allocated' \cup {Root},
           op # "create_dir", op = "create" => node \in Files,
           \A by : Orderly(first, by), \A by : Orderly(second, by)
    PROVE  RInv'
<1>1. /\ call' = [op |-> op, node |-> node]
      /\ todo' = <<first, second>>
      /\ tree' = tree /\ staled' = staled
      /\ resident' = [d \in Directories |-> IF d \in reads THEN Read(d) ELSE resident[d]]
  BY DEF Start
<1>2. todo' \in Seq({first, second}) /\ Len(todo') > 0
  BY <1>1
<1>3. Left' \subseteq {first, second} /\ todo' \in Seq(Left')
  BY <1>2, NewWrites
<1>4. /\ resident' = [d \in Directories |-> resident'[d]]
      /\ tree' = [d \in Directories |-> tree'[d]]
      /\ ResidentIsAllocated'
      /\ ResidentAgrees'
  BY <1>1, Reading
<1>5. call'.op = op /\ call'.node = node
  BY <1>1
<1>. QED
  BY <1>2, <1>3, <1>4, <1>5 DEF RInv, NewIsNotResident

LEMMA OpenDirStep ==
    ASSUME RInv, NEW path, OpenDir(path)
    PROVE  RInv'
<1>1. /\ resident' = [d \in Directories |-> IF d \in Visited(path) THEN Read(d) ELSE resident[d]]
      /\ call = Idle
      /\ UNCHANGED <<allocated, call, todo, tree, staled>>
  BY DEF OpenDir
<1>2. /\ resident' = [d \in Directories |-> resident'[d]]
      /\ tree' = [d \in Directories |-> tree'[d]]
      /\ ResidentIsAllocated'
      /\ ResidentAgrees'
  BY <1>1, VisitedAllocated, Reading
<1>3. call'.op = "none" /\ Left' = Left
  BY <1>1 DEF Idle, Left
<1>. QED
  BY <1>1, <1>2, <1>3 DEF RInv, NewIsNotResident

LEMMA CreateStep ==
    ASSUME RInv, NEW path, NEW n, Create(path, n)
    PROVE  RInv'
<1>1. PICK f \in Files \ allocated :
        /\ allocated' = allocated \cup {f}
        /\ Start("create", f, Visited(path),
                 <<Flush({}), Put(Resolve(path), n, f)>>)
  BY DEF Create
<1>. DEFINE first == Flush({})  second == Put(Resolve(path), n, f)  reads == Visited(path)
<1>2. (\A by : Orderly(first, by)) /\ (\A by : Orderly(second, by))
  BY Dropping
<1>3. reads \subseteq allocated' \cup {Root} /\ allocated \subseteq allocated'
  BY <1>1, VisitedAllocated
<1>4. Start("create", f, reads, <<first, second>>)
  BY <1>1
<1>. HIDE DEF first, second, reads
<1>. QED
  BY <1>2, <1>3, <1>4, Starting

LEMMA RemoveStep ==
    ASSUME RInv, NEW path, NEW n, Remove(path, n)
    PROVE  RInv'
<1>. DEFINE f      == Read(Resolve(path))[n]
            first  == Put(Resolve(path), n, None)
            second == Flush({f})
            reads  == Visited(path)
<1>1. /\ Start("remove", f, reads, <<first, second>>)
      /\ allocated' = allocated
  BY DEF Remove
<1>2. (\A by : Orderly(first, by)) /\ (\A by : Orderly(second, by))
  BY Dropping
<1>3. reads \subseteq allocated' \cup {Root} /\ allocated \subseteq allocated'
  BY <1>1, VisitedAllocated
<1>. HIDE DEF f, first, second, reads
<1>. QED
  BY <1>1, <1>2, <1>3, Starting

LEMMA RemoveDirStep ==
    ASSUME RInv, NEW path, NEW n, RemoveDir(path, n)
    PROVE  RInv'
<1>. DEFINE c      == Read(Resolve(path))[n]
            first  == Put(Resolve(path), n, None)
            second == Flush({c})
            reads  == Visited(path) \cup {c}
<1>1. /\ Start("remove_dir", c, reads, <<first, second>>)
      /\ c \in allocated
      /\ allocated' = allocated
  BY DEF RemoveDir
<1>2. (\A by : Orderly(first, by)) /\ (\A by : Orderly(second, by))
  BY Dropping
<1>3. reads \subseteq allocated' \cup {Root} /\ allocated \subseteq allocated'
  BY <1>1, VisitedAllocated
<1>. HIDE DEF c, first, second, reads
<1>. QED
  BY <1>1, <1>2, <1>3, Starting

\* A new directory's cluster is free, so it is not resident.
LEMMA CreateDirStep ==
    ASSUME RInv, NEW path, NEW n, CreateDir(path, n)
    PROVE  RInv'
<1>. DEFINE d == Resolve(path)
<1>1. PICK c \in Clusters \ allocated :
        /\ allocated' = allocated \cup {c}
        /\ Start("create_dir", c, Visited(path), <<Prepare(c, d), Flush({}), Put(d, n, c)>>)
  BY DEF CreateDir
<1>. DEFINE first == Prepare(c, d)  second == Flush({})  third == Put(d, n, c)
<1>2. /\ call' = [op |-> "create_dir", node |-> c]
      /\ todo' = <<first, second, third>>
      /\ tree' = tree /\ staled' = staled
      /\ resident' = [e \in Directories |-> IF e \in Visited(path) THEN Read(e) ELSE resident[e]]
  BY <1>1 DEF Start
<1>3. \A write \in {first, second, third} : Orderly(write, call')
  <2>1. Orderly(first, call')
    BY <1>2 DEF Orderly, Prepare
  <2>. QED
    BY <2>1, Dropping
<1>. HIDE DEF d, first, second, third
<1>4. Left' \subseteq {first, second, third} /\ todo' \in Seq(Left')
  <2>1. todo' \in Seq({first, second, third})
    BY <1>2
  <2>. QED
    BY <2>1, NewWrites
<1>5. Len(todo') > 0
  BY <1>2
<1>6. /\ resident' = [e \in Directories |-> resident'[e]]
      /\ tree' = [e \in Directories |-> tree'[e]]
      /\ ResidentIsAllocated'
      /\ ResidentAgrees'
  <2>1. Visited(path) \subseteq allocated' \cup {Root} /\ allocated \subseteq allocated'
    BY <1>1, VisitedAllocated
  <2>. QED
    BY <1>2, <2>1, Reading
<1>7. NewIsNotResident'
  <2>1. c \in Directories /\ c \notin allocated \cup {Root} /\ c \notin Visited(path)
    BY <1>1, TreeAssumption, VisitedAllocated DEF Directories
  <2>. QED
    BY <1>2, <2>1 DEF RInv, ResidentIsAllocated, NewIsNotResident
<1>8. call'.op = "create_dir" /\ call'.node \in Clusters
  BY <1>2
<1>. QED
  BY <1>3, <1>4, <1>5, <1>6, <1>7, <1>8 DEF RInv

\* However a rename is done, its writes drop the parses they change.
LEMMA RenameStep ==
    ASSUME RInv, NEW from, NEW n, NEW to, NEW m, Rename(from, n, to, m)
    PROVE  RInv'
<1>. DEFINE fromDir == Resolve(from)
            toDir   == Resolve(to)
            reads   == Visited(from) \cup Visited(to)
<1>1. /\ \/ ReplaceFile(fromDir, n, toDir, m)
         \/ fromDir = toDir /\ RenameHere(fromDir, n, m)
         \/ fromDir # toDir /\ MoveToNewName(fromDir, n, toDir, m)
      /\ call' = [op |-> "rename", node |-> Read(fromDir)[n]]
      /\ resident' = [d \in Directories |-> IF d \in reads THEN Read(d) ELSE resident[d]]
      /\ UNCHANGED <<allocated, tree, staled>>
  BY DEF Rename
<1>2. reads \subseteq allocated' \cup {Root}
  BY <1>1, VisitedAllocated
<1>. HIDE DEF fromDir, toDir, reads
<1>3. /\ todo' \in Seq(Left') /\ Len(todo') > 0
      /\ \A write \in Left' : Orderly(write, call')
  <2>1. CASE ReplaceFile(fromDir, n, toDir, m)
    <3>. DEFINE a == Put(fromDir, n, None)
                b == Put(toDir, m, Read(fromDir)[n])
                c == Flush({Read(toDir)[m]})
    <3>1. todo' = <<a, b, c>>
      BY <2>1 DEF ReplaceFile
    <3>2. \A write \in {a, b, c} : Orderly(write, call')
      BY Dropping
    <3>. HIDE DEF a, b, c
    <3>3. todo' \in Seq({a, b, c}) /\ Len(todo') > 0
      BY <3>1
    <3>. QED
      BY <3>2, <3>3, NewWrites
  <2>2. CASE RenameHere(fromDir, n, m)
    <3>. DEFINE a == PutAll(fromDir, [e \in {n, m} |-> IF e = n THEN None ELSE Read(fromDir)[n]])
                b == Put(fromDir, m, Read(fromDir)[n])
                c == Put(fromDir, n, None)
                e == Flush({})
    <3>1. todo' = <<a>> \/ todo' = <<e, b, c>>
      BY <2>2 DEF RenameHere
    <3>2. \A write \in {a, b, c, e} : Orderly(write, call')
      BY Dropping
    <3>. DEFINE W == {a, b, c, e}
    <3>3. a \in W /\ b \in W /\ c \in W /\ e \in W
      OBVIOUS
    <3>. HIDE DEF W, a, b, c, e
    <3>4. todo' \in Seq(W) /\ Len(todo') > 0
      <4>1. <<a>> \in Seq(W) /\ Len(<<a>>) > 0
        BY <3>3
      <4>2. <<e, b, c>> \in Seq(W) /\ Len(<<e, b, c>>) > 0
        BY <3>3
      <4>. QED
        BY <3>1, <4>1, <4>2, Zenon
    <3>5. \A write \in W : Orderly(write, call')
      BY <3>2 DEF W
    <3>. QED
      BY <3>4, <3>5, NewWrites
  <2>3. CASE MoveToNewName(fromDir, n, toDir, m)
    <3>. DEFINE node == Read(fromDir)[n]
                a == Flush({})
                b == Put(toDir, m, node)
                c == Put(node, "..", Link(toDir))
                e == Put(fromDir, n, None)
    <3>1. todo' = <<a, b>> \o <<c>> \o <<e>> \/ todo' = <<a, b>> \o <<>> \o <<e>>
      BY <2>3 DEF MoveToNewName, Reparent
    <3>2. \A write \in {a, b, c, e} : Orderly(write, call')
      BY Dropping
    <3>. DEFINE W == {a, b, c, e}
    <3>3. a \in W /\ b \in W /\ c \in W /\ e \in W
      OBVIOUS
    <3>. HIDE DEF W, a, b, c, e
    <3>4. todo' \in Seq(W) /\ Len(todo') > 0
      <4>1. \A s \in Seq(W), t \in Seq(W) : s \o t \in Seq(W) /\ Len(s \o t) = Len(s) + Len(t)
        OBVIOUS
      <4>2. <<a, b>> \in Seq(W) /\ Len(<<a, b>>) = 2
        BY <3>3
      <4>3. <<c>> \in Seq(W) /\ Len(<<c>>) = 1 /\ <<e>> \in Seq(W) /\ Len(<<e>>) = 1
        BY <3>3
      <4>4. <<>> \in Seq(W) /\ Len(<<>>) = 0
        OBVIOUS
      <4>5. /\ <<a, b>> \o <<c>> \in Seq(W) /\ Len(<<a, b>> \o <<c>>) = 3
            /\ <<a, b>> \o <<>> \in Seq(W) /\ Len(<<a, b>> \o <<>>) = 2
        BY <4>1, <4>2, <4>3, <4>4
      <4>6. /\ <<a, b>> \o <<c>> \o <<e>> \in Seq(W) /\ Len(<<a, b>> \o <<c>> \o <<e>>) > 0
            /\ <<a, b>> \o <<>> \o <<e>> \in Seq(W) /\ Len(<<a, b>> \o <<>> \o <<e>>) > 0
        BY <4>1, <4>3, <4>5
      <4>. QED
        BY <3>1, <4>6, Zenon
    <3>5. \A write \in W : Orderly(write, call')
      BY <3>2 DEF W
    <3>. QED
      BY <3>4, <3>5, NewWrites
  <2>. QED
    BY <1>1, <2>1, <2>2, <2>3
<1>4. /\ resident' = [d \in Directories |-> resident'[d]]
      /\ tree' = [d \in Directories |-> tree'[d]]
      /\ ResidentIsAllocated'
      /\ ResidentAgrees'
  BY <1>1, <1>2, Reading
<1>5. call'.op = "rename"
  BY <1>1
<1>. QED
  BY <1>3, <1>4, <1>5 DEF RInv, NewIsNotResident

\* A write past a parse goes to a directory that has none.
LEMMA WriteEntriesStep ==
    ASSUME RInv, WriteEntries
    PROVE  RInv'
<1>. DEFINE write == Head(todo)
<1>1. /\ call # Idle /\ write.kind = "put"
      /\ tree' = [tree EXCEPT ![write.dir] =
                    [e \in Entries |-> IF e \in DOMAIN write.put THEN write.put[e] ELSE @[e]]]
      /\ resident' = IF write.drop THEN [resident EXCEPT ![write.dir] = NotRead] ELSE resident
      /\ todo' = Tail(todo)
      /\ call' = IF Len(todo) > 1 THEN call ELSE Idle
      /\ allocated' = allocated /\ staled' = staled
  BY DEF WriteEntries, Due, Advance
<1>2. /\ todo' \in Seq(Left')
      /\ Left' \subseteq Left
      /\ write \in Left
      /\ Len(todo) > 1 => Len(todo') > 0
      /\ Len(todo) <= 1 => Left' = {}
  BY <1>1, RestOfWrites DEF RInv
<1>3. Orderly(write, call)
  BY <1>2 DEF RInv
<1>. HIDE DEF write
<1>4. /\ resident' = [d \in Directories |-> resident'[d]]
      /\ tree' = [d \in Directories |-> tree'[d]]
  BY <1>1 DEF RInv
<1>5. \A d \in Directories :
        /\ d = write.dir /\ write.drop => resident'[d] = NotRead
        /\ d # write.dir \/ ~write.drop => resident'[d] = resident[d]
        /\ d # write.dir => tree'[d] = tree[d]
  BY <1>1 DEF RInv
<1>6. \A d \in Directories : resident'[d] = resident[d] \/ resident'[d] = NotRead
  BY <1>5
<1>7. ResidentIsAllocated'
  BY <1>1, <1>6 DEF RInv, ResidentIsAllocated
<1>8. ResidentAgrees'
  BY <1>1, <1>3, <1>5 DEF RInv, ResidentAgrees, NewIsNotResident, Orderly
<1>9. \/ call' = call
      \/ call' = Idle /\ call'.op = "none" /\ Left' = {}
  BY <1>1, <1>2 DEF RInv, Idle
<1>10. NewIsNotResident'
  BY <1>1, <1>6, <1>9 DEF RInv, NewIsNotResident, Directories
<1>11. /\ \A w \in Left' : Orderly(w, call')
       /\ call' # Idle => Len(todo') > 0
  BY <1>1, <1>2, <1>9 DEF RInv
<1>. QED
  BY <1>2, <1>4, <1>7, <1>8, <1>9, <1>10, <1>11 DEF RInv

\* A flush that frees a directory forgets its parse.
LEMMA FlushTableStep ==
    ASSUME RInv, FlushTable
    PROVE  RInv'
<1>. DEFINE frees == Head(todo).frees
<1>1. /\ call # Idle
      /\ allocated' = allocated \ frees
      /\ resident' = [d \in Directories |-> IF d \in frees THEN NotRead ELSE resident[d]]
      /\ todo' = Tail(todo)
      /\ call' = IF Len(todo) > 1 THEN call ELSE Idle
      /\ tree' = tree /\ staled' = staled
  BY DEF FlushTable, Due, Advance
<1>2. /\ todo' \in Seq(Left')
      /\ Left' \subseteq Left
      /\ Len(todo) > 1 => Len(todo') > 0
      /\ Len(todo) <= 1 => Left' = {}
  BY <1>1, RestOfWrites DEF RInv
<1>. HIDE DEF frees
<1>3. \A d \in Directories : resident'[d] = IF d \in frees THEN NotRead ELSE resident[d]
  BY <1>1
<1>4. ResidentIsAllocated'
  BY <1>1, <1>3 DEF RInv, ResidentIsAllocated
<1>5. ResidentAgrees'
  BY <1>1, <1>3 DEF RInv, ResidentAgrees
<1>6. \/ call' = call
      \/ call' = Idle /\ call'.op = "none" /\ Left' = {}
  BY <1>1, <1>2 DEF RInv, Idle
<1>7. NewIsNotResident'
  BY <1>1, <1>3, <1>6 DEF RInv, NewIsNotResident, Directories
<1>8. /\ resident' = [d \in Directories |-> resident'[d]]
      /\ tree' = [d \in Directories |-> tree'[d]]
  BY <1>1 DEF RInv
<1>9. /\ \A w \in Left' : Orderly(w, call')
      /\ call' # Idle => Len(todo') > 0
  BY <1>1, <1>2, <1>6 DEF RInv
<1>. QED
  BY <1>2, <1>4, <1>5, <1>6, <1>7, <1>8, <1>9 DEF RInv

\* A call that ends has no writes left.
LEMMA Ended ==
    ASSUME call' = Idle, todo' = <<>>
    PROVE  /\ Left' = {} /\ todo' \in Seq(Left')
           /\ call'.op = "none"
BY DEF Left, Elements, Idle

LEMMA FreeFailsStep ==
    ASSUME RInv, FreeFails
    PROVE  RInv'
<1>1. call' = Idle /\ todo' = <<>> /\ UNCHANGED <<allocated, resident, tree, staled>>
  BY DEF FreeFails
<1>2. Left' = {} /\ todo' \in Seq(Left') /\ call'.op = "none"
  BY <1>1, Ended
<1>. QED
  BY <1>1, <1>2 DEF RInv, ResidentIsAllocated, NewIsNotResident, ResidentAgrees, Read

\* A failure frees a directory that was being made, which is not resident, or
\* has freed one that was being removed.
LEMMA FailStep ==
    ASSUME RInv, Fail
    PROVE  RInv'
<1>. DEFINE frees  == IF Head(todo).kind = "flush" THEN Head(todo).frees ELSE {}
            undone == IF call.op \in {"create", "create_dir"} THEN {call.node} ELSE {}
<1>1. /\ call' = Idle /\ todo' = <<>>
      /\ allocated' = allocated \ (frees \cup undone)
      /\ staled' = (staled \/ frees \cap Clusters # {})
      /\ resident' = resident /\ tree' = tree
  BY DEF Fail
<1>2. Left' = {} /\ todo' \in Seq(Left') /\ call'.op = "none"
  BY <1>1, Ended
<1>. HIDE DEF frees
<1>3. ResidentIsAllocated'
  <2> SUFFICES ASSUME ~staled', NEW d \in Directories, resident[d] # NotRead, d # Root
               PROVE  d \in allocated'
    BY <1>1 DEF ResidentIsAllocated
  <2>1. ~staled /\ d \notin frees
    BY <1>1 DEF Directories
  <2>2. d \in allocated
    BY <2>1 DEF RInv, ResidentIsAllocated
  <2>3. d \notin undone
    BY <2>1, TreeAssumption DEF RInv, NewIsNotResident, Directories
  <2>. QED
    BY <1>1, <2>1, <2>2, <2>3
<1>4. ResidentAgrees'
  BY <1>1 DEF RInv, ResidentAgrees
<1>. QED
  BY <1>1, <1>2, <1>3, <1>4 DEF RInv, NewIsNotResident

LEMMA CrashStep ==
    ASSUME RInv, Crash
    PROVE  RInv'
<1>1. /\ call' = Idle /\ todo' = <<>> /\ tree' = tree
      /\ resident' = [d \in Directories |-> NotRead]
  BY DEF Crash
<1>2. Left' = {} /\ todo' \in Seq(Left') /\ call'.op = "none"
  BY <1>1, Ended
<1>. QED
  BY <1>1, <1>2 DEF RInv, ResidentIsAllocated, NewIsNotResident, ResidentAgrees

-----------------------------------------------------------------------------
(***************************************************************************)
(* The theorems.                                                           *)
(***************************************************************************)

\* What ties the resident directories to the device and to the writes left of
\* a call holds in every reachable state, whatever fails.
THEOREM Invariance == Spec => []RInv
<1>1. Init => RInv
  <2> SUFFICES ASSUME Init
               PROVE  RInv
    OBVIOUS
  <2>1. Left = {} /\ todo \in Seq(Left) /\ call = Idle /\ call.op = "none"
    BY DEF Init, Left, Elements, Idle
  <2>. QED
    BY <2>1 DEF Init, RInv, ResidentIsAllocated, NewIsNotResident, ResidentAgrees
<1>2. RInv /\ [Next]_vars => RInv'
  <2> SUFFICES ASSUME RInv, [Next]_vars
               PROVE  RInv'
    OBVIOUS
  <2>1. ASSUME NEW p \in Paths, OpenDir(p)
        PROVE  RInv'
    BY <2>1, OpenDirStep
  <2>2. ASSUME NEW p \in Paths, NEW n \in Names, Create(p, n)
        PROVE  RInv'
    BY <2>2, CreateStep
  <2>3. ASSUME NEW p \in Paths, NEW n \in Names, Remove(p, n)
        PROVE  RInv'
    BY <2>3, RemoveStep
  <2>4. ASSUME NEW p \in Paths, NEW n \in Names, CreateDir(p, n)
        PROVE  RInv'
    BY <2>4, CreateDirStep
  <2>5. ASSUME NEW p \in Paths, NEW n \in Names, RemoveDir(p, n)
        PROVE  RInv'
    BY <2>5, RemoveDirStep
  <2>6. ASSUME NEW p \in Paths, NEW q \in Paths, NEW n \in Names, NEW m \in Names,
               Rename(p, n, q, m)
        PROVE  RInv'
    BY <2>6, RenameStep
  <2>7. CASE WriteEntries
    BY <2>7, WriteEntriesStep
  <2>8. CASE FlushTable
    BY <2>8, FlushTableStep
  <2>9. CASE FreeFails
    BY <2>9, FreeFailsStep
  <2>10. CASE Fail
    BY <2>10, FailStep
  <2>11. CASE Crash
    BY <2>11, CrashStep
  <2>12. CASE UNCHANGED vars
    <3>1. UNCHANGED <<allocated, resident, call, todo, tree, staled>>
      BY <2>12 DEF vars
    <3>2. Left' = Left
      BY <3>1 DEF Left
    <3>. QED
      BY <3>1, <3>2 DEF RInv, ResidentIsAllocated, NewIsNotResident, ResidentAgrees
  <2>. QED
    BY <2>1, <2>2, <2>3, <2>4, <2>5, <2>6, <2>7, <2>8, <2>9, <2>10, <2>11, <2>12 DEF Next
<1>. QED
  BY <1>1, <1>2, PTL DEF Spec

\* A directory parsed once and kept is what the device has, through every call
\* and every failure but that of a removal's flush, for any tree.
THEOREM ResidentIsTrue == Spec => []ResidentAgrees
<1>1. RInv => ResidentAgrees
  BY DEF RInv
<1>. QED
  BY <1>1, Invariance, PTL

-----------------------------------------------------------------------------
(***************************************************************************)
(* Names and parents.  Until a move is cut short with both names in place, *)
(* every node has one name but what is being moved, what has a name is     *)
(* allocated in memory and on the device, and `..` follows the name.  A    *)
(* call's writes are one of a few sequences, and `Planned` says for each   *)
(* what it will find.                                                      *)
(***************************************************************************)

\* What an entry of a directory that was prepared can be.
Values(e) == CASE e \in Names -> Nodes \cup {None}
               [] e = "."     -> Clusters \cup {None}
               [] OTHER       -> Clusters \cup {Zero, None}
Whole(contents) == DOMAIN contents = Entries /\ \A e \in Entries : contents[e] \in Values(e)

\* A directory that is being made and has not been prepared.
Unprepared(c) == call.op = "create_dir" /\ call.node = c /\ Len(todo) = 3

Typed ==
    /\ allocated \subseteq Nodes /\ onDevice \subseteq Nodes
    /\ tree = [d \in Directories |-> tree[d]]
    /\ resident = [d \in Directories |-> resident[d]]
    /\ \A d \in Directories : /\ DOMAIN tree[d] = Entries
                              /\ \A e \in Entries : tree[d][e] \in Values(e) \cup {"junk"}
                              /\ resident[d] # NotRead => Whole(resident[d])
    /\ \A d \in onDevice \cap Clusters : Whole(tree[d])
    /\ \A d \in allocated \cap Clusters : Whole(tree[d]) \/ Unprepared(d)
    /\ Whole(tree[Root]) /\ tree[Root][".."] = None
    /\ troubles \in 0 .. MaxTroubles /\ doubled \in BOOLEAN /\ staled \in BOOLEAN

Unnamed(x)      == \A d \in Directories, n \in Names : tree[d][n] # x
OnlyAt(x, d, n) == \A e \in Directories, m \in Names : (tree[e][m] = x <=> (e = d /\ m = n))
AtBoth(x, d, n, e, m) ==
    \A f \in Directories, l \in Names : 
        (tree[f][l] = x <=> ((f = d /\ l = n) \/ (f = e /\ l = m)))

\* A directory that has `..` for its parent, unless it is a file.
Beneath(x, d) == x \in Clusters => tree[x][".."] = Link(d)

\* A directory kept resident under a cluster that is free, or is yet to be
\* one, shows no names.
ShowsNothing(x) == x \in Clusters /\ resident[x] # NotRead => Empty(resident[x])

\* A name that is not there yet.
Vacant(d, n) == tree[d][n] = None

\* The root leads to e by directories other than x.
ClosedBut(x, S) == Root \in S /\ \A d \in S \ {x}, n \in Names : tree[d][n] \in Clusters => tree[d][n] \in S
Apart(x, e)     == e # x /\ \A S \in SUBSET Directories : ClosedBut(x, S) => e \in S

\* A directory x is moved from d to another that is not beneath it.
Clear(x, d, e) == ~doubled /\ ~staled /\ x \in Clusters /\ d # e => Apart(x, e)

\* The writes left of a call that makes the node x and names it n in d.
Creating(x, d, n) ==
    /\ call.op \in {"create", "create_dir"}
    /\ x \in allocated /\ x # d
    /\ IF call.op = "create" THEN x \in Files ELSE x \in Clusters
    /\ \/ /\ call.op = "create_dir"
          /\ todo = <<Prepare(x, d), Flush({}), Put(d, n, x)>>
       \/ /\ todo = <<Flush({}), Put(d, n, x)>>
          /\ x \in Clusters => Whole(tree[x])
          /\ ~doubled => Beneath(x, d)
       \/ /\ todo = <<Put(d, n, x)>>
          /\ x \in onDevice
          /\ ~doubled => Beneath(x, d)
    /\ ~doubled => Unnamed(x) /\ ShowsNothing(x) /\ Vacant(d, n)

\* Of one that removes x, named n in d, a file or an empty directory.
Removing(x, d, n) ==
    /\ call.op \in {"remove", "remove_dir"}
    /\ x \in Nodes
    /\ \/ /\ todo = <<Put(d, n, None), Flush({x})>>
          /\ x # d
          /\ ~doubled => OnlyAt(x, d, n) /\ (x \in Clusters => Empty(tree[x]))
       \/ /\ todo = <<Flush({x})>>
          /\ ~doubled => Unnamed(x)
    /\ ~doubled => ShowsNothing(x)

\* Of one that replaces the file y, named m in e, by x, named n in d.
Replacing(x, d, n, y, e, m) ==
    /\ call.op = "rename"
    /\ x \in Files /\ y \in Files
    /\ \/ /\ todo = <<Put(d, n, None), Put(e, m, x), Flush({y})>>
          /\ ~doubled => OnlyAt(x, d, n) /\ OnlyAt(y, e, m) /\ x # y
       \/ /\ todo = <<Put(e, m, x), Flush({y})>>
          /\ ~doubled => Unnamed(x) /\ OnlyAt(y, e, m) /\ x # y /\ x \in allocated \cap onDevice
       \/ /\ todo = <<Flush({y})>>
          /\ ~doubled => OnlyAt(x, e, m) /\ Unnamed(y)

\* Of one that names x, so far n in d, m in e.
Moving(x, d, n, e, m) ==
    /\ call.op = "rename"
    /\ x \in Nodes
    /\ <<d, n>> # <<e, m>>
    /\ Clear(x, d, e)
    /\ \/ /\ d = e
          /\ todo = <<PutAll(d, [l \in {n, m} |-> IF l = n THEN None ELSE x])>>
          /\ ~doubled => OnlyAt(x, d, n) /\ Beneath(x, d) /\ Vacant(e, m)
       \/ /\ \/ d = e /\ todo = <<Flush({}), Put(e, m, x), Put(d, n, None)>>
             \/ x \in Files /\ todo = <<Flush({}), Put(e, m, x), Put(d, n, None)>>
             \/ /\ x \in Clusters
                /\ todo = <<Flush({}), Put(e, m, x), Put(x, "..", Link(e)), Put(d, n, None)>>
          /\ ~doubled => OnlyAt(x, d, n) /\ Beneath(x, d) /\ Vacant(e, m)
       \/ /\ \/ d = e /\ todo = <<Put(e, m, x), Put(d, n, None)>>
             \/ x \in Files /\ todo = <<Put(e, m, x), Put(d, n, None)>>
             \/ x \in Clusters /\ todo = <<Put(e, m, x), Put(x, "..", Link(e)), Put(d, n, None)>>
          /\ ~doubled => OnlyAt(x, d, n) /\ Beneath(x, d) /\ Vacant(e, m)
       \/ /\ x \in Clusters
          /\ todo = <<Put(x, "..", Link(e)), Put(d, n, None)>>
          /\ ~doubled => AtBoth(x, d, n, e, m)
       \/ /\ todo = <<Put(d, n, None)>>
          /\ ~doubled => AtBoth(x, d, n, e, m) /\ Beneath(x, e)

Planned ==
    \/ call = Idle /\ todo = <<>>
    \/ \E d \in Directories, n \in Names : Creating(call.node, d, n) \/ Removing(call.node, d, n)
    \/ \E d, e \in Directories, n, m \in Names :
          \/ Moving(call.node, d, n, e, m)
          \/ \E y \in Files : Replacing(call.node, d, n, y, e, m)

Named == \A d \in Directories, n \in Names :
             tree[d][n] \in Nodes => tree[d][n] \in allocated \cap onDevice
Single == \A d, e \in Directories, n, m \in Names :
             tree[d][n] \in Nodes /\ tree[d][n] = tree[e][m] =>
                 \/ d = e /\ n = m
                 \/ call.op = "rename" /\ tree[d][n] = call.node
Parents == \A d \in Directories, n \in Names :
               \/ Beneath(tree[d][n], d)
               \/ call.op = "rename" /\ tree[d][n] = call.node
\* What a resident directory shows of names is what the device has.
Shown == \A d \in Directories : resident[d] # NotRead => \A n \in Names : resident[d][n] = tree[d][n]
FreeShowNothing == \A c \in Clusters \ allocated : ShowsNothing(c)
OneTree == Named /\ Single /\ Parents /\ Shown /\ FreeShowNothing

NInv == Typed /\ Planned /\ (~doubled => OneTree)

-----------------------------------------------------------------------------
(***************************************************************************)
(* Paths, as far as they go, lead to directories that are allocated.       *)
(***************************************************************************)

\* A set of naturals with an element has a least one.
LEMMA LeastOfSome ==
    ASSUME NEW S, S \subseteq Nat, S # {}
    PROVE  \E x \in S : \A y \in S : x <= y
<1>1. PICK x \in S : \A y \in S : ~(<<y, x>> \in OpToRel(<, Nat))
  BY NatLessThanWellFounded, WFMin, Zenon
<1>2. \A y \in S : x \in Nat /\ y \in Nat /\ ~(y < x)
  BY <1>1 DEF OpToRel
<1>. QED
  BY <1>2

\* What the walk along a path finds one component further on.
Onward(path, f, k) ==
    IF k = 0 THEN Root ELSE IF f[k - 1] = NotFound THEN NotFound ELSE Component(f[k - 1], path[k])

\* A path can be walked component by component: at the first where it could
\* not, the walk up to the one before could be continued.
LEMMA TrailExists ==
    ASSUME NEW path, Len(path) \in Nat
    PROVE  \E f : f = [k \in 0 .. Len(path) |-> Onward(path, f, k)]
<1>. DEFINE Walk(n, f) == f = [k \in 0 .. n |-> Onward(path, f, k)]
            bad        == {n \in Nat : ~\E f : Walk(n, f)}
<1>. SUFFICES ASSUME bad # {} PROVE FALSE
  OBVIOUS
<1>1. PICK n \in bad : \A m \in bad : n <= m
  <2>1. bad \subseteq Nat
    OBVIOUS
  <2>. HIDE DEF bad
  <2>. QED
    BY <2>1, LeastOfSome
<1>2. CASE n = 0
  <2>1. Walk(0, [k \in 0 .. 0 |-> Root])
    BY DEF Onward
  <2>. QED
    BY <1>1, <1>2, <2>1
<1>3. CASE n > 0
  <2>1. PICK f : Walk(n - 1, f)
    BY <1>1, <1>3
  <2>. DEFINE g == [k \in 0 .. n |-> IF k = n THEN Onward(path, f, n) ELSE f[k]]
  <2>2. \A k \in 0 .. n : g[k] = Onward(path, g, k)
    <3> SUFFICES ASSUME NEW k \in 0 .. n PROVE g[k] = Onward(path, g, k)
      OBVIOUS
    <3>1. n \in Nat
      BY <1>1
    <3>2. k # 0 => g[k - 1] = f[k - 1]
      BY <3>1
    <3>3. g[k] = IF k = n THEN Onward(path, f, n) ELSE f[k]
      OBVIOUS
    <3>. HIDE DEF g
    <3>4. Onward(path, g, k) = Onward(path, f, k)
      BY <3>2, Zenon DEF Onward
    <3>5. k # n => f[k] = Onward(path, f, k)
      <4>1. k # n => k \in 0 .. (n - 1)
        BY <3>1
      <4>2. \A i \in 0 .. (n - 1) : f[i] = Onward(path, f, i)
        BY <2>1, Zenon
      <4>. QED
        BY <4>1, <4>2
    <3>. QED
      BY <3>3, <3>4, <3>5
  <2>3. g = [k \in 0 .. n |-> g[k]]
    OBVIOUS
  <2>. HIDE DEF g
  <2>4. Walk(n, g)
    BY <2>2, <2>3, Zenon
  <2>. QED
    BY <1>1, <2>4
<1>. QED
  BY <1>1, <1>2, <1>3

\* A path's trail is what its components lead to, one after the other.
LEMMA TrailIs ==
    ASSUME NEW path \in Paths
    PROVE  \A k \in 0 .. Len(path) : Trail(path)[k] = Onward(path, Trail(path), k)
<1>. DEFINE at == Trail(path)
<1>1. Len(path) \in Nat
  BY TreeAssumption
<1>2. at = [k \in 0 .. Len(path) |-> Onward(path, at, k)]
  BY <1>1, TrailExists, Zenon DEF Trail, Onward
<1>. HIDE DEF at
<1>3. \A k \in 0 .. Len(path) : at[k] = Onward(path, at, k)
  BY <1>2, Zenon
<1>. QED
  BY <1>3 DEF at

\* A path that leads somewhere leads to the root or to an allocated directory.
LEMMA PathsLeadToDirectories ==
    ASSUME NEW path \in Paths, Resolve(path) # NotFound
    PROVE  Resolve(path) \in (allocated \cap Clusters) \cup {Root}
<1>. DEFINE at  == Trail(path)
            bad == {k \in 0 .. Len(path) : at[k] \notin (allocated \cap Clusters) \cup {Root, NotFound}}
<1>1. Len(path) \in Nat
  BY TreeAssumption
<1>3. \A k \in 0 .. Len(path) : at[k] = Onward(path, at, k)
  BY TrailIs
<1>. HIDE DEF at
<1>4. bad = {}
  <2> SUFFICES ASSUME bad # {} PROVE FALSE
    OBVIOUS
  <2>1. PICK k \in bad : \A j \in bad : k <= j
    <3>1. bad \subseteq Nat
      OBVIOUS
    <3>. HIDE DEF bad
    <3>. QED
      BY <3>1, LeastOfSome
  <2>2. k # 0
    BY <1>3, <2>1 DEF Onward
  <2>3. k - 1 \in 0 .. Len(path) /\ k - 1 \notin bad
    BY <1>1, <2>1, <2>2
  <2>4. at[k - 1] \in (allocated \cap Clusters) \cup {Root, NotFound}
    BY <2>3
  <2>5. at[k] = IF at[k - 1] = NotFound THEN NotFound ELSE Component(at[k - 1], path[k])
    BY <1>3, <2>1, <2>2 DEF Onward
  <2>. QED
    BY <2>1, <2>4, <2>5 DEF Component
<1>. QED
  BY <1>1, <1>4 DEF Resolve, at

\* What a directory that is allocated is read as has been prepared, and is
\* what the device has, as far as names go.
LEMMA ReadsWhole ==
    ASSUME Typed, call = Idle, NEW d \in (allocated \cap Clusters) \cup {Root}
    PROVE  /\ d \in Directories
           /\ Whole(Read(d))
           /\ OneTree => \A n \in Names : Read(d)[n] = tree[d][n]
<1>1. d \in Directories
  BY DEF Directories
<1>2. ~Unprepared(d)
  BY DEF Unprepared, Idle
<1>3. Whole(tree[d])
  BY <1>2 DEF Typed
<1>4. resident[d] # NotRead => Whole(resident[d])
  BY <1>1 DEF Typed
<1>5. Whole(Read(d))
  BY <1>3, <1>4, Zenon DEF Read
<1>6. OneTree => \A n \in Names : Read(d)[n] = tree[d][n]
  BY <1>1, Zenon DEF Read, OneTree, Shown
<1>. QED
  BY <1>1, <1>5, <1>6

\* What the entries of a directory that was prepared can be.
LEMMA WhatEntriesAre ==
    /\ \A n \in Names : n \in Entries /\ n # "." /\ n # ".." /\ Values(n) = Nodes \cup {None}
    /\ "." \in Entries /\ "." \notin Names /\ Values(".") = Clusters \cup {None}
    /\ ".." \in Entries /\ ".." \notin Names /\ Values("..") = Clusters \cup {Zero, None}
    /\ {None, Zero, "junk"} \cap Nodes = {}
    /\ \A d \in Directories : Link(d) \in Clusters \cup {Zero}
<1>1. Names \cap {".", ".."} = {}
  BY TreeAssumption
<1>2. \A n \in Names : n \in Entries /\ n # "." /\ n # ".."
  BY <1>1 DEF Entries
<1>3. "." \in Entries /\ "." \notin Names /\ ".." \in Entries /\ ".." \notin Names /\ ".." # "."
  BY <1>1 DEF Entries
<1>4. {None, Zero, "junk"} \cap Nodes = {}
  BY TreeAssumption DEF Nodes
<1>5. \A d \in Directories : Link(d) \in Clusters \cup {Zero}
  BY DEF Directories, Link
<1>. QED
  BY <1>2, <1>3, <1>4, <1>5 DEF Values

\* The names a directory that is allocated is read to have.
LEMMA NamesRead ==
    ASSUME Typed, call = Idle, NEW d \in (allocated \cap Clusters) \cup {Root}, NEW n \in Names
    PROVE  /\ d \in Directories
           /\ Read(d)[n] \in Nodes \cup {None}
           /\ OneTree => Read(d)[n] = tree[d][n]
<1>1. d \in Directories /\ Whole(Read(d)) /\ (OneTree => Read(d)[n] = tree[d][n])
  BY ReadsWhole
<1>2. n \in Entries /\ Values(n) = Nodes \cup {None}
  BY WhatEntriesAre
<1>. QED
  BY <1>1, <1>2 DEF Whole

\* In one tree a node named n in d is named nowhere else, when nothing is
\* being moved, and its `..` is d.
LEMMA OneName ==
    ASSUME OneTree, call.op # "rename", NEW d \in Directories, NEW n \in Names,
           tree[d][n] \in Nodes
    PROVE  /\ OnlyAt(tree[d][n], d, n)
           /\ Beneath(tree[d][n], d)
           /\ tree[d][n] \in allocated \cap onDevice
<1>1. OnlyAt(tree[d][n], d, n)
  BY DEF OneTree, Single, OnlyAt
<1>2. Beneath(tree[d][n], d)
  BY DEF OneTree, Parents
<1>3. tree[d][n] \in allocated \cap onDevice
  BY DEF OneTree, Named
<1>. QED
  BY <1>1, <1>2, <1>3

\* A call that starts makes what it reads resident, and allocates at most the
\* node it makes.
LEMMA Begin ==
    ASSUME NInv, call = Idle, NEW reads, reads \subseteq allocated \cup {Root},
           resident' = [d \in Directories |-> IF d \in reads THEN Read(d) ELSE resident[d]],
           allocated \subseteq allocated', allocated' \subseteq Nodes,
           \A c \in (allocated' \ allocated) \cap Clusters : Unprepared(c)',
           UNCHANGED <<onDevice, tree, troubles, doubled, staled>>
    PROVE  Typed' /\ (~doubled' => OneTree')
<1>1. Typed /\ call.op = "none"
  BY DEF NInv, Idle
<1>2. \A d \in Directories :
        /\ d \in reads => resident'[d] = Read(d) /\ d \in (allocated \cap Clusters) \cup {Root}
        /\ d \notin reads => resident'[d] = resident[d]
  <2>1. \A d \in Directories \cap (allocated \cup {Root}) : d \in (allocated \cap Clusters) \cup {Root}
    BY DEF Directories
  <2>. QED
    BY <2>1
<1>3. \A d \in Directories : resident'[d] # NotRead => Whole(resident'[d])
  BY <1>1, <1>2, ReadsWhole DEF Typed
<1>4. \A c \in allocated \cap Clusters : Whole(tree[c])
  BY <1>1 DEF Typed, Unprepared
<1>5. resident' = [d \in Directories |-> resident'[d]]
  OBVIOUS
<1>6. Typed'
  BY <1>1, <1>3, <1>4, <1>5, Zenon DEF Typed, Whole
<1>7. ASSUME ~doubled
      PROVE  OneTree'
  <2>1. OneTree
    BY <1>7 DEF NInv
  <2>2. Named'
    BY <2>1 DEF OneTree, Named
  <2>3. Single'
    BY <1>1, <2>1 DEF OneTree, Single
  <2>4. Parents'
    BY <1>1, <2>1 DEF OneTree, Parents, Beneath
  <2>5. Shown'
    BY <1>1, <1>2, <2>1, ReadsWhole DEF OneTree, Shown
  <2>6. FreeShowNothing'
    <3> SUFFICES ASSUME NEW c \in Clusters \ allocated' PROVE ShowsNothing(c)'
      BY DEF FreeShowNothing
    <3>1. c \in Directories /\ c \notin reads
      BY TreeAssumption DEF Directories
    <3>. QED
      BY <1>2, <2>1, <3>1 DEF OneTree, FreeShowNothing, ShowsNothing
  <2>. QED
    BY <2>2, <2>3, <2>4, <2>5, <2>6 DEF OneTree
<1>. QED
  BY <1>6, <1>7

-----------------------------------------------------------------------------
(***************************************************************************)
(* What the root leads to is the least set of directories with the root in *)
(* it and everything one of its directories names.                         *)
(***************************************************************************)

\* One round further of the walk that finds what the root leads to.
Wider(f, k) == IF k = 0 THEN {Root}
               ELSE f[k - 1] \cup {c \in Clusters : \E d \in f[k - 1], n \in Names : tree[d][n] = c}

\* The walk can be made round by round, however many there are.
LEMMA WalkExists ==
    ASSUME NEW N \in Nat
    PROVE  \E f : f = [k \in 0 .. N |-> Wider(f, k)]
<1>. DEFINE Walk(n, f) == f = [k \in 0 .. n |-> Wider(f, k)]
            bad        == {n \in Nat : ~\E f : Walk(n, f)}
<1>. SUFFICES ASSUME bad # {} PROVE FALSE
  OBVIOUS
<1>1. PICK n \in bad : \A m \in bad : n <= m
  <2>1. bad \subseteq Nat
    OBVIOUS
  <2>. HIDE DEF bad
  <2>. QED
    BY <2>1, LeastOfSome
<1>2. CASE n = 0
  <2>1. Walk(0, [k \in 0 .. 0 |-> {Root}])
    BY DEF Wider
  <2>. QED
    BY <1>1, <1>2, <2>1
<1>3. CASE n > 0
  <2>1. PICK f : Walk(n - 1, f)
    BY <1>1, <1>3
  <2>. DEFINE g == [k \in 0 .. n |-> IF k = n THEN Wider(f, n) ELSE f[k]]
  <2>2. \A k \in 0 .. n : g[k] = Wider(g, k)
    <3> SUFFICES ASSUME NEW k \in 0 .. n PROVE g[k] = Wider(g, k)
      OBVIOUS
    <3>1. n \in Nat
      BY <1>1
    <3>2. k # 0 => g[k - 1] = f[k - 1]
      BY <3>1
    <3>3. g[k] = IF k = n THEN Wider(f, n) ELSE f[k]
      OBVIOUS
    <3>. HIDE DEF g
    <3>4. Wider(g, k) = Wider(f, k)
      BY <3>2, Zenon DEF Wider
    <3>5. k # n => f[k] = Wider(f, k)
      <4>1. k # n => k \in 0 .. (n - 1)
        BY <3>1
      <4>2. \A i \in 0 .. (n - 1) : f[i] = Wider(f, i)
        BY <2>1, Zenon
      <4>. QED
        BY <4>1, <4>2
    <3>. QED
      BY <3>3, <3>4, <3>5
  <2>3. g = [k \in 0 .. n |-> g[k]]
    OBVIOUS
  <2>. HIDE DEF g
  <2>4. Walk(n, g)
    BY <2>2, <2>3, Zenon
  <2>. QED
    BY <1>1, <2>4
<1>. QED
  BY <1>1, <1>2, <1>3

\* The rounds of the walk.
Rounds == CHOOSE f : f = [k \in 0 .. Cardinality(Clusters) |-> Wider(f, k)]

\* What the rounds of the walk that Reached makes are.
LEMMA RoundsAre ==
    /\ Cardinality(Clusters) \in Nat
    /\ Reached = Rounds[Cardinality(Clusters)]
    /\ Rounds[0] = {Root}
    /\ \A k \in 1 .. Cardinality(Clusters) :
          Rounds[k] = Rounds[k - 1] \cup
                        {c \in Clusters : \E d \in Rounds[k - 1], n \in Names : tree[d][n] = c}
<1>1. Cardinality(Clusters) \in Nat
  BY FS_CardinalityType, TreeAssumption
<1>2. Reached = Rounds[Cardinality(Clusters)]
  BY Zenon DEF Reached, Wider, Rounds
<1>3. Rounds = [k \in 0 .. Cardinality(Clusters) |-> Wider(Rounds, k)]
  BY <1>1, WalkExists, Zenon DEF Rounds
<1>4. \A k \in 0 .. Cardinality(Clusters) : Rounds[k] = Wider(Rounds, k)
  BY <1>3, Zenon
<1>5. Rounds[0] = {Root}
  <2>1. 0 \in 0 .. Cardinality(Clusters)
    BY <1>1
  <2>. QED
    BY <1>4, <2>1, Zenon DEF Wider
<1>6. \A k \in 1 .. Cardinality(Clusters) : k \in 0 .. Cardinality(Clusters) /\ k # 0
  OBVIOUS
<1>. QED
  BY <1>1, <1>2, <1>4, <1>5, <1>6 DEF Wider

\* Whatever has the root in it and all that its directories name has what the
\* root leads to in it.
LEMMA ReachedIsLeast ==
    ASSUME NEW S, Root \in S,
           \A d \in S, n \in Names : tree[d][n] \in Clusters => tree[d][n] \in S
    PROVE  Reached \subseteq S
<1>. DEFINE N   == Cardinality(Clusters)
            bad == {k \in 0 .. N : ~(Rounds[k] \subseteq S)}
<1>1. N \in Nat /\ Reached = Rounds[N]
  BY RoundsAre
<1>2. bad = {}
  <2> SUFFICES ASSUME bad # {} PROVE FALSE
    OBVIOUS
  <2>1. PICK k \in bad : \A j \in bad : k <= j
    <3>1. bad \subseteq Nat
      BY <1>1
    <3>. HIDE DEF bad
    <3>. QED
      BY <3>1, LeastOfSome
  <2>2. k # 0
    BY <2>1, RoundsAre
  <2>3. k - 1 \in 0 .. N /\ k - 1 \notin bad /\ k \in 1 .. N
    BY <1>1, <2>1, <2>2
  <2>4. Rounds[k - 1] \subseteq S
    BY <2>3
  <2>5. Rounds[k] = Rounds[k - 1] \cup
                      {c \in Clusters : \E d \in Rounds[k - 1], n \in Names : tree[d][n] = c}
    BY <2>3, RoundsAre
  <2>. HIDE DEF N
  <2>. QED
    BY <2>1, <2>4, <2>5
<1>. QED
  BY <1>1, <1>2

\* What a round finds, the root apart, is named by what the one before found.
LEMMA FoundFromBefore ==
    \A k \in 1 .. Cardinality(Clusters) : \A u \in Rounds[k] \ {Root} :
        u \in Clusters /\ \E d \in Rounds[k - 1], n \in Names : tree[d][n] = u
<1>. DEFINE N       == Cardinality(Clusters)
            FromBefore(k) == \A u \in Rounds[k] \ {Root} :
                          u \in Clusters /\ \E d \in Rounds[k - 1], n \in Names : tree[d][n] = u
            bad     == {k \in 1 .. N : ~FromBefore(k)}
<1>1. N \in Nat
  BY RoundsAre
<1>2. bad = {}
  <2> SUFFICES ASSUME bad # {} PROVE FALSE
    OBVIOUS
  <2>1. PICK k \in bad : \A j \in bad : k <= j
    <3>1. bad \subseteq Nat
      BY <1>1
    <3>. HIDE DEF bad
    <3>. QED
      BY <3>1, LeastOfSome
  <2>2. k \in 1 .. N /\ ~FromBefore(k)
    BY <2>1
  <2>3. Rounds[k] = Rounds[k - 1] \cup
                      {c \in Clusters : \E d \in Rounds[k - 1], n \in Names : tree[d][n] = c}
    BY <2>2, RoundsAre
  <2>4. CASE k = 1
    <3>1. Rounds[k - 1] = {Root}
      BY <2>4, RoundsAre
    <3>. QED
      BY <2>2, <2>3, <3>1
  <2>5. CASE k # 1
    <3>1. k - 1 \in 1 .. N /\ k - 1 \notin bad
      BY <1>1, <2>1, <2>2, <2>5
    <3>2. FromBefore(k - 1)
      BY <3>1
    <3>3. Rounds[k - 1] = Rounds[k - 1 - 1] \cup
                      {c \in Clusters : \E d \in Rounds[k - 1 - 1], n \in Names : tree[d][n] = c}
      BY <3>1, RoundsAre
    <3>4. Rounds[k - 1 - 1] \subseteq Rounds[k - 1]
      BY <3>3
    <3>. QED
      BY <2>2, <2>3, <3>2, <3>4
  <2>. QED
    BY <2>4, <2>5
<1>. QED
  BY <1>2

\* A round that finds nothing new is the last to; before it, each finds one
\* directory or more, and there are not more of them than rounds.
LEMMA ReachedIsClosed ==
    /\ Root \in Reached
    /\ Reached \subseteq Directories
    /\ \A d \in Reached, n \in Names : tree[d][n] \in Clusters => tree[d][n] \in Reached
<1>. DEFINE N           == Cardinality(Clusters)
            Children(X) == {c \in Clusters : \E d \in X, n \in Names : tree[d][n] = c}
            Enough(k)   == \/ Children(Rounds[k]) \subseteq Rounds[k]
                           \/ Cardinality(Rounds[k]) >= k + 1
            Fits(k)     == Root \in Rounds[k] /\ Rounds[k] \subseteq Directories
            bad         == {k \in 0 .. N : ~(Fits(k) /\ Enough(k))}
<1>1. N \in Nat /\ Reached = Rounds[N] /\ Rounds[0] = {Root}
  BY RoundsAre
<1>2. IsFiniteSet(Directories) /\ Cardinality(Directories) = N + 1
  BY FS_AddElement, TreeAssumption DEF Directories
<1>3. bad = {}
  <2> SUFFICES ASSUME bad # {} PROVE FALSE
    OBVIOUS
  <2>1. PICK k \in bad : \A j \in bad : k <= j
    <3>1. bad \subseteq Nat
      BY <1>1
    <3>. HIDE DEF bad
    <3>. QED
      BY <3>1, LeastOfSome
  <2>2. k \in 0 .. N /\ ~(Fits(k) /\ Enough(k))
    BY <2>1
  <2>3. CASE k = 0
    <3>1. Fits(0)
      BY <1>1 DEF Directories
    <3>2. Cardinality(Rounds[0]) = 1
      BY <1>1, FS_Singleton
    <3>3. Enough(0)
      BY <3>2
    <3>. QED
      BY <2>2, <2>3, <3>1, <3>3
  <2>4. CASE k # 0
    <3>1. k - 1 \in 0 .. N /\ k - 1 \notin bad /\ k \in 1 .. N
      BY <1>1, <2>1, <2>2, <2>4
    <3>2. Fits(k - 1) /\ Enough(k - 1)
      BY <3>1
    <3>3. Rounds[k] = Rounds[k - 1] \cup Children(Rounds[k - 1])
      BY <3>1, RoundsAre
    <3>4. Fits(k)
      BY <3>2, <3>3 DEF Directories
    <3>5. CASE Children(Rounds[k - 1]) \subseteq Rounds[k - 1]
      <4>1. Rounds[k] = Rounds[k - 1]
        BY <3>3, <3>5
      <4>. QED
        BY <2>2, <3>4, <3>5, <4>1
    <3>6. CASE ~(Children(Rounds[k - 1]) \subseteq Rounds[k - 1])
      <4>1. Rounds[k - 1] \subseteq Rounds[k] /\ Rounds[k - 1] # Rounds[k]
        BY <3>3, <3>6
      <4>2. IsFiniteSet(Rounds[k])
        BY <1>2, <3>4, FS_Subset
      <4>3. Cardinality(Rounds[k - 1]) < Cardinality(Rounds[k])
        <5>1. /\ Cardinality(Rounds[k - 1]) <= Cardinality(Rounds[k])
              /\ Cardinality(Rounds[k - 1]) # Cardinality(Rounds[k])
              /\ IsFiniteSet(Rounds[k - 1])
          BY <4>1, <4>2, FS_Subset
        <5>2. Cardinality(Rounds[k - 1]) \in Nat /\ Cardinality(Rounds[k]) \in Nat
          BY <4>2, <5>1, FS_CardinalityType
        <5>. QED
          BY <5>1, <5>2
      <4>4. /\ Cardinality(Rounds[k]) \in Nat /\ Cardinality(Rounds[k - 1]) \in Nat
            /\ Cardinality(Rounds[k - 1]) >= (k - 1) + 1
        BY <3>2, <3>6, <4>1, <4>2, FS_Subset, FS_CardinalityType
      <4>5. Cardinality(Rounds[k]) >= k + 1
        BY <3>1, <4>3, <4>4
      <4>. QED
        BY <2>2, <3>4, <4>5
    <3>. QED
      BY <3>5, <3>6
  <2>. QED
    BY <2>3, <2>4
<1>4. Fits(N) /\ Enough(N)
  BY <1>1, <1>3
<1>5. Children(Rounds[N]) \subseteq Rounds[N]
  <2>1. CASE Cardinality(Rounds[N]) >= N + 1
    <3>1. Rounds[N] = Directories
      <4>1. /\ Cardinality(Rounds[N]) \in Nat
            /\ Rounds[N] # Directories => Cardinality(Rounds[N]) < Cardinality(Directories)
        BY <1>2, <1>4, FS_Subset, FS_CardinalityType
      <4>. QED
        BY <1>1, <1>2, <2>1, <4>1
    <3>. QED
      BY <3>1 DEF Directories
  <2>. QED
    BY <1>4, <2>1
<1>. QED
  BY <1>1, <1>4, <1>5

\* What the root leads to is allocated on the device.
LEMMA ReachedIsAllocated ==
    ASSUME Named
    PROVE  Reached \subseteq {Root} \cup (onDevice \cap Clusters)
<1>. DEFINE S == {Root} \cup (onDevice \cap Clusters)
<1>1. \A d \in S, n \in Names : tree[d][n] \in Clusters => tree[d][n] \in S
  BY DEF Named, Directories, Nodes
<1>. HIDE DEF S
<1>2. Root \in S
  BY DEF S
<1>3. Reached \subseteq S
  BY <1>1, <1>2, ReachedIsLeast
<1>. QED
  BY <1>3 DEF S

\* In one tree, `..` of what a round finds is what named it in the one before.
LEMMA ParentFoundBefore ==
    ASSUME OneTree, call.op # "rename", NEW k \in 1 .. Cardinality(Clusters),
           NEW u \in Rounds[k], u # Root
    PROVE  /\ u \in Clusters
           /\ \E p \in Rounds[k - 1] \cap Directories, n \in Names :
                 tree[p][n] = u /\ tree[u][".."] = Link(p)
<1>1. PICK p \in Rounds[k - 1], n \in Names : tree[p][n] = u
  BY FoundFromBefore
<1>2. u \in Clusters
  BY FoundFromBefore
<1>3. p \in Directories
  <2>1. CASE k = 1
    BY <1>1, <2>1, RoundsAre DEF Directories
  <2>2. CASE k # 1
    <3>1. k - 1 \in 1 .. Cardinality(Clusters)
      BY <2>2, RoundsAre
    <3>. QED
      BY <1>1, <3>1, FoundFromBefore DEF Directories
  <2>. QED
    BY <2>1, <2>2
<1>4. tree[u][".."] = Link(p)
  BY <1>1, <1>2, <1>3 DEF OneTree, Parents, Beneath
<1>. QED
  BY <1>1, <1>2, <1>3, <1>4

\* The directory a reached one's `..` names is reached.
LEMMA ParentReached ==
    ASSUME OneTree, call.op # "rename", NEW u \in Reached, u # Root
    PROVE  \E p \in Reached : p \in Directories /\ tree[u][".."] = Link(p)
<1>. DEFINE N == Cardinality(Clusters)
<1>1. N \in Nat /\ Reached = Rounds[N] /\ N # 0
  BY RoundsAre
<1>2. N \in 1 .. N
  BY <1>1
<1>3. PICK p \in Rounds[N - 1] \cap Directories : tree[u][".."] = Link(p)
  BY <1>1, <1>2, ParentFoundBefore
<1>4. p \in Reached
  BY <1>1, <1>2, <1>3, RoundsAre
<1>. QED
  BY <1>3, <1>4

\* While what is resident is what the device has, a path leads to what the
\* root leads to.
LEMMA ComponentsStayReached ==
    ASSUME Typed, OneTree, ResidentAgrees, ~staled, call = Idle, NEW d \in Reached,
           NEW e \in Names \cup {".", ".."}
    PROVE  Component(d, e) \in Reached \cup {NotFound}
<1>1. call.op # "rename" /\ d \in Directories /\ Read(d) = tree[d]
  BY ReachedIsClosed DEF Idle, Read, ResidentAgrees
<1>2. Zero \notin Clusters /\ None \notin Clusters /\ None # Zero
  BY TreeAssumption DEF None, Zero
<1>3. CASE e = "."
  BY <1>3 DEF Component
<1>4. CASE e \in Names /\ e # "."
  BY <1>1, <1>4, ReachedIsClosed DEF Component
<1>5. CASE e = ".." /\ d = Root
  <2>1. Read(d)[e] = None
    BY <1>1, <1>5 DEF Typed
  <2>. QED
    BY <1>2, <1>5, <2>1, ReachedIsClosed DEF Component
<1>6. CASE e = ".." /\ d # Root
  <2>1. PICK p \in Reached : p \in Directories /\ Read(d)[e] = Link(p)
    BY <1>1, <1>6, ParentReached
  <2>2. (IF Read(d)[e] = Zero THEN Root ELSE Read(d)[e]) = p
    BY <1>2, <2>1 DEF Link, Directories
  <2>. QED
    BY <1>6, <2>1, <2>2 DEF Component
<1>. QED
  BY <1>3, <1>4, <1>5, <1>6

\* What a path leads to, a walk down from the root finds.
LEMMA PathsStayReached ==
    ASSUME Typed, OneTree, ResidentAgrees, ~staled, call = Idle,
           NEW path \in Paths, Resolve(path) # NotFound
    PROVE  Resolve(path) \in Reached
<1>. DEFINE at  == Trail(path)
            bad == {k \in 0 .. Len(path) : at[k] \notin Reached \cup {NotFound}}
<1>1. Len(path) \in Nat /\ \A k \in 1 .. Len(path) : path[k] \in Names \cup {".", ".."}
  BY TreeAssumption
<1>2. \A k \in 0 .. Len(path) : at[k] = Onward(path, at, k)
  BY TrailIs
<1>. HIDE DEF at
<1>3. bad = {}
  <2> SUFFICES ASSUME bad # {} PROVE FALSE
    OBVIOUS
  <2>1. PICK k \in bad : \A j \in bad : k <= j
    <3>1. bad \subseteq Nat
      OBVIOUS
    <3>. HIDE DEF bad
    <3>. QED
      BY <3>1, LeastOfSome
  <2>2. k # 0
    BY <1>2, <2>1, ReachedIsClosed DEF Onward
  <2>3. k - 1 \in 0 .. Len(path) /\ k - 1 \notin bad /\ k \in 1 .. Len(path)
    BY <1>1, <2>1, <2>2
  <2>4. at[k - 1] \in Reached \cup {NotFound}
    BY <2>3
  <2>5. at[k] = IF at[k - 1] = NotFound THEN NotFound ELSE Component(at[k - 1], path[k])
    BY <1>2, <2>1, <2>2 DEF Onward
  <2>6. at[k - 1] \in Reached => Component(at[k - 1], path[k]) \in Reached \cup {NotFound}
    BY <1>1, <2>3, ComponentsStayReached
  <2>. QED
    BY <2>1, <2>4, <2>5, <2>6
<1>. QED
  BY <1>1, <1>3 DEF Resolve, at

\* One `..` further up.
Upward(d, f, k) == IF k = 0 THEN d
                   ELSE IF f[k - 1] = Root THEN Root
                   ELSE Place(Read(f[k - 1])[".."])

\* The climb that is_within makes by `..` is a function.
LEMMA ClimbExists ==
    ASSUME NEW d, NEW N \in Nat
    PROVE  \E f : f = [k \in 0 .. N |-> Upward(d, f, k)]
<1>. DEFINE Walk(n, f) == f = [k \in 0 .. n |-> Upward(d, f, k)]
            bad        == {n \in Nat : ~\E f : Walk(n, f)}
<1>. SUFFICES ASSUME bad # {} PROVE FALSE
  OBVIOUS
<1>1. PICK n \in bad : \A m \in bad : n <= m
  <2>1. bad \subseteq Nat
    OBVIOUS
  <2>. HIDE DEF bad
  <2>. QED
    BY <2>1, LeastOfSome
<1>2. CASE n = 0
  <2>1. Walk(0, [k \in 0 .. 0 |-> d])
    BY DEF Upward
  <2>. QED
    BY <1>1, <1>2, <2>1
<1>3. CASE n > 0
  <2>1. PICK f : Walk(n - 1, f)
    BY <1>1, <1>3
  <2>. DEFINE g == [k \in 0 .. n |-> IF k = n THEN Upward(d, f, n) ELSE f[k]]
  <2>2. \A k \in 0 .. n : g[k] = Upward(d, g, k)
    <3> SUFFICES ASSUME NEW k \in 0 .. n PROVE g[k] = Upward(d, g, k)
      OBVIOUS
    <3>1. n \in Nat
      BY <1>1
    <3>2. k # 0 => g[k - 1] = f[k - 1]
      BY <3>1
    <3>3. g[k] = IF k = n THEN Upward(d, f, n) ELSE f[k]
      OBVIOUS
    <3>. HIDE DEF g
    <3>4. Upward(d, g, k) = Upward(d, f, k)
      BY <3>2, Zenon DEF Upward
    <3>5. k # n => f[k] = Upward(d, f, k)
      <4>1. k # n => k \in 0 .. (n - 1)
        BY <3>1
      <4>2. \A i \in 0 .. (n - 1) : f[i] = Upward(d, f, i)
        BY <2>1, Zenon
      <4>. QED
        BY <4>1, <4>2
    <3>. QED
      BY <3>3, <3>4, <3>5
  <2>3. g = [k \in 0 .. n |-> g[k]]
    OBVIOUS
  <2>. HIDE DEF g
  <2>4. Walk(n, g)
    BY <2>2, <2>3, Zenon
  <2>. QED
    BY <1>1, <2>4
<1>. QED
  BY <1>1, <1>2, <1>3

\* is_within decides: where `..` does not lead up to x, the root leads down
\* by other directories.
LEMMA NotWithin ==
    ASSUME Typed, OneTree, ResidentAgrees, ~staled, call = Idle,
           NEW e \in Reached, NEW x, ~IsWithin(e, x)
    PROVE  Apart(x, e)
<1>. DEFINE N  == Cardinality(Clusters)
            up == CHOOSE f : f = [k \in 0 .. N |-> Upward(e, f, k)]
<1>1. N \in Nat /\ Reached = Rounds[N]
  BY RoundsAre
<1>2. up = [k \in 0 .. N |-> Upward(e, up, k)]
  <2>. HIDE DEF N
  <2>. QED
    BY <1>1, ClimbExists, Zenon
<1>3. \A k \in DOMAIN up : up[k] # x
  BY Zenon DEF IsWithin, Upward
<1>4. \A k \in 0 .. N : up[k] = Upward(e, up, k) /\ up[k] # x
  <2>. HIDE DEF up, N
  <2>1. DOMAIN up = 0 .. N
    BY <1>2
  <2>. QED
    BY <1>2, <1>3, <2>1, Zenon
<1>. HIDE DEF up
<1>5. call.op # "rename" /\ \A d \in Directories : Read(d) = tree[d]
  BY DEF Idle, Read, ResidentAgrees
<1>6. up[0] = e /\ e # x
  BY <1>1, <1>4 DEF Upward
<1>7. ASSUME NEW S \in SUBSET Directories, ClosedBut(x, S), e \notin S
      PROVE  FALSE
  <2>. DEFINE bad == {k \in 0 .. N : up[k] \notin Rounds[N - k] \/ up[k] \in S}
  <2>1. Root \in S
    BY <1>7 DEF ClosedBut
  <2>2. bad = {}
    <3> SUFFICES ASSUME bad # {} PROVE FALSE
      OBVIOUS
    <3>1. PICK k \in bad : \A j \in bad : k <= j
      <4>1. bad \subseteq Nat
        OBVIOUS
      <4>. HIDE DEF bad
      <4>. QED
        BY <4>1, LeastOfSome
    <3>2. k # 0
      BY <1>1, <1>6, <1>7, <3>1
    <3>3. k - 1 \in 0 .. N /\ k - 1 \notin bad /\ N - (k - 1) \in 1 .. N /\ k \in 0 .. N
      BY <1>1, <3>1, <3>2
    <3>4. PICK u : u = up[k - 1]
      OBVIOUS
    <3>5. u \in Rounds[N - (k - 1)] /\ u \notin S /\ u # Root
      BY <2>1, <3>3, <3>4
    <3>6. PICK p \in Rounds[N - (k - 1) - 1] \cap Directories, n \in Names :
             u \in Clusters /\ tree[p][n] = u /\ tree[u][".."] = Link(p)
      BY <1>5, <3>3, <3>5, ParentFoundBefore
    <3>7. up[k] = p
      <4>1. up[k] = Place(Read(u)[".."])
        BY <1>4, <3>2, <3>3, <3>4, <3>5 DEF Upward
      <4>2. Read(u)[".."] = Link(p)
        BY <1>5, <3>6 DEF Directories
      <4>3. Place(Link(p)) = p
        BY <3>6, TreeAssumption DEF Place, Link, Directories
      <4>. QED
        BY <4>1, <4>2, <4>3
    <3>8. p # x
      BY <1>4, <3>3, <3>7
    <3>9. p \notin S
      BY <1>7, <3>5, <3>6, <3>8 DEF ClosedBut
    <3>10. N - (k - 1) - 1 = N - k
      BY <1>1, <3>3
    <3>. QED
      BY <3>1, <3>6, <3>7, <3>9, <3>10
  <2>3. up[N] \in Rounds[N - N] /\ up[N] \notin S
    BY <1>1, <2>2
  <2>4. N - N = 0
    BY <1>1
  <2>. QED
    BY <2>1, <2>3, <2>4, RoundsAre
<1>. QED
  BY <1>6, <1>7 DEF Apart

-----------------------------------------------------------------------------
(***************************************************************************)
(* Calls start with a plan.                                                *)
(***************************************************************************)

LEMMA NOpenDirStep ==
    ASSUME NInv, NEW path, OpenDir(path)
    PROVE  NInv'
<1>1. /\ call = Idle
      /\ resident' = [d \in Directories |-> IF d \in Visited(path) THEN Read(d) ELSE resident[d]]
      /\ UNCHANGED <<allocated, call, todo, onDevice, tree, troubles, doubled, staled>>
  BY DEF OpenDir
<1>2. Typed' /\ (~doubled' => OneTree')
  <2>1. allocated' \subseteq Nodes
    BY <1>1 DEF NInv, Typed
  <2>. QED
    BY <1>1, <2>1, VisitedAllocated, Begin
<1>3. Planned'
  <2>1. call = Idle /\ todo = <<>>
    <3>1. call.op = "none"
      BY <1>1 DEF Idle
    <3>. QED
      BY <1>1, <3>1 DEF NInv, Planned, Creating, Removing, Moving, Replacing
  <2>. QED
    BY <1>1, <2>1 DEF Planned
<1>. QED
  BY <1>2, <1>3 DEF NInv

LEMMA NCreateStep ==
    ASSUME NInv, NEW path \in Paths, NEW n \in Names, Create(path, n)
    PROVE  NInv'
<1>0. PICK d : d = Resolve(path)
  OBVIOUS
<1>1. PICK f \in Files \ allocated :
        /\ call = Idle /\ d # NotFound /\ Read(d)[n] = None
        /\ allocated' = allocated \cup {f}
        /\ Start("create", f, Visited(path), <<Flush({}), Put(d, n, f)>>)
  BY <1>0 DEF Create
<1>2. /\ call' = [op |-> "create", node |-> f]
      /\ todo' = <<Flush({}), Put(d, n, f)>>
      /\ resident' = [e \in Directories |-> IF e \in Visited(path) THEN Read(e) ELSE resident[e]]
      /\ UNCHANGED <<onDevice, tree, troubles, doubled, staled>>
  BY <1>1 DEF Start
<1>3. d \in Directories
  BY <1>0, <1>1, PathsLeadToDirectories DEF Directories
<1>4. f \in Nodes /\ f \notin Clusters /\ f # d
  BY <1>3, TreeAssumption DEF Nodes, Directories
<1>5. Typed' /\ (~doubled' => OneTree')
  <2>1. allocated \subseteq allocated' /\ allocated' \subseteq Nodes
    BY <1>1, <1>4 DEF NInv, Typed
  <2>2. (allocated' \ allocated) \cap Clusters = {}
    BY <1>1, <1>4
  <2>. QED
    BY <1>1, <1>2, <2>1, <2>2, VisitedAllocated, Begin
<1>6. ~doubled' => Unnamed(f)' /\ Vacant(d, n)'
  <2>1. ~doubled => tree[d][n] = None
    BY <1>0, <1>1, PathsLeadToDirectories, NamesRead DEF NInv
  <2>. QED
    BY <1>1, <1>2, <1>4, <2>1 DEF NInv, OneTree, Named, Unnamed, Vacant
<1>7. Creating(f, d, n)'
  <2>1. call'.op = "create" /\ f \in allocated' /\ ShowsNothing(f)'
    BY <1>1, <1>2, <1>4 DEF ShowsNothing
  <2>2. f \in Clusters => Whole(tree'[f])
    BY <1>4
  <2>3. Beneath(f, d)'
    BY <1>4 DEF Beneath
  <2>. QED
    BY <1>1, <1>2, <1>4, <1>6, <2>1, <2>2, <2>3, Zenon DEF Creating
<1>8. Planned'
  <2>1. call'.node = f
    BY <1>2
  <2>. QED
    BY <1>3, <1>7, <2>1 DEF Planned
<1>. QED
  BY <1>5, <1>8 DEF NInv

LEMMA NCreateDirStep ==
    ASSUME NInv, NEW path \in Paths, NEW n \in Names, CreateDir(path, n)
    PROVE  NInv'
<1>0. PICK d : d = Resolve(path)
  OBVIOUS
<1>1. PICK c \in Clusters \ allocated :
        /\ call = Idle /\ d # NotFound /\ Read(d)[n] = None
        /\ allocated' = allocated \cup {c}
        /\ Start("create_dir", c, Visited(path), <<Prepare(c, d), Flush({}), Put(d, n, c)>>)
  BY <1>0 DEF CreateDir
<1>2. /\ call' = [op |-> "create_dir", node |-> c]
      /\ todo' = <<Prepare(c, d), Flush({}), Put(d, n, c)>>
      /\ resident' = [e \in Directories |-> IF e \in Visited(path) THEN Read(e) ELSE resident[e]]
      /\ UNCHANGED <<onDevice, tree, troubles, doubled, staled>>
  BY <1>1 DEF Start
<1>3. d \in (allocated \cap Clusters) \cup {Root}
  BY <1>0, <1>1, PathsLeadToDirectories
<1>4. c \in Nodes /\ c # d /\ d \in Directories /\ c # Root
  BY <1>1, <1>3, TreeAssumption DEF Nodes, Directories
<1>5. Typed' /\ (~doubled' => OneTree')
  <2>1. allocated \subseteq allocated' /\ allocated' \subseteq Nodes
    BY <1>1, <1>4 DEF NInv, Typed
  <2>2. Unprepared(c)'
    BY <1>2 DEF Unprepared
  <2>3. \A x \in (allocated' \ allocated) \cap Clusters : x = c
    BY <1>1
  <2>. QED
    BY <1>1, <1>2, <2>1, <2>2, <2>3, VisitedAllocated, Begin
<1>6. ~doubled' => Unnamed(c)' /\ ShowsNothing(c)' /\ Vacant(d, n)'
  <2>1. c \notin Visited(path) /\ c \in Directories
    BY <1>4, VisitedAllocated DEF Directories
  <2>2. resident'[c] = resident[c]
    BY <1>2, <2>1
  <2>3. ~doubled => tree[d][n] = None
    BY <1>1, <1>3, NamesRead DEF NInv
  <2>. QED
    BY <1>1, <1>2, <1>4, <2>2, <2>3
    DEF NInv, OneTree, Named, Unnamed, FreeShowNothing, ShowsNothing, Vacant
<1>7. Creating(c, d, n)'
  <2>1. call'.op = "create_dir" /\ c \in allocated'
    BY <1>1, <1>2
  <2>. QED
    BY <1>1, <1>2, <1>4, <1>6, <2>1, Zenon DEF Creating
<1>8. Planned'
  <2>1. call'.node = c
    BY <1>2
  <2>. QED
    BY <1>4, <1>7, <2>1 DEF Planned
<1>. QED
  BY <1>5, <1>8 DEF NInv

\* What a removal starts with: the node it removes has the one name it is
\* removed by.
LEMMA NRemoveStep ==
    ASSUME NInv, NEW path \in Paths, NEW n \in Names, Remove(path, n)
    PROVE  NInv'
<1>0. PICK d, x : d = Resolve(path) /\ x = Read(d)[n]
  OBVIOUS
<1>1. /\ call = Idle /\ d # NotFound /\ x \in Files
      /\ Start("remove", x, Visited(path), <<Put(d, n, None), Flush({x})>>)
      /\ UNCHANGED allocated
  BY <1>0 DEF Remove
<1>2. /\ call' = [op |-> "remove", node |-> x]
      /\ todo' = <<Put(d, n, None), Flush({x})>>
      /\ resident' = [e \in Directories |-> IF e \in Visited(path) THEN Read(e) ELSE resident[e]]
      /\ UNCHANGED <<onDevice, tree, troubles, doubled, staled>>
  BY <1>1 DEF Start
<1>3. d \in (allocated \cap Clusters) \cup {Root}
  BY <1>0, <1>1, PathsLeadToDirectories
<1>4. d \in Directories /\ (~doubled => x = tree[d][n])
  BY <1>0, <1>1, <1>3, NamesRead DEF NInv
<1>5. x \in Nodes /\ x \notin Clusters /\ x # d
  BY <1>1, <1>4, TreeAssumption DEF Nodes, Directories
<1>6. Typed' /\ (~doubled' => OneTree')
  <2>1. allocated' = allocated /\ allocated' \subseteq Nodes
    BY <1>1 DEF NInv, Typed
  <2>. QED
    BY <1>1, <1>2, <2>1, VisitedAllocated, Begin
<1>7. ~doubled => OnlyAt(x, d, n)
  <2>1. call.op # "rename"
    BY <1>1 DEF Idle
  <2>. QED
    BY <1>4, <1>5, <2>1, OneName DEF NInv
<1>8. Removing(x, d, n)'
  <2>1. call'.op = "remove" /\ ShowsNothing(x)'
    BY <1>2, <1>5 DEF ShowsNothing
  <2>2. ~doubled' => OnlyAt(x, d, n)'
    BY <1>2, <1>7 DEF OnlyAt
  <2>. QED
    BY <1>2, <1>5, <2>1, <2>2, Zenon DEF Removing
<1>9. Planned'
  <2>1. call'.node = x
    BY <1>2
  <2>. QED
    BY <1>4, <1>8, <2>1 DEF Planned
<1>. QED
  BY <1>6, <1>9 DEF NInv

LEMMA NRemoveDirStep ==
    ASSUME NInv, NEW path \in Paths, NEW n \in Names, RemoveDir(path, n)
    PROVE  NInv'
<1>0. PICK d, x, reads :
        d = Resolve(path) /\ x = Read(d)[n] /\ reads = Visited(path) \cup {x}
  OBVIOUS
<1>1. /\ call = Idle /\ d # NotFound /\ x \in allocated \cap Clusters /\ Empty(Read(x))
      /\ Start("remove_dir", x, reads, <<Put(d, n, None), Flush({x})>>)
      /\ UNCHANGED allocated
  BY <1>0 DEF RemoveDir
<1>2. /\ call' = [op |-> "remove_dir", node |-> x]
      /\ todo' = <<Put(d, n, None), Flush({x})>>
      /\ resident' = [e \in Directories |-> IF e \in reads THEN Read(e) ELSE resident[e]]
      /\ UNCHANGED <<onDevice, tree, troubles, doubled, staled>>
  BY <1>1 DEF Start
<1>3. d \in (allocated \cap Clusters) \cup {Root}
  BY <1>0, <1>1, PathsLeadToDirectories
<1>4. d \in Directories /\ (~doubled => x = tree[d][n])
  BY <1>0, <1>1, <1>3, NamesRead DEF NInv
<1>5. x \in Nodes /\ x \in Directories /\ x # d
  <2>1. x # None
    BY <1>1, TreeAssumption
  <2>. QED
    BY <1>0, <1>1, <2>1 DEF Nodes, Directories, Empty
<1>6. reads \subseteq allocated \cup {Root} /\ x \in reads
  BY <1>0, <1>1, VisitedAllocated
<1>7. Typed' /\ (~doubled' => OneTree')
  <2>1. allocated' = allocated /\ allocated' \subseteq Nodes
    BY <1>1 DEF NInv, Typed
  <2>. QED
    BY <1>1, <1>2, <1>6, <2>1, Begin
<1>8. ~doubled => OnlyAt(x, d, n)
  <2>1. call.op # "rename"
    BY <1>1 DEF Idle
  <2>. QED
    BY <1>4, <1>5, <2>1, OneName DEF NInv
<1>9. Removing(x, d, n)'
  <2>1. call'.op = "remove_dir"
    BY <1>2
  <2>2. resident'[x] = Read(x)
    BY <1>2, <1>5, <1>6
  <2>3. ShowsNothing(x)'
    BY <1>1, <2>2 DEF ShowsNothing, Empty
  <2>4. ~doubled' => OnlyAt(x, d, n)' /\ Empty(tree'[x])
    <3>1. ~doubled => Empty(tree[x])
      BY <1>1, ReadsWhole DEF NInv, Empty
    <3>. QED
      BY <1>2, <1>8, <3>1 DEF OnlyAt
  <2>. QED
    BY <1>2, <1>5, <2>1, <2>3, <2>4, Zenon DEF Removing
<1>10. Planned'
  <2>1. call'.node = x
    BY <1>2
  <2>. QED
    BY <1>4, <1>9, <2>1 DEF Planned
<1>. QED
  BY <1>7, <1>10 DEF NInv

\* Sequences with the same elements are the same.
LEMMA SameElements ==
    ASSUME NEW W, NEW s \in Seq(W), NEW t \in Seq(W), Len(s) = Len(t),
           \A i \in 1 .. Len(s) : s[i] = t[i]
    PROVE  s = t
<1>1. s = [i \in 1 .. Len(s) |-> s[i]] /\ t = [i \in 1 .. Len(t) |-> t[i]]
  OBVIOUS
<1>. QED
  BY <1>1

\* The writes of a move, with and without one of `..` among them.
LEMMA Concatenated ==
    ASSUME NEW a, NEW b, NEW c, NEW e
    PROVE  /\ <<a, b>> \o <<>> \o <<c>> = <<a, b, c>>
           /\ <<a, b>> \o <<c>> \o <<e>> = <<a, b, c, e>>
<1>1. <<a, b>> \o <<>> = <<a, b>>
  OBVIOUS
<1>. DEFINE W == {a, b, c, e}
<1>2. <<a, b>> \o <<c>> = <<a, b, c>>
  <2>. DEFINE s == <<a, b>> \o <<c>>
              t == <<a, b, c>>
  <2>1. /\ s \in Seq(W) /\ t \in Seq(W) /\ Len(s) = 3 /\ Len(t) = 3
        /\ s[1] = a /\ s[2] = b /\ s[3] = c
        /\ t[1] = a /\ t[2] = b /\ t[3] = c
    OBVIOUS
  <2>. HIDE DEF W, s, t
  <2>2. \A i \in 1 .. Len(s) : s[i] = t[i]
    BY <2>1
  <2>3. s = t
    BY <2>1, <2>2, SameElements
  <2>. QED
    BY <2>3 DEF s, t
<1>3. <<a, b, c>> \o <<e>> = <<a, b, c, e>>
  <2>. DEFINE s == <<a, b, c>> \o <<e>>
              t == <<a, b, c, e>>
  <2>1. /\ s \in Seq(W) /\ t \in Seq(W) /\ Len(s) = 4 /\ Len(t) = 4
        /\ s[1] = a /\ s[2] = b /\ s[3] = c /\ s[4] = e
        /\ t[1] = a /\ t[2] = b /\ t[3] = c /\ t[4] = e
    OBVIOUS
  <2>. HIDE DEF W, s, t
  <2>2. \A i \in 1 .. Len(s) : s[i] = t[i]
    BY <2>1
  <2>3. s = t
    BY <2>1, <2>2, SameElements
  <2>. QED
    BY <2>3 DEF s, t
<1>. QED
  BY <1>1, <1>2, <1>3, Zenon

\* A rename plans its writes for what it has read.
LEMMA NRenameStep ==
    ASSUME NInv, RInv, NEW from \in Paths, NEW n \in Names, NEW to \in Paths, NEW m \in Names,
           Rename(from, n, to, m)
    PROVE  NInv'
<1>1. PICK d, e, x, y, reads :
        /\ d = Resolve(from) /\ e = Resolve(to) /\ x = Read(d)[n] /\ y = Read(e)[m]
        /\ reads = Visited(from) \cup Visited(to)
  OBVIOUS
<1>2. /\ call = Idle /\ d # NotFound /\ e # NotFound
      /\ x # None /\ <<d, n>> # <<e, m>>
      /\ \/ ReplaceFile(d, n, e, m)
         \/ d = e /\ RenameHere(d, n, m)
         \/ d # e /\ MoveToNewName(d, n, e, m)
      /\ call' = [op |-> "rename", node |-> x]
      /\ resident' = [f \in Directories |-> IF f \in reads THEN Read(f) ELSE resident[f]]
      /\ UNCHANGED <<allocated, onDevice, tree, troubles, doubled, staled>>
  BY <1>1 DEF Rename
<1>3. d \in (allocated \cap Clusters) \cup {Root} /\ e \in (allocated \cap Clusters) \cup {Root}
  BY <1>1, <1>2, PathsLeadToDirectories
<1>4. /\ d \in Directories /\ e \in Directories
      /\ x \in Nodes /\ y \in Nodes \cup {None}
      /\ ~doubled => x = tree[d][n] /\ y = tree[e][m]
  BY <1>1, <1>2, <1>3, NamesRead DEF NInv
<1>5. Typed' /\ (~doubled' => OneTree')
  <2>1. allocated' = allocated /\ allocated' \subseteq Nodes
    BY <1>2 DEF NInv, Typed
  <2>2. reads \subseteq allocated \cup {Root}
    BY <1>1, VisitedAllocated
  <2>. QED
    BY <1>2, <2>1, <2>2, Begin
<1>6. call.op # "rename" /\ call'.op = "rename" /\ call'.node = x
  BY <1>2 DEF Idle
<1>7. ~doubled => OnlyAt(x, d, n) /\ Beneath(x, d)
  BY <1>4, <1>6, OneName DEF NInv
<1>8. ~doubled' => OnlyAt(x, d, n)' /\ Beneath(x, d)'
  BY <1>2, <1>7 DEF OnlyAt, Beneath
<1>9. ASSUME Read(e)[m] = None PROVE ~doubled' => Vacant(e, m)'
  BY <1>1, <1>2, <1>4, <1>9 DEF Vacant
<1>10. CASE ReplaceFile(d, n, e, m)
  <2>1. /\ x \in Files /\ y \in Files
        /\ todo' = <<Put(d, n, None), Put(e, m, x), Flush({y})>>
    BY <1>1, <1>10 DEF ReplaceFile
  <2>2. ~doubled => OnlyAt(y, e, m) /\ x # y
    <3>1. y \in Nodes
      BY <2>1 DEF Nodes
    <3>2. ~doubled => OnlyAt(y, e, m)
      BY <1>4, <1>6, <3>1, OneName DEF NInv
    <3>3. ~doubled => x # y
      BY <1>2, <1>4, <1>7 DEF OnlyAt
    <3>. QED
      BY <3>2, <3>3
  <2>3. ~doubled' => OnlyAt(y, e, m)' /\ x # y
    BY <1>2, <2>2 DEF OnlyAt
  <2>4. Replacing(x, d, n, y, e, m)'
    BY <1>6, <1>8, <2>1, <2>3, Zenon DEF Replacing
  <2>. QED
    BY <1>4, <1>5, <1>6, <2>1, <2>4 DEF NInv, Planned
<1>11. Moving(x, d, n, e, m)' => NInv'
  BY <1>4, <1>5, <1>6 DEF NInv, Planned
<1>12. CASE d = e /\ RenameHere(d, n, m)
  <2>1. \/ todo' = <<PutAll(d, [l \in {n, m} |-> IF l = n THEN None ELSE x])>>
        \/ todo' = <<Flush({}), Put(e, m, x), Put(d, n, None)>>
    BY <1>1, <1>12, Zenon DEF RenameHere
  <2>2. ~doubled' => Vacant(e, m)'
    BY <1>1, <1>9, <1>12, Zenon DEF RenameHere
  <2>3. Clear(x, d, e)'
    BY <1>12 DEF Clear
  <2>4. Moving(x, d, n, e, m)'
    BY <1>2, <1>4, <1>6, <1>8, <1>12, <2>1, <2>2, <2>3, Zenon DEF Moving
  <2>. QED
    BY <1>11, <2>4
<1>13. CASE d # e /\ MoveToNewName(d, n, e, m)
  <2>1. todo' = <<Flush({}), Put(e, m, x)>> \o Reparent(x, e) \o <<Put(d, n, None)>>
    BY <1>1, <1>13 DEF MoveToNewName
  <2>2. x \in Clusters \/ (x \in Files /\ x \notin Clusters)
    BY <1>4 DEF Nodes
  <2>3. \/ x \in Files /\ todo' = <<Flush({}), Put(e, m, x), Put(d, n, None)>>
        \/ /\ x \in Clusters
           /\ todo' = <<Flush({}), Put(e, m, x), Put(x, "..", Link(e)), Put(d, n, None)>>
    <3>1. CASE x \in Clusters
      <4>1. Reparent(x, e) = <<Put(x, "..", Link(e))>>
        BY <3>1 DEF Reparent
      <4>2. <<Flush({}), Put(e, m, x)>> \o <<Put(x, "..", Link(e))>> \o <<Put(d, n, None)>>
              = <<Flush({}), Put(e, m, x), Put(x, "..", Link(e)), Put(d, n, None)>>
        BY Concatenated
      <4>. QED
        BY <2>1, <3>1, <4>1, <4>2
    <3>2. CASE x \in Files /\ x \notin Clusters
      <4>1. Reparent(x, e) = <<>>
        BY <3>2 DEF Reparent
      <4>. QED
        BY <2>1, <3>2, <4>1, Concatenated, Zenon
    <3>. QED
      BY <2>2, <3>1, <3>2
  <2>4. ~doubled' => Vacant(e, m)'
    BY <1>1, <1>9, <1>13, Zenon DEF MoveToNewName
  <2>5. Clear(x, d, e)'
    <3>1. ASSUME ~doubled, ~staled, x \in Clusters
          PROVE  Apart(x, e)
      <4>1. Typed /\ OneTree /\ ResidentAgrees
        BY <3>1 DEF NInv, RInv
      <4>2. e \in Reached
        BY <1>1, <1>2, <3>1, <4>1, PathsStayReached
      <4>3. ~IsWithin(e, x)
        BY <1>1, <1>13, <3>1 DEF MoveToNewName
      <4>. QED
        BY <1>2, <3>1, <4>1, <4>2, <4>3, NotWithin
    <3>. QED
      BY <1>2, <3>1 DEF Clear, Apart, ClosedBut
  <2>6. Moving(x, d, n, e, m)'
    BY <1>2, <1>4, <1>6, <1>8, <2>3, <2>4, <2>5, Zenon DEF Moving
  <2>. QED
    BY <1>11, <2>6
<1>. QED
  BY <1>2, <1>10, <1>12, <1>13

-----------------------------------------------------------------------------
(***************************************************************************)
(* What a device write does to the tree.                                   *)
(***************************************************************************)

LEMMA Tuples ==
    /\ \A a : Head(<<a>>) = a /\ Tail(<<a>>) = <<>> /\ Len(<<a>>) = 1
    /\ \A a, b : Head(<<a, b>>) = a /\ Tail(<<a, b>>) = <<b>> /\ Len(<<a, b>>) = 2
    /\ \A a, b, c : /\ Head(<<a, b, c>>) = a /\ Tail(<<a, b, c>>) = <<b, c>>
                    /\ Len(<<a, b, c>>) = 3
    /\ \A a, b, c, e : /\ Head(<<a, b, c, e>>) = a /\ Tail(<<a, b, c, e>>) = <<b, c, e>>
                       /\ Len(<<a, b, c, e>>) = 4
<1>1. \A a : Head(<<a>>) = a /\ Tail(<<a>>) = <<>> /\ Len(<<a>>) = 1
  OBVIOUS
<1>2. \A a, b : Head(<<a, b>>) = a /\ Tail(<<a, b>>) = <<b>> /\ Len(<<a, b>>) = 2
  OBVIOUS
<1>3. \A a, b, c : /\ Head(<<a, b, c>>) = a /\ Tail(<<a, b, c>>) = <<b, c>>
                   /\ Len(<<a, b, c>>) = 3
  OBVIOUS
<1>4. \A a, b, c, e : /\ Head(<<a, b, c, e>>) = a /\ Tail(<<a, b, c, e>>) = <<b, c, e>>
                      /\ Len(<<a, b, c, e>>) = 4
  OBVIOUS
<1>. QED
  BY <1>1, <1>2, <1>3, <1>4

LEMMA Kinds ==
    /\ \A d, p : /\ PutAll(d, p).kind = "put" /\ PutAll(d, p).dir = d /\ PutAll(d, p).put = p
                 /\ PutAll(d, p).drop = TRUE
    /\ \A d, n, x : Put(d, n, x).kind = "put"
    /\ \A f : Flush(f).kind = "flush" /\ Flush(f).frees = f
    /\ \A c, d : /\ Prepare(c, d).kind = "put" /\ Prepare(c, d).dir = c
                 /\ Prepare(c, d).drop = FALSE
                 /\ DOMAIN Prepare(c, d).put = Entries
    /\ \A c, d : Prepare(c, d).put = [e \in Entries |-> CASE e = "."  -> c
                                                         [] e = ".." -> Link(d)
                                                         [] OTHER    -> None]
BY DEF PutAll, Put, Flush, Prepare

\* A write of entries changes those of one directory.
LEMMA EntriesWritten ==
    ASSUME Typed, WriteEntries, NEW d \in Directories, NEW put,
           Head(todo).dir = d, Head(todo).put = put
    PROVE  /\ tree' = [f \in Directories |-> tree'[f]]
           /\ \A f \in Directories : f # d => tree'[f] = tree[f]
           /\ tree'[d] = [e \in Entries |-> IF e \in DOMAIN put THEN put[e] ELSE tree[d][e]]
           /\ \A f \in Directories, e \in Entries :
                 tree'[f][e] = IF f = d /\ e \in DOMAIN put THEN put[e] ELSE tree[f][e]
<1>1. tree' = [tree EXCEPT ![d] = [e \in Entries |-> IF e \in DOMAIN put THEN put[e] ELSE @[e]]]
  BY DEF WriteEntries
<1>2. tree = [f \in Directories |-> tree[f]]
  BY DEF Typed
<1>3. /\ tree' = [f \in Directories |-> tree'[f]]
      /\ \A f \in Directories : f # d => tree'[f] = tree[f]
      /\ tree'[d] = [e \in Entries |-> IF e \in DOMAIN put THEN put[e] ELSE tree[d][e]]
  BY <1>1, <1>2
<1>4. \A f \in Directories, e \in Entries :
         tree'[f][e] = IF f = d /\ e \in DOMAIN put THEN put[e] ELSE tree[f][e]
  BY <1>3
<1>. QED
  BY <1>3, <1>4

\* What it changes has its types again.
LEMMA Written ==
    ASSUME Typed, WriteEntries, NEW d \in Directories, NEW put,
           Head(todo).dir = d, Head(todo).put = put,
           \A e \in Entries \cap DOMAIN put : put[e] \in Values(e),
           \A c : Unprepared(c) => c = d /\ DOMAIN put = Entries,
           d = Root => ".." \notin DOMAIN put
    PROVE  /\ Typed'
           /\ \A f \in Directories, e \in Entries :
                 tree'[f][e] = IF f = d /\ e \in DOMAIN put THEN put[e] ELSE tree[f][e]
           /\ \A f \in Directories : resident'[f] = resident[f] \/ resident'[f] = NotRead
           /\ Head(todo).drop => resident'[d] = NotRead
           /\ todo' = Tail(todo)
           /\ call' = IF Len(todo) > 1 THEN call ELSE Idle
           /\ UNCHANGED <<allocated, onDevice, troubles, doubled, staled>>
<1>1. /\ resident' = IF Head(todo).drop THEN [resident EXCEPT ![d] = NotRead] ELSE resident
      /\ todo' = Tail(todo)
      /\ call' = IF Len(todo) > 1 THEN call ELSE Idle
      /\ UNCHANGED <<allocated, onDevice, troubles, doubled, staled>>
  BY DEF WriteEntries, Advance
<1>2. resident = [f \in Directories |-> resident[f]]
  BY DEF Typed
<1>3. /\ resident' = [f \in Directories |-> resident'[f]]
      /\ \A f \in Directories : resident'[f] = resident[f] \/ resident'[f] = NotRead
      /\ Head(todo).drop => resident'[d] = NotRead
  BY <1>1, <1>2
<1>4. /\ tree' = [f \in Directories |-> tree'[f]]
      /\ \A f \in Directories : f # d => tree'[f] = tree[f]
      /\ tree'[d] = [e \in Entries |-> IF e \in DOMAIN put THEN put[e] ELSE tree[d][e]]
      /\ \A f \in Directories, e \in Entries :
            tree'[f][e] = IF f = d /\ e \in DOMAIN put THEN put[e] ELSE tree[f][e]
  BY EntriesWritten
<1>5. \A f \in Directories : DOMAIN tree'[f] = Entries
  <2>1. \A f \in Directories : DOMAIN tree[f] = Entries
    BY DEF Typed
  <2>. QED
    BY <1>4, <2>1
<1>6. \A f \in Directories, e \in Entries : tree'[f][e] \in Values(e) \cup {"junk"}
  BY <1>4 DEF Typed
<1>7. \A f \in Directories : Whole(tree[f]) => Whole(tree'[f])
  BY <1>4, <1>5 DEF Whole
<1>8. \A f \in allocated \cap Clusters : Whole(tree'[f])
  <2> SUFFICES ASSUME NEW f \in allocated \cap Clusters PROVE Whole(tree'[f])
    OBVIOUS
  <2>1. f \in Directories
    BY DEF Directories
  <2>2. CASE Unprepared(f)
    <3>1. f = d /\ DOMAIN put = Entries
      BY <2>2
    <3>. QED
      BY <1>4, <1>5, <2>1, <3>1 DEF Whole
  <2>3. CASE ~Unprepared(f)
    BY <1>7, <2>1, <2>3 DEF Typed
  <2>. QED
    BY <2>2, <2>3
<1>9. \A f \in onDevice \cap Clusters : Whole(tree'[f])
  BY <1>7 DEF Typed, Directories
<1>10. Whole(tree'[Root])
  BY <1>7 DEF Typed, Directories
<1>11. \A f \in Directories : resident'[f] # NotRead => Whole(resident'[f])
  BY <1>3 DEF Typed
<1>12. tree'[Root][".."] = None
  <2>1. Root \in Directories /\ ".." \in Entries
    BY WhatEntriesAre DEF Directories
  <2>2. tree[Root][".."] = None
    BY DEF Typed
  <2>. QED
    BY <1>4, <2>1, <2>2
<1>13. Typed'
  BY <1>1, <1>3, <1>4, <1>5, <1>6, <1>8, <1>9, <1>10, <1>11, <1>12, Zenon DEF Typed, Whole
<1>. QED
  BY <1>1, <1>3, <1>4, <1>13, Zenon

\* A write of names leaves every `..` as it is, and, if what it names is
\* allocated, every name one of something allocated.
LEMMA NamesWritten ==
    ASSUME NInv, WriteEntries, NEW d \in Directories, NEW put, Head(todo) = PutAll(d, put),
           DOMAIN put \subseteq Names, \A n \in DOMAIN put : put[n] \in Nodes \cup {None},
           \A c : ~Unprepared(c)
    PROVE  /\ Typed'
           /\ \A f \in Directories, l \in Names :
                 tree'[f][l] = IF f = d /\ l \in DOMAIN put THEN put[l] ELSE tree[f][l]
           /\ \A f, g : Beneath(f, g)' <=> Beneath(f, g)
           /\ \A x \in Clusters : tree'[x][".."] = tree[x][".."]
           /\ \A f \in Directories : resident'[f] = resident[f] \/ resident'[f] = NotRead
           /\ todo' = Tail(todo)
           /\ call' = IF Len(todo) > 1 THEN call ELSE Idle
           /\ UNCHANGED <<allocated, onDevice, troubles, doubled, staled>>
           /\ ~doubled /\ (\A n \in DOMAIN put : put[n] \in Nodes => put[n] \in allocated \cap onDevice)
                 => Named' /\ Shown' /\ FreeShowNothing'
<1>1. /\ Typed'
      /\ \A f \in Directories, e \in Entries :
            tree'[f][e] = IF f = d /\ e \in DOMAIN put THEN put[e] ELSE tree[f][e]
      /\ \A f \in Directories : resident'[f] = resident[f] \/ resident'[f] = NotRead
      /\ resident'[d] = NotRead
      /\ todo' = Tail(todo)
      /\ call' = IF Len(todo) > 1 THEN call ELSE Idle
      /\ UNCHANGED <<allocated, onDevice, troubles, doubled, staled>>
  <2>1. Head(todo).dir = d /\ Head(todo).put = put /\ Head(todo).drop
    BY Kinds
  <2>2. \A e \in Entries \cap DOMAIN put : put[e] \in Values(e)
    BY WhatEntriesAre
  <2>3. Typed /\ ".." \notin DOMAIN put
    BY WhatEntriesAre DEF NInv
  <2>. QED
    BY <2>1, <2>2, <2>3, Written
<1>2. \A f \in Directories, l \in Names :
         tree'[f][l] = IF f = d /\ l \in DOMAIN put THEN put[l] ELSE tree[f][l]
  BY <1>1, WhatEntriesAre
<1>3. \A x \in Clusters : tree'[x][".."] = tree[x][".."]
  <2>1. ".." \in Entries /\ ".." \notin DOMAIN put
    BY WhatEntriesAre
  <2>. QED
    BY <1>1, <2>1 DEF Directories
<1>4. ASSUME ~doubled,
             \A n \in DOMAIN put : put[n] \in Nodes => put[n] \in allocated \cap onDevice
      PROVE  Named' /\ Shown' /\ FreeShowNothing'
  <2>1. Named /\ Shown /\ FreeShowNothing
    BY <1>4 DEF NInv, OneTree
  <2>2. Named'
    BY <1>1, <1>2, <1>4, <2>1 DEF Named
  <2>3. Shown'
    <3> SUFFICES ASSUME NEW f \in Directories, resident'[f] # NotRead, NEW l \in Names
                 PROVE  resident'[f][l] = tree'[f][l]
      BY DEF Shown
    <3>1. f # d /\ resident'[f] = resident[f]
      BY <1>1
    <3>. QED
      BY <1>2, <2>1, <3>1 DEF Shown
  <2>4. FreeShowNothing'
    BY <1>1, <2>1 DEF FreeShowNothing, ShowsNothing, Directories
  <2>. QED
    BY <2>2, <2>3, <2>4
<1>5. \A f, g : Beneath(f, g)' <=> Beneath(f, g)
  BY <1>3, Zenon DEF Beneath
<1>. QED
  BY <1>1, <1>2, <1>3, <1>4, <1>5

-----------------------------------------------------------------------------
(***************************************************************************)
(* Each call's entries are written as planned.                             *)
(***************************************************************************)

\* A single entry is named.
LEMMA NameWritten ==
    ASSUME NInv, WriteEntries, NEW d \in Directories, NEW n \in Names, NEW v \in Nodes \cup {None},
           Head(todo) = Put(d, n, v), \A c : ~Unprepared(c)
    PROVE  /\ Typed'
           /\ \A f \in Directories, l \in Names :
                 tree'[f][l] = IF f = d /\ l = n THEN v ELSE tree[f][l]
           /\ \A f, g : Beneath(f, g)' <=> Beneath(f, g)
           /\ \A f \in Directories : resident'[f] = resident[f] \/ resident'[f] = NotRead
           /\ \A f : ShowsNothing(f) => ShowsNothing(f)'
           /\ todo' = Tail(todo)
           /\ call' = IF Len(todo) > 1 THEN call ELSE Idle
           /\ UNCHANGED <<allocated, onDevice, troubles, doubled, staled>>
           /\ ~doubled /\ (v \in Nodes => v \in allocated \cap onDevice)
                 => Named' /\ Shown' /\ FreeShowNothing'
<1>. DEFINE put == [l \in {n} |-> v]
<1>1. Head(todo) = PutAll(d, put)
  BY DEF Put
<1>2. DOMAIN put = {n} /\ \A l \in DOMAIN put : put[l] = v
  OBVIOUS
<1>. HIDE DEF put
<1>3. DOMAIN put \subseteq Names /\ \A l \in DOMAIN put : put[l] \in Nodes \cup {None}
  BY <1>2
<1>4. /\ Typed'
      /\ \A f \in Directories, l \in Names :
            tree'[f][l] = IF f = d /\ l \in DOMAIN put THEN put[l] ELSE tree[f][l]
      /\ \A f, g : Beneath(f, g)' <=> Beneath(f, g)
      /\ \A f \in Directories : resident'[f] = resident[f] \/ resident'[f] = NotRead
      /\ todo' = Tail(todo)
      /\ call' = IF Len(todo) > 1 THEN call ELSE Idle
      /\ UNCHANGED <<allocated, onDevice, troubles, doubled, staled>>
      /\ ~doubled /\ (\A l \in DOMAIN put : put[l] \in Nodes => put[l] \in allocated \cap onDevice)
            => Named' /\ Shown' /\ FreeShowNothing'
  BY <1>1, <1>3, NamesWritten
<1>5. \A f \in Directories, l \in Names :
         tree'[f][l] = IF f = d /\ l = n THEN v ELSE tree[f][l]
  BY <1>2, <1>4
<1>6. \A f : ShowsNothing(f) => ShowsNothing(f)'
  BY <1>4 DEF ShowsNothing, Directories
<1>. QED
  BY <1>2, <1>4, <1>5, <1>6

\* What is made is prepared, and then named once.
LEMMA CreatingWritten ==
    ASSUME NInv, WriteEntries, NEW x, x = call.node, NEW d \in Directories, NEW n \in Names,
           Creating(x, d, n)
    PROVE  NInv'
<1>1. /\ call.op \in {"create", "create_dir"}
      /\ x \in allocated /\ x # d
      /\ IF call.op = "create" THEN x \in Files ELSE x \in Clusters
      /\ ~doubled => Unnamed(x) /\ ShowsNothing(x)
  BY Zenon DEF Creating
<1>2. x \in Nodes /\ Typed /\ Head(todo).kind = "put" /\ call.op # "rename"
  BY <1>1 DEF Nodes, NInv, WriteEntries, Due
<1>3. CASE /\ call.op = "create_dir"
           /\ todo = <<Prepare(x, d), Flush({}), Put(d, n, x)>>
  <2>. DEFINE put == Prepare(x, d).put
  <2>1. x \in Clusters /\ x \in Directories /\ x # Root
    BY <1>1, <1>3, TreeAssumption DEF Directories
  <2>2. Head(todo) = Prepare(x, d) /\ Tail(todo) = <<Flush({}), Put(d, n, x)>> /\ Len(todo) = 3
    BY <1>3, Tuples
  <2>3. Head(todo).dir = x /\ ~Head(todo).drop /\ Head(todo).put = put /\ DOMAIN put = Entries
    BY <2>2, Kinds
  <2>4. put["."] = x /\ put[".."] = Link(d) /\ \A l \in Names : put[l] = None
    <3>1. put = [e \in Entries |-> CASE e = "." -> x [] e = ".." -> Link(d) [] OTHER -> None]
      BY Kinds
    <3>. HIDE DEF put
    <3>. QED
      BY <3>1, WhatEntriesAre
  <2>. HIDE DEF put
  <2>5. \A e \in Entries : put[e] \in Values(e)
    BY <2>1, <2>4, WhatEntriesAre DEF Entries
  <2>6. \A c : Unprepared(c) => c = x
    BY DEF Unprepared
  <2>7. /\ Typed'
        /\ \A f \in Directories, e \in Entries :
              tree'[f][e] = IF f = x /\ e \in DOMAIN put THEN put[e] ELSE tree[f][e]
        /\ todo' = Tail(todo)
        /\ call' = IF Len(todo) > 1 THEN call ELSE Idle
        /\ UNCHANGED <<allocated, onDevice, troubles, doubled, staled>>
    BY <1>2, <2>1, <2>3, <2>5, <2>6, Written
  <2>8. resident' = resident /\ call' = call /\ call'.node = x
    BY <2>2, <2>3, <2>7 DEF WriteEntries
  <2>9. /\ \A f \in Directories, l \in Names : tree'[f][l] = IF f = x THEN None ELSE tree[f][l]
        /\ \A f \in Directories : f # x => tree'[f][".."] = tree[f][".."]
        /\ tree'[x][".."] = Link(d)
    BY <2>1, <2>3, <2>4, <2>7, WhatEntriesAre
  <2>10. None \notin Nodes /\ None \notin Clusters
    BY WhatEntriesAre DEF Nodes
  <2>11. ASSUME ~doubled
         PROVE  /\ OneTree' /\ Unnamed(x)' /\ ShowsNothing(x)' /\ Beneath(x, d)'
                /\ Vacant(d, n)'
    <3>1. Named /\ Single /\ Parents /\ Shown /\ FreeShowNothing /\ Unnamed(x) /\ ShowsNothing(x)
      BY <1>1, <2>11 DEF NInv, OneTree
    <3>2. Unnamed(x)'
      BY <1>2, <2>9, <2>10, <3>1 DEF Unnamed
    <3>3. Named'
      BY <2>7, <2>9, <2>10, <3>1 DEF Named
    <3>4. Single'
      BY <1>2, <2>8, <2>9, <2>10, <3>1 DEF Single
    <3>5. Parents'
      <4> SUFFICES ASSUME NEW f \in Directories, NEW l \in Names, tree'[f][l] \in Clusters
                   PROVE  tree'[tree'[f][l]][".."] = Link(f)
        BY DEF Parents, Beneath
      <4>1. f # x /\ tree'[f][l] = tree[f][l]
        BY <2>9, <2>10
      <4>2. tree[f][l] # x /\ tree[f][l] \in Directories
        BY <3>1, <4>1 DEF Unnamed, Directories
      <4>3. tree[tree[f][l]][".."] = Link(f)
        BY <1>2, <3>1, <4>1 DEF Parents, Beneath
      <4>. QED
        BY <2>9, <4>1, <4>2, <4>3
    <3>6. Shown'
      <4> SUFFICES ASSUME NEW f \in Directories, resident[f] # NotRead, NEW l \in Names
                   PROVE  resident[f][l] = tree'[f][l]
        BY <2>8 DEF Shown
      <4>1. CASE f = x
        BY <2>1, <2>9, <3>1, <4>1 DEF ShowsNothing, Empty
      <4>2. CASE f # x
        BY <2>9, <3>1, <4>2 DEF Shown
      <4>. QED
        BY <4>1, <4>2
    <3>7. FreeShowNothing' /\ ShowsNothing(x)'
      BY <2>7, <2>8, <3>1 DEF FreeShowNothing, ShowsNothing
    <3>8. Beneath(x, d)' /\ Vacant(d, n)'
      <4>1. Vacant(d, n)
        BY <2>11, Zenon DEF Creating
      <4>. QED
        BY <1>1, <2>9, <4>1 DEF Beneath, Vacant
    <3>. QED
      BY <3>2, <3>3, <3>4, <3>5, <3>6, <3>7, <3>8 DEF OneTree
  <2>12. Whole(tree'[x])
    BY <2>1, <2>5, <2>7, <2>3 DEF Typed, Whole
  <2>13. Creating(x, d, n)'
    <3>1. /\ call'.op \in {"create", "create_dir"} /\ x \in allocated'
          /\ IF call'.op = "create" THEN x \in Files ELSE x \in Clusters
          /\ todo' = <<Flush({}), Put(d, n, x)>>
          /\ ~doubled' => /\ Unnamed(x)' /\ ShowsNothing(x)' /\ Beneath(x, d)'
                           /\ Vacant(d, n)'
      BY <1>1, <2>2, <2>7, <2>8, <2>11
    <3>. QED
      BY <1>1, <2>12, <3>1, Zenon DEF Creating
  <2>. QED
    BY <2>7, <2>8, <2>11, <2>13 DEF NInv, Planned
<1>4. CASE /\ todo = <<Put(d, n, x)>>
           /\ x \in onDevice
           /\ ~doubled => Beneath(x, d)
  <2>1. Head(todo) = Put(d, n, x) /\ Tail(todo) = <<>> /\ Len(todo) = 1
    BY <1>4, Tuples
  <2>2. \A c : ~Unprepared(c)
    BY <2>1 DEF Unprepared
  <2>3. /\ Typed'
        /\ \A f \in Directories, l \in Names :
              tree'[f][l] = IF f = d /\ l = n THEN x ELSE tree[f][l]
        /\ \A f, g : Beneath(f, g)' <=> Beneath(f, g)
        /\ todo' = Tail(todo)
        /\ call' = IF Len(todo) > 1 THEN call ELSE Idle
        /\ UNCHANGED <<allocated, onDevice, troubles, doubled, staled>>
        /\ ~doubled => Named' /\ Shown' /\ FreeShowNothing'
    BY <1>1, <1>2, <1>4, <2>1, <2>2, NameWritten
  <2>4. ASSUME ~doubled
        PROVE  OneTree'
    <3>1. Single /\ Parents /\ Unnamed(x) /\ Beneath(x, d)
      BY <1>1, <1>4, <2>4 DEF NInv, OneTree
    <3>2. Single'
      BY <1>2, <2>3, <3>1 DEF Single, Unnamed
    <3>3. Parents'
      BY <1>2, <2>3, <3>1, ZenonT(40) DEF Parents
    <3>. QED
      BY <2>3, <2>4, <3>2, <3>3 DEF OneTree
  <2>. QED
    BY <2>1, <2>3, <2>4 DEF NInv, Planned
<1>5. CASE todo = <<Flush({}), Put(d, n, x)>>
  <2>1. Head(todo) = Flush({})
    BY <1>5, Tuples
  <2>. QED
    BY <1>2, <2>1, Kinds
<1>. QED
  BY <1>3, <1>4, <1>5, Zenon DEF Creating

\* What is removed loses its one name first.
LEMMA RemovingWritten ==
    ASSUME NInv, WriteEntries, NEW x, x = call.node, NEW d \in Directories, NEW n \in Names,
           Removing(x, d, n)
    PROVE  NInv'
<1>1. /\ call.op \in {"remove", "remove_dir"} /\ x \in Nodes
      /\ ~doubled => ShowsNothing(x)
      /\ Head(todo).kind = "put"
      /\ \A c : ~Unprepared(c)
  BY Zenon DEF Removing, WriteEntries, Due, Unprepared
<1>2. CASE /\ todo = <<Put(d, n, None), Flush({x})>>
           /\ x # d
           /\ ~doubled => OnlyAt(x, d, n)
  <2>1. Head(todo) = Put(d, n, None) /\ Tail(todo) = <<Flush({x})>> /\ Len(todo) = 2
    BY <1>2, Tuples
  <2>2. None \notin Nodes
    BY WhatEntriesAre
  <2>3. /\ Typed'
        /\ \A f \in Directories, l \in Names :
              tree'[f][l] = IF f = d /\ l = n THEN None ELSE tree[f][l]
        /\ \A f, g : Beneath(f, g)' <=> Beneath(f, g)
        /\ \A f : ShowsNothing(f) => ShowsNothing(f)'
        /\ todo' = Tail(todo)
        /\ call' = IF Len(todo) > 1 THEN call ELSE Idle
        /\ UNCHANGED <<allocated, onDevice, troubles, doubled, staled>>
        /\ ~doubled => Named' /\ Shown' /\ FreeShowNothing'
    BY <1>1, <2>1, <2>2, NameWritten
  <2>4. call' = call /\ call'.node = x /\ call'.op = call.op
    BY <2>1, <2>3
  <2>5. ASSUME ~doubled
        PROVE  OneTree' /\ Unnamed(x)' /\ ShowsNothing(x)'
    <3>1. Single /\ Parents /\ OnlyAt(x, d, n)
      BY <1>2, <2>5 DEF NInv, OneTree
    <3>2. Single'
      BY <2>2, <2>3, <2>4, <3>1 DEF Single
    <3>3. Parents'
      <4>1. \A f : Beneath(None, f)
        BY <2>2 DEF Beneath, Nodes
      <4>. QED
        BY <2>3, <2>4, <3>1, <4>1, ZenonT(40) DEF Parents
    <3>4. Unnamed(x)'
      BY <1>1, <2>2, <2>3, <3>1 DEF Unnamed, OnlyAt
    <3>. QED
      BY <1>1, <2>3, <2>5, <3>2, <3>3, <3>4 DEF OneTree
  <2>6. Removing(x, d, n)'
    BY <1>1, <2>1, <2>3, <2>4, <2>5, Zenon DEF Removing
  <2>. QED
    BY <2>3, <2>4, <2>5, <2>6 DEF NInv, Planned
<1>3. CASE todo = <<Flush({x})>>
  <2>1. Head(todo) = Flush({x})
    BY <1>3, Tuples
  <2>. QED
    BY <1>1, <2>1, Kinds
<1>. QED
  BY <1>2, <1>3, Zenon DEF Removing

\* A file that replaces another goes, and comes back under the other's name.
LEMMA ReplacingWritten ==
    ASSUME NInv, WriteEntries, NEW x, x = call.node, NEW y,
           NEW d \in Directories, NEW n \in Names, NEW e \in Directories, NEW m \in Names,
           y \in Files, Replacing(x, d, n, y, e, m)
    PROVE  NInv'
<1>1. /\ call.op = "rename" /\ x \in Files /\ y \in Files /\ Head(todo).kind = "put"
      /\ \A c : ~Unprepared(c)
  BY Zenon DEF Replacing, WriteEntries, Due, Unprepared
<1>2. None \notin Nodes /\ x \in Nodes /\ y \in Nodes /\ x \notin Clusters
  BY <1>1, WhatEntriesAre, TreeAssumption DEF Nodes
<1>3. /\ \A f : Beneath(None, f)
      /\ \A f : Beneath(x, f)
  BY <1>2 DEF Beneath, Nodes
<1>4. CASE /\ todo = <<Put(d, n, None), Put(e, m, x), Flush({y})>>
           /\ ~doubled => OnlyAt(x, d, n) /\ OnlyAt(y, e, m) /\ x # y
  <2>1. Head(todo) = Put(d, n, None) /\ Tail(todo) = <<Put(e, m, x), Flush({y})>> /\ Len(todo) = 3
    BY <1>4, Tuples
  <2>2. /\ Typed'
        /\ \A f \in Directories, l \in Names :
              tree'[f][l] = IF f = d /\ l = n THEN None ELSE tree[f][l]
        /\ \A f, g : Beneath(f, g)' <=> Beneath(f, g)
        /\ todo' = Tail(todo)
        /\ call' = IF Len(todo) > 1 THEN call ELSE Idle
        /\ UNCHANGED <<allocated, onDevice, troubles, doubled, staled>>
        /\ ~doubled => Named' /\ Shown' /\ FreeShowNothing'
    BY <1>1, <1>2, <2>1, NameWritten
  <2>3. call' = call /\ call'.node = x /\ call'.op = "rename"
    BY <1>1, <2>1, <2>2
  <2>4. ASSUME ~doubled
        PROVE  OneTree' /\ Unnamed(x)' /\ OnlyAt(y, e, m)' /\ x # y /\ x \in allocated' \cap onDevice'
    <3>1. Named /\ Single /\ Parents /\ OnlyAt(x, d, n) /\ OnlyAt(y, e, m) /\ x # y
      BY <1>4, <2>4 DEF NInv, OneTree
    <3>2. Single'
      BY <1>1, <1>2, <2>2, <2>3, <3>1 DEF Single
    <3>3. Parents'
      BY <1>1, <1>3, <2>2, <2>3, <3>1, ZenonT(40) DEF Parents
    <3>4. Unnamed(x)'
      BY <1>2, <2>2, <3>1 DEF Unnamed, OnlyAt
    <3>5. OnlyAt(y, e, m)'
      BY <1>2, <2>2, <3>1 DEF OnlyAt
    <3>6. x \in allocated \cap onDevice
      BY <1>2, <3>1 DEF OnlyAt, Named
    <3>. QED
      BY <2>2, <2>4, <3>1, <3>2, <3>3, <3>4, <3>5, <3>6 DEF OneTree
  <2>5. Replacing(x, d, n, y, e, m)'
    <3>1. todo' = <<Put(e, m, x), Flush({y})>>
      BY <2>1, <2>2
    <3>2. ~doubled' => Unnamed(x)' /\ OnlyAt(y, e, m)' /\ x # y /\ x \in allocated' \cap onDevice'
      BY <2>2, <2>4
    <3>. QED
      BY <1>1, <2>3, <3>1, <3>2, Zenon DEF Replacing
  <2>. QED
    BY <2>2, <2>3, <2>4, <2>5 DEF NInv, Planned
<1>5. CASE /\ todo = <<Put(e, m, x), Flush({y})>>
           /\ ~doubled => Unnamed(x) /\ OnlyAt(y, e, m) /\ x # y /\ x \in allocated \cap onDevice
  <2>1. Head(todo) = Put(e, m, x) /\ Tail(todo) = <<Flush({y})>> /\ Len(todo) = 2
    BY <1>5, Tuples
  <2>2. /\ Typed'
        /\ \A f \in Directories, l \in Names :
              tree'[f][l] = IF f = e /\ l = m THEN x ELSE tree[f][l]
        /\ \A f, g : Beneath(f, g)' <=> Beneath(f, g)
        /\ todo' = Tail(todo)
        /\ call' = IF Len(todo) > 1 THEN call ELSE Idle
        /\ UNCHANGED <<allocated, onDevice, troubles, doubled, staled>>
        /\ ~doubled => Named' /\ Shown' /\ FreeShowNothing'
    BY <1>1, <1>2, <1>5, <2>1, NameWritten
  <2>3. call' = call /\ call'.node = x /\ call'.op = "rename"
    BY <1>1, <2>1, <2>2
  <2>4. ASSUME ~doubled
        PROVE  OneTree' /\ OnlyAt(x, e, m)' /\ Unnamed(y)'
    <3>1. Single /\ Parents /\ Unnamed(x) /\ OnlyAt(y, e, m) /\ x # y
      BY <1>5, <2>4 DEF NInv, OneTree
    <3>2. Single'
      BY <1>1, <1>2, <2>2, <2>3, <3>1 DEF Single, Unnamed
    <3>3. Parents'
      <4> SUFFICES ASSUME NEW f \in Directories, NEW l \in Names, tree'[f][l] # x
                   PROVE  Beneath(tree[f][l], f)'
        BY <2>3, Zenon DEF Parents
      <4>1. tree'[f][l] = tree[f][l] /\ Beneath(tree[f][l], f)
        BY <1>1, <2>2, <3>1, Zenon DEF Parents
      <4>. QED
        BY <2>2, <4>1, Zenon
    <3>4. OnlyAt(x, e, m)'
      BY <1>2, <2>2, <3>1 DEF Unnamed, OnlyAt
    <3>5. Unnamed(y)'
      BY <1>2, <2>2, <3>1 DEF Unnamed, OnlyAt
    <3>. QED
      BY <2>2, <2>4, <3>2, <3>3, <3>4, <3>5 DEF OneTree
  <2>5. Replacing(x, d, n, y, e, m)'
    <3>1. todo' = <<Flush({y})>>
      BY <2>1, <2>2
    <3>2. ~doubled' => OnlyAt(x, e, m)' /\ Unnamed(y)'
      BY <2>2, <2>4
    <3>. QED
      BY <1>1, <2>3, <3>1, <3>2, Zenon DEF Replacing
  <2>. QED
    BY <2>2, <2>3, <2>4, <2>5 DEF NInv, Planned
<1>6. CASE todo = <<Flush({y})>>
  <2>1. Head(todo) = Flush({y})
    BY <1>6, Tuples
  <2>. QED
    BY <1>1, <2>1, Kinds
<1>. QED
  BY <1>4, <1>5, <1>6, Zenon DEF Replacing

\* A name that fits is changed in place, with one write.
LEMMA RenamedInPlace ==
    ASSUME NInv, WriteEntries, NEW x, x = call.node, NEW d \in Directories,
           NEW n \in Names, NEW m \in Names, n # m, x \in Nodes, call.op = "rename",
           todo = <<PutAll(d, [l \in {n, m} |-> IF l = n THEN None ELSE x])>>,
           ~doubled => OnlyAt(x, d, n) /\ Beneath(x, d)
    PROVE  NInv'
<1>1. PICK put : put = [l \in {n, m} |-> IF l = n THEN None ELSE x]
  OBVIOUS
<1>2. DOMAIN put = {n, m} /\ put[n] = None /\ put[m] = x
  BY <1>1
<1>3. Head(todo) = PutAll(d, put) /\ Tail(todo) = <<>> /\ Len(todo) = 1
  BY <1>1, Tuples
<1>4. None \notin Nodes
  BY WhatEntriesAre
<1>5. \A c : ~Unprepared(c)
  BY DEF Unprepared
<1>6. DOMAIN put \subseteq Names /\ \A l \in DOMAIN put : put[l] \in Nodes \cup {None}
  BY <1>2
<1>7. /\ Typed'
      /\ \A f \in Directories, l \in Names :
            tree'[f][l] = IF f = d /\ l \in DOMAIN put THEN put[l] ELSE tree[f][l]
      /\ \A f, g : Beneath(f, g)' <=> Beneath(f, g)
      /\ todo' = Tail(todo)
      /\ call' = IF Len(todo) > 1 THEN call ELSE Idle
      /\ UNCHANGED <<allocated, onDevice, troubles, doubled, staled>>
      /\ ~doubled /\ (\A l \in DOMAIN put : put[l] \in Nodes => put[l] \in allocated \cap onDevice)
            => Named' /\ Shown' /\ FreeShowNothing'
  BY <1>3, <1>5, <1>6, NamesWritten
<1>8. \A f \in Directories, l \in Names :
         tree'[f][l] = IF f = d /\ l = n THEN None ELSE IF f = d /\ l = m THEN x ELSE tree[f][l]
  BY <1>2, <1>7
<1>9. ASSUME ~doubled
      PROVE  OneTree'
  <2>1. Named /\ Single /\ Parents /\ OnlyAt(x, d, n) /\ Beneath(x, d)
    BY <1>9 DEF NInv, OneTree
  <2>2. x \in allocated \cap onDevice
    BY <2>1 DEF OnlyAt, Named
  <2>3. Single'
    BY <1>4, <1>8, <2>1 DEF Single, OnlyAt
  <2>4. Parents'
    <3> SUFFICES ASSUME NEW f \in Directories, NEW l \in Names
                 PROVE  Beneath(tree[f][l], f)'
      BY Zenon DEF Parents
    <3>1. CASE f = d /\ l = n
      BY <1>4, <1>8, <3>1 DEF Beneath, Nodes
    <3>2. CASE f = d /\ l = m
      <4>1. tree'[f][l] = x
        BY <1>8, <3>2
      <4>. QED
        BY <1>7, <2>1, <3>2, <4>1, Zenon
    <3>3. CASE ~(f = d /\ l = n) /\ ~(f = d /\ l = m)
      <4>1. tree'[f][l] = tree[f][l] /\ tree[f][l] # x
        BY <1>8, <2>1, <3>3 DEF OnlyAt
      <4>2. Beneath(tree[f][l], f)
        BY <2>1, <4>1, Zenon DEF Parents
      <4>. QED
        BY <1>7, <4>1, <4>2, Zenon
    <3>. QED
      BY <3>1, <3>2, <3>3
  <2>5. \A l \in DOMAIN put : put[l] \in Nodes => put[l] \in allocated \cap onDevice
    BY <1>2, <1>4, <2>2
  <2>. QED
    BY <1>7, <1>9, <2>3, <2>4, <2>5 DEF OneTree
<1>. QED
  BY <1>3, <1>7, <1>9 DEF NInv, Planned

\* What is moved gets its new name before it loses the old one; in between, a
\* directory's `..` is changed.
LEMMA NewNameWritten ==
    ASSUME NInv, WriteEntries, NEW x, x = call.node, NEW rest,
           NEW d \in Directories, NEW n \in Names, NEW e \in Directories, NEW m \in Names,
           x \in Nodes, call.op = "rename", Head(todo) = Put(e, m, x),
           Tail(todo) = rest, Len(todo) > 1, \A c : ~Unprepared(c),
           ~doubled => OnlyAt(x, d, n) /\ Beneath(x, d) /\ Vacant(e, m), Clear(x, d, e)
    PROVE  /\ Typed' /\ todo' = rest /\ call' = call /\ doubled' = doubled
           /\ Clear(x, d, e)'
           /\ ~doubled => OneTree' /\ AtBoth(x, d, n, e, m)' /\ Beneath(x, d)'
<1>1. ~doubled => x \in allocated \cap onDevice
  BY DEF NInv, OneTree, OnlyAt, Named
<1>2. /\ Typed'
      /\ \A f \in Directories, l \in Names :
            tree'[f][l] = IF f = e /\ l = m THEN x ELSE tree[f][l]
      /\ \A f, g : Beneath(f, g)' <=> Beneath(f, g)
      /\ todo' = Tail(todo)
      /\ call' = IF Len(todo) > 1 THEN call ELSE Idle
      /\ UNCHANGED <<allocated, onDevice, troubles, doubled, staled>>
      /\ ~doubled => Named' /\ Shown' /\ FreeShowNothing'
  BY <1>1, NameWritten
<1>3. call' = call /\ call'.node = x /\ call'.op = "rename"
  BY <1>2
<1>4. ASSUME ~doubled
      PROVE  OneTree' /\ AtBoth(x, d, n, e, m)' /\ Beneath(x, d)'
  <2>1. Single /\ Parents /\ OnlyAt(x, d, n) /\ Beneath(x, d)
    BY <1>4 DEF NInv, OneTree
  <2>2. Single'
    BY <1>2, <1>3, <2>1 DEF Single, OnlyAt
  <2>3. Parents'
    <3> SUFFICES ASSUME NEW f \in Directories, NEW l \in Names, tree'[f][l] # x
                 PROVE  Beneath(tree[f][l], f)'
      BY <1>3, Zenon DEF Parents
    <3>1. tree'[f][l] = tree[f][l] /\ Beneath(tree[f][l], f)
      BY <1>2, <2>1, ZenonT(40) DEF Parents
    <3>. QED
      BY <1>2, <3>1, Zenon
  <2>4. AtBoth(x, d, n, e, m)'
    BY <1>2, <2>1 DEF OnlyAt, AtBoth
  <2>. QED
    BY <1>2, <1>4, <2>1, <2>2, <2>3, <2>4 DEF OneTree
<1>5. Clear(x, d, e)'
  <2> SUFFICES ASSUME ~doubled, ~staled, x \in Clusters, d # e,
                      NEW S \in SUBSET Directories, ClosedBut(x, S)'
               PROVE  e # x /\ e \in S
    BY <1>2 DEF Clear, Apart
  <2>1. ClosedBut(x, S)
    <3>1. tree[e][m] \notin Clusters
      BY TreeAssumption DEF Vacant
    <3>. QED
      BY <1>2, <3>1 DEF ClosedBut
  <2>. QED
    BY <2>1 DEF Clear, Apart
<1>. QED
  BY <1>2, <1>3, <1>4, <1>5

\* A moved directory's `..` names its new parent.
LEMMA ParentWritten ==
    ASSUME NInv, WriteEntries, NEW x, x = call.node,
           NEW d \in Directories, NEW n \in Names, NEW e \in Directories, NEW m \in Names,
           x \in Clusters, call.op = "rename",
           todo = <<Put(x, "..", Link(e)), Put(d, n, None)>>,
           ~doubled => AtBoth(x, d, n, e, m), Clear(x, d, e)
    PROVE  /\ Clear(x, d, e)'
           /\ Typed' /\ todo' = <<Put(d, n, None)>> /\ call' = call /\ doubled' = doubled
           /\ ~doubled => OneTree' /\ AtBoth(x, d, n, e, m)' /\ Beneath(x, e)'
<1>1. PICK put : put = [l \in {".."} |-> Link(e)]
  OBVIOUS
<1>2. DOMAIN put = {".."} /\ put[".."] = Link(e)
  BY <1>1
<1>3. Head(todo) = PutAll(x, put) /\ Tail(todo) = <<Put(d, n, None)>> /\ Len(todo) = 2
  BY <1>1, Tuples DEF Put
<1>4. /\ Head(todo).dir = x /\ Head(todo).put = put /\ Head(todo).drop
      /\ x \in Directories /\ Typed
      /\ x # Root
      /\ \A c : ~Unprepared(c)
  BY <1>3, Kinds, TreeAssumption DEF Directories, NInv, Unprepared
<1>5. \A l \in Entries \cap DOMAIN put : put[l] \in Values(l)
  BY <1>2, WhatEntriesAre
<1>6. /\ Typed'
      /\ \A f \in Directories, l \in Entries :
            tree'[f][l] = IF f = x /\ l \in DOMAIN put THEN put[l] ELSE tree[f][l]
      /\ \A f \in Directories : resident'[f] = resident[f] \/ resident'[f] = NotRead
      /\ todo' = Tail(todo)
      /\ call' = IF Len(todo) > 1 THEN call ELSE Idle
      /\ UNCHANGED <<allocated, onDevice, troubles, doubled, staled>>
  BY <1>4, <1>5, Written
<1>7. call' = call /\ call'.node = x /\ call'.op = "rename"
  BY <1>3, <1>6
<1>8. /\ \A f \in Directories, l \in Names : tree'[f][l] = tree[f][l]
      /\ \A f \in Clusters : f # x => tree'[f][".."] = tree[f][".."]
      /\ tree'[x][".."] = Link(e)
  BY <1>2, <1>4, <1>6, WhatEntriesAre DEF Directories
<1>9. ASSUME ~doubled
      PROVE  OneTree' /\ AtBoth(x, d, n, e, m)' /\ Beneath(x, e)'
  <2>1. Named /\ Single /\ Parents /\ Shown /\ FreeShowNothing /\ AtBoth(x, d, n, e, m)
    BY <1>9 DEF NInv, OneTree
  <2>2. Named' /\ AtBoth(x, d, n, e, m)'
    BY <1>6, <1>8, <2>1 DEF Named, AtBoth
  <2>3. Single'
    BY <1>7, <1>8, <2>1 DEF Single
  <2>4. Parents'
    <3> SUFFICES ASSUME NEW f \in Directories, NEW l \in Names, tree'[f][l] # x
                 PROVE  Beneath(tree[f][l], f)'
      BY <1>7, Zenon DEF Parents
    <3>1. tree'[f][l] = tree[f][l] /\ Beneath(tree[f][l], f)
      BY <1>8, <2>1, Zenon DEF Parents
    <3>. QED
      BY <1>8, <3>1 DEF Beneath
  <2>5. Shown'
    BY <1>6, <1>8, <2>1 DEF Shown
  <2>6. FreeShowNothing'
    BY <1>6, <2>1 DEF FreeShowNothing, ShowsNothing, Directories
  <2>7. Beneath(x, e)'
    BY <1>8 DEF Beneath
  <2>. QED
    BY <2>2, <2>3, <2>4, <2>5, <2>6, <2>7 DEF OneTree
<1>10. Clear(x, d, e)'
  <2>1. \A S \in SUBSET Directories : ClosedBut(x, S)' => ClosedBut(x, S)
    BY <1>8 DEF ClosedBut
  <2>. QED
    BY <1>6, <2>1 DEF Clear, Apart
<1>. QED
  BY <1>3, <1>6, <1>7, <1>9, <1>10

\* What was moved loses its old name.
LEMMA OldNameWritten ==
    ASSUME NInv, WriteEntries, NEW x, x = call.node,
           NEW d \in Directories, NEW n \in Names, NEW e \in Directories, NEW m \in Names,
           <<d, n>> # <<e, m>>, x \in Nodes, call.op = "rename", todo = <<Put(d, n, None)>>,
           ~doubled => AtBoth(x, d, n, e, m) /\ Beneath(x, e)
    PROVE  NInv'
<1>1. Head(todo) = Put(d, n, None) /\ Tail(todo) = <<>> /\ Len(todo) = 1
  BY Tuples
<1>2. None \notin Nodes /\ \A c : ~Unprepared(c)
  BY WhatEntriesAre DEF Unprepared
<1>3. /\ Typed'
      /\ \A f \in Directories, l \in Names :
            tree'[f][l] = IF f = d /\ l = n THEN None ELSE tree[f][l]
      /\ \A f, g : Beneath(f, g)' <=> Beneath(f, g)
      /\ todo' = Tail(todo)
      /\ call' = IF Len(todo) > 1 THEN call ELSE Idle
      /\ UNCHANGED <<allocated, onDevice, troubles, doubled, staled>>
      /\ ~doubled => Named' /\ Shown' /\ FreeShowNothing'
  BY <1>1, <1>2, NameWritten
<1>4. ASSUME ~doubled
      PROVE  OneTree'
  <2>1. Single /\ Parents /\ AtBoth(x, d, n, e, m) /\ Beneath(x, e)
    BY <1>4 DEF NInv, OneTree
  <2>2. \A f \in Directories, l \in Names : tree'[f][l] = x => f = e /\ l = m
    BY <1>2, <1>3, <2>1 DEF AtBoth
  <2>3. Single'
    <3> SUFFICES ASSUME NEW f \in Directories, NEW g \in Directories, NEW k \in Names, NEW l \in Names,
                        tree'[f][k] \in Nodes, tree'[f][k] = tree'[g][l]
                 PROVE  f = g /\ k = l
      BY DEF Single
    <3>1. CASE tree'[f][k] = x
      BY <2>2, <3>1
    <3>2. CASE tree'[f][k] # x
      BY <1>2, <1>3, <2>1, <3>2 DEF Single
    <3>. QED
      BY <3>1, <3>2
  <2>4. Parents'
    <3> SUFFICES ASSUME NEW f \in Directories, NEW l \in Names
                 PROVE  Beneath(tree[f][l], f)'
      BY Zenon DEF Parents
    <3>1. CASE tree'[f][l] = x
      <4>1. f = e
        BY <2>2, <3>1
      <4>. QED
        BY <1>3, <2>1, <3>1, <4>1, Zenon
    <3>2. CASE f = d /\ l = n
      BY <1>2, <1>3, <3>2 DEF Beneath, Nodes
    <3>3. CASE tree'[f][l] # x /\ ~(f = d /\ l = n)
      <4>1. tree'[f][l] = tree[f][l]
        BY <1>3, <3>3
      <4>2. Beneath(tree[f][l], f)
        BY <2>1, <3>3, <4>1, Zenon DEF Parents
      <4>. QED
        BY <1>3, <4>1, <4>2, Zenon
    <3>. QED
      BY <3>1, <3>2, <3>3
  <2>. QED
    BY <1>3, <1>4, <2>3, <2>4 DEF OneTree
<1>. QED
  BY <1>1, <1>3, <1>4 DEF NInv, Planned

LEMMA MovingWritten ==
    ASSUME NInv, WriteEntries, NEW x, x = call.node,
           NEW d \in Directories, NEW n \in Names, NEW e \in Directories, NEW m \in Names,
           Moving(x, d, n, e, m)
    PROVE  NInv'
<1>1. /\ call.op = "rename" /\ x \in Nodes /\ <<d, n>> # <<e, m>> /\ Clear(x, d, e) /\ Head(todo).kind = "put"
      /\ \A c : ~Unprepared(c)
  BY Zenon DEF Moving, WriteEntries, Due, Unprepared
<1>2. Moving(x, d, n, e, m)' /\ Typed' /\ (~doubled' => OneTree') /\ call' = call => NInv'
  BY DEF NInv, Planned
<1>3. CASE /\ d = e
           /\ todo = <<PutAll(d, [l \in {n, m} |-> IF l = n THEN None ELSE x])>>
           /\ ~doubled => OnlyAt(x, d, n) /\ Beneath(x, d) /\ Vacant(e, m)
  <2>1. n # m
    BY <1>1, <1>3
  <2>. QED
    BY <1>1, <1>3, <2>1, RenamedInPlace
<1>4. CASE Head(todo) = Flush({})
  BY <1>1, <1>4, Kinds
<1>5. CASE /\ \/ d = e /\ todo = <<Put(e, m, x), Put(d, n, None)>>
              \/ x \in Files /\ todo = <<Put(e, m, x), Put(d, n, None)>>
              \/ x \in Clusters /\ todo = <<Put(e, m, x), Put(x, "..", Link(e)), Put(d, n, None)>>
           /\ ~doubled => OnlyAt(x, d, n) /\ Beneath(x, d) /\ Vacant(e, m)
  <2>1. CASE /\ d = e \/ x \in Files
             /\ todo = <<Put(e, m, x), Put(d, n, None)>>
    <3>1. Head(todo) = Put(e, m, x) /\ Tail(todo) = <<Put(d, n, None)>> /\ Len(todo) > 1
      <4>1. Len(todo) = 2
        BY <2>1, Tuples
      <4>. QED
        BY <2>1, <4>1, Tuples
    <3>2. /\ Clear(x, d, e)' /\ Typed' /\ todo' = <<Put(d, n, None)>> /\ call' = call /\ doubled' = doubled
          /\ ~doubled => OneTree' /\ AtBoth(x, d, n, e, m)' /\ Beneath(x, d)'
      BY <1>1, <1>5, <3>1, NewNameWritten, Zenon
    <3>3. ~doubled => Beneath(x, e)'
      <4>1. CASE d = e
        BY <3>2, <4>1, Zenon
      <4>2. CASE x \in Files
        BY <4>2, TreeAssumption DEF Beneath
      <4>. QED
        BY <2>1, <4>1, <4>2
    <3>4. Moving(x, d, n, e, m)'
      BY <1>1, <3>2, <3>3, Zenon DEF Moving
    <3>. QED
      BY <1>2, <3>2, <3>4
  <2>2. CASE x \in Clusters /\ todo = <<Put(e, m, x), Put(x, "..", Link(e)), Put(d, n, None)>>
    <3>1. /\ Head(todo) = Put(e, m, x) /\ Len(todo) > 1
          /\ Tail(todo) = <<Put(x, "..", Link(e)), Put(d, n, None)>>
      <4>1. Len(todo) = 3
        BY <2>2, Tuples
      <4>. QED
        BY <2>2, <4>1, Tuples
    <3>2. /\ Clear(x, d, e)' /\ Typed' /\ todo' = <<Put(x, "..", Link(e)), Put(d, n, None)>> /\ call' = call
          /\ doubled' = doubled
          /\ ~doubled => OneTree' /\ AtBoth(x, d, n, e, m)'
      BY <1>1, <1>5, <3>1, NewNameWritten, Zenon
    <3>3. Moving(x, d, n, e, m)'
      BY <1>1, <2>2, <3>2, Zenon DEF Moving
    <3>. QED
      BY <1>2, <3>2, <3>3
  <2>. QED
    BY <1>5, <2>1, <2>2
<1>6. CASE /\ x \in Clusters
           /\ todo = <<Put(x, "..", Link(e)), Put(d, n, None)>>
           /\ ~doubled => AtBoth(x, d, n, e, m)
  <2>1. /\ Clear(x, d, e)' /\ Typed' /\ todo' = <<Put(d, n, None)>> /\ call' = call /\ doubled' = doubled
        /\ ~doubled => OneTree' /\ AtBoth(x, d, n, e, m)' /\ Beneath(x, e)'
    BY <1>1, <1>6, ParentWritten
  <2>2. Moving(x, d, n, e, m)'
    BY <1>1, <2>1, Zenon DEF Moving
  <2>. QED
    BY <1>2, <2>1, <2>2
<1>7. CASE /\ todo = <<Put(d, n, None)>>
           /\ ~doubled => AtBoth(x, d, n, e, m) /\ Beneath(x, e)
  BY <1>1, <1>7, OldNameWritten
<1>8. (\/ todo = <<Flush({}), Put(e, m, x), Put(d, n, None)>>
       \/ todo = <<Flush({}), Put(e, m, x), Put(x, "..", Link(e)), Put(d, n, None)>>)
         => Head(todo) = Flush({})
  BY Tuples
<1>. QED
  BY <1>3, <1>4, <1>5, <1>6, <1>7, <1>8, Zenon DEF Moving

LEMMA NWriteEntriesStep ==
    ASSUME NInv, WriteEntries
    PROVE  NInv'
<1>1. PICK x : x = call.node
  OBVIOUS
<1>2. call # Idle
  BY DEF WriteEntries, Due
<1>3. ASSUME NEW d \in Directories, NEW n \in Names, Creating(x, d, n)
      PROVE  NInv'
  BY <1>1, <1>3, CreatingWritten
<1>4. ASSUME NEW d \in Directories, NEW n \in Names, Removing(x, d, n)
      PROVE  NInv'
  BY <1>1, <1>4, RemovingWritten
<1>5. ASSUME NEW d \in Directories, NEW n \in Names, NEW e \in Directories, NEW m \in Names,
             Moving(x, d, n, e, m)
      PROVE  NInv'
  BY <1>1, <1>5, MovingWritten
<1>6. ASSUME NEW d \in Directories, NEW n \in Names, NEW e \in Directories, NEW m \in Names,
             NEW y \in Files, Replacing(x, d, n, y, e, m)
      PROVE  NInv'
  BY <1>1, <1>6, ReplacingWritten
<1>. QED
  BY <1>1, <1>2, <1>3, <1>4, <1>5, <1>6 DEF NInv, Planned

-----------------------------------------------------------------------------
(***************************************************************************)
(* Flushes, and the ways a call ends early.                                *)
(***************************************************************************)

\* A flush frees what has no name.
LEMMA Flushed ==
    ASSUME NInv, FlushTable, NEW frees, Head(todo) = Flush(frees), \A c : ~Unprepared(c),
           ~doubled => \A z \in frees : Unnamed(z)
    PROVE  /\ Typed'
           /\ allocated' = allocated \ frees /\ onDevice' = allocated'
           /\ todo' = Tail(todo)
           /\ call' = IF Len(todo) > 1 THEN call ELSE Idle
           /\ UNCHANGED <<tree, troubles, doubled, staled>>
           /\ \A f : ShowsNothing(f) => ShowsNothing(f)'
           /\ ~doubled => Named' /\ Shown' /\ FreeShowNothing'
<1>1. /\ allocated' = allocated \ frees /\ onDevice' = allocated'
      /\ resident' = [f \in Directories |-> IF f \in frees THEN NotRead ELSE resident[f]]
      /\ todo' = Tail(todo)
      /\ call' = IF Len(todo) > 1 THEN call ELSE Idle
      /\ UNCHANGED <<tree, troubles, doubled, staled>>
  BY Kinds DEF FlushTable, Advance
<1>2. /\ resident' = [f \in Directories |-> resident'[f]]
      /\ \A f \in Directories : resident'[f] = IF f \in frees THEN NotRead ELSE resident[f]
  BY <1>1
<1>3. Typed'
  <2>1. Typed
    BY DEF NInv
  <2>2. \A f \in allocated \cap Clusters : Whole(tree[f])
    BY <2>1 DEF Typed
  <2>3. \A f \in Directories : resident'[f] # NotRead => Whole(resident'[f])
    BY <1>2, <2>1 DEF Typed
  <2>4. allocated' \subseteq Nodes
    BY <1>1, <2>1 DEF Typed
  <2>. QED
    BY <1>1, <1>2, <2>1, <2>2, <2>3, <2>4, Zenon DEF Typed, Whole
<1>4. \A f : ShowsNothing(f) => ShowsNothing(f)'
  BY <1>2 DEF ShowsNothing, Directories
<1>5. ASSUME ~doubled
      PROVE  Named' /\ Shown' /\ FreeShowNothing'
  <2>1. Named /\ Shown /\ FreeShowNothing
    BY <1>5 DEF NInv, OneTree
  <2>2. Named'
    BY <1>1, <1>5, <2>1 DEF Named, Unnamed
  <2>3. Shown'
    BY <1>1, <1>2, <2>1 DEF Shown
  <2>4. FreeShowNothing'
    BY <1>1, <1>2, <1>4, <2>1 DEF FreeShowNothing, ShowsNothing, Directories
  <2>. QED
    BY <2>2, <2>3, <2>4
<1>. QED
  BY <1>1, <1>3, <1>4, <1>5

\* What a call's flush is about to free has no name.
LEMMA FreesUnnamed ==
    ASSUME NInv, Due("flush")
    PROVE  \E frees :
             /\ Head(todo) = Flush(frees)
             /\ \A c : ~Unprepared(c)
             /\ ~doubled => \A z \in frees : Unnamed(z) /\ ShowsNothing(z)
<1>1. call # Idle /\ Head(todo).kind = "flush"
  BY DEF Due
<1>2. PICK x : x = call.node
  OBVIOUS
<1>3. ASSUME NEW d \in Directories, NEW n \in Names, Creating(x, d, n)
      PROVE  Head(todo) = Flush({}) /\ \A c : ~Unprepared(c)
  <2>1. CASE todo = <<Flush({}), Put(d, n, x)>>
    BY <2>1, Tuples DEF Unprepared
  <2>2. CASE todo = <<Prepare(x, d), Flush({}), Put(d, n, x)>>
    BY <1>1, <2>2, Tuples, Kinds
  <2>3. CASE todo = <<Put(d, n, x)>>
    BY <1>1, <2>3, Tuples, Kinds
  <2>. QED
    BY <1>3, <2>1, <2>2, <2>3, Zenon DEF Creating
<1>4. ASSUME NEW d \in Directories, NEW n \in Names, Removing(x, d, n)
      PROVE  /\ Head(todo) = Flush({x})
             /\ \A c : ~Unprepared(c)
             /\ ~doubled => Unnamed(x) /\ ShowsNothing(x)
  <2>1. CASE todo = <<Put(d, n, None), Flush({x})>>
    BY <1>1, <2>1, Tuples, Kinds
  <2>2. CASE todo = <<Flush({x})>> /\ (~doubled => Unnamed(x))
    <3>1. Head(todo) = Flush({x}) /\ Len(todo) = 1
      BY <2>2, Tuples
    <3>2. ~doubled => ShowsNothing(x)
      BY <1>4, Zenon DEF Removing
    <3>. QED
      BY <2>2, <3>1, <3>2 DEF Unprepared
  <2>. QED
    BY <1>4, <2>1, <2>2, Zenon DEF Removing
<1>5. ASSUME NEW d \in Directories, NEW n \in Names, NEW e \in Directories, NEW m \in Names,
             Moving(x, d, n, e, m)
      PROVE  Head(todo) = Flush({}) /\ \A c : ~Unprepared(c)
  <2>1. \A c : ~Unprepared(c)
    BY <1>5, Zenon DEF Moving, Unprepared
  <2>3. CASE Head(todo) = Flush({})
    BY <2>1, <2>3
  <2>4. (\/ todo = <<Flush({}), Put(e, m, x), Put(d, n, None)>>
         \/ todo = <<Flush({}), Put(e, m, x), Put(x, "..", Link(e)), Put(d, n, None)>>)
           => Head(todo) = Flush({})
    BY Tuples
  <2>5. \A f, p : todo # <<PutAll(f, p)>>
    BY <1>1, Tuples, Kinds
  <2>6. \A f, l, v : todo # <<Put(f, l, v)>>
    BY <1>1, Tuples, Kinds
  <2>7. \A f, l, v, z : todo # <<Put(f, l, v), z>>
    BY <1>1, Tuples, Kinds
  <2>8. \A f, l, v, z, y : todo # <<Put(f, l, v), z, y>>
    BY <1>1, Tuples, Kinds
  <2>. QED
    BY <1>5, <2>3, <2>4, <2>5, <2>6, <2>7, <2>8, Zenon DEF Moving
<1>6. ASSUME NEW d \in Directories, NEW n \in Names, NEW e \in Directories, NEW m \in Names,
             NEW y \in Files, Replacing(x, d, n, y, e, m)
      PROVE  /\ Head(todo) = Flush({y})
             /\ \A c : ~Unprepared(c)
             /\ ~doubled => Unnamed(y) /\ ShowsNothing(y)
  <2>1. \A c : ~Unprepared(c)
    BY <1>6, Zenon DEF Replacing, Unprepared
  <2>2. ShowsNothing(y)
    BY TreeAssumption DEF ShowsNothing
  <2>3. CASE todo = <<Flush({y})>> /\ (~doubled => Unnamed(y))
    BY <2>1, <2>2, <2>3, Tuples
  <2>4. CASE \/ todo = <<Put(d, n, None), Put(e, m, x), Flush({y})>>
             \/ todo = <<Put(e, m, x), Flush({y})>>
    BY <1>1, <2>4, Tuples, Kinds
  <2>. QED
    BY <1>6, <2>3, <2>4, Zenon DEF Replacing
<1>. DEFINE Goal == \E frees : /\ Head(todo) = Flush(frees)
                               /\ \A c : ~Unprepared(c)
                               /\ ~doubled => \A z \in frees : Unnamed(z) /\ ShowsNothing(z)
<1>7. ASSUME NEW frees, Head(todo) = Flush(frees), \A c : ~Unprepared(c),
             ~doubled => \A z \in frees : Unnamed(z) /\ ShowsNothing(z)
      PROVE  Goal
  BY <1>7, Zenon
<1>8. ASSUME NEW d \in Directories, NEW n \in Names, Creating(x, d, n) \/ Removing(x, d, n)
      PROVE  Goal
  <2>1. CASE Creating(x, d, n)
    BY <1>3, <1>7, <2>1
  <2>2. CASE Removing(x, d, n)
    BY <1>4, <1>7, <2>2
  <2>. QED
    BY <1>8, <2>1, <2>2
<1>9. ASSUME NEW d \in Directories, NEW n \in Names, NEW e \in Directories, NEW m \in Names,
              Moving(x, d, n, e, m) \/ \E y \in Files : Replacing(x, d, n, y, e, m)
       PROVE  Goal
  <2>1. CASE Moving(x, d, n, e, m)
    BY <1>5, <1>7, <2>1
  <2>2. ASSUME NEW y \in Files, Replacing(x, d, n, y, e, m)
        PROVE  Goal
    BY <1>6, <1>7, <2>2
  <2>. QED
    BY <1>9, <2>1, <2>2
<1>. HIDE DEF Goal
<1>10. Goal
  BY <1>1, <1>2, <1>8, <1>9, Zenon DEF NInv, Planned
<1>. QED
  BY <1>10 DEF Goal

\* What a stopped call leaves has one name, if the call did not leave two.
LEMMA OneNameLeft ==
    ASSUME NInv, ~doubled, call.op = "rename" => ~Doubling
    PROVE  /\ \A d, e \in Directories, n, m \in Names :
                 tree[d][n] \in Nodes /\ tree[d][n] = tree[e][m] => d = e /\ n = m
           /\ \A d \in Directories, n \in Names : Beneath(tree[d][n], d)
<1>1. Single /\ Parents
  BY DEF NInv, OneTree
<1>2. CASE call.op # "rename"
  BY <1>1, <1>2 DEF Single, Parents
<1>3. CASE call.op = "rename"
  <2>1. PICK x : x = call.node
    OBVIOUS
  <2>2. \A d, e \in Directories, n, m \in Names :
           tree[d][n] = x /\ tree[e][m] = x => d = e /\ n = m
    <3> SUFFICES ASSUME NEW d \in Directories, NEW e \in Directories, NEW n \in Names, NEW m \in Names,
                        tree[d][n] = x, tree[e][m] = x
                 PROVE  d = e /\ n = m
      OBVIOUS
    <3>1. <<d, n>> \in NamesOf(x) /\ <<e, m>> \in NamesOf(x)
      BY DEF NamesOf
    <3>2. <<d, n>> = <<e, m>>
      BY <1>3, <2>1, <3>1, Zenon DEF Doubling
    <3>. QED
      BY <3>2
  <2>3. \A d, e \in Directories, n, m \in Names :
           tree[d][n] \in Nodes /\ tree[d][n] = tree[e][m] => d = e /\ n = m
    BY <1>1, <2>1, <2>2 DEF Single
  <2>4. ASSUME NEW f \in Directories, NEW l \in Names, tree[f][l] = x
        PROVE  Beneath(x, f)
    <3>1. ASSUME NEW d \in Directories, NEW n \in Names, NEW e \in Directories, NEW m \in Names,
                 Moving(x, d, n, e, m)
          PROVE  Beneath(x, f)
      <4>1. <<d, n>> # <<e, m>> /\ ((OnlyAt(x, d, n) /\ Beneath(x, d)) \/ AtBoth(x, d, n, e, m))
        BY <3>1, Zenon DEF Moving
      <4>2. CASE OnlyAt(x, d, n) /\ Beneath(x, d)
        <5>1. f = d
          BY <2>4, <4>2 DEF OnlyAt
        <5>. QED
          BY <4>2, <5>1
      <4>3. CASE AtBoth(x, d, n, e, m)
        BY <2>2, <4>1, <4>3 DEF AtBoth
      <4>. QED
        BY <4>1, <4>2, <4>3
    <3>2. ASSUME NEW y \in Files, NEW d \in Directories, NEW n \in Names, NEW e \in Directories,
                 NEW m \in Names, Replacing(x, d, n, y, e, m)
          PROVE  Beneath(x, f)
      <4>1. x \in Files
        BY <3>2, Zenon DEF Replacing
      <4>. QED
        BY <4>1, TreeAssumption DEF Beneath
    <3>3. \A d \in Directories, n \in Names : ~Creating(x, d, n) /\ ~Removing(x, d, n)
      BY <1>3 DEF Creating, Removing
    <3>4. call # Idle
      BY <1>3 DEF Idle
    <3>. QED
      BY <2>1, <3>1, <3>2, <3>3, <3>4, Zenon DEF NInv, Planned
  <2>5. ASSUME NEW d \in Directories, NEW n \in Names
        PROVE  Beneath(tree[d][n], d)
    <3>1. CASE tree[d][n] = x
      BY <2>4, <3>1
    <3>2. CASE tree[d][n] # x
      BY <1>1, <2>1, <3>2, Zenon DEF Parents
    <3>. QED
      BY <3>1, <3>2
  <2>. QED
    BY <2>3, <2>5
<1>. QED
  BY <1>2, <1>3

\* Such names are one tree in the next state too, if it has them.
LEMMA OneNameAfter ==
    ASSUME NInv, ~doubled, call.op = "rename" => ~Doubling, tree' = tree
    PROVE  Single' /\ Parents'
<1>1. Single'
  BY OneNameLeft DEF Single
<1>2. Parents'
  <2> SUFFICES ASSUME NEW d \in Directories, NEW n \in Names
               PROVE  Beneath(tree[d][n], d)'
    BY Zenon DEF Parents
  <2>1. Beneath(tree[d][n], d)
    BY OneNameLeft, Zenon
  <2>. QED
    BY <2>1 DEF Beneath
<1>. QED
  BY <1>1, <1>2

LEMMA NFlushTableStep ==
    ASSUME NInv, FlushTable
    PROVE  NInv'
<1>1. Due("flush") /\ Head(todo).kind = "flush" /\ call # Idle
  BY DEF FlushTable, Due
<1>2. PICK frees : /\ Head(todo) = Flush(frees)
                   /\ \A c : ~Unprepared(c)
                   /\ ~doubled => \A z \in frees : Unnamed(z) /\ ShowsNothing(z)
  BY <1>1, FreesUnnamed
<1>3. /\ Typed'
      /\ allocated' = allocated \ frees /\ onDevice' = allocated'
      /\ todo' = Tail(todo)
      /\ call' = IF Len(todo) > 1 THEN call ELSE Idle
      /\ UNCHANGED <<tree, troubles, doubled, staled>>
      /\ \A f : ShowsNothing(f) => ShowsNothing(f)'
      /\ ~doubled => Named' /\ Shown' /\ FreeShowNothing'
  BY <1>2, Flushed
<1>4. PICK x : x = call.node
  OBVIOUS
<1>5. ASSUME call' = call, NEW d \in Directories, NEW n \in Names,
             \/ Creating(x, d, n)'
             \/ \E e \in Directories, m \in Names : Moving(x, d, n, e, m)'
      PROVE  NInv'
  <2>1. ~doubled' => OneTree'
    <3>1. ASSUME ~doubled PROVE Single' /\ Parents'
      <4>1. Single /\ Parents
        BY <3>1 DEF NInv, OneTree
      <4>. QED
        BY <1>3, <1>5, <4>1 DEF Single, Parents, Beneath
    <3>. QED
      BY <1>3, <3>1 DEF OneTree
  <2>2. Planned'
    BY <1>4, <1>5 DEF Planned
  <2>. QED
    BY <1>3, <2>1, <2>2 DEF NInv
<1>6. ASSUME NEW z, todo = <<Flush(z)>>, call.op = "rename" => (~doubled => ~Doubling)
      PROVE  NInv'
  <2>1. Tail(todo) = <<>> /\ Len(todo) = 1
    BY <1>6, Tuples
  <2>2. call' = Idle /\ todo' = <<>>
    BY <1>3, <2>1
  <2>3. ~doubled' => OneTree'
    BY <1>3, <1>6, OneNameAfter DEF OneTree
  <2>. QED
    BY <1>3, <2>2, <2>3 DEF NInv, Planned
<1>7. ASSUME NEW d \in Directories, NEW n \in Names, Creating(x, d, n)
      PROVE  NInv'
  <2>1. /\ call.op \in {"create", "create_dir"}
        /\ x \in allocated /\ x # d
        /\ IF call.op = "create" THEN x \in Files ELSE x \in Clusters
        /\ ~doubled => Unnamed(x) /\ ShowsNothing(x) /\ Vacant(d, n)
    BY <1>7, Zenon DEF Creating
  <2>2. todo = <<Flush({}), Put(d, n, x)>> /\ (~doubled => Beneath(x, d))
    <3>1. /\ todo # <<Prepare(x, d), Flush({}), Put(d, n, x)>>
          /\ todo # <<Put(d, n, x)>>
      BY <1>1, Tuples, Kinds
    <3>. QED
      BY <1>7, <3>1, Zenon DEF Creating
  <2>3. frees = {} /\ todo' = <<Put(d, n, x)>> /\ call' = call
    <3>1. Head(todo) = Flush({}) /\ Tail(todo) = <<Put(d, n, x)>> /\ Len(todo) = 2
      BY <2>2, Tuples
    <3>2. frees = {}
      BY <1>2, <3>1, Kinds
    <3>. QED
      BY <1>3, <3>1, <3>2
  <2>4. /\ x \in allocated' /\ x \in onDevice' /\ call'.op = call.op /\ doubled' = doubled
        /\ ~doubled => Unnamed(x)' /\ ShowsNothing(x)' /\ Beneath(x, d)' /\ Vacant(d, n)'
    BY <1>3, <2>1, <2>2, <2>3 DEF Unnamed, Beneath, Vacant
  <2>5. Creating(x, d, n)'
    BY <2>1, <2>3, <2>4, Zenon DEF Creating
  <2>. QED
    BY <1>5, <2>3, <2>5
<1>8. ASSUME NEW d \in Directories, NEW n \in Names, Removing(x, d, n)
      PROVE  NInv'
  <2>1. todo # <<Put(d, n, None), Flush({x})>>
    BY <1>1, Tuples, Kinds
  <2>2. todo = <<Flush({x})>> /\ call.op # "rename"
    BY <1>8, <2>1 DEF Removing
  <2>. QED
    BY <1>6, <2>2
<1>9. ASSUME NEW d \in Directories, NEW n \in Names, NEW e \in Directories, NEW m \in Names,
             NEW y \in Files, Replacing(x, d, n, y, e, m)
      PROVE  NInv'
  <2>1. /\ todo # <<Put(d, n, None), Put(e, m, x), Flush({y})>>
        /\ todo # <<Put(e, m, x), Flush({y})>>
    BY <1>1, Tuples, Kinds
  <2>2. todo = <<Flush({y})>> /\ (~doubled => OnlyAt(x, e, m))
    BY <1>9, <2>1, Zenon DEF Replacing
  <2>3. ~doubled => ~Doubling
    BY <1>4, <2>2 DEF Doubling, NamesOf, OnlyAt
  <2>. QED
    BY <1>6, <2>2, <2>3
<1>10. ASSUME NEW d \in Directories, NEW n \in Names, NEW e \in Directories, NEW m \in Names,
              Moving(x, d, n, e, m)
       PROVE  NInv'
  <2>1. /\ call.op = "rename" /\ x \in Nodes /\ <<d, n>> # <<e, m>> /\ Clear(x, d, e)
    BY <1>10, Zenon DEF Moving
  <2>2. /\ \A f, p : todo # <<PutAll(f, p)>>
        /\ \A f, l, v : todo # <<Put(f, l, v)>>
        /\ \A f, l, v, z : todo # <<Put(f, l, v), z>>
        /\ \A f, l, v, z, y : todo # <<Put(f, l, v), z, y>>
    <3>1. \A f, p : todo # <<PutAll(f, p)>>
      BY <1>1, Tuples, Kinds
    <3>2. \A f, l, v : todo # <<Put(f, l, v)>>
      BY <1>1, Tuples, Kinds
    <3>3. \A f, l, v, z : todo # <<Put(f, l, v), z>>
      BY <1>1, Tuples, Kinds
    <3>4. \A f, l, v, z, y : todo # <<Put(f, l, v), z, y>>
      BY <1>1, Tuples, Kinds
    <3>. QED
      BY <3>1, <3>2, <3>3, <3>4
  <2>3. /\ \/ d = e /\ todo = <<Flush({}), Put(e, m, x), Put(d, n, None)>>
           \/ x \in Files /\ todo = <<Flush({}), Put(e, m, x), Put(d, n, None)>>
           \/ /\ x \in Clusters
              /\ todo = <<Flush({}), Put(e, m, x), Put(x, "..", Link(e)), Put(d, n, None)>>
        /\ ~doubled => OnlyAt(x, d, n) /\ Beneath(x, d) /\ Vacant(e, m)
    BY <1>10, <2>2, Zenon DEF Moving
  <2>4. /\ \/ d = e /\ todo' = <<Put(e, m, x), Put(d, n, None)>>
           \/ x \in Files /\ todo' = <<Put(e, m, x), Put(d, n, None)>>
           \/ x \in Clusters /\ todo' = <<Put(e, m, x), Put(x, "..", Link(e)), Put(d, n, None)>>
        /\ call' = call
    <3>1. Len(todo) > 1
      <4>1. Len(todo) = 3 \/ Len(todo) = 4
        BY <2>3, Tuples
      <4>. QED
        BY <4>1
    <3>2. \A a, b, c : todo = <<a, b, c>> => Tail(todo) = <<b, c>>
      BY Tuples
    <3>3. \A a, b, c, g : todo = <<a, b, c, g>> => Tail(todo) = <<b, c, g>>
      BY Tuples
    <3>. QED
      BY <1>3, <2>3, <3>1, <3>2, <3>3
  <2>5. ~doubled' => OnlyAt(x, d, n)' /\ Beneath(x, d)' /\ Vacant(e, m)'
    BY <1>3, <2>3 DEF OnlyAt, Beneath, Vacant
  <2>6. Clear(x, d, e)'
    BY <1>3, <2>1 DEF Clear, Apart, ClosedBut
  <2>7. Moving(x, d, n, e, m)'
    BY <2>1, <2>4, <2>5, <2>6, Zenon DEF Moving
  <2>. QED
    BY <1>5, <2>4, <2>7
<1>. QED
  BY <1>1, <1>4, <1>7, <1>8, <1>9, <1>10 DEF NInv, Planned

\* Only what a removal and a replacement free can be free already, and neither
\* leaves two names.
LEMMA NFreeFailsStep ==
    ASSUME NInv, FreeFails
    PROVE  NInv'
<1>1. /\ Due("flush") /\ Head(todo).kind = "flush" /\ call # Idle
      /\ ~(Head(todo).frees \subseteq allocated)
      /\ call' = Idle /\ todo' = <<>>
      /\ UNCHANGED <<allocated, resident, onDevice, tree, troubles, doubled, staled>>
  BY DEF FreeFails, Due
<1>2. \A c : ~Unprepared(c)
  BY <1>1, FreesUnnamed
<1>3. Head(todo) # Flush({})
  BY <1>1, Kinds
<1>4. PICK x : x = call.node
  OBVIOUS
<1>5. ASSUME NEW d \in Directories, NEW n \in Names, NEW e \in Directories, NEW m \in Names,
             Moving(x, d, n, e, m)
      PROVE  FALSE
  <2>1. /\ \A f, p : todo # <<PutAll(f, p)>>
        /\ \A f, l, v : todo # <<Put(f, l, v)>>
    <3>1. \A f, p : todo # <<PutAll(f, p)>>
      BY <1>1, Tuples, Kinds
    <3>2. \A f, l, v : todo # <<Put(f, l, v)>>
      BY <1>1, Tuples, Kinds
    <3>. QED
      BY <3>1, <3>2
  <2>2. \A f, l, v, z : todo # <<Put(f, l, v), z>>
    BY <1>1, Tuples, Kinds
  <2>3. \A f, l, v, z, y : todo # <<Put(f, l, v), z, y>>
    BY <1>1, Tuples, Kinds
  <2>4. \A z, y : todo # <<Flush({}), z, y>>
    BY <1>3, Tuples
  <2>5. \A z, y, a : todo # <<Flush({}), z, y, a>>
    BY <1>3, Tuples
  <2>. QED
    BY <1>5, <2>1, <2>2, <2>3, <2>4, <2>5, Zenon DEF Moving
<1>6. ASSUME NEW d \in Directories, NEW n \in Names, NEW e \in Directories, NEW m \in Names,
             NEW y \in Files, Replacing(x, d, n, y, e, m)
      PROVE  ~doubled => ~Doubling
  <2>1. /\ todo # <<Put(d, n, None), Put(e, m, x), Flush({y})>>
        /\ todo # <<Put(e, m, x), Flush({y})>>
    BY <1>1, Tuples, Kinds
  <2>2. ~doubled => OnlyAt(x, e, m)
    BY <1>6, <2>1, Zenon DEF Replacing
  <2>. QED
    BY <1>4, <2>2 DEF Doubling, NamesOf, OnlyAt
<1>7. \A d \in Directories, n \in Names :
         Creating(x, d, n) \/ Removing(x, d, n) => call.op # "rename"
  BY DEF Creating, Removing
<1>8. call.op = "rename" => (~doubled => ~Doubling)
  BY <1>1, <1>4, <1>5, <1>6, <1>7, Zenon DEF NInv, Planned
<1>9. ~doubled' => OneTree'
  <2>1. ~doubled => Named' /\ Shown' /\ FreeShowNothing'
    BY <1>1 DEF NInv, OneTree, Named, Shown, FreeShowNothing, ShowsNothing
  <2>. QED
    BY <1>1, <1>8, <2>1, OneNameAfter DEF OneTree
<1>10. Typed'
  <2>1. Typed /\ \A c \in allocated \cap Clusters : Whole(tree[c])
    BY <1>2 DEF NInv, Typed
  <2>. QED
    BY <1>1, <2>1, Zenon DEF Typed, Whole
<1>. QED
  BY <1>1, <1>9, <1>10 DEF NInv, Planned

\* What a call that is cut short gives back has no name and shows none.
LEMMA GivenBack ==
    ASSUME NInv, call # Idle,
           NEW frees, frees = (IF Head(todo).kind = "flush" THEN Head(todo).frees ELSE {}),
           NEW undone,
           undone = (IF call.op \in {"create", "create_dir"} THEN {call.node} ELSE {})
    PROVE  /\ ~doubled => \A z \in frees \cup undone : Unnamed(z) /\ ShowsNothing(z)
           /\ \A c : Unprepared(c) => c \in undone
<1>1. ~doubled => \A z \in frees : Unnamed(z) /\ ShowsNothing(z)
  <2>1. CASE Head(todo).kind = "flush"
    <3>1. Due("flush")
      BY <2>1 DEF Due
    <3>2. PICK f : /\ Head(todo) = Flush(f)
                   /\ ~doubled => \A z \in f : Unnamed(z) /\ ShowsNothing(z)
      BY <3>1, FreesUnnamed
    <3>3. frees = f
      BY <2>1, <3>2, Kinds
    <3>. QED
      BY <3>2, <3>3
  <2>2. CASE Head(todo).kind # "flush"
    BY <2>2
  <2>. QED
    BY <2>1, <2>2
<1>2. ~doubled => \A z \in undone : Unnamed(z) /\ ShowsNothing(z)
  <2> SUFFICES ASSUME ~doubled, call.op \in {"create", "create_dir"}
               PROVE  Unnamed(call.node) /\ ShowsNothing(call.node)
    OBVIOUS
  <2>1. PICK d \in Directories, n \in Names : Creating(call.node, d, n)
    <3>1. \A x, d, n : Removing(x, d, n) => call.op \notin {"create", "create_dir"}
      BY DEF Removing
    <3>2. \A x, d, n, e, m : Moving(x, d, n, e, m) => call.op \notin {"create", "create_dir"}
      BY DEF Moving
    <3>3. \A x, d, n, y, e, m :
             Replacing(x, d, n, y, e, m) => call.op \notin {"create", "create_dir"}
      BY DEF Replacing
    <3>. QED
      BY <3>1, <3>2, <3>3, Zenon DEF NInv, Planned
  <2>. QED
    BY <2>1, Zenon DEF Creating
<1>3. \A c : Unprepared(c) => c \in undone
  BY DEF Unprepared
<1>. QED
  BY <1>1, <1>2, <1>3

LEMMA NFailStep ==
    ASSUME NInv, Fail
    PROVE  NInv'
<1>1. PICK frees, undone :
        /\ frees = (IF Head(todo).kind = "flush" THEN Head(todo).frees ELSE {})
        /\ undone = (IF call.op \in {"create", "create_dir"} THEN {call.node} ELSE {})
  OBVIOUS
<1>2. /\ troubles < MaxTroubles /\ call # Idle /\ troubles' = troubles + 1
      /\ allocated' = allocated \ (frees \cup undone)
      /\ staled' = (staled \/ frees \cap Clusters # {})
      /\ doubled' = (doubled \/ Doubling)
      /\ call' = Idle /\ todo' = <<>>
      /\ UNCHANGED <<resident, onDevice, tree>>
  BY <1>1, Zenon DEF Fail
<1>3. /\ ~doubled => \A z \in frees \cup undone : Unnamed(z) /\ ShowsNothing(z)
      /\ \A c : Unprepared(c) => c \in undone
  BY <1>1, <1>2, GivenBack
<1>4. Typed'
  <2>1. Typed
    BY DEF NInv
  <2>2. \A c \in allocated' \cap Clusters : Whole(tree[c])
    BY <1>2, <1>3, <2>1 DEF Typed
  <2>3. allocated' \subseteq Nodes /\ troubles' \in 0 .. MaxTroubles
    BY <1>2, <2>1, TreeAssumption DEF Typed
  <2>4. doubled' \in BOOLEAN /\ staled' \in BOOLEAN
    BY <1>2, <2>1 DEF Typed
  <2>. QED
    BY <1>2, <2>1, <2>2, <2>3, <2>4, Zenon DEF Typed, Whole
<1>5. ASSUME ~doubled'
      PROVE  OneTree'
  <2>1. ~doubled /\ ~Doubling
    BY <1>2, <1>5
  <2>2. Single' /\ Parents'
    BY <1>2, <2>1, OneNameAfter
  <2>3. OneTree
    BY <2>1 DEF NInv
  <2>4. Named'
    BY <1>2, <1>3, <2>1, <2>3 DEF OneTree, Named, Unnamed
  <2>5. Shown'
    BY <1>2, <2>3 DEF OneTree, Shown
  <2>6. FreeShowNothing'
    BY <1>2, <1>3, <2>1, <2>3 DEF OneTree, FreeShowNothing, ShowsNothing
  <2>. QED
    BY <2>2, <2>4, <2>5, <2>6 DEF OneTree
<1>. QED
  BY <1>2, <1>4, <1>5 DEF NInv, Planned

LEMMA NCrashStep ==
    ASSUME NInv, Crash
    PROVE  NInv'
<1>1. /\ troubles < MaxTroubles /\ troubles' = troubles + 1
      /\ allocated' = onDevice /\ onDevice' = onDevice /\ tree' = tree
      /\ resident' = [d \in Directories |-> NotRead]
      /\ doubled' = (doubled \/ Doubling) /\ staled' = FALSE
      /\ call' = Idle /\ todo' = <<>>
  BY DEF Crash
<1>2. resident' = [d \in Directories |-> resident'[d]] /\ \A d \in Directories : resident'[d] = NotRead
  BY <1>1
<1>3. Typed'
  <2>1. Typed
    BY DEF NInv
  <2>2. troubles' \in 0 .. MaxTroubles
    BY <1>1, <2>1, TreeAssumption DEF Typed
  <2>3. doubled' \in BOOLEAN /\ staled' \in BOOLEAN
    BY <1>1, <2>1 DEF Typed
  <2>. QED
    BY <1>1, <1>2, <2>1, <2>2, <2>3, Zenon DEF Typed, Whole
<1>4. ASSUME ~doubled'
      PROVE  OneTree'
  <2>1. ~doubled /\ ~Doubling
    BY <1>1, <1>4
  <2>2. Single' /\ Parents'
    BY <1>1, <2>1, OneNameAfter
  <2>3. Named'
    BY <1>1, <2>1 DEF NInv, OneTree, Named
  <2>4. Shown' /\ FreeShowNothing'
    BY <1>2 DEF Shown, FreeShowNothing, ShowsNothing, Directories
  <2>. QED
    BY <2>2, <2>3, <2>4 DEF OneTree
<1>. QED
  BY <1>1, <1>3, <1>4 DEF NInv, Planned

-----------------------------------------------------------------------------
(***************************************************************************)
(* Names and parents: the theorems.                                        *)
(***************************************************************************)

LEMMA NInit == Init => NInv
<1> SUFFICES ASSUME Init
             PROVE  NInv
  OBVIOUS
<1>1. /\ allocated = {} /\ onDevice = {} /\ call = Idle /\ todo = <<>>
      /\ resident = [d \in Directories |-> NotRead]
      /\ tree = [d \in Directories |-> IF d = Root THEN [e \in Entries |-> None] ELSE Junk]
      /\ troubles = 0 /\ doubled = FALSE /\ staled = FALSE
  BY DEF Init
<1>2. /\ \A d \in Directories : DOMAIN tree[d] = Entries
      /\ \A e \in Entries : tree[Root][e] = None
      /\ \A d \in Directories, e \in Entries : tree[d][e] \in {None, "junk"}
      /\ Root \in Directories
  BY <1>1 DEF Junk, Directories
<1>3. \A e \in Entries : None \in Values(e)
  BY WhatEntriesAre DEF Entries
<1>4. Typed
  <2>1. Whole(tree[Root]) /\ tree[Root][".."] = None
    BY <1>2, <1>3, WhatEntriesAre DEF Whole
  <2>2. \A d \in Directories, e \in Entries : tree[d][e] \in Values(e) \cup {"junk"}
    BY <1>2, <1>3
  <2>3. /\ tree = [d \in Directories |-> tree[d]] /\ resident = [d \in Directories |-> resident[d]]
        /\ \A d \in Directories : resident[d] = NotRead
    BY <1>1
  <2>4. troubles \in 0 .. MaxTroubles
    BY <1>1, TreeAssumption
  <2>. QED
    BY <1>1, <1>2, <2>1, <2>2, <2>3, <2>4, Zenon DEF Typed
<1>5. \A d \in Directories, n \in Names : tree[d][n] \notin Nodes
  BY <1>2, WhatEntriesAre
<1>6. OneTree
  <2>1. Named /\ Single
    BY <1>5 DEF Named, Single
  <2>2. Parents
    BY <1>5 DEF Parents, Beneath, Nodes
  <2>3. Shown /\ FreeShowNothing
    BY <1>1 DEF Shown, FreeShowNothing, ShowsNothing, Directories
  <2>. QED
    BY <2>1, <2>2, <2>3 DEF OneTree
<1>. QED
  BY <1>1, <1>4, <1>6 DEF NInv, Planned

\* What is named, what is planned and what is allocated fit together in every
\* reachable state.
THEOREM NamesInvariance == Spec => []NInv
<1>1. RInv /\ NInv /\ [Next]_vars => NInv'
  <2> SUFFICES ASSUME RInv, NInv, [Next]_vars
               PROVE  NInv'
    OBVIOUS
  <2>1. ASSUME NEW p \in Paths, OpenDir(p)
        PROVE  NInv'
    BY <2>1, NOpenDirStep
  <2>2. ASSUME NEW p \in Paths, NEW n \in Names, Create(p, n)
        PROVE  NInv'
    BY <2>2, NCreateStep
  <2>3. ASSUME NEW p \in Paths, NEW n \in Names, Remove(p, n)
        PROVE  NInv'
    BY <2>3, NRemoveStep
  <2>4. ASSUME NEW p \in Paths, NEW n \in Names, CreateDir(p, n)
        PROVE  NInv'
    BY <2>4, NCreateDirStep
  <2>5. ASSUME NEW p \in Paths, NEW n \in Names, RemoveDir(p, n)
        PROVE  NInv'
    BY <2>5, NRemoveDirStep
  <2>6. ASSUME NEW p \in Paths, NEW q \in Paths, NEW n \in Names, NEW m \in Names,
               Rename(p, n, q, m)
        PROVE  NInv'
    BY <2>6, NRenameStep
  <2>7. CASE WriteEntries
    BY <2>7, NWriteEntriesStep
  <2>8. CASE FlushTable
    BY <2>8, NFlushTableStep
  <2>9. CASE FreeFails
    BY <2>9, NFreeFailsStep
  <2>10. CASE Fail
    BY <2>10, NFailStep
  <2>11. CASE Crash
    BY <2>11, NCrashStep
  <2>12. CASE UNCHANGED vars
    <3>1. UNCHANGED <<allocated, resident, call, todo, onDevice, tree, troubles, doubled, staled>>
      BY <2>12 DEF vars
    <3>2. Typed'
      <4>1. Typed
        BY DEF NInv
      <4>2. \A c : Unprepared(c)' <=> Unprepared(c)
        BY <3>1, Zenon DEF Unprepared
      <4>. QED
        BY <3>1, <4>1, <4>2, Zenon DEF Typed, Whole
    <3>3. Planned'
      <4>1. /\ \A x : Unnamed(x)' <=> Unnamed(x)
            /\ \A x, d, n : OnlyAt(x, d, n)' <=> OnlyAt(x, d, n)
            /\ \A x, d, n, e, m : AtBoth(x, d, n, e, m)' <=> AtBoth(x, d, n, e, m)
            /\ \A x, d : Beneath(x, d)' <=> Beneath(x, d)
            /\ \A x : ShowsNothing(x)' <=> ShowsNothing(x)
            /\ \A d, n : Vacant(d, n)' <=> Vacant(d, n)
        BY <3>1, Zenon DEF Unnamed, OnlyAt, AtBoth, Beneath, ShowsNothing, Vacant
      <4>2. \A x, d, e : Clear(x, d, e) => Clear(x, d, e)'
        BY <3>1 DEF Clear, Apart, ClosedBut
      <4>3. \A x, d, n : Creating(x, d, n) => Creating(x, d, n)'
        BY <3>1, <4>1 DEF Creating
      <4>4. \A x, d, n : Removing(x, d, n) => Removing(x, d, n)'
        BY <3>1, <4>1, Zenon DEF Removing
      <4>5. \A x, d, n, e, m : Moving(x, d, n, e, m) => Moving(x, d, n, e, m)'
        BY <3>1, <4>1, <4>2 DEF Moving
      <4>6. \A x, d, n, y, e, m : Replacing(x, d, n, y, e, m) => Replacing(x, d, n, y, e, m)'
        BY <3>1, <4>1 DEF Replacing
      <4>7. PICK x : x = call.node
        OBVIOUS
      <4>8. x = call'.node
        BY <3>1, <4>7
      <4>9. CASE call = Idle /\ todo = <<>>
        BY <3>1, <4>9 DEF Planned
      <4>10. CASE \E d \in Directories, n \in Names : Creating(x, d, n) \/ Removing(x, d, n)
        BY <4>3, <4>4, <4>8, <4>10, Zenon DEF Planned
      <4>11. CASE \E d, e \in Directories, n, m \in Names :
                    \/ Moving(x, d, n, e, m)
                    \/ \E y \in Files : Replacing(x, d, n, y, e, m)
        <5>1. PICK d, e \in Directories, n, m \in Names :
                 \/ Moving(x, d, n, e, m)
                 \/ \E y \in Files : Replacing(x, d, n, y, e, m)
          BY <4>11
        <5>2. \/ Moving(x, d, n, e, m)'
              \/ \E y \in Files : Replacing(x, d, n, y, e, m)'
          BY <4>5, <4>6, <5>1
        <5>. QED
          BY <4>8, <5>2, Zenon DEF Planned
      <4>. QED
        BY <4>7, <4>9, <4>10, <4>11, Zenon DEF NInv, Planned
    <3>4. ~doubled' => OneTree'
      BY <3>1 DEF NInv, OneTree, Named, Single, Parents, Shown, FreeShowNothing, ShowsNothing, Beneath
    <3>. QED
      BY <3>2, <3>3, <3>4 DEF NInv
  <2>. QED
    BY <2>1, <2>2, <2>3, <2>4, <2>5, <2>6, <2>7, <2>8, <2>9, <2>10, <2>11, <2>12 DEF Next
<1>. QED
  BY <1>1, NInit, Invariance, PTL DEF Spec

\* Nodes, entries and calls have their types, in every reachable state.
THEOREM TypeCorrect == Spec => []TypeOK
<1>1. NInv => TypeOK
  <2> SUFFICES ASSUME NInv
               PROVE  TypeOK
    OBVIOUS
  <2>1. Typed /\ Planned
    BY DEF NInv
  <2>2. \A d \in Directories : /\ \A n \in Names : tree[d][n] \in Nodes \cup {None, "junk"}
                               /\ tree[d]["."] \in Clusters \cup {None, "junk"}
                               /\ tree[d][".."] \in Clusters \cup {Zero, None, "junk"}
    BY <2>1, WhatEntriesAre DEF Typed
  <2>3. \A d \in Directories : resident[d] # NotRead => DOMAIN resident[d] = Entries
    BY <2>1 DEF Typed, Whole
  <2>4. ASSUME call # Idle
        PROVE  call.node \in Nodes /\ todo # <<>>
    <3>1. PICK x : x = call.node
      OBVIOUS
    <3>2. /\ \A a : todo = <<a>> => todo # <<>>
          /\ \A a, b : todo = <<a, b>> => todo # <<>>
          /\ \A a, b, c : todo = <<a, b, c>> => todo # <<>>
          /\ \A a, b, c, e : todo = <<a, b, c, e>> => todo # <<>>
      OBVIOUS
    <3>3. ASSUME NEW d, NEW n, Creating(x, d, n)
          PROVE  x \in Nodes /\ todo # <<>>
      BY <3>2, <3>3, Zenon DEF Creating, Nodes
    <3>4. ASSUME NEW d, NEW n, Removing(x, d, n)
          PROVE  x \in Nodes /\ todo # <<>>
      BY <3>2, <3>4, Zenon DEF Removing
    <3>5. ASSUME NEW d, NEW n, NEW e, NEW m, Moving(x, d, n, e, m)
          PROVE  x \in Nodes /\ todo # <<>>
      BY <3>2, <3>5, Zenon DEF Moving
    <3>6. ASSUME NEW d, NEW n, NEW y, NEW e, NEW m, Replacing(x, d, n, y, e, m)
          PROVE  x \in Nodes /\ todo # <<>>
      BY <3>2, <3>6, Zenon DEF Replacing, Nodes
    <3>. QED
      BY <2>1, <2>4, <3>1, <3>3, <3>4, <3>5, <3>6, Zenon DEF Planned
  <2>. QED
    BY <2>1, <2>2, <2>3, <2>4 DEF TypeOK, Typed
<1>. QED
  BY <1>1, NamesInvariance, PTL

\* What the tree names is allocated and prepared: EntriesNameWhatIsThere, for
\* any tree, any calls, and any failures and power cuts.
THEOREM NamesAreThere == Spec => []EntriesNameWhatIsThere
<1>1. NInv => EntriesNameWhatIsThere
  <2> SUFFICES ASSUME NInv, ~doubled, NEW d \in Reached, NEW n \in Names, tree[d][n] # None
               PROVE  /\ tree[d][n] \in onDevice
                      /\ tree[d][n] \in Clusters => tree[tree[d][n]]["."] # "junk"
    BY DEF EntriesNameWhatIsThere
  <2>1. Typed /\ Named
    BY DEF NInv, OneTree
  <2>2. d \in {Root} \cup (onDevice \cap Clusters)
    BY <2>1, ReachedIsAllocated
  <2>3. Whole(tree[d]) /\ d \in Directories
    BY <2>1, <2>2 DEF Typed, Directories
  <2>4. tree[d][n] \in Nodes
    BY <2>3, WhatEntriesAre DEF Whole
  <2>5. tree[d][n] \in onDevice
    BY <2>1, <2>3, <2>4 DEF Named
  <2>6. ASSUME tree[d][n] \in Clusters
        PROVE  tree[tree[d][n]]["."] # "junk"
    <3>1. Whole(tree[tree[d][n]])
      BY <2>1, <2>5, <2>6 DEF Typed
    <3>2. "junk" \notin Clusters \cup {None}
      BY WhatEntriesAre, TreeAssumption DEF None
    <3>. QED
      BY <3>1, <3>2, WhatEntriesAre DEF Whole
  <2>. QED
    BY <2>5, <2>6
<1>. QED
  BY <1>1, NamesInvariance, PTL

\* Nothing has two names but what is being moved, and `..` follows the name:
\* OneParent, for any tree, any calls, and any failures and power cuts.
THEOREM OneParentOnly == Spec => []OneParent
<1>1. NInv => OneParent
  <2> SUFFICES ASSUME NInv, ~doubled, NEW d \in Reached, NEW n \in Names,
                      tree[d][n] # None, tree[d][n] # call.node
               PROVE  /\ NamesOf(tree[d][n]) \cap (Reached \X Names) = {<<d, n>>}
                      /\ tree[d][n] \in Clusters => tree[tree[d][n]][".."] = Link(d)
    BY DEF OneParent
  <2>1. Typed /\ Named /\ Single /\ Parents
    BY DEF NInv, OneTree
  <2>2. d \in {Root} \cup (onDevice \cap Clusters)
    BY <2>1, ReachedIsAllocated
  <2>3. Whole(tree[d]) /\ d \in Directories
    BY <2>1, <2>2 DEF Typed, Directories
  <2>4. tree[d][n] \in Nodes
    BY <2>3, WhatEntriesAre DEF Whole
  <2>5. \A e \in Directories, m \in Names : tree[e][m] = tree[d][n] => e = d /\ m = n
    BY <2>1, <2>3, <2>4 DEF Single
  <2>6. NamesOf(tree[d][n]) \cap (Reached \X Names) = {<<d, n>>}
    BY <2>3, <2>5 DEF NamesOf
  <2>7. Beneath(tree[d][n], d)
    BY <2>1, <2>3 DEF Parents
  <2>. QED
    BY <2>6, <2>7 DEF Beneath
<1>. QED
  BY <1>1, NamesInvariance, PTL

-----------------------------------------------------------------------------
(***************************************************************************)
(* No step loses a directory that is not empty.                            *)
(***************************************************************************)

NothingLost == \A c \in Reached \cap Clusters : c \notin Reached' => Empty(tree[c])

\* The walk after a step is closed too.
LEMMA ReachedAfter ==
    /\ (Root \in Reached)'
    /\ (Reached \subseteq Directories)'
    /\ (\A d \in Reached, n \in Names : tree[d][n] \in Clusters => tree[d][n] \in Reached)'
BY ReachedIsClosed, PTL

\* What has no name is not reached.
LEMMA UnnamedNotReached ==
    ASSUME NEW x \in Clusters, Unnamed(x)
    PROVE  x \notin Reached
<1>. DEFINE S == Directories \ {x}
<1>1. Root \in S /\ \A d \in S, n \in Names : tree[d][n] \in Clusters => tree[d][n] \in S
  BY TreeAssumption DEF Directories, Unnamed
<1>. HIDE DEF S
<1>2. Reached \subseteq S
  BY <1>1, ReachedIsLeast
<1>. QED
  BY <1>2 DEF S

\* If what each changed entry of a directory that is still reached named is
\* too, but for an empty directory, everything is, but for that one.
LEMMA StillReached ==
    ASSUME NEW x, Empty(tree[x]) \/ x \in Reached',
           \A d \in Reached \cap Reached', n \in Names :
              tree[d][n] \in Clusters /\ tree'[d][n] # tree[d][n] => tree[d][n] \in Reached' \cup {x}
    PROVE  NothingLost
<1>1. PICK after : after = Reached'
  OBVIOUS
<1>. DEFINE S == Reached \cap (after \cup {x})
<1>2. Root \in S
  BY <1>1, ReachedAfter, ReachedIsClosed
<1>3. ASSUME NEW d \in S, NEW n \in Names, tree[d][n] \in Clusters
      PROVE  tree[d][n] \in S
  <2>1. tree[d][n] \in Reached
    BY <1>3, ReachedIsClosed
  <2>2. CASE d \in after
    BY <1>1, <1>3, <2>1, <2>2, ReachedAfter
  <2>3. CASE d = x /\ Empty(tree[x])
    <3>1. tree[d][n] = None
      BY <1>3, <2>3 DEF Empty
    <3>. QED
      BY <1>3, <3>1, TreeAssumption
  <2>. QED
    BY <1>1, <2>2, <2>3
<1>4. Reached \subseteq S
  <2>. HIDE DEF S
  <2>. QED
    BY <1>2, <1>3, ReachedIsLeast
<1>. QED
  BY <1>1, <1>4 DEF NothingLost

\* If no changed entry named a directory, nothing is lost.
LEMMA FilesDoNotLead ==
    ASSUME \A d \in Reached \cap Reached', n \in Names :
              tree[d][n] \in Clusters => tree'[d][n] = tree[d][n]
    PROVE  NothingLost
BY ReachedAfter, StillReached

\* Naming something new loses nothing, and so does the end of a file's name.
LEMMA NamingLosesNothing ==
    ASSUME NInv, WriteEntries, NEW d \in Directories, NEW n \in Names, NEW v \in Nodes \cup {None},
           Head(todo) = Put(d, n, v), \A c : ~Unprepared(c), tree[d][n] \notin Clusters
    PROVE  NothingLost
<1>1. \A f \in Directories, l \in Names :
         tree'[f][l] = IF f = d /\ l = n THEN v ELSE tree[f][l]
  BY NameWritten
<1>. QED
  BY <1>1, ReachedIsClosed, FilesDoNotLead

\* What is made is prepared unreached, and named where nothing was.
LEMMA CreatingLosesNothing ==
    ASSUME NInv, WriteEntries, ~doubled, NEW x, NEW d \in Directories, NEW n \in Names,
           Creating(x, d, n)
    PROVE  NothingLost
<1>1. /\ x \in allocated /\ (IF call.op = "create" THEN x \in Files ELSE x \in Clusters)
      /\ Unnamed(x) /\ Vacant(d, n) /\ Head(todo).kind = "put"
  BY Zenon DEF Creating, WriteEntries, Due
<1>2. CASE call.op = "create_dir" /\ todo = <<Prepare(x, d), Flush({}), Put(d, n, x)>>
  <2>1. x \in Clusters
    BY <1>1, <1>2
  <2>2. Head(todo).dir = x
    BY <1>2, Tuples, Kinds
  <2>3. tree = [f \in Directories |-> tree[f]]
    BY DEF NInv, Typed
  <2>4. \A f \in Directories : f # x => tree'[f] = tree[f]
    BY <2>2, <2>3 DEF WriteEntries
  <2>5. x \notin Reached
    BY <1>1, <2>1, UnnamedNotReached
  <2>. QED
    BY <2>4, <2>5, ReachedIsClosed, FilesDoNotLead
<1>3. CASE todo = <<Put(d, n, x)>>
  <2>1. Head(todo) = Put(d, n, x) /\ \A c : ~Unprepared(c)
    BY <1>3, Tuples DEF Unprepared
  <2>2. x \in Nodes
    BY <1>1 DEF Nodes
  <2>3. tree[d][n] \notin Clusters
    BY <1>1, TreeAssumption DEF Vacant
  <2>. QED
    BY <2>1, <2>2, <2>3, NamingLosesNothing
<1>4. CASE todo = <<Flush({}), Put(d, n, x)>>
  BY <1>1, <1>4, Tuples, Kinds
<1>. QED
  BY <1>2, <1>3, <1>4, Zenon DEF Creating

\* The directory a removal takes the name of is empty.
LEMMA RemovingLosesNothing ==
    ASSUME NInv, WriteEntries, ~doubled, NEW x, NEW d \in Directories, NEW n \in Names,
           Removing(x, d, n)
    PROVE  NothingLost
<1>1. x \in Nodes /\ Head(todo).kind = "put" /\ \A c : ~Unprepared(c)
  BY Zenon DEF Removing, WriteEntries, Due, Unprepared
<1>2. CASE /\ todo = <<Put(d, n, None), Flush({x})>>
           /\ OnlyAt(x, d, n) /\ (x \in Clusters => Empty(tree[x]))
  <2>1. Head(todo) = Put(d, n, None)
    BY <1>2, Tuples
  <2>2. tree[d][n] = x
    BY <1>2 DEF OnlyAt
  <2>3. CASE x \in Clusters
    <3>1. \A f \in Directories, l \in Names :
             tree'[f][l] = IF f = d /\ l = n THEN None ELSE tree[f][l]
      BY <1>1, <2>1, WhatEntriesAre, NameWritten
    <3>. QED
      BY <1>2, <2>2, <2>3, <3>1, ReachedIsClosed, StillReached
  <2>4. CASE x \notin Clusters
    BY <1>1, <2>1, <2>2, <2>4, NamingLosesNothing
  <2>. QED
    BY <2>3, <2>4
<1>3. CASE todo = <<Flush({x})>>
  BY <1>1, <1>3, Tuples, Kinds
<1>. QED
  BY <1>2, <1>3, Zenon DEF Removing

\* What a replacement overwrites are names of files.
LEMMA ReplacingLosesNothing ==
    ASSUME NInv, WriteEntries, ~doubled, NEW x, NEW y, NEW d \in Directories, NEW n \in Names,
           NEW e \in Directories, NEW m \in Names, Replacing(x, d, n, y, e, m)
    PROVE  NothingLost
<1>1. x \in Files /\ y \in Files /\ Head(todo).kind = "put" /\ \A c : ~Unprepared(c)
  BY Zenon DEF Replacing, WriteEntries, Due, Unprepared
<1>2. x \notin Clusters /\ y \notin Clusters /\ x \in Nodes
  BY <1>1, TreeAssumption DEF Nodes
<1>3. CASE todo = <<Put(d, n, None), Put(e, m, x), Flush({y})>> /\ OnlyAt(x, d, n)
  <2>1. Head(todo) = Put(d, n, None)
    BY <1>3, Tuples
  <2>2. tree[d][n] = x
    BY <1>3 DEF OnlyAt
  <2>. QED
    BY <1>1, <1>2, <2>1, <2>2, NamingLosesNothing
<1>4. CASE todo = <<Put(e, m, x), Flush({y})>> /\ OnlyAt(y, e, m)
  <2>1. Head(todo) = Put(e, m, x)
    BY <1>4, Tuples
  <2>2. tree[e][m] = y
    BY <1>4 DEF OnlyAt
  <2>. QED
    BY <1>1, <1>2, <2>1, <2>2, NamingLosesNothing
<1>5. CASE todo = <<Flush({y})>>
  BY <1>1, <1>5, Tuples, Kinds
<1>. QED
  BY <1>3, <1>4, <1>5, Zenon DEF Replacing

\* A directory loses its old name when its new one is there, and the root
\* leads to that one without it.
LEMMA OldNameLosesNothing ==
    ASSUME NInv, WriteEntries, ~doubled, ~staled, NEW x, NEW d \in Directories, NEW n \in Names,
           NEW e \in Directories, NEW m \in Names, <<d, n>> # <<e, m>>,
           Clear(x, d, e), AtBoth(x, d, n, e, m), todo = <<Put(d, n, None)>>
    PROVE  NothingLost
<1>1. Head(todo) = Put(d, n, None) /\ \A c : ~Unprepared(c)
  BY Tuples DEF Unprepared
<1>2. tree[d][n] = x /\ tree[e][m] = x
  BY DEF AtBoth
<1>3. CASE x \notin Clusters
  BY <1>1, <1>2, <1>3, NamingLosesNothing
<1>4. CASE x \in Clusters
  <2>1. \A f \in Directories, l \in Names :
           tree'[f][l] = IF f = d /\ l = n THEN None ELSE tree[f][l]
    BY <1>1, NameWritten
  <2>2. PICK after : after = Reached'
    OBVIOUS
  <2>3. /\ Root \in after /\ after \subseteq Directories
        /\ \A f \in after, l \in Names : tree'[f][l] \in Clusters => tree'[f][l] \in after
    BY <2>2, ReachedAfter
  <2>4. tree'[e][m] = x
    BY <1>2, <2>1
  <2>5. CASE d = e
    <3>1. CASE d \in after
      <4>1. x \in after
        BY <1>4, <2>3, <2>4, <2>5, <3>1
      <4>. QED
        BY <1>2, <2>1, <2>2, <4>1, ReachedIsClosed, StillReached
    <3>2. CASE d \notin after
      BY <2>1, <2>2, <3>2, ReachedIsClosed, FilesDoNotLead
    <3>. QED
      BY <3>1, <3>2
  <2>6. CASE d # e
    <3>. DEFINE S == after \cup {x}
    <3>1. S \in SUBSET Directories
      BY <1>4, <2>3 DEF Directories
    <3>2. ClosedBut(x, S)
      <4>1. ASSUME NEW f \in S \ {x}, NEW l \in Names, tree[f][l] \in Clusters
            PROVE  tree[f][l] \in S
        BY <1>2, <2>1, <2>3, <4>1
      <4>. QED
        BY <2>3, <4>1 DEF ClosedBut
    <3>3. e \in S /\ e # x
      BY <1>4, <2>6, <3>1, <3>2 DEF Clear, Apart
    <3>4. x \in after
      BY <1>4, <2>3, <2>4, <3>3
    <3>. QED
      BY <1>2, <2>1, <2>2, <3>4, ReachedIsClosed, StillReached
  <2>. QED
    BY <2>5, <2>6
<1>. QED
  BY <1>3, <1>4

\* A directory that is renamed in place is named again by the same write.
LEMMA InPlaceLosesNothing ==
    ASSUME NInv, WriteEntries, ~doubled, NEW x \in Nodes, NEW d \in Directories,
           NEW n \in Names, NEW m \in Names, n # m,
           todo = <<PutAll(d, [l \in {n, m} |-> IF l = n THEN None ELSE x])>>,
           OnlyAt(x, d, n), Vacant(d, m)
    PROVE  NothingLost
<1>1. \A f \in Directories, l \in Names :
         tree'[f][l] = IF f = d /\ l = n THEN None ELSE IF f = d /\ l = m THEN x ELSE tree[f][l]
  <2>1. PICK put : put = [l \in {n, m} |-> IF l = n THEN None ELSE x]
    OBVIOUS
  <2>2. DOMAIN put = {n, m} /\ put[n] = None /\ put[m] = x
    BY <2>1
  <2>3. Head(todo).dir = d /\ Head(todo).put = put
    BY <2>1, Tuples, Kinds
  <2>4. tree = [f \in Directories |-> tree[f]]
    BY DEF NInv, Typed
  <2>5. /\ \A f \in Directories : f # d => tree'[f] = tree[f]
        /\ tree'[d] = [l \in Entries |-> IF l \in DOMAIN put THEN put[l] ELSE tree[d][l]]
    BY <2>3, <2>4 DEF WriteEntries
  <2>. QED
    BY <2>2, <2>5, WhatEntriesAre
<1>2. tree[d][n] = x /\ tree[d][m] \notin Clusters
  BY TreeAssumption DEF OnlyAt, Vacant
<1>3. PICK after : after = Reached'
  OBVIOUS
<1>4. CASE x \in Clusters /\ d \in after
  <2>1. x \in after
    BY <1>1, <1>3, <1>4, ReachedAfter
  <2>. QED
    BY <1>1, <1>2, <1>3, <2>1, ReachedIsClosed, StillReached
<1>5. CASE x \notin Clusters \/ d \notin after
  BY <1>1, <1>2, <1>3, <1>5, ReachedIsClosed, FilesDoNotLead
<1>. QED
  BY <1>4, <1>5

\* A move takes a directory's name when it has another that is reached.
LEMMA MovingLosesNothing ==
    ASSUME NInv, WriteEntries, ~doubled, ~staled, NEW x, NEW d \in Directories, NEW n \in Names,
           NEW e \in Directories, NEW m \in Names, x = call.node, Moving(x, d, n, e, m)
    PROVE  NothingLost
<1>1. /\ call.op = "rename" /\ x \in Nodes /\ <<d, n>> # <<e, m>> /\ Clear(x, d, e)
      /\ Head(todo).kind = "put" /\ \A c : ~Unprepared(c)
  BY Zenon DEF Moving, WriteEntries, Due, Unprepared
<1>2. CASE /\ d = e
           /\ todo = <<PutAll(d, [l \in {n, m} |-> IF l = n THEN None ELSE x])>>
           /\ OnlyAt(x, d, n) /\ Vacant(e, m)
  <2>1. n # m
    BY <1>1, <1>2
  <2>. QED
    BY <1>1, <1>2, <2>1, InPlaceLosesNothing
<1>3. CASE Head(todo) = Flush({})
  BY <1>1, <1>3, Kinds
<1>4. CASE Head(todo) = Put(e, m, x) /\ Vacant(e, m)
  <2>1. tree[e][m] \notin Clusters
    BY <1>4, TreeAssumption DEF Vacant
  <2>. QED
    BY <1>1, <1>4, <2>1, NamingLosesNothing
<1>5. CASE x \in Clusters /\ todo = <<Put(x, "..", Link(e)), Put(d, n, None)>> /\ AtBoth(x, d, n, e, m)
  <2>1. PICK put : put = [l \in {".."} |-> Link(e)]
    OBVIOUS
  <2>2. DOMAIN put = {".."} /\ put[".."] = Link(e)
    BY <2>1
  <2>3. Head(todo) = PutAll(x, put)
    BY <1>5, <2>1, Tuples DEF Put
  <2>4. Head(todo).dir = x /\ Head(todo).put = put /\ x \in Directories
    BY <1>5, <2>3, Kinds DEF Directories
  <2>5. tree = [f \in Directories |-> tree[f]]
    BY DEF NInv, Typed
  <2>6. /\ \A f \in Directories : f # x => tree'[f] = tree[f]
        /\ tree'[x] = [l \in Entries |-> IF l \in DOMAIN put THEN put[l] ELSE tree[x][l]]
    BY <2>4, <2>5 DEF WriteEntries
  <2>7. \A f \in Directories, l \in Names : tree'[f][l] = tree[f][l]
    BY <2>2, <2>6, WhatEntriesAre
  <2>. QED
    BY <2>7, ReachedIsClosed, FilesDoNotLead
<1>6. CASE todo = <<Put(d, n, None)>> /\ AtBoth(x, d, n, e, m)
  BY <1>1, <1>6, OldNameLosesNothing
<1>7. /\ (\/ todo = <<Flush({}), Put(e, m, x), Put(d, n, None)>>
          \/ todo = <<Flush({}), Put(e, m, x), Put(x, "..", Link(e)), Put(d, n, None)>>)
            => Head(todo) = Flush({})
      /\ (\/ todo = <<Put(e, m, x), Put(d, n, None)>>
          \/ todo = <<Put(e, m, x), Put(x, "..", Link(e)), Put(d, n, None)>>)
            => Head(todo) = Put(e, m, x)
  BY Tuples
<1>. QED
  BY <1>2, <1>3, <1>4, <1>5, <1>6, <1>7, Zenon DEF Moving

\* No device write of any call loses a directory.
LEMMA WriteLosesNothing ==
    ASSUME NInv, WriteEntries, ~doubled, ~staled
    PROVE  NothingLost
<1>1. PICK x : x = call.node
  OBVIOUS
<1>2. call # Idle
  BY DEF WriteEntries, Due
<1>3. ASSUME NEW d \in Directories, NEW n \in Names, Creating(x, d, n)
      PROVE  NothingLost
  BY <1>3, CreatingLosesNothing
<1>4. ASSUME NEW d \in Directories, NEW n \in Names, Removing(x, d, n)
      PROVE  NothingLost
  BY <1>4, RemovingLosesNothing
<1>5. ASSUME NEW d \in Directories, NEW n \in Names, NEW e \in Directories, NEW m \in Names,
             Moving(x, d, n, e, m)
      PROVE  NothingLost
  BY <1>1, <1>5, MovingLosesNothing
<1>6. ASSUME NEW d \in Directories, NEW n \in Names, NEW e \in Directories, NEW m \in Names,
             NEW y \in Files, Replacing(x, d, n, y, e, m)
      PROVE  NothingLost
  BY <1>6, ReplacingLosesNothing
<1>. QED
  BY <1>1, <1>2, <1>3, <1>4, <1>5, <1>6 DEF NInv, Planned

\* A step that writes no entries changes nothing the root leads to.
LEMMA OthersLoseNothing ==
    ASSUME tree' = tree
    PROVE  NothingLost
BY FilesDoNotLead

\* No device write, failure or power cut loses a directory that is not empty:
\* NoDirectoryLost, for trees of any depth and any calls.
THEOREM NoDirectoryIsLost == Spec => NoDirectoryLost
<1>1. NInv /\ [Next]_vars
         => [~doubled /\ ~staled =>
                \A c \in Reached \cap Clusters : c \notin Reached' => Empty(tree[c])]_vars
  <2> SUFFICES ASSUME NInv, [Next]_vars, ~doubled, ~staled
               PROVE  NothingLost
    BY DEF NothingLost
  <2>1. WriteEntries \/ tree' = tree
    BY ZenonT(40) DEF Next, vars, OpenDir, Create, Remove, CreateDir, RemoveDir, Rename, Start,
                 FlushTable, FreeFails, Fail, Crash
  <2>. QED
    BY <2>1, WriteLosesNothing, OthersLoseNothing
<1>. QED
  BY <1>1, NamesInvariance, PTL DEF Spec, NoDirectoryLost
=============================================================================
