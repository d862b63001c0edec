-------------------------- MODULE DirectoryProofs --------------------------
(***************************************************************************)
(* A directory's slots, its resident parse and the handles to its files,   *)
(* for any names, blocks and clusters of any size, and any number of       *)
(* failed writes and power cuts.                                           *)
(*                                                                         *)
(* A call works out its writes from the resident parse and makes them one  *)
(* by one, so what matters is what the writes left will find: `Fit` says   *)
(* that of a sequence of writes, each as it stands after those before it.  *)
(***************************************************************************)
EXTENDS Directory, TLAPS, WellFoundedInduction, SequenceTheorems, FiniteSetTheorems

-----------------------------------------------------------------------------
(***************************************************************************)
(* The writes left of a call.                                              *)
(***************************************************************************)

\* The slots of a directory of n clusters.
Span(n) == 0 .. n * SlotsPerCluster - 1

\* What a call may put in a slot.
Own    == Slots \ {End, Junk}
Puts   == UNION {[D -> Own] : D \in SUBSET AllSlots}
Writes == [kind : {"put", "flush"}, put : Puts, bump : SUBSET AllSlots,
           frees : SUBSET Files, drop : BOOLEAN]

IsShort(slot)      == slot.kind = "short"
Written(ws, k, i)  == \E m \in 1 .. k : i \in DOMAIN ws[m].put
Bumped(ws, k, i)   == \E m \in 1 .. k : i \in ws[m].bump
Flushed(ws, k)     == \E m \in 1 .. k : ws[m].kind = "flush"

\* Writes go to the directory's slots, and a flush to none.
InPlace(ws) ==
    \A k \in DOMAIN ws : /\ DOMAIN ws[k].put \subseteq Span(length)
                         /\ ws[k].kind = "flush" => DOMAIN ws[k].put = {} /\ ws[k].bump = {}

\* No entry or part of a name is written past an end marker that stays.
Fills(ws) ==
    \A k \in DOMAIN ws : \A i \in DOMAIN ws[k].put :
        ~IsFree(ws[k].put[i]) => \A j \in 0 .. i : slots[j] # End \/ Written(ws, k, j)

\* A write that keeps the resident parse puts parts of a name only, over no
\* entry, and comes before any write that drops it.
Parts(ws) ==
    \A k \in DOMAIN ws : ws[k].kind = "put" /\ ~ws[k].drop =>
        /\ \A i \in DOMAIN ws[k].put : ws[k].put[i].kind = "long" /\ ~IsShort(slots[i])
        /\ \A m \in 1 .. k : ~ws[m].drop

\* The slot of a handle keeps its file, or its generation moves first.
Spares(ws) ==
    handle # NoHandle => \A k \in DOMAIN ws :
        handle.index \in DOMAIN ws[k].put =>
            \/ Bumped(ws, k, handle.index)
            \/ LET slot == ws[k].put[handle.index] IN IsShort(slot) /\ slot.id = handle.id

\* An entry goes to a cluster the device's table links, by then at least.
Published(ws) ==
    \A k \in DOMAIN ws : \A i \in DOMAIN ws[k].put :
        IsShort(ws[k].put[i]) => i \in Span(linked) \/ Flushed(ws, k)

\* What a rename must not lose: an entry of the renamed file or, where it
\* replaces another, the replaced name with either file.
Marks(c, slot) ==
    /\ IsShort(slot)
    /\ IF c.over = None THEN slot.id = c.id
       ELSE slot.alias = c.alias /\ slot.id \in {c.id, c.over}

\* The writes from the m-th on, or up to it, leave such an entry at i.
LeavesFrom(c, ws, m, i) ==
    \A k \in DOMAIN ws : k > m /\ i \in DOMAIN ws[k].put => Marks(c, ws[k].put[i])
LeavesUpTo(c, ws, m, i) ==
    \A k \in DOMAIN ws : k <= m /\ i \in DOMAIN ws[k].put => Marks(c, ws[k].put[i])

\* One that is there stays to the end, or until another is that does.
Keeps(c, ws) ==
    \E i \in Span(length) :
        /\ Marks(c, slots[i])
        /\ \/ LeavesFrom(c, ws, 0, i)
           \/ \E m \in DOMAIN ws : \E j \in DOMAIN ws[m].put :
                 /\ Marks(c, ws[m].put[j])
                 /\ LeavesFrom(c, ws, m, j)
                 /\ LeavesUpTo(c, ws, m, i)

\* A file moved to a name that nothing has, the one way it comes to two names.
Moves(c)    == c.op = "rename" /\ c.over = None
Twins(i, j) == i # j /\ IsShort(slots[i]) /\ IsShort(slots[j]) /\ slots[i].id = slots[j].id
Single      == \A i, j \in Span(length) : ~Twins(i, j)
Alone(f)    == \A i \in Span(length) : IsShort(slots[i]) => slots[i].id # f

\* Entries are written of the call's file only, and in one slot.
OneEntry(c, ws) ==
    /\ \A k \in DOMAIN ws : \A i \in DOMAIN ws[k].put :
          IsShort(ws[k].put[i]) => ws[k].put[i].id = c.id
    /\ \A k, l \in DOMAIN ws : \A i \in DOMAIN ws[k].put, j \in DOMAIN ws[l].put :
          IsShort(ws[k].put[i]) /\ IsShort(ws[l].put[j]) => i = j

\* Another entry of that file is written over, and before unless it moves.
Replaces(c, ws) ==
    \A m \in DOMAIN ws : \A j \in DOMAIN ws[m].put : IsShort(ws[m].put[j]) =>
        \A i \in Span(length) : i # j /\ IsShort(slots[i]) /\ slots[i].id = c.id =>
            \E k \in DOMAIN ws : i \in DOMAIN ws[k].put /\ (k < m \/ Moves(c))

\* A file that moves may have two names already; one of them then goes.
Parted(c, ws) ==
    \A i, j \in Span(length) : Twins(i, j) =>
        /\ slots[i].id = c.id /\ Moves(c)
        /\ \E k \in DOMAIN ws : i \in DOMAIN ws[k].put \/ j \in DOMAIN ws[k].put

\* No two entries of a file outlast the writes, and a move frees nothing.
FreesNone(ws) == \A k \in DOMAIN ws : ws[k].frees = {}
Apart(c, ws) ==
    /\ OneEntry(c, ws) /\ Replaces(c, ws) /\ Parted(c, ws)
    /\ Moves(c) => FreesNone(ws)

Sound(ws)  == ws \in Seq(Writes) /\ InPlace(ws) /\ Fills(ws) /\ Spares(ws)
Fit(c, ws) == /\ Sound(ws) /\ Parts(ws) /\ Published(ws)
              /\ c.op = "rename" => Keeps(c, ws)
              /\ ~doubled => Apart(c, ws)

-----------------------------------------------------------------------------
(***************************************************************************)
(* The inductive invariant.                                                *)
(***************************************************************************)

Promises == Shown \cup {None, Unsure}
Calls == [op : {"create", "remove", "rename", "update"}, step : {"find", "write"},
          id : Files, over : Files \cup {None}, name : Promises, alias : Aliases,
          old : [first : Int, last : Int], grown : Nat, was : Promises]

\* The types of the state, and where a call stands.
Typed ==
    /\ length \in 1 .. MaxClusters
    /\ linked \in 1 .. length
    /\ slots \in [AllSlots -> Slots]
    /\ resident # NotRead => resident \in [Span(length) -> Slots]
    /\ handle # NoHandle => handle \in [index : Span(length), alias : Aliases, id : Files]
    /\ held \subseteq Files
    /\ promised \in [Files -> Promises]
    /\ troubles \in 0 .. MaxTroubles
    /\ doubled \in BOOLEAN
    /\ call = Idle \/ call \in Calls

\* The directory the resident table gives has no junk, no entry past an end
\* marker, and no entry that the device's table does not link.
Tidy ==
    /\ \A i \in Span(length) : slots[i] # Junk
    /\ \A i, j \in Span(length) : i < j /\ slots[i] = End => IsFree(slots[j])
    /\ \A i \in Span(length) : IsShort(slots[i]) => i \in Span(linked)

\* The resident parse has the device's entries, and what is free on the device
\* is free in it.
Agrees(v) ==
    \A i \in Span(length) : /\ IsShort(v[i]) \/ IsShort(slots[i]) => v[i] = slots[i]
                            /\ IsFree(slots[i]) => IsFree(v[i])

\* A handle whose slot's generation has not moved has its file in that slot.
HandleHolds ==
    handle # NoHandle => IsShort(slots[handle.index]) /\ slots[handle.index].id = handle.id

\* A call that looks for slots has a name to write, and old slots in use.
Finding ==
    call.step = "find" =>
        /\ todo = <<>>
        /\ call.name \in Names
        /\ call.over = None
        /\ \A i \in call.old.first .. call.old.last : i \in Span(length) /\ ~IsFree(Read[i])
        /\ call.op = "rename" =>
              /\ call.old.last \in call.old.first .. call.old.last
              /\ Marks(call, slots[call.old.last])
        /\ call.op # "rename" => Alone(call.id)

DInv ==
    /\ Typed
    /\ Tidy
    /\ resident # NotRead => Agrees(resident)
    /\ HandleHolds
    /\ call = Idle => todo = <<>>
    /\ ~doubled /\ call.step # "write" => Single
    /\ call.step = "write" => Len(todo) > 0 /\ Fit(call, todo)
    /\ Finding

-----------------------------------------------------------------------------
(***************************************************************************)
(* Slots.                                                                  *)
(***************************************************************************)

LEMMA SpanGrows ==
    /\ \A n \in Nat : n * SlotsPerCluster \in Nat
    /\ \A m, n \in Nat : m <= n => m * SlotsPerCluster <= n * SlotsPerCluster
<1>1. SlotsPerCluster \in Nat /\ SlotsPerCluster > 0
  BY DirectoryAssumption
<1>2. \A n \in Nat : n * SlotsPerCluster \in Nat
  BY <1>1
<1>3. ASSUME NEW m \in Nat, NEW n \in Nat, m <= n
      PROVE  m * SlotsPerCluster <= n * SlotsPerCluster
  <2>1. n * SlotsPerCluster = m * SlotsPerCluster + (n - m) * SlotsPerCluster
    BY <1>1
  <2>2. n - m \in Nat /\ (n - m) * SlotsPerCluster \in Nat
    BY <1>1, <1>3
  <2>3. m * SlotsPerCluster \in Nat
    BY <1>1
  <2>. QED  BY <2>1, <2>2, <2>3
<1>. QED  BY <1>2, <1>3

\* A longer directory has the slots of a shorter one, and a cluster's own.
LEMMA Spans ==
    /\ Span(MaxClusters) = AllSlots
    /\ \A m, n \in Nat : m <= n => Span(m) \subseteq Span(n)
    /\ \A n \in Nat : Span(n) \subseteq Nat
    /\ \A n \in Nat, i, j \in Int : j \in Span(n) /\ 0 <= i /\ i <= j => i \in Span(n)
    /\ \A n, i \in Nat : i \in Span(n) <=> i \div SlotsPerCluster < n
<1>1. SlotsPerCluster \in Nat /\ SlotsPerCluster > 0
  BY DirectoryAssumption
<1>2. \A m, n \in Nat : m <= n => Span(m) \subseteq Span(n)
  BY SpanGrows DEF Span
<1>3. \A n \in Nat : Span(n) \subseteq Nat
  BY DEF Span
<1>4. \A n \in Nat, i, j \in Int : j \in Span(n) /\ 0 <= i /\ i <= j => i \in Span(n)
  BY SpanGrows DEF Span
<1>5. ASSUME NEW n \in Nat, NEW i \in Nat
      PROVE  i \in Span(n) <=> i \div SlotsPerCluster < n
  <2> DEFINE q == i \div SlotsPerCluster  p == SlotsPerCluster
  <2>1. q \in Nat /\ q * p <= i /\ i < (q + 1) * p
    BY <1>1
  <2>2. q < n => (q + 1) * p <= n * p
    BY <2>1, SpanGrows
  <2>3. ~(q < n) => n * p <= q * p
    BY <2>1, SpanGrows
  <2>4. q * p \in Nat /\ n * p \in Nat /\ (q + 1) * p \in Nat
    BY <2>1, SpanGrows
  <2>5. i \in Span(n) <=> i < n * p
    BY <2>4 DEF Span
  <2> HIDE DEF q, p
  <2>. QED  BY <2>1, <2>2, <2>3, <2>4, <2>5 DEF q
<1>. QED  BY <1>2, <1>3, <1>4, <1>5 DEF Span, AllSlots

\* What kinds of slots there are, and what a call may put in one.
LEMMA Kinds ==
    /\ End \in Slots /\ Junk \in Slots /\ Own \subseteq Slots
    /\ IsFree(End) /\ IsFree(Deleted) /\ ~IsFree(Junk) /\ ~IsShort(End) /\ ~IsShort(Deleted)
    /\ \A x \in Slots : /\ x.kind = "long" => ~IsFree(x) /\ x.name \in Names
                        /\ IsShort(x) => ~IsFree(x)
                        /\ ~IsFree(x) => IsShort(x) \/ x.kind = "long"
                        /\ IsShort(x) /\ x # Junk => x.alias \in Aliases /\ x.id \in Files
    /\ \A x \in Own : x \in Slots /\ x # End /\ x # Junk
<1>1. \A x \in Slots : \/ x \in {End, Deleted, Junk}
                       \/ \E n \in Names, p \in 1 .. SlotsPerCluster * MaxClusters, a \in Aliases :
                             x = LongSlot(n, p, a)
                       \/ \E a \in Aliases, f \in Files : x = ShortSlot(a, f)
  BY DEF Slots
<1>2. ASSUME NEW n \in Names, NEW p, NEW a
      PROVE  LET x == LongSlot(n, p, a) IN x.kind = "long" /\ x.name = n
  BY DEF LongSlot
<1>3. \A a, f : LET x == ShortSlot(a, f) IN x.kind = "short" /\ x.alias = a /\ x.id = f
  BY DEF ShortSlot
<1>4. End.kind = "end" /\ Deleted.kind = "deleted" /\ Junk.kind = "short"
  BY <1>3 DEF End, Deleted, Junk
<1>5. ASSUME NEW x \in Slots
      PROVE  /\ x.kind = "long" => ~IsFree(x) /\ x.name \in Names
             /\ IsShort(x) => ~IsFree(x)
             /\ ~IsFree(x) => IsShort(x) \/ x.kind = "long"
             /\ IsShort(x) /\ x # Junk => x.alias \in Aliases /\ x.id \in Files
  <2>1. CASE x \in {End, Deleted, Junk}
    BY <1>4, <2>1 DEF IsFree, IsShort
  <2>2. CASE \E n \in Names, p \in 1 .. SlotsPerCluster * MaxClusters, a \in Aliases :
               x = LongSlot(n, p, a)
    BY <1>2, <1>4, <2>2 DEF IsFree, IsShort
  <2>3. CASE \E a \in Aliases, f \in Files : x = ShortSlot(a, f)
    BY <1>3, <1>4, <2>3 DEF IsFree, IsShort
  <2>. QED  BY <1>1, <2>1, <2>2, <2>3
<1>6. End \in Slots /\ Junk \in Slots /\ Own \subseteq Slots /\ \A x \in Own : x \in Slots /\ x # End /\ x # Junk
  BY DEF Slots, Own
<1>. QED  BY <1>4, <1>5, <1>6 DEF IsFree, IsShort

LEMMA PutsAreOwn ==
    /\ Deleted \in Own
    /\ \A a \in Aliases, f \in Files : LET x == ShortSlot(a, f)
          IN  x \in Own /\ IsShort(x) /\ x.alias = a /\ x.id = f
    /\ \A n \in Names, p \in 1 .. SlotsPerCluster * MaxClusters, a \in Aliases :
          LET x == LongSlot(n, p, a) IN x \in Own /\ x.kind = "long" /\ ~IsShort(x)
<1>1. End.kind = "end" /\ Deleted.kind = "deleted" /\ Junk.kind = "short" /\ Junk.id = None
  BY DEF End, Deleted, Junk, ShortSlot
<1>2. \A a, f : LET x == ShortSlot(a, f) IN x.kind = "short" /\ x.alias = a /\ x.id = f
  BY DEF ShortSlot
<1>3. \A n, p, a : LongSlot(n, p, a).kind = "long"
  BY DEF LongSlot
<1>4. Deleted \in Own
  BY <1>1 DEF Own, Slots
<1>5. ASSUME NEW a \in Aliases, NEW f \in Files
      PROVE  ShortSlot(a, f) \in Own
  <2>1. ShortSlot(a, f) # Junk /\ ShortSlot(a, f) # End
    BY <1>1, <1>2, DirectoryAssumption DEF None
  <2>. QED  BY <2>1 DEF Own, Slots
<1>6. \A n \in Names, p \in 1 .. SlotsPerCluster * MaxClusters, a \in Aliases : LongSlot(n, p, a) \in Own
  BY <1>1, <1>3 DEF Own, Slots
<1>. QED  BY <1>2, <1>3, <1>4, <1>5, <1>6 DEF IsShort

-----------------------------------------------------------------------------
(***************************************************************************)
(* What parsing and looking for slots choose.                              *)
(***************************************************************************)

\* A nonempty set of natural numbers has a least element, and a greatest one
\* if it is bounded.
LEMMA LeastNatural ==
    ASSUME NEW T \in SUBSET Nat, T # {}
    PROVE  \E x \in T : \A y \in T : x <= y
<1>1. PICK x \in T : \A y \in T : ~(<<y, x>> \in OpToRel(<, Nat))
  BY NatLessThanWellFounded, WFMin, Zenon
<1>2. \A y \in T : ~(y < x)
  BY <1>1 DEF OpToRel
<1>3. \A y \in T : x <= y
  <2> TAKE y \in T
  <2>1. x \in Nat /\ y \in Nat /\ ~(y < x)
    BY <1>2
  <2>. QED  BY <2>1
<1>. QED  BY <1>3

LEMMA GreatestNatural ==
    ASSUME NEW b \in Nat, NEW T \in SUBSET (0 .. b), T # {}
    PROVE  \E x \in T : \A y \in T : y <= x
<1> DEFINE U == {b - x : x \in T}
<1>1. U \in SUBSET Nat /\ U # {}
  <2>1. \A x \in T : b - x \in Nat
    OBVIOUS
  <2>. QED  BY <2>1
<1>2. PICK u \in U : \A y \in U : u <= y
  BY <1>1, LeastNatural
<1>3. PICK x \in T : u = b - x
  OBVIOUS
<1>4. \A y \in T : b - x <= b - y
  BY <1>2, <1>3
<1>. QED  BY <1>4

\* The slots in front of an entry that go with it.
LEMMA FirstSlotIs ==
    ASSUME NEW v, NEW i \in Nat
    PROVE  /\ FirstSlot(v, i) \in 0 .. i
           /\ \A j \in FirstSlot(v, i) .. i - 1 : v[j].kind = "long"
<1> DEFINE T == {f \in 0 .. i : \A j \in f .. i - 1 : v[j].kind = "long"}
<1>1. T \in SUBSET Nat /\ i \in T
  OBVIOUS
<1>2. PICK f \in T : \A g \in T : f <= g
  BY <1>1, LeastNatural
<1>3. f = 0 \/ v[f - 1].kind # "long"
  <2> SUFFICES ASSUME f # 0, v[f - 1].kind = "long" PROVE FALSE
    OBVIOUS
  <2>1. f \in Nat /\ f - 1 \in 0 .. i /\ ~(f <= f - 1)
    OBVIOUS
  <2>2. \A j \in f - 1 .. i - 1 : v[j].kind = "long"
    OBVIOUS
  <2>. QED  BY <1>2, <2>1, <2>2
<1>4. \E g \in 0 .. i : /\ \A j \in g .. i - 1 : v[j].kind = "long"
                        /\ g = 0 \/ v[g - 1].kind # "long"
  BY <1>3
<1>. QED  BY <1>4, Zenon DEF FirstSlot

\* What a name leads to is an entry.
LEMMA LookupIs ==
    ASSUME NEW n \in Nat, NEW v, DOMAIN v = Span(n), NEW key, Lookup(v, key) # NotFound
    PROVE  Lookup(v, key) \in Span(n) /\ IsShort(v[Lookup(v, key)])
<1> DEFINE byLong  == {i \in ShortSlots(v) : PartsAt(v, i) > 0 /\ DisplayName(v, i) # Mixed
                                            /\ KeyOf[DisplayName(v, i)] = key}
           byShort == {i \in ShortSlots(v) : v[i].id # None /\ KeyOf[v[i].alias] = key}
<1>1. /\ byLong \subseteq ShortSlots(v) /\ byShort \subseteq ShortSlots(v)
  OBVIOUS
<1>2. Lookup(v, key) = CASE byLong # {}                  -> CHOOSE i \in byLong : \A j \in byLong : j <= i
                         [] byLong = {} /\ byShort # {}  -> CHOOSE i \in byShort : \A j \in byShort : i <= j
                         [] OTHER                        -> NotFound
  BY DEF Lookup
<1> HIDE DEF byLong, byShort
<1>3. ShortSlots(v) \subseteq Span(n) /\ \A i \in ShortSlots(v) : IsShort(v[i])
  BY DEF ShortSlots, IsShort
<1>4. CASE byLong # {}
  <2> DEFINE b == n * SlotsPerCluster
  <2>1. b \in Nat /\ Span(n) \subseteq 0 .. b
    BY SpanGrows DEF Span
  <2> HIDE DEF b
  <2>2. \E i \in byLong : \A j \in byLong : j <= i
    BY <1>1, <1>3, <1>4, <2>1, GreatestNatural
  <2>3. (CHOOSE i \in byLong : \A j \in byLong : j <= i) \in byLong
    BY <2>2, Zenon
  <2>. QED  BY <1>1, <1>2, <1>3, <1>4, <2>3
<1>5. CASE byLong = {} /\ byShort # {}
  <2>1. byShort \in SUBSET Nat
    BY <1>1, <1>3, Spans
  <2>2. \E i \in byShort : \A j \in byShort : i <= j
    BY <1>5, <2>1, LeastNatural
  <2>3. (CHOOSE i \in byShort : \A j \in byShort : i <= j) \in byShort
    BY <2>2, Zenon
  <2>. QED  BY <1>1, <1>2, <1>3, <1>5, <2>3
<1>6. CASE byLong = {} /\ byShort = {}
  BY <1>2, <1>6
<1>. QED  BY <1>4, <1>5, <1>6

\* The slots found are free and begin the directory or follow one in use.
LEMMA FreeRunIs ==
    ASSUME NEW n \in Nat, NEW v, DOMAIN v = Span(n), NEW need \in Nat \ {0},
           FreeRun(v, need) # NotFound
    PROVE  /\ FreeRun(v, need) \in Nat
           /\ FreeRun(v, need) + need - 1 \in Span(n)
           /\ \A j \in FreeRun(v, need) .. FreeRun(v, need) + need - 1 : IsFree(v[j])
           /\ FreeRun(v, need) > 0 => ~IsFree(v[FreeRun(v, need) - 1])
<1> DEFINE starts == {i \in DOMAIN v : /\ i = 0 \/ ~IsFree(v[i - 1])
                                       /\ i + need - 1 \in DOMAIN v
                                       /\ \A j \in i .. i + need - 1 : IsFree(v[j])}
           f      == FreeRun(v, need)
<1>1. f = IF starts = {} THEN NotFound ELSE CHOOSE i \in starts : \A j \in starts : i <= j
  BY DEF FreeRun, FreeRunOf
<1>2. /\ starts \in SUBSET Nat
      /\ \A i \in starts : /\ i = 0 \/ ~IsFree(v[i - 1])
                           /\ i + need - 1 \in Span(n)
                           /\ \A j \in i .. i + need - 1 : IsFree(v[j])
  BY Spans
<1> HIDE DEF starts
<1>3. f \in starts
  <2>1. starts # {}
    BY <1>1 DEF f
  <2>2. \E i \in starts : \A j \in starts : i <= j
    BY <1>2, <2>1, LeastNatural
  <2>3. (CHOOSE i \in starts : \A j \in starts : i <= j) \in starts
    BY <2>2, Zenon
  <2>. QED  BY <1>1, <2>1, <2>3
<1> HIDE DEF f
<1>4. f \in Nat /\ (f = 0 \/ ~IsFree(v[f - 1])) /\ f + need - 1 \in Span(n)
      /\ \A j \in f .. f + need - 1 : IsFree(v[j])
  BY <1>2, <1>3
<1>. QED  BY <1>4 DEF f

-----------------------------------------------------------------------------
(***************************************************************************)
(* One sequence of writes after another, and what is left after one.       *)
(***************************************************************************)

\* No write drops the resident parse, and every write of slots does.
Keeping(ws)  == \A k \in DOMAIN ws : ~ws[k].drop
Dropping(ws) == \A k \in DOMAIN ws : ws[k].kind = "put" => ws[k].drop

LEMMA PairIs ==
    ASSUME NEW S, NEW x \in S, NEW y \in S
    PROVE  <<x>> \o <<y>> = <<x, y>>
<1> DEFINE s == <<x>> \o <<y>>  t == <<x, y>>
<1>1. s \in Seq(S) /\ Len(s) = 2 /\ s[1] = x /\ s[2] = y
  <2>1. <<x>> \in Seq(S) /\ <<y>> \in Seq(S) /\ Len(<<x>>) = 1 /\ Len(<<y>>) = 1
    OBVIOUS
  <2>. QED  BY <2>1
<1>2. t \in Seq(S) /\ Len(t) = 2 /\ t[1] = x /\ t[2] = y
  OBVIOUS
<1> HIDE DEF s, t
<1>3. \A i \in 1 .. 2 : s[i] = t[i]
  <2>1. \A i \in 1 .. 2 : i = 1 \/ i = 2
    OBVIOUS
  <2>. QED  BY <1>1, <1>2, <2>1
<1>4. s = t
  BY <1>1, <1>2, <1>3, SeqEqual
<1>. QED  BY <1>4 DEF s, t

LEMMA JoinedIs ==
    ASSUME NEW s \in Seq(Writes), NEW t \in Seq(Writes)
    PROVE  LET r == s \o t
           IN  /\ r \in Seq(Writes) /\ Len(r) = Len(s) + Len(t)
               /\ \A k \in DOMAIN s : k \in DOMAIN r /\ r[k] = s[k]
               /\ \A l \in DOMAIN t : Len(s) + l \in DOMAIN r /\ r[Len(s) + l] = t[l]
               /\ \A k \in DOMAIN r : k \in DOMAIN s \/ \E l \in DOMAIN t : k = Len(s) + l
<1>1. s \o t \in Seq(Writes) /\ Len(s \o t) = Len(s) + Len(t)
  OBVIOUS
<1>2. \A k \in 1 .. Len(s) : (s \o t)[k] = s[k]
  OBVIOUS
<1>3. \A l \in 1 .. Len(t) : (s \o t)[Len(s) + l] = t[l]
  OBVIOUS
<1>4. Len(s) \in Nat /\ Len(t) \in Nat /\ DOMAIN s = 1 .. Len(s) /\ DOMAIN t = 1 .. Len(t)
      /\ DOMAIN (s \o t) = 1 .. Len(s) + Len(t)
  OBVIOUS
<1> DEFINE r == s \o t  n == Len(s)  o == Len(t)
<1>5. \A k \in DOMAIN r : k \in DOMAIN s \/ \E l \in DOMAIN t : k = n + l
  <2>1. \A k \in 1 .. n + o : k \in 1 .. n \/ (k - n \in 1 .. o /\ k = n + (k - n))
    BY <1>4
  <2>2. DOMAIN s = 1 .. n /\ DOMAIN t = 1 .. o /\ DOMAIN r = 1 .. n + o
    BY <1>4
  <2> HIDE DEF n, o, r
  <2>. QED  BY <2>1, <2>2
<1>6. /\ \A k \in DOMAIN s : k \in DOMAIN r /\ r[k] = s[k]
      /\ \A l \in DOMAIN t : n + l \in DOMAIN r /\ r[n + l] = t[l]
  <2>1. n \in Nat /\ o \in Nat /\ DOMAIN s = 1 .. n /\ DOMAIN t = 1 .. o /\ DOMAIN r = 1 .. n + o
    BY <1>4
  <2>2. (\A k \in 1 .. n : r[k] = s[k]) /\ (\A l \in 1 .. o : r[n + l] = t[l])
    BY <1>2, <1>3
  <2> HIDE DEF n, o, r
  <2>. QED  BY <2>1, <2>2
<1>7. r \in Seq(Writes) /\ Len(r) = n + o
  BY <1>1
<1> HIDE DEF r, n, o
<1>. QED  BY <1>5, <1>6, <1>7 DEF r, n, o

\* A sequence r that is s and then t.
Joins(r, s, t) ==
    /\ r \in Seq(Writes) /\ Len(r) = Len(s) + Len(t)
    /\ \A k \in DOMAIN s : k \in DOMAIN r /\ r[k] = s[k]
    /\ \A l \in DOMAIN t : Len(s) + l \in DOMAIN r /\ r[Len(s) + l] = t[l]
    /\ \A k \in DOMAIN r : k \in DOMAIN s \/ \E l \in DOMAIN t : k = Len(s) + l

LEMMA Joined ==
    ASSUME NEW s \in Seq(Writes), NEW t \in Seq(Writes)
    PROVE  Joins(s \o t, s, t)
BY JoinedIs DEF Joins

\* What was written, bumped or flushed by a write still was.
LEMMA JoinedSoFar ==
    ASSUME NEW s \in Seq(Writes), NEW t \in Seq(Writes)
    PROVE  LET r == s \o t
           IN  /\ \A k \in DOMAIN s : \A i : /\ Written(s, k, i) => Written(r, k, i)
                                             /\ Bumped(s, k, i) => Bumped(r, k, i)
               /\ \A k \in DOMAIN s : Flushed(s, k) => Flushed(r, k)
               /\ \A l \in DOMAIN t : \A i : /\ Written(t, l, i) => Written(r, Len(s) + l, i)
                                             /\ Bumped(t, l, i) => Bumped(r, Len(s) + l, i)
               /\ \A l \in DOMAIN t : Flushed(t, l) => Flushed(r, Len(s) + l)
<1> DEFINE r == s \o t  n == Len(s)
<1>1. /\ \A k \in DOMAIN s : r[k] = s[k]
      /\ \A l \in DOMAIN t : r[n + l] = t[l]
  BY JoinedIs
<1>2. n \in Nat /\ DOMAIN s = 1 .. n /\ DOMAIN t = 1 .. Len(t) /\ Len(t) \in Nat
  OBVIOUS
<1> HIDE DEF r, n
<1>3. \A k \in DOMAIN s : \A m \in 1 .. k : m \in DOMAIN s /\ r[m] = s[m]
  BY <1>1, <1>2
<1>4. \A l \in DOMAIN t : \A m \in 1 .. l : n + m \in 1 .. n + l /\ r[n + m] = t[m]
  BY <1>1, <1>2
<1>5. \A k \in DOMAIN s : \A i : /\ Written(s, k, i) => Written(r, k, i)
                                 /\ Bumped(s, k, i) => Bumped(r, k, i)
  BY <1>3 DEF Written, Bumped
<1>6. \A l \in DOMAIN t : \A i : /\ Written(t, l, i) => Written(r, n + l, i)
                                 /\ Bumped(t, l, i) => Bumped(r, n + l, i)
  BY <1>4 DEF Written, Bumped
<1>7. /\ \A k \in DOMAIN s : Flushed(s, k) => Flushed(r, k)
      /\ \A l \in DOMAIN t : Flushed(t, l) => Flushed(r, n + l)
  BY <1>3, <1>4 DEF Flushed
<1>. QED  BY <1>5, <1>6, <1>7 DEF r, n

LEMMA JoinedSound ==
    ASSUME NEW s, NEW t, Sound(s), Sound(t)
    PROVE  Sound(s \o t)
<1> DEFINE r == s \o t  n == Len(s)
<1>1. s \in Seq(Writes) /\ t \in Seq(Writes)
  BY DEF Sound
<1>2. /\ r \in Seq(Writes)
      /\ \A k \in DOMAIN s : r[k] = s[k]
      /\ \A l \in DOMAIN t : r[n + l] = t[l]
      /\ \A k \in DOMAIN r : k \in DOMAIN s \/ \E l \in DOMAIN t : k = n + l
  BY <1>1, JoinedIs
<1>3. /\ \A k \in DOMAIN s : \A i : /\ Written(s, k, i) => Written(r, k, i)
                                    /\ Bumped(s, k, i) => Bumped(r, k, i)
      /\ \A l \in DOMAIN t : \A i : /\ Written(t, l, i) => Written(r, n + l, i)
                                    /\ Bumped(t, l, i) => Bumped(r, n + l, i)
  BY <1>1, JoinedSoFar
<1> HIDE DEF r, n
<1>5. InPlace(r)
  BY <1>2 DEF Sound, InPlace
<1>6. Fills(r)
  <2> SUFFICES ASSUME NEW k \in DOMAIN r, NEW i \in DOMAIN r[k].put, ~IsFree(r[k].put[i]), NEW j \in 0 .. i
               PROVE  slots[j] # End \/ Written(r, k, j)
    BY DEF Fills
  <2>1. CASE k \in DOMAIN s
    <3>1. slots[j] # End \/ Written(s, k, j)
      BY <1>2, <2>1 DEF Sound, Fills
    <3>. QED  BY <1>3, <2>1, <3>1
  <2>2. CASE k \notin DOMAIN s
    <3>1. PICK l \in DOMAIN t : k = n + l
      BY <1>2, <2>2
    <3>2. slots[j] # End \/ Written(t, l, j)
      BY <1>2, <3>1 DEF Sound, Fills
    <3>. QED  BY <1>3, <3>1, <3>2
  <2>. QED  BY <2>1, <2>2
<1>7. Spares(r)
  <2> SUFFICES ASSUME handle # NoHandle, NEW k \in DOMAIN r, handle.index \in DOMAIN r[k].put
               PROVE  \/ Bumped(r, k, handle.index)
                      \/ LET slot == r[k].put[handle.index] IN IsShort(slot) /\ slot.id = handle.id
    BY DEF Spares
  <2>1. CASE k \in DOMAIN s
    BY <1>2, <1>3, <2>1 DEF Sound, Spares
  <2>2. CASE k \notin DOMAIN s
    <3>1. PICK l \in DOMAIN t : k = n + l
      BY <1>2, <2>2
    <3>. QED  BY <1>2, <1>3, <3>1 DEF Sound, Spares
  <2>. QED  BY <2>1, <2>2
<1>. QED  BY <1>2, <1>5, <1>6, <1>7 DEF Sound, r

\* Entries may go to a new cluster once a flush has linked it.
LEMMA JoinedPublished ==
    ASSUME NEW s \in Seq(Writes), NEW t \in Seq(Writes), Published(s),
           Published(t) \/ \E k \in DOMAIN s : s[k].kind = "flush"
    PROVE  Published(s \o t)
<1> DEFINE r == s \o t  n == Len(s)
<1>1. /\ \A k \in DOMAIN s : r[k] = s[k]
      /\ \A l \in DOMAIN t : r[n + l] = t[l]
      /\ \A k \in DOMAIN r : k \in DOMAIN s \/ \E l \in DOMAIN t : k = n + l
  BY JoinedIs
<1>2. /\ \A k \in DOMAIN s : Flushed(s, k) => Flushed(r, k)
      /\ \A l \in DOMAIN t : Flushed(t, l) => Flushed(r, n + l)
  BY JoinedSoFar
<1>3. n \in Nat /\ DOMAIN s = 1 .. n /\ \A l \in DOMAIN t : l \in Nat
  OBVIOUS
<1> HIDE DEF r, n
<1>4. ASSUME NEW k \in DOMAIN s, s[k].kind = "flush", NEW l \in DOMAIN t
      PROVE  Flushed(r, n + l)
  <2>1. k \in 1 .. n + l /\ r[k].kind = "flush"
    BY <1>1, <1>3, <1>4
  <2>. QED  BY <2>1 DEF Flushed
<1>. QED  BY <1>1, <1>2, <1>4 DEF Published, r

LEMMA JoinedParts ==
    ASSUME NEW s \in Seq(Writes), NEW t \in Seq(Writes), Parts(s), Parts(t),
           Keeping(s) \/ Dropping(t)
    PROVE  Parts(s \o t)
<1> DEFINE r == s \o t  n == Len(s)
<1>1. /\ r \in Seq(Writes)
      /\ \A k \in DOMAIN s : r[k] = s[k]
      /\ \A l \in DOMAIN t : r[n + l] = t[l]
      /\ \A k \in DOMAIN r : k \in DOMAIN s \/ \E l \in DOMAIN t : k = n + l
  BY JoinedIs
<1>2. n \in Nat /\ DOMAIN s = 1 .. n /\ DOMAIN t = 1 .. Len(t) /\ Len(t) \in Nat
  OBVIOUS
<1> HIDE DEF r, n
<1>3. ASSUME NEW k \in DOMAIN s, r[k].kind = "put", ~r[k].drop
      PROVE  /\ \A i \in DOMAIN r[k].put : r[k].put[i].kind = "long" /\ ~IsShort(slots[i])
             /\ \A m \in 1 .. k : ~r[m].drop
  <2>1. \A m \in 1 .. k : m \in DOMAIN s
    BY <1>2
  <2>. QED  BY <1>1, <1>3, <2>1 DEF Parts
<1>4. ASSUME NEW l \in DOMAIN t, r[n + l].kind = "put", ~r[n + l].drop
      PROVE  /\ \A i \in DOMAIN r[n + l].put : r[n + l].put[i].kind = "long" /\ ~IsShort(slots[i])
             /\ \A m \in 1 .. n + l : ~r[m].drop
  <2>1. r[n + l] = t[l] /\ Keeping(s)
    BY <1>1, <1>4 DEF Dropping
  <2>2. ASSUME NEW m \in 1 .. n + l PROVE ~r[m].drop
    <3>1. CASE m \in 1 .. n
      BY <1>1, <1>2, <2>1, <3>1 DEF Keeping
    <3>2. CASE m \notin 1 .. n
      <4>1. m - n \in 1 .. l /\ m - n \in DOMAIN t /\ m = n + (m - n)
        BY <1>2, <3>2
      <4>. QED  BY <1>1, <1>4, <2>1, <4>1 DEF Parts
    <3>. QED  BY <3>1, <3>2
  <2>. QED  BY <1>4, <2>1, <2>2 DEF Parts
<1>. QED  BY <1>1, <1>3, <1>4 DEF Parts, r

\* What is left of writes after the first.
LEMMA RestIs ==
    ASSUME NEW ws \in Seq(Writes), Len(ws) > 0
    PROVE  /\ Head(ws) = ws[1] /\ 1 \in DOMAIN ws /\ ws[1] \in Writes
           /\ Tail(ws) \in Seq(Writes) /\ Len(Tail(ws)) = Len(ws) - 1
           /\ \A k \in DOMAIN Tail(ws) : k \in Nat \ {0} /\ k + 1 \in DOMAIN ws /\ Tail(ws)[k] = ws[k + 1]
           /\ \A k \in DOMAIN ws : k = 1 \/ (k - 1 \in DOMAIN Tail(ws) /\ Tail(ws)[k - 1] = ws[k])
OBVIOUS

LEMMA RestSoFar ==
    ASSUME NEW ws \in Seq(Writes), Len(ws) > 0, NEW k \in DOMAIN Tail(ws)
    PROVE  /\ \A i : Written(ws, k + 1, i) => i \in DOMAIN ws[1].put \/ Written(Tail(ws), k, i)
           /\ \A i : Bumped(ws, k + 1, i) => i \in ws[1].bump \/ Bumped(Tail(ws), k, i)
           /\ Flushed(ws, k + 1) => ws[1].kind = "flush" \/ Flushed(Tail(ws), k)
<1>1. k \in Nat \ {0} /\ k \in 1 .. Len(Tail(ws)) /\ Len(Tail(ws)) \in Nat
  BY RestIs
<1>2. \A m \in 1 .. k + 1 : m = 1 \/ (m - 1 \in 1 .. k /\ Tail(ws)[m - 1] = ws[m])
  <2>1. \A m \in 1 .. k + 1 : m = 1 \/ (m - 1 \in 1 .. k /\ m \in DOMAIN ws)
    BY <1>1, RestIs
  <2>. QED  BY <2>1, RestIs
<1>. QED  BY <1>2 DEF Written, Bumped, Flushed

-----------------------------------------------------------------------------
(***************************************************************************)
(* What a call reads, and the writes it makes of that.                     *)
(***************************************************************************)

\* What holds between any two steps, wherever the call stands.
Settled == Typed /\ Tidy /\ (resident # NotRead => Agrees(resident)) /\ HandleHolds

LEMMA Places ==
    ASSUME Typed
    PROVE  /\ length \in Nat \ {0} /\ linked \in Nat \ {0}
           /\ Span(length) \subseteq AllSlots /\ Span(linked) \subseteq Span(length)
           /\ Span(length) \subseteq Nat /\ 0 \in Span(linked)
<1>1. length \in Nat \ {0} /\ linked \in Nat \ {0} /\ length <= MaxClusters /\ linked <= length
      /\ MaxClusters \in Nat
  BY DirectoryAssumption DEF Typed
<1>2. 1 * SlotsPerCluster = SlotsPerCluster /\ SlotsPerCluster \in Nat \ {0}
  BY DirectoryAssumption
<1>3. 0 \in Span(1)
  BY <1>2 DEF Span
<1>. QED  BY <1>1, <1>3, Spans

\* Reading shows every entry the device has and no other, and nothing as in
\* use that the device has free.
LEMMA ReadIs ==
    ASSUME Settled
    PROVE  /\ Read \in [Span(length) -> Slots]
           /\ Read # NotRead
           /\ Agrees(Read)
<1>1. CASE resident = NotRead
  <2>1. Read = [i \in Span(length) |-> slots[i]]
    BY <1>1 DEF Read, View, Span
  <2>2. \A i \in Span(length) : slots[i] \in Slots
    BY Places DEF Settled, Typed
  <2>. QED  BY <2>1, <2>2, Places DEF Agrees, Settled, NotRead
<1>2. CASE resident # NotRead
  BY <1>2, Places DEF Read, Settled, Typed
<1>. QED  BY <1>1, <1>2

\* An entry that is read is the device's, and a file's.
LEMMA EntriesRead ==
    ASSUME Settled, NEW i \in Span(length), IsShort(Read[i])
    PROVE  /\ Read[i] = slots[i] /\ IsShort(slots[i]) /\ i \in Span(linked)
           /\ slots[i].id \in Files /\ slots[i].alias \in Aliases
<1>1. Read[i] = slots[i] /\ slots[i] # Junk /\ slots[i] \in Slots
  BY ReadIs, Places DEF Settled, Agrees, Tidy, Typed
<1>. QED  BY <1>1, Kinds DEF Settled, Tidy

\* What is read as in use is in use on the device, and nothing before it is an
\* end marker.
LEMMA InUseRead ==
    ASSUME Settled, NEW i \in Span(length), ~IsFree(Read[i])
    PROVE  ~IsFree(slots[i]) /\ \A j \in 0 .. i : slots[j] # End
<1>1. ~IsFree(slots[i]) /\ i \in Nat /\ length \in Nat
  BY ReadIs, Places DEF Agrees, Settled
<1>2. \A j \in 0 .. i : j \in Span(length)
  BY <1>1, Spans
<1>3. \A j \in 0 .. i : j = i \/ j < i
  BY <1>1
<1>. QED  BY <1>1, <1>2, <1>3, Kinds DEF Settled, Tidy

LEMMA EditIs ==
    ASSUME NEW i, NEW slot, NEW bump
    PROVE  Edit(i, slot, bump) =
              [kind |-> "put", put |-> [j \in {i} |-> slot], bump |-> bump, frees |-> {}, drop |-> TRUE]
BY DEF Edit, PutSlot

LEMMA EmptyFits == Sound(<<>>) /\ Parts(<<>>) /\ Dropping(<<>>) /\ Published(<<>>)
BY DEF Sound, InPlace, Fills, Spares, Parts, Dropping, Published

LEMMA FlushFits ==
    ASSUME NEW F \in SUBSET Files
    PROVE  LET ws == <<Flush(F)>>
           IN  /\ Sound(ws) /\ Parts(ws) /\ Published(ws) /\ Keeping(ws) /\ Dropping(ws)
               /\ Len(ws) = 1 /\ ws[1].kind = "flush" /\ DOMAIN ws[1].put = {} /\ ws[1].frees = F
<1> DEFINE w == Flush(F)  ws == <<w>>
<1>1. w.kind = "flush" /\ w.put = <<>> /\ w.drop = FALSE /\ w.bump = {} /\ w.frees = F
  BY DEF Flush
<1>2. w \in Writes
  <2>1. <<>> \in Puts
    <3>1. <<>> \in [{} -> Own]
      OBVIOUS
    <3>. QED  BY <3>1 DEF Puts
  <2>. QED  BY <2>1 DEF Flush, Writes
<1>3. DOMAIN w.put = {}
  BY <1>1
<1> HIDE DEF w
<1>4. ws \in Seq(Writes) /\ DOMAIN ws = {1} /\ ws[1] = w /\ Len(ws) = 1
  BY <1>2
<1> HIDE DEF ws
<1>5. Sound(ws)
  BY <1>1, <1>3, <1>4 DEF Sound, InPlace, Fills, Spares
<1>6. Parts(ws) /\ Published(ws) /\ Keeping(ws) /\ Dropping(ws)
  BY <1>1, <1>3, <1>4 DEF Parts, Published, Keeping, Dropping
<1>. QED  BY <1>1, <1>3, <1>4, <1>5, <1>6 DEF ws, w

\* One slot written: free, or over a slot in use; a handle's with its file or
\* with its generation moved.
LEMMA EditFits ==
    ASSUME Settled, NEW i \in Span(length), NEW slot \in Own, NEW bump \in SUBSET AllSlots,
           ~IsFree(slot) => \A j \in 0 .. i : slots[j] # End,
           handle.index = i => i \in bump \/ (IsShort(slot) /\ slot.id = handle.id),
           IsShort(slot) => i \in Span(linked)
    PROVE  LET ws == <<Edit(i, slot, bump)>>
           IN  /\ Sound(ws) /\ Parts(ws) /\ Published(ws) /\ Dropping(ws)
               /\ Len(ws) = 1 /\ DOMAIN ws[1].put = {i} /\ ws[1].put[i] = slot
<1> DEFINE w == Edit(i, slot, bump)  ws == <<w>>
<1>1. /\ w = [kind |-> "put", put |-> [j \in {i} |-> slot], bump |-> bump, frees |-> {}, drop |-> TRUE]
  BY EditIs
<1> DEFINE put == [j \in {i} |-> slot]
<1>2. DOMAIN put = {i} /\ put[i] = slot /\ put \in [{i} -> Own]
  OBVIOUS
<1>3. i \in AllSlots
  BY Places DEF Settled
<1>4. w \in Writes
  <2>1. put \in Puts
    BY <1>2, <1>3 DEF Puts
  <2>. QED  BY <1>1, <2>1 DEF Writes
<1>5. /\ w.kind = "put" /\ w.drop = TRUE /\ w.bump = bump
      /\ DOMAIN w.put = {i} /\ w.put[i] = slot
  BY <1>1, <1>2
<1> HIDE DEF w
<1>6. ws \in Seq(Writes) /\ DOMAIN ws = {1} /\ ws[1] = w /\ Len(ws) = 1
  BY <1>4
<1> HIDE DEF ws
<1>7. InPlace(ws) /\ Fills(ws)
  BY <1>5, <1>6 DEF InPlace, Fills
<1>8. Spares(ws)
  BY <1>5, <1>6 DEF Spares, Bumped
<1>9. Parts(ws) /\ Published(ws) /\ Dropping(ws)
  BY <1>5, <1>6 DEF Parts, Published, Dropping
<1>. QED  BY <1>5, <1>6, <1>7, <1>8, <1>9 DEF Sound, ws, w

\* Slots freed, the generations of all of them moving with the first.
LEMMA DeletesFit ==
    ASSUME Settled, NEW first \in Int, NEW last \in Int,
           \A i \in first .. last : i \in Span(length)
    PROVE  LET ws == DeleteEntries(first, last)
           IN  /\ Sound(ws) /\ Parts(ws) /\ Published(ws) /\ Dropping(ws)
               /\ first <= last => Len(ws) > 0
               /\ \A k \in DOMAIN ws : DOMAIN ws[k].put \subseteq first .. last
               /\ \A k \in DOMAIN ws : \A i \in DOMAIN ws[k].put : ~IsShort(ws[k].put[i])
               /\ FreesNone(ws)
               /\ first <= last => \E k \in DOMAIN ws : last \in DOMAIN ws[k].put
<1> DEFINE ws == DeleteEntries(first, last)
           n  == last - first + 1
<1>1. ASSUME NEW k \in 1 .. n
      PROVE  /\ ws[k] \in Writes /\ ws[k].kind = "put" /\ ws[k].drop /\ ws[k].frees = {}
             /\ last + 1 - k \in first .. last
             /\ DOMAIN ws[k].put = {last + 1 - k}
             /\ ws[k].put[last + 1 - k] = Deleted
             /\ k = 1 => ws[k].bump = first .. last
  <2> DEFINE i == last + 1 - k  bump == IF k = 1 THEN first .. last ELSE {}
  <2>1. i \in first .. last
    OBVIOUS
  <2>2. i \in AllSlots /\ bump \in SUBSET AllSlots
    BY <2>1, Places DEF Settled
  <2>3. ws[k] = [kind |-> "put", put |-> [j \in {i} |-> Deleted], bump |-> bump, frees |-> {}, drop |-> TRUE]
    BY EditIs DEF DeleteEntries
  <2> DEFINE put == [j \in {i} |-> Deleted]
  <2> HIDE DEF i, bump, ws
  <2>4. DOMAIN put = {i} /\ put[i] = Deleted /\ put \in [{i} -> Own]
    BY PutsAreOwn
  <2>5. put \in Puts
    BY <2>2, <2>4 DEF Puts
  <2>6. ws[k] \in Writes
    BY <2>2, <2>3, <2>5 DEF Writes
  <2>7. ws[k].kind = "put" /\ ws[k].drop /\ ws[k].frees = {} /\ ws[k].put = put /\ ws[k].bump = bump
    BY <2>3
  <2>. QED  BY <2>1, <2>4, <2>6, <2>7 DEF i, bump
<1>2. ws = [k \in 1 .. n |-> ws[k]]
  BY DEF DeleteEntries
<1> HIDE DEF ws
<1>3. ws \in Seq(Writes) /\ DOMAIN ws = 1 .. n
  <2>1. CASE n >= 0
    <3>1. n \in Nat /\ ws \in [1 .. n -> Writes]
      BY <1>1, <1>2, <2>1
    <3> HIDE DEF n
    <3>. QED  BY <3>1
  <2>2. CASE n < 0
    <3>1. 1 .. n = {} /\ 1 .. n = 1 .. 0
      BY <2>2
    <3>. QED  BY <1>2, <3>1
  <2>. QED  BY <2>1, <2>2
<1>4. first <= last => Len(ws) > 0
  BY <1>3
<1>5. InPlace(ws) /\ Fills(ws)
  BY <1>1, <1>3, Kinds DEF InPlace, Fills
<1>6. Spares(ws)
  <2> SUFFICES ASSUME NEW k \in DOMAIN ws, NEW h \in DOMAIN ws[k].put PROVE Bumped(ws, k, h)
    BY DEF Spares
  <2>1. k \in 1 .. n /\ 1 \in 1 .. k /\ 1 \in 1 .. n
    BY <1>3
  <2>2. h \in first .. last /\ ws[1].bump = first .. last
    BY <1>1, <2>1
  <2>. QED  BY <2>1, <2>2 DEF Bumped
<1>7. Parts(ws) /\ Published(ws) /\ Dropping(ws)
  BY <1>1, <1>3, Kinds DEF Parts, Published, Dropping
<1>8. /\ \A k \in DOMAIN ws : DOMAIN ws[k].put \subseteq first .. last
      /\ \A k \in DOMAIN ws : \A i \in DOMAIN ws[k].put : ~IsShort(ws[k].put[i])
      /\ FreesNone(ws)
  BY <1>1, <1>3, Kinds DEF FreesNone
<1>9. first <= last => \E k \in DOMAIN ws : last \in DOMAIN ws[k].put
  <2> SUFFICES ASSUME first <= last PROVE 1 \in DOMAIN ws /\ last \in DOMAIN ws[1].put
    OBVIOUS
  <2>1. 1 \in 1 .. n /\ last + 1 - 1 = last
    OBVIOUS
  <2>. QED  BY <1>1, <1>3, <2>1
<1>. QED  BY <1>3, <1>4, <1>5, <1>6, <1>7, <1>8, <1>9 DEF Sound, ws

\* The parts of a name and its entry, last slot the entry's.
LEMMA NameEntriesAre ==
    ASSUME NEW n \in Names, NEW a \in Aliases, NEW id \in Files,
           PartsOf[n] < SlotsPerCluster * MaxClusters
    PROVE  LET entries == NameEntries(n, a, id)
               last    == PartsOf[n] + 1
           IN  /\ PartsOf[n] \in Nat
               /\ Len(entries) = last
               /\ \A k \in 1 .. last : entries[k] \in Own
               /\ \A k \in 1 .. last : k # last => entries[k].kind = "long" /\ ~IsShort(entries[k])
               /\ entries[last] = ShortSlot(a, id)
<1> DEFINE entries == NameEntries(n, a, id)  last == PartsOf[n] + 1
<1>1. PartsOf[n] \in Nat /\ last \in Nat \ {0} /\ SlotsPerCluster * MaxClusters \in Nat
  BY DirectoryAssumption
<1>2. entries = [k \in 1 .. last |-> IF k = last THEN ShortSlot(a, id) ELSE LongSlot(n, last - k, a)]
  BY DEF NameEntries, SlotsFor
<1>3. ASSUME NEW k \in 1 .. last, k # last
      PROVE  /\ entries[k] \in Own
             /\ entries[k].kind = "long" /\ ~IsShort(entries[k])
  <2>1. last - k \in 1 .. SlotsPerCluster * MaxClusters
    BY <1>1, <1>3
  <2>2. entries[k] = LongSlot(n, last - k, a)
    BY <1>2, <1>3
  <2>. QED  BY <2>1, <2>2, PutsAreOwn
<1>4. entries[last] = ShortSlot(a, id) /\ entries[last] \in Own
  BY <1>1, <1>2, PutsAreOwn
<1>5. Len(entries) = last
  <2>1. last \in Nat /\ entries \in [1 .. last -> Own]
    BY <1>1, <1>2, <1>3, <1>4
  <2> HIDE DEF entries, last
  <2>. QED  BY <2>1
<1>. QED  BY <1>1, <1>3, <1>4, <1>5

\* The writes of entries, block by block: each slot is in one of them, which
\* are in the slots' order, and only the last drops the resident parse.
BlockByBlock(ws, first, last, entries) ==
    /\ ws \in Seq(Writes) /\ Len(ws) = BlockOf(last) - BlockOf(first) + 1 /\ Len(ws) \in Nat \ {0}
    /\ \A k \in DOMAIN ws :
          /\ ws[k].kind = "put" /\ ws[k].bump = {} /\ ws[k].frees = {}
          /\ ws[k].drop <=> k = Len(ws)
          /\ DOMAIN ws[k].put = {i \in first .. last : BlockOf(i) - BlockOf(first) + 1 = k}
          /\ \A i \in DOMAIN ws[k].put : ws[k].put[i] = entries[i - first + 1]
    /\ \A j \in first .. last, i \in first .. last :
          j <= i => BlockOf(j) - BlockOf(first) + 1 \in 1 .. BlockOf(i) - BlockOf(first) + 1
    /\ \A i \in first .. last : BlockOf(i) - BlockOf(first) + 1 \in DOMAIN ws

LEMMA WriteEntriesAre ==
    ASSUME NEW first \in Nat, NEW last \in Nat, first <= last, \A i \in first .. last : i \in AllSlots,
           NEW entries, Len(entries) = last - first + 1,
           \A k \in 1 .. Len(entries) : entries[k] \in Own
    PROVE  BlockByBlock(WriteEntries(first, entries), first, last, entries)
<1> DEFINE ws == WriteEntries(first, entries)
           b  == BlockOf(first)
<1> DEFINE n == BlockOf(last) - b + 1
<1>1. SlotsPerBlock \in Nat \ {0}
  BY DirectoryAssumption
<1>2. \A i \in Nat : i \div SlotsPerBlock \in Nat
  BY <1>1
<1>3. \A j, i \in Nat : j <= i => j \div SlotsPerBlock <= i \div SlotsPerBlock
  BY <1>1
<1> DEFINE B == BlockOf(last)
<1>3a. /\ \A i \in first .. last : BlockOf(i) \in Nat /\ b <= BlockOf(i) /\ BlockOf(i) <= B
       /\ \A j, i \in first .. last : j <= i => BlockOf(j) <= BlockOf(i)
       /\ b \in Nat /\ B \in Nat /\ b <= B
  <2>1. \A i \in first .. last : i \in Nat /\ first <= i /\ i <= last
    OBVIOUS
  <2>. QED  BY <1>2, <1>3, <2>1 DEF BlockOf
<1>4. first + Len(entries) - 1 = last
  OBVIOUS
<1>5. ws = [k \in 1 .. n |-> BlockWrite(first, entries, b + k - 1, b + k - 1 = BlockOf(last))]
  BY <1>4 DEF WriteEntries
<1> HIDE DEF B, ws
<1>6. n \in Nat \ {0} /\ n = B - b + 1
  BY <1>3a DEF B
<1>7. \A j \in first .. last, i \in first .. last :
         j <= i => BlockOf(j) - b + 1 \in 1 .. BlockOf(i) - b + 1
  BY <1>3a
<1>8. \A i \in first .. last : BlockOf(i) - b + 1 \in 1 .. n
  BY <1>6, <1>3a
<1>9. ASSUME NEW k \in 1 .. n
      PROVE  /\ ws[k] \in Writes
             /\ ws[k].kind = "put" /\ ws[k].bump = {} /\ ws[k].frees = {}
             /\ ws[k].drop <=> k = n
             /\ DOMAIN ws[k].put = {i \in first .. last : BlockOf(i) - b + 1 = k}
             /\ \A i \in DOMAIN ws[k].put : ws[k].put[i] = entries[i - first + 1]
  <2> DEFINE D   == {i \in first .. first + Len(entries) - 1 : BlockOf(i) = b + k - 1}
             put == [i \in D |-> entries[i - first + 1]]
             final == b + k - 1 = BlockOf(last)
  <2>1. ws[k] = [kind |-> "put", bump |-> {}, frees |-> {}, drop |-> final, put |-> put]
    BY <1>5 DEF BlockWrite
  <2>2. D = {i \in first .. last : BlockOf(i) - b + 1 = k}
    <3>1. \A i \in first .. last : BlockOf(i) = b + k - 1 <=> BlockOf(i) - b + 1 = k
      <4> TAKE i \in first .. last
      <4>1. BlockOf(i) \in Nat /\ b \in Nat
        BY <1>3a
      <4>. QED  BY <4>1
    <3>. QED  BY <1>4, <3>1
  <2>3. put \in Puts
    <3>1. D \in SUBSET AllSlots
      BY <2>2
    <3>2. \A i \in D : entries[i - first + 1] \in Own
      BY <1>4
    <3>3. put \in [D -> Own]
      BY <3>2
    <3> HIDE DEF D, put
    <3>. QED  BY <3>1, <3>3 DEF Puts
  <2>4. DOMAIN put = D /\ \A i \in D : put[i] = entries[i - first + 1]
    OBVIOUS
  <2>5. final \in BOOLEAN /\ (final <=> k = n)
    BY <1>6, <1>3a DEF B
  <2> HIDE DEF put, D, final
  <2>6. ws[k] \in Writes
    BY <2>1, <2>3, <2>5 DEF Writes
  <2>7. ws[k].kind = "put" /\ ws[k].bump = {} /\ ws[k].frees = {} /\ ws[k].drop = final /\ ws[k].put = put
    BY <2>1
  <2>. QED  BY <2>2, <2>4, <2>5, <2>6, <2>7
<1> HIDE DEF n
<1>10. ws \in [1 .. n -> Writes]
  BY <1>5, <1>9
<1>11. ws \in Seq(Writes) /\ Len(ws) = n /\ DOMAIN ws = 1 .. n
  BY <1>6, <1>10
<1>. QED  BY <1>6, <1>7, <1>8, <1>9, <1>11 DEF B, n, ws, BlockByBlock

\* Entries written over slots without entries but the last, of which none is
\* past an end marker, and none a handle's but that of the same file.
LEMMA WriteEntriesFit ==
    ASSUME Settled, NEW n \in Names, NEW a \in Aliases, NEW id \in Files,
           NEW first \in Nat, NEW last \in Span(length), last = first + PartsOf[n],
           first > 0 => \A j \in 0 .. first - 1 : slots[j] # End,
           \A i \in first .. last - 1 : ~IsShort(slots[i]),
           handle # NoHandle /\ handle.index \in first .. last => handle.index = last /\ handle.id = id
    PROVE  LET ws == WriteEntries(first, NameEntries(n, a, id))
           IN  /\ Sound(ws) /\ Parts(ws) /\ Len(ws) > 0
               /\ last \in Span(linked) => Published(ws)
               /\ last \in DOMAIN ws[Len(ws)].put /\ ws[Len(ws)].put[last] = ShortSlot(a, id)
               /\ \A k \in DOMAIN ws : DOMAIN ws[k].put \subseteq first .. last
               /\ \A k \in DOMAIN ws : last \in DOMAIN ws[k].put => ws[k].put[last] = ShortSlot(a, id)
               /\ \A k \in DOMAIN ws : \A i \in DOMAIN ws[k].put : IsShort(ws[k].put[i]) => i = last
               /\ FreesNone(ws)
<1> DEFINE entries == NameEntries(n, a, id)
           ws == WriteEntries(first, entries)
           b  == BlockOf(first)
<1>1. PartsOf[n] \in Nat /\ last \in Nat /\ first <= last /\ length \in Nat
  BY DirectoryAssumption, Places DEF Settled
<1>2. \A i \in first .. last : i \in Span(length) /\ i \in AllSlots
  <2>1. \A i \in first .. last : i \in Span(length)
    BY <1>1, Spans
  <2>. QED  BY <2>1, Places DEF Settled
<1>3. PartsOf[n] < SlotsPerCluster * MaxClusters
  <2>1. last \in AllSlots
    BY <1>1, <1>2
  <2>2. SlotsPerCluster * MaxClusters = MaxClusters * SlotsPerCluster
    BY DirectoryAssumption
  <2>3. MaxClusters * SlotsPerCluster \in Nat
    BY DirectoryAssumption
  <2>. QED  BY <1>1, <2>1, <2>2, <2>3 DEF AllSlots
<1>4. /\ Len(entries) = last - first + 1
      /\ \A k \in 1 .. Len(entries) : entries[k] \in Own
      /\ \A i \in first .. last : /\ entries[i - first + 1] \in Own
                                  /\ i # last => /\ entries[i - first + 1].kind = "long"
                                                 /\ ~IsShort(entries[i - first + 1])
      /\ entries[last - first + 1] = ShortSlot(a, id)
  BY <1>1, <1>3, NameEntriesAre
<1> HIDE DEF entries
<1>4a. BlockByBlock(ws, first, last, entries)
  BY <1>1, <1>2, <1>4, WriteEntriesAre
<1>5. /\ ws \in Seq(Writes) /\ Len(ws) = BlockOf(last) - b + 1 /\ Len(ws) \in Nat \ {0}
      /\ \A k \in DOMAIN ws :
            /\ ws[k].kind = "put" /\ ws[k].bump = {} /\ ws[k].frees = {}
            /\ ws[k].drop <=> k = Len(ws)
            /\ DOMAIN ws[k].put = {i \in first .. last : BlockOf(i) - b + 1 = k}
            /\ \A i \in DOMAIN ws[k].put : ws[k].put[i] = entries[i - first + 1]
      /\ \A j \in first .. last, i \in first .. last :
            j <= i => BlockOf(j) - b + 1 \in 1 .. BlockOf(i) - b + 1
      /\ \A i \in first .. last : BlockOf(i) - b + 1 \in DOMAIN ws
  BY <1>4a DEF BlockByBlock
<1> HIDE DEF ws, b
<1>6. DOMAIN ws = 1 .. Len(ws)
  BY <1>5
<1>7. last \in DOMAIN ws[Len(ws)].put
  BY <1>1, <1>5, <1>6
<1>8. InPlace(ws)
  BY <1>2, <1>5 DEF InPlace
<1>9. Fills(ws)
  <2> SUFFICES ASSUME NEW k \in DOMAIN ws, NEW i \in DOMAIN ws[k].put, NEW j \in 0 .. i
               PROVE  slots[j] # End \/ Written(ws, k, j)
    BY DEF Fills
  <2>1. i \in first .. last /\ BlockOf(i) - b + 1 = k
    BY <1>5
  <2>2. CASE j < first
    BY <2>1, <2>2
  <2>3. CASE ~(j < first)
    <3>1. j \in first .. last /\ j <= i
      BY <2>1, <2>3
    <3> DEFINE h == BlockOf(j) - b + 1
    <3>2. h \in 1 .. k /\ h \in DOMAIN ws
      BY <1>5, <2>1, <3>1
    <3>3. DOMAIN ws[h].put = {l \in first .. last : BlockOf(l) - b + 1 = h}
      BY <1>5, <3>2
    <3>4. j \in DOMAIN ws[h].put
      BY <3>1, <3>3
    <3> HIDE DEF h
    <3>. QED  BY <3>2, <3>4 DEF Written
  <2>. QED  BY <2>2, <2>3
<1>10. ASSUME NEW k \in DOMAIN ws, NEW i \in DOMAIN ws[k].put
       PROVE  /\ i \in first .. last
              /\ i = last => ws[k].put[i] = ShortSlot(a, id) /\ k = Len(ws)
              /\ i # last => ws[k].put[i].kind = "long" /\ ~IsShort(ws[k].put[i])
  <2>1. i \in first .. last /\ BlockOf(i) - b + 1 = k /\ ws[k].put[i] = entries[i - first + 1]
    BY <1>5
  <2>2. i = last => k = Len(ws)
    BY <1>5, <2>1
  <2>. QED  BY <1>4, <2>1, <2>2
<1>11. Spares(ws)
  BY <1>10, PutsAreOwn DEF Spares
<1>12. Parts(ws)
  <2> SUFFICES ASSUME NEW k \in DOMAIN ws, ~ws[k].drop
               PROVE  /\ \A i \in DOMAIN ws[k].put : ws[k].put[i].kind = "long" /\ ~IsShort(slots[i])
                      /\ \A m \in 1 .. k : ~ws[m].drop
    BY DEF Parts
  <2>1. k # Len(ws) /\ k \in 1 .. Len(ws)
    BY <1>5, <1>6
  <2>2. \A m \in 1 .. k : m \in DOMAIN ws /\ m # Len(ws)
    BY <1>5, <1>6, <2>1
  <2>3. ASSUME NEW i \in DOMAIN ws[k].put PROVE i \in first .. last - 1
    BY <1>1, <1>10, <2>1
  <2>4. \A i \in DOMAIN ws[k].put : ws[k].put[i].kind = "long" /\ ~IsShort(slots[i])
    BY <1>10, <2>3
  <2>5. \A m \in 1 .. k : ~ws[m].drop
    BY <1>5, <1>10, <2>2
  <2>. QED  BY <2>4, <2>5
<1>13. last \in Span(linked) => Published(ws)
  BY <1>10 DEF Published
<1>. QED  BY <1>5, <1>6, <1>7, <1>8, <1>9, <1>10, <1>11, <1>12, <1>13 DEF Sound, FreesNone, ws, entries

-----------------------------------------------------------------------------
(***************************************************************************)
(* Calls begin.                                                            *)
(***************************************************************************)

\* What a call that looks for slots must know.
Looking(c) ==
    /\ c.name \in Names
    /\ c.over = None
    /\ \A i \in c.old.first .. c.old.last : i \in Span(length) /\ ~IsFree(Read[i])
    /\ c.op = "rename" =>
          /\ c.old.last \in c.old.first .. c.old.last
          /\ Marks(c, slots[c.old.last])
    /\ c.op # "rename" => Alone(c.id)

LEMMA NoCallIsIdle ==
    /\ Idle.step = "idle" /\ Idle.op = "none"
    /\ \A c \in Calls : c # Idle /\ c.step \in {"find", "write"}
BY DEF Idle, Calls

\* Writes that fit still do where nothing moves but what is read.
LEMMA FitStays ==
    ASSUME NEW c, NEW ws, Fit(c, ws), call' = c, todo' = ws,
           UNCHANGED <<length, handle, slots, linked, doubled>>
    PROVE  Fit(call, todo)'
<1>1. Sound(todo)'
  BY DEF Fit, Sound, InPlace, Fills, Spares, Span, Written, Bumped
<1>2. Parts(todo)' /\ Published(todo)'
  BY DEF Fit, Parts, Published, Span, Flushed
<1>3. (call.op = "rename" => Keeps(call, todo))'
  BY DEF Fit, Keeps, Marks, LeavesFrom, LeavesUpTo, Span
<1>4. (~doubled => Apart(call, todo))'
  BY DEF Fit, Apart, FreesNone, OneEntry, Replaces, Parted, Twins, Moves, Span
<1>. QED  BY <1>1, <1>2, <1>3, <1>4 DEF Fit

\* One entry written apart, where no file has two, leaves none with two.
PutsOnly(c, ws, j) ==
    \A k \in DOMAIN ws : \A i \in DOMAIN ws[k].put :
        IsShort(ws[k].put[i]) => i = j /\ ws[k].put[i].id = c.id

LEMMA OnceOnly == \A c, ws, j : PutsOnly(c, ws, j) => OneEntry(c, ws)
BY DEF PutsOnly, OneEntry

LEMMA OnceApart ==
    ASSUME Single, NEW c, NEW ws, NEW j, PutsOnly(c, ws, j), Moves(c) => FreesNone(ws),
           \A m \in DOMAIN ws : j \in DOMAIN ws[m].put /\ IsShort(ws[m].put[j]) =>
               \A i \in Span(length) : i # j /\ IsShort(slots[i]) /\ slots[i].id = c.id =>
                   \E k \in DOMAIN ws : i \in DOMAIN ws[k].put /\ (k < m \/ Moves(c))
    PROVE  Apart(c, ws)
<1>1. OneEntry(c, ws)
  BY OnceOnly
<1>2. Replaces(c, ws)
  BY DEF Replaces, PutsOnly
<1>3. Parted(c, ws)
  BY DEF Parted, Single
<1>. QED  BY <1>1, <1>2, <1>3 DEF Apart

LEMMA JoinedApart ==
    ASSUME NEW s \in Seq(Writes), NEW t \in Seq(Writes)
    PROVE  /\ \A c, j : PutsOnly(c, s, j) /\ PutsOnly(c, t, j) => PutsOnly(c, s \o t, j)
           /\ FreesNone(s) /\ FreesNone(t) => FreesNone(s \o t)
<1>1. Joins(s \o t, s, t)
  BY Joined
<1> DEFINE r == s \o t
<1>2. \A k \in DOMAIN r : (\E l \in DOMAIN s : r[k] = s[l]) \/ (\E l \in DOMAIN t : r[k] = t[l])
  BY <1>1 DEF Joins
<1> HIDE DEF r
<1>3. \A c, j : PutsOnly(c, s, j) /\ PutsOnly(c, t, j) => PutsOnly(c, r, j)
  BY <1>2 DEF PutsOnly
<1>4. FreesNone(s) /\ FreesNone(t) => FreesNone(r)
  BY <1>2 DEF FreesNone
<1>. QED  BY <1>3, <1>4 DEF r

\* A call whose writes fit, or that looks for slots, may start.
LEMMA Starting ==
    ASSUME DInv, call = Idle, NEW c \in Calls, NEW ws, Start(c, ws),
           UNCHANGED <<length, handle, slots, linked, troubles, doubled>>,
           held' \subseteq Files,
           c.step = "write" => Len(ws) > 0 /\ Fit(c, ws),
           c.step = "find" => ws = <<>> /\ Looking(c)
    PROVE  DInv'
<1>1. Settled
  BY DEF DInv, Settled
<1>2. Read \in [Span(length) -> Slots] /\ Read # NotRead /\ Agrees(Read)
  BY <1>1, ReadIs
<1>3. call' = c /\ todo' = ws /\ resident' = Read
  BY DEF Start
<1>4. promised' \in [Files -> Promises]
  BY <1>1 DEF Start, Settled, Typed, Promises
<1>5. Typed'
  BY <1>1, <1>2, <1>3, <1>4 DEF Typed, Settled, Span
<1>6. Tidy' /\ HandleHolds'
  BY <1>1 DEF Settled, Tidy, HandleHolds, Span
<1>7. Agrees(resident)'
  BY <1>2, <1>3 DEF Agrees, Span
<1>8. Read' = Read
  BY <1>2, <1>3 DEF Read, NotRead
<1>9. (call.step = "find")' => Finding'
  BY <1>3, <1>8 DEF Finding, Looking, Marks, Alone, Span
<1>10. (call.step = "write")' => (Len(todo) > 0 /\ Fit(call, todo))'
  BY <1>3, FitStays
<1>11. Finding'
  BY <1>9 DEF Finding
<1>12. (~doubled => Single)'
  <2>1. ~doubled => Single
    BY NoCallIsIdle DEF DInv
  <2>. QED  BY <2>1 DEF Single, Twins, Span
<1>. QED  BY <1>3, <1>5, <1>6, <1>7, <1>10, <1>11, <1>12, NoCallIsIdle DEF DInv

LEMMA CallingIs ==
    ASSUME Typed, NEW op \in {"create", "remove", "rename", "update"}, NEW step \in {"find", "write"},
           NEW id \in Files, NEW over \in Files \cup {None}, NEW name \in Promises,
           NEW alias \in Aliases, NEW old \in [first : Int, last : Int],
           NEW c, c = Calling(op, step, id, over, name, alias, old)
    PROVE  /\ c \in Calls
           /\ c.op = op /\ c.step = step /\ c.id = id /\ c.over = over /\ c.name = name
           /\ c.alias = alias /\ c.old = old
<1> DEFINE was == IF Unsure \in {promised[f] : f \in {id, over} \ {None}} THEN Unsure ELSE promised[id]
<1>1. was \in Promises
  BY DEF Typed, Promises
<1>2. c = [op |-> op, step |-> step, id |-> id, over |-> over, name |-> name,
           alias |-> alias, old |-> old, grown |-> 0, was |-> was]
  BY DEF Calling
<1> HIDE DEF was
<1>. QED  BY <1>1, <1>2 DEF Calls

LEMMA StoredIs ==
    ASSUME NEW n \in Names, NEW taken
    PROVE  StoredAliases(n, taken) \subseteq Aliases
<1>1. Candidates[n] \in Seq(Aliases) /\ Candidates[n] # <<>> /\ (PartsOf[n] = 0 => n = Candidates[n][1])
  BY DirectoryAssumption
<1>2. \A k \in DOMAIN Candidates[n] : Candidates[n][k] \in Aliases
  BY <1>1
<1>3. Candidates[n][1] \in Aliases
  BY <1>1
<1>. QED  BY <1>1, <1>2, <1>3 DEF StoredAliases

\* An entry's slots: those in front of it are parts of a name.
LEMMA RunIs ==
    ASSUME Settled, NEW i \in Span(length), IsShort(Read[i]), NEW first, first = FirstSlot(Read, i)
    PROVE  /\ first \in Int /\ i \in Int /\ i \in first .. i
           /\ \A j \in first .. i : j \in Span(length) /\ ~IsFree(Read[j])
           /\ \A j \in first .. i - 1 : Read[j].kind = "long" /\ ~IsShort(slots[j])
           /\ \A j \in 0 .. i : slots[j] # End
<1>1. i \in Nat /\ length \in Nat /\ Read \in [Span(length) -> Slots] /\ Agrees(Read)
  BY Places, ReadIs DEF Settled
<1>2. first \in 0 .. i /\ \A j \in first .. i - 1 : Read[j].kind = "long"
  BY <1>1, FirstSlotIs
<1>3. \A j \in first .. i : j \in Span(length)
  BY <1>1, <1>2, Spans
<1>4. \A j \in first .. i - 1 : j \in first .. i
  BY <1>1, <1>2
<1>5. \A j \in first .. i - 1 : ~IsFree(Read[j]) /\ ~IsShort(slots[j])
  BY <1>1, <1>2, <1>3, <1>4, Kinds DEF Agrees, IsShort
<1>6. \A j \in first .. i : j = i \/ j \in first .. i - 1
  BY <1>1, <1>2
<1>7. ~IsFree(Read[i])
  BY <1>1, Kinds
<1>8. \A j \in 0 .. i : slots[j] # End
  BY <1>7, InUseRead
<1>. QED  BY <1>1, <1>2, <1>3, <1>5, <1>6, <1>7, <1>8

LEMMA DisplayIs ==
    ASSUME Settled, NEW i \in Span(length), IsShort(Read[i])
    PROVE  DisplayName(Read, i) \in Shown
<1> DEFINE k == PartsAt(Read, i)
           first == FirstSlot(Read, i)
           owner == {Read[i - p].name : p \in 1 .. k}
<1>1. Read[i].alias \in Aliases
  BY EntriesRead
<1>2. k = 0 \/ k \in 1 .. i - first
  BY DEF PartsAt
<1>3. DisplayName(Read, i) = CASE k = 0                             -> Read[i].alias
                               [] k > 0 /\ Cardinality(owner) = 1   -> CHOOSE n \in owner : TRUE
                               [] OTHER                             -> Mixed
  BY DEF DisplayName
<1>4. i \in Nat /\ first \in 0 .. i /\ \A j \in first .. i - 1 : Read[j].kind = "long" /\ Read[j] \in Slots
  BY RunIs, FirstSlotIs, ReadIs, Places DEF Settled
<1> HIDE DEF k, first
<1>5. ASSUME k > 0, k \in 1 .. i - first PROVE (CHOOSE n \in owner : TRUE) \in Names
  <2>1. \A p \in 1 .. k : i - p \in first .. i - 1
    BY <1>4, <1>5
  <2>2. owner \subseteq Names
    BY <1>4, <2>1, Kinds
  <2>3. 1 \in 1 .. k
    BY <1>4, <1>5
  <2>4. owner # {}
    BY <2>3
  <2> HIDE DEF owner
  <2>. QED  BY <2>2, <2>4
<1> HIDE DEF owner
<1>. QED  BY <1>1, <1>2, <1>3, <1>5 DEF Shown

LEMMA NoOldSlots == NoSlots \in [first : Int, last : Int] /\ NoSlots.first = 0 /\ NoSlots.last = -1
BY DEF NoSlots

LEMMA CreateKeeps ==
    ASSUME DInv, NEW n \in Names, Create(n)
    PROVE  DInv'
<1>1. Settled
  BY DEF DInv, Settled
<1>2. PICK f \in NewFiles,
           a \in StoredAliases(n, {b \in Aliases : Lookup(Read, KeyOf[b]) # NotFound}) :
           /\ Start([Calling("create", "find", f, None, n, a, NoSlots) EXCEPT !.was = None], <<>>)
           /\ held' = held \cup {f}
  BY DEF Create
<1>3. f \in Files /\ a \in Aliases
  BY StoredIs DEF NewFiles
<1> DEFINE d == Calling("create", "find", f, None, n, a, NoSlots)
           c == [d EXCEPT !.was = None]
<1>4. /\ d \in Calls
      /\ d.op = "create" /\ d.step = "find" /\ d.name = n /\ d.over = None /\ d.old = NoSlots
      /\ d.id = f
  <2>1. n \in Promises /\ None \in Files \cup {None} /\ Typed
    BY <1>1 DEF Promises, Shown, Settled
  <2>. QED  BY <1>3, <2>1, NoOldSlots, CallingIs
<1> HIDE DEF d
<1>5. /\ c \in Calls
      /\ c.op = "create" /\ c.step = "find" /\ c.name = n /\ c.over = None /\ c.old = NoSlots
      /\ c.id = f
  <2>1. None \in Promises
    BY DEF Promises
  <2>. QED  BY <1>4, <2>1 DEF Calls
<1>6. Start(c, <<>>)
  BY <1>2 DEF d
<1> HIDE DEF c
<1>7. Looking(c)
  <2>1. View(length) = [i \in Span(length) |-> slots[i]] /\ f \notin Listed(View(length))
    BY DEF View, Span, NewFiles
  <2>2. Alone(f)
    BY <2>1 DEF Alone, Listed, ShortSlots, IsShort
  <2>. QED  BY <1>5, <2>2, NoOldSlots DEF Looking
<1>8. held' \subseteq Files
  BY <1>1, <1>2, <1>3 DEF Settled, Typed
<1>9. call = Idle /\ UNCHANGED <<length, handle, slots, linked, troubles, doubled>>
  BY DEF Create
<1>. QED  BY <1>5, <1>6, <1>7, <1>8, <1>9, Starting

LEMMA OpenKeeps ==
    ASSUME DInv, NEW n \in Names, Open(n)
    PROVE  DInv'
<1>1. Settled /\ call = Idle /\ todo = <<>>
  BY DEF DInv, Settled, Open
<1>2. Read \in [Span(length) -> Slots] /\ Read # NotRead /\ Agrees(Read)
  BY <1>1, ReadIs
<1> DEFINE i == Lookup(Read, KeyOf[n])
<1>3. i \in Span(length) /\ IsShort(Read[i])
  BY <1>1, <1>2, LookupIs, Places DEF Open, Settled
<1>4. handle' = [index |-> i, alias |-> Read[i].alias, id |-> Read[i].id]
  BY DEF Open
<1> HIDE DEF i
<1>5. /\ Read[i] = slots[i] /\ IsShort(slots[i])
      /\ slots[i].id \in Files /\ slots[i].alias \in Aliases
  BY <1>1, <1>3, EntriesRead
<1>6. resident' = Read /\ UNCHANGED <<length, held, call, todo, slots, linked, promised, troubles, doubled>>
  BY DEF Open
<1>7. handle' \in [index : Span(length), alias : Aliases, id : Files]
      /\ handle'.index = i /\ handle'.id = slots[i].id
  BY <1>3, <1>4, <1>5
<1>8. Typed'
  BY <1>1, <1>2, <1>6, <1>7 DEF Typed, Settled, Span
<1>9. Tidy' /\ Agrees(resident)'
  BY <1>1, <1>2, <1>6 DEF Tidy, Agrees, Settled, Span
<1>10. HandleHolds'
  BY <1>5, <1>6, <1>7 DEF HandleHolds
<1>11. (call.step \notin {"find", "write"})'
  BY <1>1, <1>6, NoCallIsIdle
<1>12. (~doubled => Single)'
  BY <1>1, <1>6, NoCallIsIdle DEF DInv, Single, Twins, Span
<1>. QED  BY <1>1, <1>6, <1>8, <1>9, <1>10, <1>11, <1>12 DEF DInv, Finding

LEMMA UpdateKeeps ==
    ASSUME DInv, Update
    PROVE  DInv'
<1>1. Settled
  BY DEF DInv, Settled
<1> DEFINE i == handle.index
<1>2. /\ i \in Span(length) /\ handle.alias \in Aliases /\ handle.id \in Files /\ handle # NoHandle
      /\ IsShort(Read[i])
  BY <1>1 DEF Update, Settled, Typed, Live, IsShort
<1> DEFINE c == Calling("update", "write", handle.id, None, promised[handle.id], handle.alias, NoSlots)
           slot == ShortSlot(slots[i].alias, handle.id)
           ws == <<Edit(i, slot, {})>>
<1>3. /\ Start(c, ws) /\ UNCHANGED <<length, handle, held, slots, linked, troubles, doubled>>
  BY DEF Update
<1>4. c \in Calls /\ c.op = "update" /\ c.step = "write" /\ c.id = handle.id
  <2> DEFINE id == handle.id  name == promised[id]  alias == handle.alias
  <2>1. Typed /\ name \in Promises /\ None \in Files \cup {None} /\ id \in Files /\ alias \in Aliases
    BY <1>1, <1>2 DEF Settled, Typed
  <2>2. c = Calling("update", "write", id, None, name, alias, NoSlots)
    OBVIOUS
  <2> HIDE DEF c, id, name, alias
  <2>3. c \in Calls /\ c.op = "update" /\ c.step = "write" /\ c.id = id
    BY <2>1, <2>2, NoOldSlots, CallingIs
  <2>. QED  BY <2>3 DEF id
<1>5. slot \in Own /\ IsShort(slot) /\ slot.id = handle.id /\ i \in Span(linked)
      /\ \A j \in 0 .. i : slots[j] # End
  BY <1>1, <1>2, EntriesRead, PutsAreOwn, RunIs
<1>6. /\ Sound(ws) /\ Parts(ws) /\ Published(ws)
      /\ Len(ws) = 1 /\ DOMAIN ws[1].put = {i} /\ ws[1].put[i] = slot
  <2> HIDE DEF slot
  <2>1. {} \in SUBSET AllSlots
    OBVIOUS
  <2>. QED  BY <1>1, <1>2, <1>5, <2>1, EditFits
<1> HIDE DEF c, ws, slot
<1>7. Fit(c, ws) /\ Len(ws) > 0
  <2> SUFFICES ASSUME ~doubled PROVE Apart(c, ws)
    BY <1>4, <1>6 DEF Fit
  <2>1. Single /\ ~Moves(c)
    BY <1>4, NoCallIsIdle DEF DInv, Update, Moves
  <2>2. IsShort(slots[i]) /\ slots[i].id = handle.id
    BY <1>1, <1>2 DEF Settled, HandleHolds
  <2>3. \A j \in Span(length) : j # i /\ IsShort(slots[j]) => slots[j].id # c.id
    BY <1>2, <1>4, <2>1, <2>2 DEF Single, Twins
  <2>4. DOMAIN ws = {1}
    BY <1>6 DEF Sound
  <2>5. PutsOnly(c, ws, i)
    BY <1>4, <1>5, <1>6, <2>4 DEF PutsOnly
  <2> HIDE DEF i
  <2>. QED  BY <2>1, <2>3, <2>5, OnceApart
<1>8. held' \subseteq Files
  BY <1>1, <1>3 DEF Settled, Typed
<1>9. call = Idle /\ UNCHANGED <<length, handle, slots, linked, troubles, doubled>>
  BY <1>3 DEF Update
<1>. QED  BY <1>3, <1>4, <1>7, <1>8, <1>9, Starting

LEMMA RemoveKeeps ==
    ASSUME DInv, NEW n \in Names, Remove(n)
    PROVE  DInv'
<1>1. Settled
  BY DEF DInv, Settled
<1>2. Read \in [Span(length) -> Slots]
  BY <1>1, ReadIs
<1> DEFINE i == Lookup(Read, KeyOf[n])
           first == FirstSlot(Read, i)
           f == Read[i].id
           c == Calling("remove", "write", Read[i].id, None, None, Read[i].alias, NoSlots)
           ws == DeleteEntries(FirstSlot(Read, i), i) \o <<Flush({Read[i].id})>>
<1>3. i \in Span(length) /\ IsShort(Read[i])
  BY <1>1, <1>2, LookupIs, Places DEF Remove, Settled
<1>4. Start(c, ws) /\ UNCHANGED <<length, handle, held, slots, linked, troubles, doubled>>
  BY DEF Remove
<1> HIDE DEF i
<1>5. f \in Files /\ Read[i].alias \in Aliases
  BY <1>1, <1>3, EntriesRead
<1>6. c \in Calls /\ c.op = "remove" /\ c.step = "write"
  <2>1. Typed /\ None \in Promises /\ None \in Files \cup {None}
    BY <1>1 DEF Settled, Promises
  <2>2. c = Calling("remove", "write", f, None, None, Read[i].alias, NoSlots)
    OBVIOUS
  <2> HIDE DEF c, f
  <2>. QED  BY <1>5, <2>1, <2>2, NoOldSlots, CallingIs
<1>7. Fit(c, ws) /\ Len(ws) > 0
  <2> DEFINE d == DeleteEntries(first, i)  e == <<Flush({f})>>
  <2>1. first \in Int /\ i \in Int /\ first <= i /\ \A j \in first .. i : j \in Span(length)
    BY <1>1, <1>3, RunIs
  <2> HIDE DEF first, f
  <2>2. /\ Sound(d) /\ Parts(d) /\ Published(d) /\ Len(d) > 0
        /\ \A k \in DOMAIN d : \A j \in DOMAIN d[k].put : ~IsShort(d[k].put[j])
    BY <1>1, <2>1, DeletesFit
  <2>3. /\ Sound(e) /\ Parts(e) /\ Published(e) /\ Dropping(e)
        /\ Len(e) = 1 /\ DOMAIN e[1].put = {}
    BY <1>5, FlushFits
  <2> HIDE DEF d, e
  <2>4. d \in Seq(Writes) /\ e \in Seq(Writes)
    BY <2>2, <2>3 DEF Sound
  <2>5. Sound(d \o e)
    BY <2>2, <2>3, JoinedSound
  <2>6. Parts(d \o e)
    BY <2>2, <2>3, <2>4, JoinedParts
  <2>7. Published(d \o e) /\ Len(d \o e) > 0
    BY <2>2, <2>3, <2>4, JoinedPublished
  <2>8. ws = d \o e
    BY DEF d, e, first, f
  <2> HIDE DEF c, ws
  <2>9. PutsOnly(c, ws, NotFound) /\ NotFound \notin Span(length)
    <3>1. DOMAIN e = {1}
      BY <2>3, <2>4
    <3>2. PutsOnly(c, d, NotFound) /\ PutsOnly(c, e, NotFound)
      BY <2>2, <2>3, <3>1 DEF PutsOnly
    <3>. QED  BY <2>4, <2>8, <3>2, JoinedApart, Places DEF NotFound, Span
  <2>10. ASSUME ~doubled PROVE Apart(c, ws)
    <3>1. Single /\ ~Moves(c)
      BY <1>6, <2>10, NoCallIsIdle DEF DInv, Remove, Moves
    <3>2. \A m \in DOMAIN ws : NotFound \notin DOMAIN ws[m].put
      BY <2>5, <2>8, <2>9 DEF Sound, InPlace
    <3>. QED  BY <2>9, <3>1, <3>2, OnceApart
  <2>. QED  BY <1>6, <2>5, <2>6, <2>7, <2>8, <2>10 DEF Fit
<1> HIDE DEF c, ws
<1>8. held' \subseteq Files
  BY <1>1, <1>4 DEF Settled, Typed
<1>9. call = Idle /\ UNCHANGED <<length, handle, slots, linked, troubles, doubled>>
  BY <1>4 DEF Remove
<1>. QED  BY <1>4, <1>6, <1>7, <1>8, <1>9, Starting

\* A file renamed over another: its own slots go, and the other's entry, which
\* is not among them, names the one file or the other throughout.
LEMMA ReplaceKeeps ==
    ASSUME DInv, call = Idle, NEW s \in Span(length), NEW t \in Span(length), s # t,
           IsShort(Read[s]), IsShort(Read[t]), ReplaceFile(s, t),
           UNCHANGED <<length, handle, held, slots, linked, troubles, doubled>>
    PROVE  DInv'
<1>1. Settled
  BY DEF DInv, Settled
<1> DEFINE name == DisplayName(Read, t)
           c == Calling("rename", "write", slots[s].id, Read[t].id, DisplayName(Read, t),
                        Read[t].alias, NoSlots)
           first == FirstSlot(Read, s)
           slot == ShortSlot(slots[t].alias, slots[s].id)
           d == DeleteEntries(first, s)
           e == <<Edit(t, slot, {t})>>
           l == <<Flush({Read[t].id})>>
           ws == d \o <<Edit(t, slot, {t}), Flush({Read[t].id})>>
<1>2. Start(c, ws)
  BY DEF ReplaceFile
<1>3. /\ slots[s].id \in Files
      /\ Read[t] = slots[t] /\ IsShort(slots[t]) /\ slots[t].alias \in Aliases /\ slots[t].id \in Files
      /\ t \in Span(linked)
  BY <1>1, EntriesRead
<1>4. /\ c \in Calls /\ c.op = "rename" /\ c.step = "write"
      /\ c.id = slots[s].id /\ c.over = slots[t].id /\ c.alias = slots[t].alias
  <2>1. Typed /\ name \in Promises /\ Read[t].id \in Files \cup {None} /\ Read[t].alias \in Aliases
    BY <1>1, <1>3, DisplayIs DEF Settled, Promises
  <2>2. c = Calling("rename", "write", slots[s].id, Read[t].id, name, Read[t].alias, NoSlots)
    OBVIOUS
  <2> HIDE DEF c, name
  <2>. QED  BY <1>3, <2>1, <2>2, NoOldSlots, CallingIs
<1>5. /\ first \in Int /\ s \in Int /\ first <= s /\ \A j \in first .. s : j \in Span(length)
      /\ t \notin first .. s
      /\ \A j \in 0 .. t : slots[j] # End
  <2>1. /\ first \in Int /\ s \in Int /\ first <= s /\ \A j \in first .. s : j \in Span(length)
        /\ \A j \in first .. s - 1 : ~IsShort(slots[j])
    BY <1>1, RunIs
  <2>2. t \in Int /\ \A j \in 0 .. t : slots[j] # End
    BY <1>1, RunIs
  <2>3. t \notin first .. s - 1
    BY <1>3, <2>1
  <2> HIDE DEF first
  <2>. QED  BY <2>1, <2>2, <2>3
<1> HIDE DEF c, first
<1>6. slot \in Own /\ IsShort(slot) /\ slot.alias = slots[t].alias /\ slot.id = slots[s].id
  BY <1>3, PutsAreOwn
<1> HIDE DEF slot
<1>7. /\ Sound(d) /\ Parts(d) /\ Published(d) /\ Len(d) > 0
      /\ \A k \in DOMAIN d : DOMAIN d[k].put \subseteq first .. s
      /\ \A k \in DOMAIN d : \A i \in DOMAIN d[k].put : ~IsShort(d[k].put[i])
      /\ \E k \in DOMAIN d : s \in DOMAIN d[k].put
  BY <1>1, <1>5, DeletesFit
<1>8. /\ Sound(e) /\ Parts(e) /\ Published(e) /\ Dropping(e)
      /\ Len(e) = 1 /\ DOMAIN e[1].put = {t} /\ e[1].put[t] = slot
  <2>1. {t} \in SUBSET AllSlots
    BY <1>1, Places DEF Settled
  <2>2. ~IsFree(slot) => \A j \in 0 .. t : slots[j] # End
    BY <1>5
  <2>3. handle.index = t => t \in {t} \/ (IsShort(slot) /\ slot.id = handle.id)
    OBVIOUS
  <2>4. Sound(e) /\ Parts(e) /\ Published(e) /\ Dropping(e)
    BY <1>1, <1>3, <1>6, <2>1, <2>2, <2>3, EditFits
  <2>5. Len(e) = 1 /\ DOMAIN e[1].put = {t} /\ e[1].put[t] = slot
    BY EditIs
  <2>. QED  BY <2>4, <2>5
<1>9. /\ Sound(l) /\ Parts(l) /\ Published(l) /\ Dropping(l) /\ Len(l) = 1 /\ DOMAIN l[1].put = {}
  BY <1>3, FlushFits
<1>10. ws = (d \o e) \o l
  <2> DEFINE x == Edit(t, slot, {t})  y == Flush({Read[t].id})
  <2>1. d \in Seq(Writes) /\ e \in Seq(Writes) /\ l \in Seq(Writes)
    BY <1>7, <1>8, <1>9 DEF Sound
  <2>2. e = <<x>> /\ l = <<y>> /\ ws = d \o <<x, y>> /\ x = e[1] /\ y = l[1]
    OBVIOUS
  <2>3. x \in Writes /\ y \in Writes
    BY <2>1, <1>8, <1>9, <2>2
  <2>4. <<x>> \o <<y>> = <<x, y>>
    BY <2>3, PairIs
  <2> HIDE DEF d, e, l, x, y, ws
  <2>5. (d \o e) \o l = d \o (e \o l)
    BY <2>1, ConcatAssociative
  <2>. QED  BY <2>2, <2>4, <2>5
<1> HIDE DEF d, e, l, ws
<1>11. d \in Seq(Writes) /\ e \in Seq(Writes) /\ l \in Seq(Writes)
  BY <1>7, <1>8, <1>9 DEF Sound
<1> DEFINE de == d \o e
<1>12. Sound(de) /\ Parts(de) /\ Published(de)
  BY <1>7, <1>8, <1>11, JoinedSound, JoinedParts, JoinedPublished
<1>13. /\ de \in Seq(Writes) /\ Len(de) > 0
       /\ \A k \in DOMAIN de : t \in DOMAIN de[k].put =>
             /\ de[k].put[t] = slot
             /\ \E l1 \in DOMAIN de : l1 < k /\ s \in DOMAIN de[l1].put
       /\ PutsOnly(c, de, t)
  <2>1. /\ de \in Seq(Writes) /\ Len(de) = Len(d) + Len(e)
        /\ \A k \in DOMAIN d : de[k] = d[k]
        /\ \A m \in DOMAIN e : de[Len(d) + m] = e[m]
        /\ \A k \in DOMAIN de : k \in DOMAIN d \/ \E m \in DOMAIN e : k = Len(d) + m
    BY <1>11, JoinedIs
  <2>2. \A m \in DOMAIN e : m = 1
    BY <1>8, <1>11
  <2>3. PutsOnly(c, d, t) /\ PutsOnly(c, e, t)
    BY <1>4, <1>6, <1>7, <1>8, <2>2 DEF PutsOnly
  <2>4. PutsOnly(c, de, t)
    BY <1>11, <2>3, JoinedApart
  <2>5. Len(d) \in Nat /\ DOMAIN d = 1 .. Len(d) /\ DOMAIN d \subseteq DOMAIN de
    BY <1>11, JoinedIs
  <2> HIDE DEF de
  <2>. QED  BY <1>5, <1>7, <1>8, <1>11, <2>1, <2>2, <2>4, <2>5
<1>13a. ws = de \o l
  BY <1>10
<1> HIDE DEF de
<1>14. Sound(ws) /\ Parts(ws) /\ Published(ws)
  <2>1. Sound(de \o l)
    BY <1>9, <1>12, JoinedSound
  <2>2. Parts(de \o l)
    BY <1>9, <1>11, <1>12, <1>13, JoinedParts
  <2>3. Published(de \o l)
    BY <1>9, <1>11, <1>12, <1>13, JoinedPublished
  <2>. QED  BY <1>13a, <2>1, <2>2, <2>3
<1>15. /\ Len(ws) > 0
       /\ \A k \in DOMAIN ws : t \in DOMAIN ws[k].put =>
             /\ ws[k].put[t] = slot
             /\ \E l1 \in DOMAIN ws : l1 < k /\ s \in DOMAIN ws[l1].put
       /\ PutsOnly(c, ws, t)
  <2>1. /\ ws \in Seq(Writes) /\ Len(ws) = Len(de) + Len(l)
        /\ \A k \in DOMAIN de : k \in DOMAIN ws /\ ws[k] = de[k]
        /\ \A m \in DOMAIN l : ws[Len(de) + m] = l[m]
        /\ \A k \in DOMAIN ws : k \in DOMAIN de \/ \E m \in DOMAIN l : k = Len(de) + m
    <3>1. Joins(de \o l, de, l)
      BY <1>11, <1>13, Joined
    <3>2. Joins(ws, de, l)
      BY <1>13a, <3>1
    <3>. QED  BY <3>2 DEF Joins
  <2>2. \A m \in DOMAIN l : m = 1
    BY <1>9, <1>11
  <2>3. PutsOnly(c, l, t)
    BY <1>9, <2>2 DEF PutsOnly
  <2>4. PutsOnly(c, ws, t)
    BY <1>11, <1>13, <1>13a, <2>3, JoinedApart
  <2>. QED  BY <1>9, <1>13, <2>1, <2>2, <2>4
<1>16. Keeps(c, ws)
  <2>1. Marks(c, slots[t]) /\ Marks(c, slot)
    BY <1>3, <1>4, <1>6, DirectoryAssumption DEF Marks, None
  <2>2. LeavesFrom(c, ws, 0, t)
    BY <1>15, <2>1 DEF LeavesFrom
  <2>. QED  BY <2>1, <2>2 DEF Keeps
<1>17. Fit(c, ws)
  <2> SUFFICES ASSUME ~doubled PROVE Apart(c, ws)
    BY <1>4, <1>14, <1>16 DEF Fit
  <2>1. Single /\ ~Moves(c)
    BY <1>3, <1>4, NoCallIsIdle, DirectoryAssumption DEF DInv, Moves, None
  <2>2. IsShort(slots[s])
    BY <1>1, EntriesRead
  <2>3. \A i \in Span(length) : i # s /\ IsShort(slots[i]) => slots[i].id # c.id
    BY <1>4, <2>1, <2>2 DEF Single, Twins
  <2>. QED  BY <1>15, <2>1, <2>3, OnceApart
<1>18. held' \subseteq Files
  BY <1>1 DEF Settled, Typed
<1>. QED  BY <1>2, <1>4, <1>15, <1>17, <1>18, Starting DEF ws, d, c, slot, first

\* A name written over the slots of the old one, the entry last.
LEMMA InPlaceKeeps ==
    ASSUME DInv, call = Idle, NEW s \in Span(length), IsShort(Read[s]),
           NEW m \in Names, NEW a \in Aliases,
           SlotsFor(m) <= s - FirstSlot(Read, s) + 1, RenameInPlace(s, m, a),
           UNCHANGED <<length, handle, held, slots, linked, troubles, doubled>>
    PROVE  DInv'
<1>1. Settled
  BY DEF DInv, Settled
<1> DEFINE id == slots[s].id
           c == Calling("rename", "write", slots[s].id, None, m, a, NoSlots)
           first == FirstSlot(Read, s)
           newFirst == s + 1 - SlotsFor(m)
           w == WriteEntries(newFirst, NameEntries(m, a, id))
           d == DeleteEntries(first, newFirst - 1)
           ws == w \o d
<1>2. Start(c, ws)
  BY DEF RenameInPlace
<1>3. id \in Files /\ IsShort(slots[s]) /\ s \in Span(linked)
  BY <1>1, EntriesRead
<1>4. /\ c \in Calls /\ c.op = "rename" /\ c.step = "write" /\ c.id = id /\ c.over = None
  <2>1. Typed /\ m \in Promises /\ None \in Files \cup {None}
    BY <1>1 DEF Settled, Promises, Shown
  <2>2. c = Calling("rename", "write", id, None, m, a, NoSlots)
    OBVIOUS
  <2> HIDE DEF c, id
  <2>. QED  BY <1>3, <2>1, <2>2, NoOldSlots, CallingIs
<1>5. /\ newFirst \in Nat /\ s \in Nat /\ PartsOf[m] \in Nat /\ s = newFirst + PartsOf[m]
      /\ first \in Int /\ first <= newFirst /\ newFirst <= s
      /\ \A j \in first .. s : j \in Span(length)
      /\ \A j \in first .. s - 1 : ~IsShort(slots[j])
      /\ \A j \in 0 .. s : slots[j] # End
  <2>1. /\ first \in Nat /\ s \in Nat /\ first <= s /\ \A j \in first .. s : j \in Span(length)
        /\ \A j \in first .. s - 1 : ~IsShort(slots[j])
        /\ \A j \in 0 .. s : slots[j] # End
    BY <1>1, RunIs, FirstSlotIs, Places DEF Settled
  <2>2. PartsOf[m] \in Nat /\ newFirst = s - PartsOf[m] /\ first <= newFirst
    BY <2>1, DirectoryAssumption DEF SlotsFor
  <2> HIDE DEF first, newFirst
  <2>. QED  BY <2>1, <2>2
<1> HIDE DEF c, first, newFirst
<1>6. /\ Sound(w) /\ Parts(w) /\ Len(w) > 0
      /\ Published(w)
      /\ \A k \in DOMAIN w : s \in DOMAIN w[k].put => w[k].put[s] = ShortSlot(a, id)
      /\ \A k \in DOMAIN w : \A i \in DOMAIN w[k].put : IsShort(w[k].put[i]) => i = s
      /\ FreesNone(w)
  <2>1. newFirst > 0 => \A j \in 0 .. newFirst - 1 : slots[j] # End
    BY <1>5
  <2>2. \A i \in newFirst .. s - 1 : ~IsShort(slots[i])
    BY <1>5
  <2>3. handle # NoHandle /\ handle.index \in newFirst .. s => handle.index = s /\ handle.id = id
    <3>1. handle # NoHandle => handle.index \in Int /\ IsShort(slots[handle.index])
                               /\ slots[handle.index].id = handle.id
      BY <1>1, Places DEF Settled, HandleHolds, Typed
    <3>2. handle # NoHandle /\ handle.index \in newFirst .. s => handle.index = s
      BY <1>5, <2>2, <3>1
    <3>. QED  BY <3>1, <3>2
  <2> HIDE DEF id
  <2>4. Sound(w) /\ Parts(w) /\ Len(w) > 0 /\ Published(w)
    BY <1>1, <1>3, <1>5, <2>1, <2>2, <2>3, WriteEntriesFit
  <2>5. \A k \in DOMAIN w : s \in DOMAIN w[k].put => w[k].put[s] = ShortSlot(a, id)
    BY <1>1, <1>3, <1>5, <2>1, <2>2, <2>3, WriteEntriesFit
  <2>6. /\ \A k \in DOMAIN w : \A i \in DOMAIN w[k].put : IsShort(w[k].put[i]) => i = s
        /\ FreesNone(w)
    BY <1>1, <1>3, <1>5, <2>1, <2>2, <2>3, WriteEntriesFit
  <2>. QED  BY <2>4, <2>5, <2>6
<1>7. /\ Sound(d) /\ Parts(d) /\ Published(d) /\ Dropping(d)
      /\ \A k \in DOMAIN d : DOMAIN d[k].put \subseteq first .. newFirst - 1
      /\ \A k \in DOMAIN d : \A i \in DOMAIN d[k].put : ~IsShort(d[k].put[i])
      /\ FreesNone(d)
  <2>1. newFirst - 1 \in Int /\ \A j \in first .. newFirst - 1 : j \in Span(length)
    BY <1>5
  <2>. QED  BY <1>1, <1>5, <2>1, DeletesFit
<1> HIDE DEF w, d
<1>8. w \in Seq(Writes) /\ d \in Seq(Writes)
  BY <1>6, <1>7 DEF Sound
<1>9. Sound(ws) /\ Parts(ws) /\ Published(ws)
  BY <1>6, <1>7, <1>8, JoinedSound, JoinedParts, JoinedPublished
<1>10. /\ Len(ws) > 0
       /\ \A k \in DOMAIN ws : s \in DOMAIN ws[k].put => ws[k].put[s] = ShortSlot(a, id)
  <2>1. /\ ws \in Seq(Writes) /\ Len(ws) = Len(w) + Len(d)
        /\ \A k \in DOMAIN w : ws[k] = w[k]
        /\ \A l \in DOMAIN d : ws[Len(w) + l] = d[l]
        /\ \A k \in DOMAIN ws : k \in DOMAIN w \/ \E l \in DOMAIN d : k = Len(w) + l
    BY <1>8, JoinedIs
  <2>2. \A l \in DOMAIN d : s \notin DOMAIN d[l].put
    BY <1>5, <1>7
  <2>3. Len(w) \in Nat /\ Len(d) \in Nat
    BY <1>8
  <2> HIDE DEF ws, id
  <2>. QED  BY <1>6, <2>1, <2>2, <2>3
<1>11. Keeps(c, ws)
  <2>1. Marks(c, slots[s]) /\ Marks(c, ShortSlot(a, id))
    BY <1>3, <1>4, PutsAreOwn DEF Marks
  <2> HIDE DEF ws, id
  <2>2. LeavesFrom(c, ws, 0, s)
    BY <1>10, <2>1 DEF LeavesFrom
  <2>. QED  BY <2>1, <2>2 DEF Keeps
<1>12. Fit(c, ws)
  <2> SUFFICES ASSUME ~doubled PROVE Apart(c, ws)
    BY <1>4, <1>9, <1>11 DEF Fit
  <2>1. Single
    BY NoCallIsIdle DEF DInv
  <2>2. \A i \in Span(length) : i # s /\ IsShort(slots[i]) => slots[i].id # c.id
    BY <1>3, <1>4, <2>1 DEF Single, Twins
  <2>3. PutsOnly(c, w, s) /\ PutsOnly(c, d, s)
    <3>1. ShortSlot(a, id).id = c.id
      BY <1>3, <1>4, PutsAreOwn
    <3> HIDE DEF id
    <3>. QED  BY <1>6, <1>7, <3>1 DEF PutsOnly
  <2>4. PutsOnly(c, ws, s) /\ FreesNone(ws)
    BY <1>6, <1>7, <1>8, <2>3, JoinedApart
  <2> HIDE DEF ws
  <2>. QED  BY <2>1, <2>2, <2>4, OnceApart
<1>13. held' \subseteq Files
  BY <1>1 DEF Settled, Typed
<1> HIDE DEF ws
<1>. QED  BY <1>2, <1>4, <1>10, <1>12, <1>13, Starting

\* A longer name, for which slots are looked for first.
LEMMA MovingKeeps ==
    ASSUME DInv, call = Idle, NEW s \in Span(length), IsShort(Read[s]),
           NEW m \in Names, NEW a \in Aliases, RenameMoving(s, m, a),
           UNCHANGED <<length, handle, held, slots, linked, troubles, doubled>>
    PROVE  DInv'
<1>1. Settled
  BY DEF DInv, Settled
<1> DEFINE id == slots[s].id
           first == FirstSlot(Read, s)
           old == [first |-> first, last |-> s]
           c == Calling("rename", "find", slots[s].id, None, m, a, old)
<1>2. Start(c, <<>>)
  BY DEF RenameMoving
<1>3. id \in Files /\ IsShort(slots[s])
  BY <1>1, EntriesRead
<1>4. /\ first \in Int /\ s \in Int /\ s \in first .. s
      /\ \A j \in first .. s : j \in Span(length) /\ ~IsFree(Read[j])
  BY <1>1, RunIs
<1> HIDE DEF first
<1>5. old \in [first : Int, last : Int] /\ old.first = first /\ old.last = s
  BY <1>4
<1>6. /\ c \in Calls /\ c.op = "rename" /\ c.step = "find" /\ c.id = id /\ c.over = None
      /\ c.name = m /\ c.old = old
  <2>1. Typed /\ m \in Promises /\ None \in Files \cup {None}
    BY <1>1 DEF Settled, Promises, Shown
  <2>2. c = Calling("rename", "find", id, None, m, a, old)
    OBVIOUS
  <2> HIDE DEF c, id, old
  <2>. QED  BY <1>3, <1>5, <2>1, <2>2, CallingIs
<1> HIDE DEF c, old
<1>7. Looking(c)
  BY <1>3, <1>4, <1>5, <1>6 DEF Looking, Marks
<1>8. held' \subseteq Files
  BY <1>1 DEF Settled, Typed
<1>. QED  BY <1>2, <1>6, <1>7, <1>8, Starting

LEMMA RenamePreserves ==
    ASSUME DInv, NEW n \in Names, NEW m \in Names, Rename(n, m)
    PROVE  DInv'
<1>1. Settled /\ call = Idle /\ UNCHANGED <<length, handle, held, slots, linked, troubles, doubled>>
  BY DEF DInv, Settled, Rename
<1>2. Read \in [Span(length) -> Slots] /\ length \in Nat
  BY <1>1, ReadIs, Places DEF Settled
<1> DEFINE s    == Lookup(Read, KeyOf[n])
           t    == Lookup(Read, KeyOf[m])
           fits == SlotsFor(m) <= s - FirstSlot(Read, s) + 1
<1>3. /\ s # NotFound
      /\ \/ t \notin {s, NotFound} /\ ReplaceFile(s, t)
         \/ \E a \in StoredAliases(m, {b \in Aliases : RenameTaken(s, fits, b)}) :
               IF fits THEN RenameInPlace(s, m, a) ELSE RenameMoving(s, m, a)
  BY DEF Rename
<1>4. /\ s \in Span(length) /\ IsShort(Read[s])
      /\ t # NotFound => t \in Span(length) /\ IsShort(Read[t])
  BY <1>2, <1>3, LookupIs
<1>5. CASE t \notin {s, NotFound} /\ ReplaceFile(s, t)
  <2> HIDE DEF s, t
  <2>. QED  BY <1>1, <1>4, <1>5, ReplaceKeeps
<1>6. CASE \E a \in StoredAliases(m, {b \in Aliases : RenameTaken(s, fits, b)}) :
               IF fits THEN RenameInPlace(s, m, a) ELSE RenameMoving(s, m, a)
  <2>1. PICK a \in StoredAliases(m, {b \in Aliases : RenameTaken(s, fits, b)}) :
               IF fits THEN RenameInPlace(s, m, a) ELSE RenameMoving(s, m, a)
    BY <1>6
  <2>2. a \in Aliases
    BY StoredIs
  <2> HIDE DEF s
  <2>. QED  BY <1>1, <1>4, <2>1, <2>2, InPlaceKeeps, MovingKeeps
<1>. QED  BY <1>3, <1>5, <1>6

-----------------------------------------------------------------------------
(***************************************************************************)
(* Calls that look for slots.                                              *)
(***************************************************************************)

\* The writes of a call that found slots: of none of them anything is read but
\* that it is free, so none holds an entry, a handle's or the renamed file's.
LEMMA FoundFits ==
    ASSUME DInv, call.step = "find", Found # NotFound,
           NEW c, c = [call EXCEPT !.step = "write"],
           NEW ws, ws = <<Flush({})>> \o WriteEntries(Found, NewEntries)
                           \o DeleteEntries(call.old.first, call.old.last)
    PROVE  c \in Calls /\ c.step = "write" /\ Len(ws) > 0 /\ Fit(c, ws)
<1>1. Settled /\ call \in Calls /\ Looking(call)
  BY NoCallIsIdle DEF DInv, Settled, Typed, Finding, Looking
<1>2. /\ c \in Calls /\ c.step = "write"
      /\ c.op = call.op /\ c.id = call.id /\ c.over = call.over /\ c.alias = call.alias
  BY <1>1 DEF Calls
<1> DEFINE n == call.name  a == call.alias  id == call.id
           first == Found  last == first + PartsOf[n]
           old == call.old.first .. call.old.last
           f == <<Flush({})>>
           w == WriteEntries(first, NameEntries(n, a, id))
           d == DeleteEntries(call.old.first, call.old.last)
           fw == f \o w
<1>3. n \in Names /\ a \in Aliases /\ id \in Files /\ call.old.first \in Int /\ call.old.last \in Int
  BY <1>1 DEF Looking, Calls
<1>4. ws = fw \o d
  BY DEF NewEntries
<1>5. Read \in [Span(length) -> Slots] /\ Agrees(Read) /\ length \in Nat
  BY <1>1, ReadIs, Places DEF Settled
<1>6. /\ first \in Nat /\ PartsOf[n] \in Nat /\ last \in Span(length)
      /\ \A j \in first .. last : IsFree(Read[j])
      /\ first > 0 => ~IsFree(Read[first - 1])
  <2>1. PartsOf[n] \in Nat /\ SlotsFor(n) = PartsOf[n] + 1
    BY <1>3, DirectoryAssumption DEF SlotsFor
  <2>2. Found = FreeRun(Read, SlotsFor(n)) /\ SlotsFor(n) \in Nat \ {0} /\ DOMAIN Read = Span(length)
    BY <2>1, <1>5 DEF Found
  <2>3. /\ Found \in Nat
        /\ Found + SlotsFor(n) - 1 \in Span(length)
        /\ \A j \in Found .. Found + SlotsFor(n) - 1 : IsFree(Read[j])
        /\ Found > 0 => ~IsFree(Read[Found - 1])
    BY <1>5, <2>2, FreeRunIs
  <2>4. Found + SlotsFor(n) - 1 = Found + PartsOf[n]
    BY <2>1, <2>3
  <2>. QED  BY <2>1, <2>3, <2>4
<1> HIDE DEF n, a, id, first, f, w, d, fw
<1>7. \A j \in first .. last : j \in Span(length)
  BY <1>5, <1>6, Spans
<1>8. \A j \in first .. last : ~IsShort(slots[j])
  <2> SUFFICES ASSUME NEW j \in first .. last, IsShort(slots[j]) PROVE FALSE
    OBVIOUS
  <2>1. Read[j] = slots[j] /\ IsFree(Read[j]) /\ Read[j] \in Slots
    BY <1>5, <1>6, <1>7 DEF Agrees
  <2>. QED  BY <2>1, Kinds
<1>9. first > 0 => \A j \in 0 .. first - 1 : slots[j] # End
  <2> SUFFICES ASSUME first > 0 PROVE \A j \in 0 .. first - 1 : slots[j] # End
    OBVIOUS
  <2>1. last \in Nat /\ 0 <= first - 1 /\ first - 1 <= last
    BY <1>6
  <2>2. first - 1 \in Span(length)
    BY <1>5, <1>6, <2>1, Spans
  <2>. QED  BY <1>1, <1>6, <2>2, InUseRead
<1>10. last \in Nat /\ first <= last
  BY <1>6
<1> HIDE DEF last
<1>11. /\ Sound(w) /\ Parts(w) /\ Len(w) > 0
       /\ last \in DOMAIN w[Len(w)].put /\ w[Len(w)].put[last] = ShortSlot(a, id)
       /\ \A k \in DOMAIN w : DOMAIN w[k].put \subseteq first .. last
       /\ PutsOnly(call, w, last) /\ FreesNone(w)
  <2>1. \A i \in first .. last - 1 : ~IsShort(slots[i])
    BY <1>8, <1>10, <1>6
  <2>2. handle # NoHandle /\ handle.index \in first .. last => handle.index = last /\ handle.id = id
    BY <1>1, <1>8 DEF Settled, HandleHolds
  <2>3. last = first + PartsOf[n]
    BY DEF last
  <2>4. Sound(w) /\ Parts(w) /\ Len(w) > 0
    BY <1>1, <1>3, <1>6, <1>9, <2>1, <2>2, <2>3, WriteEntriesFit DEF w
  <2>5. last \in DOMAIN w[Len(w)].put /\ w[Len(w)].put[last] = ShortSlot(a, id)
    BY <1>1, <1>3, <1>6, <1>9, <2>1, <2>2, <2>3, WriteEntriesFit DEF w
  <2>6. \A k \in DOMAIN w : DOMAIN w[k].put \subseteq first .. last
    BY <1>1, <1>3, <1>6, <1>9, <2>1, <2>2, <2>3, WriteEntriesFit DEF w
  <2>7. /\ \A k \in DOMAIN w : \A i \in DOMAIN w[k].put : IsShort(w[k].put[i]) => i = last
        /\ \A k \in DOMAIN w : last \in DOMAIN w[k].put => w[k].put[last] = ShortSlot(a, id)
        /\ FreesNone(w)
    BY <1>1, <1>3, <1>6, <1>9, <2>1, <2>2, <2>3, WriteEntriesFit DEF w
  <2>8. PutsOnly(call, w, last)
    BY <1>3, <2>7, PutsAreOwn DEF PutsOnly, id
  <2>. QED  BY <2>4, <2>5, <2>6, <2>7, <2>8
<1>12. /\ Sound(d) /\ Parts(d) /\ Published(d) /\ Dropping(d)
       /\ \A k \in DOMAIN d : DOMAIN d[k].put \subseteq old
       /\ \A k \in DOMAIN d : \A i \in DOMAIN d[k].put : ~IsShort(d[k].put[i])
       /\ FreesNone(d)
       /\ call.old.first <= call.old.last => \E k \in DOMAIN d : call.old.last \in DOMAIN d[k].put
  <2>1. \A i \in old : i \in Span(length)
    BY <1>1 DEF Looking
  <2>. QED  BY <1>1, <1>3, <2>1, DeletesFit DEF d
<1>13. /\ Sound(f) /\ Parts(f) /\ Published(f) /\ Keeping(f)
       /\ Len(f) = 1 /\ f[1].kind = "flush" /\ DOMAIN f[1].put = {} /\ f[1].frees = {}
  <2>1. {} \in SUBSET Files
    OBVIOUS
  <2>. QED  BY <2>1, FlushFits DEF f
<1>14. f \in Seq(Writes) /\ w \in Seq(Writes) /\ d \in Seq(Writes)
  BY <1>11, <1>12, <1>13 DEF Sound
<1>15. Sound(fw) /\ Parts(fw) /\ Published(fw)
  <2>1. \E k \in DOMAIN f : f[k].kind = "flush"
    BY <1>13, <1>14
  <2>2. Sound(fw) /\ Parts(fw)
    BY <1>11, <1>13, <1>14, JoinedSound, JoinedParts DEF fw
  <2>3. Published(fw)
    BY <1>13, <1>14, <2>1, JoinedPublished DEF fw
  <2>. QED  BY <2>2, <2>3
<1>16. fw \in Seq(Writes)
  BY <1>15 DEF Sound
<1>17. Sound(ws) /\ Parts(ws) /\ Published(ws)
  BY <1>4, <1>12, <1>14, <1>15, <1>16, JoinedSound, JoinedParts, JoinedPublished
\* Where the entry is written, and what is written before and after it.
<1> DEFINE m == 1 + Len(w)
<1>18. /\ m \in DOMAIN ws /\ last \in DOMAIN ws[m].put /\ ws[m].put[last] = ShortSlot(a, id)
       /\ \A k \in DOMAIN ws : k <= m => DOMAIN ws[k].put \subseteq first .. last
       /\ \A k \in DOMAIN ws : k > m => DOMAIN ws[k].put \subseteq old
  <2>1. /\ fw \in Seq(Writes) /\ Len(fw) = Len(f) + Len(w)
        /\ \A k \in DOMAIN f : fw[k] = f[k]
        /\ \A k \in DOMAIN w : fw[Len(f) + k] = w[k]
        /\ \A k \in DOMAIN fw : k \in DOMAIN f \/ \E l \in DOMAIN w : k = Len(f) + l
    BY <1>14, JoinedIs DEF fw
  <2>2. /\ ws \in Seq(Writes)
        /\ \A k \in DOMAIN fw : k \in DOMAIN ws /\ ws[k] = fw[k]
        /\ \A k \in DOMAIN d : ws[Len(fw) + k] = d[k]
        /\ \A k \in DOMAIN ws : k \in DOMAIN fw \/ \E l \in DOMAIN d : k = Len(fw) + l
    <3>1. Joins(fw \o d, fw, d)
      BY <1>14, <1>16, Joined
    <3>2. Joins(ws, fw, d)
      BY <1>4, <3>1
    <3>. QED  BY <3>2 DEF Joins
  <2>3. Len(w) \in Nat /\ DOMAIN f = {1} /\ DOMAIN w = 1 .. Len(w) /\ DOMAIN fw = 1 .. m
        /\ Len(w) \in DOMAIN w /\ Len(fw) = m /\ m \in Nat /\ m \in DOMAIN fw
    BY <1>11, <1>13, <1>14, <2>1
  <2>4. fw[m] = w[Len(w)]
    BY <1>13, <2>1, <2>3
  <2>5. \A k \in DOMAIN fw : DOMAIN fw[k].put \subseteq first .. last
    BY <1>11, <1>13, <2>1, <2>3
  <2>6. \A l \in DOMAIN d : l \in Nat \ {0}
    BY <1>14
  <2> HIDE DEF m, old
  <2>7. \A k \in DOMAIN ws : k <= m => k \in DOMAIN fw
    BY <2>2, <2>3, <2>6
  <2>8. ASSUME NEW k \in DOMAIN ws, k > m PROVE \E l \in DOMAIN d : ws[k] = d[l]
    <3>1. k \notin DOMAIN fw
      BY <2>3, <2>8
    <3>2. PICK l \in DOMAIN d : k = Len(fw) + l
      BY <2>2, <3>1
    <3>. QED  BY <2>2, <3>2
  <2>9. m \in DOMAIN ws /\ last \in DOMAIN ws[m].put /\ ws[m].put[last] = ShortSlot(a, id)
    BY <1>11, <2>2, <2>3, <2>4
  <2>10. \A k \in DOMAIN ws : k <= m => DOMAIN ws[k].put \subseteq first .. last
    BY <2>2, <2>5, <2>7
  <2>11. \A k \in DOMAIN ws : k > m => DOMAIN ws[k].put \subseteq old
    BY <1>12, <2>8
  <2>. QED  BY <2>9, <2>10, <2>11
<1>19. ASSUME c.op = "rename" PROVE Keeps(c, ws)
  <2> DEFINE i == call.old.last
  <2>1. i \in old /\ Marks(call, slots[i]) /\ \A j \in old : j \in Span(length) /\ ~IsFree(Read[j])
    BY <1>1, <1>2, <1>19 DEF Looking
  <2>2. Marks(c, slots[i]) /\ Marks(c, ShortSlot(a, id))
    BY <1>1, <1>2, <1>3, <2>1, PutsAreOwn DEF Marks, Looking, id
  <2>3. i \notin first .. last /\ last \notin old
    BY <1>6, <1>10, <2>1 DEF last
  <2> HIDE DEF m, i, old
  <2>4. LeavesFrom(c, ws, m, last)
    BY <1>18, <2>3 DEF LeavesFrom
  <2>5. LeavesUpTo(c, ws, m, i)
    BY <1>18, <2>3 DEF LeavesUpTo
  <2>. QED  BY <1>18, <2>1, <2>2, <2>4, <2>5 DEF Keeps
<1>20. Len(ws) > 0
  BY <1>17, <1>18 DEF Sound
<1>21. ASSUME ~doubled PROVE Apart(c, ws)
  <2>1. DOMAIN f = {1}
    BY <1>13, <1>14
  <2>2. /\ PutsOnly(c, f, last) /\ FreesNone(f)
        /\ PutsOnly(c, w, last) /\ PutsOnly(c, d, last)
    BY <1>2, <1>11, <1>12, <1>13, <2>1 DEF PutsOnly, FreesNone
  <2>3. PutsOnly(c, fw, last) /\ FreesNone(fw)
    BY <1>11, <1>14, <2>2, JoinedApart DEF fw
  <2>4. PutsOnly(c, ws, last) /\ FreesNone(ws)
    BY <1>4, <1>12, <1>14, <1>16, <2>2, <2>3, JoinedApart
  <2>5. Single
    BY <1>21 DEF DInv
  <2>6. ASSUME NEW i \in Span(length), IsShort(slots[i]), slots[i].id = c.id
        PROVE  Moves(c) /\ \E k \in DOMAIN ws : i \in DOMAIN ws[k].put
    <3>1. call.op = "rename" /\ Moves(c)
      BY <1>1, <1>2, <2>6 DEF Looking, Alone, Moves
    <3>2. /\ call.old.last \in call.old.first .. call.old.last /\ call.old.last \in Span(length)
          /\ IsShort(slots[call.old.last]) /\ slots[call.old.last].id = c.id
      BY <1>1, <1>2, <3>1 DEF Looking, Marks
    <3>3. i = call.old.last
      BY <2>5, <2>6, <3>2 DEF Single, Twins
    <3>4. call.old.first <= call.old.last
      BY <1>3, <3>2
    <3>5. PICK k \in DOMAIN d : i \in DOMAIN d[k].put
      BY <1>12, <3>3, <3>4
    <3>6. Joins(fw \o d, fw, d)
      BY <1>14, <1>16, Joined
    <3>7. Joins(ws, fw, d)
      BY <1>4, <3>6
    <3>8. Len(fw) + k \in DOMAIN ws /\ ws[Len(fw) + k] = d[k]
      BY <3>7 DEF Joins
    <3>. QED  BY <3>1, <3>5, <3>8
  <2>7. OneEntry(c, ws)
    BY <2>4, OnceOnly, Zenon
  <2>8. Replaces(c, ws)
    BY <2>6 DEF Replaces
  <2>9. Parted(c, ws)
    BY <2>5 DEF Parted, Single
  <2>. QED  BY <2>4, <2>7, <2>8, <2>9 DEF Apart
<1>. QED  BY <1>2, <1>17, <1>19, <1>20, <1>21 DEF Fit

LEMMA FindSlotsKeeps ==
    ASSUME DInv, FindSlots
    PROVE  DInv'
<1>1. Settled
  BY DEF DInv, Settled
<1>2. Read \in [Span(length) -> Slots] /\ Read # NotRead /\ Agrees(Read)
  BY <1>1, ReadIs
<1> DEFINE c == [call EXCEPT !.step = "write"]
           ws == <<Flush({})>> \o WriteEntries(Found, NewEntries)
                    \o DeleteEntries(call.old.first, call.old.last)
<1>3. /\ call' = c /\ todo' = ws /\ resident' = Read
      /\ UNCHANGED <<length, handle, held, slots, linked, promised, troubles, doubled>>
      /\ call.step = "find" /\ Found # NotFound
  BY DEF FindSlots
<1>4. c \in Calls /\ c.step = "write" /\ Len(ws) > 0 /\ Fit(c, ws)
  BY <1>3, FoundFits
<1> HIDE DEF c, ws
<1>5. Typed'
  BY <1>1, <1>2, <1>3, <1>4 DEF Typed, Settled, Span
<1>6. Tidy' /\ HandleHolds' /\ Agrees(resident)'
  BY <1>1, <1>2, <1>3 DEF Settled, Tidy, HandleHolds, Agrees, Span
<1>7. (Len(todo) > 0 /\ Fit(call, todo))'
  BY <1>3, <1>4, FitStays
<1>. QED  BY <1>3, <1>4, <1>5, <1>6, <1>7, NoCallIsIdle DEF DInv, Finding

LEMMA GrowKeeps ==
    ASSUME DInv, Grow
    PROVE  DInv'
<1>1. Settled /\ call \in Calls /\ Looking(call) /\ todo = <<>>
  BY NoCallIsIdle DEF DInv, Settled, Typed, Finding, Looking, Grow
<1>2. /\ slots' = [i \in AllSlots |-> IF i \div SlotsPerCluster = length THEN End ELSE slots[i]]
      /\ length' = length + 1 /\ resident' = NotRead /\ call' = [call EXCEPT !.grown = @ + 1]
      /\ UNCHANGED <<handle, held, todo, linked, promised, troubles, doubled>>
      /\ length < MaxClusters /\ call.step = "find"
  BY DEF Grow, CanGrow
<1>3. length \in Nat /\ linked \in Nat /\ Span(length) \subseteq AllSlots /\ Span(linked) \subseteq Span(length)
      /\ MaxClusters \in Nat
  BY <1>1, Places, DirectoryAssumption DEF Settled
<1>4. /\ call' \in Calls /\ call'.step = "find" /\ call'.old = call.old /\ call'.name = call.name
      /\ call'.over = call.over /\ call'.op = call.op /\ call'.id = call.id /\ call'.alias = call.alias
  BY <1>1, <1>2 DEF Calls
<1>5. Span(length)' = Span(length + 1) /\ Span(linked)' = Span(linked)
  BY <1>2 DEF Span
<1>6. /\ Span(length) \subseteq Span(length + 1) /\ Span(length + 1) \subseteq AllSlots
      /\ Span(length + 1) \subseteq Nat
  BY <1>2, <1>3, Spans
\* The new cluster reads as free; nothing else changes.
<1>7. \A i \in Span(length) : slots'[i] = slots[i]
  <2> TAKE i \in Span(length)
  <2>1. i \in Nat /\ i \in AllSlots
    BY <1>3, <1>6
  <2>2. i \div SlotsPerCluster < length
    BY <1>3, <2>1, Spans
  <2>3. i \div SlotsPerCluster # length
    BY <1>3, <2>2
  <2>. QED  BY <1>2, <2>1, <2>3
<1>8. \A i \in Span(length + 1) : i \in Span(length) \/ slots'[i] = End
  <2> SUFFICES ASSUME NEW i \in Span(length + 1), i \notin Span(length) PROVE slots'[i] = End
    OBVIOUS
  <2>1. i \in Nat /\ i \in AllSlots
    BY <1>6
  <2>2. i \div SlotsPerCluster < length + 1 /\ ~(i \div SlotsPerCluster < length)
    BY <1>3, <2>1, Spans
  <2>3. i \div SlotsPerCluster \in Nat
    BY <2>1, DirectoryAssumption
  <2>4. i \div SlotsPerCluster = length
    BY <1>3, <2>2, <2>3
  <2>. QED  BY <1>2, <2>1, <2>4
<1>9. slots' \in [AllSlots -> Slots]
  BY <1>1, <1>2, Kinds DEF Settled, Typed
<1>10. Typed'
  <2>1. (length \in 1 .. MaxClusters /\ linked \in 1 .. length)'
    BY <1>1, <1>2, <1>3 DEF Settled, Typed
  <2>2. (handle # NoHandle => handle \in [index : Span(length), alias : Aliases, id : Files])'
    BY <1>1, <1>2, <1>5, <1>6 DEF Settled, Typed
  <2>3. (resident # NotRead => resident \in [Span(length) -> Slots])'
    BY <1>2 DEF NotRead
  <2>. QED  BY <1>1, <1>2, <1>4, <1>9, <2>1, <2>2, <2>3 DEF Settled, Typed
<1>11. Tidy'
  <2>1. \A i \in Span(length + 1) : slots'[i] # Junk
    BY <1>1, <1>7, <1>8, Kinds DEF Settled, Tidy
  <2>2. ASSUME NEW i \in Span(length + 1), NEW j \in Span(length + 1), i < j, slots'[i] = End
        PROVE  IsFree(slots'[j])
    <3>1. CASE j \in Span(length)
      <4>1. i \in Span(length)
        BY <1>3, <1>6, <2>2, <3>1, Spans
      <4>. QED  BY <1>1, <1>7, <2>2, <3>1, <4>1 DEF Settled, Tidy
    <3>2. CASE j \notin Span(length)
      BY <1>8, <3>2, Kinds
    <3>. QED  BY <3>1, <3>2
  <2>3. \A i \in Span(length + 1) : IsShort(slots'[i]) => i \in Span(linked)
    BY <1>1, <1>7, <1>8, Kinds DEF Settled, Tidy
  <2>. QED  BY <1>5, <2>1, <2>2, <2>3 DEF Tidy
<1>12. HandleHolds'
  <2>1. handle # NoHandle => handle.index \in Span(length)
    BY <1>1 DEF Settled, Typed
  <2>. QED  BY <1>1, <1>2, <1>7, <2>1 DEF Settled, HandleHolds
<1>13. Finding'
  <2>1. Read' = [i \in Span(length + 1) |-> slots'[i]]
    BY <1>2, <1>5 DEF Read, View, Span
  <2>2. ASSUME NEW i \in call.old.first .. call.old.last
        PROVE  i \in Span(length) /\ i \in Span(length + 1) /\ ~IsFree(Read'[i])
    <3>1. i \in Span(length) /\ ~IsFree(Read[i])
      BY <1>1 DEF Looking
    <3>2. ~IsFree(slots[i])
      BY <1>1, <3>1, InUseRead
    <3>. QED  BY <1>6, <1>7, <2>1, <3>1, <3>2
  <2>3. ASSUME call.op = "rename"
        PROVE  call.old.last \in call.old.first .. call.old.last /\ Marks(call, slots'[call.old.last])
    <3>1. call.old.last \in call.old.first .. call.old.last /\ Marks(call, slots[call.old.last])
      BY <1>1, <2>3 DEF Looking
    <3>. QED  BY <1>7, <2>2, <3>1
  <2>4. (\A x : Marks(call, x) => Marks(call', x))
    BY <1>4 DEF Marks
  <2>5. (todo = <<>> /\ call.name \in Names /\ call.over = None)'
    BY <1>1, <1>2, <1>4 DEF Looking
  <2>6. (\A i \in call.old.first .. call.old.last : i \in Span(length) /\ ~IsFree(Read[i]))'
    BY <1>4, <1>5, <2>2
  <2>7. (call.op = "rename" => /\ call.old.last \in call.old.first .. call.old.last
                               /\ Marks(call, slots[call.old.last]))'
    <3>1. ASSUME call.op = "rename" PROVE Marks(call', slots'[call.old.last])
      BY <2>3, <2>4, <3>1
    <3>2. ASSUME call'.op = "rename" PROVE Marks(call', slots'[call'.old.last])
      BY <1>4, <3>1, <3>2
    <3>3. ASSUME call'.op = "rename" PROVE call'.old.last \in call'.old.first .. call'.old.last
      BY <1>4, <2>3, <3>3
    <3>. QED  BY <3>2, <3>3
  <2>8. (call.op # "rename" => Alone(call.id))'
    <3>1. call.op # "rename" => \A i \in Span(length + 1) : IsShort(slots'[i]) => slots'[i].id # call.id
      BY <1>1, <1>7, <1>8, Kinds DEF Looking, Alone
    <3>. QED  BY <1>4, <1>5, <3>1 DEF Alone
  <2>. QED  BY <2>5, <2>6, <2>7, <2>8 DEF Finding
<1>14. (call # Idle /\ call.step # "write")' /\ (resident = NotRead)'
  BY <1>2, <1>4, NoCallIsIdle
<1>15. (~doubled => Single)'
  <2>1. ~doubled => Single
    BY <1>2 DEF DInv
  <2>2. \A i \in Span(length + 1) : IsShort(slots'[i]) => i \in Span(length) /\ slots'[i] = slots[i]
    BY <1>7, <1>8, Kinds
  <2>. QED  BY <1>2, <1>5, <2>1, <2>2 DEF Single, Twins
<1>. QED  BY <1>10, <1>11, <1>12, <1>13, <1>14, <1>15 DEF DInv

LEMMA NoRoomKeeps ==
    ASSUME DInv, NoRoom
    PROVE  DInv'
<1>1. Settled /\ call \in Calls /\ todo = <<>>
  BY NoCallIsIdle DEF DInv, Settled, Typed, Finding, NoRoom
<1>2. Read \in [Span(length) -> Slots] /\ Read # NotRead /\ Agrees(Read)
  BY <1>1, ReadIs
<1>3. /\ held' = Undone /\ call' = Idle /\ resident' = Read
      /\ promised' = [promised EXCEPT ![call.id] = call.was]
      /\ UNCHANGED <<length, handle, todo, slots, linked, troubles, doubled>>
  BY DEF NoRoom
<1>4. promised' \in [Files -> Promises] /\ held' \subseteq Files
  BY <1>1, <1>3 DEF Calls, Settled, Typed, Undone
<1>5. Typed'
  BY <1>1, <1>2, <1>3, <1>4 DEF Typed, Settled, Span
<1>6. Tidy' /\ HandleHolds' /\ Agrees(resident)'
  BY <1>1, <1>2, <1>3 DEF Settled, Tidy, HandleHolds, Agrees, Span
<1>7. (~doubled => Single)'
  <2>1. ~doubled => Single
    BY DEF DInv, NoRoom
  <2>. QED  BY <1>3, <2>1 DEF Single, Twins, Span
<1>. QED  BY <1>1, <1>3, <1>5, <1>6, <1>7, NoCallIsIdle DEF DInv, Finding

-----------------------------------------------------------------------------
(***************************************************************************)
(* A write of a call, and the writes left after it.                        *)
(***************************************************************************)

\* What making the first write does to the slots, the handle and the parse.
\* A flush is one that writes no slot and moves no generation.
Made(w) ==
    /\ slots' = [i \in AllSlots |-> IF i \in DOMAIN w.put THEN w.put[i] ELSE slots[i]]
    /\ handle' # NoHandle => handle' = handle /\ handle.index \notin w.bump
    /\ resident' # NotRead => resident' = resident /\ (w.kind = "flush" \/ ~w.drop)
    /\ length' = length
    /\ linked' = IF w.kind = "flush" THEN length ELSE linked

\* The slots after it: those it puts, and the others as they were.
LEMMA MadeIs ==
    ASSUME Settled, NEW ws, Fit(call, ws), Len(ws) > 0, Made(ws[1])
    PROVE  /\ slots' \in [AllSlots -> Slots]
           /\ \A i \in DOMAIN ws[1].put :
                 i \in Span(length) /\ ws[1].put[i] \in Own /\ slots'[i] = ws[1].put[i]
           /\ \A i \in AllSlots : i \notin DOMAIN ws[1].put => slots'[i] = slots[i]
           /\ ws[1].kind \in {"put", "flush"}
           /\ ws[1].kind = "flush" => DOMAIN ws[1].put = {} /\ ws[1].bump = {}
<1> DEFINE w == ws[1]
<1>1. w \in Writes /\ 1 \in DOMAIN ws
  <2>1. ws \in Seq(Writes)
    BY DEF Fit, Sound
  <2>. QED  BY <2>1, RestIs
<1>2. DOMAIN w.put \subseteq Span(length) /\ (w.kind = "flush" => DOMAIN w.put = {} /\ w.bump = {})
  BY <1>1 DEF Fit, Sound, InPlace
<1>3. w.kind \in {"put", "flush"} /\ \A i \in DOMAIN w.put : w.put[i] \in Own
  <2>1. w.put \in Puts /\ w.kind \in {"put", "flush"}
    BY <1>1 DEF Writes
  <2> HIDE DEF w
  <2>2. PICK D \in SUBSET AllSlots : w.put \in [D -> Own]
    BY <2>1 DEF Puts
  <2>. QED  BY <2>1, <2>2
<1>4. slots' = [i \in AllSlots |-> IF i \in DOMAIN w.put THEN w.put[i] ELSE slots[i]]
  BY DEF Made
<1>5. Span(length) \subseteq AllSlots /\ slots \in [AllSlots -> Slots]
  BY Places DEF Settled, Typed
<1> HIDE DEF w
<1>6. \A i \in AllSlots : slots'[i] \in Slots
  BY <1>3, <1>4, <1>5, Kinds
<1>7. slots' \in [AllSlots -> Slots]
  BY <1>4, <1>6
<1>8. \A i \in DOMAIN w.put : i \in Span(length) /\ w.put[i] \in Own /\ slots'[i] = w.put[i]
  BY <1>2, <1>3, <1>4, <1>5
<1>9. \A i \in AllSlots : i \notin DOMAIN w.put => slots'[i] = slots[i]
  BY <1>4
<1>. QED  BY <1>2, <1>3, <1>7, <1>8, <1>9 DEF w

\* A write that fits leaves the directory tidy, the parse that is kept true and
\* the handle's file in its slot.
LEMMA MadeSettles ==
    ASSUME Settled, NEW ws, Fit(call, ws), Len(ws) > 0, Made(ws[1])
    PROVE  /\ Tidy'
           /\ (resident # NotRead => Agrees(resident))'
           /\ HandleHolds'
<1> DEFINE w == ws[1]
<1>1. /\ slots' \in [AllSlots -> Slots]
      /\ \A i \in DOMAIN w.put :
            i \in Span(length) /\ w.put[i] \in Own /\ slots'[i] = w.put[i]
      /\ \A i \in AllSlots : i \notin DOMAIN w.put => slots'[i] = slots[i]
      /\ w.kind \in {"put", "flush"}
      /\ w.kind = "flush" => DOMAIN w.put = {} /\ w.bump = {}
  BY MadeIs
<1>2. 1 \in DOMAIN ws /\ 1 \in 1 .. 1 /\ \A m \in 1 .. 1 : m = 1
  BY RestIs DEF Fit, Sound
<1>3. /\ handle' # NoHandle => handle' = handle /\ handle.index \notin w.bump
      /\ resident' # NotRead => resident' = resident /\ (w.kind = "flush" \/ ~w.drop)
      /\ length' = length /\ linked' = IF w.kind = "flush" THEN length ELSE linked
  BY DEF Made
<1>4. /\ \A i \in DOMAIN w.put : ~IsFree(w.put[i]) =>
             \A j \in 0 .. i : slots[j] # End \/ j \in DOMAIN w.put
      /\ \A i \in DOMAIN w.put : IsShort(w.put[i]) => i \in Span(linked) \/ w.kind = "flush"
      /\ w.kind = "put" /\ ~w.drop =>
            \A i \in DOMAIN w.put : w.put[i].kind = "long" /\ ~IsShort(slots[i])
      /\ handle # NoHandle /\ handle.index \in DOMAIN w.put =>
            \/ handle.index \in w.bump
            \/ IsShort(w.put[handle.index]) /\ w.put[handle.index].id = handle.id
  BY <1>2 DEF Fit, Sound, Fills, Published, Parts, Spares, Written, Flushed, Bumped
<1>5. Span(length) \subseteq AllSlots /\ Span(length)' = Span(length) /\ Span(length) \subseteq Nat
  BY <1>3, Places DEF Settled, Span
<1>6. Tidy'
  <2>1. \A i \in Span(length) : slots'[i] # Junk
    BY <1>1, <1>5, Kinds DEF Settled, Tidy
  <2>2. ASSUME NEW i \in Span(length), NEW j \in Span(length), i < j, slots'[i] = End
        PROVE  IsFree(slots'[j])
    <3>1. i \notin DOMAIN w.put /\ slots[i] = End
      BY <1>1, <1>5, <2>2, Kinds
    <3>2. CASE j \in DOMAIN w.put
      <4>1. i \in 0 .. j
        BY <1>5, <2>2
      <4>. QED  BY <1>1, <1>4, <3>1, <3>2, <4>1
    <3>3. CASE j \notin DOMAIN w.put
      BY <1>1, <1>5, <2>2, <3>1, <3>3 DEF Settled, Tidy
    <3>. QED  BY <3>2, <3>3
  <2>3. ASSUME NEW i \in Span(length), IsShort(slots'[i]) PROVE i \in Span(linked)'
    <3>1. w.kind = "flush" => Span(linked)' = Span(length)
      BY <1>3 DEF Span
    <3>2. w.kind # "flush" => Span(linked)' = Span(linked)
      BY <1>3 DEF Span
    <3>3. i \in Span(linked) \/ w.kind = "flush"
      BY <1>1, <1>4, <1>5, <2>3 DEF Settled, Tidy
    <3>. QED  BY <3>1, <3>2, <3>3
  <2>. QED  BY <1>5, <2>1, <2>2, <2>3 DEF Tidy
<1>7. (resident # NotRead => Agrees(resident))'
  <2> SUFFICES ASSUME resident' # NotRead, NEW i \in Span(length)
               PROVE  /\ IsShort(resident'[i]) \/ IsShort(slots'[i]) => resident'[i] = slots'[i]
                      /\ IsFree(slots'[i]) => IsFree(resident'[i])
    BY <1>5 DEF Agrees
  <2>1. /\ resident' = resident /\ (w.kind = "flush" \/ ~w.drop)
        /\ IsShort(resident[i]) \/ IsShort(slots[i]) => resident[i] = slots[i]
        /\ IsFree(slots[i]) => IsFree(resident[i])
    BY <1>3 DEF Settled, Agrees
  <2>2. CASE i \in DOMAIN w.put
    <3>1. w.put[i].kind = "long" /\ ~IsShort(slots[i]) /\ slots'[i] = w.put[i] /\ slots'[i] \in Slots
      BY <1>1, <1>4, <2>1, <2>2, Kinds
    <3>2. ~IsShort(slots'[i]) /\ ~IsFree(slots'[i])
      BY <3>1, Kinds DEF IsShort
    <3>. QED  BY <2>1, <3>1, <3>2
  <2>3. CASE i \notin DOMAIN w.put
    BY <1>1, <1>5, <2>1, <2>3
  <2>. QED  BY <2>2, <2>3
<1>8. HandleHolds'
  <2> SUFFICES ASSUME handle' # NoHandle
               PROVE  IsShort(slots'[handle.index]) /\ slots'[handle.index].id = handle.id /\ handle' = handle
    BY DEF HandleHolds
  <2>1. handle' = handle /\ handle.index \notin w.bump /\ handle # NoHandle
    BY <1>3
  <2>2. handle.index \in Span(length) /\ IsShort(slots[handle.index]) /\ slots[handle.index].id = handle.id
    BY <2>1 DEF Settled, Typed, HandleHolds
  <2>. QED  BY <1>1, <1>4, <1>5, <2>1, <2>2
<1>. QED  BY <1>6, <1>7, <1>8

\* Entries that name one file after the first write are a move's, and a write
\* after it goes to one of them.
LEMMA MadeApart ==
    ASSUME Settled, NEW ws, Fit(call, ws), Apart(call, ws), Len(ws) > 0, Made(ws[1]),
           NEW i \in Span(length), NEW j \in Span(length), i # j,
           IsShort(slots'[i]), IsShort(slots'[j]), slots'[i].id = slots'[j].id
    PROVE  /\ slots'[i].id = call.id /\ Moves(call)
           /\ \E k \in DOMAIN ws : k # 1 /\ (i \in DOMAIN ws[k].put \/ j \in DOMAIN ws[k].put)
<1> DEFINE w == ws[1]
<1>1. /\ \A l \in DOMAIN w.put : slots'[l] = w.put[l]
      /\ \A l \in Span(length) : l \notin DOMAIN w.put => slots'[l] = slots[l]
  BY MadeIs, Places DEF Settled
<1>2. 1 \in DOMAIN ws /\ DOMAIN ws \subseteq Nat \ {0} /\ \A k \in DOMAIN ws : ~(k < 1)
  BY RestIs DEF Fit, Sound
<1>3. /\ OneEntry(call, ws) /\ Replaces(call, ws) /\ Parted(call, ws)
  BY DEF Apart
<1> HIDE DEF w
<1>4. ASSUME NEW x \in Span(length), NEW y \in Span(length), x # y, IsShort(slots'[x]), IsShort(slots'[y]),
             slots'[x].id = slots'[y].id, x \in DOMAIN w.put, y \notin DOMAIN w.put
      PROVE  /\ slots'[x].id = call.id /\ Moves(call)
             /\ \E k \in DOMAIN ws : k # 1 /\ y \in DOMAIN ws[k].put
  <2>1. x \in DOMAIN ws[1].put /\ IsShort(ws[1].put[x]) /\ slots'[x] = ws[1].put[x]
    BY <1>1, <1>4 DEF w
  <2>2. slots'[x].id = call.id
    BY <1>2, <1>3, <2>1 DEF OneEntry
  <2>3. IsShort(slots[y]) /\ slots[y].id = call.id
    BY <1>1, <1>4, <2>2
  <2>4. PICK k \in DOMAIN ws : y \in DOMAIN ws[k].put /\ (k < 1 \/ Moves(call))
    BY <1>2, <1>3, <1>4, <2>1, <2>3 DEF Replaces
  <2>. QED  BY <1>2, <1>4, <2>2, <2>4 DEF w
<1>5. CASE i \in DOMAIN w.put /\ j \in DOMAIN w.put
  BY <1>1, <1>2, <1>3, <1>5 DEF OneEntry, w
<1>6. CASE i \in DOMAIN w.put /\ j \notin DOMAIN w.put
  BY <1>4, <1>6
<1>7. CASE i \notin DOMAIN w.put /\ j \in DOMAIN w.put
  BY <1>4, <1>7
<1>8. CASE i \notin DOMAIN w.put /\ j \notin DOMAIN w.put
  <2>1. Twins(i, j) /\ slots'[i] = slots[i]
    BY <1>1, <1>8 DEF Twins
  <2>. QED  BY <1>3, <1>8, <2>1 DEF Parted, w
<1>. QED  BY <1>5, <1>6, <1>7, <1>8

\* What is left fits what the first write leaves.
LEMMA RestFits ==
    ASSUME Settled, Fit(call, todo), Len(todo) > 1, Made(todo[1]),
           call' = call, todo' = Tail(todo), doubled' = doubled
    PROVE  (Len(todo) > 0 /\ Fit(call, todo))'
<1> DEFINE ws == todo  w == todo[1]  rest == Tail(todo)
<1>1. /\ slots' \in [AllSlots -> Slots]
      /\ \A i \in DOMAIN w.put :
            i \in Span(length) /\ w.put[i] \in Own /\ slots'[i] = w.put[i]
      /\ \A i \in AllSlots : i \notin DOMAIN w.put => slots'[i] = slots[i]
      /\ w.kind \in {"put", "flush"}
      /\ w.kind = "flush" => DOMAIN w.put = {} /\ w.bump = {}
  BY MadeIs DEF Fit, Sound
<1>2. ws \in Seq(Writes) /\ Len(ws) > 0
  BY DEF Fit, Sound
<1>3. /\ 1 \in DOMAIN ws /\ rest \in Seq(Writes) /\ Len(rest) > 0
      /\ \A k \in DOMAIN rest : k \in Nat \ {0} /\ k + 1 \in DOMAIN ws /\ rest[k] = ws[k + 1]
      /\ \A k \in DOMAIN ws : k = 1 \/ (k - 1 \in DOMAIN rest /\ rest[k - 1] = ws[k])
  BY <1>2, RestIs
<1>4. \A k \in DOMAIN rest :
         /\ \A i : Written(ws, k + 1, i) => i \in DOMAIN w.put \/ Written(rest, k, i)
         /\ \A i : Bumped(ws, k + 1, i) => i \in w.bump \/ Bumped(rest, k, i)
         /\ Flushed(ws, k + 1) => w.kind = "flush" \/ Flushed(rest, k)
  BY <1>2, RestSoFar
<1>5. /\ handle' # NoHandle => handle' = handle /\ handle.index \notin w.bump
      /\ length' = length /\ linked' = IF w.kind = "flush" THEN length ELSE linked
  BY DEF Made
<1>6. /\ InPlace(ws) /\ Fills(ws) /\ Spares(ws) /\ Parts(ws) /\ Published(ws)
      /\ (call.op = "rename" => Keeps(call, ws))
      /\ (~doubled => Apart(call, ws))
  BY DEF Fit, Sound
<1>7. /\ Span(length) \subseteq AllSlots /\ Span(length)' = Span(length) /\ Span(length) \subseteq Nat
      /\ length \in Nat
  BY <1>5, Places DEF Settled, Span
<1>8. todo' = rest
  OBVIOUS
<1> HIDE DEF ws, w, rest
<1>9. InPlace(todo)'
  <2>1. \A k \in DOMAIN rest :
           /\ DOMAIN rest[k].put \subseteq Span(length)
           /\ rest[k].kind = "flush" => DOMAIN rest[k].put = {} /\ rest[k].bump = {}
    BY <1>3, <1>6 DEF InPlace
  <2>. QED  BY <1>7, <1>8, <2>1 DEF InPlace
<1>10. Fills(todo)'
  <2> SUFFICES ASSUME NEW k \in DOMAIN rest, NEW i \in DOMAIN rest[k].put, ~IsFree(rest[k].put[i]),
                      NEW j \in 0 .. i
               PROVE  slots'[j] # End \/ Written(rest, k, j)
    BY <1>8 DEF Fills, Written
  <2>1. i \in Span(length) /\ i \in Nat
    BY <1>3, <1>6, <1>7 DEF InPlace
  <2>2. j \in AllSlots
    BY <1>7, <2>1, Spans
  <2>3. slots[j] # End \/ j \in DOMAIN w.put \/ Written(rest, k, j)
    BY <1>3, <1>4, <1>6 DEF Fills
  <2>4. j \in DOMAIN w.put => slots'[j] # End
    BY <1>1, Kinds
  <2>. QED  BY <1>1, <2>2, <2>3, <2>4
<1>11. Spares(todo)'
  <2> SUFFICES ASSUME handle' # NoHandle, NEW k \in DOMAIN rest, handle.index \in DOMAIN rest[k].put
               PROVE  \/ Bumped(rest, k, handle.index)
                      \/ LET slot == rest[k].put[handle.index] IN IsShort(slot) /\ slot.id = handle.id
    BY <1>5, <1>8 DEF Spares, Bumped
  <2>. QED  BY <1>3, <1>4, <1>5, <1>6 DEF Spares
<1>12. Parts(todo)'
  <2> SUFFICES ASSUME NEW k \in DOMAIN rest, rest[k].kind = "put", ~rest[k].drop
               PROVE  /\ \A i \in DOMAIN rest[k].put : rest[k].put[i].kind = "long" /\ ~IsShort(slots'[i])
                      /\ \A m \in 1 .. k : ~rest[m].drop
    BY <1>8 DEF Parts
  <2>1. /\ \A i \in DOMAIN rest[k].put : rest[k].put[i].kind = "long" /\ ~IsShort(slots[i])
        /\ \A m \in 1 .. k + 1 : ~ws[m].drop
    <3>1. k + 1 \in DOMAIN ws /\ ws[k + 1] = rest[k]
      BY <1>3
    <3>2. /\ \A i \in DOMAIN ws[k + 1].put : ws[k + 1].put[i].kind = "long" /\ ~IsShort(slots[i])
          /\ \A m \in 1 .. k + 1 : ~ws[m].drop
      BY <1>6, <3>1 DEF Parts
    <3>. QED  BY <3>1, <3>2
  <2>2. \A m \in 1 .. k : ~rest[m].drop
    <3>1. k \in Nat /\ k \in 1 .. Len(rest) /\ DOMAIN rest = 1 .. Len(rest) /\ Len(rest) \in Nat
      BY <1>3
    <3>2. \A m \in 1 .. k : m \in DOMAIN rest /\ m + 1 \in 1 .. k + 1
      BY <3>1
    <3>. QED  BY <1>3, <2>1, <3>2
  <2>3. ~w.drop
    <3>1. 1 \in 1 .. k + 1 /\ w = ws[1]
      BY <1>3 DEF w, ws
    <3>. QED  BY <2>1, <3>1
  <2>4. \A i \in DOMAIN w.put : w.put[i].kind = "long"
    <3>1. w = ws[1]
      BY DEF w, ws
    <3>. QED  BY <1>1, <1>3, <1>6, <2>3, <3>1 DEF Parts
  <2>5. ASSUME NEW i \in DOMAIN rest[k].put PROVE ~IsShort(slots'[i])
    <3>1. i \in AllSlots
      BY <1>3, <1>6, <1>7 DEF InPlace
    <3>. QED  BY <1>1, <2>1, <2>4, <3>1 DEF IsShort
  <2>. QED  BY <2>1, <2>2, <2>5
<1>13. Published(todo)'
  <2> SUFFICES ASSUME NEW k \in DOMAIN rest, NEW i \in DOMAIN rest[k].put, IsShort(rest[k].put[i])
               PROVE  i \in Span(linked)' \/ Flushed(rest, k)
    BY <1>8 DEF Published, Flushed
  <2>1. i \in Span(linked) \/ w.kind = "flush" \/ Flushed(rest, k)
    BY <1>3, <1>4, <1>6 DEF Published
  <2>2. i \in Span(length)
    BY <1>3, <1>6 DEF InPlace
  <2>3. Span(linked)' = IF w.kind = "flush" THEN Span(length) ELSE Span(linked)
    BY <1>5 DEF Span
  <2>. QED  BY <2>1, <2>2, <2>3
<1>14. (call.op = "rename" => Keeps(call, todo))'
  <2> SUFFICES ASSUME call.op = "rename"
               PROVE  \E i \in Span(length) :
                         /\ Marks(call, slots'[i])
                         /\ \/ LeavesFrom(call, rest, 0, i)
                            \/ \E m \in DOMAIN rest : \E j \in DOMAIN rest[m].put :
                                  /\ Marks(call, rest[m].put[j])
                                  /\ LeavesFrom(call, rest, m, j)
                                  /\ LeavesUpTo(call, rest, m, i)
    BY <1>7, <1>8 DEF Keeps
  <2> DEFINE c == call
  <2>1. PICK i \in Span(length) :
            /\ Marks(c, slots[i])
            /\ \/ LeavesFrom(c, ws, 0, i)
               \/ \E m \in DOMAIN ws : \E j \in DOMAIN ws[m].put :
                     /\ Marks(c, ws[m].put[j])
                     /\ LeavesFrom(c, ws, m, j)
                     /\ LeavesUpTo(c, ws, m, i)
    BY <1>6 DEF Keeps
  <2> HIDE DEF c
  <2>2. w = ws[1]
    BY DEF w, ws
  \* An entry that the first write leaves or puts is there after it.
  <2>3. ASSUME i \in DOMAIN w.put => Marks(c, w.put[i]) PROVE Marks(c, slots'[i])
    BY <1>1, <1>7, <2>1, <2>3
  <2>4. ASSUME NEW m \in Nat, NEW j, LeavesFrom(c, ws, m, j)
        PROVE  /\ m = 0 => LeavesFrom(c, rest, 0, j)
               /\ m > 0 => LeavesFrom(c, rest, m - 1, j)
    <3>1. ASSUME NEW k \in DOMAIN rest, j \in DOMAIN rest[k].put, k + 1 > m
          PROVE  Marks(c, rest[k].put[j])
      BY <1>3, <2>4, <3>1 DEF LeavesFrom
    <3>2. ASSUME NEW k \in DOMAIN rest PROVE (k > 0 => k + 1 > 0) /\ (k > m - 1 => k + 1 > m)
      BY <1>3
    <3>3. ASSUME m = 0, NEW k \in DOMAIN rest, j \in DOMAIN rest[k].put PROVE Marks(c, rest[k].put[j])
      BY <1>3, <3>1, <3>2, <3>3
    <3>. QED  BY <3>1, <3>2, <3>3 DEF LeavesFrom
  <2>5. CASE LeavesFrom(c, ws, 0, i)
    <3>1. Marks(c, slots'[i])
      BY <1>3, <2>2, <2>3, <2>5 DEF LeavesFrom
    <3>2. LeavesFrom(c, rest, 0, i)
      BY <2>4, <2>5
    <3>. QED  BY <3>1, <3>2 DEF c
  <2>6. ASSUME NEW m \in DOMAIN ws, NEW j \in DOMAIN ws[m].put, Marks(c, ws[m].put[j]),
               LeavesFrom(c, ws, m, j), LeavesUpTo(c, ws, m, i)
        PROVE  \E h \in Span(length) :
                  /\ Marks(c, slots'[h])
                  /\ \/ LeavesFrom(c, rest, 0, h)
                     \/ \E l \in DOMAIN rest : \E o \in DOMAIN rest[l].put :
                           /\ Marks(c, rest[l].put[o])
                           /\ LeavesFrom(c, rest, l, o)
                           /\ LeavesUpTo(c, rest, l, h)
    <3>0. m \in Nat
      BY <1>2
    <3>1. CASE m = 1
      <4>1. j \in Span(length) /\ Marks(c, slots'[j])
        BY <1>1, <2>2, <2>6, <3>1
      <4>2. LeavesFrom(c, rest, 0, j)
        <5>1. LeavesFrom(c, rest, 1 - 1, j)
          BY <2>4, <2>6, <3>1
        <5>. QED  BY <5>1
      <4>. QED  BY <4>1, <4>2
    <3>2. CASE m # 1
      <4>1. m - 1 \in DOMAIN rest /\ rest[m - 1] = ws[m] /\ m > 1
        BY <1>2, <1>3, <3>2
      <4>2. Marks(c, slots'[i])
        <5>1. 1 \in DOMAIN ws /\ 1 <= m
          BY <1>3, <3>0, <4>1
        <5>2. i \in DOMAIN ws[1].put => Marks(c, ws[1].put[i])
          BY <2>6, <5>1 DEF LeavesUpTo
        <5>. QED  BY <2>2, <2>3, <5>2
      <4>3. LeavesFrom(c, rest, m - 1, j)
        BY <2>4, <2>6, <3>0, <4>1
      <4>4. LeavesUpTo(c, rest, m - 1, i)
        <5>1. ASSUME NEW k \in DOMAIN rest, k <= m - 1 PROVE k + 1 <= m /\ k + 1 \in DOMAIN ws
          BY <1>3, <3>0, <5>1
        <5>. QED  BY <1>3, <2>6, <5>1 DEF LeavesUpTo
      <4>5. j \in DOMAIN rest[m - 1].put /\ Marks(c, rest[m - 1].put[j])
        BY <2>6, <4>1
      <4>. QED  BY <4>1, <4>2, <4>3, <4>4, <4>5
    <3>. QED  BY <3>1, <3>2
  <2>. QED  BY <2>1, <2>5, <2>6 DEF c
<1>15. (Len(todo) > 0)' /\ (todo \in Seq(Writes))'
  BY <1>3, <1>8
<1>16. (~doubled => Apart(call, todo))'
  <2> SUFFICES ASSUME ~doubled PROVE Apart(call, todo)'
    OBVIOUS
  <2> DEFINE c == call
  <2>1. Apart(c, ws)
    BY <1>6
  <2>2. OneEntry(c, rest)
    <3>1. \A k \in DOMAIN rest : \E l \in DOMAIN ws : rest[k] = ws[l]
      BY <1>3
    <3>2. OneEntry(c, ws)
      BY <2>1 DEF Apart
    <3> HIDE DEF c
    <3>. QED  BY <3>1, <3>2 DEF OneEntry
  <2>3. Moves(c) => FreesNone(rest)
    BY <1>3, <2>1 DEF FreesNone, Apart
  <2>4. ASSUME NEW m \in DOMAIN rest, NEW j \in DOMAIN rest[m].put, IsShort(rest[m].put[j]),
               NEW i \in Span(length), i # j, IsShort(slots'[i]), slots'[i].id = c.id
        PROVE  \E k \in DOMAIN rest : i \in DOMAIN rest[k].put /\ (k < m \/ Moves(c))
    <3>1. m \in Nat /\ m + 1 \in DOMAIN ws /\ rest[m] = ws[m + 1] /\ ws[1] = w
      BY <1>3 DEF ws, w
    <3>2. i \notin DOMAIN w.put
      <4>1. OneEntry(c, ws)
        BY <2>1 DEF Apart
      <4>. QED  BY <1>1, <1>3, <2>4, <3>1, <4>1 DEF OneEntry
    <3>3. IsShort(slots[i]) /\ slots[i].id = c.id
      BY <1>1, <1>7, <2>4, <3>2
    <3>4. PICK k \in DOMAIN ws : i \in DOMAIN ws[k].put /\ (k < m + 1 \/ Moves(c))
      BY <2>1, <2>4, <3>1, <3>3 DEF Apart, Replaces
    <3>5. k # 1
      BY <3>1, <3>2, <3>4
    <3>6. k - 1 \in DOMAIN rest /\ rest[k - 1] = ws[k] /\ k \in Nat
      <4>1. k \in Nat
        BY <1>2
      <4>. QED  BY <1>3, <3>5, <4>1
    <3>7. k < m + 1 => k - 1 < m
      BY <3>1, <3>6
    <3>. QED  BY <3>4, <3>6, <3>7
  <2>5. ASSUME NEW i \in Span(length), NEW j \in Span(length), i # j,
               IsShort(slots'[i]), IsShort(slots'[j]), slots'[i].id = slots'[j].id
        PROVE  /\ slots'[i].id = c.id /\ Moves(c)
               /\ \E k \in DOMAIN rest : i \in DOMAIN rest[k].put \/ j \in DOMAIN rest[k].put
    <3>1. /\ slots'[i].id = call.id /\ Moves(call)
          /\ \E k \in DOMAIN ws : k # 1 /\ (i \in DOMAIN ws[k].put \/ j \in DOMAIN ws[k].put)
      BY <1>2, <2>1, <2>5, MadeApart DEF ws
    <3>. QED  BY <1>3, <3>1
  <2> HIDE DEF c
  <2>6. Replaces(c, todo)' /\ OneEntry(c, todo)'
    <3>1. c' = c
      BY DEF c
    <3>2. Replaces(c, todo)'
      BY <1>7, <1>8, <2>4, <3>1 DEF Replaces, Moves
    <3>3. OneEntry(c, todo)'
      BY <1>8, <2>2, <3>1 DEF OneEntry
    <3>. QED  BY <3>2, <3>3
  <2>7. Parted(c, todo)' /\ (Moves(c) => FreesNone(todo))'
    <3>1. c' = c
      BY DEF c
    <3>. QED  BY <1>7, <1>8, <2>1, <2>3, <2>5, <3>1 DEF Parted, Twins, FreesNone
  <2>. QED  BY <2>6, <2>7 DEF Apart, c
<1>. QED  BY <1>9, <1>10, <1>11, <1>12, <1>13, <1>14, <1>15, <1>16 DEF Fit, Sound

\* Where a call goes from a write of slots or a flush: on, or to its end.
LEMMA AdvanceKeeps ==
    ASSUME DInv, call.step = "write", Made(todo[1]), Advance, held' \subseteq Files,
           resident' # NotRead => resident' = resident,
           UNCHANGED <<troubles, doubled>>
    PROVE  DInv'
<1>1. Settled /\ call \in Calls /\ Len(todo) > 0 /\ Fit(call, todo) /\ todo \in Seq(Writes)
  BY NoCallIsIdle DEF DInv, Settled, Typed, Fit, Sound
<1>2. /\ Tidy'
      /\ (resident # NotRead => Agrees(resident))'
      /\ HandleHolds'
  BY <1>1, MadeSettles
<1>3. promised' \in [Files -> Promises]
  BY <1>1 DEF Advance, Calls, Settled, Typed, Promises
<1>4. /\ length' = length /\ linked' \in 1 .. length
      /\ handle' # NoHandle => handle' = handle
  <2>1. length \in Nat \ {0} /\ linked \in 1 .. length
    BY <1>1, Places DEF Settled, Typed
  <2>. QED  BY <2>1 DEF Made
<1>5. slots' \in [AllSlots -> Slots]
  BY <1>1, MadeIs
<1>6. \/ call' = call /\ todo' = Tail(todo) /\ Len(todo) > 1
      \/ call' = Idle /\ todo' = <<>>
  BY DEF Advance
<1>7. Typed'
  <2>1. (handle # NoHandle => handle \in [index : Span(length), alias : Aliases, id : Files])'
    BY <1>1, <1>4 DEF Settled, Typed, Span
  <2>2. (resident # NotRead => resident \in [Span(length) -> Slots])'
    BY <1>1, <1>4 DEF Settled, Typed, Span
  <2>3. (call = Idle \/ call \in Calls)'
    BY <1>1, <1>6
  <2>4. (length \in 1 .. MaxClusters /\ linked \in 1 .. length)'
    BY <1>1, <1>4 DEF Settled, Typed
  <2>. QED  BY <1>1, <1>3, <1>5, <2>1, <2>2, <2>3, <2>4 DEF Settled, Typed
<1>8. CASE call' = call /\ todo' = Tail(todo) /\ Len(todo) > 1
  <2>1. (Len(todo) > 0 /\ Fit(call, todo))'
    BY <1>1, <1>8, RestFits
  <2>. QED  BY <1>1, <1>2, <1>7, <1>8, <2>1, NoCallIsIdle DEF DInv, Finding
<1>9. CASE call' = Idle /\ todo' = <<>>
  <2>1. ~doubled => Apart(call, todo)
    BY <1>1 DEF Fit
  <2>2. Len(todo) = 1 /\ DOMAIN todo = {1}
    <3>1. ~(Len(todo) > 1)
      BY <1>1, <1>9, NoCallIsIdle DEF Advance
    <3>. QED  BY <1>1, <3>1
  <2>3. ASSUME ~doubled, NEW i \in Span(length), NEW j \in Span(length), i # j,
               IsShort(slots'[i]), IsShort(slots'[j]), slots'[i].id = slots'[j].id
        PROVE  FALSE
    <3>1. \E k \in DOMAIN todo : k # 1
      BY <1>1, <2>1, <2>3, MadeApart
    <3>. QED  BY <2>2, <3>1
  <2>4. (~doubled => Single)'
    BY <1>4, <2>3 DEF Single, Twins, Span
  <2>. QED  BY <1>2, <1>7, <1>9, <2>4, NoCallIsIdle DEF DInv, Finding
<1>. QED  BY <1>6, <1>8, <1>9

LEMMA WriteSlotsKeeps ==
    ASSUME DInv, WriteSlots
    PROVE  DInv'
<1>1. call.step = "write" /\ Head(todo).kind = "put"
  BY DEF WriteSlots, Due
<1>2. todo \in Seq(Writes) /\ Len(todo) > 0 /\ Settled
  BY <1>1 DEF DInv, Fit, Sound, Settled
<1>3. Head(todo) = todo[1] /\ todo[1] \in Writes
  BY <1>2, RestIs
<1>4. Made(todo[1])
  <2>1. /\ slots' = [i \in AllSlots \cup DOMAIN todo[1].put |->
                        IF i \in DOMAIN todo[1].put THEN todo[1].put[i] ELSE slots[i]]
        /\ handle' = IF handle.index \in todo[1].bump THEN NoHandle ELSE handle
        /\ resident' = IF todo[1].drop THEN NotRead ELSE resident
        /\ length' = length /\ linked' = linked
    BY <1>3 DEF WriteSlots, Bump
  <2>2. AllSlots \cup DOMAIN todo[1].put = AllSlots
    <3>1. DOMAIN todo[1].put \subseteq AllSlots
      BY <1>3 DEF Writes, Puts
    <3>. QED  BY <3>1
  <2>. QED  BY <1>1, <1>3, <2>1, <2>2 DEF Made
<1>5. /\ Advance /\ held' \subseteq Files /\ UNCHANGED <<troubles, doubled>>
      /\ resident' # NotRead => resident' = resident
  BY <1>2 DEF WriteSlots, Settled, Typed
<1>. QED  BY <1>1, <1>4, <1>5, AdvanceKeeps

LEMMA FlushTableKeeps ==
    ASSUME DInv, FlushTable
    PROVE  DInv'
<1>1. call.step = "write" /\ Head(todo).kind = "flush"
  BY DEF FlushTable, Due
<1>2. todo \in Seq(Writes) /\ Len(todo) > 0 /\ Settled /\ InPlace(todo)
  BY <1>1 DEF DInv, Fit, Sound, Settled
<1>3. Head(todo) = todo[1] /\ todo[1] \in Writes /\ 1 \in DOMAIN todo
  BY <1>2, RestIs
<1>4. DOMAIN todo[1].put = {} /\ todo[1].bump = {}
  BY <1>1, <1>2, <1>3 DEF InPlace
<1>5. slots = [i \in AllSlots |-> slots[i]]
  BY <1>2 DEF Settled, Typed
<1>6. Made(todo[1])
  <2>1. slots' = slots /\ handle' = handle /\ resident' = resident /\ length' = length /\ linked' = length
    BY DEF FlushTable
  <2>. QED  BY <1>1, <1>3, <1>4, <1>5, <2>1 DEF Made
<1>7. /\ Advance /\ held' \subseteq Files /\ UNCHANGED <<troubles, doubled>>
      /\ resident' # NotRead => resident' = resident
  BY <1>2 DEF FlushTable, Settled, Typed
<1>. QED  BY <1>1, <1>6, <1>7, AdvanceKeeps

-----------------------------------------------------------------------------
(***************************************************************************)
(* Calls that fail, and power cuts.                                        *)
(***************************************************************************)

LEMMA FreeFailsKeeps ==
    ASSUME DInv, FreeFails
    PROVE  DInv'
<1>1. Settled
  BY DEF DInv, Settled
<1>2. call' = Idle /\ todo' = <<>>
      /\ UNCHANGED <<length, resident, handle, held, slots, linked, promised, troubles, doubled>>
  BY DEF FreeFails
<1>3. Typed' /\ Tidy' /\ HandleHolds' /\ (resident # NotRead => Agrees(resident))'
  BY <1>1, <1>2 DEF Settled, Typed, Tidy, HandleHolds, Agrees, Span
<1>4. (~doubled => Single)'
  <2>1. todo \in Seq(Writes) /\ Len(todo) > 0 /\ (~doubled => Apart(call, todo))
    BY DEF FreeFails, Due, DInv, Fit, Sound
  <2>2. 1 \in DOMAIN todo /\ todo[1].frees # {}
    BY <2>1, RestIs DEF FreeFails
  <2>3. ~doubled => Single
    BY <2>1, <2>2 DEF Apart, FreesNone, Parted, Single
  <2>. QED  BY <1>2, <2>3 DEF Single, Twins, Span
<1>. QED  BY <1>2, <1>3, <1>4, NoCallIsIdle DEF DInv, Finding

\* Entries that name one file when a call is cut short are those of a move
\* that is then noted.
LEMMA CutIsNoted ==
    ASSUME DInv, call # Idle, ~doubled, ~Doubling
    PROVE  Single
<1> SUFFICES ASSUME NEW i \in Span(length), NEW j \in Span(length), Twins(i, j) PROVE FALSE
  BY DEF Single
<1>1. Typed /\ call \in Calls
  BY DEF DInv, Typed
<1>2. slots[i].id = call.id /\ call.over = None
  <2>1. call.step = "write" /\ Apart(call, todo)
    BY <1>1, NoCallIsIdle DEF DInv, Single, Fit
  <2>. QED  BY <2>1 DEF Apart, Parted, Moves
<1> DEFINE S == {l \in ShortSlots(View(length)) : slots[l].id = call.id}
<1>3. S \subseteq Span(length) /\ i \in S /\ j \in S /\ i # j
  <2>1. View(length) = [l \in Span(length) |-> slots[l]]
    BY DEF View, Span
  <2>. QED  BY <1>2, <2>1 DEF ShortSlots, Twins, IsShort
<1>4. IsFiniteSet(S)
  <2>1. IsFiniteSet(Span(length))
    <3>1. length * SlotsPerCluster - 1 \in Int
      BY <1>1, Places, DirectoryAssumption
    <3>. QED  BY <3>1, FS_Interval DEF Span
  <2> HIDE DEF S
  <2>. QED  BY <1>3, <2>1, FS_Subset
<1> HIDE DEF S
<1>5. Cardinality(S) \in Nat /\ Cardinality({i, j}) = 2 /\ Cardinality({i, j}) <= Cardinality(S)
  <2>1. Cardinality({i}) = 1 /\ IsFiniteSet({i}) /\ j \notin {i}
    BY <1>3, FS_Singleton
  <2>2. Cardinality({i} \cup {j}) = 2
    BY <2>1, FS_AddElement
  <2>3. {i} \cup {j} = {i, j} /\ {i, j} \subseteq S
    BY <1>3
  <2>. QED  BY <1>4, <2>2, <2>3, FS_Subset, FS_CardinalityType
<1>. QED  BY <1>2, <1>5 DEF Doubling, S

LEMMA FailKeeps ==
    ASSUME DInv, Fail
    PROVE  DInv'
<1>1. Settled
  BY DEF DInv, Settled
<1>2. Read \in [Span(length) -> Slots] /\ Agrees(Read)
  BY <1>1, ReadIs
<1>3. /\ call' = Idle /\ todo' = <<>> /\ troubles' = troubles + 1 /\ troubles < MaxTroubles
      /\ doubled' = (doubled \/ (call # Idle /\ Doubling))
      /\ handle' # NoHandle => handle' = handle
      /\ resident' = Read \/ resident' = resident
      /\ UNCHANGED <<length, slots, linked, promised>>
  BY DEF Fail, Bump
<1>4. held' \subseteq Files
  BY <1>1 DEF Fail, Undone, Settled, Typed
<1>5. troubles' \in 0 .. MaxTroubles
  BY <1>1, <1>3, DirectoryAssumption DEF Settled, Typed
<1>6. doubled' \in BOOLEAN
  BY <1>3, Zenon
<1>7. Typed'
  BY <1>1, <1>2, <1>3, <1>4, <1>5, <1>6 DEF Settled, Typed, Span
<1>8. Tidy' /\ HandleHolds' /\ (resident # NotRead => Agrees(resident))'
  BY <1>1, <1>2, <1>3 DEF Settled, Tidy, HandleHolds, Agrees, Span
<1>9. (~doubled => Single)'
  <2>1. doubled' \/ Single
    BY <1>3, CutIsNoted DEF Fail
  <2>. QED  BY <1>3, <2>1 DEF Single, Twins, Span
<1>. QED  BY <1>3, <1>7, <1>8, <1>9, NoCallIsIdle DEF DInv, Finding

\* What a mount finds: the slots of the clusters that the device links.
LEMMA CrashKeeps ==
    ASSUME DInv, Crash
    PROVE  DInv'
<1>1. Settled
  BY DEF DInv, Settled
<1>2. /\ call' = Idle /\ todo' = <<>> /\ troubles' = troubles + 1 /\ troubles < MaxTroubles
      /\ doubled' = (doubled \/ (call # Idle /\ Doubling))
      /\ handle' = NoHandle /\ resident' = NotRead /\ length' = linked
      /\ slots' = [i \in AllSlots |-> IF i \div SlotsPerCluster < linked THEN slots[i] ELSE Junk]
      /\ UNCHANGED <<held, linked, promised>>
  BY DEF Crash
<1>3. /\ length \in Nat \ {0} /\ linked \in Nat \ {0}
      /\ Span(length) \subseteq AllSlots /\ Span(linked) \subseteq Span(length) /\ Span(length) \subseteq Nat
      /\ Span(length)' = Span(linked) /\ Span(linked)' = Span(linked)
  BY <1>1, <1>2, Places DEF Settled, Span
<1>4. \A i \in Span(linked) : slots'[i] = slots[i]
  <2> TAKE i \in Span(linked)
  <2>1. i \in Nat /\ i \in AllSlots
    BY <1>3
  <2>2. i \div SlotsPerCluster < linked
    BY <1>3, <2>1, Spans
  <2>. QED  BY <1>2, <2>1, <2>2
<1>5. slots' \in [AllSlots -> Slots]
  BY <1>1, <1>2, Kinds DEF Settled, Typed
<1>6. troubles' \in 0 .. MaxTroubles
  BY <1>1, <1>2, DirectoryAssumption DEF Settled, Typed
<1>7. doubled' \in BOOLEAN
  BY <1>2, Zenon
<1>8. (length \in 1 .. MaxClusters /\ linked \in 1 .. length)'
  BY <1>1, <1>2, <1>3, DirectoryAssumption DEF Settled, Typed
<1>9. Typed'
  BY <1>1, <1>2, <1>5, <1>6, <1>7, <1>8 DEF Settled, Typed
<1>10. Tidy'
  <2>1. \A i, j \in Span(linked) : i < j /\ slots[i] = End => IsFree(slots[j])
    BY <1>1, <1>3 DEF Settled, Tidy
  <2>2. \A i \in Span(linked) : slots[i] # Junk
    BY <1>1, <1>3 DEF Settled, Tidy
  <2>. QED  BY <1>3, <1>4, <2>1, <2>2 DEF Tidy
<1>11. (~doubled => Single)'
  <2>1. doubled' \/ Single
    BY <1>2, CutIsNoted, NoCallIsIdle DEF DInv
  <2>. QED  BY <1>3, <1>4, <2>1 DEF Single, Twins
<1>. QED  BY <1>2, <1>9, <1>10, <1>11, NoCallIsIdle DEF DInv, Finding, HandleHolds

LEMMA StutterKeeps ==
    ASSUME DInv, UNCHANGED vars
    PROVE  DInv'
<1>1. UNCHANGED <<length, resident, handle, held, call, todo, slots, linked, promised, troubles, doubled>>
  BY DEF vars
<1>2. Typed' /\ Tidy' /\ HandleHolds' /\ (resident # NotRead => Agrees(resident))'
  BY <1>1 DEF DInv, Typed, Tidy, HandleHolds, Agrees, Span
<1>3. Finding' /\ (call = Idle => todo = <<>>)'
  BY <1>1 DEF DInv, Finding, Marks, Alone, Span, Read, View
<1>4. ASSUME call.step = "write" PROVE (Len(todo) > 0 /\ Fit(call, todo))'
  BY <1>1, <1>4, FitStays DEF DInv
<1>5. (~doubled /\ call.step # "write" => Single)'
  BY <1>1 DEF DInv, Single, Twins, Span
<1>. QED  BY <1>1, <1>2, <1>3, <1>4, <1>5 DEF DInv

LEMMA InitHolds == Init => DInv
<1> SUFFICES ASSUME Init PROVE DInv
  OBVIOUS
<1>1. /\ length = 1 /\ linked = 1 /\ resident = NotRead /\ handle = NoHandle /\ held = {} /\ call = Idle
      /\ todo = <<>> /\ promised = [f \in Files |-> None] /\ troubles = 0 /\ doubled = FALSE
      /\ slots = [i \in AllSlots |-> IF i < SlotsPerCluster THEN End ELSE Junk]
  BY DEF Init
<1>2. 1 \in 1 .. MaxClusters /\ 1 \in 1 .. 1 /\ 0 \in 0 .. MaxTroubles
  BY DirectoryAssumption
<1>3. Typed
  BY <1>1, <1>2, Kinds DEF Typed, Promises
<1>4. \A i \in Span(1) : slots[i] = End
  <2>1. \A i \in Span(1) : i \in AllSlots
    BY <1>3, <1>1, Places
  <2>2. \A i \in Span(1) : i < SlotsPerCluster
    BY DirectoryAssumption DEF Span
  <2>. QED  BY <1>1, <2>1, <2>2
<1>5. Tidy
  BY <1>1, <1>4, Kinds DEF Tidy
<1>6. Single
  BY <1>1, <1>4, Kinds DEF Single, Twins
<1>. QED  BY <1>1, <1>3, <1>5, <1>6, NoCallIsIdle DEF DInv, HandleHolds, Finding

-----------------------------------------------------------------------------
(***************************************************************************)
(* Theorems.                                                               *)
(***************************************************************************)

LEMMA Inductive == DInv /\ [Next]_vars => DInv'
<1> SUFFICES ASSUME DInv, [Next]_vars PROVE DInv'
  OBVIOUS
<1>1. ASSUME NEW n \in Names, Create(n) \/ Open(n) \/ Remove(n) PROVE DInv'
  BY <1>1, CreateKeeps, OpenKeeps, RemoveKeeps
<1>2. ASSUME NEW n \in Names, NEW m \in Names, Rename(n, m) PROVE DInv'
  BY <1>2, RenamePreserves
<1>3. CASE Update \/ FindSlots \/ Grow \/ NoRoom
  BY <1>3, UpdateKeeps, FindSlotsKeeps, GrowKeeps, NoRoomKeeps
<1>4. CASE WriteSlots \/ FlushTable \/ FreeFails
  BY <1>4, WriteSlotsKeeps, FlushTableKeeps, FreeFailsKeeps
<1>5. CASE Fail \/ Crash
  BY <1>5, FailKeeps, CrashKeeps
<1>6. CASE UNCHANGED vars
  BY <1>6, StutterKeeps
<1>. QED  BY <1>1, <1>2, <1>3, <1>4, <1>5, <1>6 DEF Next

\* The invariant above holds of the directory throughout: through every call,
\* failed write and power cut, the writes left of a call fit what they find.
THEOREM Invariance == Spec => []DInv
<1>1. Init => DInv
  BY InitHolds
<1>2. DInv /\ [Next]_vars => DInv'
  BY Inductive
<1>. QED  BY <1>1, <1>2, PTL DEF Spec

\* The types of the state.
THEOREM TypeCorrect == Spec => []TypeOK
<1>1. DInv => TypeOK
  <2> SUFFICES ASSUME DInv PROVE TypeOK
    OBVIOUS
  <2>1. Typed /\ (call = Idle => todo = <<>>) /\ (call.step = "find" => todo = <<>>)
    BY DEF DInv, Finding
  <2>2. Span(length) \subseteq AllSlots
    BY <2>1, Places
  <2>3. resident # NotRead => \A i \in DOMAIN resident : i \in AllSlots /\ resident[i] \in Slots
    BY <2>1, <2>2 DEF Typed
  <2>4. handle # NoHandle => handle \in [index : AllSlots, alias : Aliases, id : Files]
    BY <2>1, <2>2 DEF Typed
  <2>5. call # Idle => /\ call.op \in {"create", "remove", "rename", "update"}
                       /\ call.step \in {"find", "write"}
                       /\ call.id \in Files /\ call.over \in Files \cup {None}
    BY <2>1 DEF Typed, Calls
  <2>6. todo # <<>> => call.step = "write"
    BY <2>1, <2>5
  <2>. QED  BY <2>1, <2>3, <2>4, <2>5, <2>6 DEF TypeOK, Typed, Promises
<1>. QED  BY <1>1, Invariance, PTL

\* A mount at any moment reads a directory that parses, without anything of
\* what its clusters held before.
THEOREM Readable == Spec => []DeviceReadable
<1>1. DInv => DeviceReadable
  <2> SUFFICES ASSUME DInv PROVE DeviceReadable
    OBVIOUS
  <2>1. Typed /\ Tidy
    BY DEF DInv
  <2>2. Span(linked) \subseteq Span(length)
    BY <2>1, Places
  <2>3. OnDevice = [i \in Span(linked) |-> slots[i]]
    BY DEF OnDevice, View, Span
  <2>4. Parses(OnDevice)
    BY <2>1, <2>2, <2>3 DEF Parses, Tidy
  <2>5. \A i \in DOMAIN OnDevice : OnDevice[i] # Junk
    BY <2>1, <2>2, <2>3 DEF Tidy
  <2>. QED  BY <2>4, <2>5 DEF DeviceReadable
<1>. QED  BY <1>1, Invariance, PTL

\* The resident parse shows the device's entries, also when a call that failed
\* part-way left it in place.
THEOREM ResidentIsTrue == Spec => []ResidentAgrees
<1>1. DInv => ResidentAgrees
  <2> SUFFICES ASSUME DInv, resident # NotRead
               PROVE  /\ DOMAIN resident = DOMAIN View(length)
                      /\ \A i \in DOMAIN resident :
                            "short" \in {resident[i].kind, slots[i].kind} => resident[i] = slots[i]
    BY DEF ResidentAgrees
  <2>1. resident \in [Span(length) -> Slots] /\ Agrees(resident)
    BY DEF DInv, Typed
  <2>2. DOMAIN View(length) = Span(length)
    BY DEF View, Span
  <2>. QED  BY <2>1, <2>2 DEF Agrees, IsShort
<1>. QED  BY <1>1, Invariance, PTL

\* A handle that passes check_live names the entry of its own file.
THEOREM HandlesAreTrue == Spec => []LiveHandleIsItsFile
<1>1. DInv => LiveHandleIsItsFile
  BY DEF DInv, HandleHolds, LiveHandleIsItsFile, IsShort
<1>. QED  BY <1>1, Invariance, PTL

\* Two entries name one file only while it moves to a name that nothing has,
\* or once such a move was cut short.
THEOREM SharedByMovesOnly == Spec => []SharedOnlyByMoves
<1>1. DInv => SharedOnlyByMoves
  <2> SUFFICES ASSUME DInv, ~doubled,
                      NEW i \in ShortSlots(View(length)), NEW j \in ShortSlots(View(length)),
                      i # j, slots[i].id = slots[j].id
               PROVE  call.op = "rename" /\ call.over = None /\ call.id = slots[i].id
    BY DEF SharedOnlyByMoves
  <2>1. View(length) = [l \in Span(length) |-> slots[l]]
    BY DEF View, Span
  <2>2. i \in Span(length) /\ j \in Span(length) /\ Twins(i, j)
    BY <2>1 DEF ShortSlots, Twins, IsShort
  <2>3. call.step = "write" /\ Apart(call, todo)
    BY <2>2 DEF DInv, Single, Fit
  <2>. QED  BY <2>2, <2>3 DEF Apart, Parted, Moves
<1>. QED  BY <1>1, Invariance, PTL

\* A rename loses nothing at any moment.
THEOREM RenameKeeps == Spec => []RenameKeepsTheFile
<1>1. DInv => RenameKeepsTheFile
  <2> SUFFICES ASSUME DInv, call.op = "rename"
               PROVE  IF call.over = None THEN call.id \in Listed(OnDevice)
                      ELSE \E i \in ShortSlots(OnDevice) :
                              OnDevice[i].alias = call.alias /\ OnDevice[i].id \in {call.id, call.over}
    BY DEF RenameKeepsTheFile
  <2>1. Typed /\ Tidy /\ call \in Calls
    BY NoCallIsIdle DEF DInv, Typed
  <2>2. \E i \in Span(length) : Marks(call, slots[i])
    <3>1. CASE call.step = "find"
      BY <3>1 DEF DInv, Finding
    <3>2. CASE call.step = "write"
      BY <3>2 DEF DInv, Fit, Keeps
    <3>. QED  BY <2>1, <3>1, <3>2, NoCallIsIdle
  <2>3. PICK i \in Span(linked) : Marks(call, slots[i])
    BY <2>1, <2>2 DEF Tidy, Marks
  <2>4. OnDevice = [j \in Span(linked) |-> slots[j]]
    BY DEF OnDevice, View, Span
  <2>5. i \in ShortSlots(OnDevice) /\ OnDevice[i] = slots[i]
    BY <2>3, <2>4 DEF ShortSlots, Marks, IsShort
  <2>. QED  BY <2>3, <2>5 DEF Marks, Listed
<1>. QED  BY <1>1, Invariance, PTL

=============================================================================
