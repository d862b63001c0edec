----------------------------- MODULE TableProofs -----------------------------
(***************************************************************************)
(* Facts about the table's operators, for every volume: how chains lie in  *)
(* a table that is well linked, and that allocating, appending, freeing    *)
(* and cutting keep it so.                                                 *)
(***************************************************************************)
EXTENDS Table, FiniteSetTheorems, TLAPS

Unusable == {FREE, BAD_CLUSTER}

\* No two clusters link to the same one.
LinksInjective(e) ==
    \A c, d \in Clusters : e[c] = e[d] /\ e[c] \in Clusters => c = d

\* A link leads to an allocated cluster.
LinksToUsed(e) ==
    \A c \in Clusters : e[c] \in Clusters => e[e[c]] \notin Unusable

\* Nothing links to h.
Unlinked(e, h) == \A c \in Clusters : e[c] # h

\* The chains starting at H are rooted in allocated clusters nothing links
\* to, in a table whose links are one-to-one and lead to allocated clusters.
WellLinked(e, H) ==
    /\ e \in Tables
    /\ LinksInjective(e)
    /\ LinksToUsed(e)
    /\ H \subseteq Clusters
    /\ \A h \in H : e[h] \notin Unusable /\ Unlinked(e, h)

-----------------------------------------------------------------------------
\* The marks are not cluster numbers, and there is a first cluster.
LEMMA MarksApart ==
    /\ FREE \notin Clusters /\ BAD_CLUSTER \notin Clusters /\ END_OF_CHAIN_MARK \notin Clusters
    /\ FREE # BAD_CLUSTER /\ FREE # END_OF_CHAIN_MARK /\ BAD_CLUSTER # END_OF_CHAIN_MARK
    /\ FIRST_CLUSTER \in Clusters
BY TableAssumption DEF Clusters, End, FIRST_CLUSTER, FREE, BAD_CLUSTER, END_OF_CHAIN_MARK

\* There are finitely many clusters, ClusterCount of them.
LEMMA ClustersFinite ==
    /\ IsFiniteSet(Clusters)
    /\ Cardinality(Clusters) = ClusterCount
<1>1. FIRST_CLUSTER \in Int /\ End - 1 \in Int /\ ~(FIRST_CLUSTER > End - 1)
      /\ (End - 1) - FIRST_CLUSTER + 1 = ClusterCount
  BY TableAssumption DEF End, FIRST_CLUSTER
<1>. QED  BY <1>1, FS_Interval DEF Clusters

\* A nonempty set of naturals has a least element.
LEMMA LeastNatural ==
    ASSUME NEW T \in SUBSET Nat, T # {}
    PROVE  \E x \in T : \A y \in T : x <= y
<1>1. PICK x \in T : \A y \in T : ~(<<y, x>> \in OpToRel(<, Nat))
  BY NatLessThanWellFounded, WFMin, Zenon
<1>2. \A y \in T : ~(y < x)
  BY <1>1 DEF OpToRel
<1>3. \A y \in T : x <= y
  <2> TAKE y \in T
  <2>1. x \in Nat /\ y \in Nat /\ ~(y < x)
    BY <1>2
  <2>. QED  BY <2>1
<1>. QED  BY <1>3

\* The place of a cluster in the search order is its own.
LEMMA SearchKeyOrder ==
    ASSUME NEW nf \in Clusters
    PROVE  /\ \A c \in Clusters : SearchKey(nf, c) \in Nat /\ SearchKey(nf, c) < 2 * End
           /\ \A c, d \in Clusters : SearchKey(nf, c) = SearchKey(nf, d) => c = d
BY TableAssumption DEF SearchKey, Clusters, End, FIRST_CLUSTER

\* A nonempty set of clusters has a first and a last one in search order.
LEMMA FirstFoundExists ==
    ASSUME NEW nf \in Clusters, NEW S \in SUBSET Clusters, S # {}
    PROVE  /\ FirstFound(nf, S) \in S
           /\ \A d \in S : SearchKey(nf, FirstFound(nf, S)) <= SearchKey(nf, d)
<1> DEFINE T == {SearchKey(nf, c) : c \in S}
<1>1. T \in SUBSET Nat /\ T # {}
  BY SearchKeyOrder
<1>2. PICK x \in T : \A y \in T : x <= y
  BY <1>1, LeastNatural
<1>3. \E c \in S : \A d \in S : SearchKey(nf, c) <= SearchKey(nf, d)
  BY <1>2
<1>. QED  BY <1>3, Zenon DEF FirstFound

LEMMA LastFoundExists ==
    ASSUME NEW nf \in Clusters, NEW S \in SUBSET Clusters, S # {}
    PROVE  /\ LastFound(nf, S) \in S
           /\ \A d \in S : SearchKey(nf, d) <= SearchKey(nf, LastFound(nf, S))
<1> DEFINE T == {2 * End - SearchKey(nf, c) : c \in S}
<1>0. End \in Nat
  BY TableAssumption DEF End, FIRST_CLUSTER
<1>1. T \in SUBSET Nat /\ T # {}
  BY <1>0, SearchKeyOrder
<1>2. PICK x \in T : \A y \in T : x <= y
  BY <1>1, LeastNatural
<1>3. PICK c \in S : x = 2 * End - SearchKey(nf, c)
  BY <1>2
<1>4. \A d \in S : 2 * End - SearchKey(nf, c) <= 2 * End - SearchKey(nf, d)
  BY <1>2, <1>3
<1>5. \A d \in S : SearchKey(nf, d) <= SearchKey(nf, c)
  BY <1>0, <1>4, SearchKeyOrder
<1>. QED  BY <1>5, Zenon DEF LastFound

-----------------------------------------------------------------------------
(***************************************************************************)
(* Chains.                                                                 *)
(***************************************************************************)

\* A chain holds its head and what its members link to, and nothing that
\* some closed set around its head leaves out.
LEMMA ChainLeast ==
    ASSUME NEW e, NEW h \in Clusters
    PROVE  /\ Chain(e, h) \in SUBSET Clusters
           /\ h \in Chain(e, h)
           /\ Closed(e, Chain(e, h))
           /\ \A S \in SUBSET Clusters :
                 h \in S /\ Closed(e, S) => Chain(e, h) \subseteq S
<1>1. Chain(e, h) \in SUBSET Clusters /\ h \in Chain(e, h)
  BY DEF Chain
<1>2. \A S \in SUBSET Clusters : h \in S /\ Closed(e, S) => Chain(e, h) \subseteq S
  BY DEF Chain
<1>3. Closed(e, Chain(e, h))
  <2> SUFFICES ASSUME NEW c \in Chain(e, h), e[c] \in Clusters
               PROVE  e[c] \in Chain(e, h)
    BY DEF Closed
  <2>1. \A S \in SUBSET Clusters : h \in S /\ Closed(e, S) => e[c] \in S
    BY <1>2 DEF Closed
  <2>. QED  BY <2>1 DEF Chain
<1>. QED  BY <1>1, <1>2, <1>3

\* A chain is entered only at its head.
LEMMA ChainEnteredAtHead ==
    ASSUME NEW e, LinksInjective(e), NEW h \in Clusters,
           NEW c \in Clusters, e[c] \in Chain(e, h), e[c] # h
    PROVE  c \in Chain(e, h)
<1> SUFFICES ASSUME c \notin Chain(e, h) PROVE FALSE
  OBVIOUS
<1> DEFINE S == Chain(e, h) \ {e[c]}
<1>1. S \in SUBSET Clusters /\ h \in S
  BY ChainLeast
<1>2. Closed(e, S)
  BY ChainLeast DEF Closed, LinksInjective
<1>. QED  BY <1>1, <1>2, ChainLeast

\* A cluster nothing links to is on no chain but its own.
LEMMA UnlinkedOnOwnChain ==
    ASSUME NEW e, NEW h \in Clusters, NEW k, Unlinked(e, k), k # h
    PROVE  k \notin Chain(e, h)
<1> DEFINE S == Chain(e, h) \ {k}
<1>1. S \in SUBSET Clusters /\ h \in S
  BY ChainLeast
<1>2. Closed(e, S)
  BY ChainLeast DEF Closed, Unlinked
<1>. QED  BY <1>1, <1>2, ChainLeast

\* Two chains whose heads nothing links to share no cluster.
LEMMA ChainsDisjoint ==
    ASSUME NEW e, LinksInjective(e), NEW h \in Clusters, NEW k \in Clusters,
           h # k, Unlinked(e, h), Unlinked(e, k)
    PROVE  Chain(e, h) \cap Chain(e, k) = {}
<1> DEFINE S == Chain(e, h) \ Chain(e, k)
<1>1. S \in SUBSET Clusters /\ h \in S
  BY ChainLeast, UnlinkedOnOwnChain
<1>2. Closed(e, S)
  <2> SUFFICES ASSUME NEW c \in S, e[c] \in Clusters
               PROVE  e[c] \in S
    BY DEF Closed
  <2>1. e[c] \in Chain(e, h)
    BY ChainLeast DEF Closed
  <2>2. e[c] \notin Chain(e, k)
    BY <1>1, ChainEnteredAtHead DEF Unlinked
  <2>. QED  BY <2>1, <2>2
<1>. QED  BY <1>1, <1>2, ChainLeast

\* A chain from an allocated cluster stays in allocated clusters.
LEMMA ChainUsed ==
    ASSUME NEW e, LinksToUsed(e), NEW h \in Clusters, e[h] \notin Unusable
    PROVE  \A c \in Chain(e, h) : e[c] \notin Unusable
<1> DEFINE S == {c \in Chain(e, h) : e[c] \notin Unusable}
<1>1. S \in SUBSET Clusters /\ h \in S
  BY ChainLeast
<1>2. Closed(e, S)
  BY <1>1, ChainLeast DEF Closed, LinksToUsed
<1>. QED  BY <1>1, <1>2, ChainLeast

\* A chain whose head nothing links to does not loop: it reaches the mark.
\* Its links would otherwise map its clusters one-to-one into the same
\* clusters without the head.
LEMMA WalkReachesEnd ==
    ASSUME NEW e, NEW H, WellLinked(e, H), NEW h \in H
    PROVE  WalkSucceeds(e, h)
<1> DEFINE C == Chain(e, h)
<1>1. /\ h \in Clusters /\ e \in Tables /\ LinksInjective(e) /\ LinksToUsed(e)
      /\ e[h] \notin Unusable /\ Unlinked(e, h)
  BY DEF WellLinked
<1>2. C \in SUBSET Clusters /\ h \in C /\ Closed(e, C)
  BY <1>1, ChainLeast
<1>3. \A c \in C : e[c] \notin Unusable
  BY <1>1, ChainUsed
<1>4. \E c \in C : e[c] = END_OF_CHAIN_MARK
  <2> SUFFICES ASSUME \A c \in C : e[c] # END_OF_CHAIN_MARK PROVE FALSE
    OBVIOUS
  <2>1. \A c \in C : e[c] \in Clusters
    BY <1>1, <1>2, <1>3 DEF Tables, EntryValues, Unusable
  <2>2. \A c \in C : e[c] \in C \ {h}
    BY <1>1, <1>2, <2>1 DEF Closed, Unlinked
  <2> DEFINE f == [c \in C |-> e[c]]
  <2>3. f \in Injection(C, C \ {h})
    BY <1>1, <1>2, <2>1, <2>2 DEF Injection, IsInjective, LinksInjective
  <2>4. IsFiniteSet(C)
    BY <1>2, ClustersFinite, FS_Subset
  <2>5. IsFiniteSet(C \ {h}) /\ Cardinality(C \ {h}) = Cardinality(C) - 1
    BY <1>2, <2>4, FS_RemoveElement
  <2>6. Cardinality(C) <= Cardinality(C \ {h})
    <3>1. IsFiniteSet(C \ {h})
      BY <2>5
    <3> HIDE DEF f, C
    <3>. QED  BY <2>3, <3>1, FS_Injection
  <2>7. Cardinality(C) \in Nat
    BY <2>4, FS_CardinalityType
  <2>. QED  BY <2>5, <2>6, <2>7
<1>. QED  BY <1>1, <1>3, <1>4 DEF WalkSucceeds, Unusable

-----------------------------------------------------------------------------
(***************************************************************************)
(* What each operation keeps.                                              *)
(***************************************************************************)

\* The allocator takes free clusters, and takes some whenever enough are free.
LEMMA ChosenFree ==
    ASSUME NEW e \in Tables, NEW nf \in Clusters, NEW count \in Nat \ {0},
           count <= Cardinality(FreeClusters(e))
    PROVE  Chosen(e, nf, count) \in SUBSET FreeClusters(e) /\ Chosen(e, nf, count) # {}
<1> DEFINE starts == RunStarts(e, nf, count)
           start  == FirstFound(nf, starts)
<1>1. CASE starts # {}
  <2>1. Chosen(e, nf, count) = start .. start + count - 1
    BY <1>1 DEF Chosen
  <2>2. start \in starts
    BY <1>1, FirstFoundExists DEF RunStarts
  <2>3. start \in Int /\ start \in start .. start + count - 1
    BY <2>2, TableAssumption DEF RunStarts, Clusters, End, FIRST_CLUSTER
  <2>. QED  BY <2>1, <2>2, <2>3 DEF RunStarts
<1>2. CASE starts = {}
  <2> DEFINE F == FreeClusters(e)
             first == FirstFound(nf, F)
             ahead == {d \in F : SearchKey(nf, d) < SearchKey(nf, first)}
  <2>1. Chosen(e, nf, count) = Scattered(e, nf, count)
    BY <1>2 DEF Chosen
  <2>2. F \in SUBSET Clusters /\ F # {}
    BY FS_EmptySet DEF FreeClusters
  <2>3. first \in F /\ \A d \in F : SearchKey(nf, first) <= SearchKey(nf, d)
    BY <2>2, FirstFoundExists
  <2>4. ahead = {}
    BY <2>2, <2>3, SearchKeyOrder
  <2>5. Cardinality(ahead) < count
    BY <2>4, FS_EmptySet
  <2>6. first \in Scattered(e, nf, count)
    BY <2>3, <2>5 DEF Scattered
  <2>. QED  BY <2>1, <2>6 DEF Scattered
<1>. QED  BY <1>1, <1>2

\* Linking leaves what it does not link alone, and leads to nothing else.
LEMMA LinkedTakes ==
    ASSUME NEW e, NEW nf \in Clusters, NEW A \in SUBSET Clusters, A # {}
    PROVE  /\ FirstFound(nf, A) \in A
           /\ \A c \in Clusters \ A : Linked(e, nf, A)[c] = e[c]
           /\ \A c \in A : Linked(e, nf, A)[c] \in A \cup {END_OF_CHAIN_MARK}
<1>1. FirstFound(nf, A) \in A
  BY FirstFoundExists
<1>2. \A c \in Clusters \ A : Linked(e, nf, A)[c] = e[c]
  BY DEF Linked
<1>3. ASSUME NEW c \in A PROVE Linked(e, nf, A)[c] \in A \cup {END_OF_CHAIN_MARK}
  <2> DEFINE later == {d \in A : SearchKey(nf, c) < SearchKey(nf, d)}
  <2>1. later # {} => FirstFound(nf, later) \in later
    <3>1. later \in SUBSET Clusters
      OBVIOUS
    <3> HIDE DEF later
    <3>. QED  BY <3>1, FirstFoundExists
  <2>2. Linked(e, nf, A)[c] = IF later = {} THEN END_OF_CHAIN_MARK ELSE FirstFound(nf, later)
    BY DEF Linked
  <2>. QED  BY <2>1, <2>2
<1>. QED  BY <1>1, <1>2, <1>3

\* Linking free clusters makes one more chain, rooted in the first of them.
LEMMA LinkedWell ==
    ASSUME NEW e, NEW H, WellLinked(e, H), NEW nf \in Clusters,
           NEW A \in SUBSET FreeClusters(e), A # {}
    PROVE  /\ WellLinked(Linked(e, nf, A), H \cup {FirstFound(nf, A)})
           /\ FirstFound(nf, A) \in A
           /\ \A c \in Clusters \ A : Linked(e, nf, A)[c] = e[c]
           /\ \A c \in A : Linked(e, nf, A)[c] \in A \cup {END_OF_CHAIN_MARK}
           /\ FreeClusters(Linked(e, nf, A)) = FreeClusters(e) \ A
<1> DEFINE n == Linked(e, nf, A)
           first == FirstFound(nf, A)
           later(c) == {d \in A : SearchKey(nf, c) < SearchKey(nf, d)}
<1>1. /\ e \in Tables /\ LinksInjective(e) /\ LinksToUsed(e) /\ H \subseteq Clusters
      /\ \A h \in H : e[h] \notin Unusable /\ Unlinked(e, h)
      /\ A \in SUBSET Clusters
      /\ \A c \in A : e[c] = FREE
  BY DEF WellLinked, FreeClusters
<1>2. first \in A /\ \A d \in A : SearchKey(nf, first) <= SearchKey(nf, d)
  BY <1>1, FirstFoundExists
<1>3. \A c \in Clusters \ A : n[c] = e[c]
  BY DEF Linked
<1>4. \A c \in A : later(c) = {} => n[c] = END_OF_CHAIN_MARK
  BY <1>1 DEF Linked
<1>5. \A c \in A : later(c) # {} =>
         /\ n[c] \in later(c)
         /\ \A d \in later(c) : SearchKey(nf, n[c]) <= SearchKey(nf, d)
  <2> SUFFICES ASSUME NEW c \in A, later(c) # {}
               PROVE  /\ n[c] \in later(c)
                      /\ \A d \in later(c) : SearchKey(nf, n[c]) <= SearchKey(nf, d)
    OBVIOUS
  <2>1. n[c] = FirstFound(nf, later(c))
    BY <1>1 DEF Linked
  <2>2. later(c) \in SUBSET Clusters
    BY <1>1
  <2>. QED  BY <2>1, <2>2, FirstFoundExists
<1>6. \A c \in A : n[c] \in A \cup {END_OF_CHAIN_MARK}
  BY <1>4, <1>5
<1>7. n \in Tables
  <2>1. n = [c \in Clusters |-> n[c]]
    BY DEF Linked
  <2>2. \A c \in Clusters : n[c] \in EntryValues
    BY <1>1, <1>3, <1>6 DEF Tables, EntryValues
  <2>. QED  BY <2>1, <2>2 DEF Tables
<1>8. \A c \in Clusters \ A : n[c] \notin A
  BY <1>1, <1>3 DEF LinksToUsed, Unusable
<1>9. LinksInjective(n)
  <2> SUFFICES ASSUME NEW c \in Clusters, NEW d \in Clusters,
                      n[c] = n[d], n[c] \in Clusters, c # d
               PROVE  FALSE
    BY DEF LinksInjective
  <2>1. CASE c \notin A /\ d \notin A
    BY <1>1, <1>3, <2>1 DEF LinksInjective
  <2>2. CASE c \in A /\ d \notin A
    BY <1>6, <1>8, <2>2, MarksApart
  <2>3. CASE c \notin A /\ d \in A
    BY <1>6, <1>8, <2>3, MarksApart
  <2>4. CASE c \in A /\ d \in A
    <3>1. n[c] \in later(c) /\ n[c] \in later(d)
      BY <1>4, <1>5, <2>4, MarksApart
    <3>2. \/ SearchKey(nf, c) < SearchKey(nf, d)
          \/ SearchKey(nf, d) < SearchKey(nf, c)
      BY SearchKeyOrder
    <3>3. d \in later(c) => SearchKey(nf, n[c]) <= SearchKey(nf, d)
      BY <1>5, <2>4
    <3>4. c \in later(d) => SearchKey(nf, n[d]) <= SearchKey(nf, c)
      BY <1>5, <2>4
    <3>5. n[c] \in Clusters /\ SearchKey(nf, n[c]) \in Nat
          /\ SearchKey(nf, c) \in Nat /\ SearchKey(nf, d) \in Nat
      BY SearchKeyOrder
    <3>. QED  BY <2>4, <3>1, <3>2, <3>3, <3>4, <3>5
  <2>. QED  BY <2>1, <2>2, <2>3, <2>4
<1>10. LinksToUsed(n)
  <2> SUFFICES ASSUME NEW c \in Clusters, n[c] \in Clusters
               PROVE  n[n[c]] \notin Unusable
    BY DEF LinksToUsed
  <2>1. CASE c \in A
    BY <1>1, <1>6, <2>1, MarksApart DEF Unusable
  <2>2. CASE c \notin A
    BY <1>1, <1>3, <1>8, <2>2 DEF LinksToUsed
  <2>. QED  BY <2>1, <2>2
<1>11. \A h \in H : n[h] \notin Unusable /\ Unlinked(n, h)
  <2> SUFFICES ASSUME NEW h \in H PROVE n[h] \notin Unusable /\ Unlinked(n, h)
    OBVIOUS
  <2>1. h \in Clusters \ A
    BY <1>1 DEF Unusable
  <2>2. \A c \in Clusters : n[c] # h
    BY <1>1, <1>3, <1>6, <2>1, MarksApart DEF Unlinked
  <2>. QED  BY <1>1, <1>3, <2>1, <2>2 DEF Unlinked
<1>12. n[first] \notin Unusable /\ Unlinked(n, first)
  <2>1. n[first] \notin Unusable
    BY <1>1, <1>2, <1>6, MarksApart DEF Unusable
  <2>2. \A c \in A : n[c] # first
    <3> SUFFICES ASSUME NEW c \in A, n[c] = first PROVE FALSE
      OBVIOUS
    <3>1. first \in later(c)
      BY <1>1, <1>2, <1>4, <1>5, MarksApart
    <3>2. SearchKey(nf, first) <= SearchKey(nf, c) /\ SearchKey(nf, c) < SearchKey(nf, first)
      BY <1>2, <3>1
    <3>. QED  BY <1>1, <1>2, <3>2, SearchKeyOrder
  <2>. QED  BY <1>2, <1>8, <2>1, <2>2 DEF Unlinked
<1>13. WellLinked(n, H \cup {first})
  BY <1>1, <1>2, <1>7, <1>9, <1>10, <1>11, <1>12 DEF WellLinked
<1>14. FreeClusters(n) = FreeClusters(e) \ A
  BY <1>1, <1>3, <1>6, MarksApart DEF FreeClusters
<1>. QED  BY <1>2, <1>3, <1>6, <1>13, <1>14

\* The last cluster of a held chain carries the mark.
LEMMA LastCarriesMark ==
    ASSUME NEW e, NEW h, WalkSucceeds(e, h)
    PROVE  /\ LastOf(e, h) \in Chain(e, h)
           /\ LastOf(e, h) \in Clusters
           /\ e[LastOf(e, h)] = END_OF_CHAIN_MARK
<1>1. \E c \in Chain(e, h) : e[c] = END_OF_CHAIN_MARK
  BY DEF WalkSucceeds
<1>2. LastOf(e, h) \in Chain(e, h) /\ e[LastOf(e, h)] = END_OF_CHAIN_MARK
  BY <1>1, Zenon DEF LastOf
<1>. QED  BY <1>2 DEF Chain

\* Appending links the new chain behind a mark and roots nothing new.
LEMMA AppendedWell ==
    ASSUME NEW e, NEW H, WellLinked(e, H), NEW nf \in Clusters,
           NEW A \in SUBSET FreeClusters(e), A # {},
           NEW last \in Clusters, e[last] = END_OF_CHAIN_MARK
    PROVE  /\ WellLinked(Appended(e, nf, A, last), H)
           /\ FreeClusters(Appended(e, nf, A, last)) = FreeClusters(e) \ A
<1> DEFINE n == Linked(e, nf, A)
           first == FirstFound(nf, A)
           a == Appended(e, nf, A, last)
<1>1. /\ WellLinked(n, H \cup {first}) /\ first \in A
      /\ \A c \in Clusters \ A : n[c] = e[c]
      /\ \A c \in A : n[c] \in A \cup {END_OF_CHAIN_MARK}
  BY LinkedWell, SMTT(60)
<1>2. /\ n \in Tables /\ LinksInjective(n) /\ LinksToUsed(n) /\ H \subseteq Clusters
      /\ n[first] \notin Unusable /\ Unlinked(n, first)
      /\ \A h \in H : n[h] \notin Unusable /\ Unlinked(n, h) /\ e[h] \notin Unusable
  BY <1>1 DEF WellLinked
<1>3. A \in SUBSET Clusters /\ (\A c \in A : e[c] = FREE) /\ last \notin A /\ first \notin H
  BY <1>1, <1>2, MarksApart DEF FreeClusters, Unusable
<1>4. a = [n EXCEPT ![last] = first]
  BY DEF Appended, SetEntry
<1>5. a \in Tables /\ a[last] = first /\ \A c \in Clusters \ {last} : a[c] = n[c]
  BY <1>1, <1>2, <1>3, <1>4 DEF Tables, EntryValues
<1>6. LinksInjective(a)
  BY <1>2, <1>5 DEF LinksInjective, Unlinked
<1>7. \A c \in Clusters : n[c] \notin Unusable => a[c] \notin Unusable
  BY <1>1, <1>3, <1>5, MarksApart DEF Unusable
<1>8. LinksToUsed(a)
  <2> SUFFICES ASSUME NEW c \in Clusters, a[c] \in Clusters
               PROVE  a[a[c]] \notin Unusable
    BY DEF LinksToUsed
  <2>1. n[a[c]] \notin Unusable
    BY <1>2, <1>5 DEF LinksToUsed
  <2>. QED  BY <1>7, <2>1
<1>9. \A h \in H : a[h] \notin Unusable /\ Unlinked(a, h)
  BY <1>1, <1>2, <1>3, <1>5, <1>7 DEF Unlinked
<1>10. FreeClusters(a) = FreeClusters(e) \ A
  BY <1>1, <1>3, <1>5, MarksApart DEF FreeClusters
<1>. QED  BY <1>2, <1>5, <1>6, <1>8, <1>9, <1>10 DEF WellLinked

\* Freeing a chain nothing links to frees exactly its clusters.
LEMMA FreedWell ==
    ASSUME NEW e, NEW H, WellLinked(e, H), NEW h \in Clusters,
           e[h] \notin Unusable, Unlinked(e, h)
    PROVE  /\ WellLinked(Freed(e, h), H \ {h})
           /\ FreeClusters(Freed(e, h)) = FreeClusters(e) \cup Chain(e, h)
           /\ FreeClusters(e) \cap Chain(e, h) = {}
<1> DEFINE f == Freed(e, h)
           C == Chain(e, h)
<1>1. /\ e \in Tables /\ LinksInjective(e) /\ LinksToUsed(e) /\ H \subseteq Clusters
      /\ \A k \in H : e[k] \notin Unusable /\ Unlinked(e, k)
  BY DEF WellLinked
<1>2. C \in SUBSET Clusters /\ \A c \in C : e[c] \notin Unusable
  BY <1>1, ChainLeast, ChainUsed
<1>3. f \in Tables /\ (\A c \in C : f[c] = FREE) /\ \A c \in Clusters \ C : f[c] = e[c]
  BY <1>1, <1>2 DEF Freed, Tables, EntryValues
<1>4. \A c \in Clusters \ C : e[c] \notin C
  BY <1>1, ChainEnteredAtHead DEF Unlinked
<1>5. LinksInjective(f)
  BY <1>1, <1>3, MarksApart DEF LinksInjective
<1>6. LinksToUsed(f)
  <2> SUFFICES ASSUME NEW c \in Clusters, f[c] \in Clusters
               PROVE  f[f[c]] \notin Unusable
    BY DEF LinksToUsed
  <2>1. c \notin C
    BY <1>3, MarksApart
  <2>. QED  BY <1>1, <1>3, <1>4, <2>1 DEF LinksToUsed
<1>7. \A k \in H \ {h} : f[k] \notin Unusable /\ Unlinked(f, k)
  <2> SUFFICES ASSUME NEW k \in H \ {h} PROVE f[k] \notin Unusable /\ Unlinked(f, k)
    OBVIOUS
  <2>1. k \in Clusters \ C
    BY <1>1, UnlinkedOnOwnChain
  <2>2. \A c \in Clusters : f[c] # k
    BY <1>1, <1>3, MarksApart DEF Unlinked
  <2>. QED  BY <1>1, <1>3, <2>1, <2>2 DEF Unlinked
<1>8. FreeClusters(f) = FreeClusters(e) \cup C /\ FreeClusters(e) \cap C = {}
  BY <1>2, <1>3 DEF FreeClusters, Unusable
<1>. QED  BY <1>1, <1>3, <1>5, <1>6, <1>7, <1>8 DEF WellLinked

\* Cutting a chain after `last` frees what followed and keeps every root.
LEMMA CutAfterWell ==
    ASSUME NEW e, NEW H, WellLinked(e, H),
           NEW last \in Clusters, e[last] \in Clusters
    PROVE  LET ended == SetEntry(e, last, END_OF_CHAIN_MARK)
           IN  /\ WellLinked(CutAfter(e, last), H)
               /\ FreeClusters(CutAfter(e, last)) = FreeClusters(e) \cup Chain(ended, e[last])
               /\ FreeClusters(e) \cap Chain(ended, e[last]) = {}
<1> DEFINE ended == SetEntry(e, last, END_OF_CHAIN_MARK)
           tail == e[last]
<1>1. /\ e \in Tables /\ LinksInjective(e) /\ LinksToUsed(e) /\ H \subseteq Clusters
      /\ \A k \in H : e[k] \notin Unusable /\ Unlinked(e, k)
  BY DEF WellLinked
<1>2. /\ ended \in Tables /\ ended[last] = END_OF_CHAIN_MARK
      /\ \A c \in Clusters \ {last} : ended[c] = e[c]
  BY <1>1 DEF SetEntry, Tables, EntryValues
<1>3. e[last] \notin Unusable
  BY MarksApart DEF Unusable
<1>4. \A c \in Clusters : ended[c] \in Unusable <=> e[c] \in Unusable
  BY <1>2, <1>3, MarksApart DEF Unusable
<1>5. WellLinked(ended, H)
  <2>1. LinksInjective(ended)
    BY <1>1, <1>2, MarksApart DEF LinksInjective
  <2>2. LinksToUsed(ended)
    BY <1>1, <1>2, <1>4, MarksApart DEF LinksToUsed
  <2>3. \A k \in H : ended[k] \notin Unusable /\ Unlinked(ended, k)
    BY <1>1, <1>2, <1>4, MarksApart DEF Unlinked
  <2>. QED  BY <1>1, <1>2, <2>1, <2>2, <2>3 DEF WellLinked
<1>6. tail \notin H /\ ended[tail] \notin Unusable /\ Unlinked(ended, tail)
  BY <1>1, <1>2, <1>4, MarksApart DEF Unlinked, LinksInjective, LinksToUsed
<1>7. FreeClusters(ended) = FreeClusters(e)
  BY <1>2, <1>3, MarksApart DEF FreeClusters, Unusable
<1>8. H \ {tail} = H
  BY <1>6
<1>. QED  BY <1>5, <1>6, <1>7, <1>8, FreedWell DEF CutAfter

-----------------------------------------------------------------------------
(***************************************************************************)
(* Counting clusters, and the hints.                                       *)
(***************************************************************************)

\* A set of clusters is finite, so that the free count is a number.
LEMMA SomeClusters ==
    ASSUME NEW S \in SUBSET Clusters
    PROVE  /\ IsFiniteSet(S)
           /\ Cardinality(S) \in Nat
           /\ Cardinality(S) <= ClusterCount
BY ClustersFinite, FS_Subset, FS_CardinalityType

\* The lowest cluster of a chain and the hint is a cluster.
LEMMA HintAfterFreeType ==
    ASSUME NEW e, NEW h, NEW nf \in Clusters
    PROVE  HintAfterFree(e, h, nf) \in Clusters
<1> DEFINE S == Chain(e, h) \cup {nf}
<1>1. S \in SUBSET Clusters /\ S # {}
  BY DEF Chain
<1>2. S \in SUBSET Nat
  BY <1>1, TableAssumption DEF Clusters, End, FIRST_CLUSTER
<1>3. \E c \in S : \A d \in S : c <= d
  BY <1>1, <1>2, LeastNatural
<1>4. HintAfterFree(e, h, nf) \in S
  BY <1>3, Zenon DEF HintAfterFree
<1>. QED  BY <1>1, <1>4

\* The hint an allocation leaves is a cluster: it wraps at the end.
LEMMA HintAfterType ==
    ASSUME NEW nf \in Clusters, NEW A \in SUBSET Clusters, A # {}
    PROVE  HintAfter(nf, A) \in Clusters
<1>1. LastFound(nf, A) \in Clusters
  BY LastFoundExists
<1>. QED  BY <1>1, TableAssumption DEF HintAfter, Clusters, End, FIRST_CLUSTER

\* Taking A from the free clusters lowers their number by A's.
LEMMA FewerFree ==
    ASSUME NEW e, NEW A \in SUBSET FreeClusters(e)
    PROVE  Cardinality(FreeClusters(e) \ A) = Cardinality(FreeClusters(e)) - Cardinality(A)
<1>1. FreeClusters(e) \in SUBSET Clusters /\ A \in SUBSET Clusters
  BY DEF FreeClusters
<1>2. FreeClusters(e) \cap A = A
  OBVIOUS
<1>3. IsFiniteSet(FreeClusters(e))
  BY <1>1, SomeClusters
<1>. QED  BY <1>2, <1>3, FS_Difference

\* Freeing a set of allocated clusters raises the number of free ones by it.
LEMMA MoreFree ==
    ASSUME NEW F \in SUBSET Clusters, NEW C \in SUBSET Clusters, F \cap C = {}
    PROVE  Cardinality(F \cup C) = Cardinality(F) + Cardinality(C)
<1>1. IsFiniteSet(F) /\ IsFiniteSet(C) /\ Cardinality(F) \in Nat /\ Cardinality(C) \in Nat
  BY SomeClusters
<1>2. Cardinality(F \cup C) = Cardinality(F) + Cardinality(C) - Cardinality(F \cap C)
  BY <1>1, FS_Union
<1>3. Cardinality(F \cap C) = 0
  BY FS_EmptySet
<1>. QED  BY <1>1, <1>2, <1>3

-----------------------------------------------------------------------------
(***************************************************************************)
(* How chains change with the table.                                       *)
(***************************************************************************)

\* Every allocated cluster is on the chain of a head in H.
Covered(e, H) ==
    \A c \in Clusters : e[c] \notin Unusable => \E h \in H : c \in Chain(e, h)

\* Where every link stays as it was, a chain can only grow.
LEMMA ChainGrows ==
    ASSUME NEW e, NEW n, NEW h \in Clusters,
           \A c \in Clusters : e[c] \in Clusters => n[c] = e[c]
    PROVE  Chain(e, h) \subseteq Chain(n, h)
<1>1. Chain(n, h) \in SUBSET Clusters /\ h \in Chain(n, h) /\ Closed(n, Chain(n, h))
  BY ChainLeast
<1>2. Closed(e, Chain(n, h))
  BY <1>1 DEF Closed
<1>. QED  BY <1>1, <1>2, ChainLeast

\* A chain whose entries all stay as they were stays as it was.
LEMMA ChainKept ==
    ASSUME NEW e, NEW n, NEW h \in Clusters, \A c \in Chain(e, h) : n[c] = e[c]
    PROVE  Chain(n, h) = Chain(e, h)
<1>1. /\ Chain(e, h) \in SUBSET Clusters /\ h \in Chain(e, h) /\ Closed(e, Chain(e, h))
      /\ Chain(n, h) \in SUBSET Clusters /\ h \in Chain(n, h) /\ Closed(n, Chain(n, h))
  BY ChainLeast
<1>2. Closed(n, Chain(e, h))
  BY <1>1 DEF Closed
<1>3. Chain(n, h) \subseteq Chain(e, h)
  BY <1>1, <1>2, ChainLeast
<1>4. Closed(e, Chain(n, h))
  BY <1>1, <1>3 DEF Closed
<1>5. Chain(e, h) \subseteq Chain(n, h)
  BY <1>1, <1>4, ChainLeast
<1>. QED  BY <1>3, <1>5

\* The chain of a cluster on a chain is part of it.
LEMMA ChainWithin ==
    ASSUME NEW e, NEW h \in Clusters, NEW c \in Chain(e, h)
    PROVE  Chain(e, c) \subseteq Chain(e, h)
<1>1. Chain(e, h) \in SUBSET Clusters /\ Closed(e, Chain(e, h))
  BY ChainLeast
<1>. QED  BY <1>1, ChainLeast

\* The clusters an allocation links are all on the chain of the first: each
\* of the others is linked to by the one found before it.
LEMMA LinkedIsOneChain ==
    ASSUME NEW e, NEW nf \in Clusters, NEW A \in SUBSET Clusters, A # {}
    PROVE  A \subseteq Chain(Linked(e, nf, A), FirstFound(nf, A))
<1> DEFINE n     == Linked(e, nf, A)
           first == FirstFound(nf, A)
           C     == Chain(n, first)
           away  == A \ C
<1>1. first \in A /\ first \in Clusters
  BY FirstFoundExists
<1>2. C \in SUBSET Clusters /\ first \in C /\ Closed(n, C)
  BY <1>1, ChainLeast
<1> SUFFICES ASSUME away # {} PROVE FALSE
  OBVIOUS
<1>3. away \in SUBSET Clusters
  OBVIOUS
<1> DEFINE c      == FirstFound(nf, away)
           before == {d \in A : SearchKey(nf, d) < SearchKey(nf, c)}
<1>4. c \in away /\ \A d \in away : SearchKey(nf, c) <= SearchKey(nf, d)
  BY <1>3, FirstFoundExists
<1>5. \A d \in Clusters : SearchKey(nf, d) \in Nat
  BY SearchKeyOrder
<1>6. before \in SUBSET Clusters /\ first \in before
  <2>1. SearchKey(nf, first) <= SearchKey(nf, c)
    BY <1>4, FirstFoundExists
  <2>2. SearchKey(nf, first) # SearchKey(nf, c)
    BY <1>1, <1>2, <1>3, <1>4, SearchKeyOrder
  <2>. QED  BY <1>1, <1>3, <1>4, <1>5, <2>1, <2>2
<1> DEFINE p == LastFound(nf, before)
<1>7. p \in before /\ \A d \in before : SearchKey(nf, d) <= SearchKey(nf, p)
  BY <1>6, LastFoundExists
<1>8. p \in C
  BY <1>3, <1>4, <1>5, <1>6, <1>7
<1> DEFINE later == {d \in A : SearchKey(nf, p) < SearchKey(nf, d)}
<1>9. c \in later /\ \A d \in later : SearchKey(nf, c) <= SearchKey(nf, d)
  BY <1>3, <1>4, <1>5, <1>6, <1>7
<1>10. n[p] = FirstFound(nf, later)
  BY <1>6, <1>7, <1>9 DEF Linked
<1>11. n[p] = c
  <2>1. /\ FirstFound(nf, later) \in later
        /\ \A d \in later : SearchKey(nf, FirstFound(nf, later)) <= SearchKey(nf, d)
    BY <1>9, FirstFoundExists
  <2> DEFINE found == FirstFound(nf, later)
  <2>2. /\ found \in Clusters /\ c \in Clusters
        /\ SearchKey(nf, found) <= SearchKey(nf, c) /\ SearchKey(nf, c) <= SearchKey(nf, found)
    BY <1>9, <2>1
  <2> HIDE DEF found, c
  <2>3. SearchKey(nf, found) = SearchKey(nf, c)
    BY <1>5, <2>2
  <2>4. found = c
    BY <2>2, <2>3, SearchKeyOrder
  <2>. QED  BY <1>10, <2>4 DEF found
<1>. QED  BY <1>2, <1>3, <1>4, <1>8, <1>11 DEF Closed

\* A chain is its head and the chain of what the head links to.
LEMMA ChainUnfolds ==
    ASSUME NEW e, NEW h \in Clusters
    PROVE  /\ e[h] \in Clusters => Chain(e, h) \subseteq {h} \cup Chain(e, e[h])
           /\ e[h] \notin Clusters => Chain(e, h) = {h}
<1>1. CASE e[h] \in Clusters
  <2> DEFINE S == {h} \cup Chain(e, e[h])
  <2>1. /\ Chain(e, e[h]) \in SUBSET Clusters /\ e[h] \in Chain(e, e[h])
        /\ Closed(e, Chain(e, e[h]))
    BY <1>1, ChainLeast
  <2>2. S \in SUBSET Clusters /\ h \in S /\ Closed(e, S)
    BY <2>1 DEF Closed
  <2> HIDE DEF S
  <2>3. Chain(e, h) \subseteq S
    BY <2>2, ChainLeast
  <2>. QED  BY <1>1, <2>3 DEF S
<1>2. CASE e[h] \notin Clusters
  <2>1. Closed(e, {h})
    BY <1>2 DEF Closed
  <2>. QED  BY <1>2, <2>1, ChainLeast
<1>. QED  BY <1>1, <1>2

\* Of two clusters of a chain, one comes after the other.
LEMMA ChainIsOrdered ==
    ASSUME NEW e, NEW h \in Clusters, NEW b \in Chain(e, h)
    PROVE  \A a \in Chain(e, h) : b \in Chain(e, a) \/ a \in Chain(e, b)
<1> DEFINE S == {a \in Clusters : b \in Chain(e, a) \/ a \in Chain(e, b)}
<1>1. b \in Clusters
  BY ChainLeast
<1>2. ASSUME NEW a \in S, e[a] \in Clusters
      PROVE  e[a] \in S
  <2>1. CASE a \in Chain(e, b)
    BY <1>1, <1>2, <2>1, ChainLeast DEF Closed
  <2>2. CASE b \in Chain(e, a) /\ b # a
    BY <1>2, <2>2, ChainUnfolds
  <2>3. CASE b = a
    BY <1>1, <1>2, <2>3, ChainLeast DEF Closed
  <2>. QED  BY <2>1, <2>2, <2>3
<1>3. Closed(e, S)
  BY <1>2 DEF Closed
<1>4. h \in S /\ S \in SUBSET Clusters
  OBVIOUS
<1>5. Chain(e, h) \subseteq S
  <2> HIDE DEF S
  <2>. QED  BY <1>3, <1>4, ChainLeast
<1>. QED  BY <1>5

\* The chain of a head that nothing links to does not loop.
LEMMA NoLoop ==
    ASSUME NEW e, LinksInjective(e), NEW h \in Clusters, Unlinked(e, h),
           NEW last \in Chain(e, h), e[last] \in Clusters
    PROVE  last \notin Chain(e, e[last])
<1> SUFFICES ASSUME last \in Chain(e, e[last]) PROVE FALSE
  OBVIOUS
<1> DEFINE D == Chain(e, e[last])
           S == Chain(e, h) \ D
<1>1. /\ Chain(e, h) \in SUBSET Clusters /\ h \in Chain(e, h) /\ Closed(e, Chain(e, h))
      /\ last \in Clusters
  BY ChainLeast
<1>2. h \notin D
  BY <1>1, UnlinkedOnOwnChain DEF Unlinked
<1>3. ASSUME NEW c \in S, e[c] \in D
      PROVE  FALSE
  <2>1. CASE e[c] = e[last]
    BY <1>1, <1>3, <2>1 DEF LinksInjective
  <2>2. CASE e[c] # e[last]
    BY <1>1, <1>3, <2>2, ChainEnteredAtHead
  <2>. QED  BY <2>1, <2>2
<1>4. Closed(e, S)
  BY <1>1, <1>3 DEF Closed
<1>5. S \in SUBSET Clusters /\ h \in S
  BY <1>1, <1>2
<1>6. Chain(e, h) \subseteq S
  <2> HIDE DEF S
  <2>. QED  BY <1>4, <1>5, ChainLeast
<1>. QED  BY <1>6

\* Truncation cuts before the end of the chain.
LEMMA CutBeforeEnd ==
    ASSUME NEW e, NEW h \in Clusters, NEW last \in Chain(e, h), NEW keep \in Nat,
           PlaceIn(e, h, last) = keep - 1, keep < ChainLength(e, h)
    PROVE  e[last] \in Clusters
<1> SUFFICES ASSUME e[last] \notin Clusters PROVE FALSE
  OBVIOUS
<1>1. Closed(e, {last}) /\ last \in Clusters
  BY DEF Closed, Chain
<1>2. Chain(e, last) = {last}
  BY <1>1, ChainLeast
<1>3. ChainLength(e, last) = 1
  BY <1>2, FS_Singleton DEF ChainLength
<1>4. ChainLength(e, h) \in Nat
  BY ChainLeast, SomeClusters DEF ChainLength
<1>. QED  BY <1>3, <1>4 DEF PlaceIn

-----------------------------------------------------------------------------
(***************************************************************************)
(* What becomes of every chain when one is made, grown, freed or cut.      *)
(***************************************************************************)

\* A chain whose entries all stay keeps each of its clusters in place.
LEMMA ChainKeptWhole ==
    ASSUME NEW e, NEW n, NEW h \in Clusters, \A c \in Chain(e, h) : n[c] = e[c]
    PROVE  \A c \in Chain(e, h) : Chain(n, c) = Chain(e, c)
<1> SUFFICES ASSUME NEW c \in Chain(e, h) PROVE Chain(n, c) = Chain(e, c)
  OBVIOUS
<1>1. c \in Clusters /\ Chain(e, c) \subseteq Chain(e, h)
  BY ChainLeast, ChainWithin
<1>. QED  BY <1>1, ChainKept

\* The allocator takes exactly as many clusters as it is asked for.
LEMMA ChosenCount ==
    ASSUME NEW e \in Tables, NEW nf \in Clusters, NEW count \in Nat \ {0},
           count <= Cardinality(FreeClusters(e))
    PROVE  Cardinality(Chosen(e, nf, count)) = count
<1> DEFINE starts == RunStarts(e, nf, count)
           start  == FirstFound(nf, starts)
<1>1. CASE starts # {}
  <2>1. Chosen(e, nf, count) = start .. start + count - 1
    BY <1>1 DEF Chosen
  <2>2. start \in Clusters
    BY <1>1, FirstFoundExists DEF RunStarts
  <2> HIDE DEF start
  <2>3. start \in Int /\ start + count - 1 \in Int /\ ~(start > start + count - 1)
        /\ (start + count - 1) - start + 1 = count
    BY <2>2, TableAssumption DEF Clusters, End, FIRST_CLUSTER
  <2>. QED  BY <2>1, <2>3, FS_Interval
<1>2. CASE starts = {}
  <2> DEFINE F == FreeClusters(e)
             S == Scattered(e, nf, count)
             Ahead(c) == {d \in F : SearchKey(nf, d) < SearchKey(nf, c)}
  <2>1. Chosen(e, nf, count) = S
    BY <1>2 DEF Chosen
  <2>2. F \in SUBSET Clusters /\ S \in SUBSET F
    BY DEF FreeClusters, Scattered
  <2>3. \A c \in F : c \in S <=> Cardinality(Ahead(c)) < count
    BY DEF Scattered
  <2>4. \A d \in Clusters : SearchKey(nf, d) \in Nat
    BY SearchKeyOrder
  <2> HIDE DEF F, S
  <2>5. ASSUME Cardinality(S) < count PROVE FALSE
    <3> DEFINE left == F \ S
               d    == FirstFound(nf, left)
    <3>1. left # {}
      <4>1. F \subseteq S => F = S
        BY <2>2
      <4>2. Cardinality(F) \in Nat /\ Cardinality(S) \in Nat /\ count <= Cardinality(F)
        BY <2>2, SomeClusters DEF F
      <4>. QED  BY <2>5, <4>1, <4>2
    <3>2. left \in SUBSET Clusters
      BY <2>2
    <3> HIDE DEF left
    <3>3. d \in left /\ \A c \in left : SearchKey(nf, d) <= SearchKey(nf, c)
      BY <3>1, <3>2, FirstFoundExists
    <3>4. Ahead(d) \subseteq S
      BY <2>2, <2>4, <3>3 DEF left
    <3>5. Cardinality(Ahead(d)) <= Cardinality(S) /\ Cardinality(S) \in Nat
          /\ Cardinality(Ahead(d)) \in Nat
      BY <2>2, <3>4, SomeClusters, FS_Subset
    <3>6. d \in S
      BY <2>3, <2>5, <3>3, <3>5, SMTT(60) DEF left
    <3>. QED  BY <3>3, <3>6 DEF left
  <2>6. ASSUME Cardinality(S) > count PROVE FALSE
    <3> DEFINE d == LastFound(nf, S)
    <3>1. S # {} /\ S \in SUBSET Clusters
      BY <2>2, <2>6, FS_EmptySet
    <3>2. d \in S /\ \A c \in S : SearchKey(nf, c) <= SearchKey(nf, d)
      BY <3>1, LastFoundExists
    <3>3. d \in F /\ d \in Clusters /\ Cardinality(Ahead(d)) < count
      BY <2>2, <2>3, <3>2
    <3> HIDE DEF d
    <3>4. S \subseteq Ahead(d) \cup {d}
      <4> SUFFICES ASSUME NEW c \in S, c # d PROVE c \in Ahead(d)
        OBVIOUS
      <4>1. c \in Clusters /\ c \in F /\ SearchKey(nf, c) <= SearchKey(nf, d)
        BY <2>2, <3>2
      <4>2. SearchKey(nf, c) # SearchKey(nf, d)
        BY <3>3, <4>1, SearchKeyOrder
      <4>. QED  BY <2>4, <3>3, <4>1, <4>2
    <3>5. /\ Ahead(d) \in SUBSET Clusters /\ {d} \in SUBSET Clusters
          /\ Ahead(d) \cap {d} = {}
      BY <2>2, <2>4, <3>3
    <3>6. Cardinality(Ahead(d) \cup {d}) = Cardinality(Ahead(d)) + 1
      BY <3>5, SomeClusters, FS_AddElement
    <3>7. Cardinality(S) <= Cardinality(Ahead(d) \cup {d})
      BY <3>4, <3>5, SomeClusters, FS_Subset
    <3>8. Cardinality(Ahead(d)) \in Nat /\ Cardinality(S) \in Nat
      BY <3>1, <3>5, SomeClusters
    <3>. QED  BY <2>6, <3>3, <3>6, <3>7, <3>8
  <2>7. Cardinality(S) \in Nat
    BY <2>2, SomeClusters
  <2>. QED  BY <2>1, <2>5, <2>6, <2>7
<1>. QED  BY <1>1, <1>2

\* An allocation is a chain of its own and leaves every other as it was.
LEMMA LinkedChains ==
    ASSUME NEW e, NEW H, WellLinked(e, H), NEW nf \in Clusters,
           NEW A \in SUBSET FreeClusters(e), A # {}
    PROVE  LET n == Linked(e, nf, A)
           IN  /\ Chain(n, FirstFound(nf, A)) = A
               /\ \A c \in Clusters : e[c] \notin Unusable =>
                     /\ Chain(e, c) \cap A = {}
                     /\ Chain(n, c) = Chain(e, c)
<1> DEFINE n     == Linked(e, nf, A)
           first == FirstFound(nf, A)
<1>1. /\ first \in A /\ \A c \in A : n[c] \in A \cup {END_OF_CHAIN_MARK}
      /\ \A c \in Clusters \ A : n[c] = e[c]
  BY LinkedWell
<1>2. A \in SUBSET Clusters /\ \A c \in A : e[c] \in Unusable
  BY DEF FreeClusters, Unusable
<1>3. A \subseteq Chain(n, first)
  BY <1>2, LinkedIsOneChain
<1> HIDE DEF n, first
<1>4. Closed(n, A)
  BY <1>1, MarksApart DEF Closed
<1>5. Chain(n, first) \subseteq A
  BY <1>1, <1>2, <1>4, ChainLeast
<1>6. ASSUME NEW c \in Clusters, e[c] \notin Unusable
      PROVE  Chain(e, c) \cap A = {} /\ Chain(n, c) = Chain(e, c)
  <2>1. Chain(e, c) \in SUBSET Clusters /\ \A d \in Chain(e, c) : e[d] \notin Unusable
    BY <1>6, ChainUsed, ChainLeast DEF WellLinked
  <2>2. Chain(e, c) \cap A = {}
    BY <1>2, <2>1
  <2>3. \A d \in Chain(e, c) : n[d] = e[d]
    BY <1>1, <2>1, <2>2
  <2>. QED  BY <2>2, <2>3, ChainKept
<1>. QED  BY <1>3, <1>5, <1>6 DEF n, first

\* An append puts what it took behind every cluster that led to `last`.
LEMMA AppendedChains ==
    ASSUME NEW e, NEW H, WellLinked(e, H), NEW nf \in Clusters,
           NEW A \in SUBSET FreeClusters(e), A # {},
           NEW last \in Clusters, e[last] = END_OF_CHAIN_MARK
    PROVE  LET a == Appended(e, nf, A, last)
           IN  \A c \in Clusters : e[c] \notin Unusable =>
                  /\ Chain(e, c) \cap A = {}
                  /\ last \in Chain(e, c) => Chain(a, c) = Chain(e, c) \cup A
                  /\ last \notin Chain(e, c) => Chain(a, c) = Chain(e, c)
<1> DEFINE n     == Linked(e, nf, A)
           first == FirstFound(nf, A)
           a     == Appended(e, nf, A, last)
<1>1. /\ first \in A /\ \A c \in A : n[c] \in A \cup {END_OF_CHAIN_MARK}
      /\ \A c \in Clusters \ A : n[c] = e[c]
  <2>1. A \in SUBSET Clusters
    BY DEF FreeClusters
  <2>. QED  BY <2>1, LinkedTakes
<1>2. /\ A \in SUBSET Clusters /\ last \notin A /\ \A c \in A : e[c] \in Unusable
  BY MarksApart DEF FreeClusters, Unusable
<1>3. Chain(n, first) = A
  BY LinkedChains
<1>4. n = [c \in Clusters |-> n[c]] /\ a = SetEntry(n, last, first)
  BY DEF Linked, Appended
<1> HIDE DEF n, first, a
<1>5. a[last] = first /\ \A c \in Clusters : c # last => a[c] = n[c]
  BY <1>4 DEF SetEntry
<1>6. SUFFICES ASSUME NEW c \in Clusters, e[c] \notin Unusable
               PROVE  /\ Chain(e, c) \cap A = {}
                      /\ last \in Chain(e, c) => Chain(a, c) = Chain(e, c) \cup A
                      /\ last \notin Chain(e, c) => Chain(a, c) = Chain(e, c)
  BY DEF a
<1>7. /\ Chain(e, c) \in SUBSET Clusters /\ c \in Chain(e, c) /\ Closed(e, Chain(e, c))
      /\ \A d \in Chain(e, c) : e[d] \notin Unusable
  BY <1>6, ChainUsed, ChainLeast DEF WellLinked
<1>8. Chain(e, c) \cap A = {}
  BY <1>2, <1>7
<1>9. CASE last \notin Chain(e, c)
  <2>1. \A d \in Chain(e, c) : a[d] = e[d]
    BY <1>1, <1>5, <1>7, <1>8, <1>9
  <2>. QED  BY <1>8, <1>9, <2>1, ChainKept
<1>10. CASE last \in Chain(e, c)
  <2> DEFINE S == Chain(e, c) \cup A
  <2>1. ASSUME NEW d \in S, a[d] \in Clusters
        PROVE  a[d] \in S
    <3>1. CASE d \in A
      BY <1>1, <1>2, <1>5, <2>1, <3>1, MarksApart
    <3>2. CASE d = last
      BY <1>1, <1>5, <3>2
    <3>3. CASE d \notin A /\ d # last
      BY <1>1, <1>5, <1>7, <2>1, <3>3 DEF Closed
    <3>. QED  BY <3>1, <3>2, <3>3
  <2>2. Chain(a, c) \subseteq S
    <3>1. Closed(a, S) /\ S \in SUBSET Clusters /\ c \in S
      BY <1>2, <1>7, <2>1 DEF Closed
    <3> HIDE DEF S
    <3>. QED  BY <3>1, ChainLeast
  <2>3. Chain(e, c) \subseteq Chain(a, c)
    <3>1. \A d \in Clusters : e[d] \in Clusters => a[d] = e[d]
      BY <1>1, <1>2, <1>5, MarksApart DEF Unusable
    <3>. QED  BY <3>1, ChainGrows
  <2>4. first \in Chain(a, c)
    <3>1. Closed(a, Chain(a, c))
      BY ChainLeast
    <3>. QED  BY <1>1, <1>2, <1>5, <1>10, <2>3, <3>1 DEF Closed
  <2>5. A \subseteq Chain(a, first)
    <3>1. \A d \in Chain(n, first) : a[d] = n[d]
      BY <1>2, <1>3, <1>5
    <3>. QED  BY <1>1, <1>2, <1>3, <3>1, ChainKept
  <2>6. Chain(a, first) \subseteq Chain(a, c)
    BY <2>4, ChainWithin
  <2>. QED  BY <1>8, <1>10, <2>2, <2>3, <2>5, <2>6
<1>. QED  BY <1>9, <1>10

\* Freeing a chain leaves every chain apart from it as it was.
LEMMA FreedChains ==
    ASSUME NEW e, NEW h, NEW k \in Clusters, Chain(e, k) \cap Chain(e, h) = {}
    PROVE  \A c \in Chain(e, k) : Chain(Freed(e, h), c) = Chain(e, c)
<1>1. Chain(e, k) \in SUBSET Clusters
  BY ChainLeast
<1>2. \A c \in Chain(e, k) : Freed(e, h)[c] = e[c]
  BY <1>1 DEF Freed
<1>. QED  BY <1>2, ChainKeptWhole

\* What a truncation of h's chain does to its chains: those of the clusters
\* it leaves lose what followed `last`, all of it, and nothing else.
LEMMA CutChains ==
    ASSUME NEW e, NEW H, WellLinked(e, H), NEW h \in H,
           NEW last \in Chain(e, h), e[last] \in Clusters
    PROVE  LET n    == CutAfter(e, last)
               rest == Chain(e, e[last])
           IN  /\ h \notin rest
               /\ Chain(e, last) = {last} \cup rest /\ last \notin rest
               /\ rest \subseteq Chain(e, h)
               /\ \A c \in Clusters : n[c] = IF c \in rest THEN FREE
                                             ELSE IF c = last THEN END_OF_CHAIN_MARK ELSE e[c]
               /\ \A c \in Chain(e, h) \ rest :
                     Chain(e, c) = Chain(n, c) \cup rest /\ Chain(n, c) \cap rest = {}
<1> DEFINE ended == SetEntry(e, last, END_OF_CHAIN_MARK)
           tail  == e[last]
           cut   == Chain(ended, tail)
           rest  == Chain(e, tail)
           n     == CutAfter(e, last)
<1>1. /\ h \in Clusters /\ last \in Clusters /\ e = [c \in Clusters |-> e[c]]
      /\ LinksInjective(e) /\ Unlinked(e, h)
      /\ Chain(e, h) \in SUBSET Clusters
  BY ChainLeast DEF WellLinked, Tables
<1>2. tail \in Clusters
  OBVIOUS
<1>3. last \notin rest /\ h \notin rest
  BY <1>1, <1>2, NoLoop, UnlinkedOnOwnChain DEF Unlinked
<1>4. cut = rest
  <2>1. \A c \in rest : ended[c] = e[c]
    BY <1>1, <1>2, <1>3, ChainLeast DEF SetEntry
  <2>. QED  BY <1>2, <2>1, ChainKept
<1>5. /\ rest \in SUBSET Clusters /\ tail \in rest /\ Closed(e, rest)
  BY <1>2, ChainLeast
<1>6. \A c \in Clusters : n[c] = IF c \in rest THEN FREE
                                 ELSE IF c = last THEN END_OF_CHAIN_MARK ELSE e[c]
  <2>1. \A c \in Clusters : n[c] = IF c \in cut THEN FREE ELSE ended[c]
    BY DEF CutAfter, Freed
  <2>2. \A c \in Clusters : ended[c] = IF c = last THEN END_OF_CHAIN_MARK ELSE e[c]
    BY <1>1 DEF SetEntry
  <2>. QED  BY <1>4, <2>1, <2>2
<1>7. Chain(e, last) \subseteq {last} \cup rest
  BY <1>1, <1>2, ChainUnfolds
<1>8. {last} \cup rest \subseteq Chain(e, last)
  <2>1. last \in Chain(e, last) /\ tail \in Chain(e, last)
    BY <1>1, <1>2, ChainLeast DEF Closed
  <2>. QED  BY <1>1, <2>1, ChainWithin
<1>9. rest \subseteq Chain(e, h)
  BY <1>1, <1>8, ChainWithin
<1> HIDE DEF ended, tail, cut, rest, n
<1>10. ASSUME NEW c \in Chain(e, h), c \notin rest
       PROVE  Chain(e, c) = Chain(n, c) \cup rest /\ Chain(n, c) \cap rest = {}
  <2>1. /\ c \in Clusters
        /\ Chain(e, c) \in SUBSET Clusters /\ c \in Chain(e, c)
        /\ Closed(e, Chain(e, c))
        /\ Chain(n, c) \in SUBSET Clusters /\ c \in Chain(n, c)
        /\ Closed(n, Chain(n, c))
    BY <1>1, ChainLeast
  <2>2. Chain(n, c) \cap rest = {}
    <3> DEFINE S == Clusters \ rest
    <3>1. ASSUME NEW d \in S, n[d] \in rest
          PROVE  FALSE
      <4>1. d # last /\ e[d] \in rest
        BY <1>5, <1>6, <3>1, MarksApart
      <4>2. e[d] # tail
        BY <1>1, <1>2, <4>1 DEF LinksInjective, tail
      <4>. QED  BY <1>1, <1>2, <3>1, <4>1, <4>2, ChainEnteredAtHead DEF rest
    <3>2. Closed(n, S) /\ S \in SUBSET Clusters /\ c \in S
      BY <1>10, <2>1, <3>1 DEF Closed
    <3>3. Chain(n, c) \subseteq S
      <4> HIDE DEF S
      <4>. QED  BY <2>1, <3>2, ChainLeast
    <3>. QED  BY <3>3
  <2>3. Chain(n, c) \subseteq Chain(e, c)
    <3>1. Closed(n, Chain(e, c))
      BY <1>6, <2>1, MarksApart DEF Closed
    <3>. QED  BY <2>1, <3>1, ChainLeast
  <2>4. last \in Chain(e, c)
    <3>1. last \in Chain(e, c) \/ c \in Chain(e, last)
      BY <1>1, ChainIsOrdered
    <3>. QED  BY <1>7, <1>10, <2>1, <3>1
  <2>5. rest \subseteq Chain(e, c)
    <3>1. tail \in Chain(e, c)
      BY <1>1, <1>2, <2>1, <2>4 DEF Closed, tail
    <3>. QED  BY <2>1, <3>1, ChainWithin DEF rest
  <2>6. Chain(e, c) \subseteq Chain(n, c) \cup rest
    <3> DEFINE S == Chain(n, c) \cup rest
    <3>1. ASSUME NEW d \in S, e[d] \in Clusters
          PROVE  e[d] \in S
      <4>1. CASE d \in rest
        BY <1>5, <3>1, <4>1 DEF Closed
      <4>2. CASE d \notin rest /\ d = last
        BY <1>5, <4>2 DEF tail
      <4>3. CASE d \notin rest /\ d # last
        BY <1>6, <2>1, <3>1, <4>3 DEF Closed
      <4>. QED  BY <4>1, <4>2, <4>3
    <3>2. Closed(e, S) /\ S \in SUBSET Clusters /\ c \in S
      BY <1>5, <2>1, <3>1 DEF Closed
    <3> HIDE DEF S
    <3>3. Chain(e, c) \subseteq S
      BY <2>1, <3>2, ChainLeast
    <3>. QED  BY <3>3 DEF S
  <2>. QED  BY <2>2, <2>3, <2>5, <2>6
<1>. QED  BY <1>3, <1>6, <1>7, <1>8, <1>9, <1>10 DEF n, rest, tail

\* No two clusters of a chain have the same place in it.
LEMMA PlacesDiffer ==
    ASSUME NEW e, LinksInjective(e), NEW h \in Clusters, Unlinked(e, h),
           NEW c \in Chain(e, h), NEW d \in Chain(e, h),
           PlaceIn(e, h, c) = PlaceIn(e, h, d)
    PROVE  c = d
<1>1. /\ c \in Clusters /\ d \in Clusters
      /\ Chain(e, c) \in SUBSET Clusters /\ Chain(e, d) \in SUBSET Clusters
      /\ c \in Chain(e, c) /\ d \in Chain(e, d) /\ Chain(e, h) \in SUBSET Clusters
  BY ChainLeast
<1>2. Cardinality(Chain(e, c)) = Cardinality(Chain(e, d))
  BY <1>1, SomeClusters DEF PlaceIn, ChainLength
<1>3. ASSUME NEW a \in Chain(e, h), NEW b \in Chain(e, a), a # b
      PROVE  Cardinality(Chain(e, b)) < Cardinality(Chain(e, a))
  <2>1. a \in Clusters /\ b \in Clusters /\ Chain(e, a) \in SUBSET Clusters /\ a \in Chain(e, a)
    BY <1>1, ChainLeast
  <2>2. e[a] \in Clusters /\ b \in Chain(e, e[a])
    BY <1>3, <2>1, ChainUnfolds
  <2>3. a \notin Chain(e, e[a])
    BY <2>2, NoLoop
  <2>4. Chain(e, b) \subseteq Chain(e, e[a]) /\ Chain(e, b) \subseteq Chain(e, a)
    BY <2>1, <2>2, ChainWithin
  <2>5. Chain(e, b) \subseteq Chain(e, a) /\ Chain(e, b) # Chain(e, a)
    BY <2>1, <2>3, <2>4
  <2>6. Chain(e, b) \in SUBSET Clusters
    BY <2>1, <2>4
  <2>7. /\ IsFiniteSet(Chain(e, a)) /\ Cardinality(Chain(e, a)) \in Nat
        /\ Cardinality(Chain(e, b)) \in Nat
    BY <2>1, <2>6, SomeClusters
  <2>8. /\ Cardinality(Chain(e, b)) <= Cardinality(Chain(e, a))
        /\ Cardinality(Chain(e, b)) # Cardinality(Chain(e, a))
    BY <2>5, <2>7, FS_Subset
  <2>. QED  BY <2>7, <2>8
<1>4. c \in Chain(e, d) \/ d \in Chain(e, c)
  BY ChainIsOrdered
<1>5. Cardinality(Chain(e, c)) \in Nat /\ Cardinality(Chain(e, d)) \in Nat
  BY <1>1, SomeClusters
<1>. QED  BY <1>2, <1>3, <1>4, <1>5

\* A truncation to `keep` clusters leaves as many.
LEMMA CutLength ==
    ASSUME NEW e, NEW H, WellLinked(e, H), NEW h \in H, NEW last \in Chain(e, h),
           e[last] \in Clusters, NEW keep \in Nat, PlaceIn(e, h, last) = keep - 1
    PROVE  ChainLength(CutAfter(e, last), h) = keep
<1> DEFINE n    == CutAfter(e, last)
           rest == Chain(e, e[last])
<1>1. h \in Clusters /\ h \in Chain(e, h) /\ Chain(e, h) \in SUBSET Clusters
  BY ChainLeast DEF WellLinked
<1>2. /\ h \notin rest /\ Chain(e, last) = {last} \cup rest /\ last \notin rest
      /\ \A c \in Chain(e, h) \ rest :
            Chain(e, c) = Chain(n, c) \cup rest /\ Chain(n, c) \cap rest = {}
  BY CutChains
<1>3. Chain(e, h) = Chain(n, h) \cup rest /\ Chain(n, h) \cap rest = {}
  BY <1>1, <1>2
<1>4. rest \in SUBSET Clusters /\ Chain(n, h) \in SUBSET Clusters /\ {last} \in SUBSET Clusters
      /\ {last} \cap rest = {}
  BY <1>1, <1>2, ChainLeast
<1> HIDE DEF n, rest
<1>5. /\ Cardinality(Chain(e, h)) = Cardinality(Chain(n, h)) + Cardinality(rest)
      /\ Cardinality(Chain(e, last)) = Cardinality({last}) + Cardinality(rest)
  BY <1>2, <1>3, <1>4, MoreFree
<1>6. /\ Cardinality({last}) = 1 /\ Cardinality(rest) \in Nat
      /\ Cardinality(Chain(n, h)) \in Nat
  BY <1>4, SomeClusters, FS_Singleton
<1>. QED  BY <1>5, <1>6 DEF PlaceIn, ChainLength, n

-----------------------------------------------------------------------------
(***************************************************************************)
(* No operation leaves an allocated cluster off the chains it roots.       *)
(***************************************************************************)

LEMMA LinkedCovers ==
    ASSUME NEW e, NEW H, WellLinked(e, H), Covered(e, H), NEW nf \in Clusters,
           NEW A \in SUBSET FreeClusters(e), A # {}
    PROVE  Covered(Linked(e, nf, A), H \cup {FirstFound(nf, A)})
<1> DEFINE n == Linked(e, nf, A)
<1>1. \A h \in H : h \in Clusters /\ e[h] \notin Unusable
  BY DEF WellLinked
<1>2. \A c \in Clusters \ A : n[c] = e[c]
  BY LinkedWell
<1>3. /\ Chain(n, FirstFound(nf, A)) = A
      /\ \A c \in Clusters : e[c] \notin Unusable => Chain(n, c) = Chain(e, c)
  BY LinkedChains
<1> HIDE DEF n
<1>. QED  BY <1>1, <1>2, <1>3 DEF Covered, n

LEMMA AppendedCovers ==
    ASSUME NEW e, NEW H, WellLinked(e, H), Covered(e, H), NEW nf \in Clusters,
           NEW A \in SUBSET FreeClusters(e), A # {},
           NEW h \in H, NEW last \in Chain(e, h), e[last] = END_OF_CHAIN_MARK
    PROVE  Covered(Appended(e, nf, A, last), H)
<1> DEFINE n == Linked(e, nf, A)
           a == Appended(e, nf, A, last)
<1>0. \A k \in H : k \in Clusters /\ e[k] \notin Unusable
  BY DEF WellLinked
<1>1. last \in Clusters
  BY <1>0, ChainLeast
<1> HIDE DEF a
<1>2. /\ \A c \in Clusters : e[c] \notin Unusable /\ last \in Chain(e, c) => Chain(a, c) = Chain(e, c) \cup A
      /\ \A c \in Clusters : e[c] \notin Unusable /\ last \notin Chain(e, c) => Chain(a, c) = Chain(e, c)
  BY <1>1, AppendedChains DEF a
<1>3. (\A k \in H : Chain(e, k) \subseteq Chain(a, k)) /\ A \subseteq Chain(a, h)
  BY <1>0, <1>2
<1>4. \A c \in Clusters \ A : c # last => a[c] = e[c]
  <2>1. \A c \in Clusters \ A : n[c] = e[c]
    BY DEF Linked
  <2>. QED  BY <2>1 DEF a, Appended, SetEntry, Linked
<1>5. e[last] \notin Unusable
  BY MarksApart DEF Unusable
<1>6. last \in Chain(a, h)
  BY <1>3
<1>. QED  BY <1>3, <1>4, <1>5, <1>6 DEF Covered, a

LEMMA FreedCovers ==
    ASSUME NEW e, NEW H, WellLinked(e, H), Covered(e, H), NEW h \in H
    PROVE  Covered(Freed(e, h), H \ {h})
<1> DEFINE f == Freed(e, h)
<1>1. \A c \in Clusters : f[c] = IF c \in Chain(e, h) THEN FREE ELSE e[c]
  BY DEF Freed
<1>2. ASSUME NEW k \in H, k # h
      PROVE  Chain(f, k) = Chain(e, k)
  <2>1. k \in Clusters /\ h \in Clusters /\ Chain(e, k) \cap Chain(e, h) = {}
    BY <1>2, ChainsDisjoint DEF WellLinked
  <2>. QED  BY <2>1, FreedChains, ChainLeast
<1>3. SUFFICES ASSUME NEW c \in Clusters, f[c] \notin Unusable
               PROVE  \E k \in H \ {h} : c \in Chain(f, k)
  BY DEF Covered
<1>4. c \notin Chain(e, h) /\ e[c] \notin Unusable
  BY <1>1, <1>3 DEF Unusable
<1> HIDE DEF f
<1>. QED  BY <1>2, <1>4 DEF Covered

\* A truncation leaves the chains of other roots as they were.
LEMMA CutOthers ==
    ASSUME NEW e, NEW H, WellLinked(e, H), NEW h \in H,
           NEW last \in Chain(e, h), e[last] \in Clusters, NEW k \in H, k # h
    PROVE  \A c \in Chain(e, k) : Chain(CutAfter(e, last), c) = Chain(e, c)
<1>1. k \in Clusters /\ h \in Clusters /\ Chain(e, k) \cap Chain(e, h) = {}
  BY ChainsDisjoint DEF WellLinked
<1>2. Chain(e, k) \in SUBSET Clusters
  BY <1>1, ChainLeast
<1>3. \A c \in Chain(e, k) : CutAfter(e, last)[c] = e[c]
  BY <1>1, <1>2, CutChains
<1>. QED  BY <1>1, <1>3, ChainKeptWhole

LEMMA CutCovers ==
    ASSUME NEW e, NEW H, WellLinked(e, H), Covered(e, H), NEW h \in H,
           NEW last \in Chain(e, h), e[last] \in Clusters
    PROVE  Covered(CutAfter(e, last), H)
<1> DEFINE n    == CutAfter(e, last)
           rest == Chain(e, e[last])
<1>1. /\ \A c \in Clusters : n[c] = IF c \in rest THEN FREE
                                    ELSE IF c = last THEN END_OF_CHAIN_MARK ELSE e[c]
      /\ h \notin rest
      /\ \A c \in Chain(e, h) \ rest : Chain(e, c) = Chain(n, c) \cup rest
  BY CutChains
<1>2. h \in Clusters /\ h \in Chain(e, h)
  BY ChainLeast DEF WellLinked
<1>3. Chain(e, h) = Chain(n, h) \cup rest
  BY <1>1, <1>2
<1>4. \A k \in H : k # h => Chain(n, k) = Chain(e, k)
  BY CutOthers, ChainLeast DEF WellLinked
<1> HIDE DEF n, rest
<1>5. ASSUME NEW c \in Clusters, n[c] \notin Unusable
      PROVE  \E k \in H : c \in Chain(n, k)
  <2>1. c \notin rest /\ e[c] \notin Unusable
    BY <1>1, <1>5, MarksApart DEF Unusable
  <2>2. PICK k \in H : c \in Chain(e, k)
    BY <2>1 DEF Covered
  <2>. QED  BY <1>3, <1>4, <2>1, <2>2
<1>. QED  BY <1>5 DEF Covered, n

-----------------------------------------------------------------------------
(***************************************************************************)
(* Places: an append and a truncation move no cluster within its chain.    *)
(***************************************************************************)

LEMMA AppendedPlaces ==
    ASSUME NEW e, NEW H, WellLinked(e, H), NEW nf \in Clusters,
           NEW A \in SUBSET FreeClusters(e), A # {},
           NEW h \in H, NEW last \in Chain(e, h), e[last] = END_OF_CHAIN_MARK
    PROVE  LET a == Appended(e, nf, A, last)
           IN  /\ Chain(a, h) = Chain(e, h) \cup A
               /\ ChainLength(a, h) = ChainLength(e, h) + Cardinality(A)
               /\ \A c \in Chain(e, h) : PlaceIn(a, h, c) = PlaceIn(e, h, c)
               /\ \A c \in A : PlaceIn(a, h, c) >= ChainLength(e, h)
<1> DEFINE a == Appended(e, nf, A, last)
<1>1. h \in Clusters /\ e[h] \notin Unusable /\ LinksToUsed(e)
  BY DEF WellLinked
<1>2. /\ Chain(e, h) \in SUBSET Clusters /\ h \in Chain(e, h) /\ last \in Clusters
      /\ A \in SUBSET Clusters /\ \A c \in Chain(e, h) : e[c] \notin Unusable
  BY <1>1, ChainLeast, ChainUsed DEF FreeClusters
<1> HIDE DEF a
<1>3. ASSUME NEW c \in Chain(e, h)
      PROVE  /\ Chain(a, c) = Chain(e, c) \cup A
             /\ Chain(e, c) \cap A = {} /\ Chain(e, c) \in SUBSET Clusters
  <2>1. c \in Clusters /\ c \in Chain(e, c) /\ Chain(e, c) \in SUBSET Clusters
        /\ e[c] \notin Unusable
    BY <1>2, ChainLeast
  <2>2. last \in Chain(e, c)
    <3>1. Chain(e, last) = {last}
      BY <1>2, MarksApart, ChainUnfolds
    <3>2. last \in Chain(e, c) \/ c \in Chain(e, last)
      BY <1>1, ChainIsOrdered
    <3>. QED  BY <2>1, <3>1, <3>2
  <2>. QED  BY <1>2, <2>1, <2>2, AppendedChains DEF a
<1>4. ChainLength(a, h) = ChainLength(e, h) + Cardinality(A)
  BY <1>2, <1>3, MoreFree DEF ChainLength
<1>5. ASSUME NEW c \in Chain(e, h)
      PROVE  PlaceIn(a, h, c) = PlaceIn(e, h, c)
  <2>1. ChainLength(a, c) = ChainLength(e, c) + Cardinality(A)
    BY <1>2, <1>3, MoreFree DEF ChainLength
  <2>2. /\ ChainLength(e, h) \in Nat /\ ChainLength(e, c) \in Nat /\ Cardinality(A) \in Nat
    BY <1>2, <1>3, SomeClusters DEF ChainLength
  <2>. QED  BY <1>4, <2>1, <2>2 DEF PlaceIn
<1>6. ASSUME NEW c \in A
      PROVE  PlaceIn(a, h, c) >= ChainLength(e, h)
  <2>1. Closed(a, A)
    <3>1. last \notin A /\ \A d \in A : Linked(e, nf, A)[d] \in A \cup {END_OF_CHAIN_MARK}
      BY <1>2, LinkedWell, MarksApart DEF FreeClusters
    <3>. QED  BY <1>2, <3>1, MarksApart DEF Closed, a, Appended, SetEntry, Linked
  <2>2. Chain(a, c) \subseteq A
    BY <1>2, <2>1, ChainLeast
  <2>3. /\ Cardinality(Chain(a, c)) <= Cardinality(A) /\ Cardinality(Chain(a, c)) \in Nat
        /\ Cardinality(A) \in Nat /\ ChainLength(e, h) \in Nat
    BY <1>2, <2>2, SomeClusters, FS_Subset DEF ChainLength
  <2>. QED  BY <1>4, <2>3 DEF PlaceIn, ChainLength
<1>7. Chain(a, h) = Chain(e, h) \cup A
  BY <1>2, <1>3
<1>. QED  BY <1>4, <1>5, <1>6, <1>7 DEF a

LEMMA CutPlaces ==
    ASSUME NEW e, NEW H, WellLinked(e, H), NEW h \in H,
           NEW last \in Chain(e, h), e[last] \in Clusters
    PROVE  LET n == CutAfter(e, last)
           IN  /\ Chain(n, h) \subseteq Chain(e, h)
               /\ \A c \in Chain(n, h) : PlaceIn(n, h, c) = PlaceIn(e, h, c)
<1> DEFINE n    == CutAfter(e, last)
           rest == Chain(e, e[last])
<1>1. /\ h \notin rest
      /\ \A c \in Chain(e, h) \ rest :
            Chain(e, c) = Chain(n, c) \cup rest /\ Chain(n, c) \cap rest = {}
  BY CutChains
<1>2. h \in Chain(e, h) /\ rest \in SUBSET Clusters /\ \A c : Chain(n, c) \in SUBSET Clusters
  BY ChainLeast DEF WellLinked, Chain
<1> HIDE DEF n, rest
<1>3. Chain(e, h) = Chain(n, h) \cup rest /\ Chain(n, h) \cap rest = {}
  BY <1>1, <1>2
<1>4. ASSUME NEW c \in Chain(n, h)
      PROVE  PlaceIn(n, h, c) = PlaceIn(e, h, c)
  <2>1. Chain(e, c) = Chain(n, c) \cup rest /\ Chain(n, c) \cap rest = {}
    BY <1>1, <1>3, <1>4
  <2>2. /\ Cardinality(Chain(e, h)) = Cardinality(Chain(n, h)) + Cardinality(rest)
        /\ Cardinality(Chain(e, c)) = Cardinality(Chain(n, c)) + Cardinality(rest)
    BY <1>2, <1>3, <2>1, MoreFree
  <2>3. /\ Cardinality(rest) \in Nat /\ Cardinality(Chain(n, h)) \in Nat
        /\ Cardinality(Chain(n, c)) \in Nat
    BY <1>2, SomeClusters
  <2>. QED  BY <2>2, <2>3 DEF PlaceIn, ChainLength
<1>. QED  BY <1>3, <1>4 DEF n

-----------------------------------------------------------------------------
(***************************************************************************)
(* Every operation leaves a table, well linked or not.                     *)
(***************************************************************************)

LEMMA LinkedType ==
    ASSUME NEW e \in Tables, NEW nf \in Clusters, NEW A \in SUBSET Clusters
    PROVE  Linked(e, nf, A) \in Tables
<1> DEFINE n        == Linked(e, nf, A)
           later(c) == {d \in A : SearchKey(nf, c) < SearchKey(nf, d)}
<1>1. n = [c \in Clusters |-> n[c]]
  BY DEF Linked
<1>2. ASSUME NEW c \in Clusters PROVE n[c] \in EntryValues
  <2>1. CASE c \notin A
    BY <2>1 DEF Linked, Tables
  <2>2. CASE c \in A /\ later(c) = {}
    BY <2>2 DEF Linked, EntryValues
  <2>3. CASE c \in A /\ later(c) # {}
    <3>1. n[c] = FirstFound(nf, later(c))
      BY <2>3 DEF Linked
    <3>2. later(c) \in SUBSET Clusters
      OBVIOUS
    <3> HIDE DEF later
    <3>. QED  BY <2>3, <3>1, <3>2, FirstFoundExists DEF EntryValues
  <2>. QED  BY <2>1, <2>2, <2>3
<1> HIDE DEF n
<1>. QED  BY <1>1, <1>2 DEF Tables, n

LEMMA AppendedType ==
    ASSUME NEW e \in Tables, NEW nf \in Clusters, NEW A \in SUBSET Clusters, A # {}, NEW last
    PROVE  Appended(e, nf, A, last) \in Tables
<1>1. FirstFound(nf, A) \in EntryValues
  BY FirstFoundExists DEF EntryValues
<1>2. Linked(e, nf, A) \in Tables
  BY LinkedType
<1>. QED  BY <1>1, <1>2 DEF Appended, SetEntry, Tables

LEMMA FreedType ==
    ASSUME NEW e \in Tables, NEW h
    PROVE  Freed(e, h) \in Tables
BY DEF Freed, Tables, EntryValues

LEMMA CutAfterType ==
    ASSUME NEW e \in Tables, NEW last
    PROVE  CutAfter(e, last) \in Tables
<1>1. SetEntry(e, last, END_OF_CHAIN_MARK) \in Tables
  BY DEF SetEntry, Tables, EntryValues
<1>. QED  BY <1>1, FreedType DEF CutAfter
=============================================================================
