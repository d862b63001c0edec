--------------------------- MODULE FatTableProofs ---------------------------
(***************************************************************************)
(* The table's safety for every volume.  The inductive invariant adds to   *)
(* the properties of FatTable that links are one-to-one and lead only to   *)
(* allocated clusters, and that nothing links to a held head: without it   *)
(* two disjoint chains could grow into each other in one step.  HInv adds  *)
(* that the held chains cover what is allocated: no operation leaks a      *)
(* cluster, none touches the links of two chains, and none moves a cluster *)
(* within its chain.                                                       *)
(***************************************************************************)
EXTENDS FatTable, TableProofs

IInv ==
    /\ WellLinked(entries, heads)
    /\ nextFree \in Clusters
    /\ FreeCountExact

-----------------------------------------------------------------------------

LEMMA InitIInv == Init => IInv
<1> SUFFICES ASSUME Init PROVE IInv
  OBVIOUS
<1>1. \A c \in Clusters : entries[c] \in Unusable
  BY DEF Init, Unusable
<1>2. entries \in Tables
  BY DEF Init, Tables, EntryValues
<1>3. WellLinked(entries, heads)
  BY <1>1, <1>2, MarksApart DEF Init, WellLinked, LinksInjective, LinksToUsed, Unusable
<1>. QED  BY <1>3, MarksApart DEF Init, IInv, FreeCountExact

LEMMA AllocateKeeps ==
    ASSUME IInv, NEW count \in 1 .. ClusterCount, Allocate(count)
    PROVE  IInv'
<1> DEFINE got == Chosen(entries, nextFree, count)
<1>1. /\ WellLinked(entries, heads) /\ entries \in Tables /\ nextFree \in Clusters
      /\ freeCount = Cardinality(FreeClusters(entries)) /\ count \in Nat \ {0}
      /\ count <= Cardinality(FreeClusters(entries))
  BY TableAssumption DEF IInv, WellLinked, FreeCountExact, Allocate
<1>2. got \in SUBSET FreeClusters(entries) /\ got # {} /\ got \in SUBSET Clusters
  BY <1>1, ChosenFree DEF FreeClusters
<1>3. /\ entries' = Linked(entries, nextFree, got)
      /\ nextFree' = HintAfter(nextFree, got)
      /\ freeCount' = freeCount - Cardinality(got)
      /\ heads' = heads \cup {FirstFound(nextFree, got)}
  BY DEF Allocate
<1>4. WellLinked(entries', heads')
  BY <1>1, <1>2, <1>3, LinkedWell
<1>5. FreeClusters(entries') = FreeClusters(entries) \ got
  BY <1>1, <1>2, <1>3, LinkedWell
<1>6. freeCount' = Cardinality(FreeClusters(entries'))
  BY <1>1, <1>2, <1>3, <1>5, FewerFree
<1>7. nextFree' \in Clusters
  BY <1>1, <1>2, <1>3, HintAfterType
<1>. QED  BY <1>4, <1>6, <1>7 DEF IInv, FreeCountExact

LEMMA AppendKeeps ==
    ASSUME IInv, NEW h \in heads, NEW count \in 1 .. ClusterCount, Append(h, count)
    PROVE  IInv'
<1> DEFINE got  == Chosen(entries, nextFree, count)
           last == LastOf(entries, h)
<1>1. /\ WellLinked(entries, heads) /\ entries \in Tables /\ nextFree \in Clusters
      /\ freeCount = Cardinality(FreeClusters(entries)) /\ count \in Nat \ {0}
      /\ count <= Cardinality(FreeClusters(entries))
  BY TableAssumption DEF IInv, WellLinked, FreeCountExact, Append
<1>2. got \in SUBSET FreeClusters(entries) /\ got # {} /\ got \in SUBSET Clusters
  BY <1>1, ChosenFree DEF FreeClusters
<1>3. last \in Clusters /\ entries[last] = END_OF_CHAIN_MARK
  BY LastCarriesMark DEF Append
<1>4. /\ entries' = Appended(entries, nextFree, got, last)
      /\ nextFree' = HintAfter(nextFree, got)
      /\ freeCount' = freeCount - Cardinality(got)
      /\ heads' = heads
  BY DEF Append
<1>5. WellLinked(entries', heads') /\ FreeClusters(entries') = FreeClusters(entries) \ got
  BY <1>1, <1>2, <1>3, <1>4, AppendedWell
<1>6. freeCount' = Cardinality(FreeClusters(entries'))
  BY <1>1, <1>2, <1>4, <1>5, FewerFree
<1>7. nextFree' \in Clusters
  BY <1>1, <1>2, <1>4, HintAfterType
<1>. QED  BY <1>5, <1>6, <1>7 DEF IInv, FreeCountExact

LEMMA FreeChainKeeps ==
    ASSUME IInv, NEW h \in heads, FreeChain(h)
    PROVE  IInv'
<1>1. /\ WellLinked(entries, heads) /\ nextFree \in Clusters /\ h \in Clusters
      /\ freeCount = Cardinality(FreeClusters(entries))
      /\ entries[h] \notin Unusable /\ Unlinked(entries, h)
  BY DEF IInv, WellLinked, FreeCountExact
<1>2. /\ entries' = Freed(entries, h)
      /\ nextFree' = HintAfterFree(entries, h, nextFree)
      /\ freeCount' = freeCount + Cardinality(Chain(entries, h))
      /\ heads' = heads \ {h}
  BY DEF FreeChain, ChainLength
<1>3. /\ WellLinked(entries', heads')
      /\ FreeClusters(entries') = FreeClusters(entries) \cup Chain(entries, h)
      /\ FreeClusters(entries) \cap Chain(entries, h) = {}
  BY <1>1, <1>2, FreedWell
<1>4. FreeClusters(entries) \in SUBSET Clusters /\ Chain(entries, h) \in SUBSET Clusters
  BY DEF FreeClusters, Chain
<1>5. freeCount' = Cardinality(FreeClusters(entries'))
  BY <1>1, <1>2, <1>3, <1>4, MoreFree
<1>6. nextFree' \in Clusters
  BY <1>1, <1>2, HintAfterFreeType
<1>. QED  BY <1>3, <1>5, <1>6 DEF IInv, FreeCountExact

LEMMA TruncateChainKeeps ==
    ASSUME IInv, NEW h \in heads, NEW keep \in 1 .. ClusterCount, TruncateChain(h, keep)
    PROVE  IInv'
<1>1. /\ WellLinked(entries, heads) /\ entries \in Tables /\ nextFree \in Clusters
      /\ h \in Clusters /\ freeCount = Cardinality(FreeClusters(entries))
  BY DEF IInv, WellLinked, FreeCountExact
<1>2. PICK last \in Chain(entries, h) :
        /\ PlaceIn(entries, h, last) = keep - 1
        /\ LET ended == SetEntry(entries, last, END_OF_CHAIN_MARK)
           IN  /\ entries' = CutAfter(entries, last)
               /\ nextFree' = HintAfterFree(ended, entries[last], nextFree)
               /\ freeCount' = freeCount + ChainLength(ended, entries[last])
  BY DEF TruncateChain
<1> DEFINE ended == SetEntry(entries, last, END_OF_CHAIN_MARK)
           tail  == entries[last]
<1>3. keep < ChainLength(entries, h) /\ heads' = heads /\ WalkSucceeds(entries, h)
  BY DEF TruncateChain
<1>4. last \in Clusters
  BY DEF Chain
<1>5. tail \in Clusters
  BY <1>1, <1>2, <1>3, CutBeforeEnd
<1>6. /\ WellLinked(entries', heads')
      /\ FreeClusters(entries') = FreeClusters(entries) \cup Chain(ended, tail)
      /\ FreeClusters(entries) \cap Chain(ended, tail) = {}
  BY <1>1, <1>2, <1>3, <1>4, <1>5, CutAfterWell
<1>7. FreeClusters(entries) \in SUBSET Clusters /\ Chain(ended, tail) \in SUBSET Clusters
  BY DEF FreeClusters, Chain
<1>8. freeCount' = Cardinality(FreeClusters(entries'))
  BY <1>1, <1>2, <1>6, <1>7, MoreFree DEF ChainLength
<1>9. nextFree' \in Clusters
  BY <1>1, <1>2, <1>5, HintAfterFreeType
<1>. QED  BY <1>6, <1>8, <1>9 DEF IInv, FreeCountExact

LEMMA ReloadKeeps == IInv /\ Reload => IInv'
BY MarksApart DEF IInv, Reload, FreeCountExact, WellLinked

\* The invariant is inductive.
LEMMA NextIInv == IInv /\ [Next]_vars => IInv'
<1> SUFFICES ASSUME IInv, [Next]_vars PROVE IInv'
  OBVIOUS
<1>1. ASSUME NEW count \in 1 .. ClusterCount, Allocate(count) PROVE IInv'
  BY <1>1, AllocateKeeps
<1>2. ASSUME NEW h \in heads, NEW count \in 1 .. ClusterCount, Append(h, count) PROVE IInv'
  BY <1>2, AppendKeeps
<1>3. ASSUME NEW h \in heads, FreeChain(h) PROVE IInv'
  BY <1>3, FreeChainKeeps
<1>4. ASSUME NEW h \in heads, NEW keep \in 1 .. ClusterCount, TruncateChain(h, keep)
      PROVE  IInv'
  BY <1>4, TruncateChainKeeps
<1>5. CASE Reload
  BY <1>5, ReloadKeeps
<1>6. CASE UNCHANGED vars
  BY <1>6 DEF vars, IInv, FreeCountExact
<1>. QED  BY <1>1, <1>2, <1>3, <1>4, <1>5, <1>6 DEF Next

THEOREM Invariance == Spec => []IInv
BY InitIInv, NextIInv, PTL DEF Spec

-----------------------------------------------------------------------------

\* Every value stays in its type: in particular the hint never leaves the
\* volume, and the free count never wraps below zero.
THEOREM TypeCorrect == Spec => []TypeOK
<1>1. IInv => TypeOK
  <2> SUFFICES ASSUME IInv PROVE TypeOK
    OBVIOUS
  <2>1. FreeClusters(entries) \in SUBSET Clusters
    BY DEF FreeClusters
  <2>2. freeCount \in 0 .. ClusterCount
    BY <2>1, SomeClusters, TableAssumption DEF IInv, FreeCountExact
  <2>. QED  BY <2>2 DEF IInv, WellLinked, TypeOK
<1>. QED  BY <1>1, Invariance, PTL

\* The count maintained entry by entry is the number of free clusters.
THEOREM CountExact == Spec => []FreeCountExact
<1>1. IInv => FreeCountExact
  BY DEF IInv
<1>. QED  BY <1>1, Invariance, PTL

\* No cluster is on two held chains, however the calls interleave.
THEOREM NothingShared == Spec => []NoSharedClusters
<1>1. IInv => NoSharedClusters
  <2> SUFFICES ASSUME IInv, NEW h \in heads, NEW k \in heads, h # k
               PROVE  Chain(entries, h) \cap Chain(entries, k) = {}
    BY DEF NoSharedClusters
  <2>. QED  BY ChainsDisjoint DEF IInv, WellLinked
<1>. QED  BY <1>1, Invariance, PTL

\* Every held chain can be walked to its mark: none runs into free space, a
\* bad cluster or itself.
THEOREM NothingDangles == Spec => []ChainsComplete
<1>1. IInv => ChainsComplete
  BY WalkReachesEnd DEF IInv, ChainsComplete
<1>. QED  BY <1>1, Invariance, PTL

-----------------------------------------------------------------------------
(***************************************************************************)
(* Each operation keeps what is allocated on the held chains.              *)
(***************************************************************************)

HInv == IInv /\ Covered(entries, heads)

\* What an allocation may take.
LEMMA Taking ==
    ASSUME IInv, NEW count \in 1 .. ClusterCount, count <= freeCount
    PROVE  LET got == Chosen(entries, nextFree, count)
           IN  got \in SUBSET FreeClusters(entries) /\ got # {}
<1>1. /\ entries \in Tables /\ nextFree \in Clusters
      /\ count \in Nat \ {0} /\ count <= Cardinality(FreeClusters(entries))
  BY TableAssumption DEF IInv, WellLinked, FreeCountExact
<1>. QED  BY <1>1, ChosenFree

LEMMA AllocateCovers ==
    ASSUME HInv, NEW count \in 1 .. ClusterCount, Allocate(count)
    PROVE  Covered(entries, heads)'
<1>1. count <= freeCount
  BY SomeClusters, TableAssumption DEF Allocate, HInv, IInv, FreeCountExact, FreeClusters
<1>. QED  BY <1>1, Taking, LinkedCovers DEF HInv, IInv, Allocate

LEMMA AppendCovers ==
    ASSUME HInv, NEW h \in heads, NEW count \in 1 .. ClusterCount, Append(h, count)
    PROVE  Covered(entries, heads)'
<1>1. count <= freeCount
  BY SomeClusters, TableAssumption DEF Append, HInv, IInv, FreeCountExact, FreeClusters
<1>2. LastOf(entries, h) \in Chain(entries, h) /\ entries[LastOf(entries, h)] = END_OF_CHAIN_MARK
  BY LastCarriesMark DEF Append
<1>. QED  BY <1>1, <1>2, Taking, AppendedCovers DEF HInv, IInv, Append

LEMMA FreeChainCovers ==
    ASSUME HInv, NEW h \in heads, FreeChain(h)
    PROVE  Covered(entries, heads)'
BY FreedCovers DEF HInv, IInv, FreeChain

\* A truncation cuts at a cluster of the chain that links on.
LEMMA TruncateChainCuts ==
    ASSUME IInv, NEW h \in heads, NEW keep \in 1 .. ClusterCount, TruncateChain(h, keep)
    PROVE  \E last \in Chain(entries, h) :
              entries[last] \in Clusters /\ entries' = CutAfter(entries, last)
<1>1. PICK last \in Chain(entries, h) :
        PlaceIn(entries, h, last) = keep - 1 /\ entries' = CutAfter(entries, last)
  BY DEF TruncateChain
<1>2. h \in Clusters /\ keep < ChainLength(entries, h) /\ keep \in Nat
  BY DEF IInv, WellLinked, TruncateChain
<1>3. entries[last] \in Clusters
  BY <1>1, <1>2, CutBeforeEnd
<1>. QED  BY <1>1, <1>3

LEMMA TruncateChainCovers ==
    ASSUME HInv, NEW h \in heads, NEW keep \in 1 .. ClusterCount, TruncateChain(h, keep)
    PROVE  Covered(entries, heads)'
<1>1. heads' = heads
  BY DEF TruncateChain
<1>. QED  BY <1>1, TruncateChainCuts, CutCovers DEF HInv, IInv

\* The strengthened invariant is inductive.
LEMMA NextHInv == HInv /\ [Next]_vars => HInv'
<1> SUFFICES ASSUME HInv, [Next]_vars PROVE Covered(entries, heads)'
  BY NextIInv DEF HInv
<1>1. ASSUME NEW count \in 1 .. ClusterCount, Allocate(count) PROVE Covered(entries, heads)'
  BY <1>1, AllocateCovers
<1>2. ASSUME NEW h \in heads, NEW count \in 1 .. ClusterCount, Append(h, count)
      PROVE  Covered(entries, heads)'
  BY <1>2, AppendCovers
<1>3. ASSUME NEW h \in heads, FreeChain(h) PROVE Covered(entries, heads)'
  BY <1>3, FreeChainCovers
<1>4. ASSUME NEW h \in heads, NEW keep \in 1 .. ClusterCount, TruncateChain(h, keep)
      PROVE  Covered(entries, heads)'
  BY <1>4, TruncateChainCovers
<1>5. CASE Reload
  BY <1>5 DEF Reload, HInv
<1>6. CASE UNCHANGED vars
  BY <1>6 DEF vars, HInv
<1>. QED  BY <1>1, <1>2, <1>3, <1>4, <1>5, <1>6 DEF Next

THEOREM HeldInvariance == Spec => []HInv
<1>1. Init => HInv
  BY InitIInv DEF Init, HInv, Covered, Unusable
<1>. QED  BY <1>1, NextHInv, PTL DEF Spec

-----------------------------------------------------------------------------

\* No operation leaks: what is allocated is what the held chains have.
THEOREM NothingLeaks == Spec => []UsedIsHeld
<1>1. HInv => UsedIsHeld
  <2> SUFFICES ASSUME HInv PROVE UsedIsHeld
    OBVIOUS
  <2>1. ASSUME NEW h \in heads, NEW c \in Chain(entries, h)
        PROVE  c \in Clusters /\ entries[c] \notin Unusable
    <3>1. h \in Clusters
      BY DEF HInv, IInv, WellLinked
    <3>2. c \in Clusters
      BY <3>1, ChainLeast
    <3>3. entries[c] \notin Unusable
      BY <3>1, ChainUsed DEF HInv, IInv, WellLinked
    <3>. QED  BY <3>2, <3>3
  <2>. QED  BY <2>1 DEF HInv, Covered, UsedIsHeld, Unusable
<1>. QED  BY <1>1, HeldInvariance, PTL

-----------------------------------------------------------------------------
(***************************************************************************)
(* What a step leaves of the held chains.                                  *)
(***************************************************************************)

\* A step changes what was free and what is on the chain of k, no more.
OnlyOn(k) == \A c \in Clusters : entries'[c] # entries[c] => entries[c] = FREE \/ c \in Chain(entries, k)

LEMMA AllocateOnlyFree ==
    ASSUME HInv, NEW count \in 1 .. ClusterCount, Allocate(count)
    PROVE  \A c \in Clusters : entries'[c] # entries[c] => entries[c] = FREE
<1> DEFINE got == Chosen(entries, nextFree, count)
<1>1. entries' = Linked(entries, nextFree, got)
  BY DEF Allocate
<1>2. count <= freeCount
  BY SomeClusters, TableAssumption DEF Allocate, HInv, IInv, FreeCountExact, FreeClusters
<1>3. \A c \in got : entries[c] = FREE
  BY <1>2, Taking DEF HInv, FreeClusters
<1> HIDE DEF got
<1>. QED  BY <1>1, <1>3 DEF Linked

\* An append takes free clusters and links them behind the chain's mark.
LEMMA AppendTakes ==
    ASSUME HInv, NEW h \in heads, NEW count \in 1 .. ClusterCount, Append(h, count)
    PROVE  \E got \in SUBSET FreeClusters(entries), last \in Chain(entries, h) :
              /\ got # {} /\ entries[last] = END_OF_CHAIN_MARK
              /\ entries' = Appended(entries, nextFree, got, last)
<1>1. count <= freeCount
  BY SomeClusters, TableAssumption DEF Append, HInv, IInv, FreeCountExact, FreeClusters
<1>2. LastOf(entries, h) \in Chain(entries, h) /\ entries[LastOf(entries, h)] = END_OF_CHAIN_MARK
  BY LastCarriesMark DEF Append
<1>. QED  BY <1>1, <1>2, Taking DEF HInv, Append

LEMMA AppendOnOne ==
    ASSUME HInv, NEW h \in heads, NEW count \in 1 .. ClusterCount, Append(h, count)
    PROVE  OnlyOn(h)
<1>1. PICK got \in SUBSET FreeClusters(entries), last \in Chain(entries, h) :
        entries' = Appended(entries, nextFree, got, last)
  BY AppendTakes
<1>2. \A c \in got : entries[c] = FREE
  BY DEF FreeClusters
<1>. QED  BY <1>1, <1>2 DEF OnlyOn, Appended, SetEntry, Linked

LEMMA FreeChainOnOne ==
    ASSUME HInv, NEW h \in heads, FreeChain(h)
    PROVE  OnlyOn(h)
BY DEF FreeChain, Freed, OnlyOn

LEMMA TruncateChainOnOne ==
    ASSUME HInv, NEW h \in heads, NEW keep \in 1 .. ClusterCount, TruncateChain(h, keep)
    PROVE  OnlyOn(h)
<1>1. PICK last \in Chain(entries, h) :
        entries[last] \in Clusters /\ entries' = CutAfter(entries, last)
  BY TruncateChainCuts DEF HInv
<1>2. /\ Chain(entries, entries[last]) \subseteq Chain(entries, h)
      /\ \A c \in Clusters : c # last /\ c \notin Chain(entries, entries[last])
                                => entries'[c] = entries[c]
  BY <1>1, CutChains DEF HInv, IInv
<1>. QED  BY <1>2 DEF OnlyOn

\* The entries of the other held chains stay as they were.
LEMMA OthersKept ==
    ASSUME HInv, NEW k \in heads, OnlyOn(k), NEW h \in heads, h # k
    PROVE  \A c \in Chain(entries, h) : entries'[c] = entries[c]
<1>1. h \in Clusters /\ k \in Clusters /\ Chain(entries, h) \in SUBSET Clusters
  BY ChainLeast DEF HInv, IInv, WellLinked
<1>2. Chain(entries, h) \cap Chain(entries, k) = {}
  BY ChainsDisjoint DEF HInv, IInv, WellLinked
<1>3. \A c \in Chain(entries, h) : entries[c] # FREE
  BY <1>1, ChainUsed DEF HInv, IInv, WellLinked, Unusable
<1>. QED  BY <1>1, <1>2, <1>3 DEF OnlyOn

\* What a step of the table may do to the chain of h.
InPlace(h) ==
    /\ \/ Chain(entries, h) \subseteq Chain(entries', h)
       \/ Chain(entries', h) \subseteq Chain(entries, h)
    /\ \A c \in Chain(entries, h) \cap Chain(entries', h) :
          PlaceIn(entries, h, c) = ChainLength(entries', h) - ChainLength(entries', c)

\* A chain none of whose entries changes keeps its clusters in place.
LEMMA KeptInPlace ==
    ASSUME NEW h \in Clusters, \A c \in Chain(entries, h) : entries'[c] = entries[c]
    PROVE  InPlace(h)
<1>1. Chain(entries', h) = Chain(entries, h)
  BY ChainKept
<1>2. ASSUME NEW c \in Chain(entries, h)
      PROVE  Chain(entries', c) = Chain(entries, c)
  <2>1. c \in Clusters /\ Chain(entries, c) \subseteq Chain(entries, h)
    BY ChainLeast, ChainWithin
  <2>. QED  BY <2>1, ChainKept
<1>. QED  BY <1>1, <1>2 DEF InPlace, PlaceIn, ChainLength

\* An append puts what it takes behind every cluster of the chain.
LEMMA AppendInPlace ==
    ASSUME HInv, NEW h \in heads, NEW count \in 1 .. ClusterCount, Append(h, count)
    PROVE  InPlace(h)
<1>1. PICK got \in SUBSET FreeClusters(entries), last \in Chain(entries, h) :
        /\ got # {} /\ entries[last] = END_OF_CHAIN_MARK
        /\ entries' = Appended(entries, nextFree, got, last)
  BY AppendTakes
<1>2. WellLinked(entries, heads) /\ nextFree \in Clusters
  BY DEF HInv, IInv
<1> DEFINE a == Appended(entries, nextFree, got, last)
<1>3. /\ Chain(a, h) = Chain(entries, h) \cup got
      /\ \A c \in Chain(entries, h) : PlaceIn(a, h, c) = PlaceIn(entries, h, c)
  BY <1>1, <1>2, AppendedPlaces
<1>. QED  BY <1>1, <1>3 DEF InPlace, PlaceIn

\* A truncation takes what it cuts from behind every cluster it leaves.
LEMMA TruncateChainInPlace ==
    ASSUME HInv, NEW h \in heads, NEW keep \in 1 .. ClusterCount, TruncateChain(h, keep)
    PROVE  InPlace(h)
<1>1. PICK last \in Chain(entries, h) :
        entries[last] \in Clusters /\ entries' = CutAfter(entries, last)
  BY TruncateChainCuts DEF HInv
<1>2. /\ Chain(entries', h) \subseteq Chain(entries, h)
      /\ \A c \in Chain(entries', h) : PlaceIn(entries', h, c) = PlaceIn(entries, h, c)
  BY <1>1, CutPlaces DEF HInv, IInv
<1>. QED  BY <1>2 DEF InPlace, PlaceIn

-----------------------------------------------------------------------------
(***************************************************************************)
(* The action properties.                                                  *)
(***************************************************************************)

\* No operation changes the links of two held chains.
THEOREM OneChainOnly == Spec => OneChainPerCall
<1> DEFINE Changed(h) == \E c \in Chain(entries, h) : entries'[c] # entries[c]
           Step       == \A h, k \in heads : Changed(h) /\ Changed(k) => h = k
<1>1. ASSUME HInv, NEW j \in heads, OnlyOn(j)
      PROVE  Step
  BY <1>1, OthersKept
<1>2. HInv /\ [Next]_vars => Step
  <2> SUFFICES ASSUME HInv, [Next]_vars, NEW j \in heads PROVE Step
    OBVIOUS
  <2> HIDE DEF Step
  <2>1. ASSUME NEW count \in 1 .. ClusterCount, Allocate(count) PROVE Step
    BY <1>1, <2>1, AllocateOnlyFree DEF OnlyOn
  <2>2. ASSUME NEW h \in heads, NEW count \in 1 .. ClusterCount, Append(h, count) PROVE Step
    BY <1>1, <2>2, AppendOnOne
  <2>3. ASSUME NEW h \in heads, FreeChain(h) PROVE Step
    BY <1>1, <2>3, FreeChainOnOne
  <2>4. ASSUME NEW h \in heads, NEW keep \in 1 .. ClusterCount, TruncateChain(h, keep) PROVE Step
    BY <1>1, <2>4, TruncateChainOnOne
  <2>5. CASE UNCHANGED entries
    BY <2>5 DEF Step
  <2>. QED  BY <2>1, <2>2, <2>3, <2>4, <2>5 DEF Next, Reload, vars
<1>3. HInv /\ [Next]_vars => [Step]_vars
  BY <1>2
<1>. QED  BY <1>3, HeldInvariance, PTL DEF Spec, OneChainPerCall

\* No operation moves a cluster of a chain within it: an append adds behind
\* the old end, a truncation cuts from the end.
THEOREM PrefixIsKept == Spec => PrefixKept
<1> DEFINE Step == \A h \in heads \cap heads' :
                      LET before == Chain(entries, h)
                          after  == Chain(entries', h)
                      IN  /\ before \subseteq after \/ after \subseteq before
                          /\ \A c \in before \cap after :
                                PlaceIn(entries, h, c) = ChainLength(entries', h) - ChainLength(entries', c)
<1>1. HInv /\ [Next]_vars => Step
  <2> SUFFICES ASSUME HInv, [Next]_vars, NEW h \in heads, h \in heads'
               PROVE  InPlace(h)
    BY DEF InPlace
  <2>1. h \in Clusters
    BY DEF HInv, IInv, WellLinked
  <2>2. ASSUME NEW k \in heads, OnlyOn(k), k # h
        PROVE  InPlace(h)
    BY <2>1, <2>2, OthersKept, KeptInPlace
  <2>3. ASSUME NEW count \in 1 .. ClusterCount, Allocate(count) PROVE InPlace(h)
    <3>1. \A c \in Chain(entries, h) : entries[c] # FREE
      BY ChainUsed DEF HInv, IInv, WellLinked, Unusable
    <3>2. \A c \in Chain(entries, h) : entries'[c] = entries[c]
      <4>1. \A c \in Clusters : entries'[c] # entries[c] => entries[c] = FREE
        BY <2>3, AllocateOnlyFree
      <4>. QED  BY <2>1, <3>1, <4>1, ChainLeast
    <3>. QED  BY <2>1, <3>2, KeptInPlace
  <2>4. ASSUME NEW k \in heads, NEW count \in 1 .. ClusterCount, Append(k, count)
        PROVE  InPlace(h)
    BY <2>2, <2>4, AppendOnOne, AppendInPlace
  <2>5. ASSUME NEW k \in heads, FreeChain(k) PROVE InPlace(h)
    <3>1. k # h
      BY <2>5 DEF FreeChain
    <3>. QED  BY <2>2, <2>5, <3>1, FreeChainOnOne
  <2>6. ASSUME NEW k \in heads, NEW keep \in 1 .. ClusterCount, TruncateChain(k, keep)
        PROVE  InPlace(h)
    BY <2>2, <2>6, TruncateChainOnOne, TruncateChainInPlace
  <2>7. CASE UNCHANGED entries
    BY <2>1, <2>7, KeptInPlace
  <2>. QED  BY <2>3, <2>4, <2>5, <2>6, <2>7 DEF Next, Reload, vars
<1>2. HInv /\ [Next]_vars => [Step]_vars
  BY <1>1
<1>. QED  BY <1>2, HeldInvariance, PTL DEF Spec, PrefixKept
=============================================================================
