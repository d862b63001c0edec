------------------------------- MODULE Table -------------------------------
(***************************************************************************)
(* The resident allocation table of src/src/fat.rs as pure operators: how  *)
(* a chain is walked, which clusters an allocation takes, and what each    *)
(* table operation leaves behind.  Entries hold their masked value; every  *)
(* end-of-chain value is END_OF_CHAIN_MARK and every value outside the     *)
(* volume is BAD_CLUSTER, which is how `runs` and `next` read them.        *)
(*                                                                         *)
(* Nothing here is RECURSIVE: a chain is the least set closed under the    *)
(* links, so the proofs can reason about it without induction.             *)
(***************************************************************************)
EXTENDS Integers, FiniteSets

CONSTANTS ClusterCount,      \* clusters on the volume, boot.cluster_count
          EntriesPerSector   \* table entries in one sector, bytes_per_sector / 4

\* The bound is boot.rs's MAX_FAT32_CLUSTERS: the last cluster number stays
\* below BAD_CLUSTER.
ASSUME TableAssumption ==
    /\ ClusterCount \in Nat \ {0}
    /\ ClusterCount <= 268435445
    /\ EntriesPerSector \in Nat \ {0}

FIRST_CLUSTER     == 2
FREE              == 0
BAD_CLUSTER       == 268435447
END_OF_CHAIN_MARK == 268435455

End         == FIRST_CLUSTER + ClusterCount
Clusters    == FIRST_CLUSTER .. End - 1
EntryValues == Clusters \cup {FREE, BAD_CLUSTER, END_OF_CHAIN_MARK}
Tables      == [Clusters -> EntryValues]

SectorOf(c) == c \div EntriesPerSector
Sectors     == {SectorOf(c) : c \in Clusters}

FreeClusters(e) == {c \in Clusters : e[c] = FREE}

(***************************************************************************)
(* Walking a chain.                                                        *)
(***************************************************************************)

\* S holds every cluster its members link to.
Closed(e, S) == \A c \in S : e[c] \in Clusters => e[c] \in S

\* The clusters a walk from h visits.
Chain(e, h) ==
    LET closed == {S \in SUBSET Clusters : h \in S /\ Closed(e, S)}
    IN  {c \in Clusters : \A S \in closed : c \in S}

\* `runs` returns Ok: the walk meets no free or bad entry and does not loop.
\* A walk that reaches the mark cannot have looped, since a cluster has one
\* link.
WalkSucceeds(e, h) ==
    /\ h \in Clusters
    /\ \A c \in Chain(e, h) : e[c] \notin {FREE, BAD_CLUSTER}
    /\ \E c \in Chain(e, h) : e[c] = END_OF_CHAIN_MARK

\* How many clusters the chain occupies, and a member's place in it.
ChainLength(e, h)   == Cardinality(Chain(e, h))
PlaceIn(e, h, c)    == ChainLength(e, h) - ChainLength(e, c)
\* Mutant of LastOf: a walk that stops at its first run.
LastOfFirstRun(e, h) == h
LastOf(e, h)        == CHOOSE c \in Chain(e, h) : e[c] = END_OF_CHAIN_MARK

(***************************************************************************)
(* Choosing clusters.  Both searches scan nextFree..End-1 and then         *)
(* FIRST_CLUSTER..nextFree-1: SearchKey is a cluster's place in that scan. *)
(***************************************************************************)

SearchKey(nextFree, c) == IF c >= nextFree THEN c ELSE c + ClusterCount

FirstFound(nextFree, S) ==
    CHOOSE c \in S : \A d \in S : SearchKey(nextFree, c) <= SearchKey(nextFree, d)
LastFound(nextFree, S) ==
    CHOOSE c \in S : \A d \in S : SearchKey(nextFree, d) <= SearchKey(nextFree, c)

\* Mutant of RunStarts: the run's length is counted without testing entries.
RunStartsUntested(e, nextFree, count) ==
    {c \in FreeClusters(e) : c + count - 1 < End}

\* Where find_contiguous may succeed: a free run lying wholly in one of the
\* two ranges, because run_len restarts with the second range.
RunStarts(e, nextFree, count) ==
    {c \in Clusters : \A d \in c .. c + count - 1 :
        /\ d \in FreeClusters(e)
        /\ d >= nextFree <=> c >= nextFree}

\* Mutant of Scattered: the scan does not skip used entries.
ScatteredUntested(e, nextFree, count) ==
    {c \in Clusters :
        Cardinality({d \in Clusters : SearchKey(nextFree, d) < SearchKey(nextFree, c)}) < count}

\* The first `count` free clusters of the scan.
Scattered(e, nextFree, count) ==
    {c \in FreeClusters(e) :
        Cardinality({d \in FreeClusters(e) :
                        SearchKey(nextFree, d) < SearchKey(nextFree, c)}) < count}

\* The clusters allocate(count) takes: one run if the search finds one.
Chosen(e, nextFree, count) ==
    LET starts == RunStarts(e, nextFree, count)
        start  == FirstFound(nextFree, starts)
    IN  IF starts # {} THEN start .. start + count - 1
                       ELSE Scattered(e, nextFree, count)

(***************************************************************************)
(* What each operation leaves in the table.                                *)
(***************************************************************************)

\* The clusters of A linked in scan order and ended with the mark.
Linked(e, nextFree, A) ==
    [c \in Clusters |->
        LET later == {d \in A : SearchKey(nextFree, c) < SearchKey(nextFree, d)}
        IN  CASE c \notin A  -> e[c]
              [] c \in A /\ later = {}  -> END_OF_CHAIN_MARK
              [] c \in A /\ later # {} -> FirstFound(nextFree, later)]

\* Mutant of HintAfter: the wrap is missing.
HintPastEnd(nextFree, A) == LastFound(nextFree, A) + 1

\* Where the next search starts: after the last cluster taken, wrapped.
HintAfter(nextFree, A) ==
    LET last == LastFound(nextFree, A)
    IN  IF last + 1 < End THEN last + 1 ELSE FIRST_CLUSTER

SetEntry(e, c, value) == [e EXCEPT ![c] = value]

\* append: A linked on its own, then onto the chain ending at `last`.
Appended(e, nextFree, A, last) ==
    SetEntry(Linked(e, nextFree, A), last, FirstFound(nextFree, A))

Freed(e, h) == [c \in Clusters |-> IF c \in Chain(e, h) THEN FREE ELSE e[c]]

\* Mutants of CutAfter: one half of truncate_chain without the other.
CutAfterUnmarked(e, last) == Freed(e, e[last])
CutAfterUnfreed(e, last)  == SetEntry(e, last, END_OF_CHAIN_MARK)

\* truncate_chain: `last` marked as the end, then what it linked to freed.
CutAfter(e, last) == Freed(SetEntry(e, last, END_OF_CHAIN_MARK), e[last])

HintAfterFree(e, h, nextFree) ==
    CHOOSE c \in Chain(e, h) \cup {nextFree} :
        \A d \in Chain(e, h) \cup {nextFree} : c <= d
=============================================================================
