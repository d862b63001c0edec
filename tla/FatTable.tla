------------------------------ MODULE FatTable ------------------------------
(***************************************************************************)
(* The `Fat` of src/src/fat.rs as a state machine: the table, the next-fit *)
(* hint and the maintained free count, under the four operations the file  *)
(* operations call and a reload of the volume.  `heads` is the callers'    *)
(* side of the contract, the first clusters that directory entries hold.   *)
(***************************************************************************)
EXTENDS Table

VARIABLES entries,    \* the table, by cluster
          nextFree,   \* next_free, where the next search starts
          freeCount,  \* free_count, maintained by set_entry
          heads       \* first clusters of the chains callers hold

vars == <<entries, nextFree, freeCount, heads>>

\* A freshly formatted volume, on which the medium may have marked clusters
\* bad; Fat::load starts the hint at the first cluster and counts.
Init ==
    /\ entries \in [Clusters -> {FREE, BAD_CLUSTER}]
    /\ nextFree = FIRST_CLUSTER
    /\ freeCount = Cardinality(FreeClusters(entries))
    /\ heads = {}

\* allocate(count), after its DiskFull guard.
Allocate(count) ==
    /\ freeCount >= count
    /\ LET got == Chosen(entries, nextFree, count)
       IN  /\ entries' = Linked(entries, nextFree, got)
           /\ nextFree' = HintAfter(nextFree, got)
           /\ freeCount' = freeCount - Cardinality(got)
           /\ heads' = heads \cup {FirstFound(nextFree, got)}

\* append(last, count), with `last` found by the caller's walk from h.
Append(h, count) ==
    /\ WalkSucceeds(entries, h)
    /\ freeCount >= count
    /\ LET got == Chosen(entries, nextFree, count)
       IN  /\ entries' = Appended(entries, nextFree, got, LastOf(entries, h))
           /\ nextFree' = HintAfter(nextFree, got)
           /\ freeCount' = freeCount - Cardinality(got)
    /\ UNCHANGED heads

\* free_chain(h); the entry that named h is gone.
FreeChain(h) ==
    /\ WalkSucceeds(entries, h)
    /\ entries' = Freed(entries, h)
    /\ nextFree' = HintAfterFree(entries, h, nextFree)
    /\ freeCount' = freeCount + ChainLength(entries, h)
    /\ heads' = heads \ {h}

\* truncate_chain(h, keep) with 0 < keep < length: mark the new end, then
\* free what followed it.  keep = 0 is FreeChain, keep >= length a no-op.
TruncateChain(h, keep) ==
    /\ WalkSucceeds(entries, h)
    /\ keep < ChainLength(entries, h)
    /\ \E last \in Chain(entries, h) :
        /\ PlaceIn(entries, h, last) = keep - 1
        /\ LET tail  == entries[last]
               ended == SetEntry(entries, last, END_OF_CHAIN_MARK)
           IN  /\ entries' = CutAfter(entries, last)
               /\ nextFree' = HintAfterFree(ended, tail, nextFree)
               /\ freeCount' = freeCount + ChainLength(ended, tail)
    /\ UNCHANGED heads

\* Fat::load on the same volume, after everything reached the device.
Reload ==
    /\ nextFree' = FIRST_CLUSTER
    /\ freeCount' = Cardinality(FreeClusters(entries))
    /\ UNCHANGED <<entries, heads>>

Next ==
    \/ \E count \in 1 .. ClusterCount : Allocate(count)
    \/ \E h \in heads, count \in 1 .. ClusterCount : Append(h, count)
    \/ \E h \in heads : FreeChain(h)
    \/ \E h \in heads, keep \in 1 .. ClusterCount : TruncateChain(h, keep)
    \/ Reload

Spec == Init /\ [][Next]_vars

-----------------------------------------------------------------------------

\* The types, with the hint inside the volume: it is written to the volume's
\* FSInfo sector, where a cluster outside it is not a legal value.
TypeOK ==
    /\ entries \in Tables
    /\ nextFree \in Clusters
    /\ freeCount \in 0 .. ClusterCount
    /\ heads \subseteq Clusters

\* The count set_entry maintains incrementally is the count a scan would
\* find, so the DiskFull guard refuses exactly what cannot be satisfied and
\* find_scattered never runs out.
FreeCountExact == freeCount = Cardinality(FreeClusters(entries))

\* No cluster belongs to two of the chains callers hold.
NoSharedClusters ==
    \A h, k \in heads : h # k => Chain(entries, h) \cap Chain(entries, k) = {}

\* Every held chain can be walked to its end: no operation leaves a chain
\* that runs into free space, a bad cluster or itself.
ChainsComplete == \A h \in heads : WalkSucceeds(entries, h)

\* Every allocated cluster is on a held chain: no operation leaks.
UsedIsHeld ==
    {c \in Clusters : entries[c] \notin {FREE, BAD_CLUSTER}}
        = UNION {Chain(entries, h) : h \in heads}

\* A chain that survives an operation is the old one extended or the old one
\* cut short: an append adds behind the old end, a truncation cuts from the
\* end, and no operation moves a cluster of anyone's data within its file.
PrefixKept ==
    [][\A h \in heads \cap heads' :
          LET before == Chain(entries, h)
              after  == Chain(entries', h)
          IN  /\ before \subseteq after \/ after \subseteq before
              /\ \A c \in before \cap after :
                    PlaceIn(entries, h, c) = ChainLength(entries', h) - ChainLength(entries', c)]_vars

\* An operation changes the links of at most one held chain.
OneChainPerCall ==
    [][\A h, k \in heads :
          (\E c \in Chain(entries, h) : entries'[c] # entries[c]) /\
          (\E c \in Chain(entries, k) : entries'[c] # entries[c]) => h = k]_vars

\* What create_with_size's documentation promises of an allocation: "will
\* find a single run if the volume has one".
SingleRunIfOneExists ==
    [][\A h \in heads' \ heads :
          LET count == ChainLength(entries', h)
          IN  (\E c \in Clusters : c .. c + count - 1 \subseteq FreeClusters(entries))
                 => \E c \in Clusters : Chain(entries', h) = c .. c + count - 1]_vars
=============================================================================
