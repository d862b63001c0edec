------------------------------- MODULE MCTree -------------------------------
(***************************************************************************)
(* Model checking the tree: two directories, two files and two names, so   *)
(* that a directory can be moved into another, into its own contents, and  *)
(* out to the root again, and be removed and made again elsewhere.         *)
(***************************************************************************)
EXTENDS Tree, TLC

\* Clusters are interchangeable, and so are files.
NodeSymmetry == Permutations(Clusters) \cup Permutations(Files)

MCNames == {"a", "b"}

\* Up to two components; `..` after a name.
MCPaths ==
    {<<>>} \cup {<<n>> : n \in MCNames} \cup {<<n, m>> : n \in MCNames, m \in MCNames \cup {".."}}
=============================================================================
