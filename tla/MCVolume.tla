------------------------------ MODULE MCVolume ------------------------------
(***************************************************************************)
(* Model checking the volume: two files and a handful of clusters.  With   *)
(* EntriesPerSector above every cluster number the table is one sector;    *)
(* with fewer it spans several, and a flush takes several writes.          *)
(***************************************************************************)
EXTENDS Volume, TLC

\* Files are interchangeable: every action and property treats them alike.  The
\* runs with liveness or refinement do without it.
FileSymmetry == Permutations(Files)
=============================================================================
