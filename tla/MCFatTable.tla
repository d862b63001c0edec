----------------------------- MODULE MCFatTable -----------------------------
(***************************************************************************)
(* Model checking the table: every reachable table of a small volume.      *)
(***************************************************************************)
EXTENDS FatTable
=============================================================================
