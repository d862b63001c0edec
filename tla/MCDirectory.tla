---------------------------- MODULE MCDirectory ----------------------------
(***************************************************************************)
(* Model checking a directory: two-slot blocks, so that a three-slot name  *)
(* always straddles them, and names that collide by case and by alias: a   *)
(* ReadMe is stored under README, or under README~1 where that is taken.   *)
(***************************************************************************)
EXTENDS Directory

\* Files are interchangeable.
FileSymmetry == Permutations(Files)

MCNames   == {"README", "ReadMe", "long one"}
MCAliases == {"README", "README~1", "LONG~1", "LONG~2"}
MCParts   == [n \in MCNames |-> CASE n = "README"   -> 0
                                  [] n = "ReadMe"   -> 1
                                  [] n = "long one" -> 2]
MCCandidates == [n \in MCNames |-> CASE n = "README"   -> <<"README">>
                                     [] n = "ReadMe"   -> <<"README", "README~1">>
                                     [] n = "long one" -> <<"LONG~1", "LONG~2">>]
MCKeys == [n \in MCNames \cup MCAliases |-> IF n = "ReadMe" THEN "README" ELSE n]
=============================================================================
