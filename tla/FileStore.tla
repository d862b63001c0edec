------------------------------ MODULE FileStore ------------------------------
(***************************************************************************)
(* What a volume promises about its files, crash or no crash: each name is *)
(* absent or a readable file of some length, and every change is to one    *)
(* file and happens at once.  There is no action for a power cut: it may   *)
(* not change what can be read.                                            *)
(***************************************************************************)
EXTENDS Integers

CONSTANTS Files, MaxSize

VARIABLE length   \* per name: a length in clusters, or Absent

Absent == -1

Init == length = [f \in Files |-> Absent]

Create(f) == /\ length[f] = Absent
             /\ length' = [length EXCEPT ![f] = 0]

\* A write past the end or a truncate, in either direction.
Resize(f, n) == /\ length[f] # Absent
                /\ length' = [length EXCEPT ![f] = n]

Remove(f) == /\ length[f] # Absent
             /\ length' = [length EXCEPT ![f] = Absent]

Next == \E f \in Files : \/ Create(f)
                         \/ \E n \in 0 .. MaxSize : Resize(f, n)
                         \/ Remove(f)

Spec == Init /\ [][Next]_length
=============================================================================
