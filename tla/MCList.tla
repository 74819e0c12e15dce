------------------------------- MODULE MCList -------------------------------
(* Three readers of one list page in two API processes. *)
EXTENDS ListCache, TLC

CONSTANTS p1, p2, r1, r2, r3

\* r1 and r2 share a process.
MCHome == [r \in Readers |-> IF r = r3 THEN p2 ELSE p1]

Symmetry == Permutations(Tasks) \cup Permutations({r1, r2}) \cup Permutations(Writers)
=============================================================================
