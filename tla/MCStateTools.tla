---------------------------- MODULE MCStateTools ----------------------------
(* StateTools with two commands, two keys and one mutation. *)
EXTENDS StateTools, TLC

CONSTANTS t1, t2, k1, k2, m1

AllKinds == {"restore", "rekey", "reset"}
Symmetry == Permutations({t1, t2})
=============================================================================
