---------------------------- MODULE MCStateFile -----------------------------
(* Small instances of StateFile. *)
EXTENDS StateFile, TLC

\* Mutations are interchangeable, and so are processes.
Symmetry == Permutations(Instance) \cup Permutations(Mutation)
=============================================================================
