--------------------------- MODULE MCTaskDispatch ---------------------------
(* Small instances of TaskDispatch: the tasks and connections of one agent. *)
EXTENDS TaskDispatch, TLC

CONSTANT h1

OneHost == [t \in Task |-> h1]
OneHostConn == [c \in Conn |-> h1]

Symmetry == Permutations(Task) \cup Permutations(Conn)
=============================================================================
