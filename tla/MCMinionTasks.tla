--------------------------- MODULE MCMinionTasks ---------------------------
(* Instances of MinionTasks for TLC. *)
EXTENDS MinionTasks

CONSTANTS t1, t2
=============================================================================
