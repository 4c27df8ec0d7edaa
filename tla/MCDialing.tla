----------------------------- MODULE MCDialing -----------------------------
(* Small instances of Dialing for TLC. *)
EXTENDS Dialing, TLC

AllKinds  == {"pull", "push", "agent", "fetch", "get", "put"}
TwoIdents == {"r1", "r2"}
=============================================================================
