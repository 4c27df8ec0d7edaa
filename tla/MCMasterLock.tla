---------------------------- MODULE MCMasterLock ----------------------------
(* A small instance of MasterLock. *)
EXTENDS MasterLock
=============================================================================
