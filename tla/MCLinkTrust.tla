---------------------------- MODULE MCLinkTrust ----------------------------
(* Instances of LinkTrust for TLC. *)
EXTENDS LinkTrust

CONSTANTS a, b, top, q1

\* A chain: the root, a below it, b below a.
Chain == [r \in {a, b} |-> IF r = a THEN top ELSE a]
=============================================================================
