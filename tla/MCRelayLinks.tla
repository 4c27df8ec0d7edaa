---------------------------- MODULE MCRelayLinks ----------------------------
(* RelayLinks with two children, each of which may declare the other and a   *)
(* third relay; a link is named after its relay.                             *)
EXTENDS RelayLinks, TLC

CONSTANTS p, q, h1

Itself == [l \in Link |-> l]
SameHost == [t \in Task |-> h1]
Symmetry == Permutations({p, q})
=============================================================================
