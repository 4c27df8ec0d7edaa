----------------------------- MODULE MCTopology -----------------------------
(* A chain: the leaf a below the relay m below the root.                     *)
EXTENDS Topology, TLC

CONSTANTS a, m, top, h1

ChainParent == (a :> m) @@ (m :> top)

\* The host's agent connects to the leaf.
LeafHome == (h1 :> {a})
=============================================================================
