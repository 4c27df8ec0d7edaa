---------------------------- MODULE MCHookQueue -----------------------------
(* Two hosts on a pool of two workers: the first worker serves both.         *)
EXTENDS HookQueue, TLC

CONSTANTS h1, h2, w1, w2

Shared == (h1 :> w1) @@ (h2 :> w1)
=============================================================================
