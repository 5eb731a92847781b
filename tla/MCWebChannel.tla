----------------------------- MODULE MCWebChannel -----------------------------
(* WebChannel on small instances: up to two sessions of one account. *)
EXTENDS WebChannel, TLC

CONSTANTS a, b

Symmetry == Permutations(Session)
=============================================================================
