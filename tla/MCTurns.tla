------------------------------- MODULE MCTurns -------------------------------
(* Turns on a small instance: two tools that need permission, a question. *)
EXTENDS Turns

CONSTANTS t1, t2, q, hello

Symmetry == Permutations({t1, t2})
=============================================================================
