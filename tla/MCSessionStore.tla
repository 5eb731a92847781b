--------------------------- MODULE MCSessionStore ---------------------------
(***************************************************************************)
(* SessionStore for TLC: model values for ids, tokens and responses.       *)
(***************************************************************************)
EXTENDS SessionStore, TLC

CONSTANTS r1, r2, e1, t1, t2, t3, x1, x2

\* Tokens and responses are interchangeable; so are two /rc ids.
Symmetry == Permutations(Token) \cup Permutations(Stream)
=============================================================================
