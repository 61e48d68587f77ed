----------------------------- MODULE MCRemember -----------------------------
(* Requests are interchangeable. *)
EXTENDS Remember, TLC

Symmetry == Permutations(Request)
=============================================================================
