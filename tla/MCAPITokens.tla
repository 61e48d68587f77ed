----------------------------- MODULE MCAPITokens -----------------------------
(* Requests and tokens are interchangeable. *)
EXTENDS APITokens, TLC

Symmetry == Permutations(Request) \cup Permutations(Token)
=============================================================================
