----------------------------- MODULE MCTwoFactor -----------------------------
(* Requests, secrets and recovery codes are interchangeable. *)
EXTENDS TwoFactor, TLC

Symmetry == Permutations(Request) \cup Permutations(Secret) \cup Permutations(Code)
=============================================================================
