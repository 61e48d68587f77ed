------------------------------- MODULE MCUsers -------------------------------
(***************************************************************************)
(* Users and addresses are interchangeable, and so are requests. NoOp      *)
(* names one user and one address, in fields that no statement reads of an *)
(* idle request, so it does not tell them apart.                           *)
(***************************************************************************)
EXTENDS Users, TLC

Symmetry == Permutations(UserId) \cup Permutations(Email) \cup Permutations(Request)
=============================================================================
