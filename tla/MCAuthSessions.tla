--------------------------- MODULE MCAuthSessions ---------------------------
(* Browsers, tracking tokens and families are interchangeable. *)
EXTENDS AuthSessions, TLC

(* Configurations: one account without any option, and what each run adds *)

Plain == [twoFactor |-> FALSE, rememberMe |-> FALSE, tracking |-> FALSE,
          faults |-> FALSE, maxPassword |-> 2, maxFamilies |-> 2]

Tracked == [Plain EXCEPT !.tracking = TRUE, !.faults = TRUE, !.maxPassword = 3]
Remembered == [Plain EXCEPT !.rememberMe = TRUE]
Remembering == [Remembered EXCEPT !.faults = TRUE, !.maxPassword = 3]
Challenged == [Remembered EXCEPT !.twoFactor = TRUE, !.maxFamilies = 1]
Listed == [Remembered EXCEPT !.tracking = TRUE, !.faults = TRUE, !.maxFamilies = 1]

AllOptions == {Tracked, Remembering, Challenged, Listed}
RememberMeOnly == {Remembered}

Symmetry == Permutations(Browser) \cup Permutations(Token) \cup Permutations(Family)
=============================================================================
