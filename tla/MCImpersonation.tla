--------------------------- MODULE MCImpersonation ---------------------------
(* The demo application: administrators may switch into users of both guards   *)
(* but not into another administrator; clients may not switch.                 *)
EXTENDS Impersonation

MCHome == [alice |-> "admin", bob |-> "admin", carol |-> "client"]

MCGate ==
    [admin |-> [roles |-> {"admin"}, targetGuards |-> {"admin", "client"},
                protectedRoles |-> {"admin"}],
     client |-> [roles |-> {}, targetGuards |-> {}, protectedRoles |-> {}]]

=============================================================================
