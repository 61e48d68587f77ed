---------------------------- MODULE MCRateLimit ----------------------------
(* Two buckets of one store: in one guard they share a window, in two guards *)
(* each has its own.                                                         *)
EXTENDS RateLimit

Buckets == {"ip", "account"}
Limits == [ip |-> 2, account |-> 1]
OneWindow == [ip |-> 3, account |-> 3]
TwoWindows == [ip |-> 1, account |-> 3]
=============================================================================
