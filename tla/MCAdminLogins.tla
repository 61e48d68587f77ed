---------------------------- MODULE MCAdminLogins ---------------------------
EXTENDS AdminLogins

CONSTANTS m, k

List(n, u, method, sort) ==
    [page |-> 1, perPage |-> n, user |-> u, method |-> method, sort |-> sort]

MCAsked ==
    {List(0, Any, Any, Any), List(1, Any, Any, "asc"), List(1, m, Any, "desc"),
     List(2, Any, "password", "asc"), List(3, Any, Any, Any), List(-1, Any, Any, Any)}

MCInitially == {[u \in User |-> m]}
=============================================================================
