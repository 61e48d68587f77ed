SPECIFICATION Spec
CONSTANTS
    m = m
    k = k
    User = {u}
    Email = {m, k}
    Gone = Gone
    Any = Any
    Id = {1, 2, 3}
    DefaultPageSize = 1
    MaxPageSize = 2
    Actions = {"auth.login", "auth.logout"}
    Initially <- MCInitially
    Asked <- MCAsked
    MaxPage = 3
    MaxTime = 1
    MaxChanges = 1
INVARIANTS
    TypeOK
    WalkSkipsNothing
    PromisedPagesHaveRows
