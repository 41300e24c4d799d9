CONSTANTS
    Turns = {t1, t2}
    Replicas = {r1}
    Principals <- OneCaller
    Ids = {c1}
    Kinds = {"stream"}
    Usages = {1}
    Budget = 2
    NoBudget = NoBudget
    NoScope = NoScope
    NoTurn = NoTurn
    NoReq = NoReq
    StoreFails = TRUE
    ta = ta
    ga = ga
    gb = gb
SPECIFICATION FairSpec
CHECK_DEADLOCK FALSE
PROPERTIES
    FollowUpsAreServed
