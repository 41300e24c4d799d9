CONSTANTS
    Turns = {t1, t2, t3}
    Replicas = {r1, r2}
    Principals <- OneCaller
    Ids = {c1}
    Kinds = {"stream"}
    Usages = {2}
    Budget = 3
    NoBudget = NoBudget
    NoScope = NoScope
    NoTurn = NoTurn
    NoReq = NoReq
    StoreFails = FALSE
    ta = ta
    ga = ga
    gb = gb
SPECIFICATION FairSpec
CHECK_DEADLOCK FALSE
PROPERTIES
    EveryTurnEndsAudited
    ImplementsConversationLog
