CONSTANTS
    Turns = {t1, t2, t3}
    Replicas = {r1}
    Principals <- TwoScopes
    Ids = {c1, c2}
    Kinds = {"chat", "stream", "agent"}
    Usages = {1, 2}
    Budget = 2
    NoBudget = NoBudget
    NoScope = NoScope
    NoTurn = NoTurn
    NoReq = NoReq
    StoreFails = TRUE
    ta = ta
    ga = ga
    gb = gb
SPECIFICATION Spec
SYMMETRY Symmetric
CHECK_DEADLOCK FALSE
INVARIANTS
    SnapshotStaysCurrent
    AnswersMatchHistory
    AuditTellsTheTruth
    BudgetOvershootsByOneTurn
