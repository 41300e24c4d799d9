CONSTANTS
    Calls = {r1, r2}
    Kids = {k1, k2}
    MaxAge = 2
    Cooldown = 1
    NoCall = NoCall
    NoKid = NoKid
SPECIFICATION JwksFairSpec
CHECK_DEADLOCK FALSE
PROPERTIES
    RefreshesAreRateLimited
    NoRejectionDuringRefresh
    AgedKeysAreRefreshed
    EveryRequestAnswered
