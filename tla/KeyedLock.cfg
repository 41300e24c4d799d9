CONSTANTS
    Tasks = {t1, t2, t3, t4}
    Keys = {k1, k2}
    Entries = {e1, e2, e3}
    NoTask = NoTask
    NoKey = NoKey
    NoEntry = NoEntry
SPECIFICATION FairSpec
INVARIANTS
    RefsCountUsers
PROPERTIES
    FirstComeFirstServed
    EveryWaiterServed
    ImplementsKeyedMutex
