SPECIFICATION FairSpec
CONSTANTS
    Clients <- Composite
    Budget = 2
    MaxCancels = 2
INVARIANTS
    EveryClientAttempted
    ResultIsTrue
PROPERTIES
    ShutdownEnds
