CONSTANTS
    Jobs = {j1, j2}
    Processes = {s1}
    Parents = {p1}
    Chunks = {1, 2, 3}
    Versions <- Arbitrary
    BatchLimit = 2
    PageSize = 1
    MaxAttempts = 2
    Lags = FALSE
    Late = FALSE
    NoJob = NoJob
    NoCall = NoCall
SPECIFICATION FairSpec
CHECK_DEADLOCK FALSE
INVARIANTS
    DurableBeforeRemoval
PROPERTIES
    OutcomeIsTrue
    CompletedMeansReplaced
    EveryReplacementEnds
