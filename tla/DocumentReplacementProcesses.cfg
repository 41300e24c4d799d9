CONSTANTS
    Jobs = {j1, j2}
    Processes = {s1, s2}
    Parents = {p1}
    Chunks = {1, 2, 3}
    Versions <- Prefixes
    BatchLimit = 1
    PageSize = 1
    MaxAttempts = 1
    Lags = TRUE
    Late = TRUE
    NoJob = NoJob
    NoCall = NoCall
SPECIFICATION Spec
SYMMETRY Symmetric
CHECK_DEADLOCK FALSE
PROPERTIES
    NeverGoesDark
