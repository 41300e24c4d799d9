SPECIFICATION FairCalls
CONSTANTS
    Tools = {search_docs, get_usage}
    MaxIterations = 2
    MaxToolCalls = 3
    MaxBatch = 2
    MaxDeltas = 3
    None = None
CHECK_DEADLOCK FALSE
INVARIANTS
    EveryCallAccountedFor
    RoundsAreTrue
    ForcedFinalNeverNatural
    OneStory
PROPERTIES
    UpstreamIsReleased
