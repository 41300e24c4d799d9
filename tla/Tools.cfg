SPECIFICATION FairTools
CONSTANTS
    Wrong = Wrong
    Null = Null
    CaseNames = {"a", "b", "c"}
    DefaultRepeats = 1
    Scenarios <- GivenRuns
    Corpora <- Edited
    Replies <- JudgeReplies
    NoTenant = NoTenant
    IngestionJobs <- AllJobs
    MaxBatchInputs = 2
    NoEvidence = NoEvidence
    SmokeRuns <- AllRuns
    Tokens <- AllTokens
    Answers <- AllAnswers
    Intervals = {1, 2}
    Lifetimes = {4}
    LogJoinAttempts = 2
    MaxTook = 1
    MaxOverslept = 1
CHECK_DEADLOCK FALSE
INVARIANTS
    OnlyOrdersAreAccepted
    VerdictsAreEarned
    GateTellsTheTruth
    PaidAnswersAreKept
    IndexFollowsTheCorpus
    ChunksKeepTheProse
    NoSilentlyShorterList
    PollsBehave
PROPERTIES
    SearchesAndPollsEnd
