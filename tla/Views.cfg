SPECIFICATION Spec
CONSTANTS
    Task = {t1, t2}
    NoTask = none
    MaxAttempts = 3
    MaxUse = 1
    MaxTokenBudget = 3
    MaxTaskBudget = 2
    MaxStops = 1
    MaxTracked = 2
    Board = {b1}
    Card = {c1}
    Node = {n1, n2}
    None = none
    MaxStop = 2
    MaxInput = 3
    MaxConnects = 2
    MaxReviews = 2
    MaxSends = 1
    BoardChoice = {"PUBLISH", "REVISE"}
    MaxWaits = 2
    Steps = 2
    MaxProcesses = 2
    Searchers = 2
    MaxCost = 1
    SpendCap = 4
    MaxRuns = 2
    Member = {m1}
    Job = {j1}
    MaxMutations = 2
    MaxAway = 1
INVARIANTS
    EverySpentTokenCounts
    StoppedIsShown
    BoardsAreTruthful
    OnlyApprovedIsPublished
    NoPendingReviewUnlessResumed
    RunKeepsItsBooks
    StopEndsTheRun
    StreamHeals
PROPERTIES
    LateEndKeepsTheAgent
    AckedDecisionEndsTheWait
CHECK_DEADLOCK FALSE
