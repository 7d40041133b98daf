SPECIFICATION Spec
CONSTANTS
    Searchers = 2
    MaxCost = 1
    SpendCap = 3
    MaxRuns = 1
INVARIANT StoppedSearchNotBlocked
CHECK_DEADLOCK FALSE
