SPECIFICATION Spec
CONSTANTS
    Task = {t1, t2}
    NoTask = none
    MaxAttempts = 2
    MaxUse = 1
    MaxTokenBudget = 3
    MaxTaskBudget = 2
    MaxStops = 1
    MaxTracked = 2
PROPERTIES
    RetryOwnsTheCard
CHECK_DEADLOCK FALSE
