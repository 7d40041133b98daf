SPECIFICATION Spec
CONSTANTS
    Deliveries <- MCTwoTasks
    Addressed <- MCTwoTasks
    SentAt <- MCSentAtOfTwo
    StopTimes = {1, 2}
    RetryAttempts = 2
    RetryOnTimeout = FALSE
    Threshold = 1
    Concurrency = 1
    LostAcks = TRUE
    MaxRedeliveries = 1
INVARIANTS
    NothingSilentlyDropped
    StopsReportedExactly
CHECK_DEADLOCK FALSE
