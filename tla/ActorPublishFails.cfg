SPECIFICATION Spec
CONSTANTS
    Deliveries <- MCTwoTasks
    Addressed <- MCTwoTasks
    SentAt <- MCSentAtOfTwo
    StopTimes = {1}
    RetryAttempts = 3
    RetryOnTimeout = FALSE
    Threshold = 2
    Concurrency = 1
    LostAcks = FALSE
    MaxRedeliveries = 0
PROPERTIES
    ResultNotReproduced
CHECK_DEADLOCK FALSE
