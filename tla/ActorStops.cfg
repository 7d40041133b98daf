SPECIFICATION Spec
CONSTANTS
    Deliveries <- MCThreeTasks
    Addressed <- MCSharedQueue
    SentAt <- MCSentAtOfThree
    StopTimes = {1, 2}
    RetryAttempts = 3
    RetryOnTimeout = TRUE
    Threshold = 2
    Concurrency = 2
    LostAcks = FALSE
    MaxRedeliveries = 0
INVARIANTS
    OneVerdict
    OnlyFailedTasksCounted
PROPERTIES
    ImplementsWorker
    EveryDeliverySettles
    DrainEnds
CHECK_DEADLOCK FALSE
