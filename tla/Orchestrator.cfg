SPECIFICATION Spec
CONSTANTS
    Calls <- MCThreeCalls
    Steps = {"s1", "s2"}
    StepOf <- MCTwoSteps
    Tasks = {"t1", "t2"}
    TaskOf <- MCTasks
    Cost <- MCCost
    Cap = 2
    NoTask = NoTask
    SaveMayFail = TRUE
    MaxClears = 1
    MaxRecords = 1
    MaxCrashes = 1
INVARIANTS
    SpendIsExact
    ClearedRunStaysCleared
PROPERTIES
    SavedStepNotPaidAgain
    CapSurvivesRestart
CHECK_DEADLOCK FALSE
