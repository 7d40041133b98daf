SPECIFICATION Spec
CONSTANTS
    Calls <- MCTwoCalls
    Steps = {"s1", "s2"}
    StepOf <- MCStepEach
    Tasks = {"t1", "t2"}
    TaskOf <- MCOneTask
    Cost <- MCCost
    Cap = 2
    NoTask = NoTask
    SaveMayFail = TRUE
    MaxClears = 1
    MaxRecords = 0
    MaxCrashes = 1
PROPERTIES
    EveryStepEnds
CHECK_DEADLOCK FALSE
