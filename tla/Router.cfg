SPECIFICATION Spec
CONSTANTS
    Waits <- MCFourCalls
    Tasks = {"t1", "t2", "t3"}
    TaskOf <- MCTaskOf
    Signals = {"stop"}
    SignalOf <- MCSignalOf
    NoSignal = "none"
    Nobody = Nobody
    FanIn = {3, 4}
    FanInSignal = "stop"
    Competing = TRUE
    MaxResults = 1
INVARIANTS
    WaitersAreServed
    FanInEndsWithItsStop
PROPERTIES
    EveryWaitSettles
CHECK_DEADLOCK FALSE
