SPECIFICATION Spec
CONSTANTS
    Waits <- MCTwoCalls
    Tasks = {"t1"}
    TaskOf <- MCSameTask
    Signals = {"stop"}
    SignalOf <- MCOneStopSignal
    NoSignal = "none"
    Nobody = Nobody
    FanIn = {}
    FanInSignal = "stop"
    Competing = FALSE
    MaxResults = 1
INVARIANTS
    AbortRejectsTheWait
CHECK_DEADLOCK FALSE
