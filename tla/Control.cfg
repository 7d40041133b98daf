SPECIFICATION Spec
CONSTANTS
    Nodes = {n1}
    Tasks <- MCTasks
    SentAt <- MCSentAt
    Moments = {2, 4}
    MaxDrops = 2
    MaxCrashes = 2
INVARIANTS
    NodesObeySaved
    SteadyNodesHearEverything
PROPERTIES
    NodesImplementWorker
    MissedStopIsCaughtUp
CHECK_DEADLOCK FALSE
