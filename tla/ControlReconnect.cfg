SPECIFICATION Spec
CONSTANTS
    Nodes = {n1}
    Tasks <- MCTasks
    SentAt <- MCSentAt
    Moments = {2, 4}
    MaxDrops = 1
    MaxCrashes = 0
INVARIANTS
    ReconnectedNodesMissNothing
CHECK_DEADLOCK FALSE
