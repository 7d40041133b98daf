SPECIFICATION Spec
CONSTANTS
    Board = {b1}
    Card = {c1}
    Node = {n1, n2}
    None = none
    MaxStop = 2
    MaxInput = 3
    MaxConnects = 1
INVARIANTS
    AcksCountNodes
CHECK_DEADLOCK FALSE
