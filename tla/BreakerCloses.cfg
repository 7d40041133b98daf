SPECIFICATION Spec
CONSTANTS
    Threshold = 2
    WindowMs = 3
    MaxTime = 10
    MaxFailures = 4
PROPERTY StaysOpenForTheWindow
CHECK_DEADLOCK FALSE
