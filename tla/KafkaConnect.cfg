SPECIFICATION Spec
CONSTANTS
    Work = {w1}
    Junk = junk
    Sends = 1
    MaxRecords = 1
    MaxBreaks = 1
INVARIANT ConnectsDisconnected
CHECK_DEADLOCK FALSE
