SPECIFICATION Spec
CONSTANTS
    Request = {r1}
    Cancel = {k1}
    Nobody = none
INVARIANT CancelIsTheOnlyEnd
CHECK_DEADLOCK FALSE
