SPECIFICATION Spec
CONSTANTS
    Runs = {r1}
    Callers = {c1}
    Capacity = 2
    MaxEmits = 1
    MaxCalls = 1
    NoOne = NoOne
PROPERTY CancelledStays
CHECK_DEADLOCK FALSE
