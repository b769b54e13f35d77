SPECIFICATION BusySpec
CONSTANTS
    Runs = {r1}
    Callers = {c1, c2}
    Capacity = 2
    MaxEmits = 1
    MaxCalls = 3
    NoOne = NoOne
INVARIANTS
    TypeOK
    NoSendOnClosedChannel
    TerminalMatchesStatus
    EOFMeansDrained
    LateCallsRefused
PROPERTIES
    CallsReturn
    CancelledRunsEnd
    StreamsEnd
    KeepsContract
CHECK_DEADLOCK FALSE
