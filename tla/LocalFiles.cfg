SPECIFICATION Spec
CONSTANTS
    Clients = {c1, c2}
    MaxCalls = 4
    MaxFaults = 2
    NoFile = NoFile
    Empty = Empty
    Torn = Torn
    TaskTools = {i1, i2}
    Memories = {m1, m2}
    Keys = {1, 2}
    NotMade = NotMade
    Sessions = {s1}
    Sizes = {1, 2}
    LineLimit = 3
    MaxMessages = 4
    MaxTears = 2
    Depth = 3
    Candidates = 3
    Lengths = {1, 3, 5}
    MaxFile = 4
    MaxTotal = 12
    Suffix = 1
INVARIANTS
    TasksKept
    MemoryKept
    EditsKept
    OneMessagePerTear
    DeletedStaysDeleted
    NearestFilesFirst
PROPERTIES
    ConfigIsAtomic
    LoadedStays
CHECK_DEADLOCK FALSE
