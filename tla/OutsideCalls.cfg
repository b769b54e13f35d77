SPECIFICATION Spec
CONSTANTS
    Requested = {0, 1, 3, 5}
    DefaultMs = 1
    MaxMs = 2
    Ms = 2
    Word = 16
    MaxChildren = 2
    MaxOutput = 3
    MaxMessages = 3
    MaxEvents = 5
    MaxBlocks = 4
    Pages = {1, 2, 3}
    Asked = {0, 1, 3, 5}
    PageDefault = 4
    Default = 2
    MaxResults = 4
    Shallow = 1
    Names = {n1, n2}
    Instances = {1, 2}
    Callers = {c1, c2}
    MaxRegisters = 2
    NoProvider = NoProvider
INVARIANTS
    ResultIsWhole
    ChunksAreTheAnswer
    PageShowsTree
    EveryHitOnce
    UsedUntilReplaced
PROPERTY ExecEnds
CHECK_DEADLOCK FALSE
