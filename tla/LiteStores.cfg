SPECIFICATION Spec
CONSTANTS
    Clients = {c1, c2}
    Tenants = {t1, t2}
    MaxFaults = 2
    Skills = {s1, s2}
    Keys = {k1}
    Chunks = 2
    MaxPuts = 3
    NoFile = NoFile
    ToolNames = {n1, n2}
    MaxIds = 3
    NoTool = NoTool
    GlobalTool = GlobalTool
    Secrets = {n1, n2}
    Environment = {n2}
    MaxMaps = 4
    MaxWrites = 3
INVARIANTS
    PromptsAreThere
    OrphansOnly
    QuietGetsReadTheLatest
    ToolsHaveTheirNames
    CredentialsArePrivate
CHECK_DEADLOCK FALSE
