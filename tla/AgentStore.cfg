SPECIFICATION Spec
CONSTANTS
    Clients = {c1, c2}
    MaxAgents = 2
    MaxUpdates = 4
    MaxWrites = 1
    None = None
INVARIANTS
    NoLostUpdate
    VersionNamesContent
PROPERTY ArchivedIsFrozen
CHECK_DEADLOCK FALSE
