SPECIFICATION Spec
CONSTANTS
    Clients = {c1}
    MaxAgents = 2
    MaxUpdates = 1
    MaxWrites = 1
    None = None
PROPERTY CloneSharesNothing
CHECK_DEADLOCK FALSE
