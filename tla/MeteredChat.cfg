SPECIFICATION Spec
CONSTANTS
    Callers = {c1, c2}
    MaxRetries = 1
    MaxCalls = 3
    sonnet = sonnet
    opus = opus
    dated = dated
    custom = custom
    unknown = unknown
    Models = {sonnet, dated, custom, unknown}
    pricingOverrides <- MCOverrides
    defaultPricing <- MCDefaults
    Fallback = sonnet
    Overlaps <- MCOverlaps
    Tokens = 5
    DailyLimit = 4
    MonthlyLimit = 5
    MonthLength = 2
    MaxDay = 2
    MaxTears = 2
    Cuts = {1, 2, 6, 7}
INVARIANTS
    OvershootBounded
    RefusalIsEarned
PROPERTY EveryCallReturns
CHECK_DEADLOCK FALSE
