SPECIFICATION RegistrySpec
CONSTANTS
    t1 = t1
    t2 = t2
    both = both
    BaseTools = {t1, t2}
    Composites = {both}
    PartsOf <- MCPartsOf
    CorePlan <- MCCorePlan
    Names = {n1, n2}
    Categories = {"web", "memory"}
    Effects = {Unspecified, "Read", "Mutate"}
    Unspecified = Unspecified
    MaxDefinitions = 2
PROPERTY FailedRegisterAddsNothing
