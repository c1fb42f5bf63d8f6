CONSTANTS
    None = None
    Users = {u1}
    Ids = {i1}
    Keys = {k1}
    Workers = {w1}
    Maint = Maint
    Deployments = {d1}
    Quotas = {1}
    MaxRecoveryAttempts = 2
    LegacyIds = {i1}
    Allowance <- OutageBound
SPECIFICATION Spec
CHECK_DEADLOCK FALSE
INVARIANTS
    StatusAgreesWithIntent
    StoppedMeansStopped
    BoundedRecovery
    NoOrphanNetworks
PROPERTIES
    DeletionIsIrrevocable
