CONSTANTS
    None = None
    Users = {u1}
    Ids = {i1}
    Keys = {}
    Workers = {w1}
    Maint = Maint
    Deployments = {d1, d2}
    Quotas = {1}
    MaxRecoveryAttempts = 1
    LegacyIds = {}
    Allowance <- CrashBound
SPECIFICATION Spec
CHECK_DEADLOCK FALSE
INVARIANTS
    TypeOK
    NoOrphanResources
    TouchesOnlyItsOwn
PROPERTIES
    DataOutlivesContainer
    KeepsThePromise
