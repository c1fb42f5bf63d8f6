CONSTANTS
    None = None
    Users = {u1}
    Ids = {i1}
    Keys = {k1}
    Workers = {w1}
    Maint = Maint
    Deployments = {d1}
    Quotas = {1}
    MaxRecoveryAttempts = 1
    LegacyIds = {i1}
    Allowance <- LiveBound
SPECIFICATION FairSpec
CHECK_DEADLOCK FALSE
PROPERTIES
    DeletionCompletes
    UserDeletionCompletes
