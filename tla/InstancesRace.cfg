CONSTANTS
    None = None
    Users = {u1}
    Ids = {i1}
    Keys = {k1}
    Workers = {w1, w2}
    Maint = Maint
    Deployments = {d1}
    Quotas = {0, 1}
    MaxRecoveryAttempts = 1
    LegacyIds = {}
    Allowance <- RaceBound
SPECIFICATION Spec
SYMMETRY Symmetry
CHECK_DEADLOCK FALSE
INVARIANTS
    HandlerOwnsItsRow
    UploadKeepsInstance
PROPERTIES
    StartsAreWanted
    StopsAreRespected
    KeysStaySpent
