CONSTANTS
    Managers = {m1, m2}
    Requests = {r1, r2}
    None = None
SPECIFICATION FairSpec
CHECK_DEADLOCK FALSE
INVARIANTS
    TypeOK
    OneManagerWorks
    WorkersEndFirst
PROPERTIES
    ShutdownEnds
