CONSTANTS
    Peers = {p1, p2}
    Watched = {p1}
    Sockets = {s1}
    TickPeriod = 1
    AuthTimeout = 1
    CallTimeout = 1
    OpenTime = 1
    LeaseTime = 5
    SweepPeriod = 1
    Grace = 3
    GatherTime = 2
SPECIFICATION FairSpec
CHECK_DEADLOCK FALSE
INVARIANTS
    EncodersServePeers
    AccessEndsInTime
    RenewedLeasesLast
    CountsBalance
PROPERTIES
    EverythingEnds
