CONSTANTS
    Peers = {c1, c2, c3}
    MaxClicks = 4
    MaxFaults = 2
    None = None
SPECIFICATION FairSpec
CHECK_DEADLOCK FALSE
INVARIANTS
    TypeOK
    InputKeepsTrying
    PageShowsCurrentPeer
PROPERTIES
    InputSettles
