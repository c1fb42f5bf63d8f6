CONSTANTS
    Peers = {c1, c2, c3}
    MaxClicks = 4
    MaxFaults = 0
    None = None
SPECIFICATION Spec
CHECK_DEADLOCK FALSE
INVARIANTS
    SoundsNeverOverlap
