CONSTANTS
    Pages = {p1, p2}
    Positions = {a, b}
    MaxSteps = 1
    MaxEvents = 3
    MaxFaults = 1
    None = None
SPECIFICATION Spec
SYMMETRY Symmetry
CHECK_DEADLOCK FALSE
INVARIANTS
    TypeOK
    ButtonsAreReleased
    LastAimIsSent
    ClicksAreAskedFor
PROPERTIES
    ButtonsActWhereAimed
