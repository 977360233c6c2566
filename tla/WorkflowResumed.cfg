SPECIFICATION Spec
CONSTANTS
    None = None
    c1 = c1
    c2 = c2
    g1 = g1
    g2 = g2
    w = w
    Calls = {c1, c2}
    Graphs = {g1, g2}
    Workflows = {w}
    Length = 2
    MaxDeaths = 2
    Plans <- Tolerated
CHECK_DEADLOCK FALSE
INVARIANTS
    ResumedRunsTheRest
