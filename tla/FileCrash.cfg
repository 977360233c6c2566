SPECIFICATION Spec
CONSTANTS
    c1 = c1
    c2 = c2
    g1 = g1
    g2 = g2
    p1 = p1
    small = small
    big = big
    odd = odd
    None = None
    Placeholder = Placeholder
    Clients <- Two
    Requests <- Crashing
    Big <- BigContents
    Unmarshallable <- OddContents
    Modes = {"skip"}
    Graphs <- BothGraphs
    Existing <- SecondGraph
    Faults = {"mkdir", "write", "read", "remove", "scan", "tornGraph"}
    MaxDeletes = 1
    MaxRestarts = 1
INVARIANTS
    TypeOK
    ReferencedContentIsWhole
    OneRewriter
PROPERTIES
    NodesSurvive
