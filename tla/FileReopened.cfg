SPECIFICATION Spec
CONSTANTS
    c1 = c1
    c2 = c2
    g1 = g1
    g2 = g2
    p1 = p1
    small = small
    big = big
    odd = odd
    None = None
    Placeholder = Placeholder
    Clients <- Two
    Requests <- StoreAndGet
    Big <- BigContents
    Unmarshallable <- OddContents
    Modes = {"strict"}
    Graphs <- BothGraphs
    Existing = {}
    Faults = {}
    MaxDeletes = 0
    MaxRestarts = 1
INVARIANTS
    RetrievableByHash
