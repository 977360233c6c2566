SPECIFICATION Spec
CONSTANTS
    Uses <- OnlySpare
    MaxIterations = 2
INVARIANTS
    EveryCallAnswered
