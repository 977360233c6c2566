SPECIFICATION Spec
CONSTANTS
    Uses <- OnlyAlone
    MaxIterations = 2
INVARIANTS
    NoneIsRespected
