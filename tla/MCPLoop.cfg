SPECIFICATION FairSpec
CONSTANTS
    Uses <- Safe
    MaxIterations = 2
INVARIANTS
    TypeOK
    EveryCallAnswered
    InvokedOnceAndTold
    ChoiceIsFreeOnceCalled
PROPERTIES
    Returns
