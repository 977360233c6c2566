SPECIFICATION FairSpec
CONSTANTS
    c1 = c1
    c2 = c2
    in1 = in1
    in2 = in2
    good = good
    odd = odd
    Zero = Zero
    NoAnswer = NoAnswer
    NoNode = NoNode
    NoContent = NoContent
    Gone = Gone
    Placeholder = Placeholder
    Callers <- MCCallers
    Inputs <- MCInputs
    Outputs <- MCOutputs
    Unmarshallable <- MCUnmarshallable
    HasInput = TRUE
    Modes = {"strict", "skip", "placeholder"}
    MaxRestarts = 2
INVARIANTS
    TypeOK
    ResolverRunsOnce
    ContentBeforeStatus
    StoreAgreesWithAnswer
    SuccessWasComputed
PROPERTIES
    FinishedNeverRuns
    OnceForAllCallers
    StoredStatusMovesForward
    EveryCallerAnswered
CHECK_DEADLOCK FALSE
