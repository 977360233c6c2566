SPECIFICATION FairSpec
CONSTANTS
    None = None
    Programs <- Correct
INVARIANTS
    TypeOK
    ResultIsMeaning
    ErrorHasCause
    PathNamesInstance
    FutureIsOfItsDependency
PROPERTIES
    EveryoneReturns
