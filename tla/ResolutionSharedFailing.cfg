SPECIFICATION Spec
CONSTANTS
    None = None
    Programs <- OnlySharedFailing
INVARIANTS
    FutureIsOfItsDependency
