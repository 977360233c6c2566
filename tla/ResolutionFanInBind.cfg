SPECIFICATION Spec
CONSTANTS
    None = None
    Programs <- OnlyFanInBind
INVARIANTS
    FutureIsOfItsDependency
