SPECIFICATION Spec
CONSTANTS
    None = None
    Programs <- OnlyDiamond
INVARIANTS
    OneInstancePerHandle
