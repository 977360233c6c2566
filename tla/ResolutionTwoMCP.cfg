SPECIFICATION Spec
CONSTANTS
    None = None
    Programs <- OnlyTwoMCP
INVARIANTS
    PathNamesInstance
