SPECIFICATION Spec
CONSTANTS
    t1 = t1
    t2 = t2
    llm = llm
    tools = tools
    c1 = c1
    c2 = c2
    c3 = c3
    chat = chat
    list = list
    callTool = callTool
    Nil = Nil
    None = None
    Threads <- Two
    TypeOf <- MCTypeOf
    Accepts <- MCAccepts
    Defs <- Both
    Users <- OneEach
    Setups <- Various
    MaxSetups = 2
    MaxResets = 1
    MaxStarts = 3
INVARIANTS
    TypeOK
    RegisteredWhole
    GetHasDependency
PROPERTIES
    DependencyStays
CHECK_DEADLOCK FALSE
