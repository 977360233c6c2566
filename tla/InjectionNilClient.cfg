SPECIFICATION Spec
CONSTANTS
    t1 = t1
    t2 = t2
    llm = llm
    tools = tools
    c1 = c1
    c2 = c2
    c3 = c3
    chat = chat
    list = list
    callTool = callTool
    Nil = Nil
    None = None
    Threads <- Two
    TypeOf <- MCTypeOf
    Accepts <- MCAccepts
    Defs = {llm}
    Users <- Anyone
    Setups <- NilOnly
    MaxSetups = 1
    MaxResets = 0
    MaxStarts = 2
INVARIANTS
    NilClientFailsInGet
CHECK_DEADLOCK FALSE
