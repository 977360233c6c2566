---------------------------- MODULE MCResolution ----------------------------
(* Programs for Resolution made to meet its hazards, and which programs the  *)
(* .cfg files run.                                                           *)
EXTENDS Programs

\* One workflow executed by two goroutines, each with a run of its own. Its
\* handler returns a NewNode that fans in a node and a node fed by a Bind.
TwoRuns == Make(
    [wf   |-> <<"wf", "workflow", <<>>, "n">>,
     n    |-> <<"n", "newNode", <<"x", "y">>, None>>,
     a    |-> <<"a", "leaf", <<>>, None>>,
     b    |-> <<"b", "leaf", <<>>, None>>,
     main |-> <<"", "newNode", <<>>, "w">>],
    [w |-> <<"node", "wf", "i1">>, n |-> <<"node", "n", None>>,
     x |-> <<"node", "a", "i1">>,  y |-> <<"node", "b", "c">>,
     c |-> <<"bind", "a", "i2">>,
     i1 |-> <<"into", None, None>>, i2 |-> <<"into", None, None>>],
    {"n"}, {"b"},
    [t1 |-> Main("main", TopCtx("r1")), t2 |-> Main("main", TopCtx("r2"))])

\* Two goroutines of one NewNode function: one fans in a node and a workflow,
\* the other a second workflow, a constant and a chain through a Bind. Both
\* workflows define a NewNode of the same name; all nodes share definition a.
Branches == Make(
    [wa   |-> <<"wa", "workflow", <<>>, "na">>,
     wb   |-> <<"wb", "workflow", <<>>, "nb">>,
     na   |-> <<"n", "newNode", <<>>, "i1">>,
     nb   |-> <<"n", "newNode", <<>>, "i2">>,
     a    |-> <<"a", "leaf", <<>>, None>>,
     main1 |-> <<"", "newNode", <<"x", "wa">>, None>>,
     main2 |-> <<"", "newNode", <<"wb", "i2", "y">>, None>>],
    [wa |-> <<"node", "wa", "i1">>, wb |-> <<"node", "wb", "i1">>,
     na |-> <<"node", "na", None>>, nb |-> <<"node", "nb", None>>,
     x |-> <<"node", "a", "i1">>,  y |-> <<"node", "a", "c">>,
     c |-> <<"bind", "a", "s">>,   s |-> <<"node", "a", "i2">>,
     i1 |-> <<"into", None, None>>, i2 |-> <<"into", None, None>>],
    {"na", "nb"}, {"a"},
    [t1 |-> Main("main1", InNode("r1")), t2 |-> Main("main2", InNode("r1"))])

\* One handle feeds two nodes (a diamond).
Diamond == Make(
    [a    |-> <<"a", "leaf", <<>>, None>>,
     p    |-> <<"p", "leaf", <<>>, None>>,
     q    |-> <<"q", "leaf", <<>>, None>>,
     main |-> <<"", "newNode", <<"p", "q">>, None>>],
    [s |-> <<"node", "a", "i1">>, p |-> <<"node", "p", "s">>,
     q |-> <<"node", "q", "s">>, i1 |-> <<"into", None, None>>],
    {}, {}, [t1 |-> Main("main", InNode("r1"))])

\* The output of one WithMCP workflow is the input of another in one scope;
\* both have the NodeID "openai_mcp".
TwoMCP == Make(
    [mcp1 |-> <<"openai_mcp", "workflow", <<>>, "x">>,
     mcp2 |-> <<"openai_mcp", "workflow", <<>>, "x">>,
     llm  |-> <<"llm", "leaf", <<>>, None>>,
     main |-> <<"", "newNode", <<"m2">>, None>>],
    [m1 |-> <<"node", "mcp1", "i1">>, m2 |-> <<"node", "mcp2", "m1">>,
     x |-> <<"node", "llm", "i1">>, i1 |-> <<"into", None, None>>],
    {}, {}, [t1 |-> Main("main", InNode("r1"))])

\* FanIn on a handle made by Bind.
FanInBind == Make(
    [a    |-> <<"a", "leaf", <<>>, None>>,
     main |-> <<"", "newNode", <<"c">>, None>>],
    [c |-> <<"bind", "a", "x">>, x |-> <<"node", "a", "i1">>,
     i1 |-> <<"into", None, None>>],
    {}, {}, [t1 |-> Main("main", InNode("r1"))])

\* Two goroutines of one NewNode function fan in the same handle.
SharedHandle(mayFail) == Make(
    [a    |-> <<"a", "leaf", <<>>, None>>,
     b    |-> <<"b", "leaf", <<>>, None>>,
     main1 |-> <<"", "newNode", <<"s">>, "p">>,
     main2 |-> <<"", "newNode", <<"s", "s">>, None>>],
    [s |-> <<"node", "a", "i1">>, p |-> <<"node", "b", "s">>,
     i1 |-> <<"into", None, None>>],
    {}, mayFail,
    [t1 |-> Main("main1", InNode("r1")), t2 |-> Main("main2", InNode("r1"))])
Shared        == SharedHandle({})
SharedFailing == SharedHandle({"a"})

\* FanIn on two nodes that do not depend on each other.
TwoBranches == Make(
    [a    |-> <<"a", "leaf", <<>>, None>>,
     b    |-> <<"b", "leaf", <<>>, None>>,
     main |-> <<"", "newNode", <<"x", "y">>, None>>],
    [x |-> <<"node", "a", "i1">>, y |-> <<"node", "b", "i1">>,
     i1 |-> <<"into", None, None>>],
    {}, {}, [t1 |-> Main("main", InNode("r1"))])

\* What a .cfg gives to Programs.
Correct           == {TwoRuns, Branches, Shared, Story, Perspectives, Recipe, ToolExample}
OnlyDiamond       == {Diamond}
OnlyTwoMCP        == {TwoMCP}
OnlyFanInBind     == {FanInBind}
OnlySharedFailing == {SharedFailing}
OnlyTwoBranches   == {TwoBranches}

\* The theorems of ResolutionProofs are about programs such as these ...
ASSUME CorrectAreWellBuilt == \A p \in Correct : WellBuilt(p) /\ NoCycles(p)
ASSUME CorrectOwnHandles == \A p \in Correct \ {Shared} : OwnHandles(p)
\* ... and their hypotheses are of use.
ASSUME OthersAreNot == ~PathsApart(TwoMCP) /\ ~FansNodes(FanInBind) /\ ~OwnHandles(SharedFailing)

==============================================================================
