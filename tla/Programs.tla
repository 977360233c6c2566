------------------------------ MODULE Programs ------------------------------
(***************************************************************************)
(* What user code builds with the library, as programs of Resolution: the  *)
(* handlers of the structured output middleware and of the examples. A     *)
(* prompt or a request is the Into handle that carries it.                 *)
(***************************************************************************)
EXTENDS Resolution, TLC

TopCtx(run)   == Ctx(run, <<>>, <<>>)            \* executeInternal
InNode(run)   == Ctx(run, <<<<"top", 0>>>>, <<>>) \* the body of a NewNode "top"
Main(d, ctx)  == [def |-> d, ctx |-> ctx]

\* A program from its tables: definitions as <<id, type, fans, final>>, handles
\* as <<kind, definition, input>>.
Make(defs, handles, local, mayFail, main) ==
    [defs |-> DOMAIN defs, id |-> [d \in DOMAIN defs |-> defs[d][1]],
     type |-> [d \in DOMAIN defs |-> defs[d][2]],
     fans |-> [d \in DOMAIN defs |-> defs[d][3]],
     final |-> [d \in DOMAIN defs |-> defs[d][4]],
     handles |-> DOMAIN handles, 
     kind |-> [h \in DOMAIN handles |-> handles[h][1]],
     def |-> [h \in DOMAIN handles |-> handles[h][2]],
     input |-> [h \in DOMAIN handles |-> handles[h][3]],
     waits |-> [d \in DOMAIN defs |-> {}], tolerated |-> {},
     local |-> local, mayFail |-> mayFail, main |-> main]

------------------------------------------------------------------------------
\* A workflow executed by two goroutines at once, each in a run of its own.
ExecutedTwice(defs, handles, local, mayFail, workflow) ==
    Make(defs @@ [main |-> <<"", "newNode", <<>>, workflow>>], handles, local, mayFail,
         [t1 |-> Main("main", TopCtx("r1")), t2 |-> Main("main", TopCtx("r2"))])

\* simple_chain: a story is expanded from an idea through a Bind, whose mapping
\* fails if there is no idea in the response.
Story == ExecutedTwice(
    [story      |-> <<"storyChainGenerator", "workflow", <<>>, "secondCall">>,
     ideaNode   |-> <<"idea", "leaf", <<>>, None>>,
     expandNode |-> <<"story", "leaf", <<>>, None>>],
    [story      |-> <<"node", "story", "prompt">>,
     firstCall  |-> <<"node", "ideaNode", "request">>,
     secondCall |-> <<"bind", "expandNode", "firstCall">>,
     prompt |-> <<"into", None, None>>, request |-> <<"into", None, None>>],
    {"ideaNode", "expandNode"}, {"ideaNode", "expandNode", "secondCall"}, "story")

\* fanin: two perspectives fanned in, then a third node made from what they
\* say; the function fails if one of them says nothing.
Perspectives ==
    [ExecutedTwice(
        [perspectives   |-> <<"threePerspectives", "workflow", <<>>, "synthesisNode">>,
         synthesis      |-> <<"generate-realistic", "newNode",
                              <<"optimistNode", "pessimistNode", "realisticNode">>, None>>,
         optimist       |-> <<"optimist-view", "leaf", <<>>, None>>,
         pessimist      |-> <<"pessimist-view", "leaf", <<>>, None>>,
         realistic      |-> <<"realistic-synthesis", "leaf", <<>>, None>>],
        [perspectives   |-> <<"node", "perspectives", "question">>,
         synthesisNode  |-> <<"node", "synthesis", None>>,
         optimistNode   |-> <<"node", "optimist", "question">>,
         pessimistNode  |-> <<"node", "pessimist", "question">>,
         realisticNode  |-> <<"node", "realistic", "realisticRequest">>,
         question |-> <<"into", None, None>>, realisticRequest |-> <<"into", None, None>>],
        {"synthesis", "optimist", "pessimist", "realistic"},
        {"synthesis", "optimist", "realistic"}, "perspectives")
     EXCEPT !.waits["synthesis"] = {2}]

\* WithStructuredOutput around the definition llm: the handler may fail before it
\* starts llm's node, on a request that has a format already or a type without
\* a schema; its parser fails on an empty or unparsable response.
StructuredOutputDefs ==
    [structuredOutput |-> <<"openai_structured_output", "workflow", <<>>, "parserNode">>,
     parser           |-> <<"parse_structured_response", "newNode", <<"llmNode">>, None>>]
StructuredOutputHandles(llm) ==
    [parserNode  |-> <<"node", "parser", None>>,
     llmNode     |-> <<"node", llm, "modifiedReq">>,
     modifiedReq |-> <<"into", None, None>>]

\* structuredoutput: a workflow of one structured output node.
Recipe == ExecutedTwice(
    [recipe |-> <<"recipeGeneratorWorkflow", "workflow", <<>>, "recipeHandle">>,
     llm    |-> <<"generate_recipe_json", "leaf", <<>>, None>>] @@ StructuredOutputDefs,
    [recipe       |-> <<"node", "recipe", "topic">>,
     recipeHandle |-> <<"node", "structuredOutput", "request">>,
     topic |-> <<"into", None, None>>, request |-> <<"into", None, None>>]
      @@ StructuredOutputHandles("llm"),
    {"structuredOutput", "parser", "llm"}, {"structuredOutput", "parser", "llm"}, "recipe")

\* mcp, the tool: a workflow of one node.
AdderDefs == [adder |-> <<"adderWorkflow", "workflow", <<>>, "addNode">>,
              add   |-> <<"adderNodeInWorkflow", "leaf", <<>>, None>>]
AdderHandles == [adder   |-> <<"node", "adder", "arguments">>,
                 addNode |-> <<"node", "add", "input">>]

\* mcp: t1 executes the main workflow, a WithMCP node whose loop lists the
\* tools, asks the LLM, calls the tool it asks for, refuses a malformed call and
\* asks again, whatever became of the calls; t2 is the tool's server, which
\* executes the adder's workflow in a run of its own.
ToolExample ==
    [Make(
        [mainTool |-> <<"mainToolWorkflow", "workflow", <<>>, "finalResponse">>,
         mcp      |-> <<"openai_mcp", "workflow", <<>>, "loopHandle">>,
         toolLoop |-> <<"mcp_tool_loop", "newNode",
                        <<"listTools", "llm1", "callTool", "errorHandle", "llm2">>, None>>,
         listTools |-> <<"openai_list_tools", "leaf", <<>>, None>>,
         llm       |-> <<"base_llm_call", "leaf", <<>>, None>>,
         callTool  |-> <<"call_tool", "leaf", <<>>, None>>,
         main      |-> <<"", "newNode", <<>>, "main">>,
         server    |-> <<"", "newNode", <<>>, "adder">>] @@ AdderDefs,
        [main |-> <<"node", "mainTool", "prompt">>,
         finalResponse |-> <<"node", "mcp", "request">>,
         loopHandle |-> <<"node", "toolLoop", None>>,
         listTools  |-> <<"node", "listTools", "nothing">>,
         llm1       |-> <<"node", "llm", "request1">>,
         callTool   |-> <<"node", "callTool", "callInput">>,
         errorHandle |-> <<"error", None, None>>,
         llm2       |-> <<"node", "llm", "request2">>]
          @@ AdderHandles
          @@ [h \in {"prompt", "request", "nothing", "request1", "callInput", "request2",
                     "arguments", "input"} |-> <<"into", None, None>>],
        {"mcp", "toolLoop", "listTools", "llm", "callTool", "add"},
        {"toolLoop", "listTools", "llm", "callTool"},
        [t1 |-> Main("main", TopCtx("r1")), t2 |-> Main("server", TopCtx("r2"))])
     EXCEPT !.waits["toolLoop"] = {1, 2, 4}, !.tolerated = {"callTool", "errorHandle"}]
==============================================================================
