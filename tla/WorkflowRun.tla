----------------------------- MODULE WorkflowRun -----------------------------
(***************************************************************************)
(* Runs of workflows: ExecuteWorkflow and executeInternal (core.go), what  *)
(* the executioner of the top workflow does around its nodes               *)
(* (execution_registry.go), and handleRequest of the MCP adapter           *)
(* (mcp/adapter.go), which executes a workflow for every tool call. Many   *)
(* calls share a process, its definitions and its stores; a call may be    *)
(* cancelled, and the process may die and be followed by another one over  *)
(* the same stores.                                                        *)
(*                                                                         *)
(* A workflow is a chain of nodes joined by Bind: each is started when the *)
(* one before it is done. A node is loaded or defined, resolved and saved, *)
(* each in one step: NodeExecution has the steps in between, MemoryStore   *)
(* and FileStore those of the store. A store either refuses to create a    *)
(* graph that exists, as both of the repository do, or tolerates it, as    *)
(* WithExistingUUID asks of one that is to resume runs.                    *)
(***************************************************************************)
EXTENDS Naturals, FiniteSets

CONSTANTS
    Calls,     \* of ExecuteWorkflow and handleRequest, each made at most once
    Graphs,    \* a store and a UUID in it
    Workflows, \* the definitions that are executed
    Length,    \* of the chain of nodes of a workflow
    MaxDeaths, \* bound: how often the process dies
    Plans,     \* who calls what, records with the fields
               \*   graph     [Calls -> Graphs]: WithStore and WithUUID, or the
               \*             defaults, which name a new graph
               \*   workflow  [Calls -> Workflows]
               \*   tools     the calls that come through handleRequest
               \*   tolerant  the graphs of stores that tolerate CreateGraph
               \*   local     the workflows defined anew for each call
    None       \* Go's nil

Nodes == 1..Length

PlanType == [graph : [Calls -> Graphs], workflow : [Calls -> Workflows],
             tools : SUBSET Calls, tolerant : SUBSET Graphs,
             local : SUBSET Workflows]

ASSUME ConstantsAssumption ==
    /\ Length \in Nat \ {0}
    /\ MaxDeaths \in Nat
    /\ Plans \subseteq PlanType
    /\ None \notin Calls

VARIABLES
    plan,      \* the one that is followed
    at,        \* where each call is
    node,      \* the node of the chain each call is at
    instance,  \* the instance ID its workflow was given
    cancelled, \* the calls whose Go context was cancelled
    counter,   \* instanceCounter of each workflow, in this process
    owner,     \* the graphs: who created each, or None
    complete,  \* the nodes with status Complete in the stores
    failed,    \* the nodes with status Error in the stores
    deaths     \* how often the process has died

vars == <<plan, at, node, instance, cancelled, counter, owner, complete,
          failed, deaths>>
stores == <<owner, complete, failed>>

Idle     == "idle"
Lost     == "lost"
Ok       == "ok"
Error    == "error"
Over     == {Ok, Error, Lost}
AtNode   == {"load", "resolve", "save"}
Begun    == {"instance", "workflowCheck", "runCheck", "mapResp"} \cup AtNode
Labels   == {Idle, "mapReq", "create"} \cup Begun \cup Over

Graph(c)    == plan.graph[c]
Workflow(c) == plan.workflow[c]
\* The node a call is at: its key in the store is its graph and its path,
\* which starts with the instance of the workflow.
Node(c, i) == <<Graph(c), Workflow(c), instance[c], i>>
Current(c) == Node(c, node[c])
NodeKeys   == Graphs \X Workflows \X Nat \X Nodes

Init ==
    /\ plan \in Plans
    /\ at = [c \in Calls |-> Idle]
    /\ node = [c \in Calls |-> 1]
    /\ instance = [c \in Calls |-> 0]
    /\ cancelled = {}
    /\ counter = [w \in Workflows |-> 0]
    /\ owner = [g \in Graphs |-> None]
    /\ complete = {}
    /\ failed = {}
    /\ deaths = 0

Goto(c, from, to) == at[c] = from /\ at' = [at EXCEPT ![c] = to]

------------------------------------------------------------------------------
(* The call, until there is a graph.                                         *)

\* ExecuteWorkflow or handleRequest is called.
Start(c) ==
    /\ Goto(c, Idle, IF c \in plan.tools THEN "mapReq" ELSE "create")
    /\ UNCHANGED <<plan, node, instance, cancelled, counter, stores, deaths>>

\* mapReq gives the workflow its input, or an error to the client.
MapRequest(c) ==
    /\ \/ Goto(c, "mapReq", "create")
       \/ Goto(c, "mapReq", Error)
    /\ UNCHANGED <<plan, node, instance, cancelled, counter, stores, deaths>>

\* Mutant: the error of CreateGraph is ignored.
CreateGraph_ErrorIgnored(c) ==
    /\ Goto(c, "create", "instance")
    /\ owner' = [owner EXCEPT ![Graph(c)] = IF @ = None THEN c ELSE @]
    /\ UNCHANGED <<plan, node, instance, cancelled, counter, complete, failed,
                   deaths>>

CreateGraph(c) ==
    /\ owner[Graph(c)] = None \/ Graph(c) \in plan.tolerant
    /\ Goto(c, "create", "instance")
    /\ owner' = [owner EXCEPT ![Graph(c)] = IF @ = None THEN c ELSE @]
    /\ UNCHANGED <<plan, node, instance, cancelled, counter, complete, failed,
                   deaths>>

\* The graph exists: the call returns the error of CreateGraph.
GraphExists(c) ==
    /\ owner[Graph(c)] # None /\ Graph(c) \notin plan.tolerant
    /\ Goto(c, "create", Error)
    /\ UNCHANGED <<plan, node, instance, cancelled, counter, stores, deaths>>

------------------------------------------------------------------------------
(* The workflow and its nodes.                                               *)

\* Mutant: the instance counter is read and never advanced.
TakeInstance_NoAdd(c) ==
    /\ Goto(c, "instance", "load")
    /\ instance' = [instance EXCEPT ![c] = counter[Workflow(c)]]
    /\ UNCHANGED <<plan, node, cancelled, counter, stores, deaths>>

\* internalResolve gives the top workflow its path; the counter lives in the
\* definition, which all calls of the process share unless they made their own.
TakeInstance(c) ==
    /\ Goto(c, "instance", "load")
    /\ IF Workflow(c) \in plan.local
       THEN instance' = [instance EXCEPT ![c] = 0] /\ UNCHANGED counter
       ELSE /\ instance' = [instance EXCEPT ![c] = counter[Workflow(c)]]
            /\ counter' = [counter EXCEPT ![Workflow(c)] = @ + 1]
    /\ UNCHANGED <<plan, node, cancelled, stores, deaths>>

\* Mutant: the chain is one node too long.
NextNode_OneMore(c) ==
    IF node[c] <= Length
    THEN /\ at' = [at EXCEPT ![c] = "load"]
         /\ node' = [node EXCEPT ![c] = @ + 1]
    ELSE /\ at' = [at EXCEPT ![c] = "workflowCheck"]
         /\ UNCHANGED node

\* After a node comes the next one or, after the last, the end of the workflow.
NextNode(c) ==
    IF node[c] < Length
    THEN /\ at' = [at EXCEPT ![c] = "load"]
         /\ node' = [node EXCEPT ![c] = @ + 1]
    ELSE /\ at' = [at EXCEPT ![c] = "workflowCheck"]
         /\ UNCHANGED node

\* loadOrDefineState: a finished node is not run again; its result, or its
\* error, is what was stored. Any other is defined or goes on, and is run.
Load(c) ==
    /\ at[c] = "load"
    /\ \/ Current(c) \in complete /\ NextNode(c)
       \/ Current(c) \in failed /\ Goto(c, "load", Error) /\ UNCHANGED node
       \/ Current(c) \notin complete \cup failed
          /\ Goto(c, "load", "resolve") /\ UNCHANGED node
    /\ UNCHANGED <<plan, instance, cancelled, counter, stores, deaths>>

\* The resolver returns a value, ...
ResolverReturns(c) ==
    /\ Goto(c, "resolve", "save")
    /\ UNCHANGED <<plan, node, instance, cancelled, counter, stores, deaths>>

Complete(c) ==
    /\ at[c] = "save"
    /\ complete' = complete \cup {Current(c)}
    /\ NextNode(c)
    /\ UNCHANGED <<plan, instance, cancelled, counter, owner, failed, deaths>>

\* Mutant: the error of a resolver is stored, and not returned.
NodeFails_Swallowed(c) ==
    /\ at[c] = "resolve"
    /\ failed' = failed \cup {Current(c)}
    /\ NextNode(c)
    /\ UNCHANGED <<plan, instance, cancelled, counter, owner, complete, deaths>>

\* ... or an error, which is stored and then returned by everything around it.
NodeFails(c) ==
    /\ Goto(c, "resolve", Error)
    /\ failed' = failed \cup {Current(c)}
    /\ UNCHANGED <<plan, node, instance, cancelled, counter, owner, complete,
                   deaths>>

\* Mutant: the run's context is not derived from the caller's.
Done_Background(c) == FALSE

\* execCtx.Done(): the run's context is derived from the caller's.
Done(c) == c \in cancelled

\* A resolver that waits looks at its context, too.
ResolverStops(c) == Done(c) /\ NodeFails(c)

\* A store call fails, without effect: no graph, no node or no new status.
StoreFails(c) ==
    /\ \E label \in {"create", "load", "save"} : Goto(c, label, Error)
    /\ UNCHANGED <<plan, node, instance, cancelled, counter, stores, deaths>>

------------------------------------------------------------------------------
(* The end of the call, and of the process.                                  *)

\* The workflow's executioner has its result and looks at the context.
WorkflowChecks(c) ==
    /\ IF Done(c) THEN Goto(c, "workflowCheck", Error)
       ELSE Goto(c, "workflowCheck", "runCheck")
    /\ UNCHANGED <<plan, node, instance, cancelled, counter, stores, deaths>>

\* Mutant: executeInternal returns what it was given.
RunChecks_NoCheck(c) ==
    /\ Goto(c, "runCheck", IF c \in plan.tools THEN "mapResp" ELSE Ok)
    /\ UNCHANGED <<plan, node, instance, cancelled, counter, stores, deaths>>

\* executeInternal looks at it again, and the call returns.
RunChecks(c) ==
    /\ IF Done(c) THEN Goto(c, "runCheck", Error)
       ELSE Goto(c, "runCheck", IF c \in plan.tools THEN "mapResp" ELSE Ok)
    /\ UNCHANGED <<plan, node, instance, cancelled, counter, stores, deaths>>

\* mapResp gives the client its answer, or an error.
MapResponse(c) ==
    /\ \/ Goto(c, "mapResp", Ok)
       \/ Goto(c, "mapResp", Error)
    /\ UNCHANGED <<plan, node, instance, cancelled, counter, stores, deaths>>

\* The caller cancels its context, or its time is up.
Cancel(c) ==
    /\ at[c] \notin Over \cup {Idle}
    /\ cancelled' = cancelled \cup {c}
    /\ UNCHANGED <<plan, at, node, instance, counter, stores, deaths>>

\* The process dies and another one opens the stores: calls and counters are
\* gone. Calls that were not made yet may be made in the new process.
Die ==
    /\ deaths < MaxDeaths
    /\ deaths' = deaths + 1
    /\ at' = [c \in Calls |-> IF at[c] \in Over \cup {Idle} THEN at[c] ELSE Lost]
    /\ counter' = [w \in Workflows |-> 0]
    /\ UNCHANGED <<plan, node, instance, cancelled, stores>>

------------------------------------------------------------------------------
\* What the framework does in a call, the mapping functions included.
Framework(c) ==
    \/ MapRequest(c) \/ CreateGraph(c) \/ GraphExists(c) \/ TakeInstance(c)
    \/ Load(c) \/ Complete(c) \/ WorkflowChecks(c) \/ RunChecks(c)
    \/ MapResponse(c)

Resolver(c) == ResolverReturns(c) \/ NodeFails(c) \/ ResolverStops(c)

Next == \/ \E c \in Calls : \/ Start(c) \/ Framework(c) \/ Resolver(c)
                            \/ StoreFails(c) \/ Cancel(c)
        \/ Die

Spec == Init /\ [][Next]_vars

\* The scheduler runs every call, and a resolver whose context is done returns.
\* One whose context is not may take forever: nothing in the code bounds it.
FairSpec == Spec /\ \A c \in Calls : /\ WF_vars(Framework(c))
                                     /\ WF_vars(ResolverStops(c))

------------------------------------------------------------------------------
(* Properties.                                                               *)

TypeOK ==
    /\ plan \in Plans
    /\ at \in [Calls -> Labels]
    /\ node \in [Calls -> Nodes]
    /\ instance \in [Calls -> Nat]
    /\ cancelled \subseteq Calls
    /\ counter \in [Workflows -> Nat]
    /\ owner \in [Graphs -> Calls \cup {None}]
    /\ complete \subseteq NodeKeys
    /\ failed \subseteq NodeKeys
    /\ deaths \in 0..MaxDeaths

\* In stores that refuse, graphs and runs keep RunContract: one run per graph,
\* in this process and the next ones; nothing is written once the run is over;
\* success is of a whole graph (CreateGraph in executeInternal, core.go).
Refusing(g) == g \notin plan.tolerant

Phase(c) == IF at[c] \in Begun THEN "running"
            ELSE IF at[c] \in Over THEN at[c] ELSE "ready"

CompleteIn(g) == {i \in Nodes : \E k \in complete : k[1] = g /\ k[4] = i}

Contract == INSTANCE RunContract WITH
    Runs    <- Calls,
    phase   <- [c \in Calls |-> IF Refusing(Graph(c)) THEN Phase(c) ELSE "ready"],
    owner   <- [g \in Graphs |-> IF Refusing(g) THEN owner[g] ELSE None],
    content <- [g \in Graphs |-> IF Refusing(g) THEN CompleteIn(g) ELSE {}]

KeepsContract == Contract!Spec

\* A node that is complete in its graph is not run: not by a run that goes on
\* where an earlier one died, nor by one that shares the graph with another
\* (the paths made of instance counters, and loadOrDefineState).
CompleteIsNotRun ==
    \A c \in Calls : at[c] \in {"resolve", "save"} => Current(c) \notin complete

\* A run that succeeds has a complete node for each of its chain, in its own
\* instance, whoever completed it.
SuccessIsWhole ==
    \A c \in Calls : at[c] \in {Ok, "mapResp"} =>
        \A i \in Nodes : Node(c, i) \in complete

\* A run that is cancelled before its last step does not succeed.
Succeeded(c) == at[c] \in {Ok, "mapResp"}
CancelledFails ==
    [][\A c \in cancelled : Succeeded(c)' => Succeeded(c)]_vars

\* A cancelled call returns, whatever node it was at: cancelling gets a caller
\* out of a resolver that would never return.
CancelledReturns == \A c \in Calls : c \in cancelled ~> at[c] \in Over

\* A run on the graph of a run that is over does not run a node again that the
\* earlier one completed.
Resumes(c) == owner[Graph(c)] # c /\ at[owner[Graph(c)]] \in Over
ResumedRunsTheRest ==
    \A c \in Calls : at[c] = "resolve" /\ Resumes(c) =>
        \A k \in complete :
            <<k[1], k[2], k[4]>> # <<Graph(c), Workflow(c), node[c]>>

\* A graph whose run has died accepts the call that is to resume it.
ResumedIsAccepted ==
    [][\A c \in Calls : GraphExists(c) => at[owner[Graph(c)]] # Lost]_vars
==============================================================================
