# Formal verification of go-agent-framework

TLA+ models of the runtime of `go-agent-framework`, the TLC configurations that
check them on small instances, and machine-checked proofs of what matters most
about nodes, handles, runs, stores, injection and the tool loop. Paths below are those of the
repository.

The framework runs graphs of typed nodes. User code starts definitions and gets
lazy *handles*; executing a handle resolves its inputs, runs each node's
resolver, keeps every node's state, input and output in a *store*, and hands
results on through futures. Workflows and `NewNode` functions build more handles
while they run. On top of this are OpenAI nodes and a middleware that lets an LLM
call MCP tools.

## 1. Inventory

| Component | Source | State it keeps | Operations | Hard behaviours |
|---|---|---|---|---|
| Node execution | `node_execution.go`, `nodestate.go` | status, error, input, output, two "not persisted" flags, a memo published by closing `doneCh`; the node's state map, request and response in the store | `getResult`, `execute`, `loadOrDefineState`, `completeExecution` | many callers and one run; any store call failing; panics; a crash between two updates |
| Resolution, registries, FanIn | `workflow.go`, `execution_registry.go`, `core.go`, `node.go` | an instance counter per definition, a path per handle, executioners per path in each registry | `internalResolve`, `getOrCreateExecution`, bodies of workflows and NewNodes, `Bind`, `Into`, `FanIn` | counters, handles and registries shared by goroutines and runs; executioners waiting for each other |
| Run entry, options | `core.go` | the run's graph, context, registry | `ExecuteWorkflow`, `executeInternal`, `With*` | cancellation at any point; a graph that exists; a death and a second run on the same graph; many runs of one definition |
| Store interface | `store/store.go` | graphs of nodes, contents | `GraphStore`, `ContentStore` | what a call promises |
| In-memory store | `store/memorystore.go` | the map of graphs, graph objects, contents by hash, the active graph | all of both interfaces | a global lock and one per graph, taken in different orders; objects that outlive their deletion |
| File store | `store/filestore.go` | graph.json and content files; the known graphs, a map of locks, the active graph | the same | load-change-save; failing and torn writes; crash; a lock map that changes |
| Dependency injection | `dependencyinjection.go`, `node.go`, `nodes/openai/` | a global map from node type to dependency; `initErr`, `initializer` of each definition; the resolver's initializer and its client | `Dependencies`, `ResetDependencies`, `Start`, `Init`, `Get` | definitions shared by goroutines without a lock |
| MCP tool loop | `nodes/openai/middleware/mcp.go`, `nodes/openai/internal/` | the messages, the round, whether tools were called | the loop, `ListTools`, `CallTool` | every call answered once; tools with effects; termination; loops that append to one slice of the caller |
| Structured output | `nodes/openai/middleware/structuredoutput.go` | none of its own | a workflow: one LLM node and a parser | may fail before, in and after the node |
| MCP server adapter | `mcp/adapter.go` | none | `handleRequest`: one run of the workflow per tool call | calls share the definition and its counter; mapping functions fail |
| Examples | `examples/` | none | handlers built of the library's calls | nested scopes, captured handles, tolerated failures |
| Client interface | `nodes/openai/clientiface/` | none | - | - |

How they interact. `executeInternal` creates the run's graph in the store and a
root registry, and calls `internalResolve` on a handle. That gives the handle a
path, from its definition's counter, and asks the registry of its scope for the
executioner of that path, making one if there is none; `getResult` of the
executioner runs it once, and its input comes from another `internalResolve`. A
workflow's executioner makes a registry of its own and calls the user's handler;
a NewNode's calls the user's function with the registry around it. Within, `FanIn`
calls `internalResolve`. Every executioner of a node writes the store; nothing
else does. `Start` of a definition injects dependencies; the registry reads the
outcome when the handle is resolved. The MCP loop is the body of a NewNode; the MCP
adapter calls `ExecuteWorkflow` for each request of a client.

What makes each correct:

- *Node execution*: a node runs once and everyone gets the same answer; what is
  stored agrees with what was answered, at the end and, for whoever reads or
  crashes, at every step; a finished node is never run again.
- *Resolution*: a path is one node; a handle gets its own executioner and
  its result is the value its expression stands for, whoever else runs; an error
  comes from a failure of something the handle depends on; nobody waits forever.
- *Runs*: a graph belongs to one run and is written only while that run goes on;
  success is of a whole graph, never of a cancelled run; a complete node is not run
  again, by whoever; a cancelled call returns.
- *Stores*: each call is atomic and, for files, durable, whatever is going on
  inside; nothing refers to a content that is not there; calls return.
- *Injection*: what is registered stays and is registered whole; a node runs with
  the dependency that was there when it was started.
- *Tool loop*: each request to the LLM answers all earlier calls, in order, once;
  no tool is invoked twice for one call; the loop ends.

## 2. Modules

| Module | Models |
|---|---|
| `OnceResult` | abstract: an executioner publishes one result and gives it to all |
| `NodeExecution` | one node execution and its part of the store |
| `NodeExecutionProofs` | theorems of `NodeExecution` |
| `RunContract` | abstract: a graph belongs to one run, which alone writes it, and success is of all of it |
| `WorkflowRun` | calls of `ExecuteWorkflow` and of the MCP adapter: graphs, instances, nodes in their order, cancellation, death of the process |
| `WorkflowRunProofs` | theorems of `WorkflowRun` |
| `Resolution` | handles, counters, paths, registries, bodies, FanIn, for a program given as a constant |
| `ResolutionProofs` | theorems of `Resolution` |
| `Programs` | the handlers of the structured output middleware and of the examples, as programs of `Resolution` |
| `GraphStore` | abstract: a store whose calls are atomic |
| `MemoryStore`, `FileStore` | the two stores, lock by lock |
| `Maps` | Go's maps: put, merge |
| `Injection` | registration and injection, one memory access at a time |
| `MCPLoop` | loops of `WithMCP`, and the slice of messages they share |
| `MapTheorems`, `MemoryStoreProofs`, `FileStoreProofs` | theorems of the maps and of the stores |
| `InjectionProofs`, `MCPLoopProofs` | theorems of `Injection` and `MCPLoop` |
| `MC*` | constants for TLC: callers, programs, requests |

The decomposition is by what an executioner and a store promise. `NodeExecution`
looks inside one executioner and shows (property `OnceForAllCallers`, a refinement)
that it implements `OnceResult`; `Resolution` has many executioners and uses no
more of each than that promise: new, running in one goroutine, or done with its
result. `NodeExecution` uses of the store that a call takes effect at once or
fails without effect; `MemoryStore` and `FileStore` implement `GraphStore`, which
says that. `WorkflowRun` is above all of these: a node is loaded, run and saved, one
step each, in a store whose calls are atomic; it implements `RunContract`
(`KeepsContract`).

### Correspondence

**NodeExecution.** `pc` is where the goroutine inside `execOnce.Do` stands; a
label is the next call that can fail, block or be seen by others (a store call,
resolving the input, the resolver, the deferred memoization, `close(doneCh)`). One
action is one such call with the assignments up to the next one. `caller` and
`answer` are the goroutines in `getResult`: they wait in `Do` until `execute` has
returned. `node`, `request`, `response` are the node in the store; a `StateMap` is
`currentNodeStateMap`, whose error text is a kind. `runs`, `computed`, `restarts`
are histories. `Panic` is enabled at every label at which `execute` calls code that is not its
own (`CanPanic`): every call of the store, what is below the input, a `MarshalJSON`, the resolver.
A panic in the update that records a panic leaves `getResult` and is not modelled. `Restart` is
the death of the process and a new one over the same graph, with contents
perhaps deleted. With the stores of the repository the second process cannot get
there, because `CreateGraph` refuses a graph that exists (`core.go:663`) and
`README.md` lists resuming as future work; the loading code is modelled and
checked because it is there, and `WithExistingUUID` (`core.go:766`) asks for a
store that tolerates it. `WorkflowRun` has both kinds of store. What is claimed of one
process only says `Defining`.

**WorkflowRun.** `at` is where a call is: in `mapReq` of the adapter, before
`CreateGraph`, before the counter of the workflow, at a node (`load`, `resolve`,
`save`), before each of the two looks at the context (`workflowCheck` in the
workflow's executioner, `runCheck` in `executeInternal`), in `mapResp`, or over.
`owner` is who created a graph; `complete` and `failed` are the nodes in the stores, each
named by graph, workflow, instance and place in the chain, as its path is. `counter`
is in the definition and dies with the process, the stores do not. A `Plan` says which
call names which graph and workflow, which come through the adapter, which graphs are in
a store that tolerates `CreateGraph` of a graph that exists (none of the repository does)
and which workflows are defined anew in each call. `Cancel` and `Die` may happen at any
moment. A resolver returns, fails, looks at its context or never ends.

**Resolution.** Each goroutine has a stack of the calls it is in: `resolve`
(`internalResolve`), `execute` (an executioner's once), `body` (a user function).
Steps are separated where goroutines meet: the counter (`GetNextInstanceID`), the
path written on the handle (one field of an object; `SetPath` keeps it per Context, since a handle of a
program stands for the object each execution of its body makes, and no program of the runs resolves one
object in two scopes at once), its reading back, the registry (locked while it makes
an executioner) and the wait for one that is running. `execs` is all registries,
keyed by run, registry and path; `program` is what user code built. Values are
terms, so that `Meaning` can say which value a handle stands for. An error carries
its causes, the failures of user code (`mayFail`: resolvers, bodies, functions given to
`Bind`) and handles made by `IntoError`; it is passed on as the code does, by wrapping,
and `ErrorHasCause` says what may be in it. `fans` lists what a body fans in and, where
it fans in again after waiting for futures, `waits`; `tolerated` are the handles whose
failure a body takes for an answer. A body may use handles of an outer scope.
`Programs` builds these tables for the handlers of the examples and of the structured
output middleware (a workflow with a node and a parser that fail); the programs of
`MCResolution` are made to meet hazards.

**MemoryStore, FileStore.** A call is invoked, takes its steps and returns; a step
is what is done under one lock, or one file operation. In `MemoryStore` the locks
are read off what the calls are doing (`GlobalFree`, `DataFreeOfReaders`); graph
objects are numbered, since a call may hold one the map no longer names.
`FileStore` has the lock map with its generations (`lockOf`): a call fetches a lock,
waits for it and uses it, and `DeleteGraph` takes it from the map in between. Hashes
are the contents they are of; `Big` contents go to files. `Faults` lists which
operations may fail and which writes may be torn (`os.WriteFile` makes new files in
place; graph.json is replaced by a rename): making a directory, a write, a read or a look at a file,
a removal, the look at each graph's file when the directory is opened (`scan`). A removal that fails
may have removed any of the files (`HalfRemoved`): in `DeleteGraph`, and in `CreateGraph` when it
cleans up after a write that failed, where the error is ignored and the directory may be left.

**Injection.** A goroutine's `call` is in `Dependencies`, `Start` or a resolution; the
fields of a definition and of its resolver are read and written one at a time, since
nothing guards them; the two reads of the initializer in `Get` are one (`GetChecks`), since once it is
there it may be replaced but not taken away. `handle` keeps, of each started handle, the dependency that
was registered when `Start` began and what became of the handle.

**MCPLoop.** `pc` walks through the loop; the LLM's answers and the tools' fates are
free. `use` says which loops run, on which request and how much room the array behind
its messages has: `array` is that room, and a loop's `currentMessages` are the first
`len` cells of it while `shared`, its own after an `append` that did not fit. An append
is one step; that two loops which write one cell race and may tear it is not modelled.
`FanIn` runs its dependency before it returns, so the tools of a round run one
after the other although the code says "in parallel" (`mcp.go`, "Invoke Tools in
Parallel"); `invoked` is the history of calls that reached a tool.

## 3. Runs

All finish within four minutes with two workers. "States" are distinct states.

| Run | Instance | States | Shows |
|---|---|---|---|
| `node` | 2 callers, 2 restarts, all three modes, outputs with and without a JSON form | 513,222 | all safety of one node, with failures and panics at every call it makes, the refinement of `OnceResult`, and that every caller is answered |
| `resolution` | three programs with two goroutines each, four of the examples and structured output | 104,363 | paths are unique, handles get their executioner and futures their results, results are what they mean, errors have a cause, everyone returns |
| `workflow_run` | 2 calls, 2 graphs, 1 workflow of 2 nodes, 2 deaths, 4 plans | 26,990 | runs implement `RunContract`; a complete node is not run, success is whole and never of a cancelled call, which returns |
| `memory_atomic` | 2 clients, one graph, one node, all modes, embedded, external and unmarshallable contents | 78,758 | `MemoryStore` implements `GraphStore` |
| `memory_deleting` | 2 clients that delete graphs and contents others use | 73,615 | a missing content was deleted by `DeleteContent`; the active graph exists |
| `file_atomic` | 2 clients, 2 graphs, failing mkdir, reads and writes, 1 restart | 1,222,493 | `FileStore` implements the durable `GraphStore`; a known graph has its file |
| `file_crash` | 2 clients, 2 graphs, one deleted while both use it; failing mkdir, reads, writes and removals, torn graph.json, 1 restart that may overlook a graph | 2,210,680 | nodes survive; a content named by a node is in its file, whole; one call at a time rewrites a graph |
| `injection` | 2 goroutines with a definition each, 2 registrations of several kinds, 1 reset, 3 starts | 700,560 | registration is whole and stays; nodes run with their dependency |
| `mcp_loop` | 2 rounds; one loop with up to 2 calls in a round, ids that may repeat, every form of call and kind of `ToolChoice`; two loops on one request | 617,597 | one answer per call in order, no tool twice, a free choice after tools, the loop returns |
| `memory_deadlock` | violation of `EveryCallReturns` | | `DeleteGraph` and a reader of an external content wait for each other |
| `file_lost_graph` | violation of `CreatedIsKnown` | | a call on a graph being created makes the store forget it |
| `injection_shared` | violation of `GetHasDependency` | | two first `Start`s of one definition inject into an object the node does not use |

### Why the bounds are enough

- `node`: two callers give the one that runs and one that waits or comes late; a
  third does what the second does. Two restarts give a process that finds what
  another loaded and wrote. Beyond these bounds the theorems hold.
- `resolution`: two goroutines are what the races on one counter, one path and one
  registry need. The programs have every kind of definition and handle: `TwoRuns`
  shares definitions and counters between two runs, with a workflow, a NewNode
  in it, a Bind and a failing leaf; `Branches` has scopes within scopes with equal
  names, two workflows, a constant and a chain; `Shared` has one handle resolved by
  both. The programs of `Programs` add what only they do: a mapping of a Bind that fails
  (`Story`), a body that uses handles of the workflow around it and fans in again after
  waiting (`Perspectives`), workflows inside workflows that fail in the handler, the node or
  the parser (`Recipe`), failures that a body tolerates, `IntoError`, and a tool's server
  that runs a workflow of its own (`ToolExample`).
- `workflow_run`: two calls meet on one graph, or each has its own; two deaths leave one
  graph behind that a call of the next process names, and kill that call, too. A chain
  of two has a node behind and a node ahead. Beyond these bounds the theorems hold.
- stores: two clients, since every race here is between two calls; a graph and a
  node for both to meet on, a second graph for `activeGraph` and the maps; one
  content of each kind. `MaxDeletes`, `MaxObjects` allow a graph to be made again
  after a deletion; with `MaxDeletes` 1 a process of the file store runs deletes one graph or the other. One restart: the process that opens the directory has no memory
  of an earlier one, so a second finds nothing that a first would not.
- `injection`: each of two definitions has its own goroutine, which is the use the
  code supports (see `injection_shared` for the other); three starts give one
  definition two handles.
- `mcp_loop`: `MaxIterations` is 2 for the code's 10: one round that is followed by
  another and one that is the last; the loop has no other use of the number. `Alone` has two
  spare cells, so that what the first round appends fits or does not; `TwoFull` is two
  loops on messages without spare cells, where they do not meet.

### Fairness

Four runs that pass have liveness. `node`: `WF(Execute)` and `WF(Answer(c))`, that
is, the goroutine in `execute` keeps running, and so does one whose wait is over;
it includes that store calls, the input and the resolver return, which the code
takes for granted (it has no timeouts). No fairness for `GetResult` or `Restart`: nobody
has to call, no process has to die. `resolution`: each goroutine keeps taking its
steps, a waiting one only when it can, and leaves return. `workflow_run`: `WF(Framework(c))`
and `WF(ResolverStops(c))`, that is, the framework's own steps are taken, and a resolver
whose context is done returns; one with a live context may run forever, since nothing in
the code bounds it, and so only cancelled calls are claimed to return. `mcp_loop`: each
loop's goroutine runs and what it calls returns. All weak: each action, once enabled, stays
enabled until it is taken, since nobody else can disable it but the death of the process, after
which nothing is left to do. `memory_deadlock` uses weak
fairness of each call's steps, so that the counterexample is a wait for locks, not a
goroutine that stops.

### Deadlock

Checked except in `node`, `workflow_run`, `injection` and `injection_shared`, which really
end when their callers have been answered or their bounds (`MaxStarts`, ...) are reached, and in
`memory_deadlock`, where the deadlock is what the temporal property finds.

## 4. Proofs

Every theorem is for all values of the constants: any set of callers, clients, graphs,
requests and values, any mode, plan or fault, any number of restarts. What a module assumes of its
constants is named in it: special values (`None`, `NoNode`, `Placeholder`, ...) are not ordinary
ones, bounds are numbers, requests have the fields of the API. A theorem with a further hypothesis says
so, and below each stands what happens without it. Every inductive invariant named here was checked
with TLC on the runs of its module before it was proved.

### Nodes (`NodeExecutionProofs`)

| Theorem | Statement |
|---|---|
| `TypeCorrect` | `Spec => []TypeOK` |
| `RunsOnce` | `Spec => []ResolverRunsOnce` |
| `FinishedIsFinal` | `Spec => FinishedNeverRuns` |
| `Implements` | `Spec => OnceForAllCallers`: every step publishes, replies, forgets or stutters |
| `ContentFirst` | `Spec => []ContentBeforeStatus` |
| `AnswerIsRecorded` | `Spec => []StoreAgreesWithAnswer` |
| `SuccessIsReal` | `Spec => []SuccessWasComputed` |
| `StatusForward` | `Spec => StoredStatusMovesForward` |

None of these is inductive. The first four follow from
`IInv == TypeOK /\ RunInv /\ FinishInv /\ EndInv /\ AnswerInv`:

- `RunInv`: at the labels up to the call of the resolver, and those of a process that loads what
  another one finished, this process has not called it; so its one call leads to where no other can.
- `FinishInv`: at the labels between a load that found nothing finished and the last
  update, the stored node is not finished. This is the early return of `execute`
  for finished nodes, and what `FinishedNeverRuns` needs: a step that runs the resolver
  or writes a status is taken only where there is no recorded end.
- `EndInv`: what is recorded as the last word is an end.
- `AnswerInv`: a caller that was not answered has no answer; it makes `Answer` a
  `Reply` of `OnceResult`.

The others relate the goroutine's variables, the stored node and the stored contents, over
any number of processes, and need `StoreInv` beside it:

- `ResponseInv`: what the store holds, whichever process wrote it: a kept output is one that was
  computed, or was taken away from outside; a Complete node has it or says it was lost; an Error
  node has an error. It must hold at every step, since a process may die at any.
- `LoadedInv`: between loading a finished node and publishing it, status and error are the node's.
- `EndingInv`: from the resolver to the last update, "no error", "Complete" and "computed from
  this input" are one thing, and the output is kept, or known to be lost, before the status says so.
- `SuccessInv`: what is memoized without an error is what this process's call of the resolver computed or,
  if it made none, the output in the store, which some call computed. If that output was lost when
  it was saved, or has been deleted, it is the zero value: the code answers success for a Complete node whose
  output is not found (`NodeOutputGone.cfg`), and `SuccessIsReal` claims no more.
- In the process that defined the node, `DefinedInv` ties each label to the one status the stored
  node then has, `RequestInv` to the stored input, and `AgreeInv` the memo to the record. A process that
  finds a node another one left half way writes statuses from the beginning, which is why
  these are of the defining process only.

### Handles (`ResolutionProofs`)

| Theorem | Statement |
|---|---|
| `TypeCorrect` | `Spec => []TypeOK` |
| `PathsAreInstances` | `PathsApart(p)` of each program implies `Spec => []PathNamesInstance` |
| `ValuesAreMeanings` | `WellBuilt(p)` of each program implies `Spec => []ResultIsMeaning` |
| `ErrorsHaveCauses` | `WellBuilt(p)` of each program implies `Spec => []ErrorHasCause` |
| `FuturesHaveTheirResult` | `WellBuilt(p)`, `NoCycles(p)` and `OwnHandles(p)` of each program imply `Spec => []FutureIsOfItsDependency` |

For any program, any number of goroutines and runs and any depth of calls. All take `None` for something
that is not a result (`NoneIsNoResult`). The hypotheses are about the program user code builds:

- `NamesApart`: in one scope a NodeID belongs to one definition. A scope is what the body of a definition
  fans in or returns, and their inputs. Two `WithMCP` in one scope break it (`ResolutionTwoMCP.cfg`).
- `OneContext`: goroutines of one run are those of one NewNode function. With `NamesApart` it makes
  `PathsApart`.
- `Unfolds`: `Meaning` and `UserCode`, defined by recursion over inputs and bodies, satisfy their own
  equations, which they do when no handle depends on itself.
- `FansNodes`: no body fans in a Bind, whose future is an error (`ResolutionFanInBind.cfg`). With the others it
  makes `WellBuilt`.

- `NoCycles`: no handle is its own input, however indirectly.
- `OwnHandles`: goroutines of one NewNode function resolve handles of their own. Two that fan in one handle
  each write a path on it, and a future may be bound to the other's execution
  (`ResolutionSharedFailing.cfg`).

`MCResolution` has TLC check that the programs of the run are `WellBuilt` and without cycles and that the
programs of those three runs are not what they break. One program of the run, `Shared`, has no `OwnHandles`:
there the two executions have one value, and `FutureIsOfItsDependency` is checked by TLC, not covered by the theorem.

- `RType`: the frames of each stack are calls that can be there, and those below the top wait.
- `PathInv`: each path was made of a number its definition's counter gave away (`Numbered`) for a
  handle of the scope its Context belongs to (`Placed`), so two claims of one path are for one
  handle and one number (`SameClaim`); a claim that is not registered yet is nobody else's (`Apart`,
  `Free`), and a path written on a handle is of that handle (`Owned`). The last is what FanIn relies
  on: reading the path back may give it the executioner of another resolution of its dependency, but not of
  another dependency.
- `MeansInv`: every executioner's input and result, every future and every result on its way up a stack
  is what the handle it is of stands for, or an error with its causes in the code the handle depends
  on; and each frame is one its caller made (`Linked`), so a result that is returned is of what
  the caller asked for (`AnswerMeans`). It needs `PathInv` in two places: in `getResult`,
  where an executioner is found under a path, and in `FanIn`.
- `FutureInv`: between the resolution of a dependency and the moment `FanIn` reads the path back from
  the handle nobody writes another one, so the executioner it finds is the one that was resolved, and it
  is done. Three parts. `NestInv`: a call is about an input of the handle of the call below it, or in
  a body below it (`Deeper`), so a stack is never twice in one handle (`NotTwice`); and it is in the scope
  of its goroutine's body, or in the body of an execution below it on the same stack (`Belongs`), so two
  goroutines are never in one handle (`NobodyElse`). `OnceInv`: an `execute` on a stack is of an
  executioner that runs, and the only one of it, so one that is done never changes. `HoldInv`: a
  resolution past `SetPath` holds the path that is on its handle, what a body was just returned is the
  result under that path, and each future has, or its executioner has, the result `FanIn` saw.
  In particular no `Get` starts an execution: `FanIn` waited for it (`GetFutureFutures`).

### Runs (`WorkflowRunProofs`)

| Theorem | Statement |
|---|---|
| `TypeCorrect` | `Spec => []TypeOK` |
| `SuccessWhole` | `Spec => []SuccessIsWhole` |
| `CompleteNotRun` | `SharedIfTolerant` implies `Spec => []CompleteIsNotRun` |
| `CancelledNeverSucceeds` | `Spec => CancelledFails` |
| `RefinesContract` | `Spec => KeepsContract`: every step is one of `RunContract` or a stutter |

The strengthening is `IInv == TypeOK /\ OwnerInv /\ DoneInv /\ InstanceInv`:

- `OwnerInv`: a call that has begun on a graph of a refusing store is its owner, so two
  calls that have begun are on different such graphs.
- `DoneInv`: the nodes a call has passed are complete; at the end of the chain that is all.
- `InstanceInv`: calls of one shared workflow that are at nodes have different instances,
  all below its counter.

`NodesDiffer` follows: two calls at nodes are at different ones, through their graphs in a
refusing store and through their instances in a tolerant one. `CompleteIsNotRun` is then
inductive beside `IInv`: what another call completes is not what this one runs.
`SharedIfTolerant` says that calls on a tolerant graph execute shared definitions; it is
needed, since two calls with definitions of their own both take instance 0
(`WorkflowLocal.cfg`). `StepContract` maps each action to one of `RunContract`.

### In-memory store (`MemoryStoreProofs`)

| Theorem | Statement |
|---|---|
| `TypeCorrect` | `Spec => []TypeOK` |
| `ContentIsThere` | `Spec => []MissingWasDeleted` |
| `ActiveGraph` | `Spec => []ActiveGraphExists` |
| `CallsAreAtomic` | `NobodyDeletes` implies `Spec => Atomic`: every step is one of `GraphStore` or a stutter |

- `MType` adds to the types what each call may be at each step, and that a reader which has let go of
  its node and waits for the contents still finds the node as it read it: writers of the graph's
  lock are kept out meanwhile.
- `ContentInv` adds to `MissingWasDeleted` that a large content is stored by the time the second phase
  of its call lets a node refer to it (`StoredInv`). No hypothesis on deletions: a graph object
  that a deletion left behind obeys the invariant too.
- `NamesInv`: a call in a graph has the object its graph ID names, and no two IDs name one object. So
  a step on an object is a step on the abstract graph; each call takes effect at its only step that
  writes, or that decides its reply. `NobodyDeletes` says that no request deletes a graph or a content;
  without it a node is added to a deleted graph (`MemoryDeletedGraph.cfg`). It leaves the
  creation of graphs free, and all interleavings of node operations.

### File store (`FileStoreProofs`)

| Theorem | Statement |
|---|---|
| `TypeCorrect` | `Spec => []TypeOK` |
| `RewritersAreAlone` | `RewritersApart(Requests)` implies `Spec => []OneRewriter` |
| `KnownGraphsHaveFiles` | `CreatesApart` implies `Spec => []KnownHasFile` |
| `NodesAreSafe` | `RewritersApart(Requests)` implies `Spec => NodesSurvive` |
| `ContentsAreWhole` | `RewritersApart(Requests)`, `WritersApart` and no torn content imply `Spec => []ReferencedContentIsWhole` |
| `CallsAreAtomic` | `CallsApart(Requests)` and `CleanFaults` imply `Spec => Atomic`: every step is one of `GraphStore` or a stutter |

The hypotheses are about who asks for what, in the requests of different clients; any client by itself
may do anything. Except for the last two, whatever fails, is torn or dies is free.

- `OneRewriter` says that of the calls between load and save of a graph.json, or at its creation or
  removal, there is one per graph, whichever lock they hold. Calls that hold the same lock exclude each
  other (`ExcludeInv`); but `DeleteGraph` takes the lock out of the map while others wait for it, and
  with a new one in the map two calls may be in one graph (`FileDeleteRace.cfg`). `RewritersApart` says
  that no graph which somebody creates is deleted, too, unless one goroutine alone changes it. In the first
  case the store does not know a graph whose first lock was forgotten, until the process ends
  (`LockedAtFirst`): whoever comes out of the queue for that lock, or for a later one, finds the graph
  unknown, and who rewrites the graph holds the first lock (`FirstInv`, `RewriteInv`). The requests of
  `file_crash`, where both goroutines work on a graph that one of them deletes, obey it; TLC evaluates that.
- `DeleteInv`: a graph stays unknown from the start of its deletion to the end, if nobody else creates
  it (`CreatesApart`); without that the deleter would remove the file of a graph created meanwhile.
- `LoadedInv`: what a writer loaded has every node that is on the disk, since nobody saved in between
  (`OneRewriter`): the saved graph then has them all.
- `RefInv`: what graph.json names is in its file or was deleted as such, and so is what a
  writer loaded and the content of a `SetContent` past its first phase. A graph may be deleted between the
  phases; then it stays unknown and the second phase fails (`Stranded`), unless it is made
  anew (`FileRecreated.cfg`), which `RewritersApart` and `WritersApart` (nobody writes nodes of a graph somebody
  else creates) exclude. A torn content is taken for the content
  (`FileTornContent.cfg`).
- `SyncInv`: the graphs known and those on the disk are the same, but for those being created or
  deleted, and what a call is about to save is what is on the disk with its own change. So a call
  takes effect when its graph.json is put in place or its directory removed, one that fails before
  that is a failure of `GraphStore`, and a restart is its crash: what took effect is kept. Both
  hypotheses are needed. `CallsApart` says that requests are those of `GraphStore` (on graphs and nodes) and
  that nobody works on a graph somebody else creates or deletes, or lists the graphs meanwhile: `known`
  and the disk are read at different times. `CleanFaults` says that making a directory and
  reading or writing a file may fail, but that nothing is torn, no removal fails and no graph is
  overlooked when the directory is opened: otherwise there may be a graph on the disk that the store does
  not know. In `MCFileStore` TLC evaluates that the requests of `file_atomic` are apart, and that those of the races are not; given any of the faults that
  `CleanFaults` excludes, `file_atomic` fails.

### Injection (`InjectionProofs`)

| Theorem | Statement |
|---|---|
| `TypeCorrect` | `Spec => []TypeOK` |
| `RegistrationsStay` | `Spec => DependencyStays` |
| `RegistersWhole` | `DistinctDeps` implies `Spec => []RegisteredWhole` |
| `DependencyReachesGet` | `OneUserEach` implies `Spec => []GetHasDependency` |

`DistinctDeps` says that no two injectors construct one dependency; of two that do, one may have
succeeded for its node types and the other have failed for its own. `DependencyReachesGet` follows a
dependency from the map through the fields of a definition to the client the node calls, with
`InjectInv`:

- `CallInv`, `KeptInv`: no other goroutine uses the definition a goroutine is in, and the initializer
  the definition keeps is the one its `Start` goes on with;
- `StillRegistered`: until a reset, what a `Start` saw registered is registered still;
- `InjectedInv`: from the end of the first `Start` that saw a dependency the initializer has it, and no
  later `Start` takes it away.

`OneUserEach` (one goroutine per definition) is needed: `injection_shared` is two first `Start`s of one
definition.

### Tool loop (`MCPLoopProofs`)

| Theorem | Statement |
|---|---|
| `TypeCorrect` | `Spec => []TypeOK` |
| `CallsAreAnswered` | `Separate` implies `Spec => []EveryCallAnswered` |
| `ToolsCalledOnce` | `Separate` implies `Spec => []InvokedOnceAndTold` |
| `ChoiceIsFree` | `Separate` implies `Spec => []ChoiceIsFreeOnceCalled` |

For any number of rounds, calls in a round and loops. `TypeCorrect` has no hypothesis; the others need
that loops on one request find no spare room behind its messages, or there is one loop
(`Separate`; `MCPLoopShared.cfg` otherwise). `TalkInv` says of each loop that its messages, wherever they
are kept, are a conversation the API accepts up to the last complete round, followed, while a round
is open, by its assistant message; that a call that reached a tool is of an earlier round, or of this
one and has its future, and is there once; and what the choice of the request must be.

### Left to TLC

Liveness (`EveryCallerAnswered`, `EveryoneReturns`, `CancelledReturns`, `Returns`), `ENABLED`, and what a
recursively defined function computes for every input (that `Unfolds` holds of a program without
cycles) are out of the provers' reach. No module declares a RECURSIVE operator; recursion is by
recursive functions. Every invariant, every action property and every refinement the passing runs
check is stated by a theorem.

## 5. Disagreements between code and documentation

The three violation runs, in `findings`. More were met on the way; each has a configuration
that shows it, to be run with the module named:

| Configuration | Module | Property | What happens |
|---|---|---|---|
| `NodeOutputGone.cfg` | `MCNodeExecution` | `SuccessHasOutput` | a Complete node whose output is gone is answered with success and the zero value (`node_execution.go:345`) |
| `ResolutionDiamond.cfg` | `MCResolution` | `OneInstancePerHandle` | a handle that feeds two nodes may be executed twice, as two instances (`workflow.go:251`) |
| `ResolutionFanInBind.cfg` | `MCResolution` | `FutureIsOfItsDependency` | `FanIn` of a Bind handle resolves it and returns a future with an error (`core.go:408`) |
| `ResolutionTwoBranches.cfg` | `MCResolution` | `EveryBranchStarts` | `FanIn` waits, so branches do not run concurrently (`core.go:399`) |
| `ResolutionSharedFailing.cfg` | `MCResolution` | `FutureIsOfItsDependency` | two goroutines fan in one handle; a future is bound to the other's execution (`core.go:408`) |
| `ResolutionTwoMCP.cfg` | `MCResolution` | `PathNamesInstance` | two definitions with one NodeID share a path: `WithMCP` used twice in a scope (`workflow.go:252`) |
| `WorkflowRefused.cfg` | `MCWorkflowRun` | `ResumedIsAccepted` | the graph of a run that died cannot be named by another run (`core.go:663`) |
| `WorkflowResumed.cfg` | `MCWorkflowRun` | `ResumedRunsTheRest` | with a store that tolerates it, a second run in the process takes the next instance and runs everything again (`node.go:64`) |
| `WorkflowLocal.cfg` | `MCWorkflowRun` | `CompleteIsNotRun` | two calls that define their workflow anew and name one tolerant graph run the same nodes at once (`node.go:64`) |
| `MCPLoopShared.cfg` | `MCMCPLoop` | `EveryCallAnswered` | two loops append into the spare capacity of one slice and send each other's messages (`nodes/openai/middleware/mcp.go:187`) |
| `MCPLoopNone.cfg` | `MCMCPLoop` | `NoneIsRespected` | a choice of "none" is sent as "auto" (`nodes/openai/middleware/mcp.go:135`) |
| `MemoryDeletedGraph.cfg` | `MCMemoryStore` | `DeletedIsLeftAlone` | a node is added, successfully, to a deleted graph (`store/memorystore.go:180`) |
| `FileDeleteRace.cfg` | `MCFileStore` | `OneRewriter` | a waiter for the lock of a deleted graph writes with the holder of the new one (`store/filestore.go:308`) |
| `FileTornContent.cfg` | `MCFileStore` | `ReferencedContentIsWhole` | a torn content file is taken for the content (`store/filestore.go:771`) |
| `FileRecreated.cfg` | `MCFileStore` | `ReferencedContentIsWhole` | a graph is deleted and made anew between the two phases of a large content (`store/filestore.go:645`) |
| `FileReopened.cfg` | `MCFileStore` | `RetrievableByHash` | after reopening no graph is active (`store/filestore.go:88`) |
| `InjectionRetried.cfg` | `MCInjection` | `FailedStartFails` | a handle whose `Start` warned that it will fail succeeds once another `Start` did (`node.go:38`) |
| `InjectionNilClient.cfg` | `MCInjection` | `NilClientFailsInGet` | a nil client panics in `Start` (`nodes/openai/createchatcompletion.go:52`) |

## 6. Not modelled

- The client interface (`nodes/openai/clientiface/`), a type without behaviour; the `main`
  functions of the examples, their flags, prints and set-up of clients.
- The schema generation and the parsing of structured output, and the MCP server library:
  they succeed or fail.
- Panics of `With*` options given nil, before anything has started.
- Liveness of `FileStore`: that calls return needs fairness of each lock, and with it TLC does not
  finish on an instance where anything can happen; deadlock is checked, which covers calls that
  wait for each other.
- A panic inside the update with which `execute` records a panic. What is no part of a graph in the root
  directory of a file store, and the failure of opening the directory itself, after which there is no store.
- Several processes on one directory; `SetMaxEmbedSize` called while the store is used;
  callers that change an object after they stored it; a write torn by two loops that race on
  one cell of a slice.
- Formatting, logging, schema conversion, error texts.

## 7. Plan

Done, in this order: `OnceResult`, `NodeExecution`, its proofs, `Resolution`, `GraphStore`,
`MemoryStore`, `FileStore`, `Injection`, `MCPLoop`; then `RunContract`, `WorkflowRun` and its proofs,
failures with causes and captured handles in `Resolution`, `Programs`, and several loops over one
slice in `MCPLoop`.

Then proofs: the stored node of `NodeExecution`, and `MCPLoop`, `Injection`, `MemoryStore` with its
refinement, the invariants of `FileStore`, and types, paths, values, errors and futures of `Resolution`.
Last, that a future is of its dependency (`Resolution`) and that `FileStore` implements `GraphStore`.
