---------------------------- MODULE NodeExecution ----------------------------
(***************************************************************************)
(* The life of one node execution (node_execution.go): goroutines that     *)
(* call getResult, the sync.Once that lets one of them run execute, the    *)
(* store calls execute makes, each of which may fail, the input it waits   *)
(* for, the resolver it runs, the panics it recovers, and the memoized     *)
(* result it publishes by closing doneCh.                                  *)
(*                                                                         *)
(* A store call that fails or panics changes nothing: both stores of the   *)
(* repository validate first, and the file store replaces graph.json by a  *)
(* rename.                                                                 *)
(* An error is a kind, not a text; "none" is Go's nil.                     *)
(***************************************************************************)
EXTENDS Naturals

CONSTANTS
    Callers,         \* goroutines that call getResult on this execution
    Inputs,          \* what resolving the input handle can return
    Outputs,         \* what the resolver's Get can return
    Zero,            \* *new(In) and *new(Out)
    HasInput,        \* inputSource # nil
    Unmarshallable,  \* the values json.Marshal rejects
    Modes,           \* the UnmarshallableContentModes stores are made with
    NoAnswer,        \* getResult has not returned
    NoNode,          \* the store has no node under this path
    NoContent,       \* no request or response content under this node
    Gone,            \* a content hash under this node, and no such content
    Placeholder,     \* what the "placeholder" mode stores instead of a value
    MaxRestarts      \* bound: restarts of the process over a graph it reopens;
                     \* 0 with the repository's stores, whose CreateGraph
                     \* refuses a graph that exists

Statuses == {"Defined", "WaitingDep", "Running", "Complete", "Error"}
Terminal == {"Complete", "Error"}
Errors   == {"none", "load", "store", "input", "resolver", "panic", "content"}

InValues  == Inputs \cup {Zero}
OutValues == Outputs \cup {Zero}
Results   == OutValues \X Errors
StateMaps == [status : Statuses, error : Errors,
              inLost : BOOLEAN, outLost : BOOLEAN]

ASSUME ConstantsAssumption ==
    /\ HasInput \in BOOLEAN
    /\ Modes \subseteq {"strict", "skip", "placeholder"}
    /\ MaxRestarts \in Nat
    /\ NoAnswer \notin Results
    /\ NoNode \notin StateMaps
    /\ Zero \notin Inputs \cup Outputs
    /\ {NoContent, Gone, Placeholder} \cap (Inputs \cup Outputs \cup {Zero}) = {}
    /\ Gone \notin {NoContent, Placeholder}
    /\ NoContent # Placeholder

VARIABLES
    mode,       \* the store's UnmarshallableContentMode
    pc,         \* where the goroutine inside execOnce.Do stands
    caller,     \* what each goroutine that uses getResult is doing
    answer,     \* what getResult gave it
    status,     \* ne.status
    err,        \* ne.err
    inValue,    \* ne.inValue
    outValue,   \* ne.outValue
    inLost,     \* ne.inputPersistenceErr # ""
    outLost,    \* ne.outputPersistenceErr # ""
    memo,       \* <<ne.resultOut, ne.resultErr>>
    node,       \* the node's state map in the store
    request,    \* its request content in the store
    response,   \* its response content in the store
    runs,       \* history: calls of resolver.Get by this process
    computed,   \* history: <<input, output>> of every successful Get
    restarts    \* history: process restarts so far

memory  == <<status, err, inValue, outValue, inLost, outLost, memo>>
stored  == <<node, request, response>>
history == <<runs, computed, restarts, mode>>
vars    == <<pc, caller, answer, memory, stored, history>>

Labels   == {"unstarted", "getNode", "addNode", "loadInput", "loadOutput",
             "toWaiting", "resolveInput", "saveInput", "toRunning", "runResolver",
             "saveOutput", "finalUpdate", "lastUpdate", "memoize", "close",
             "closed"}


TypeOK ==
    /\ mode \in Modes
    /\ pc \in Labels
    /\ caller \in [Callers -> {"idle", "waiting", "answered"}]
    /\ answer \in [Callers -> Results \cup {NoAnswer}]
    /\ status \in Statuses
    /\ err \in Errors
    /\ inValue \in InValues
    /\ outValue \in OutValues
    /\ inLost \in BOOLEAN
    /\ outLost \in BOOLEAN
    /\ memo \in Results
    /\ node \in StateMaps \cup {NoNode}
    /\ request \in InValues \cup {NoContent, Gone, Placeholder}
    /\ response \in OutValues \cup {NoContent, Gone, Placeholder}
    /\ runs \in Nat
    /\ computed \subseteq InValues \X OutValues
    /\ restarts \in Nat

Init ==
    /\ mode \in Modes
    /\ pc = "unstarted"
    /\ caller = [c \in Callers |-> "idle"]
    /\ answer = [c \in Callers |-> NoAnswer]
    /\ status = "Defined" /\ err = "none"
    /\ inValue = Zero /\ outValue = Zero
    /\ inLost = FALSE /\ outLost = FALSE
    /\ memo = <<Zero, "none">>
    /\ node = NoNode /\ request = NoContent /\ response = NoContent
    /\ runs = 0 /\ computed = {} /\ restarts = 0

------------------------------------------------------------------------------
(* Helpers.                                                                  *)

\* currentNodeStateMap: every update writes all the keys.
StateMap(s, e) == [status |-> s, error |-> e,
                   inLost |-> inLost, outLost |-> outLost]

\* UpdateNode with merge: fails without a node, or for a reason of the store.
UpdateNode(s, e) == /\ node # NoNode
                    /\ node' = StateMap(s, e)

Goto(l) == /\ pc' = l
           /\ UNCHANGED <<caller, answer>>

\* The outcomes of Set*Content, by the store's mode: what content becomes.
Saved(value, content) ==
    IF value \notin Unmarshallable THEN value
    ELSE IF mode = "placeholder" THEN Placeholder ELSE content

SaveAllowed(value) == value \notin Unmarshallable \/ mode # "strict"

------------------------------------------------------------------------------
(* getResult.                                                                *)

\* Mutant: a call after the end runs execute again (a flag in place of Once).
GetResult_NotOnce(c) ==
    /\ caller[c] = "idle"
    /\ caller' = [caller EXCEPT ![c] = "waiting"]
    /\ pc' = IF pc \in {"unstarted", "closed"} THEN "getNode" ELSE pc
    /\ UNCHANGED <<answer, memory, stored, history>>

\* A goroutine enters execOnce.Do; the first one goes on to run execute.
GetResult(c) ==
    /\ caller[c] = "idle"
    /\ caller' = [caller EXCEPT ![c] = "waiting"]
    /\ pc' = IF pc = "unstarted" THEN "getNode" ELSE pc
    /\ UNCHANGED <<answer, memory, stored, history>>

\* Mutant: doneCh is closed before the result is memoized (defers swapped).
DoneClosed_BeforeMemo == pc \in {"memoize", "close", "closed"}

DoneClosed == pc = "closed"

\* Do has returned and doneCh is closed: the memoized result is read.
Answer(c) ==
    /\ caller[c] = "waiting"
    /\ DoneClosed
    /\ caller' = [caller EXCEPT ![c] = "answered"]
    /\ answer' = [answer EXCEPT ![c] = memo]
    /\ UNCHANGED <<pc, memory, stored, history>>

------------------------------------------------------------------------------
(* loadOrDefineState.                                                        *)

\* Mutant: a failed load leaves a status that IsValid rejects.
LoadFailed_Invalid ==
    /\ pc \in {"getNode", "addNode"}
    /\ Goto("lastUpdate")
    /\ status' = "" /\ err' = "load"
    /\ UNCHANGED <<inValue, outValue, inLost, outLost, memo, stored, history>>

\* Loading or defining failed: Error, and one attempt to record it.
LoadFailed ==
    /\ pc \in {"getNode", "addNode"}
    /\ Goto("lastUpdate")
    /\ status' = "Error" /\ err' = "load"
    /\ UNCHANGED <<inValue, outValue, inLost, outLost, memo, stored, history>>

NodeNotFound ==
    /\ pc = "getNode"
    /\ node = NoNode
    /\ Goto("addNode")
    /\ UNCHANGED <<memory, stored, history>>

AddNode ==
    /\ pc = "addNode"
    /\ node' = StateMap("Defined", err)
    /\ Goto("toWaiting")
    /\ UNCHANGED <<memory, request, response, history>>

\* Mutant: no early return for a node that is already finished.
NodeFound_RunAgain ==
    /\ pc = "getNode"
    /\ node # NoNode
    /\ status' = node.status /\ err' = node.error
    /\ inLost' = node.inLost /\ outLost' = node.outLost
    /\ Goto("toWaiting")
    /\ UNCHANGED <<inValue, outValue, memo, stored, history>>

NodeFound ==
    /\ pc = "getNode"
    /\ node # NoNode
    /\ status' = node.status /\ err' = node.error
    /\ inLost' = node.inLost /\ outLost' = node.outLost
    /\ Goto(IF node.status \in Terminal THEN "loadInput" ELSE "toWaiting")
    /\ UNCHANGED <<inValue, outValue, memo, stored, history>>

\* The persisted request of a terminal node. Not read when it was lost; not
\* there or unreadable, which is only logged; typed; or of another type, which
\* the nil of a node without content is, too.
LoadInput ==
    /\ pc = "loadInput"
    /\ \/ UNCHANGED <<inValue, status, err>>
       \/ /\ ~inLost /\ request \in InValues
          /\ inValue' = request
          /\ UNCHANGED <<status, err>>
       \/ /\ ~inLost /\ request # Gone
          /\ status' = "Error" /\ err' = "content"
          /\ UNCHANGED inValue
    /\ Goto(IF status' = "Complete" /\ ~outLost THEN "loadOutput" ELSE "memoize")
    /\ UNCHANGED <<outValue, inLost, outLost, memo, stored, history>>

\* The persisted response of a Complete node: typed; gone, and then the output
\* stays zero; or of another type or unreadable, which is an error.
LoadOutput ==
    /\ pc = "loadOutput"
    /\ \/ /\ response \in OutValues
          /\ outValue' = response
          /\ UNCHANGED <<status, err>>
       \/ /\ response = Gone
          /\ UNCHANGED <<outValue, status, err>>
       \/ /\ status' = "Error" /\ err' = "content"
          /\ UNCHANGED outValue
    /\ Goto("memoize")
    /\ UNCHANGED <<inValue, inLost, outLost, memo, stored, history>>

------------------------------------------------------------------------------
(* execute, after the node is loaded or defined.                             *)

\* status = WaitingDep or Running, and its UpdateNode succeeds.
ToWaiting ==
    /\ pc = "toWaiting"
    /\ UpdateNode("WaitingDep", err)
    /\ status' = "WaitingDep"
    /\ Goto("resolveInput")
    /\ UNCHANGED <<err, inValue, outValue, inLost, outLost, memo, request,
                   response, history>>

ToRunning ==
    /\ pc = "toRunning"
    /\ UpdateNode("Running", err)
    /\ status' = "Running"
    /\ Goto("runResolver")
    /\ UNCHANGED <<err, inValue, outValue, inLost, outLost, memo, request,
                   response, history>>

\* The UpdateNode fails: Error, and one more update, whose own failure is
\* ignored (a bare update after WaitingDep, completeExecution after Running).
UpdateFailed ==
    /\ pc \in {"toWaiting", "toRunning"}
    /\ status' = "Error" /\ err' = "store"
    /\ Goto(IF pc = "toWaiting" THEN "lastUpdate" ELSE "finalUpdate")
    /\ UNCHANGED <<inValue, outValue, inLost, outLost, memo, stored, history>>

\* Mutant: the node goes to Running before its input is saved.
InputResolved_RunFirst ==
    /\ pc = "resolveInput"
    /\ \E v \in IF HasInput THEN Inputs ELSE {Zero} : inValue' = v
    /\ Goto("toRunning")
    /\ UNCHANGED <<status, err, outValue, inLost, outLost, memo, stored, history>>

InputResolved ==
    /\ pc = "resolveInput"
    /\ \E v \in IF HasInput THEN Inputs ELSE {Zero} : inValue' = v
    /\ Goto("saveInput")
    /\ UNCHANGED <<status, err, outValue, inLost, outLost, memo, stored, history>>

InputFailed ==
    /\ pc = "resolveInput"
    /\ HasInput
    /\ status' = "Error" /\ err' = "input"
    /\ Goto("finalUpdate")
    /\ UNCHANGED <<inValue, outValue, inLost, outLost, memo, stored, history>>

\* SetNodeRequestContent; a failure is recorded and does not stop the node.
InputSaved ==
    /\ pc = "saveInput"
    /\ SaveAllowed(inValue)
    /\ request' = Saved(inValue, request)
    /\ Goto("toRunning")
    /\ UNCHANGED <<memory, node, response, history>>

InputNotSaved ==
    /\ pc = "saveInput"
    /\ inLost' = TRUE
    /\ Goto("toRunning")
    /\ UNCHANGED <<status, err, inValue, outValue, outLost, memo, stored, history>>

\* resolver.Get returns a value: completeExecution makes the status Complete.
ResolverReturned(out) ==
    /\ pc = "runResolver"
    /\ outValue' = out /\ err' = "none" /\ status' = "Complete"
    /\ runs' = runs + 1
    /\ computed' = computed \cup {<<inValue, out>>}
    /\ Goto("saveOutput")
    /\ UNCHANGED <<inValue, inLost, outLost, memo, stored, restarts, mode>>

\* It returns an error: the output is zeroed and the status becomes Error.
ResolverFailed ==
    /\ pc = "runResolver"
    /\ outValue' = Zero /\ err' = "resolver" /\ status' = "Error"
    /\ runs' = runs + 1
    /\ Goto("finalUpdate")
    /\ UNCHANGED <<inValue, inLost, outLost, memo, stored, computed, restarts,
                   mode>>

------------------------------------------------------------------------------
(* completeExecution, and the deferred functions of execute.                 *)

\* SetNodeResponseContent; a failure is recorded and leaves the node Complete.
OutputSaved ==
    /\ pc = "saveOutput"
    /\ SaveAllowed(outValue)
    /\ response' = Saved(outValue, response)
    /\ outLost' = FALSE
    /\ Goto("finalUpdate")
    /\ UNCHANGED <<status, err, inValue, outValue, inLost, memo, node, request,
                   history>>

OutputNotSaved ==
    /\ pc = "saveOutput"
    /\ outLost' = TRUE
    /\ Goto("finalUpdate")
    /\ UNCHANGED <<status, err, inValue, outValue, inLost, memo, stored, history>>

\* Mutant: no return after the completion of a node whose input failed.
FinalUpdate_NoReturn ==
    /\ pc = "finalUpdate"
    /\ UpdateNode(status, err)
    /\ Goto(IF err = "input" THEN "saveInput" ELSE "memoize")
    /\ UNCHANGED <<memory, request, response, history>>

\* The update that records the end. Its failure is an error of the node, and
\* wraps the error there was; the value in outValue stays.
FinalUpdate ==
    /\ pc = "finalUpdate"
    /\ UpdateNode(status, err)
    /\ Goto("memoize")
    /\ UNCHANGED <<memory, request, response, history>>

\* Mutant: completeExecution drops the error of the last update.
FinalUpdateFailed_Ignored ==
    /\ pc = "finalUpdate"
    /\ Goto("memoize")
    /\ UNCHANGED <<memory, stored, history>>

FinalUpdateFailed ==
    /\ pc = "finalUpdate"
    /\ err' = IF err = "none" THEN "store" ELSE err
    /\ Goto("memoize")
    /\ UNCHANGED <<status, inValue, outValue, inLost, outLost, memo, stored,
                   history>>

\* An update whose result is ignored.
LastUpdate ==
    /\ pc = "lastUpdate"
    /\ UpdateNode(status, err) \/ UNCHANGED node
    /\ Goto("memoize")
    /\ UNCHANGED <<memory, request, response, history>>

\* Where execute calls code that can panic: the store, at every step that reads
\* or writes it; the step function of a Bind or an Init below the input; the
\* resolver; a MarshalJSON of the input or of the output. The update of a node
\* that panicked is no such place: a panic there leaves getResult, too.
CanPanic == pc \notin {"unstarted", "memoize", "close", "closed"}
            /\ ~(pc = "lastUpdate" /\ err = "panic")

\* Mutant: the panic is recovered and logged, but is not made an error.
Panic_Swallowed ==
    /\ CanPanic
    /\ status' = "Error" /\ outValue' = Zero /\ UNCHANGED err
    /\ runs' = IF pc = "runResolver" THEN runs + 1 ELSE runs
    /\ Goto("lastUpdate")
    /\ UNCHANGED <<inValue, inLost, outLost, memo, stored, computed, restarts,
                   mode>>

\* The recover: Error, a zero output, and one attempt to record it.
Panic ==
    /\ CanPanic
    /\ status' = "Error" /\ err' = "panic" /\ outValue' = Zero
    /\ runs' = IF pc = "runResolver" THEN runs + 1 ELSE runs
    /\ Goto("lastUpdate")
    /\ UNCHANGED <<inValue, inLost, outLost, memo, stored, computed, restarts,
                   mode>>

Memoize ==
    /\ pc = "memoize"
    /\ memo' = <<outValue, err>>
    /\ Goto("close")
    /\ UNCHANGED <<status, err, inValue, outValue, inLost, outLost, stored, history>>

\* Mutant: close(doneCh) is the last statement of execute, not deferred.
CloseDone_NotDeferred ==
    /\ pc = "close"
    /\ err # "panic"
    /\ Goto("closed")
    /\ UNCHANGED <<memory, stored, history>>

CloseDone ==
    /\ pc = "close"
    /\ Goto("closed")
    /\ UNCHANGED <<memory, stored, history>>

Kept(content) == {content} \cup (IF content = NoContent THEN {} ELSE {Gone})

\* The process dies and a new one reaches the same path of the same graph:
\* nothing is left but the store, and external content may be gone from it
\* (DeleteContent looks at no node).
Restart ==
    /\ restarts < MaxRestarts
    /\ pc # "unstarted"
    /\ pc' = "unstarted"
    /\ caller' = [c \in Callers |-> "idle"]
    /\ answer' = [c \in Callers |-> NoAnswer]
    /\ status' = "Defined" /\ err' = "none"
    /\ inValue' = Zero /\ outValue' = Zero
    /\ inLost' = FALSE /\ outLost' = FALSE
    /\ memo' = <<Zero, "none">>
    /\ runs' = 0 /\ restarts' = restarts + 1
    /\ request' \in Kept(request) /\ response' \in Kept(response)
    /\ UNCHANGED <<node, computed, mode>>

------------------------------------------------------------------------------
Load == \/ LoadFailed \/ NodeNotFound \/ AddNode \/ NodeFound
        \/ LoadInput \/ LoadOutput

Run == \/ ToWaiting \/ UpdateFailed \/ InputResolved \/ InputFailed
       \/ InputSaved \/ InputNotSaved \/ ToRunning
       \/ (\E out \in Outputs : ResolverReturned(out)) \/ ResolverFailed

Finish == \/ OutputSaved \/ OutputNotSaved \/ FinalUpdate \/ FinalUpdateFailed
          \/ LastUpdate \/ Panic \/ Memoize \/ CloseDone

Execute == Load \/ Run \/ Finish

Next == \/ \E c \in Callers : GetResult(c) \/ Answer(c)
        \/ Execute
        \/ Restart

Spec == Init /\ [][Next]_vars

\* Every goroutine keeps running; the store, the input and the resolver return.
Fairness == WF_vars(Execute) /\ \A c \in Callers : WF_vars(Answer(c))

FairSpec == Spec /\ Fairness

------------------------------------------------------------------------------
(* Properties.                                                               *)

\* The executioner interface: one result is published, after it is memoized,
\* and it is what every goroutine gets from getResult.
Cell == INSTANCE OnceResult WITH
            NoResult <- NoAnswer,
            result   <- IF pc = "closed" THEN memo ELSE NoAnswer
OnceForAllCallers == Cell!Spec

\* "Runs exactly once" (getResult): however many goroutines ask, the resolver
\* is called at most once in the life of the process.
ResolverRunsOnce == runs <= 1

\* A node the store records as finished is never run again, in this process
\* or in one that reopens the graph: the early return of execute. Nor does it
\* become unfinished (a load that fails may still turn Complete into Error).
RecordedTerminal == node # NoNode /\ node.status \in Terminal
FinishedNeverRuns == [][RecordedTerminal => RecordedTerminal' /\ runs' <= runs]_vars

\* The process that defined the node. One that reopens the graph runs an
\* unfinished node again, from WaitingDep, and answers for a finished one from
\* what it could load.
Defining == restarts = 0

\* What a reader of the store sees of a node only moves forward, Defined,
\* WaitingDep, Running, then Complete or Error for good; no early return or
\* deferred update of execute writes an older status over a newer one.
Rank(s) == CASE s = "Defined" -> 0 [] s = "WaitingDep" -> 1
             [] s = "Running" -> 2 [] OTHER -> 3
StoredStatusMovesForward ==
    [][node # NoNode /\ Defining' =>
          /\ node' # NoNode
          /\ Rank(node'.status) >= Rank(node.status)
          /\ RecordedTerminal => node' = node]_vars

\* Content is saved before the status that says so: a reader of the store, or a
\* crash, never meets a node that reads Complete with no output_persist_error and
\* has no output, if nobody deleted it, or Running with no input_persist_error
\* and no input; only the update to Running writes that one. (A value json cannot
\* marshal is replaced or skipped by the mode.)
ContentBeforeStatus ==
    node # NoNode =>
        /\ node.status = "Complete" /\ ~node.outLost =>
              response = Gone \/ \E p \in computed : response = Saved(p[2], NoContent)
        /\ Defining /\ node.status \in {"Running", "Complete"} /\ ~node.inLost =>
              request = Saved(inValue, NoContent)

\* What callers are told agrees with what the store says: success is recorded
\* as Complete, and a recorded end is the end that was reported.
StoreAgreesWithAnswer ==
    Defining /\ pc = "closed" =>
        /\ memo[2] = "none" => node # NoNode /\ node.status = "Complete"
        /\ RecordedTerminal => node.error = memo[2]
        /\ RecordedTerminal => (node.status = "Complete" <=> memo[2] = "none")

\* A successful answer of a process that called the resolver is what that call
\* computed, from the input resolved here. One that found the node finished
\* answers the output in the store, which some run computed; if that output was
\* never saved or has been deleted, it answers success all the same, and the zero
\* value (the return of loadOrDefineState for content that is not found).
SuccessWasComputed ==
    pc = "closed" /\ memo[2] = "none" =>
        \/ runs = 1 /\ <<inValue, memo[1]>> \in computed
        \/ /\ runs = 0 /\ ~Defining /\ node # NoNode
           /\ IF node.outLost \/ response = Gone
              THEN memo[1] = Zero
              ELSE memo[1] = response /\ \E p \in computed : memo[1] = p[2]

\* What a caller may expect, and does not get from the zero value above: every
\* success is an output that some call of the resolver computed.
SuccessHasOutput ==
    pc = "closed" /\ memo[2] = "none" => \E p \in computed : memo[1] = p[2]

\* getResult always returns: whatever fails or panics below it, doneCh is
\* closed (or the process dies).
EveryCallerAnswered ==
    \A c \in Callers : caller[c] = "waiting" ~> caller[c] # "waiting"

==============================================================================
