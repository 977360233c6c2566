------------------------- MODULE NodeExecutionProofs -------------------------
(***************************************************************************)
(* Theorems of NodeExecution for every set of callers, inputs and outputs, *)
(* every serialization mode and any number of restarts.                    *)
(***************************************************************************)
EXTENDS NodeExecution, TLAPS

\* The labels at which this process has not called the resolver, and the ones at
\* which the node has certainly no finished state in the store.
BeforeRun  == {"unstarted", "getNode", "addNode", "loadInput", "loadOutput",
               "toWaiting", "resolveInput", "saveInput", "toRunning", "runResolver"}
Unfinished == {"addNode", "toWaiting", "resolveInput", "saveInput", "toRunning",
               "runResolver", "saveOutput"}

RunInv == /\ runs <= 1
          /\ pc \in BeforeRun => runs = 0

FinishInv == pc \in Unfinished => ~RecordedTerminal

\* Whatever execute records as its last word is an end.
EndInv == pc \in {"saveOutput", "finalUpdate", "lastUpdate"} => status \in Terminal

AnswerInv == \A c \in Callers : caller[c] # "answered" => answer[c] = NoAnswer

\* The inductive strengthening behind every theorem below.
IInv == TypeOK /\ RunInv /\ FinishInv /\ EndInv /\ AnswerInv

------------------------------------------------------------------------------
\* What one update writes is a state map.
LEMMA StateMapType ==
    ASSUME TypeOK, NEW s \in Statuses, NEW e \in Errors
    PROVE  StateMap(s, e) \in StateMaps
BY DEF StateMap, StateMaps, TypeOK

\* The initial state is typed and satisfies the strengthening.
LEMMA InitIInv == Init => IInv
<1>1. Init => TypeOK
  <2> SUFFICES ASSUME Init PROVE TypeOK
    OBVIOUS
  <2>1. <<Zero, "none">> \in Results
    BY DEF Results, OutValues, Errors
  <2> QED BY <2>1 DEF Init, TypeOK, Labels, Statuses, Errors, InValues, OutValues
<1>2. Init => RunInv /\ FinishInv /\ EndInv /\ AnswerInv
  BY DEF Init, RunInv, FinishInv, EndInv, AnswerInv, Unfinished
<1> QED BY <1>1, <1>2 DEF IInv

\* Every step keeps the types.
LEMMA TypeStep == TypeOK /\ [Next]_vars => TypeOK'
<1> SUFFICES ASSUME TypeOK, [Next]_vars PROVE TypeOK'
  OBVIOUS
<1>6. CASE Restart
  <2>1. <<Zero, "none">> \in Results
    BY DEF Results, OutValues, Errors
  <2>2. /\ UNCHANGED <<node, computed, mode>>
        /\ request' \in {request, Gone} /\ response' \in {response, Gone}
    BY <1>6 DEF Restart, Kept
  <2>3. /\ pc' \in Labels /\ status' \in Statuses /\ err' \in Errors
        /\ inValue' \in InValues /\ outValue' \in OutValues
        /\ memo' \in Results
    BY <1>6, <2>1 DEF Restart, Labels, Statuses, Errors, InValues, OutValues
  <2>4. /\ caller' \in [Callers -> {"idle", "waiting", "answered"}]
        /\ answer' \in [Callers -> Results \cup {NoAnswer}]
    BY <1>6 DEF Restart
  <2>5. inLost' \in BOOLEAN /\ outLost' \in BOOLEAN
    BY <1>6, Zenon DEF Restart
  <2>6. runs' \in Nat /\ restarts' \in Nat
    <3>1. restarts \in Nat
      BY DEF TypeOK
    <3> QED BY <1>6, <3>1 DEF Restart
  <2> QED BY <2>2, <2>3, <2>4, <2>5, <2>6 DEF TypeOK
<1> USE ConstantsAssumption DEF TypeOK, Labels, InValues, OutValues, Results,
        memory, stored, history, Goto
<1>1. ASSUME NEW c \in Callers, GetResult(c) PROVE TypeOK'
  BY <1>1 DEF GetResult
<1>2. ASSUME NEW c \in Callers, Answer(c) PROVE TypeOK'
  BY <1>2 DEF Answer
<1>3. CASE Load
  <2>1. CASE LoadFailed \/ NodeNotFound
    BY <2>1 DEF LoadFailed, NodeNotFound, Statuses, Errors
  <2>2. CASE AddNode
    BY <2>2, StateMapType DEF AddNode, Statuses
  <2>3. CASE NodeFound
    BY <2>3 DEF NodeFound, StateMaps
  <2>4. CASE LoadInput \/ LoadOutput
    BY <2>4 DEF LoadInput, LoadOutput, Statuses, Errors
  <2> QED BY <1>3, <2>1, <2>2, <2>3, <2>4 DEF Load
<1>4. CASE Run
  <2>1. CASE ToWaiting \/ ToRunning
    BY <2>1, StateMapType DEF ToWaiting, ToRunning, UpdateNode, Statuses
  <2>2. CASE UpdateFailed \/ InputFailed
    BY <2>2 DEF UpdateFailed, InputFailed, Statuses, Errors
  <2>3. CASE InputResolved
    BY <2>3 DEF InputResolved
  <2>4. CASE InputSaved
    BY <2>4 DEF InputSaved, Saved
  <2>5. CASE InputNotSaved
    BY <2>5 DEF InputNotSaved
  <2>6. CASE ResolverFailed
    BY <2>6 DEF ResolverFailed, Statuses, Errors
  <2>7. CASE \E out \in Outputs : ResolverReturned(out)
    BY <2>7 DEF ResolverReturned, Statuses, Errors
  <2> QED BY <1>4, <2>1, <2>2, <2>3, <2>4, <2>5, <2>6, <2>7 DEF Run
<1>5. CASE Finish
  <2>1. CASE OutputSaved \/ OutputNotSaved
    BY <2>1 DEF OutputSaved, OutputNotSaved, Saved
  <2>2. CASE FinalUpdate \/ LastUpdate
    BY <2>2, StateMapType DEF FinalUpdate, LastUpdate, UpdateNode
  <2>3. CASE FinalUpdateFailed \/ Memoize \/ CloseDone
    BY <2>3 DEF FinalUpdateFailed, Memoize, CloseDone, Errors
  <2>4. CASE Panic
    BY <2>4 DEF Panic, CanPanic, Statuses, Errors
  <2> QED BY <1>5, <2>1, <2>2, <2>3, <2>4 DEF Finish
<1>7. CASE UNCHANGED vars
  BY <1>7 DEF vars
<1> QED BY <1>1, <1>2, <1>3, <1>4, <1>5, <1>6, <1>7 DEF Next, Execute

\* Every step keeps the rest of the strengthening.
LEMMA StepInv == IInv /\ [Next]_vars => RunInv' /\ FinishInv' /\ EndInv' /\ AnswerInv'
<1> SUFFICES ASSUME IInv, [Next]_vars PROVE RunInv' /\ FinishInv' /\ EndInv' /\ AnswerInv'
  OBVIOUS
<1> USE ConstantsAssumption DEF IInv, TypeOK, RunInv, FinishInv, EndInv, AnswerInv,
        BeforeRun, Unfinished, RecordedTerminal, memory, stored, history, Goto
<1>1. ASSUME NEW c \in Callers, GetResult(c) \/ Answer(c)
      PROVE  RunInv' /\ FinishInv' /\ EndInv' /\ AnswerInv'
  BY <1>1 DEF GetResult, Answer, DoneClosed
<1>2. CASE Load
  BY <1>2 DEF Load, LoadFailed, NodeNotFound, AddNode, NodeFound, LoadInput,
              LoadOutput, StateMap, Terminal
<1>3. CASE Run
  BY <1>3 DEF Run, ToWaiting, ToRunning, UpdateFailed, InputResolved,
              InputFailed, InputSaved, InputNotSaved, ResolverReturned,
              ResolverFailed, UpdateNode, StateMap, Terminal
<1>4. CASE Finish
  BY <1>4 DEF Finish, OutputSaved, OutputNotSaved, FinalUpdate,
              FinalUpdateFailed, LastUpdate, Panic, Memoize, CloseDone,
              UpdateNode, Terminal
<1>5. CASE Restart
  BY <1>5 DEF Restart
<1>6. CASE UNCHANGED vars
  BY <1>6 DEF vars
<1> QED BY <1>1, <1>2, <1>3, <1>4, <1>5, <1>6 DEF Next, Execute

THEOREM Inductive == Spec => []IInv
<1>1. IInv /\ [Next]_vars => IInv'
  BY TypeStep, StepInv DEF IInv
<1> QED BY <1>1, InitIInv, PTL DEF Spec

------------------------------------------------------------------------------
\* Every variable keeps its type in every behaviour.
THEOREM TypeCorrect == Spec => []TypeOK
BY Inductive, PTL DEF IInv

\* The resolver is called at most once in the life of a process, however many
\* goroutines call getResult and whatever fails (execOnce, node_execution.go).
THEOREM RunsOnce == Spec => []ResolverRunsOnce
<1>1. IInv => ResolverRunsOnce
  BY DEF IInv, RunInv, ResolverRunsOnce
<1> QED BY <1>1, Inductive, PTL

\* A node the store records as Complete or Error is never run again, not even
\* by a process that reopens the graph.
THEOREM FinishedIsFinal == Spec => FinishedNeverRuns
<1>1. IInv /\ [Next]_vars
        => [RecordedTerminal => RecordedTerminal' /\ runs' <= runs]_vars
  <2> SUFFICES ASSUME IInv, [Next]_vars, RecordedTerminal
               PROVE  RecordedTerminal' /\ runs' <= runs
    OBVIOUS
  <2>1. pc \notin Unfinished /\ EndInv /\ runs \in Nat
    BY DEF IInv, FinishInv, TypeOK
  <2>2. ASSUME NEW s \in Terminal, NEW e \in Errors, node' = StateMap(s, e)
        PROVE  RecordedTerminal'
    <3>1. StateMap(s, e) \in StateMaps /\ StateMap(s, e).status = s
      BY StateMapType DEF IInv, StateMap, Terminal, Statuses
    <3> QED BY <2>2, <3>1, ConstantsAssumption DEF RecordedTerminal
  <2> USE <2>1 DEF Unfinished, memory, stored, history, Goto
  <2>3. CASE \E c \in Callers : GetResult(c) \/ Answer(c)
    BY <2>3 DEF GetResult, Answer, RecordedTerminal
  <2>4. CASE Load
    BY <2>4 DEF Load, LoadFailed, NodeNotFound, AddNode, NodeFound, LoadInput,
                LoadOutput, RecordedTerminal
  <2>5. CASE Run
    BY <2>5 DEF Run, ToWaiting, ToRunning, UpdateFailed, InputResolved,
                InputFailed, InputSaved, InputNotSaved, ResolverReturned,
                ResolverFailed, RecordedTerminal
  <2>6. CASE FinalUpdate \/ LastUpdate
    BY <2>6, <2>2 DEF FinalUpdate, LastUpdate, UpdateNode, EndInv, IInv, TypeOK,
                      RecordedTerminal
  <2>7. CASE Finish /\ ~FinalUpdate /\ ~LastUpdate
    BY <2>7 DEF Finish, OutputSaved, OutputNotSaved, FinalUpdateFailed, Panic,
                Memoize, CloseDone, RecordedTerminal
  <2>8. CASE Restart
    BY <2>8 DEF Restart, RecordedTerminal
  <2>9. CASE UNCHANGED vars
    BY <2>9 DEF vars, RecordedTerminal
  <2> QED BY <2>3, <2>4, <2>5, <2>6, <2>7, <2>8, <2>9 DEF Next, Execute
<1> QED BY <1>1, Inductive, PTL DEF Spec, FinishedNeverRuns

------------------------------------------------------------------------------
\* NodeExecution implements OnceResult: every caller gets the one result that
\* was memoized before doneCh was closed.
THEOREM Implements == Spec => OnceForAllCallers
<1> USE ConstantsAssumption
<1>1. Init => Cell!Init
  BY DEF Init, Cell!Init
<1>2. IInv /\ [Next]_vars
        => [Cell!Next]_<<IF pc = "closed" THEN memo ELSE NoAnswer, answer>>
  <2> SUFFICES ASSUME IInv, [Next]_vars
               PROVE  [Cell!Next]_<<IF pc = "closed" THEN memo ELSE NoAnswer,
                                    answer>>
    OBVIOUS
  <2>0. memo \in Results /\ memo # NoAnswer /\ AnswerInv /\ TypeOK
    BY DEF IInv, TypeOK
  <2> USE DEF memory, stored, history, Goto
  <2>1. ASSUME NEW c \in Callers, GetResult(c) PROVE UNCHANGED <<memo, answer>>
                                    /\ (pc' = "closed" <=> pc = "closed")
    BY <2>1 DEF GetResult
  <2>2. ASSUME NEW c \in Callers, Answer(c) PROVE Cell!Reply(c)
    BY <2>2, <2>0 DEF Answer, DoneClosed, AnswerInv, Cell!Reply
  <2>3. CASE CloseDone
    <3>1. Cell!Publish
      BY <2>3, <2>0 DEF CloseDone, Cell!Publish
    <3> QED BY <3>1 DEF Cell!Next
  <2>4. ASSUME Execute, ~CloseDone
        PROVE  pc # "closed" /\ pc' # "closed" /\ UNCHANGED answer
    BY <2>4 DEF Execute, Load, LoadFailed, NodeNotFound, AddNode, NodeFound,
         LoadInput, LoadOutput, Run, ToWaiting, ToRunning, UpdateFailed,
         InputResolved, InputFailed, InputSaved, InputNotSaved,
         ResolverReturned, ResolverFailed, Finish, OutputSaved, OutputNotSaved,
         FinalUpdate, FinalUpdateFailed, LastUpdate, Panic, CanPanic, Memoize
  <2>5. CASE Restart
    <3>1. Cell!Forget
      BY <2>5 DEF Restart, Cell!Forget
    <3> QED BY <3>1 DEF Cell!Next
  <2>6. CASE UNCHANGED vars
    BY <2>6 DEF vars
  <2> QED BY <2>1, <2>2, <2>3, <2>4, <2>5, <2>6 DEF Next, Cell!Next
<1> QED BY <1>1, <1>2, Inductive, PTL DEF Spec, OnceForAllCallers, Cell!Spec

------------------------------------------------------------------------------
(* What the store holds of the node, against where execute stands. The first *)
(* group holds in every process; the second only in the one that defined the *)
(* node, which alone knows every update made so far.                         *)

\* The response content of the node is the output of a successful Get, as the
\* mode saves it, or somebody deleted it.
OutputKept == \/ response = Gone
              \/ \E p \in computed : response = Saved(p[2], NoContent)

ResponseInv ==
    /\ response = NoContent \/ OutputKept
    /\ node # NoNode /\ node.status = "Complete" /\ ~node.outLost => OutputKept
    /\ node # NoNode /\ node.status = "Error" => node.error # "none"

\* What a success given to the callers is, whichever process gives it.
Success(out) ==
    \/ runs = 1 /\ <<inValue, out>> \in computed
    \/ /\ runs = 0 /\ ~Defining /\ node # NoNode
       /\ IF node.outLost \/ response = Gone
          THEN out = Zero
          ELSE out = response /\ \E p \in computed : out = p[2]

\* A node whose end was loaded: status, error and outLost are the node's.
LoadedInv ==
    /\ pc \in {"unstarted", "getNode", "loadInput", "loadOutput"} => outValue = Zero
    /\ pc \in {"loadInput", "loadOutput"} =>
          /\ RecordedTerminal
          /\ status = node.status /\ err = node.error /\ outLost = node.outLost
    /\ pc = "loadOutput" => status = "Complete" /\ ~outLost

EndingInv ==
    /\ pc = "finalUpdate" => ~RecordedTerminal
    /\ pc = "lastUpdate" => status = "Error" /\ err # "none"
    /\ pc = "saveOutput" => status = "Complete"
    /\ pc \in {"saveOutput", "finalUpdate"} =>
          /\ status = "Complete" <=> err = "none"
          /\ err = "none" => runs = 1 /\ <<inValue, outValue>> \in computed
    /\ pc = "finalUpdate" /\ err = "none" /\ ~outLost => OutputKept

SuccessInv ==
    /\ pc = "memoize" /\ err = "none" => Success(outValue)
    /\ pc \in {"close", "closed"} /\ memo[2] = "none" => Success(memo[1])

\* The status of the node at each step of the process that defined it.
DefinedInv ==
    /\ pc \notin {"loadInput", "loadOutput"}
    /\ pc \in {"unstarted", "getNode", "addNode"} => node = NoNode
    /\ pc = "toWaiting" => node # NoNode /\ node.status = "Defined"
    /\ pc \in {"resolveInput", "saveInput", "toRunning"} =>
          node # NoNode /\ node.status = "WaitingDep"
    /\ pc \in {"runResolver", "saveOutput"} =>
          node # NoNode /\ node.status = "Running"
    /\ pc \in {"finalUpdate", "lastUpdate"} => ~RecordedTerminal
    /\ pc = "finalUpdate" /\ status = "Complete" =>
          node # NoNode /\ node.status = "Running"

\* The request content: not saved before saveInput, and after it kept or lost.
RequestInv ==
    /\ pc \in {"unstarted", "getNode", "addNode", "toWaiting", "resolveInput",
              "saveInput"} => request = NoContent
    /\ pc = "toRunning" /\ ~inLost => request = Saved(inValue, NoContent)
    /\ node # NoNode /\ node.status \in {"Running", "Complete"} =>
          /\ node.inLost = inLost
          /\ ~inLost => request = Saved(inValue, NoContent)

\* What the callers are told, against what the store says.
ToldInv(e) ==
    /\ e = "none" => node # NoNode /\ node.status = "Complete"
    /\ RecordedTerminal => node.error = e /\ (node.status = "Complete" <=> e = "none")

AgreeInv == /\ pc = "memoize" => ToldInv(err)
            /\ pc \in {"close", "closed"} => ToldInv(memo[2])

\* The inductive strengthening behind the properties of the stored node.
StoreInv == /\ ResponseInv /\ LoadedInv /\ EndingInv /\ SuccessInv
            /\ Defining => DefinedInv /\ RequestInv /\ AgreeInv

\* What an update leaves in the store.
LEMMA Written ==
    ASSUME TypeOK, NEW s \in Statuses, NEW e \in Errors, node' = StateMap(s, e)
    PROVE  /\ node' # NoNode
           /\ node'.status = s /\ node'.error = e
           /\ node'.inLost = inLost /\ node'.outLost = outLost
<1>1. node' \in StateMaps
  BY StateMapType
<1> QED BY <1>1, ConstantsAssumption DEF StateMap

LEMMA InitStoreInv == Init => StoreInv
BY DEF Init, StoreInv, ResponseInv, LoadedInv, EndingInv, SuccessInv, DefinedInv,
       RequestInv, AgreeInv

\* The steps before anything is resolved.
LEMMA LoadStoreInv == IInv /\ StoreInv /\ Load => StoreInv'
<1> SUFFICES ASSUME IInv, StoreInv, Load PROVE StoreInv'
  OBVIOUS
<1> USE ConstantsAssumption DEF IInv, TypeOK, StoreInv, ResponseInv, LoadedInv,
        EndingInv, SuccessInv, DefinedInv, RequestInv, AgreeInv, Defining,
        RecordedTerminal, OutputKept, Saved, memory, stored, history, Goto
<1>1. CASE LoadFailed
  BY <1>1 DEF LoadFailed
<1>2. CASE NodeNotFound
  BY <1>2 DEF NodeNotFound
<1>3. CASE AddNode
  BY <1>3, Written DEF AddNode, Statuses
<1>4. CASE NodeFound
  BY <1>4 DEF NodeFound, StateMaps, Terminal
<1>5. CASE LoadInput
  BY <1>5 DEF LoadInput, Terminal, Success, RunInv, BeforeRun
<1>6. CASE LoadOutput
  BY <1>6 DEF LoadOutput, Success, OutValues, RunInv, BeforeRun
<1> QED BY <1>1, <1>2, <1>3, <1>4, <1>5, <1>6 DEF Load

\* The steps up to the return of the resolver.
LEMMA RunStoreInv == IInv /\ StoreInv /\ Run => StoreInv'
<1> SUFFICES ASSUME IInv, StoreInv, Run PROVE StoreInv'
  OBVIOUS
<1> USE ConstantsAssumption DEF IInv, TypeOK, StoreInv, ResponseInv, LoadedInv,
        EndingInv, SuccessInv, DefinedInv, RequestInv, AgreeInv, Defining,
        RecordedTerminal, OutputKept, Saved, memory, stored, history, Goto
<1>1. CASE ToWaiting
  BY <1>1, Written DEF ToWaiting, UpdateNode, Statuses
<1>2. CASE ToRunning
  BY <1>2, Written DEF ToRunning, UpdateNode, Statuses
<1>3. CASE UpdateFailed
  BY <1>3 DEF UpdateFailed, Terminal, FinishInv, Unfinished
<1>4. CASE InputResolved
  BY <1>4 DEF InputResolved, Terminal
<1>5. CASE InputFailed
  BY <1>5 DEF InputFailed, Terminal, FinishInv, Unfinished
<1>6. CASE InputSaved
  BY <1>6 DEF InputSaved
<1>7. CASE InputNotSaved
  BY <1>7 DEF InputNotSaved
<1>8. CASE \E out \in Outputs : ResolverReturned(out)
  BY <1>8 DEF ResolverReturned, OutValues, RunInv, BeforeRun
<1>9. CASE ResolverFailed
  BY <1>9 DEF ResolverFailed, Terminal, FinishInv, Unfinished
<1> QED BY <1>1, <1>2, <1>3, <1>4, <1>5, <1>6, <1>7, <1>8, <1>9 DEF Run

\* The steps that record and publish the end.
LEMMA FinishStoreInv == IInv /\ StoreInv /\ Finish => StoreInv'
<1> SUFFICES ASSUME IInv, StoreInv, Finish PROVE StoreInv'
  OBVIOUS
<1> USE ConstantsAssumption DEF IInv, TypeOK, StoreInv, ResponseInv, LoadedInv,
        EndingInv, SuccessInv, DefinedInv, RequestInv, AgreeInv, Defining,
        RecordedTerminal, OutputKept, Saved, memory, stored, history, Goto
<1>1. CASE OutputSaved
  BY <1>1 DEF OutputSaved, Terminal, FinishInv, Unfinished
<1>2. CASE OutputNotSaved
  BY <1>2 DEF OutputNotSaved, Terminal, FinishInv, Unfinished
<1>3. CASE FinalUpdate
  BY <1>3, Written DEF FinalUpdate, UpdateNode, Terminal, EndInv, ToldInv, Success
<1>4. CASE FinalUpdateFailed
  BY <1>4 DEF FinalUpdateFailed, Terminal, ToldInv
<1>5. CASE LastUpdate
  BY <1>5, Written DEF LastUpdate, UpdateNode, Terminal, ToldInv, Statuses
<1>6. CASE Panic
  <2>1. /\ pc' = "lastUpdate" /\ status' = "Error" /\ err' = "panic"
        /\ UNCHANGED <<inValue, inLost, outLost, memo, stored, computed, mode>>
        /\ UNCHANGED restarts
    BY <1>6 DEF Panic
  <2>2. Defining => ~RecordedTerminal
    BY <1>6 DEF Panic, CanPanic, Labels, FinishInv, Unfinished
  <2> QED BY <2>1, <2>2
<1>7. CASE Memoize
  BY <1>7 DEF Memoize, ToldInv, Success
<1>8. CASE CloseDone
  BY <1>8 DEF CloseDone, ToldInv, Success
<1> QED BY <1>1, <1>2, <1>3, <1>4, <1>5, <1>6, <1>7, <1>8 DEF Finish

\* Calls, answers, a restart, and no step at all.
LEMMA RestStoreInv ==
    ASSUME IInv, StoreInv,
           \/ \E c \in Callers : GetResult(c) \/ Answer(c)
           \/ Restart
           \/ UNCHANGED vars
    PROVE  StoreInv'
<1> USE ConstantsAssumption DEF IInv, TypeOK, StoreInv, ResponseInv, LoadedInv,
        EndingInv, SuccessInv, DefinedInv, RequestInv, AgreeInv, Defining,
        RecordedTerminal, OutputKept, Saved, memory, stored, history, Goto
<1>1. CASE \E c \in Callers : GetResult(c)
  BY <1>1 DEF GetResult, ToldInv, Success
<1>2. CASE \E c \in Callers : Answer(c)
  BY <1>2 DEF Answer, ToldInv, Success
<1>3. CASE Restart
  BY <1>3 DEF Restart, Kept
<1>4. CASE UNCHANGED vars
  BY <1>4 DEF vars, ToldInv, Success
<1> QED BY <1>1, <1>2, <1>3, <1>4

THEOREM StoreInductive == Spec => []StoreInv
<1>1. IInv /\ StoreInv /\ [Next]_vars => StoreInv'
  BY LoadStoreInv, RunStoreInv, FinishStoreInv, RestStoreInv DEF Next, Execute
<1> QED BY <1>1, InitStoreInv, Inductive, PTL DEF Spec

------------------------------------------------------------------------------
\* Content is saved before the status that says so (execute, completeExecution):
\* no process, and no crash between two updates, leaves a node that reads
\* Complete with its output neither kept, nor reported lost, nor deleted.
THEOREM ContentFirst == Spec => []ContentBeforeStatus
<1>1. StoreInv => ContentBeforeStatus
  BY DEF StoreInv, ResponseInv, RequestInv, OutputKept, ContentBeforeStatus
<1> QED BY <1>1, StoreInductive, PTL

\* What getResult reports is what the process that defined the node recorded.
THEOREM AnswerIsRecorded == Spec => []StoreAgreesWithAnswer
<1>1. StoreInv => StoreAgreesWithAnswer
  BY DEF StoreInv, AgreeInv, ToldInv, StoreAgreesWithAnswer
<1> QED BY <1>1, StoreInductive, PTL

\* A success is what the resolver computed from the input resolved here or, in
\* a process that found the node finished, the output in the store, which a run
\* computed; the zero value exactly when that output was lost or deleted.
THEOREM SuccessIsReal == Spec => []SuccessWasComputed
<1>1. StoreInv => SuccessWasComputed
  BY DEF StoreInv, SuccessInv, Success, SuccessWasComputed
<1> QED BY <1>1, StoreInductive, PTL

\* A reader of the store sees the status move forward only: no step of the
\* process that defined the node writes an older status over a newer one.
THEOREM StatusForward == Spec => StoredStatusMovesForward
<1>1. IInv /\ StoreInv /\ [Next]_vars
        => [node # NoNode /\ Defining' =>
              /\ node' # NoNode
              /\ Rank(node'.status) >= Rank(node.status)
              /\ RecordedTerminal => node' = node]_vars
  <2> SUFFICES ASSUME IInv, StoreInv, [Next]_vars, node # NoNode, Defining'
               PROVE  /\ node' # NoNode
                      /\ Rank(node'.status) >= Rank(node.status)
                      /\ RecordedTerminal => node' = node
    OBVIOUS
  <2>1. TypeOK /\ EndInv /\ FinishInv /\ EndingInv
    BY DEF IInv, StoreInv
  <2>2. Defining /\ ~Restart
    <3>1. ~Restart
      BY <2>1 DEF Defining, Restart, TypeOK
    <3>2. restarts' = restarts
      BY <3>1, Zenon DEF Next, Execute, Load, LoadFailed, NodeNotFound, AddNode,
         NodeFound, LoadInput, LoadOutput, Run, ToWaiting, ToRunning, UpdateFailed,
         InputResolved, InputFailed, InputSaved, InputNotSaved, ResolverReturned,
         ResolverFailed, Finish, OutputSaved, OutputNotSaved, FinalUpdate,
         FinalUpdateFailed, LastUpdate, Panic, Memoize, CloseDone, GetResult,
         Answer, history, vars
    <3> QED BY <3>1, <3>2 DEF Defining
  <2>3. DefinedInv
    BY <2>2 DEF StoreInv
  <2>4. node.status \in Statuses
    BY <2>1 DEF TypeOK, StateMaps
  <2>5. ASSUME NEW s \in Statuses, NEW e \in Errors, node' = StateMap(s, e)
        PROVE  node' # NoNode /\ node'.status = s
    BY <2>1, <2>5, Written
  <2>6. CASE UNCHANGED node
    BY <2>4, <2>6 DEF Rank, Statuses
  <2>7. CASE ToWaiting
    BY <2>7, <2>5, <2>3, <2>1 DEF ToWaiting, UpdateNode, DefinedInv, Rank, Statuses,
       TypeOK, RecordedTerminal, Terminal
  <2>8. CASE ToRunning
    BY <2>8, <2>5, <2>3, <2>1 DEF ToRunning, UpdateNode, DefinedInv, Rank, Statuses,
       TypeOK, RecordedTerminal, Terminal
  <2>9. CASE FinalUpdate \/ LastUpdate
    <3>1. status \in Terminal /\ ~RecordedTerminal
      BY <2>9, <2>3, <2>1 DEF FinalUpdate, LastUpdate, EndInv, DefinedInv
    <3> QED BY <2>9, <2>5, <2>4, <2>6, <2>1, <3>1 DEF FinalUpdate, LastUpdate,
         UpdateNode, TypeOK, Rank, Statuses, Terminal
  <2>10. ~AddNode
    BY <2>3 DEF AddNode, DefinedInv
  <2>11. UNCHANGED node \/ ToWaiting \/ ToRunning \/ FinalUpdate \/ LastUpdate
    BY <2>2, <2>10, Zenon DEF Next, Execute, Load, LoadFailed, NodeNotFound, NodeFound,
       LoadInput, LoadOutput, Run, UpdateFailed, InputResolved, InputFailed,
       InputSaved, InputNotSaved, ResolverReturned, ResolverFailed, Finish,
       OutputSaved, OutputNotSaved, FinalUpdateFailed, Panic, Memoize, CloseDone,
       GetResult, Answer, stored, vars
  <2> QED BY <2>6, <2>7, <2>8, <2>9, <2>11
<1> QED BY <1>1, Inductive, StoreInductive, PTL DEF Spec, StoredStatusMovesForward

==============================================================================
