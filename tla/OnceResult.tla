----------------------------- MODULE OnceResult -----------------------------
(***************************************************************************)
(* What an executioner promises its callers (execution_registry.go,        *)
(* interface executioner): a result is published at most once, and every   *)
(* caller that is answered is answered with it, after it was published.    *)
(* Forget is the death of the process, which takes the promise with it.    *)
(***************************************************************************)
CONSTANTS Callers, Results, NoResult

VARIABLES result,  \* the published result, or NoResult
          answer   \* what each caller was given, or NoResult

Init == /\ result = NoResult
        /\ answer = [c \in Callers |-> NoResult]

Publish == /\ result = NoResult
           /\ result' \in Results
           /\ UNCHANGED answer

Reply(c) == /\ result # NoResult
            /\ answer[c] = NoResult
            /\ answer' = [answer EXCEPT ![c] = result]
            /\ UNCHANGED result

Forget == /\ result' = NoResult
          /\ answer' = [c \in Callers |-> NoResult]

Next == Publish \/ (\E c \in Callers : Reply(c)) \/ Forget

Spec == Init /\ [][Next]_<<result, answer>>
==============================================================================
