------------------------- MODULE WorkflowRunProofs -------------------------
(***************************************************************************)
(* Theorems of WorkflowRun, for any calls, graphs, workflows and lengths,  *)
(* and any number of deaths of the process.                                *)
(***************************************************************************)
EXTENDS WorkflowRun, TLAPS

\* A graph of a refusing store that a run has got past CreateGraph with is that
\* run's.
OwnerInv ==
    \A c \in Calls : at[c] \in Begun /\ Refusing(Graph(c)) => owner[Graph(c)] = c

\* The nodes behind a run are complete.
Behind(c) ==
    /\ at[c] \in {Idle, "mapReq", "create", "instance"} => node[c] = 1
    /\ at[c] \in AtNode => \A i \in 1..(node[c] - 1) : Node(c, i) \in complete
    /\ at[c] \in {"workflowCheck", "runCheck", "mapResp", Ok} =>
         \A i \in Nodes : Node(c, i) \in complete

DoneInv == \A c \in Calls : Behind(c)

\* Runs of a shared definition that are in progress have different instances.
InstanceInv ==
    \A c \in Calls : at[c] \in AtNode /\ Workflow(c) \notin plan.local =>
        /\ instance[c] < counter[Workflow(c)]
        /\ \A d \in Calls : /\ d # c /\ at[d] \in AtNode
                            /\ Workflow(d) = Workflow(c)
                            => instance[d] # instance[c]

LEMMA NodeTyped ==
    ASSUME TypeOK, NEW c \in Calls, NEW i \in Nodes
    PROVE  /\ Graph(c) \in Graphs /\ Workflow(c) \in Workflows
           /\ Node(c, i) \in NodeKeys
BY ConstantsAssumption DEF TypeOK, Graph, Workflow, Node, NodeKeys, PlanType

\* Mutable state has its type, in every state (the variables of WorkflowRun).
LEMMA InitType == Init => TypeOK
BY ConstantsAssumption DEF Init, TypeOK, Labels, Idle, Nodes, NodeKeys

LEMMA TypeStep == TypeOK /\ [Next]_vars => TypeOK'
<1> USE ConstantsAssumption
<1> SUFFICES ASSUME TypeOK, [Next]_vars PROVE TypeOK'
  OBVIOUS
<1> USE DEF Labels, Begun, Over, AtNode, Idle, Ok, Error, Lost, Goto, stores
<1>1. ASSUME NEW c \in Calls, Start(c) \/ MapRequest(c) PROVE TypeOK'
  BY <1>1 DEF TypeOK, Start, MapRequest
<1>2. ASSUME NEW c \in Calls, CreateGraph(c) \/ GraphExists(c) PROVE TypeOK'
  BY <1>2, NodeTyped DEF TypeOK, CreateGraph, GraphExists
<1>3. ASSUME NEW c \in Calls, TakeInstance(c) PROVE TypeOK'
  <2>1. Workflow(c) \in Workflows
    BY DEF TypeOK, PlanType, Workflow
  <2>2. instance' \in [Calls -> Nat] /\ counter' \in [Workflows -> Nat]
    BY <1>3, <2>1 DEF TypeOK, TakeInstance
  <2> QED BY <1>3, <2>2 DEF TypeOK, TakeInstance
<1>4. ASSUME NEW c \in Calls, Load(c) \/ Complete(c) PROVE TypeOK'
  <2>1. Current(c) \in NodeKeys
    BY NodeTyped DEF Current, TypeOK
  <2>2. at' \in [Calls -> Labels] /\ node' \in [Calls -> Nodes]
    BY <1>4 DEF TypeOK, Load, Complete, NextNode, Nodes
  <2> QED BY <1>4, <2>1, <2>2 DEF TypeOK, Load, Complete
<1>5. ASSUME NEW c \in Calls, ResolverReturns(c) \/ StoreFails(c) PROVE TypeOK'
  BY <1>5 DEF TypeOK, ResolverReturns, StoreFails
<1>6. ASSUME NEW c \in Calls, NodeFails(c) PROVE TypeOK'
  <2>1. Current(c) \in NodeKeys
    BY NodeTyped DEF Current, TypeOK
  <2> QED BY <1>6, <2>1 DEF TypeOK, NodeFails
<1>7. ASSUME NEW c \in Calls, WorkflowChecks(c) \/ RunChecks(c) \/ MapResponse(c)
      PROVE  TypeOK'
  BY <1>7 DEF TypeOK, WorkflowChecks, RunChecks, MapResponse
<1>8. ASSUME NEW c \in Calls, Cancel(c) PROVE TypeOK'
  BY <1>8 DEF TypeOK, Cancel
<1>9. CASE Die
  BY <1>9 DEF TypeOK, Die
<1>10. CASE UNCHANGED vars
  BY <1>10 DEF TypeOK, vars, NodeKeys
<1> QED
  BY <1>1, <1>2, <1>3, <1>4, <1>5, <1>6, <1>7, <1>8, <1>9, <1>10
     DEF Next, Framework, Resolver, ResolverStops

LEMMA OwnerStep == TypeOK /\ OwnerInv /\ [Next]_vars => OwnerInv'
<1> SUFFICES ASSUME TypeOK, OwnerInv, [Next]_vars PROVE OwnerInv'
  OBVIOUS
<1> USE DEF Begun, Over, AtNode, Idle, Ok, Error, Lost, Goto, stores, Graph, Refusing
<1>1. ASSUME NEW d \in Calls, CreateGraph(d) PROVE OwnerInv'
  <2> SUFFICES ASSUME NEW c \in Calls, at'[c] \in Begun, plan'.graph[c] \notin plan'.tolerant
               PROVE  owner'[plan'.graph[c]] = c
    BY DEF OwnerInv
  <2>1. plan' = plan /\ plan.graph[c] \in Graphs
    BY <1>1, ConstantsAssumption DEF CreateGraph, TypeOK, PlanType
  <2>2. CASE c = d
    BY <1>1, <2>1, <2>2 DEF CreateGraph, TypeOK
  <2>3. CASE c # d
    <3>1. at[c] \in Begun /\ owner[plan.graph[c]] = c
      BY <1>1, <2>1, <2>3 DEF CreateGraph, TypeOK, OwnerInv
    <3>2. c # None
      BY ConstantsAssumption
    <3> QED BY <1>1, <2>1, <3>1, <3>2 DEF CreateGraph, TypeOK
  <2> QED BY <2>2, <2>3
<1>2. ASSUME plan' = plan, owner' = owner,
             \A c \in Calls : at'[c] \in Begun => at[c] \in Begun
      PROVE  OwnerInv'
  BY <1>2 DEF OwnerInv
<1>3. ASSUME NEW d \in Calls, Start(d) \/ MapRequest(d) \/ GraphExists(d)
      PROVE  OwnerInv'
  BY <1>2, <1>3 DEF Start, MapRequest, GraphExists, TypeOK
<1>4. ASSUME NEW d \in Calls, TakeInstance(d) \/ Load(d) \/ Complete(d)
      PROVE  OwnerInv'
  BY <1>2, <1>4 DEF TakeInstance, Load, Complete, NextNode, TypeOK
<1>5. ASSUME NEW d \in Calls, ResolverReturns(d) \/ NodeFails(d) \/ StoreFails(d)
      PROVE  OwnerInv'
  BY <1>2, <1>5 DEF ResolverReturns, NodeFails, StoreFails, TypeOK
<1>6. ASSUME NEW d \in Calls,
             WorkflowChecks(d) \/ RunChecks(d) \/ MapResponse(d) \/ Cancel(d)
      PROVE  OwnerInv'
  BY <1>2, <1>6 DEF WorkflowChecks, RunChecks, MapResponse, Cancel, TypeOK
<1>7. CASE Die
  BY <1>2, <1>7 DEF Die, TypeOK
<1>8. CASE UNCHANGED vars
  BY <1>2, <1>8 DEF vars
<1> QED
  BY <1>1, <1>3, <1>4, <1>5, <1>6, <1>7, <1>8
     DEF Next, Framework, Resolver, ResolverStops

LEMMA DoneStep == TypeOK /\ DoneInv /\ [Next]_vars => DoneInv'
<1> USE ConstantsAssumption
<1> SUFFICES ASSUME TypeOK, DoneInv, [Next]_vars, NEW c \in Calls
             PROVE  Behind(c)'
  BY DEF DoneInv
<1> USE DEF Begun, Over, AtNode, Idle, Ok, Error, Lost, Goto, stores, Nodes,
            Node, Graph, Workflow, Current, DoneInv, Behind
<1>1. ASSUME NEW d \in Calls, Start(d) \/ MapRequest(d) \/ GraphExists(d) \/ CreateGraph(d)
      PROVE  Behind(c)'
  BY <1>1 DEF Start, MapRequest, GraphExists, CreateGraph, TypeOK
<1>2. ASSUME NEW d \in Calls, TakeInstance(d)
      PROVE  Behind(c)'
  <2>1. CASE c = d
    BY <1>2, <2>1 DEF TakeInstance, TypeOK
  <2>2. CASE c # d
    BY <1>2, <2>2 DEF TakeInstance, TypeOK
  <2> QED BY <2>1, <2>2
<1>3. ASSUME NEW d \in Calls, Load(d) \/ Complete(d)
      PROVE  Behind(c)'
  <2>1. CASE c = d
    <3>1. \A i \in 1..node[c] : at'[c] \in AtNode \/ at'[c] = "workflowCheck" =>
             Node(c, i) \in complete' \/ i = node[c]
      BY <1>3, <2>1 DEF Load, Complete, TypeOK
    <3> QED BY <1>3, <2>1, <3>1 DEF Load, Complete, NextNode, TypeOK
  <2>2. CASE c # d
    BY <1>3, <2>2 DEF Load, Complete, NextNode, TypeOK
  <2> QED BY <2>1, <2>2
<1>4. ASSUME NEW d \in Calls, ResolverReturns(d) \/ NodeFails(d) \/ StoreFails(d)
      PROVE  Behind(c)'
  BY <1>4 DEF ResolverReturns, NodeFails, StoreFails, TypeOK
<1>5. ASSUME NEW d \in Calls,
             WorkflowChecks(d) \/ RunChecks(d) \/ MapResponse(d) \/ Cancel(d)
      PROVE  Behind(c)'
  BY <1>5 DEF WorkflowChecks, RunChecks, MapResponse, Cancel, TypeOK
<1>6. CASE Die
  BY <1>6 DEF Die, TypeOK
<1>7. CASE UNCHANGED vars
  BY <1>7 DEF vars
<1> QED
  BY <1>1, <1>2, <1>3, <1>4, <1>5, <1>6, <1>7
     DEF Next, Framework, Resolver, ResolverStops

LEMMA InstanceStep == TypeOK /\ InstanceInv /\ [Next]_vars => InstanceInv'
<1> USE ConstantsAssumption
<1> SUFFICES ASSUME TypeOK, InstanceInv, [Next]_vars PROVE InstanceInv'
  OBVIOUS
<1> USE DEF Begun, Over, AtNode, Idle, Ok, Error, Lost, Goto, stores, Workflow
<1>1. ASSUME NEW d \in Calls, TakeInstance(d) PROVE InstanceInv'
  <2> SUFFICES ASSUME NEW c \in Calls, at'[c] \in AtNode,
                      plan'.workflow[c] \notin plan'.local,
                      NEW e \in Calls, e # c, at'[e] \in AtNode,
                      plan'.workflow[e] = plan'.workflow[c]
               PROVE  /\ instance'[c] < counter'[plan'.workflow[c]]
                      /\ instance'[e] # instance'[c]
    <3>1. \A c \in Calls : at'[c] \in AtNode /\ plan'.workflow[c] \notin plan'.local
             => instance'[c] < counter'[plan'.workflow[c]]
      <4> TAKE c \in Calls
      <4>1. plan' = plan /\ plan.workflow[c] \in Workflows
                         /\ plan.workflow[d] \in Workflows
        BY <1>1 DEF TakeInstance, TypeOK, PlanType
      <4>2. CASE c = d
        BY <1>1, <4>1, <4>2 DEF TakeInstance, TypeOK
      <4>3. CASE c # d
        BY <1>1, <4>1, <4>3 DEF TakeInstance, TypeOK, InstanceInv
      <4> QED BY <4>2, <4>3
    <3> QED BY <3>1 DEF InstanceInv
  <2>1. /\ plan' = plan
        /\ \A b \in Calls : plan.workflow[b] \in Workflows
    BY <1>1 DEF TakeInstance, TypeOK, PlanType
  <2>2. CASE c = d
    BY <1>1, <2>1, <2>2 DEF TakeInstance, TypeOK, InstanceInv
  <2>3. CASE e = d
    BY <1>1, <2>1, <2>3 DEF TakeInstance, TypeOK, InstanceInv
  <2>4. CASE c # d /\ e # d
    BY <1>1, <2>1, <2>4 DEF TakeInstance, TypeOK, InstanceInv
  <2> QED BY <2>2, <2>3, <2>4
<1>2. ASSUME plan' = plan, instance' = instance, counter' = counter,
             \A c \in Calls : at'[c] \in AtNode => at[c] \in AtNode
      PROVE  InstanceInv'
  BY <1>2 DEF InstanceInv
<1>3. ASSUME NEW d \in Calls, \/ Start(d) \/ MapRequest(d) \/ GraphExists(d)
                               \/ CreateGraph(d)
      PROVE  InstanceInv'
  BY <1>2, <1>3 DEF Start, MapRequest, GraphExists, CreateGraph, TypeOK
<1>4. ASSUME NEW d \in Calls, Load(d) \/ Complete(d) PROVE InstanceInv'
  BY <1>2, <1>4 DEF Load, Complete, NextNode, TypeOK
<1>5. ASSUME NEW d \in Calls, ResolverReturns(d) \/ NodeFails(d) \/ StoreFails(d)
      PROVE  InstanceInv'
  BY <1>2, <1>5 DEF ResolverReturns, NodeFails, StoreFails, TypeOK
<1>6. ASSUME NEW d \in Calls,
             WorkflowChecks(d) \/ RunChecks(d) \/ MapResponse(d) \/ Cancel(d)
      PROVE  InstanceInv'
  BY <1>2, <1>6 DEF WorkflowChecks, RunChecks, MapResponse, Cancel, TypeOK
<1>7. CASE Die
  BY <1>7 DEF Die, TypeOK, InstanceInv
<1>8. CASE UNCHANGED vars
  BY <1>2, <1>8 DEF vars
<1> QED
  BY <1>1, <1>3, <1>4, <1>5, <1>6, <1>7, <1>8
     DEF Next, Framework, Resolver, ResolverStops

\* Two calls at a node are at different nodes of the stores, unless each made
\* the definition for itself and their graph tolerates both.
SharedIfTolerant ==
    \A p \in Plans : \A c \in Calls :
        p.graph[c] \in p.tolerant => p.workflow[c] \notin p.local

LEMMA NodesDiffer ==
    ASSUME TypeOK, OwnerInv, InstanceInv, SharedIfTolerant,
           NEW c \in Calls, NEW d \in Calls, c # d,
           at[c] \in AtNode, at[d] \in AtNode
    PROVE  Current(c) # Current(d)
<1> SUFFICES ASSUME Current(c) = Current(d) PROVE FALSE
  OBVIOUS
<1>1. /\ Graph(c) = Graph(d) /\ Workflow(c) = Workflow(d)
      /\ instance[c] = instance[d]
  BY DEF Current, Node
<1>2. CASE Refusing(Graph(c))
  BY <1>1, <1>2 DEF OwnerInv, Begun
<1>3. CASE ~Refusing(Graph(c))
  <2>1. Workflow(c) \notin plan.local
    BY <1>3 DEF SharedIfTolerant, Refusing, Graph, Workflow, TypeOK
  <2> QED BY <1>1, <2>1 DEF InstanceInv
<1> QED BY <1>2, <1>3

LEMMA NotRunStep ==
    ASSUME SharedIfTolerant
    PROVE  /\ TypeOK /\ OwnerInv /\ InstanceInv /\ CompleteIsNotRun /\ [Next]_vars
           => CompleteIsNotRun'
<1> USE ConstantsAssumption
<1> SUFFICES ASSUME TypeOK, OwnerInv, InstanceInv, CompleteIsNotRun, [Next]_vars,
                    NEW c \in Calls, at'[c] \in {"resolve", "save"}
             PROVE  Current(c)' \notin complete'
  BY DEF CompleteIsNotRun
<1> USE DEF Begun, Over, AtNode, Idle, Ok, Error, Lost, Goto, stores
<1>1. ASSUME NEW d \in Calls, Complete(d) PROVE Current(c)' \notin complete'
  <2>1. c # d /\ at[c] \in {"resolve", "save"} /\ at'[c] = at[c]
    BY <1>1 DEF Complete, NextNode, TypeOK
  <2>2. Current(c)' = Current(c)
    BY <1>1, <2>1 DEF Complete, NextNode, TypeOK, Current, Node, Graph, Workflow
  <2>3. Current(c) # Current(d)
    BY <1>1, <2>1, NodesDiffer DEF Complete
  <2> QED BY <1>1, <2>1, <2>2, <2>3 DEF Complete, CompleteIsNotRun
<1>2. ASSUME NEW d \in Calls, Load(d) PROVE Current(c)' \notin complete'
  <2>1. CASE c = d
    <3>1. at'[c] = "resolve" /\ Current(c) \notin complete /\ UNCHANGED node
      BY <1>2, <2>1 DEF Load, NextNode, TypeOK
    <3> QED BY <1>2, <2>1, <3>1 DEF Load, Current, Node, Graph, Workflow
  <2>2. CASE c # d
    BY <1>2, <2>2 DEF Load, NextNode, TypeOK, Current, Node, Graph, Workflow, CompleteIsNotRun
  <2> QED BY <2>1, <2>2
<1>3. ASSUME at[c] \in {"resolve", "save"}, plan' = plan, node' = node,
             instance'[c] = instance[c], complete' = complete
      PROVE  Current(c)' \notin complete'
  BY <1>3 DEF Current, Node, Graph, Workflow, CompleteIsNotRun
<1>4. ASSUME NEW d \in Calls, \/ Start(d) \/ MapRequest(d) \/ GraphExists(d)
                               \/ CreateGraph(d) \/ TakeInstance(d)
      PROVE  Current(c)' \notin complete'
  BY <1>3, <1>4 DEF Start, MapRequest, GraphExists, CreateGraph, TakeInstance, TypeOK
<1>5. ASSUME NEW d \in Calls, ResolverReturns(d) \/ NodeFails(d) \/ StoreFails(d)
      PROVE  Current(c)' \notin complete'
  BY <1>3, <1>5 DEF ResolverReturns, NodeFails, StoreFails, TypeOK
<1>6. ASSUME NEW d \in Calls,
             WorkflowChecks(d) \/ RunChecks(d) \/ MapResponse(d) \/ Cancel(d)
      PROVE  Current(c)' \notin complete'
  BY <1>3, <1>6 DEF WorkflowChecks, RunChecks, MapResponse, Cancel, TypeOK
<1>7. CASE Die
  BY <1>3, <1>7 DEF Die, TypeOK
<1>8. CASE UNCHANGED vars
  BY <1>3, <1>8 DEF vars
<1> QED
  BY <1>1, <1>2, <1>4, <1>5, <1>6, <1>7, <1>8
     DEF Next, Framework, Resolver, ResolverStops

------------------------------------------------------------------------------
(* The theorems.                                                             *)

IInv == TypeOK /\ OwnerInv /\ DoneInv /\ InstanceInv

LEMMA InitIInv == Init => IInv
BY InitType DEF Init, IInv, OwnerInv, DoneInv, Behind, InstanceInv, Begun, AtNode, Idle, Ok

LEMMA StepIInv == IInv /\ [Next]_vars => IInv'
BY TypeStep, OwnerStep, DoneStep, InstanceStep DEF IInv

LEMMA AlwaysIInv == Spec => []IInv
BY InitIInv, StepIInv, PTL DEF Spec

\* Mutable state has its type, in every state of every run.
THEOREM TypeCorrect == Spec => []TypeOK
<1>1. IInv => TypeOK
  BY DEF IInv
<1> QED BY AlwaysIInv, <1>1, PTL

\* A run that succeeds has a complete node for each of its chain.
THEOREM SuccessWhole == Spec => []SuccessIsWhole
<1>1. IInv => SuccessIsWhole
  BY DEF IInv, DoneInv, Behind, SuccessIsWhole
<1> QED BY AlwaysIInv, <1>1, PTL

\* No complete node is run, however many calls share a graph and however often
\* the process dies, if calls that share a tolerant graph share definitions.
THEOREM CompleteNotRun ==
    ASSUME SharedIfTolerant
    PROVE  Spec => []CompleteIsNotRun
<1>1. Init => CompleteIsNotRun
  BY DEF Init, CompleteIsNotRun, Idle
<1>2. IInv /\ CompleteIsNotRun /\ [Next]_vars => CompleteIsNotRun'
  BY NotRunStep DEF IInv
<1> QED BY <1>1, <1>2, AlwaysIInv, PTL DEF Spec

\* A cancelled run does not succeed: both checks stand between any node and
\* the result (the executioner of the workflow and executeInternal).
THEOREM CancelledNeverSucceeds == Spec => CancelledFails
<1> USE DEF Succeeded, Goto, Ok, Error, Idle, Lost, Over
<1>1. TypeOK /\ [Next]_vars => \A c \in cancelled : Succeeded(c)' => Succeeded(c)
  <2> SUFFICES ASSUME TypeOK, [Next]_vars, NEW c \in cancelled, ~Succeeded(c)
               PROVE  ~Succeeded(c)'
    OBVIOUS
  <2>0. c \in Calls
    BY DEF TypeOK
  <2>1. ASSUME NEW d \in Calls, \/ Start(d) \/ MapRequest(d) \/ GraphExists(d)
                                 \/ CreateGraph(d) \/ TakeInstance(d)
        PROVE  ~Succeeded(c)'
    BY <2>0, <2>1 DEF Start, MapRequest, GraphExists, CreateGraph, TakeInstance, TypeOK
  <2>2. ASSUME NEW d \in Calls, \/ Load(d) \/ Complete(d) \/ ResolverReturns(d)
                                 \/ NodeFails(d) \/ StoreFails(d)
        PROVE  ~Succeeded(c)'
    BY <2>0, <2>2 DEF Load, Complete, NextNode, ResolverReturns, NodeFails, StoreFails, TypeOK
  <2>3. ASSUME NEW d \in Calls, \/ WorkflowChecks(d) \/ RunChecks(d)
                                 \/ MapResponse(d) \/ Cancel(d)
        PROVE  ~Succeeded(c)'
    BY <2>0, <2>3 DEF WorkflowChecks, RunChecks, MapResponse, Cancel, Done, TypeOK
  <2>4. CASE Die
    BY <2>0, <2>4 DEF Die, TypeOK
  <2>5. CASE UNCHANGED vars
    BY <2>5 DEF vars
  <2> QED
    BY <2>1, <2>2, <2>3, <2>4, <2>5 DEF Next, Framework, Resolver, ResolverStops
<1>2. Spec => []TypeOK
  BY TypeCorrect
<1> QED BY <1>1, <1>2, PTL DEF Spec, CancelledFails

------------------------------------------------------------------------------
(* The refinement of RunContract. phase, owned and content are what the      *)
(* INSTANCE substitutes for its variables.                                   *)

phase == [c \in Calls |-> IF Refusing(Graph(c)) THEN Phase(c) ELSE "ready"]
owned == [g \in Graphs |-> IF Refusing(g) THEN owner[g] ELSE None]
content == [g \in Graphs |-> IF Refusing(g) THEN CompleteIn(g) ELSE {}]

LEMMA InitContract == Init => Contract!Init
BY DEF Init, Contract!Init, CompleteIn, Phase, Refusing, Graph, Begun, AtNode, Over, Idle,
       Ok, Error, Lost

\* A step that changes neither stores nor phases is a stutter.
LEMMA SameContract ==
    ASSUME plan' = plan, owner' = owner, complete' = complete,
           \A c \in Calls : Phase(c)' = Phase(c)
    PROVE  phase' = phase /\ owned' = owned /\ content' = content
BY DEF phase, owned, content, CompleteIn, Refusing, Graph

\* A step that moves the phase of one call of a refusing store.
LEMMA PhaseMoves ==
    ASSUME plan' = plan, NEW c \in Calls, Refusing(Graph(c)),
           \A d \in Calls \ {c} : Phase(d)' = Phase(d)
    PROVE  phase[c] = Phase(c) /\ phase' = [phase EXCEPT ![c] = Phase(c)']
BY DEF phase, Refusing, Graph

\* A step of a call of a tolerant store is a stutter.
LEMMA TolerantStutters ==
    ASSUME plan' = plan, NEW c \in Calls, ~Refusing(Graph(c)),
           \A g \in Graphs \ {Graph(c)} : owner'[g] = owner[g],
           \A k \in complete' \ complete : k[1] = Graph(c),
           complete \subseteq complete',
           \A d \in Calls \ {c} : Phase(d)' = Phase(d)
    PROVE  phase' = phase /\ owned' = owned /\ content' = content
<1>1. phase' = phase
  BY DEF phase, Refusing, Graph
<1>2. owned' = owned
  BY DEF owned, Refusing, Graph
<1>3. \A g \in Graphs : Refusing(g) => CompleteIn(g)' = CompleteIn(g)
  BY DEF CompleteIn
<1>4. content' = content
  BY <1>3 DEF content, Refusing
<1> QED BY <1>1, <1>2, <1>4

LEMMA StepContract == IInv /\ [Next]_vars => [Contract!Next]_<<phase, owned, content>>
<1> USE ConstantsAssumption
<1> SUFFICES ASSUME IInv, [Next]_vars, ~UNCHANGED <<phase, owned, content>>
             PROVE  Contract!Next
  OBVIOUS
<1>0. TypeOK /\ OwnerInv /\ DoneInv
  BY DEF IInv
<1> USE DEF Begun, Over, AtNode, Idle, Ok, Error, Lost, Goto, stores, Phase
<1> DEFINE Alone(c) == /\ plan' = plan
                       /\ \A d \in Calls \ {c} : Phase(d)' = Phase(d)
           Reads == owner' = owner /\ complete' = complete
<1>1. ASSUME NEW c \in Calls, Refusing(Graph(c)), Alone(c), Reads,
             Phase(c) = "ready", Phase(c)' = "error"
      PROVE  Contract!Next
  <2>1. Contract!TurnedAway(c)
    BY <1>1, PhaseMoves DEF Contract!TurnedAway, Contract!InPhase, phase, owned, content, CompleteIn,
       Refusing, Graph
  <2> QED BY <2>1 DEF Contract!Next
<1>2. ASSUME NEW c \in Calls, Refusing(Graph(c)), Alone(c), Reads,
             Phase(c) = "running", Phase(c)' = "error"
      PROVE  Contract!Next
  <2>1. Contract!Fail(c)
    BY <1>2, PhaseMoves DEF Contract!Fail, Contract!InPhase, phase, owned, content, CompleteIn,
       Refusing, Graph
  <2> QED BY <2>1 DEF Contract!Next
<1>3. ASSUME NEW c \in Calls, Refusing(Graph(c)), Alone(c), Reads,
             Phase(c) = "running", Phase(c)' = "ok",
             \A i \in Nodes : Node(c, i) \in complete
      PROVE  Contract!Next
  <2>1. Graph(c) \in Graphs
    BY <1>0 DEF TypeOK, PlanType, Graph
  <2>2. owned[Graph(c)] = c
    BY <1>0, <1>3, <2>1 DEF OwnerInv, owned
  <2>3. content[Graph(c)] = Nodes
    <3>1. \A i \in Nodes : \E k \in complete : k[1] = Graph(c) /\ k[4] = i
      BY <1>3 DEF Node
    <3> QED BY <1>3, <2>1, <3>1 DEF content, CompleteIn
  <2>4. Contract!Succeed(c)
    BY <1>3, <2>1, <2>2, <2>3, PhaseMoves
       DEF Contract!Succeed, Contract!InPhase, phase, owned, content, CompleteIn, Refusing, Graph
  <2> QED BY <2>4 DEF Contract!Next
<1>4. ASSUME NEW c \in Calls, Alone(c), Reads PROVE
        \/ UNCHANGED <<phase, owned, content>>
        \/ Refusing(Graph(c)) /\ Phase(c)' # Phase(c)
  <2>1. CASE Refusing(Graph(c))
    BY <1>4, <2>1, SameContract
  <2>2. CASE ~Refusing(Graph(c))
    BY <1>4, <2>2, TolerantStutters
  <2> QED BY <2>1, <2>2
<1>5. ASSUME NEW c \in Calls, CreateGraph(c) PROVE Contract!Next
  <2>1. /\ Alone(c) /\ complete' = complete /\ Graph(c) \in Graphs
        /\ Phase(c) = "ready" /\ Phase(c)' = "running"
    BY <1>0, <1>5 DEF CreateGraph, TypeOK, PlanType, Graph
  <2>2. Refusing(Graph(c))
    BY <1>0, <1>5, <2>1, TolerantStutters DEF CreateGraph, TypeOK
  <2>3. owned[Graph(c)] = None /\ owned' = [owned EXCEPT ![Graph(c)] = c]
    BY <1>0, <1>5, <2>1, <2>2 DEF CreateGraph, TypeOK, owned, Refusing
  <2>4. content' = content
    BY <2>1 DEF content, CompleteIn, Refusing
  <2>5. Contract!Begin(c)
    BY <2>1, <2>2, <2>3, <2>4, PhaseMoves
       DEF Contract!Begin, Contract!InPhase, phase, owned, content
  <2> QED BY <2>5 DEF Contract!Next
<1>6. ASSUME NEW c \in Calls, Complete(c) PROVE Contract!Next
  <2>1. /\ Alone(c) /\ owner' = owner /\ Graph(c) \in Graphs /\ node[c] \in Nodes
        /\ Phase(c) = "running" /\ Phase(c)' = "running"
        /\ complete' = complete \cup {Current(c)}
    BY <1>0, <1>6 DEF Complete, NextNode, TypeOK, PlanType, Graph
  <2>2. Current(c)[1] = Graph(c) /\ Current(c)[4] = node[c]
    BY DEF Current, Node
  <2>3. Refusing(Graph(c))
    BY <2>1, <2>2, TolerantStutters
  <2>4. owned[Graph(c)] = c
    BY <1>0, <2>1, <2>3 DEF OwnerInv, owned
  <2>5. phase' = phase /\ owned' = owned
    BY <2>1 DEF phase, owned, Refusing, Graph
  <2>6. \A g \in Graphs : CompleteIn(g)' =
           IF g = Graph(c) THEN CompleteIn(g) \cup {node[c]} ELSE CompleteIn(g)
    BY <2>1, <2>2 DEF CompleteIn
  <2>7. content' = [content EXCEPT ![Graph(c)] = @ \cup {node[c]}]
    BY <2>1, <2>3, <2>6 DEF content, Refusing
  <2>8. phase[c] = "running"
    BY <2>1, <2>3 DEF phase
  <2>9. Contract!Complete(c)
    BY <2>1, <2>4, <2>5, <2>7, <2>8 DEF Contract!Complete, phase, owned, content
  <2> QED BY <2>9 DEF Contract!Next
<1>7. ASSUME NEW c \in Calls, \/ Start(c) \/ MapRequest(c) \/ GraphExists(c)
                               \/ StoreFails(c)
      PROVE  Contract!Next
  <2>1. /\ Alone(c) /\ Reads
        /\ \/ Phase(c)' = Phase(c)
           \/ Phase(c) \in {"ready", "running"} /\ Phase(c)' = "error"
    BY <1>0, <1>7 DEF Start, MapRequest, GraphExists, StoreFails, TypeOK
  <2> QED BY <1>1, <1>2, <1>4, <2>1
<1>8. ASSUME NEW c \in Calls, \/ TakeInstance(c) \/ Load(c) \/ ResolverReturns(c)
                               \/ NodeFails(c)
      PROVE  Contract!Next
  <2>1. /\ Alone(c) /\ Reads
        /\ \/ Phase(c)' = Phase(c)
           \/ Phase(c) = "running" /\ Phase(c)' = "error"
    BY <1>0, <1>8 DEF TakeInstance, Load, NextNode, ResolverReturns, NodeFails, TypeOK
  <2> QED BY <1>2, <1>4, <2>1
<1>9. ASSUME NEW c \in Calls, \/ WorkflowChecks(c) \/ RunChecks(c) \/ MapResponse(c)
                               \/ Cancel(c)
      PROVE  Contract!Next
  <2>1. /\ Alone(c) /\ Reads
        /\ \/ Phase(c)' = Phase(c)
           \/ Phase(c) = "running" /\ Phase(c)' = "error"
           \/ /\ at[c] \in {"runCheck", "mapResp"}
              /\ Phase(c) = "running" /\ Phase(c)' = "ok"
    BY <1>0, <1>9 DEF WorkflowChecks, RunChecks, MapResponse, Cancel, TypeOK
  <2>2. at[c] \in {"runCheck", "mapResp"} => \A i \in Nodes : Node(c, i) \in complete
    BY <1>0 DEF DoneInv, Behind
  <2> QED BY <1>2, <1>3, <1>4, <2>1, <2>2
<1>10. CASE Die
  <2>1. owned' = owned /\ content' = content
    BY <1>10 DEF Die, owned, content, CompleteIn, Refusing
  <2> DEFINE waiting == {c \in Calls : Refusing(Graph(c)) /\ at[c] \in {"mapReq", "create"}}
  <2>2. phase' = [c \in Calls |->
                    IF phase[c] = "running" \/ (c \in waiting /\ phase[c] = "ready")
                    THEN "lost" ELSE phase[c]]
    BY <1>0, <1>10 DEF Die, phase, Refusing, Graph, TypeOK, Labels
  <2>3. Contract!Die
    BY <2>1, <2>2 DEF Contract!Die, phase, owned, content
  <2> QED BY <2>3 DEF Contract!Next
<1>11. CASE UNCHANGED vars
  BY <1>11, SameContract DEF vars
<1> QED
  BY <1>5, <1>6, <1>7, <1>8, <1>9, <1>10, <1>11 DEF Next, Framework, Resolver, ResolverStops

\* Graphs of refusing stores and their runs keep RunContract: one run per graph
\* for ever, written only while it is in progress, success only of a whole one.
THEOREM RefinesContract == Spec => KeepsContract
<1>1. IInv /\ [Next]_vars => [Contract!Next]_<<phase, owned, content>>
  BY StepContract
<1> QED BY <1>1, InitContract, AlwaysIInv, PTL
        DEF Spec, KeepsContract, Contract!Spec, phase, owned, content
==============================================================================
