----------------------------- MODULE Injection ------------------------------
(***************************************************************************)
(* Dependency injection: Dependencies registers a dependency for each      *)
(* NodeTypeID (dependencyinjection.go); Start of a definition makes the    *)
(* resolver's initializer, injects the dependency into it and leaves the   *)
(* outcome in the definition (node.go); the registry reads that outcome    *)
(* when the handle is resolved, and Get reads the injected client from the *)
(* resolver (createchatcompletion.go).                                     *)
(*                                                                         *)
(* A definition is shared by every handle it starts, and nothing guards    *)
(* its fields or the resolver's: goroutines that use one definition meet   *)
(* there, one memory access at a time. A torn read of initErr, an          *)
(* interface of two words, is nil or not, as before or as after the write. *)
(*                                                                         *)
(* The definitions here are those whose initializer wants a dependency;    *)
(* Start of any other cannot fail in dependencyInject.                     *)
(***************************************************************************)
EXTENDS Naturals, Sequences

CONSTANTS
    Threads,    \* goroutines
    Defs,       \* definitions
    TypeOf,     \* [Defs -> the NodeTypeID of the initializer]
    Accepts,    \* [Defs -> the dependencies of the type it wants]
    Users,      \* [Defs -> the goroutines that start and resolve it]
    Setups,     \* the arguments Dependencies is called with: sequences of
                \* injectors, records [dep, nodes]
    Nil,        \* the dependency an injector of a nil client constructs
    None,       \* nothing: a nil pointer, no entry in a map
    MaxSetups,  \* bounds the calls of Dependencies,
    MaxResets,  \* of ResetDependencies
    MaxStarts   \* and of Start

Handles == 1..MaxStarts  \* a handle, and the initializer made for it, is
                         \* named by the number of its call of Start
Injectors == UNION {{s[i] : i \in DOMAIN s} : s \in Setups}
Deps      == {j.dep : j \in Injectors}
TypeIDs   == (UNION {j.nodes : j \in Injectors}) \cup {TypeOf[d] : d \in Defs}

\* A nil client is of no type an initializer wants. (Dependencies of no
\* constructor registers nothing, and is left out.)
ASSUME ConstantsAssumption ==
    /\ MaxSetups \in Nat /\ MaxResets \in Nat /\ MaxStarts \in Nat
    /\ Setups \subseteq Seq(Injectors) /\ <<>> \notin Setups
    /\ None \notin Deps \cup Handles
    /\ \A d \in Defs : Nil \notin Accepts[d] /\ None \notin Accepts[d]

VARIABLES
    nodeDependencies,  \* NodeTypeID -> the dependency registered for it
    initErr,      \* definition.initErr # nil
    initializer,  \* definition.initializer
    kept,         \* the resolver's initializer field
    client,       \* the client field of each initializer
    handle,       \* the handles started: <<def, dep, failed, out>>, with the
                  \* dependency registered when Start was called, whether
                  \* Start warned of an error, and what became of it
    call,         \* the call each goroutine is in
    setups, resets

setup == <<nodeDependencies, setups, resets>>
def   == <<initErr, initializer, kept, client>>
vars  == <<setup, def, handle, call>>

Idle == [at |-> "idle", n |-> 0, obj |-> None, dep |-> None,
         failed |-> FALSE, rest |-> <<>>]

Init ==
    /\ nodeDependencies = [id \in TypeIDs |-> None]
    /\ setups = 0 /\ resets = 0
    /\ initErr = [d \in Defs |-> FALSE]
    /\ initializer = [d \in Defs |-> None]
    /\ kept = [d \in Defs |-> None]
    /\ client = [n \in Handles |-> None]
    /\ handle = <<>>
    /\ call = [t \in Threads |-> Idle]

At(t, at)     == call[t].at = at
Def(t)        == handle[call[t].n].def
Become(t, c)  == call' = [call EXCEPT ![t] = c]
Goto(t, at)   == Become(t, [call[t] EXCEPT !.at = at])

------------------------------------------------------------------------------
(* Setting up.                                                               *)

Dependencies(t, constructors) ==
    /\ At(t, "idle") /\ setups < MaxSetups
    /\ setups' = setups + 1
    /\ Become(t, [Idle EXCEPT !.at = "register", !.rest = constructors])
    /\ UNCHANGED <<nodeDependencies, resets, def, handle>>

\* Mutant: check and add one node type at a time.
StoreDependency_OneByOne(t) ==
    LET next == Head(call[t].rest)
    IN  /\ At(t, "register")
        /\ nodeDependencies' = [id \in TypeIDs |->
               IF id \in next.nodes /\ nodeDependencies[id] = None
               THEN next.dep ELSE nodeDependencies[id]]
        /\ Become(t, Idle)
        /\ UNCHANGED <<setups, resets, def, handle>>

\* Mutant: add without the check for duplicates.
StoreDependency_Replaces(t) ==
    LET next == Head(call[t].rest)
    IN  /\ At(t, "register")
        /\ nodeDependencies' = [id \in TypeIDs |->
               IF id \in next.nodes THEN next.dep ELSE nodeDependencies[id]]
        /\ Become(t, Idle)
        /\ UNCHANGED <<setups, resets, def, handle>>

\* storeDependency for the next constructor, under the mutex: all its node
\* types, if none of them has a dependency; else an error, and no more of the
\* constructors.
StoreDependency(t) ==
    LET next == Head(call[t].rest)
        rest == Tail(call[t].rest)
        free == \A id \in next.nodes : nodeDependencies[id] = None
    IN  /\ At(t, "register")
        /\ nodeDependencies' = [id \in TypeIDs |->
               IF free /\ id \in next.nodes THEN next.dep
                                            ELSE nodeDependencies[id]]
        /\ Become(t, IF free /\ rest # <<>> THEN [call[t] EXCEPT !.rest = rest]
                                            ELSE Idle)
        /\ UNCHANGED <<setups, resets, def, handle>>

ResetDependencies(t) ==
    /\ At(t, "idle") /\ resets < MaxResets
    /\ resets' = resets + 1
    /\ nodeDependencies' = [id \in TypeIDs |-> None]
    /\ UNCHANGED <<setups, def, handle, call>>

------------------------------------------------------------------------------
(* definition.Start: performInitialization, access by access.                *)

Start(t, d) ==
    /\ At(t, "idle") /\ t \in Users[d]
    /\ Len(handle) < MaxStarts
    /\ handle' = Append(handle, [def |-> d, dep |-> nodeDependencies[TypeOf[d]],
                                 failed |-> FALSE, out |-> "starting"])
    /\ Become(t, [Idle EXCEPT !.at = "init", !.n = Len(handle) + 1])
    /\ UNCHANGED <<setup, def>>

\* resolver.Init: is there an initializer already?
InitChecks(t) ==
    /\ At(t, "init")
    /\ Goto(t, IF kept[Def(t)] = None THEN "make" ELSE "keep")
    /\ UNCHANGED <<setup, def, handle>>

InitMakes(t) ==
    /\ At(t, "make")
    /\ kept' = [kept EXCEPT ![Def(t)] = call[t].n]
    /\ Goto(t, "keep")
    /\ UNCHANGED <<setup, initErr, initializer, client, handle>>

InitReturns(t) ==
    /\ At(t, "keep")
    /\ Become(t, [call[t] EXCEPT !.at = "store", !.obj = kept[Def(t)]])
    /\ UNCHANGED <<setup, def, handle>>

StoreInitializer(t) ==
    /\ At(t, "store")
    /\ initializer' = [initializer EXCEPT ![Def(t)] = call[t].obj]
    /\ Goto(t, "load")
    /\ UNCHANGED <<setup, initErr, kept, client, handle>>

\* The argument of dependencyInject is read back from the definition, ...
LoadInitializer(t) ==
    /\ At(t, "load")
    /\ Become(t, [call[t] EXCEPT !.at = "lookup", !.obj = initializer[Def(t)]])
    /\ UNCHANGED <<setup, def, handle>>

\* ... and the dependency is looked up under the mutex.
GetNodeDependency(t) ==
    /\ At(t, "lookup")
    /\ LET dep == nodeDependencies[TypeOf[Def(t)]]
       IN  Become(t, [call[t] EXCEPT
               !.at = IF dep = None THEN "finish" ELSE "inject",
               !.dep = dep, !.failed = (dep = None)])
    /\ UNCHANGED <<setup, def, handle>>

DependencyInject(t) ==
    /\ At(t, "inject") /\ call[t].dep \in Accepts[Def(t)]
    /\ client' = [client EXCEPT ![call[t].obj] = call[t].dep]
    /\ Goto(t, "finish")
    /\ UNCHANGED <<setup, initErr, initializer, kept, handle>>

WrongType(t) ==
    /\ At(t, "inject") /\ call[t].dep \notin Accepts[Def(t)] \cup {Nil}
    /\ Become(t, [call[t] EXCEPT !.at = "finish", !.failed = TRUE])
    /\ UNCHANGED <<setup, def, handle>>

\* Mutant: a nil client is injected like any other.
StartPanics_Injects(t) ==
    /\ At(t, "inject") /\ call[t].dep = Nil
    /\ client' = [client EXCEPT ![call[t].obj] = Nil]
    /\ Goto(t, "finish")
    /\ UNCHANGED <<setup, initErr, initializer, kept, handle>>

\* reflect.ValueOf(nil) has no Type: the call panics, and Start with it.
StartPanics(t) ==
    /\ At(t, "inject") /\ call[t].dep = Nil
    /\ handle' = [handle EXCEPT ![call[t].n].out = "panic"]
    /\ Become(t, Idle)
    /\ UNCHANGED <<setup, def>>

\* The handle h, once its Start has returned.
Started(h, failed) == [h EXCEPT !.failed = failed, !.out = "started"]

\* Mutant: the first error of a definition sticks.
StartReturns_Sticky(t) ==
    /\ At(t, "finish")
    /\ initErr' = [initErr EXCEPT ![Def(t)] = @ \/ call[t].failed]
    /\ handle' = [handle EXCEPT ![call[t].n] = Started(@, call[t].failed)]
    /\ Become(t, Idle)
    /\ UNCHANGED <<setup, initializer, kept, client>>

StartReturns(t) ==
    /\ At(t, "finish")
    /\ initErr' = [initErr EXCEPT ![Def(t)] = call[t].failed]
    /\ handle' = [handle EXCEPT ![call[t].n] = Started(@, call[t].failed)]
    /\ Become(t, Idle)
    /\ UNCHANGED <<setup, initializer, kept, client>>

------------------------------------------------------------------------------
(* Resolving a handle: getOrCreateExecution and the resolver's Get.          *)

Ends(t, out) ==
    /\ handle' = [handle EXCEPT ![call[t].n].out = out]
    /\ Become(t, Idle)

Resolve(t, n) ==
    /\ At(t, "idle") /\ n \in DOMAIN handle
    /\ handle[n].out = "started" /\ t \in Users[handle[n].def]
    /\ handle' = [handle EXCEPT ![n].out = "resolving"]
    /\ Become(t, [Idle EXCEPT !.at = "create", !.n = n])
    /\ UNCHANGED <<setup, def>>

CreateExecution(t) ==
    /\ At(t, "create")
    /\ IF initErr[Def(t)] THEN Ends(t, "initError")
                          ELSE Goto(t, "get") /\ UNCHANGED handle
    /\ UNCHANGED <<setup, def>>

Injected(d) == IF kept[d] = None THEN None ELSE client[kept[d]]

\* Get checks that it has a client (its two reads of the initializer are one
\* step: one that is there is replaced, but never taken away), ...
GetChecks(t) ==
    /\ At(t, "get")
    /\ IF Injected(Def(t)) = None THEN Ends(t, "notSet")
                                  ELSE Goto(t, "use") /\ UNCHANGED handle
    /\ UNCHANGED <<setup, def>>

\* ... and reads it again to call it; a nil one panics, which the node's
\* execution recovers from.
GetUses(t) ==
    /\ At(t, "use")
    /\ Ends(t, IF Injected(Def(t)) = None THEN "panic" ELSE Injected(Def(t)))
    /\ UNCHANGED <<setup, def>>

Starting(t) ==
    \/ InitChecks(t) \/ InitMakes(t) \/ InitReturns(t)
    \/ StoreInitializer(t) \/ LoadInitializer(t) \/ GetNodeDependency(t)
    \/ DependencyInject(t) \/ WrongType(t) \/ StartPanics(t) \/ StartReturns(t)

Resolving(t) == CreateExecution(t) \/ GetChecks(t) \/ GetUses(t)

Next ==
    \E t \in Threads :
        \/ \E s \in Setups : Dependencies(t, s)
        \/ StoreDependency(t)
        \/ ResetDependencies(t)
        \/ \E d \in Defs : Start(t, d)
        \/ Starting(t)
        \/ \E n \in Handles : Resolve(t, n)
        \/ Resolving(t)

Spec == Init /\ [][Next]_vars

------------------------------------------------------------------------------
(* Properties.                                                               *)

\* Every variable keeps its type; the fields of a handle and of a call are
\* those of node.go and dependencyinjection.go.
TypeOK ==
    /\ nodeDependencies \in [TypeIDs -> Deps \cup {None}]
    /\ initErr \in [Defs -> BOOLEAN]
    /\ initializer \in [Defs -> Handles \cup {None}]
    /\ kept \in [Defs -> Handles \cup {None}]
    /\ client \in [Handles -> (Deps \ {Nil}) \cup {None}]
    /\ Len(handle) <= MaxStarts
    /\ \A n \in DOMAIN handle :
        /\ handle[n].def \in Defs
        /\ handle[n].dep \in Deps \cup {None}
        /\ handle[n].failed \in BOOLEAN
        /\ handle[n].out \in (Deps \ {Nil}) \cup {"starting", "started",
              "resolving", "initError", "notSet", "panic"}

\* The node types of one injector get its dependency together or not at all,
\* whichever calls of Dependencies overlap and fail (storeDependency checks
\* all of them before it adds the first). For injectors of distinct
\* dependencies.
RegisteredWhole ==
    \A j \in Injectors :
        (\E id \in j.nodes : nodeDependencies[id] = j.dep)
            => \A id \in j.nodes : nodeDependencies[id] = j.dep

\* A dependency once registered stays, whoever registers more and whatever
\* fails, until ResetDependencies takes them all.
DependencyStays ==
    [][\/ \A id \in TypeIDs : nodeDependencies[id] # None
              => nodeDependencies'[id] = nodeDependencies[id]
       \/ \A id \in TypeIDs : nodeDependencies'[id] = None]_vars

\* What the framework owes a resolver (dependencyinjection.go:68): a handle
\* started when a dependency of the right type was registered has, once it is
\* resolved, called Get with that dependency. It did not fail to initialize
\* and did not find its client missing. (ResetDependencies is for tests, and
\* breaks it.)
GetHasDependency ==
    \A n \in DOMAIN handle :
        resets = 0 /\ handle[n].dep \in Accepts[handle[n].def]
            => handle[n].out \in {handle[n].dep, "starting", "started",
                                  "resolving"}

\* The warning Start prints when initialization fails (node.go:38): the
\* execution of that handle fails.
FailedStartFails ==
    \A n \in DOMAIN handle : handle[n].failed => handle[n].out \notin Deps

\* A nil client shows in Get, as ErrDependencyNotSet
\* (createchatcompletion.go:52), not in Start: a handle of a type registered
\* with nil never ends in a panic.
NilClientFailsInGet ==
    \A n \in DOMAIN handle : handle[n].dep = Nil => handle[n].out # "panic"
=============================================================================
