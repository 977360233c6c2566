----------------------------- MODULE Resolution -----------------------------
(***************************************************************************)
(* How handles become results: internalResolve (workflow.go), the          *)
(* executionRegistry, the bodies of workflows and NewNodes, and FanIn      *)
(* (core.go). A program is what user code builds: handles, their inputs    *)
(* and the definitions they start. Goroutines resolve it, each with the    *)
(* stack of calls it is in; they meet in the definitions' instance         *)
(* counters, in the paths written on handles and in the registries.        *)
(*                                                                         *)
(* One executioner keeps the promise of OnceResult: it is new, running in  *)
(* one goroutine, or done with its result; NodeExecution opens that box.   *)
(*                                                                         *)
(* Values are terms: the resolver of leaf d applied to v is <<d, v>>. An   *)
(* error is a result that is not ok; it wraps what user code failed with,  *)
(* its cause. A handle belongs to the scope it is resolved in, where one   *)
(* that a NewNode function captures from the scope around it belongs, too. *)
(***************************************************************************)
EXTENDS Naturals, Sequences, FiniteSets, SequencesExt

CONSTANTS
    Programs, \* what user code may build, records with the fields
              \*   defs      the definitions
              \*   id        [defs -> NodeID]
              \*   type      [defs -> {"leaf", "newNode", "workflow"}]
              \*   local     the definitions made inside the scope that uses
              \*             them, so that each scope has a counter of its own
              \*   mayFail   the definitions whose resolver or function, and
              \*             the Binds whose mapping, may return an error
              \*   fans      [defs -> Seq(handles)]: what a body passes to FanIn
              \*   waits     [defs -> sets]: after how many of them the body
              \*             gets its futures before it goes on
              \*   tolerated the handles whose failure the body that fans them
              \*             in takes for an answer like any other
              \*   final     [defs -> handles or None]: the handle the body
              \*             returns; None: Into of the values fanned in
              \*   handles, kind  [handles -> {"node", "bind", "into", "error"}]
              \*   def       [handles -> defs or None]
              \*   input     [handles -> handles or None]
              \*   main      [threads -> [def, ctx]]: the body each goroutine
              \*             runs, and the Context it runs it with
              \*             (the same threads in every program)
    None      \* Go's nil

Threads == UNION {DOMAIN p.main : p \in Programs}

\* A Context: the run (graph), the BasePath and the registry, which is named
\* by the path of the workflow that created it.
Ctx(run, base, reg) == [run |-> run, base |-> base, reg |-> reg]

NodePaths == Seq(STRING \X Nat)
IsContext(ctx) == /\ ctx = Ctx(ctx.run, ctx.base, ctx.reg)
                  /\ ctx.base \in NodePaths

\* The tables of a program are about its own definitions and handles.
IsProgram(p) ==
    /\ None \notin p.defs \cup p.handles
    /\ p.id \in [p.defs -> STRING]
    /\ p.type \in [p.defs -> {"leaf", "newNode", "workflow"}]
    /\ p.fans \in [p.defs -> Seq(p.handles)]
    /\ p.final \in [p.defs -> p.handles \cup {None}]
    /\ p.kind \in [p.handles -> {"node", "bind", "into", "error"}]
    /\ p.def \in [p.handles -> p.defs \cup {None}]
    /\ p.input \in [p.handles -> p.handles \cup {None}]
    /\ \A h \in p.handles : /\ p.kind[h] \in {"node", "bind"} => p.def[h] # None
                            /\ p.kind[h] = "bind" => p.input[h] # None
    /\ DOMAIN p.main = Threads
    /\ \A t \in Threads : p.main[t].def \in p.defs /\ IsContext(p.main[t].ctx)

ASSUME ProgramsAssumption == \A p \in Programs : IsProgram(p)

Ok(v)      == [ok |-> TRUE, val |-> v, cause |-> {}]
Err(cause) == [ok |-> FALSE, val |-> <<>>, cause |-> cause]

\* The error user code x returns in a run.
Fails(run, x) == Err({<<run, x>>})

VARIABLES
    program,  \* the one that runs
    counter,  \* instanceCounter of the definitions used so far
    path,     \* the path on each handle that was given one
    execs,    \* the registries: key |-> executioner, key = <<run, registry, path>>
    stack,    \* the calls each goroutine is in, innermost last
    outcome   \* what each goroutine's body returned, or None

vars == <<counter, path, execs, stack, outcome>>

\* A call of internalResolve. in: the value of the Into below the handle that
\* a Bind step started, None for a handle of the program.
ResolveCall(h, ctx, in) ==
    [op |-> "resolve", at |-> "start", h |-> h, ctx |-> ctx, in |-> in,
     path |-> <<>>, key |-> <<>>, futures |-> <<>>, ret |-> None]

\* execute of the executioner under key.
ExecuteCall(key) ==
    [op |-> "execute", at |-> "input", h |-> None, ctx |-> execs[key].ctx,
     in |-> None, path |-> key[3], key |-> key, futures |-> <<>>, ret |-> None]

\* The user function of d, called with the Context ctx.
BodyCall(d, ctx, in) ==
    [op |-> "body", at |-> d, h |-> None, ctx |-> ctx, in |-> in,
     path |-> <<>>, key |-> <<>>, futures |-> <<>>, ret |-> None]

Defs    == program.defs
Handles == program.handles

Init ==
    /\ program \in Programs
    /\ counter = <<>>
    /\ path = <<>>
    /\ execs = <<>>
    /\ stack = [t \in Threads |->
                  <<BodyCall(program.main[t].def, program.main[t].ctx, Ok(<<>>))>>]
    /\ outcome = [t \in Threads |-> None]

------------------------------------------------------------------------------
(* Calls and returns.                                                        *)

Running(t)  == stack[t] # <<>>
Top(t)      == Last(stack[t])
In(t, op, at) == Running(t) /\ Top(t).op = op /\ Top(t).at = at

SetTop(t, frame) == stack' = [stack EXCEPT ![t] = Append(Front(@), frame)]
Call(t, frame)   == stack' = [stack EXCEPT ![t] = Append(@, frame)]

\* Return r from the innermost call to the one below it.
Return(t, r) ==
    LET below == Front(stack[t])
    IN  IF below = <<>>
        THEN /\ stack' = [stack EXCEPT ![t] = <<>>]
             /\ outcome' = [outcome EXCEPT ![t] = r]
        ELSE /\ stack' = [stack EXCEPT ![t] =
                            Append(Front(below), [Last(below) EXCEPT !.ret = r])]
             /\ UNCHANGED outcome

Put(f, k, v) == [x \in DOMAIN f \cup {k} |-> IF x = k THEN v ELSE f[x]]

------------------------------------------------------------------------------
(* internalResolve.                                                          *)

\* A handle made by Into or IntoError: its value, without a registry.
ResolveInto(t) ==
    /\ In(t, "resolve", "start")
    /\ Top(t).in = None
    /\ \/ program.kind[Top(t).h] = "into" /\ Return(t, Ok(<<Top(t).h>>))
       \/ program.kind[Top(t).h] = "error" /\ Return(t, Fails(Top(t).ctx.run, Top(t).h))
    /\ UNCHANGED <<counter, path, execs>>

\* stepExecution of a Bind: the handle below it is resolved first, ...
StepBind(t) ==
    /\ In(t, "resolve", "start")
    /\ Top(t).in = None /\ Top(t).ret = None
    /\ program.kind[Top(t).h] = "bind"
    /\ Call(t, ResolveCall(program.input[Top(t).h], Top(t).ctx, None))
    /\ UNCHANGED <<counter, path, execs, outcome>>

\* ... then the mapping is applied, and the definition started on its value
\* gives a new handle, resolved in place of the Bind.
BindStarts(t) ==
    /\ In(t, "resolve", "start")
    /\ Top(t).ret # None
    /\ \/ /\ Top(t).ret.ok
          /\ SetTop(t, ResolveCall(Top(t).h, Top(t).ctx,
                                   Ok(<<Top(t).h, Top(t).ret.val>>)))
          /\ UNCHANGED outcome
       \/ /\ ~Top(t).ret.ok
          /\ Return(t, Top(t).ret)
       \/ /\ Top(t).ret.ok /\ Top(t).h \in program.mayFail
          /\ Return(t, Fails(Top(t).ctx.run, Top(t).h))
    /\ UNCHANGED <<counter, path, execs>>

\* The counter of definition d for a handle resolved with ctx.
CounterOf(ctx, d) ==
    IF d \in program.local THEN <<ctx.run, ctx.base, d>> ELSE <<d>>

Count(c) == IF c \in DOMAIN counter THEN counter[c] ELSE 0

\* A node or workflow takes its next instance ID: its path below ctx.base.
TakeInstance(t) ==
    LET f == Top(t)
        d == program.def[f.h]
        c == CounterOf(f.ctx, d)
    IN  /\ In(t, "resolve", "start")
        /\ program.kind[f.h] = "node" \/ f.in # None
        /\ counter' = Put(counter, c, Count(c) + 1)
        /\ SetTop(t, [f EXCEPT !.at = "setPath",
                          !.path = Append(f.ctx.base, <<program.id[d], Count(c)>>)])
        /\ UNCHANGED <<path, execs, outcome>>

\* The path is written on the handle: the program's, or the new one of a Bind,
\* which nobody else has. The object has one path field; a handle of a program
\* stands for the object each execution of its body makes, so a path belongs to a
\* Context, too. (An object resolved in two scopes at once would be overwritten;
\* the programs checked resolve each in one.)
SetPath(t) ==
    LET f == Top(t)
    IN  /\ In(t, "resolve", "setPath")
        /\ path' = IF f.in = None THEN Put(path, <<f.ctx, f.h>>, f.path) ELSE path
        /\ SetTop(t, [f EXCEPT !.at = "lookup"])
        /\ UNCHANGED <<counter, execs, outcome>>

NewExecutioner(h, ctx, in) ==
    [h |-> h, ctx |-> ctx, in |-> in, state |-> "new", result |-> None]

\* getOrCreateExecution, under the registry's mutex.
GetOrCreate(t) ==
    LET f == Top(t)
        k == <<f.ctx.run, f.ctx.reg, f.path>>
    IN  /\ In(t, "resolve", "lookup")
        /\ execs' = IF k \in DOMAIN execs THEN execs
                    ELSE Put(execs, k, NewExecutioner(f.h, f.ctx, f.in))
        /\ SetTop(t, [f EXCEPT !.at = "getResult", !.key = k])
        /\ UNCHANGED <<counter, path, outcome>>

\* getResult: the first caller of an executioner runs it; the others wait in
\* its sync.Once until it is done.
StartExecution(t, k) ==
    /\ execs[k].state = "new"
    /\ execs' = [execs EXCEPT ![k].state = "running"]
    /\ Call(t, ExecuteCall(k))
    /\ UNCHANGED outcome

GetResult(t) ==
    /\ In(t, "resolve", "getResult")
    /\ LET k == Top(t).key
       IN  \/ StartExecution(t, k)
           \/ /\ execs[k].state = "done"
              /\ Return(t, execs[k].result)
              /\ UNCHANGED execs
    /\ UNCHANGED <<counter, path>>

------------------------------------------------------------------------------
(* execute, of a node or a workflow.                                         *)

\* Mutant: doneCh is closed and the result is not memoized.
Finish_NoMemo(t, r) ==
    /\ execs' = [execs EXCEPT ![Top(t).key].state = "done"]
    /\ Return(t, r)

Finish(t, r) ==
    /\ execs' = [execs EXCEPT ![Top(t).key].state = "done",
                              ![Top(t).key].result = r]
    /\ Return(t, r)

\* What feeds the executioner: the value a Bind put below it, an input handle
\* to resolve with the Context the executioner was created in, or nothing.
InputOf(t) == program.input[execs[Top(t).key].h]

\* Mutant: the test for an input handle is missing.
NoInputToResolve_Always(t) ==
    /\ In(t, "execute", "input")
    /\ SetTop(t, [Top(t) EXCEPT !.at = "run",
                     !.in = IF execs[Top(t).key].in # None
                            THEN execs[Top(t).key].in ELSE Ok(<<>>)])
    /\ UNCHANGED <<counter, path, execs, outcome>>

NoInputToResolve(t) ==
    /\ In(t, "execute", "input")
    /\ execs[Top(t).key].in # None \/ InputOf(t) = None
    /\ SetTop(t, [Top(t) EXCEPT !.at = "run",
                     !.in = IF execs[Top(t).key].in # None
                            THEN execs[Top(t).key].in ELSE Ok(<<>>)])
    /\ UNCHANGED <<counter, path, execs, outcome>>

ResolveInput(t) ==
    /\ In(t, "execute", "input")
    /\ execs[Top(t).key].in = None /\ InputOf(t) # None
    /\ Top(t).ret = None
    /\ Call(t, ResolveCall(InputOf(t), Top(t).ctx, None))
    /\ UNCHANGED <<counter, path, execs, outcome>>

\* Mutant: the error of the input is reported, not wrapped.
InputResolved_Unwrapped(t) ==
    /\ In(t, "execute", "input")
    /\ Top(t).ret # None
    /\ \/ /\ Top(t).ret.ok
          /\ SetTop(t, [Top(t) EXCEPT !.at = "run", !.in = Top(t).ret, !.ret = None])
          /\ UNCHANGED <<execs, outcome>>
       \/ /\ ~Top(t).ret.ok
          /\ Finish(t, Err({}))
    /\ UNCHANGED <<counter, path>>

InputResolved(t) ==
    /\ In(t, "execute", "input")
    /\ Top(t).ret # None
    /\ \/ /\ Top(t).ret.ok
          /\ SetTop(t, [Top(t) EXCEPT !.at = "run", !.in = Top(t).ret, !.ret = None])
          /\ UNCHANGED <<execs, outcome>>
       \/ /\ ~Top(t).ret.ok
          /\ Finish(t, Top(t).ret)
    /\ UNCHANGED <<counter, path>>

DefOf(t) == program.def[execs[Top(t).key].h]

\* The resolver of an atomic node returns.
LeafReturns(t) ==
    /\ In(t, "execute", "run")
    /\ program.type[DefOf(t)] = "leaf"
    /\ \/ Finish(t, Ok(<<DefOf(t), Top(t).in.val>>))
       \/ /\ DefOf(t) \in program.mayFail
          /\ Finish(t, Fails(Top(t).ctx.run, DefOf(t)))
    /\ UNCHANGED <<counter, path>>

\* Mutant: a workflow's handler runs with the BasePath of its parent.
BodyCtx_ParentBase(d, ctx, p) ==
    Ctx(ctx.run, IF program.type[d] = "workflow" THEN ctx.base ELSE p,
        IF program.type[d] = "workflow" THEN p ELSE ctx.reg)

\* The Context of a body: below the executioner's own path; a workflow makes
\* a registry for it, a NewNode passes on the one it runs with.
BodyCtx(d, ctx, p) ==
    Ctx(ctx.run, p, IF program.type[d] = "workflow" THEN p ELSE ctx.reg)

\* execute of a workflow and Get of a NewNode call the user's function.
CallBody(t) ==
    /\ In(t, "execute", "run")
    /\ program.type[DefOf(t)] # "leaf"
    /\ Top(t).ret = None
    /\ Call(t, BodyCall(DefOf(t), BodyCtx(DefOf(t), Top(t).ctx, Top(t).path),
                        Top(t).in))
    /\ UNCHANGED <<counter, path, execs, outcome>>

BodyReturned(t) ==
    /\ In(t, "execute", "run")
    /\ Top(t).ret # None
    /\ Finish(t, Top(t).ret)
    /\ UNCHANGED <<counter, path>>

------------------------------------------------------------------------------
(* The body of a workflow, of a NewNode or of a goroutine it spawns: FanIn   *)
(* on each dependency, Get on each future, maybe more of both, then the      *)
(* handle it returns.                                                        *)

InBody(t)  == Running(t) /\ Top(t).op = "body"
Fans(t)    == program.fans[Top(t).at]
Futures(t) == Top(t).futures
NextFan(t) == Fans(t)[Len(Futures(t)) + 1]
Pending(t) == {i \in DOMAIN Futures(t) : Futures(t)[i].res = None}
Failed(t)  == {i \in DOMAIN Futures(t) : /\ Futures(t)[i].res # None
                                         /\ ~Futures(t)[i].res.ok
                                         /\ Fans(t)[i] \notin program.tolerated}

\* The body gets its futures here.
Waits(t) == Len(Futures(t)) \in program.waits[Top(t).at] \cup {Len(Fans(t))}

\* It goes on to its next dependency.
FansNext(t) == /\ InBody(t)
               /\ Len(Futures(t)) < Len(Fans(t))
               /\ Waits(t) => Pending(t) = {} /\ Failed(t) = {}

\* FanIn resolves its dependency before it returns a future.
FanInResolves(t) ==
    /\ FansNext(t)
    /\ Top(t).ret = None
    /\ Call(t, ResolveCall(NextFan(t), Top(t).ctx, None))
    /\ UNCHANGED <<counter, path, execs, outcome>>

\* A future: of the executioner under key, or holding its result already.
\* seen is what the FanIn's own internalResolve returned.
Future(key, res, seen) == [key |-> key, res |-> res, seen |-> seen]

\* Mutant: no special case for a dependency without an executioner.
FutureFor_NoInto(ctx, h, r) ==
    LET k == <<ctx.run, ctx.reg, path[<<ctx, h>>]>>
    IN  IF ~r.ok THEN Future(None, r, r)
        ELSE IF <<ctx, h>> \notin DOMAIN path THEN Future(None, Err({}), r)
        ELSE Future(k, None, r)

\* The executioner registered under the path that is on the handle by now.
FutureFor(ctx, h, r) ==
    LET k == <<ctx.run, ctx.reg, path[<<ctx, h>>]>>
    IN  IF ~r.ok \/ program.kind[h] = "into" THEN Future(None, r, r)
        ELSE IF <<ctx, h>> \notin DOMAIN path THEN Future(None, Err({}), r)
        ELSE IF k \in DOMAIN execs THEN Future(k, None, r)
        ELSE Future(None, r, r)

FanInReturns(t) ==
    /\ FansNext(t)
    /\ Top(t).ret # None
    /\ SetTop(t, [Top(t) EXCEPT
                    !.ret = None,
                    !.futures = Append(@, FutureFor(Top(t).ctx, NextFan(t), Top(t).ret))])
    /\ UNCHANGED <<counter, path, execs, outcome>>

\* Mutant: the future forgets the result it waited for.
GetFuture_Forgets(t) ==
    /\ InBody(t)
    /\ Waits(t)
    /\ \E i \in Pending(t) :
         /\ \A j \in Pending(t) : i <= j
         /\ LET k == Futures(t)[i].key
            IN  \/ StartExecution(t, k)
                \/ /\ execs[k].state = "done"
                   /\ SetTop(t, [Top(t) EXCEPT !.ret = None])
                   /\ UNCHANGED <<execs, outcome>>
    /\ UNCHANGED <<counter, path>>

\* Get on the first pending future. Its background goroutine calls getResult;
\* it is folded into the goroutine that waits for it.
GetFuture(t) ==
    /\ InBody(t)
    /\ Waits(t)
    /\ \E i \in Pending(t) :
         /\ \A j \in Pending(t) : i <= j
         /\ LET k == Futures(t)[i].key
            IN  \/ StartExecution(t, k)
                \/ /\ execs[k].state = "done"
                   /\ SetTop(t, [Top(t) EXCEPT !.ret = None,
                                   !.futures[i].res = execs[k].result])
                   /\ UNCHANGED <<execs, outcome>>
    /\ UNCHANGED <<counter, path>>

\* A body returns IntoError, of the errors of its futures or of one it makes
\* itself, ...
AllGot(t) == InBody(t) /\ Waits(t) /\ Pending(t) = {} /\ Top(t).ret = None

BodyFails(t) ==
    /\ AllGot(t)
    /\ \/ /\ Failed(t) # {}
          /\ Return(t, Err(UNION {Futures(t)[i].res.cause : i \in Failed(t)}))
       \/ /\ Failed(t) = {} /\ Top(t).at \in program.mayFail
          /\ Return(t, Fails(Top(t).ctx.run, Top(t).at))
    /\ UNCHANGED <<counter, path, execs>>

Got(t) == /\ InBody(t)
          /\ Len(Futures(t)) = Len(Fans(t)) /\ Pending(t) = {} /\ Failed(t) = {}
FinalOf(t) == program.final[Top(t).at]

\* ... Into of a value it makes from them, ...
BodyCombines(t) ==
    /\ Got(t)
    /\ FinalOf(t) = None
    /\ Return(t, Ok(<<Top(t).at, Top(t).in.val>>
                      \o [i \in DOMAIN Futures(t) |->
                            IF Fans(t)[i] \in program.tolerated THEN <<Fans(t)[i]>>
                            ELSE Futures(t)[i].res.val]))
    /\ UNCHANGED <<counter, path, execs>>

\* ... or a handle, which the framework resolves with the same Context.
ResolveFinal(t) ==
    /\ Got(t)
    /\ FinalOf(t) # None
    /\ \/ /\ Top(t).ret = None
          /\ Call(t, ResolveCall(FinalOf(t), Top(t).ctx, None))
          /\ UNCHANGED outcome
       \/ /\ Top(t).ret # None
          /\ Return(t, Top(t).ret)
    /\ UNCHANGED <<counter, path, execs>>

------------------------------------------------------------------------------
Resolve(t) == \/ ResolveInto(t) \/ StepBind(t) \/ BindStarts(t)
              \/ TakeInstance(t) \/ SetPath(t) \/ GetOrCreate(t) \/ GetResult(t)

Execute(t) == \/ NoInputToResolve(t) \/ ResolveInput(t) \/ InputResolved(t)
              \/ CallBody(t) \/ BodyReturned(t)

Body(t) == \/ FanInResolves(t) \/ FanInReturns(t) \/ GetFuture(t)
           \/ BodyFails(t) \/ BodyCombines(t) \/ ResolveFinal(t)

\* What the framework does in goroutine t; only LeafReturns is user code.
Framework(t) == Resolve(t) \/ Execute(t) \/ Body(t)

\* Every goroutine has returned. Any other stop is a deadlock.
Terminated == /\ \A t \in Threads : ~Running(t)
              /\ UNCHANGED vars

Next == /\ UNCHANGED program
        /\ \/ \E t \in Threads : Framework(t) \/ LeafReturns(t)
           \/ Terminated

Spec == Init /\ [][Next]_<<program, vars>>

\* The Go scheduler runs every goroutine; a resolver may take forever.
SchedulerSpec == Spec /\ \A t \in Threads : WF_vars(Framework(t))

\* Resolvers return, too.
FairSpec == SchedulerSpec /\ \A t \in Threads : WF_vars(LeafReturns(t))

------------------------------------------------------------------------------
(* Properties.                                                               *)

IsResult(r) == DOMAIN r = {"ok", "val", "cause"} /\ r.ok \in BOOLEAN

\* Types, without the values; a key and the executioner under it agree.
TypeOK ==
    /\ \A c \in DOMAIN counter : counter[c] \in Nat \ {0}
    /\ \A k \in DOMAIN execs :
         LET e == execs[k]
         IN  /\ e.h \in Handles
             /\ e.state \in {"new", "running", "done"}
             /\ e.state = "done" <=> e.result # None
             /\ e.result # None => IsResult(e.result)
             /\ k[1] = e.ctx.run /\ k[2] = e.ctx.reg /\ Front(k[3]) = e.ctx.base
    /\ \A t \in Threads :
         /\ ~Running(t) <=> outcome[t] # None
         /\ \A i \in DOMAIN stack[t] :
              stack[t][i].op \in {"resolve", "execute", "body"}

\* What the function of d makes of its argument, if handle h stands for m[h]: the
\* value of the handle it returns, or one made of those it fans in.
BodyValue(p, m, d, arg) ==
    IF p.final[d] # None THEN m[p.final[d]]
    ELSE <<d, arg>> \o [i \in DOMAIN p.fans[d] |->
                          IF p.fans[d][i] \in p.tolerated THEN <<p.fans[d][i]>>
                          ELSE m[p.fans[d][i]]]

\* What the definition that h starts is applied to.
Argument(p, m, h) ==
    LET in == IF p.input[h] = None THEN <<>> ELSE m[p.input[h]]
    IN  IF p.kind[h] = "bind" THEN <<h, in>> ELSE in

HandleValue(p, m, h) ==
    LET d == p.def[h]
    IN  IF p.kind[h] \in {"into", "error"} THEN <<h>>
        ELSE IF p.type[d] = "leaf" THEN <<d, Argument(p, m, h)>>
        ELSE BodyValue(p, m, d, Argument(p, m, h))

\* The value each handle stands for: its definition applied to that of its input.
Meaning(p) == LET m[h \in p.handles] == HandleValue(p, m, h) IN m

\* A goroutine that gets a value gets the one its handle stands for, whatever
\* other goroutines and runs did to the same definitions and handles.
ResultIsMeaning ==
    \A t \in Threads : outcome[t] # None /\ outcome[t].ok =>
        outcome[t].val = BodyValue(program, Meaning(program), program.main[t].def, <<>>)

\* The dependencies whose failure is one of the body of d.
Needed(p, d) == ({p.final[d]} \cup (ToSet(p.fans[d]) \ p.tolerated)) \ {None}

\* The user code the body of d depends on, if handle h depends on u[h].
BodyCode(p, u, d) == {d} \cup (UNION {u[h] : h \in Needed(p, d)})

HandleCode(p, u, h) ==
    {h} \cup (IF p.input[h] = None THEN {} ELSE u[p.input[h]])
        \cup (IF p.def[h] = None THEN {} ELSE BodyCode(p, u, p.def[h]))

\* The definitions and Binds that each handle's value depends on.
UserCode(p) == LET u[h \in p.handles] == HandleCode(p, u, h) IN u

\* A goroutine that gets an error gets it for a reason: user code it depends
\* on failed, in its own run; none comes from another run or from a handle that
\* nobody asked for. (Errors of the store, of Start, of a panic and of a cancelled
\* context are the other modules'; here nothing else fails.)
ErrorHasCause ==
    \A t \in Threads : outcome[t] # None /\ ~outcome[t].ok =>
        /\ outcome[t].cause # {}
        /\ outcome[t].cause \subseteq
             {program.main[t].ctx.run}
               \X BodyCode(program, UserCode(program), program.main[t].def)

\* A path names one node of a graph: no two registries hold an executioner
\* under one path of one run, so no two of them write one node of the store
\* and none loads a node another one defined; and whoever asked a registry for
\* its handle's executioner holds that one.
PathNamesInstance ==
    /\ \A j, k \in DOMAIN execs : j[1] = k[1] /\ j[3] = k[3] => j = k
    /\ \A t \in Threads :
        In(t, "resolve", "getResult") =>
            /\ execs[Top(t).key].h = Top(t).h
            /\ execs[Top(t).key].ctx = Top(t).ctx

\* The nodes that the body of D resolves with its Context: those it fans in or
\* returns, and their inputs.
Nodes(p) == {h \in p.handles : p.def[h] # None}

IsScope(p, D, S) ==
    /\ Nodes(p) \cap (ToSet(p.fans[D]) \cup {p.final[D]}) \subseteq S
    /\ \A h \in S : p.input[h] \in Nodes(p) => p.input[h] \in S

ScopeOf(p, D) ==
    LET scopes == {S \in SUBSET Nodes(p) : IsScope(p, D, S)}
    IN  {h \in Nodes(p) : \A S \in scopes : h \in S}

\* Bodies that run with one Context: those of goroutines of one NewNode function.
Together(p, D, E) ==
    D = E \/ \E t, u \in DOMAIN p.main : /\ p.main[t].def = D /\ p.main[u].def = E
                                        /\ p.main[t].ctx = p.main[u].ctx

\* In one scope a NodeID is the NodeID of one definition.
NamesApart(p) ==
    \A D, E \in p.defs : Together(p, D, E) =>
        \A g \in ScopeOf(p, D), h \in ScopeOf(p, E) :
            p.id[p.def[g]] = p.id[p.def[h]] => p.def[g] = p.def[h]

\* The goroutines of one run belong to one NewNode function.
OneContext(p) ==
    \A t, u \in DOMAIN p.main :
        p.main[t].ctx.run = p.main[u].ctx.run => p.main[t].ctx = p.main[u].ctx

\* What PathNamesInstance asks of a program.
PathsApart(p) == OneContext(p) /\ NamesApart(p)

\* What the values ask of it: handles do not depend on themselves, so that their
\* meanings are of what the tables say, ...
Unfolds(p) ==
    \A h \in p.handles : /\ Meaning(p)[h] = HandleValue(p, Meaning(p), h)
                         /\ UserCode(p)[h] = HandleCode(p, UserCode(p), h)

\* ... and no body fans in a Bind, for which FanIn finds no path.
FansNodes(p) ==
    \A d \in p.defs : \A i \in DOMAIN p.fans[d] : p.kind[p.fans[d][i]] # "bind"

\* What the values are proved from, and the causes of errors.
WellBuilt(p) == PathsApart(p) /\ Unfolds(p) /\ FansNodes(p)

\* How many handles are below each handle, each the input of the next.
Depth(p) ==
    LET n[h \in p.handles] == IF p.input[h] = None THEN 0 ELSE n[p.input[h]] + 1
    IN  n

\* What the futures ask of it, too: no handle is its own input, however indirectly, ...
NoCycles(p) ==
    \A h \in p.handles : /\ Depth(p)[h] \in Nat
                         /\ p.input[h] # None => Depth(p)[p.input[h]] < Depth(p)[h]

\* ... and the goroutines of a NewNode function resolve handles of their own.
OwnHandles(p) ==
    \A t, u \in DOMAIN p.main : t # u /\ p.main[t].ctx = p.main[u].ctx =>
        ScopeOf(p, p.main[t].def) \cap ScopeOf(p, p.main[u].def) = {}

\* The future FanIn returns has the result FanIn's own resolution had.
FutureIsOfItsDependency ==
    \A t \in Threads : \A i \in DOMAIN stack[t] :
        \A j \in DOMAIN stack[t][i].futures :
            LET f == stack[t][i].futures[j]
            IN  IF f.res # None THEN f.res = f.seen
                ELSE /\ f.key \in DOMAIN execs
                     /\ execs[f.key].state = "done" => execs[f.key].result = f.seen

\* A handle stands for one instance: it has at most one executioner.
OneInstancePerHandle ==
    \A j, k \in DOMAIN execs :
        execs[j].h = execs[k].h /\ execs[j].ctx = execs[k].ctx => j = k

\* Every goroutine returns: no cycle of executioners waiting for each other.
EveryoneReturns == <>(\A t \in Threads : outcome[t] # None)

\* All the dependencies a body fans in are started, even if one of them takes
\* forever.
Started(h) == \E k \in DOMAIN execs : execs[k].h = h /\ execs[k].state # "new"
EveryBranchStarts ==
    <>(\A t \in Threads : \A i \in DOMAIN program.fans[program.main[t].def] :
           Started(program.fans[program.main[t].def][i]))

==============================================================================
