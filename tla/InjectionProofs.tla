--------------------------- MODULE InjectionProofs ---------------------------
(***************************************************************************)
(* Theorems of Injection for every set of goroutines and definitions, every *)
(* way of registering dependencies and any number of calls.                *)
(***************************************************************************)
EXTENDS Injection, SequenceTheorems, TLAPS

InStart   == {"init", "make", "keep", "store", "load", "lookup", "inject", "finish"}
InResolve == {"create", "get", "use"}
Outcomes  == (Deps \ {Nil}) \cup {"starting", "started", "resolving", "initError",
                                 "notSet", "panic"}

HandleRecord == [def : Defs, dep : Deps \cup {None}, failed : BOOLEAN,
                 out : Outcomes]
CallRecord   == [at : {"idle", "register"} \cup InStart \cup InResolve, n : Nat,
                 obj : Handles \cup {None}, dep : Deps \cup {None},
                 failed : BOOLEAN, rest : Seq(Injectors)]

\* TypeOK with the types of the calls, which it rests on.
IType ==
    /\ nodeDependencies \in [TypeIDs -> Deps \cup {None}]
    /\ initErr \in [Defs -> BOOLEAN]
    /\ initializer \in [Defs -> Handles \cup {None}]
    /\ kept \in [Defs -> Handles \cup {None}]
    /\ client \in [Handles -> (Deps \ {Nil}) \cup {None}]
    /\ handle \in Seq(HandleRecord) /\ Len(handle) <= MaxStarts
    /\ call \in [Threads -> CallRecord]
    /\ resets \in Nat
    /\ \A t \in Threads :
        /\ call[t].at = "register" => call[t].rest # <<>>
        /\ call[t].at \in InStart \cup InResolve => call[t].n \in DOMAIN handle

------------------------------------------------------------------------------
(* One goroutine for each definition: what its initializer holds.            *)

OneUserEach == \A d \in Defs : \A t, u \in Users[d] : t = u

\* The call a goroutine is in is of a handle it may use, and no other goroutine
\* uses the definition of that handle.
CallInv ==
    \A t \in Threads :
        /\ call[t].at \in InStart \cup InResolve => t \in Users[Def(t)]
        /\ call[t].at \in InStart => handle[call[t].n].out = "starting"
        /\ call[t].at \in InResolve => handle[call[t].n].out = "resolving"

\* The initializer a definition keeps was made for one of its handles, and is
\* the one its Start goes on with.
KeptInv ==
    /\ \A d \in Defs : kept[d] # None =>
          kept[d] \in DOMAIN handle /\ handle[kept[d]].def = d
    /\ \A t \in Threads :
        /\ call[t].at = "make" => kept[Def(t)] = None
        /\ call[t].at \in InStart \ {"init", "make"} => kept[Def(t)] # None
        /\ call[t].at = "load" => initializer[Def(t)] = kept[Def(t)]
        /\ call[t].at \in {"store", "lookup", "inject", "finish"}
              => call[t].obj = kept[Def(t)]

\* Until a reset, what Start saw registered is registered still.
StillRegistered ==
    resets = 0 =>
        /\ \A n \in DOMAIN handle : handle[n].dep # None =>
              nodeDependencies[TypeOf[handle[n].def]] = handle[n].dep
        /\ \A t \in Threads : call[t].at = "inject" =>
              /\ call[t].dep # None /\ ~call[t].failed
              /\ nodeDependencies[TypeOf[Def(t)]] = call[t].dep

\* A handle that is owed its dependency.
Owed(n) == handle[n].dep \in Accepts[handle[n].def]

\* The initializer of a definition has the dependency one of its handles is
\* owed from the end of the first Start that saw it, and later Starts of the
\* definition do not take it away.
InjectedInv ==
    resets = 0 =>
        \A n \in DOMAIN handle : Owed(n) =>
            /\ handle[n].out \in {"started", "resolving"} =>
                  /\ ~initErr[handle[n].def]
                  /\ Injected(handle[n].def) = handle[n].dep
            /\ \A t \in Threads :
                  call[t].at = "finish" /\ Def(t) = handle[n].def =>
                      ~call[t].failed /\ Injected(Def(t)) = handle[n].dep

InjectInv == CallInv /\ KeptInv /\ StillRegistered /\ InjectedInv /\ GetHasDependency

------------------------------------------------------------------------------
(* The sequences of the model.                                               *)

LEMMA InjectorTypes ==
    \A j \in Injectors : j.dep \in Deps /\ j.nodes \subseteq TypeIDs
BY DEF Deps, TypeIDs

LEMMA TypeOfTypes == \A d \in Defs : TypeOf[d] \in TypeIDs
BY DEF TypeIDs

\* The constructors still to come.
LEMMA RestTypes ==
    ASSUME IType, NEW t \in Threads, At(t, "register")
    PROVE  /\ Head(call[t].rest) \in Injectors
           /\ Tail(call[t].rest) \in Seq(Injectors)
<1>1. call[t].rest \in Seq(Injectors) /\ call[t].rest # <<>>
  BY DEF IType, At, CallRecord
<1> QED BY <1>1, HeadTailProperties

\* What a handle is in its sequence.
LEMMA HandleTypes ==
    ASSUME IType
    PROVE  /\ Len(handle) \in Nat /\ DOMAIN handle = 1..Len(handle)
           /\ DOMAIN handle \subseteq Handles
           /\ \A n \in DOMAIN handle : handle[n] \in HandleRecord
<1>1. Len(handle) \in Nat /\ DOMAIN handle = 1..Len(handle)
  BY LenProperties DEF IType
<1>2. DOMAIN handle \subseteq Handles
  BY <1>1, ConstantsAssumption DEF IType, Handles
<1>3. \A n \in DOMAIN handle : handle[n] \in HandleRecord
  BY <1>1, ElementOfSeq DEF IType
<1> QED BY <1>1, <1>2, <1>3

\* A handle replaced by another.
LEMMA HandleReplaced ==
    ASSUME NEW s \in Seq(HandleRecord), NEW n \in DOMAIN s, NEW h \in HandleRecord
    PROVE  /\ [s EXCEPT ![n] = h] \in Seq(HandleRecord)
           /\ Len([s EXCEPT ![n] = h]) = Len(s)
           /\ DOMAIN [s EXCEPT ![n] = h] = DOMAIN s
           /\ \A m \in DOMAIN s :
                [s EXCEPT ![n] = h][m] = IF m = n THEN h ELSE s[m]
<1>1. DOMAIN s = 1..Len(s)
  BY LenProperties
<1>2. /\ [s EXCEPT ![n] = h] \in Seq(HandleRecord)
      /\ Len([s EXCEPT ![n] = h]) = Len(s)
      /\ \A m \in 1..Len(s) : [s EXCEPT ![n] = h][m] = IF m = n THEN h ELSE s[m]
  BY <1>1, ExceptSeq
<1> QED BY <1>1, <1>2

\* What became of a handle, and nothing else of it.
LEMMA OutSet ==
    ASSUME NEW s \in Seq(HandleRecord), NEW n \in DOMAIN s, NEW o \in Outcomes,
           NEW r, r = [s EXCEPT ![n].out = o]
    PROVE  /\ r \in Seq(HandleRecord) /\ Len(r) = Len(s) /\ DOMAIN r = DOMAIN s
           /\ \A m \in DOMAIN s : /\ r[m].def = s[m].def /\ r[m].dep = s[m].dep
                                 /\ r[m].out = IF m = n THEN o ELSE s[m].out
<1>1. s[n] \in HandleRecord
  BY LenProperties, ElementOfSeq
<1>2. PICK h : h = [s[n] EXCEPT !.out = o]
  OBVIOUS
<1>3. h \in HandleRecord /\ h.def = s[n].def /\ h.dep = s[n].dep /\ h.out = o
  BY <1>1, <1>2 DEF HandleRecord
<1>4. r = [s EXCEPT ![n] = h]
  BY <1>2
<1>5. /\ r \in Seq(HandleRecord) /\ Len(r) = Len(s) /\ DOMAIN r = DOMAIN s
      /\ \A m \in DOMAIN s : r[m] = IF m = n THEN h ELSE s[m]
  <2>1. h \in HandleRecord
    BY <1>3
  <2> HIDE <1>2
  <2> QED BY <2>1, <1>4, HandleReplaced
<1> QED BY <1>3, <1>5

\* A handle whose Start has returned.
LEMMA StartedSet ==
    ASSUME NEW s \in Seq(HandleRecord), NEW n \in DOMAIN s, NEW f \in BOOLEAN,
           NEW r, r = [s EXCEPT ![n] = Started(s[n], f)]
    PROVE  /\ r \in Seq(HandleRecord) /\ Len(r) = Len(s) /\ DOMAIN r = DOMAIN s
           /\ \A m \in DOMAIN s :
                /\ r[m].def = s[m].def /\ r[m].dep = s[m].dep
                /\ r[m].out = IF m = n THEN "started" ELSE s[m].out
<1>1. s[n] \in HandleRecord
  BY LenProperties, ElementOfSeq
<1>2. /\ Started(s[n], f) \in HandleRecord
      /\ Started(s[n], f).def = s[n].def /\ Started(s[n], f).dep = s[n].dep
      /\ Started(s[n], f).out = "started"
  BY <1>1 DEF HandleRecord, Started, Outcomes
<1>3. /\ r \in Seq(HandleRecord) /\ Len(r) = Len(s) /\ DOMAIN r = DOMAIN s
      /\ \A m \in DOMAIN s : r[m] = IF m = n THEN Started(s[n], f) ELSE s[m]
  <2>1. Started(s[n], f) \in HandleRecord
    BY <1>2
  <2> QED BY <2>1, HandleReplaced
<1> QED BY <1>2, <1>3

\* A handle more.
LEMMA HandleAdded ==
    ASSUME IType, NEW h \in HandleRecord, handle' = Append(handle, h)
    PROVE  /\ handle' \in Seq(HandleRecord) /\ Len(handle') = Len(handle) + 1
           /\ DOMAIN handle' = DOMAIN handle \cup {Len(handle) + 1}
           /\ Len(handle) + 1 \notin DOMAIN handle
           /\ handle'[Len(handle) + 1] = h
           /\ \A m \in DOMAIN handle : handle'[m] = handle[m]
<1>1. /\ handle' \in Seq(HandleRecord) /\ Len(handle') = Len(handle) + 1
      /\ handle'[Len(handle) + 1] = h
      /\ \A m \in 1..Len(handle) : handle'[m] = handle[m]
  BY AppendProperties DEF IType
<1>2. DOMAIN handle' = 1..Len(handle')
  BY <1>1, LenProperties
<1> QED BY <1>1, <1>2, HandleTypes

------------------------------------------------------------------------------
(* Types.                                                                    *)

LEMMA InitIType == Init => IType
<1> SUFFICES ASSUME Init PROVE IType
  OBVIOUS
<1>1. Idle \in CallRecord /\ Idle.at = "idle"
  BY EmptySeq DEF Idle, CallRecord
<1>2. <<>> \in Seq(HandleRecord) /\ Len(<<>>) = 0
  BY EmptySeq
<1> QED BY <1>1, <1>2, ConstantsAssumption DEF Init, IType, InStart, InResolve

\* The calls after a step of one goroutine.
LEMMA CallUpdated ==
    ASSUME IType, NEW t \in Threads, NEW c \in CallRecord, Become(t, c),
           c.at = "register" => c.rest # <<>>,
           c.at \in InStart \cup InResolve => c.n \in DOMAIN handle',
           DOMAIN handle \subseteq DOMAIN handle'
    PROVE  /\ call' \in [Threads -> CallRecord]
           /\ \A u \in Threads :
                /\ call'[u].at = "register" => call'[u].rest # <<>>
                /\ call'[u].at \in InStart \cup InResolve
                      => call'[u].n \in DOMAIN handle'
<1>1. call' = [call EXCEPT ![t] = c] /\ call \in [Threads -> CallRecord]
  BY DEF Become, IType
<1>2. \A u \in Threads : call'[u] = IF u = t THEN c ELSE call[u]
  BY <1>1
<1> QED BY <1>1, <1>2 DEF IType

\* What a call becomes: the record c.
LEMMA CallTypes ==
    ASSUME IType, NEW t \in Threads
    PROVE  /\ call[t] \in CallRecord
           /\ \A at \in InStart \cup InResolve :
                /\ [call[t] EXCEPT !.at = at] \in CallRecord
                /\ [call[t] EXCEPT !.at = at].at = at
                /\ [call[t] EXCEPT !.at = at].n = call[t].n
           /\ Idle \in CallRecord /\ Idle.at = "idle"
<1>1. call[t] \in CallRecord
  BY DEF IType
<1>2. Idle \in CallRecord /\ Idle.at = "idle"
  BY EmptySeq DEF Idle, CallRecord
<1> QED BY <1>1, <1>2 DEF CallRecord

LEMMA SettingUpType ==
    ASSUME IType, NEW t \in Threads,
           \/ \E s \in Setups : Dependencies(t, s)
           \/ StoreDependency(t)
           \/ ResetDependencies(t)
    PROVE  IType'
<1>1. ASSUME NEW s \in Setups, Dependencies(t, s) PROVE IType'
  <2> DEFINE c == [Idle EXCEPT !.at = "register", !.rest = s]
  <2>1. c \in CallRecord /\ c.at = "register" /\ c.rest = s /\ s # <<>>
    BY EmptySeq, ConstantsAssumption DEF Idle, CallRecord
  <2>2. Become(t, c) /\ UNCHANGED <<nodeDependencies, resets, def, handle>>
    BY <1>1 DEF Dependencies
  <2> HIDE DEF c
  <2> QED BY <2>1, <2>2, CallUpdated DEF IType, def, InStart, InResolve
<1>2. CASE StoreDependency(t)
  <2> DEFINE next == Head(call[t].rest)
             rest == Tail(call[t].rest)
             free == \A id \in next.nodes : nodeDependencies[id] = None
  <2>1. /\ At(t, "register")
        /\ nodeDependencies' = [id \in TypeIDs |->
               IF free /\ id \in next.nodes THEN next.dep ELSE nodeDependencies[id]]
        /\ Become(t, IF free /\ rest # <<>> THEN [call[t] EXCEPT !.rest = rest]
                                            ELSE Idle)
        /\ UNCHANGED <<setups, resets, def, handle>>
    BY <1>2 DEF StoreDependency
  <2>2. next \in Injectors /\ rest \in Seq(Injectors)
    BY <2>1, RestTypes
  <2>3. next.dep \in Deps
    BY <2>2, InjectorTypes
  <2> HIDE DEF next, rest, free
  <2>4. nodeDependencies' \in [TypeIDs -> Deps \cup {None}]
    BY <2>1, <2>3 DEF IType
  <2>5. /\ [call[t] EXCEPT !.rest = rest] \in CallRecord
        /\ [call[t] EXCEPT !.rest = rest].rest = rest
        /\ [call[t] EXCEPT !.rest = rest].at = "register"
    BY <2>1, <2>2, CallTypes DEF CallRecord, At
  <2> DEFINE c == IF free /\ rest # <<>> THEN [call[t] EXCEPT !.rest = rest] ELSE Idle
  <2>6. /\ c \in CallRecord /\ (c.at = "register" => c.rest # <<>>)
        /\ c.at \notin InStart \cup InResolve
    BY <2>5, CallTypes DEF InStart, InResolve
  <2>7. Become(t, c)
    BY <2>1
  <2> HIDE DEF c
  <2> QED BY <2>1, <2>4, <2>6, <2>7, CallUpdated DEF IType, def
<1>3. CASE ResetDependencies(t)
  BY <1>3 DEF ResetDependencies, IType, def
<1> QED BY <1>1, <1>2, <1>3

\* The goroutine t goes on in its call; no other call changes.
Moves(t, at, obj, dep, failed) ==
    /\ call' \in [Threads -> CallRecord]
    /\ call'[t].at = at /\ call'[t].n = call[t].n
    /\ call'[t].obj = obj /\ call'[t].dep = dep /\ call'[t].failed = failed
    /\ \A u \in Threads \ {t} : call'[u] = call[u]

LEMMA BecomeMoves ==
    ASSUME IType, NEW t \in Threads, NEW c \in CallRecord, Become(t, c), c.n = call[t].n
    PROVE  Moves(t, c.at, c.obj, c.dep, c.failed)
<1>1. call' = [call EXCEPT ![t] = c] /\ call \in [Threads -> CallRecord]
  BY DEF Become, IType
<1> QED BY <1>1 DEF Moves

\* Where Goto leads, the rest of the call staying as it is.
LEMMA GotoMoves ==
    ASSUME IType, NEW t \in Threads, NEW at \in InStart \cup InResolve, Goto(t, at)
    PROVE  Moves(t, at, call[t].obj, call[t].dep, call[t].failed)
<1> DEFINE c == [call[t] EXCEPT !.at = at]
<1>1. /\ c \in CallRecord /\ c.at = at /\ c.n = call[t].n /\ c.obj = call[t].obj
      /\ c.dep = call[t].dep /\ c.failed = call[t].failed
  BY CallTypes DEF CallRecord
<1>2. Become(t, c)
  BY DEF Goto
<1> HIDE DEF c
<1> QED BY <1>1, <1>2, BecomeMoves

\* A call that reads an initializer, and goes on at at with it.
LEMMA ReadMoves ==
    ASSUME IType, NEW t \in Threads, NEW at \in InStart, NEW obj \in Handles \cup {None},
           Become(t, [call[t] EXCEPT !.at = at, !.obj = obj])
    PROVE  Moves(t, at, obj, call[t].dep, call[t].failed)
<1> DEFINE c == [call[t] EXCEPT !.at = at, !.obj = obj]
<1>1. /\ c \in CallRecord /\ c.at = at /\ c.n = call[t].n /\ c.obj = obj
      /\ c.dep = call[t].dep /\ c.failed = call[t].failed
  BY CallTypes DEF CallRecord
<1>2. Become(t, c)
  OBVIOUS
<1> HIDE DEF c
<1> QED BY <1>1, <1>2, BecomeMoves

\* The outcome of the lookup.
LEMMA LookupMoves ==
    ASSUME IType, NEW t \in Threads, NEW dep \in Deps \cup {None},
           Become(t, [call[t] EXCEPT
               !.at = IF dep = None THEN "finish" ELSE "inject",
               !.dep = dep, !.failed = (dep = None)])
    PROVE  Moves(t, IF dep = None THEN "finish" ELSE "inject", call[t].obj, dep,
                 (dep = None))
<1> DEFINE c == [call[t] EXCEPT !.at = IF dep = None THEN "finish" ELSE "inject",
                                !.dep = dep, !.failed = (dep = None)]
<1>1. /\ c \in CallRecord /\ c.n = call[t].n /\ c.obj = call[t].obj
      /\ c.at = (IF dep = None THEN "finish" ELSE "inject")
      /\ c.dep = dep /\ c.failed = (dep = None)
  <2>1. PICK at \in InStart : at = IF dep = None THEN "finish" ELSE "inject"
    BY DEF InStart
  <2>2. PICK failed \in BOOLEAN : failed = (dep = None)
    OBVIOUS
  <2>3. c = [call[t] EXCEPT !.at = at, !.dep = dep, !.failed = failed]
    BY <2>1, <2>2
  <2> HIDE DEF c
  <2>4. call[t] \in CallRecord
    BY CallTypes
  <2>5. c \in CallRecord
    BY <2>1, <2>2, <2>3, <2>4 DEF CallRecord
  <2>6. /\ c.n = call[t].n /\ c.obj = call[t].obj /\ c.at = at /\ c.dep = dep
        /\ c.failed = failed
    BY <2>3, <2>4 DEF CallRecord
  <2> QED BY <2>1, <2>2, <2>5, <2>6
<1>2. Become(t, c)
  OBVIOUS
<1> HIDE DEF c
<1> QED BY <1>1, <1>2, BecomeMoves

LEMMA WrongTypeMoves ==
    ASSUME IType, NEW t \in Threads, WrongType(t)
    PROVE  Moves(t, "finish", call[t].obj, call[t].dep, TRUE)
<1> DEFINE c == [call[t] EXCEPT !.at = "finish", !.failed = TRUE]
<1>1. /\ c \in CallRecord /\ c.n = call[t].n /\ c.obj = call[t].obj
      /\ c.at = "finish" /\ c.dep = call[t].dep /\ c.failed = TRUE
  BY CallTypes DEF CallRecord, InStart
<1>2. Become(t, c)
  BY DEF WrongType
<1> HIDE DEF c
<1> QED BY <1>1, <1>2, BecomeMoves

\* A call that ends.
LEMMA IdleMoves ==
    ASSUME IType, NEW t \in Threads, Become(t, Idle)
    PROVE  /\ call' \in [Threads -> CallRecord] /\ call'[t].at = "idle"
           /\ \A u \in Threads \ {t} : call'[u] = call[u]
<1>1. call' = [call EXCEPT ![t] = Idle] /\ call \in [Threads -> CallRecord]
  BY DEF Become, IType
<1> QED BY <1>1, CallTypes

\* The definition a call is of, and the number of its handle.
LEMMA DefTypes ==
    ASSUME IType, NEW t \in Threads, call[t].at \in InStart \cup InResolve
    PROVE  Def(t) \in Defs /\ call[t].n \in DOMAIN handle /\ call[t].n \in Handles
BY HandleTypes DEF IType, Def, HandleRecord

\* The types after a step that goes on in its call.
LEMMA MovedType ==
    ASSUME IType, NEW t \in Threads, NEW at \in InStart \cup InResolve,
           NEW obj, NEW dep, NEW failed, Moves(t, at, obj, dep, failed),
           call[t].at \in InStart \cup InResolve,
           UNCHANGED <<nodeDependencies, resets, handle>>
    PROVE  initErr' \in [Defs -> BOOLEAN]
           /\ initializer' \in [Defs -> Handles \cup {None}]
           /\ kept' \in [Defs -> Handles \cup {None}]
           /\ client' \in [Handles -> (Deps \ {Nil}) \cup {None}]
           => IType'
BY DEF IType, Moves, InStart, InResolve

LEMMA StartingType == \A t \in Threads : IType /\ Starting(t) => IType'
<1> SUFFICES ASSUME NEW t \in Threads, IType, Starting(t) PROVE IType'
  OBVIOUS
<1>0. call[t].at \in InStart
  BY DEF Starting, InitChecks, InitMakes, InitReturns, StoreInitializer,
         LoadInitializer, GetNodeDependency, DependencyInject, WrongType,
         StartPanics, StartReturns, At, InStart
<1>a. Def(t) \in Defs /\ call[t].n \in DOMAIN handle /\ call[t].n \in Handles
  BY <1>0, DefTypes
<1>b. call[t] \in CallRecord
  BY CallTypes
<1>c. /\ initErr \in [Defs -> BOOLEAN]
      /\ initializer \in [Defs -> Handles \cup {None}]
      /\ kept \in [Defs -> Handles \cup {None}]
      /\ client \in [Handles -> (Deps \ {Nil}) \cup {None}]
      /\ handle \in Seq(HandleRecord)
  BY DEF IType
<1>d. TypeOf[Def(t)] \in TypeIDs
  BY <1>a, TypeOfTypes
<1> USE DEF def, setup
<1>1. CASE InitChecks(t)
  <2>1. CASE kept[Def(t)] = None
    BY <1>0, <1>1, <1>c, <2>1, GotoMoves, MovedType DEF InitChecks, InStart
  <2>2. CASE kept[Def(t)] # None
    BY <1>0, <1>1, <1>c, <2>2, GotoMoves, MovedType DEF InitChecks, InStart
  <2> QED BY <2>1, <2>2
<1>2. CASE InitMakes(t)
  BY <1>0, <1>2, <1>a, <1>c, GotoMoves, MovedType DEF InitMakes, InStart
<1>3. CASE InitReturns(t)
  <2>1. PICK obj \in Handles \cup {None} : obj = kept[Def(t)]
    BY <1>a, <1>c
  <2>2. Moves(t, "store", obj, call[t].dep, call[t].failed)
    BY <1>3, <2>1, ReadMoves DEF InitReturns, InStart
  <2> QED BY <1>0, <1>3, <1>c, <2>2, MovedType DEF InitReturns, InStart
<1>4. CASE StoreInitializer(t)
  BY <1>0, <1>4, <1>a, <1>b, <1>c, GotoMoves, MovedType
     DEF StoreInitializer, InStart, CallRecord
<1>5. CASE LoadInitializer(t)
  <2>1. PICK obj \in Handles \cup {None} : obj = initializer[Def(t)]
    BY <1>a, <1>c
  <2>2. Moves(t, "lookup", obj, call[t].dep, call[t].failed)
    BY <1>5, <2>1, ReadMoves DEF LoadInitializer, InStart
  <2> QED BY <1>0, <1>5, <1>c, <2>2, MovedType DEF LoadInitializer, InStart
<1>6. CASE GetNodeDependency(t)
  <2>1. nodeDependencies[TypeOf[Def(t)]] \in Deps \cup {None}
    BY <1>a, <1>d DEF IType
  <2>2. PICK dep \in Deps \cup {None} : dep = nodeDependencies[TypeOf[Def(t)]]
    BY <2>1
  <2>3. Moves(t, IF dep = None THEN "finish" ELSE "inject", call[t].obj, dep,
              (dep = None))
    BY <1>6, <2>2, LookupMoves DEF GetNodeDependency
  <2>4. (IF dep = None THEN "finish" ELSE "inject") \in InStart
    BY DEF InStart
  <2> QED BY <1>0, <1>6, <1>c, <2>3, <2>4, MovedType DEF GetNodeDependency
<1>7. CASE DependencyInject(t)
  <2>1. call[t].dep \in (Deps \ {Nil}) \cup {None}
    BY <1>7, <1>a, <1>b, ConstantsAssumption DEF DependencyInject, CallRecord
  <2> QED BY <1>0, <1>7, <1>c, <2>1, GotoMoves, MovedType DEF DependencyInject, InStart
<1>8. CASE WrongType(t)
  BY <1>0, <1>8, <1>c, WrongTypeMoves, MovedType DEF WrongType, InStart
<1>9. CASE StartPanics(t)
  <2>1. Become(t, Idle) /\ handle' = [handle EXCEPT ![call[t].n].out = "panic"]
        /\ UNCHANGED <<nodeDependencies, resets, def>>
    BY <1>9 DEF StartPanics
  <2>2. handle' \in Seq(HandleRecord) /\ Len(handle') = Len(handle)
        /\ DOMAIN handle' = DOMAIN handle
    <3>1. "panic" \in Outcomes
      BY DEF Outcomes
    <3> QED BY <2>1, <3>1, <1>a, <1>c, OutSet
  <2> QED BY <2>1, <2>2, IdleMoves DEF IType, InStart, InResolve
<1>10. CASE StartReturns(t)
  <2>1. /\ Become(t, Idle) /\ UNCHANGED <<nodeDependencies, resets>>
        /\ UNCHANGED <<initializer, kept, client>>
        /\ handle' = [handle EXCEPT ![call[t].n] =
                          Started(handle[call[t].n], call[t].failed)]
        /\ initErr' = [initErr EXCEPT ![Def(t)] = call[t].failed]
    BY <1>10 DEF StartReturns
  <2>2. call[t].failed \in BOOLEAN
    BY <1>b DEF CallRecord
  <2>3. handle' \in Seq(HandleRecord) /\ Len(handle') = Len(handle)
        /\ DOMAIN handle' = DOMAIN handle
    BY <2>1, <2>2, <1>a, StartedSet DEF IType
  <2>4. initErr' \in [Defs -> BOOLEAN]
    BY <2>1, <2>2, <1>c
  <2> QED BY <2>1, <2>3, <2>4, IdleMoves DEF IType, InStart, InResolve
<1> QED BY <1>1, <1>2, <1>3, <1>4, <1>5, <1>6, <1>7, <1>8, <1>9, <1>10 DEF Starting

\* A resolution ends: its handle has the outcome, its goroutine is free.
LEMMA EndsType ==
    ASSUME IType, NEW t \in Threads, NEW out \in Outcomes, Ends(t, out),
           call[t].at \in InResolve, UNCHANGED <<setup, def>>
    PROVE  IType'
<1>1. Become(t, Idle) /\ handle' = [handle EXCEPT ![call[t].n].out = out]
  BY DEF Ends
<1>2. call[t].n \in DOMAIN handle /\ handle \in Seq(HandleRecord)
  BY DefTypes DEF IType
<1>3. handle' \in Seq(HandleRecord) /\ Len(handle') = Len(handle)
      /\ DOMAIN handle' = DOMAIN handle
  BY <1>1, <1>2, OutSet
<1> QED BY <1>1, <1>3, IdleMoves DEF IType, InStart, InResolve, setup, def

\* What Get finds of a client.
LEMMA InjectedType ==
    ASSUME IType, NEW d \in Defs
    PROVE  Injected(d) \in (Deps \ {Nil}) \cup {None}
BY DEF IType, Injected

LEMMA ResolvingType == \A t \in Threads : IType /\ Resolving(t) => IType'
<1> SUFFICES ASSUME NEW t \in Threads, IType, Resolving(t) PROVE IType'
  OBVIOUS
<1>0. call[t].at \in InResolve
  BY DEF Resolving, CreateExecution, GetChecks, GetUses, At, InResolve
<1>1. Def(t) \in Defs
  BY <1>0, DefTypes
<1>2. Injected(Def(t)) \in (Deps \ {Nil}) \cup {None}
  BY <1>1, InjectedType
<1>3. UNCHANGED <<setup, def>>
  BY DEF Resolving, CreateExecution, GetChecks, GetUses
<1>4. \/ \E out \in Outcomes : Ends(t, out)
      \/ \E at \in InResolve : Goto(t, at) /\ UNCHANGED handle
  <2>1. CASE CreateExecution(t)
    BY <2>1 DEF CreateExecution, Outcomes, InResolve
  <2>2. CASE GetChecks(t)
    BY <2>2 DEF GetChecks, Outcomes, InResolve
  <2>3. CASE GetUses(t)
    <3>1. (IF Injected(Def(t)) = None THEN "panic" ELSE Injected(Def(t))) \in Outcomes
      BY <1>2 DEF Outcomes
    <3> QED BY <2>3, <3>1 DEF GetUses
  <2> QED BY <2>1, <2>2, <2>3 DEF Resolving
<1>5. CASE \E out \in Outcomes : Ends(t, out)
  BY <1>0, <1>3, <1>5, EndsType
<1>6. CASE \E at \in InResolve : Goto(t, at) /\ UNCHANGED handle
  <2>1. PICK at \in InResolve : Goto(t, at) /\ UNCHANGED handle
    BY <1>6
  <2>2. Moves(t, at, call[t].obj, call[t].dep, call[t].failed)
    BY <2>1, GotoMoves
  <2> QED BY <1>0, <1>3, <2>1, <2>2, MovedType DEF setup, def, IType
<1> QED BY <1>4, <1>5, <1>6

\* A new call, of Start or of a resolution, at its first step.
LEMMA CallMade ==
    ASSUME IType, NEW t \in Threads, NEW at \in InStart \cup InResolve, NEW n \in Nat,
           Become(t, [Idle EXCEPT !.at = at, !.n = n])
    PROVE  /\ call' \in [Threads -> CallRecord]
           /\ call'[t].at = at /\ call'[t].n = n
           /\ \A u \in Threads \ {t} : call'[u] = call[u]
<1> DEFINE c == [Idle EXCEPT !.at = at, !.n = n]
<1>1. c \in CallRecord /\ c.at = at /\ c.n = n
  BY EmptySeq DEF CallRecord, Idle
<1>2. call' = [call EXCEPT ![t] = c] /\ call \in [Threads -> CallRecord]
  BY DEF Become, IType
<1> HIDE DEF c
<1> QED BY <1>1, <1>2

LEMMA StartType ==
    ASSUME IType, NEW t \in Threads, NEW d \in Defs, Start(t, d)
    PROVE  /\ IType'
           /\ call'[t].at = "init" /\ call'[t].n = Len(handle) + 1
           /\ \A u \in Threads \ {t} : call'[u] = call[u]
           /\ DOMAIN handle' = DOMAIN handle \cup {Len(handle) + 1}
           /\ Len(handle) + 1 \notin DOMAIN handle
           /\ handle'[Len(handle) + 1] =
                  [def |-> d, dep |-> nodeDependencies[TypeOf[d]], failed |-> FALSE,
                   out |-> "starting"]
           /\ \A m \in DOMAIN handle : handle'[m] = handle[m]
<1> DEFINE h == [def |-> d, dep |-> nodeDependencies[TypeOf[d]], failed |-> FALSE,
                 out |-> "starting"]
<1>1. /\ Len(handle) < MaxStarts /\ handle' = Append(handle, h)
      /\ Become(t, [Idle EXCEPT !.at = "init", !.n = Len(handle) + 1])
      /\ UNCHANGED <<setup, def>>
  BY DEF Start
<1>2. h \in HandleRecord
  BY TypeOfTypes DEF IType, HandleRecord, Outcomes
<1>3. Len(handle) \in Nat
  BY HandleTypes
<1> HIDE DEF h
<1>4. /\ handle' \in Seq(HandleRecord) /\ Len(handle') = Len(handle) + 1
      /\ DOMAIN handle' = DOMAIN handle \cup {Len(handle) + 1}
      /\ Len(handle) + 1 \notin DOMAIN handle
      /\ handle'[Len(handle) + 1] = h
      /\ \A m \in DOMAIN handle : handle'[m] = handle[m]
  BY <1>1, <1>2, HandleAdded
<1>5. /\ call' \in [Threads -> CallRecord]
      /\ call'[t].at = "init" /\ call'[t].n = Len(handle) + 1
      /\ \A u \in Threads \ {t} : call'[u] = call[u]
  <2>1. Len(handle) + 1 \in Nat /\ "init" \in InStart \cup InResolve
    BY <1>3 DEF InStart
  <2>2. Become(t, [Idle EXCEPT !.at = "init", !.n = Len(handle) + 1])
    BY <1>1
  <2> QED BY <2>1, <2>2, CallMade, Zenon
<1>6. Len(handle') <= MaxStarts
  BY <1>1, <1>3, <1>4, ConstantsAssumption
<1>7. IType'
  BY <1>1, <1>4, <1>5, <1>6 DEF IType, setup, def, InStart
<1> QED BY <1>4, <1>5, <1>7 DEF h

LEMMA ResolveType ==
    ASSUME IType, NEW t \in Threads, NEW n \in Handles, Resolve(t, n)
    PROVE  /\ IType'
           /\ call'[t].at = "create" /\ call'[t].n = n
           /\ \A u \in Threads \ {t} : call'[u] = call[u]
<1>1. /\ n \in DOMAIN handle /\ handle' = [handle EXCEPT ![n].out = "resolving"]
      /\ Become(t, [Idle EXCEPT !.at = "create", !.n = n])
      /\ UNCHANGED <<setup, def>>
  BY DEF Resolve
<1>2. "resolving" \in Outcomes /\ handle \in Seq(HandleRecord) /\ n \in Nat
  BY DEF Outcomes, IType, Handles
<1>3. handle' \in Seq(HandleRecord) /\ Len(handle') = Len(handle)
      /\ DOMAIN handle' = DOMAIN handle
  BY <1>1, <1>2, OutSet
<1>4. /\ call' \in [Threads -> CallRecord]
      /\ call'[t].at = "create" /\ call'[t].n = n
      /\ \A u \in Threads \ {t} : call'[u] = call[u]
  BY <1>1, <1>2, CallMade DEF InResolve
<1> QED BY <1>1, <1>3, <1>4 DEF IType, setup, def

THEOREM ITypeInvariant == Spec => []IType
<1>1. IType /\ [Next]_vars => IType'
  <2> SUFFICES ASSUME IType, [Next]_vars PROVE IType'
    OBVIOUS
  <2>1. CASE UNCHANGED vars
    BY <2>1 DEF vars, setup, def, IType
  <2>2. CASE Next
    BY <2>2, SettingUpType, StartType, StartingType, ResolveType, ResolvingType DEF Next
  <2> QED BY <2>1, <2>2
<1> QED BY <1>1, InitIType, PTL DEF Spec

------------------------------------------------------------------------------
\* Every variable keeps its type in every behaviour: no path through Start puts
\* anything but a registered dependency into a client.
THEOREM TypeCorrect == Spec => []TypeOK
<1>1. IType => TypeOK
  BY HandleTypes DEF IType, TypeOK, HandleRecord, Outcomes
<1> QED BY <1>1, ITypeInvariant, PTL

------------------------------------------------------------------------------
(* What is registered.                                                       *)

\* One registration, by the constructor next: everything it asks for, or nothing.
LEMMA Stores ==
    ASSUME IType, NEW t \in Threads, StoreDependency(t)
    PROVE  /\ Head(call[t].rest) \in Injectors
           /\ \/ nodeDependencies' = nodeDependencies
              \/ /\ \A id \in Head(call[t].rest).nodes : nodeDependencies[id] = None
                 /\ nodeDependencies' =
                      [id \in TypeIDs |-> IF id \in Head(call[t].rest).nodes
                                         THEN Head(call[t].rest).dep
                                         ELSE nodeDependencies[id]]
<1> DEFINE next == Head(call[t].rest)
           free == \A id \in next.nodes : nodeDependencies[id] = None
<1>1. /\ At(t, "register")
      /\ nodeDependencies' = [id \in TypeIDs |->
             IF free /\ id \in next.nodes THEN next.dep ELSE nodeDependencies[id]]
  BY DEF StoreDependency
<1>2. next \in Injectors
  BY <1>1, RestTypes
<1> HIDE DEF next
<1>3. CASE free
  BY <1>1, <1>2, <1>3 DEF next
<1>4. CASE ~free
  <2>1. nodeDependencies' = [id \in TypeIDs |-> nodeDependencies[id]]
    BY <1>1, <1>4
  <2> QED BY <1>2, <2>1 DEF IType, next
<1> QED BY <1>3, <1>4

\* No other step touches what is registered.
LEMMA OnlySetupRegisters ==
    ASSUME [Next]_vars
    PROVE  \/ UNCHANGED <<nodeDependencies, resets>>
           \/ \E t \in Threads : StoreDependency(t)
           \/ \E t \in Threads : ResetDependencies(t)
<1>1. ASSUME NEW t \in Threads, NEW s \in Setups, Dependencies(t, s)
      PROVE  UNCHANGED <<nodeDependencies, resets>>
  BY <1>1 DEF Dependencies
<1>2. ASSUME NEW t \in Threads, \/ \E d \in Defs : Start(t, d)
                                \/ Starting(t)
                                \/ \E n \in Handles : Resolve(t, n)
                                \/ Resolving(t)
      PROVE  UNCHANGED setup
  BY <1>2, Zenon DEF Start, Starting, InitChecks, InitMakes, InitReturns,
     StoreInitializer, LoadInitializer, GetNodeDependency, DependencyInject,
     WrongType, StartPanics, StartReturns, Resolve, Resolving, CreateExecution,
     GetChecks, GetUses
<1> QED BY <1>1, <1>2 DEF Next, vars, setup

\* Dependencies registers what it can and takes nothing away; only
\* ResetDependencies does (dependencyinjection.go, storeDependency).
THEOREM RegistrationsStay == Spec => DependencyStays
<1>1. IType /\ [Next]_vars
        => [\/ \A id \in TypeIDs : nodeDependencies[id] # None
                  => nodeDependencies'[id] = nodeDependencies[id]
            \/ \A id \in TypeIDs : nodeDependencies'[id] = None]_vars
  <2> SUFFICES ASSUME IType, [Next]_vars
               PROVE  \/ \A id \in TypeIDs : nodeDependencies[id] # None
                            => nodeDependencies'[id] = nodeDependencies[id]
                      \/ \A id \in TypeIDs : nodeDependencies'[id] = None
    OBVIOUS
  <2>1. CASE \E t \in Threads : StoreDependency(t)
    BY <2>1, Stores
  <2>2. CASE \E t \in Threads : ResetDependencies(t)
    BY <2>2 DEF ResetDependencies
  <2> QED BY <2>1, <2>2, OnlySetupRegisters
<1> QED BY <1>1, ITypeInvariant, PTL DEF Spec, DependencyStays

\* An injector's node types are registered all together, if no two injectors
\* construct one dependency: of two that do, one alone may have succeeded.
DistinctDeps == \A i, j \in Injectors : i.dep = j.dep => i = j

THEOREM RegistersWhole == DistinctDeps => (Spec => []RegisteredWhole)
<1> SUFFICES ASSUME DistinctDeps PROVE Spec => []RegisteredWhole
  OBVIOUS
<1>1. Init => RegisteredWhole
  BY InjectorTypes, ConstantsAssumption DEF Init, RegisteredWhole
<1>2. IType /\ RegisteredWhole /\ [Next]_vars => RegisteredWhole'
  <2> SUFFICES ASSUME IType, RegisteredWhole, [Next]_vars PROVE RegisteredWhole'
    OBVIOUS
  <2>1. ASSUME NEW t \in Threads, StoreDependency(t) PROVE RegisteredWhole'
    <3>1. PICK next \in Injectors :
            \/ nodeDependencies' = nodeDependencies
            \/ /\ \A id \in next.nodes : nodeDependencies[id] = None
               /\ nodeDependencies' = [id \in TypeIDs |->
                      IF id \in next.nodes THEN next.dep ELSE nodeDependencies[id]]
      BY <2>1, Stores
    <3> QED BY <3>1, InjectorTypes, ConstantsAssumption DEF RegisteredWhole, DistinctDeps
  <2>2. CASE \E t \in Threads : ResetDependencies(t)
    BY <2>2, InjectorTypes, ConstantsAssumption DEF ResetDependencies, RegisteredWhole
  <2>3. CASE UNCHANGED nodeDependencies
    BY <2>3 DEF RegisteredWhole
  <2> QED BY <2>1, <2>2, <2>3, OnlySetupRegisters
<1> QED BY <1>1, <1>2, ITypeInvariant, PTL DEF Spec

------------------------------------------------------------------------------
(* What a handle is owed.                                                    *)

\* Two goroutines in calls of handles are at two definitions, and those keep two
\* initializers.
LEMMA Apart ==
    ASSUME OneUserEach, IType, CallInv, KeptInv, NEW t \in Threads,
           call[t].at \in InStart \cup InResolve
    PROVE  /\ Def(t) \in Defs /\ t \in Users[Def(t)]
           /\ \A u \in Threads \ {t} :
                call[u].at \in InStart \cup InResolve =>
                    Def(u) \in Defs /\ Def(u) # Def(t) /\ call[u].n # call[t].n
           /\ \A d \in Defs \ {Def(t)} :
                kept[d] # None => kept[d] # kept[Def(t)]
<1>1. Def(t) \in Defs /\ t \in Users[Def(t)]
  BY DefTypes DEF CallInv
<1>2. ASSUME NEW u \in Threads \ {t}, call[u].at \in InStart \cup InResolve
      PROVE  Def(u) \in Defs /\ Def(u) # Def(t) /\ call[u].n # call[t].n
  <2>1. Def(u) \in Defs /\ u \in Users[Def(u)]
    BY <1>2, DefTypes DEF CallInv
  <2>2. Def(u) # Def(t)
    BY <1>1, <2>1 DEF OneUserEach
  <2> QED BY <2>1, <2>2 DEF Def
<1>3. \A d \in Defs \ {Def(t)} : kept[d] # None => kept[d] # kept[Def(t)]
  BY <1>1 DEF KeptInv
<1> QED BY <1>1, <1>2, <1>3

LEMMA InitInjectInv == Init => InjectInv
<1> SUFFICES ASSUME Init PROVE InjectInv
  OBVIOUS
<1>1. \A t \in Threads : call[t].at = "idle"
  BY DEF Init, Idle
<1>2. DOMAIN handle = {}
  BY DEF Init
<1> QED BY <1>1, <1>2 DEF Init, InjectInv, CallInv, KeptInv, StillRegistered,
           InjectedInv, GetHasDependency, InStart, InResolve

\* Steps that touch neither a definition nor a handle.
LEMMA SetupInjectInv ==
    ASSUME OneUserEach, IType, InjectInv, NEW t \in Threads,
           \/ \E s \in Setups : Dependencies(t, s)
           \/ StoreDependency(t)
           \/ ResetDependencies(t)
    PROVE  InjectInv'
<1>1. UNCHANGED <<def, handle>>
  BY DEF Dependencies, StoreDependency, ResetDependencies
<1>2. /\ \A u \in Threads \ {t} : call'[u] = call[u]
      /\ call[t].at \in {"idle", "register"} /\ call'[t].at \in {"idle", "register"}
  <2>1. ASSUME NEW s \in Setups, Dependencies(t, s)
        PROVE  /\ \A u \in Threads \ {t} : call'[u] = call[u]
               /\ call[t].at = "idle" /\ call'[t].at = "register"
    <3> DEFINE c == [Idle EXCEPT !.at = "register", !.rest = s]
    <3>1. c.at = "register"
      BY DEF Idle
    <3>2. call[t].at = "idle" /\ call' = [call EXCEPT ![t] = c]
      BY <2>1 DEF Dependencies, Become, At
    <3> HIDE DEF c
    <3> QED BY <3>1, <3>2 DEF IType
  <2>2. CASE StoreDependency(t)
    <3> DEFINE rest == Tail(call[t].rest)
               free == \A id \in Head(call[t].rest).nodes : nodeDependencies[id] = None
               c == IF free /\ rest # <<>> THEN [call[t] EXCEPT !.rest = rest] ELSE Idle
    <3>1. call[t].at = "register" /\ call' = [call EXCEPT ![t] = c]
      BY <2>2 DEF StoreDependency, Become, At
    <3>2. c.at \in {"idle", "register"}
      BY <3>1, CallTypes DEF CallRecord
    <3> HIDE DEF c
    <3> QED BY <3>1, <3>2 DEF IType
  <2>3. CASE ResetDependencies(t)
    BY <2>3 DEF ResetDependencies, At
  <2> QED BY <2>1, <2>2, <2>3
<1>3. \/ resets' # 0
      \/ /\ resets' = resets
         /\ \A id \in TypeIDs : nodeDependencies[id] # None
               => nodeDependencies'[id] = nodeDependencies[id]
  <2>1. CASE \E s \in Setups : Dependencies(t, s)
    BY <2>1 DEF Dependencies
  <2>2. CASE StoreDependency(t)
    BY <2>2, Stores DEF StoreDependency
  <2>3. CASE ResetDependencies(t)
    BY <2>3 DEF ResetDependencies, IType
  <2> QED BY <2>1, <2>2, <2>3
<1>4. \A n \in DOMAIN handle : handle[n].def \in Defs
  BY HandleTypes DEF HandleRecord
<1> USE <1>1, <1>2 DEF def, InStart, InResolve, Def, Owed, Injected
<1>5. CallInv' /\ KeptInv'
  BY DEF InjectInv, CallInv, KeptInv
<1>6. StillRegistered'
  <2>1. \A u \in Threads : call[u].at = "inject" => TypeOf[Def(u)] \in TypeIDs
    BY DefTypes, TypeOfTypes
  <2> QED BY <1>3, <1>4, <2>1, TypeOfTypes DEF InjectInv, StillRegistered
<1>7. InjectedInv' /\ GetHasDependency'
  BY <1>3 DEF InjectInv, InjectedInv, GetHasDependency
<1> QED BY <1>5, <1>6, <1>7 DEF InjectInv

\* A new handle. One that is owed its dependency starts out as "starting".
LEMMA StartInjectInv ==
    ASSUME OneUserEach, IType, InjectInv, NEW t \in Threads, NEW d \in Defs, Start(t, d)
    PROVE  InjectInv'
<1>1. /\ call[t].at = "idle" /\ t \in Users[d]
      /\ UNCHANGED <<nodeDependencies, resets, initErr, initializer, kept, client>>
  BY DEF Start, At, setup, def
<1>2. /\ call'[t].at = "init" /\ call'[t].n = Len(handle) + 1
      /\ \A u \in Threads \ {t} : call'[u] = call[u]
      /\ DOMAIN handle' = DOMAIN handle \cup {Len(handle) + 1}
      /\ Len(handle) + 1 \notin DOMAIN handle
      /\ \A m \in DOMAIN handle : handle'[m] = handle[m]
  BY StartType
<1>3. /\ handle'[Len(handle) + 1].def = d
      /\ handle'[Len(handle) + 1].dep = nodeDependencies[TypeOf[d]]
      /\ handle'[Len(handle) + 1].out = "starting"
  <2>1. handle'[Len(handle) + 1] =
          [def |-> d, dep |-> nodeDependencies[TypeOf[d]], failed |-> FALSE,
           out |-> "starting"]
    BY StartType, Zenon
  <2> QED BY <2>1
<1>4. \A u \in Threads : call[u].at \in InStart \cup InResolve =>
         call[u].n \in DOMAIN handle
  BY DEF IType
<1>5. \A u \in Threads \ {t} : call[u].at \in InStart \cup InResolve =>
         /\ handle'[call'[u].n] = handle[call[u].n]
         /\ handle'[call'[u].n].def = Def(u)
         /\ handle[call[u].n].def # d
  BY <1>1, <1>2, <1>4 DEF InjectInv, CallInv, Def, OneUserEach
<1>6. handle'[call'[t].n].def = d
  BY <1>2, <1>3
<1>7. CallInv'
  BY <1>1, <1>2, <1>3, <1>5 DEF InjectInv, CallInv, Def, InStart, InResolve
<1>8. KeptInv'
  <2>1. \A e \in Defs : kept'[e] # None =>
           kept'[e] \in DOMAIN handle' /\ handle'[kept'[e]].def = e
    BY <1>1, <1>2 DEF InjectInv, KeptInv
  <2>2. ASSUME NEW u \in Threads
        PROVE  /\ call'[u].at = "make" => kept'[Def(u)'] = None
               /\ call'[u].at \in InStart \ {"init", "make"} => kept'[Def(u)'] # None
               /\ call'[u].at = "load" => initializer'[Def(u)'] = kept'[Def(u)']
               /\ call'[u].at \in {"store", "lookup", "inject", "finish"}
                      => call'[u].obj = kept'[Def(u)']
    <3>1. CASE u = t
      BY <1>2, <3>1
    <3>2. CASE u # t
      <4>1. call'[u] = call[u] /\ (call[u].at \in InStart => Def(u)' = Def(u))
        BY <1>2, <1>5, <3>2 DEF Def
      <4> QED BY <1>1, <4>1 DEF InjectInv, KeptInv, InStart
    <3> QED BY <3>1, <3>2
  <2> QED BY <2>1, <2>2 DEF KeptInv
<1>9. StillRegistered'
  <2> SUFFICES ASSUME resets' = 0 PROVE StillRegistered'
    BY DEF StillRegistered
  <2>1. \A n \in DOMAIN handle' : handle'[n].dep # None =>
           nodeDependencies'[TypeOf[handle'[n].def]] = handle'[n].dep
    BY <1>1, <1>2, <1>3 DEF InjectInv, StillRegistered
  <2>2. ASSUME NEW u \in Threads, call'[u].at = "inject"
        PROVE  /\ call'[u].dep # None /\ ~call'[u].failed
               /\ nodeDependencies'[TypeOf[Def(u)']] = call'[u].dep
    <3>1. u # t
      BY <1>2, <2>2
    <3>2. call'[u] = call[u] /\ Def(u)' = Def(u)
      BY <1>2, <1>5, <2>2, <3>1 DEF Def, InStart
    <3> QED BY <1>1, <2>2, <3>2 DEF InjectInv, StillRegistered
  <2> QED BY <2>1, <2>2 DEF StillRegistered
<1>10. InjectedInv'
  <2> SUFFICES ASSUME resets' = 0, NEW n \in DOMAIN handle', Owed(n)'
               PROVE  /\ handle'[n].out \in {"started", "resolving"} =>
                            /\ ~initErr'[handle'[n].def]
                            /\ Injected(handle[n].def)' = handle'[n].dep
                      /\ \A u \in Threads :
                            call'[u].at = "finish" /\ Def(u)' = handle'[n].def =>
                                ~call'[u].failed /\ Injected(Def(u))' = handle'[n].dep
    BY DEF InjectedInv
  <2>1. CASE n \in DOMAIN handle
    <3>1. handle'[n] = handle[n] /\ Owed(n)
      BY <1>2, <2>1 DEF Owed
    <3> QED BY <1>1, <1>2, <1>5, <2>1, <3>1
         DEF InjectInv, InjectedInv, Injected, Def, InStart
  <2>2. CASE n = Len(handle) + 1
    BY <1>1, <1>2, <1>3, <1>5, <2>2 DEF Def, InStart
  <2> QED BY <1>2, <2>1, <2>2
<1>11. GetHasDependency'
  BY <1>1, <1>2, <1>3 DEF InjectInv, GetHasDependency
<1> QED BY <1>7, <1>8, <1>9, <1>10, <1>11 DEF InjectInv

\* A goroutine goes on in its Start, or in its resolution.
LEMMA MovedCallInv ==
    ASSUME IType, CallInv, NEW t \in Threads, NEW at, NEW obj, NEW dep, NEW failed,
           Moves(t, at, obj, dep, failed), UNCHANGED handle,
           \/ call[t].at \in InStart /\ at \in InStart
           \/ call[t].at \in InResolve /\ at \in InResolve
    PROVE  CallInv' /\ \A u \in Threads : Def(u)' = Def(u) /\ call'[u].n = call[u].n
BY DEF CallInv, Moves, Def, InStart, InResolve

\* The steps of resolver.Init: the definition keeps an initializer of its own.
LEMMA InitializerInv ==
    ASSUME OneUserEach, IType, InjectInv, NEW t \in Threads,
           InitChecks(t) \/ InitMakes(t) \/ InitReturns(t)
    PROVE  InjectInv'
<1>0. call[t].at \in {"init", "make", "keep"} /\ call[t].at \in InStart
  BY DEF InitChecks, InitMakes, InitReturns, At, InStart
<1>1. /\ Def(t) \in Defs /\ t \in Users[Def(t)]
      /\ \A u \in Threads \ {t} : call[u].at \in InStart \cup InResolve =>
            Def(u) \in Defs /\ Def(u) # Def(t)
  BY <1>0, Apart DEF InjectInv
<1>2. call[t].n \in DOMAIN handle /\ call[t].n \in Handles /\ call[t].n # None
  BY <1>0, DefTypes, ConstantsAssumption
<1>3. kept \in [Defs -> Handles \cup {None}]
  BY DEF IType
<1>4. UNCHANGED <<nodeDependencies, resets, initErr, initializer, client, handle>>
  BY DEF InitChecks, InitMakes, InitReturns, setup, def
<1>5. PICK at \in {"make", "keep", "store"}, obj \in Handles \cup {None} :
         /\ Moves(t, at, obj, call[t].dep, call[t].failed)
         /\ at = "make" => kept[Def(t)] = None /\ kept' = kept
         /\ at = "keep" => \/ kept[Def(t)] # None /\ kept' = kept
                          \/ /\ call[t].at = "make"
                             /\ kept[Def(t)] = None
                             /\ kept' = [kept EXCEPT ![Def(t)] = call[t].n]
         /\ at = "store" => obj = kept[Def(t)] /\ call[t].at = "keep" /\ kept' = kept
  <2>0. call[t].obj \in Handles \cup {None}
    BY CallTypes DEF CallRecord
  <2>1. CASE InitChecks(t) /\ kept[Def(t)] = None
    BY <2>0, <2>1, GotoMoves DEF InitChecks, InStart, def
  <2>2. CASE InitChecks(t) /\ kept[Def(t)] # None
    BY <2>0, <2>2, GotoMoves DEF InitChecks, InStart, def
  <2>3. CASE InitMakes(t)
    BY <2>0, <2>3, GotoMoves DEF InitMakes, InStart, At, InjectInv, KeptInv
  <2>4. CASE InitReturns(t)
    <3>1. PICK obj \in Handles \cup {None} : obj = kept[Def(t)]
      BY <1>1, <1>3
    <3>2. Moves(t, "store", obj, call[t].dep, call[t].failed)
      BY <2>4, <3>1, ReadMoves DEF InitReturns, InStart
    <3> QED BY <2>4, <3>1, <3>2 DEF InitReturns, At, def
  <2> QED BY <2>1, <2>2, <2>3, <2>4
<1>6. CallInv' /\ \A u \in Threads : Def(u)' = Def(u) /\ call'[u].n = call[u].n
  BY <1>0, <1>4, <1>5, MovedCallInv DEF InjectInv, InStart
<1>7. KeptInv'
  <2>1. \A e \in Defs : kept'[e] # None =>
           kept'[e] \in DOMAIN handle' /\ handle'[kept'[e]].def = e
    BY <1>1, <1>2, <1>3, <1>4, <1>5 DEF InjectInv, KeptInv, Def
  <2>2. ASSUME NEW u \in Threads
        PROVE  /\ call'[u].at = "make" => kept'[Def(u)] = None
               /\ call'[u].at \in InStart \ {"init", "make"} => kept'[Def(u)] # None
               /\ call'[u].at = "load" => initializer'[Def(u)] = kept'[Def(u)]
               /\ call'[u].at \in {"store", "lookup", "inject", "finish"}
                      => call'[u].obj = kept'[Def(u)]
    <3>1. CASE u = t
      BY <1>0, <1>1, <1>2, <1>3, <1>5, <3>1 DEF InjectInv, KeptInv, Moves, InStart
    <3>2. CASE u # t
      <4>1. call'[u] = call[u]
        BY <1>5, <3>2 DEF Moves
      <4>2. call[u].at \in InStart => kept'[Def(u)] = kept[Def(u)]
        BY <1>1, <1>3, <1>5, <3>2
      <4> QED BY <1>4, <4>1, <4>2 DEF InjectInv, KeptInv, InStart
    <3> QED BY <3>1, <3>2
  <2> QED BY <1>6, <2>1, <2>2 DEF KeptInv
<1>8. StillRegistered'
  BY <1>4, <1>5, <1>6 DEF InjectInv, StillRegistered, Moves, InStart
<1>9. \A d \in Defs : Injected(d) # None => Injected(d)' = Injected(d)
  <2>1. \A d \in Defs : kept[d] # None => kept'[d] = kept[d]
    BY <1>0, <1>1, <1>3, <1>5
  <2> QED BY <1>4, <2>1 DEF Injected
<1>10. InjectedInv'
  BY <1>4, <1>5, <1>6, <1>9, HandleTypes, ConstantsAssumption
     DEF InjectInv, InjectedInv, Owed, Moves, HandleRecord, InStart
<1>11. GetHasDependency'
  BY <1>4 DEF InjectInv, GetHasDependency
<1> QED BY <1>6, <1>7, <1>8, <1>10, <1>11 DEF InjectInv

\* The initializer goes through the definition, and nobody else's comes back.
LEMMA ThroughDefinitionInv ==
    ASSUME OneUserEach, IType, InjectInv, NEW t \in Threads,
           StoreInitializer(t) \/ LoadInitializer(t)
    PROVE  InjectInv'
<1>0. call[t].at \in {"store", "load"} /\ call[t].at \in InStart
  BY DEF StoreInitializer, LoadInitializer, At, InStart
<1>1. /\ Def(t) \in Defs
      /\ \A u \in Threads \ {t} : call[u].at \in InStart \cup InResolve =>
            Def(u) \in Defs /\ Def(u) # Def(t)
  BY <1>0, Apart DEF InjectInv
<1>3. initializer \in [Defs -> Handles \cup {None}]
  BY DEF IType
<1>4. UNCHANGED <<nodeDependencies, resets, initErr, kept, client, handle>>
  BY DEF StoreInitializer, LoadInitializer, setup, def
<1>5. PICK at \in {"load", "lookup"}, obj \in Handles \cup {None} :
         /\ Moves(t, at, obj, call[t].dep, call[t].failed)
         /\ \/ /\ at = "load" /\ call[t].at = "store"
               /\ initializer' = [initializer EXCEPT ![Def(t)] = call[t].obj]
            \/ /\ at = "lookup" /\ call[t].at = "load"
               /\ obj = initializer[Def(t)] /\ initializer' = initializer
  <2>1. CASE StoreInitializer(t)
    <3>1. call[t].obj \in Handles \cup {None}
      BY CallTypes DEF CallRecord
    <3> QED BY <2>1, <3>1, GotoMoves DEF StoreInitializer, InStart, At
  <2>2. CASE LoadInitializer(t)
    <3>1. PICK obj \in Handles \cup {None} : obj = initializer[Def(t)]
      BY <1>1, <1>3
    <3>2. Moves(t, "lookup", obj, call[t].dep, call[t].failed)
      BY <2>2, <3>1, ReadMoves DEF LoadInitializer, InStart
    <3> QED BY <2>2, <3>1, <3>2 DEF LoadInitializer, At, def
  <2> QED BY <2>1, <2>2
<1>6. CallInv' /\ \A u \in Threads : Def(u)' = Def(u) /\ call'[u].n = call[u].n
  BY <1>0, <1>4, <1>5, MovedCallInv DEF InjectInv, InStart
<1>7. KeptInv'
  BY <1>0, <1>1, <1>3, <1>4, <1>5, <1>6
     DEF InjectInv, KeptInv, Moves, InStart, InResolve
<1>8. StillRegistered'
  BY <1>4, <1>5, <1>6 DEF InjectInv, StillRegistered, Moves, InStart
<1>10. InjectedInv'
  BY <1>4, <1>5, <1>6
     DEF InjectInv, InjectedInv, Owed, Injected, Moves, InStart
<1>11. GetHasDependency'
  BY <1>4 DEF InjectInv, GetHasDependency
<1> QED BY <1>6, <1>7, <1>8, <1>10, <1>11 DEF InjectInv

\* The lookup finds what Start saw, or what was registered since; the type of
\* what a handle is owed is right.
LEMMA LookupInv ==
    ASSUME OneUserEach, IType, InjectInv, NEW t \in Threads,
           GetNodeDependency(t) \/ WrongType(t)
    PROVE  InjectInv'
<1>0. call[t].at \in {"lookup", "inject"} /\ call[t].at \in InStart
  BY DEF GetNodeDependency, WrongType, At, InStart
<1>1. Def(t) \in Defs /\ TypeOf[Def(t)] \in TypeIDs
  BY <1>0, Apart, TypeOfTypes DEF InjectInv
<1>4. UNCHANGED <<nodeDependencies, resets, def, handle>>
  BY DEF GetNodeDependency, WrongType, setup
<1>5. PICK at \in {"inject", "finish"}, dep \in Deps \cup {None}, failed \in BOOLEAN :
         /\ Moves(t, at, call[t].obj, dep, failed)
         /\ at = "inject" =>
               dep # None /\ ~failed /\ dep = nodeDependencies[TypeOf[Def(t)]]
         /\ at = "finish" =>
               \/ nodeDependencies[TypeOf[Def(t)]] = None
               \/ call[t].at = "inject" /\ call[t].dep \notin Accepts[Def(t)]
  <2>1. CASE GetNodeDependency(t)
    <3>1. nodeDependencies[TypeOf[Def(t)]] \in Deps \cup {None}
      BY <1>1 DEF IType
    <3>2. PICK dep \in Deps \cup {None} : dep = nodeDependencies[TypeOf[Def(t)]]
      BY <3>1
    <3>3. Moves(t, IF dep = None THEN "finish" ELSE "inject", call[t].obj, dep,
                (dep = None))
      BY <2>1, <3>2, LookupMoves DEF GetNodeDependency
    <3>4. CASE dep = None
      BY <3>2, <3>3, <3>4
    <3>5. CASE dep # None
      BY <3>2, <3>3, <3>5
    <3> QED BY <3>4, <3>5
  <2>2. CASE WrongType(t)
    <3>1. call[t].dep \in Deps \cup {None}
      BY CallTypes DEF CallRecord
    <3> QED BY <2>2, <3>1, WrongTypeMoves DEF WrongType, At
  <2> QED BY <2>1, <2>2
<1>6. CallInv' /\ \A u \in Threads : Def(u)' = Def(u) /\ call'[u].n = call[u].n
  BY <1>0, <1>4, <1>5, MovedCallInv DEF InjectInv, InStart
<1>7. KeptInv'
  BY <1>0, <1>4, <1>5, <1>6 DEF InjectInv, KeptInv, Moves, InStart, InResolve, def
<1>8. StillRegistered'
  BY <1>4, <1>5, <1>6 DEF InjectInv, StillRegistered, Moves, InStart
<1>9. \A n \in DOMAIN handle :
        resets = 0 /\ Owed(n) /\ handle[n].def = Def(t) =>
            /\ nodeDependencies[TypeOf[Def(t)]] = handle[n].dep
            /\ handle[n].dep # None /\ handle[n].dep \in Accepts[Def(t)]
  BY <1>1, ConstantsAssumption DEF InjectInv, StillRegistered, Owed
<1>10. InjectedInv'
  <2>1. ASSUME NEW n \in DOMAIN handle, resets = 0, Owed(n), handle[n].def = Def(t)
        PROVE  call'[t].at # "finish"
    BY <1>5, <1>9, <2>1 DEF Moves, InjectInv, StillRegistered
  <2> QED BY <1>4, <1>5, <1>6, <2>1
       DEF InjectInv, InjectedInv, Owed, Injected, Moves, InStart, def
<1>11. GetHasDependency'
  BY <1>4 DEF InjectInv, GetHasDependency
<1> QED BY <1>6, <1>7, <1>8, <1>10, <1>11 DEF InjectInv

\* The dependency goes into the initializer the definition keeps.
LEMMA InjectStepInv ==
    ASSUME OneUserEach, IType, InjectInv, NEW t \in Threads, DependencyInject(t)
    PROVE  InjectInv'
<1>0. call[t].at = "inject" /\ call[t].at \in InStart /\ call[t].dep \in Accepts[Def(t)]
  BY DEF DependencyInject, At, InStart
<1>1. /\ Def(t) \in Defs
      /\ \A u \in Threads \ {t} : call[u].at \in InStart \cup InResolve =>
            Def(u) \in Defs /\ Def(u) # Def(t)
      /\ \A d \in Defs \ {Def(t)} : kept[d] # None => kept[d] # kept[Def(t)]
  BY <1>0, Apart DEF InjectInv
<1>2. /\ call[t].obj = kept[Def(t)] /\ kept[Def(t)] # None
      /\ kept[Def(t)] \in Handles
  BY <1>0, <1>1 DEF InjectInv, KeptInv, InStart, IType
<1>3. client \in [Handles -> (Deps \ {Nil}) \cup {None}]
  BY DEF IType
<1>4. /\ UNCHANGED <<nodeDependencies, resets, initErr, initializer, kept, handle>>
      /\ client' = [client EXCEPT ![kept[Def(t)]] = call[t].dep]
  BY <1>2 DEF DependencyInject, setup
<1>5. Moves(t, "finish", call[t].obj, call[t].dep, call[t].failed)
  BY GotoMoves DEF DependencyInject, InStart
<1>6. CallInv' /\ \A u \in Threads : Def(u)' = Def(u) /\ call'[u].n = call[u].n
  BY <1>0, <1>4, <1>5, MovedCallInv DEF InjectInv, InStart
<1>7. KeptInv'
  BY <1>0, <1>1, <1>4, <1>5, <1>6 DEF InjectInv, KeptInv, Moves, InStart, InResolve
<1>8. StillRegistered'
  BY <1>4, <1>5, <1>6 DEF InjectInv, StillRegistered, Moves, InStart
<1>9. \A d \in Defs :
         Injected(d)' = IF d = Def(t) THEN call[t].dep ELSE Injected(d)
  <2>1. kept \in [Defs -> Handles \cup {None}]
    BY DEF IType
  <2> QED BY <1>1, <1>2, <1>3, <1>4, <2>1 DEF Injected
<1>10. InjectedInv'
  <2>1. ASSUME NEW n \in DOMAIN handle, resets = 0, Owed(n), handle[n].def = Def(t)
        PROVE  call[t].dep = handle[n].dep
    BY <1>0, <1>1, <2>1, ConstantsAssumption DEF InjectInv, StillRegistered, Owed
  <2>2. resets = 0 => ~call[t].failed
    BY <1>0 DEF InjectInv, StillRegistered
  <2> QED BY <1>1, <1>4, <1>5, <1>6, <1>9, <2>1, <2>2, HandleTypes
       DEF InjectInv, InjectedInv, Owed, Moves, InStart, HandleRecord
<1>11. GetHasDependency'
  BY <1>4 DEF InjectInv, GetHasDependency
<1> QED BY <1>6, <1>7, <1>8, <1>10, <1>11 DEF InjectInv

\* A call that ends, with the outcome it leaves in its handle.
LEMMA EndedCallInv ==
    ASSUME OneUserEach, IType, CallInv, KeptInv, NEW t \in Threads, Become(t, Idle),
           call[t].at \in InStart \cup InResolve, NEW out,
           DOMAIN handle' = DOMAIN handle,
           \A m \in DOMAIN handle :
              /\ handle'[m].def = handle[m].def
              /\ handle'[m].out = IF m = call[t].n THEN out ELSE handle[m].out,
           UNCHANGED <<initializer, kept>>
    PROVE  /\ CallInv' /\ KeptInv'
           /\ call'[t].at = "idle"
           /\ \A u \in Threads \ {t} : call'[u] = call[u]
           /\ \A u \in Threads \ {t} : call[u].at \in InStart \cup InResolve =>
                Def(u) \in Defs /\ Def(u)' = Def(u) /\ Def(u) # Def(t)
<1>1. /\ call'[t].at = "idle"
      /\ \A u \in Threads \ {t} : call'[u] = call[u]
  BY IdleMoves
<1>2. \A u \in Threads \ {t} : call[u].at \in InStart \cup InResolve =>
        /\ Def(u) \in Defs /\ Def(u) # Def(t) /\ call[u].n # call[t].n
        /\ call[u].n \in DOMAIN handle
  BY Apart, DefTypes
<1>3. \A u \in Threads \ {t} : call[u].at \in InStart \cup InResolve =>
        Def(u)' = Def(u) /\ handle'[call'[u].n].out = handle[call[u].n].out
  BY <1>1, <1>2 DEF Def
<1>4. CallInv'
  BY <1>1, <1>3 DEF CallInv, InStart, InResolve
<1>5. KeptInv'
  BY <1>1, <1>2, <1>3 DEF KeptInv, InStart
<1> QED BY <1>1, <1>2, <1>3, <1>4, <1>5

\* Start ends: with a panic, which no handle that is owed its dependency meets,
\* or with the outcome the initialization had.
LEMMA StartEndsInv ==
    ASSUME OneUserEach, IType, InjectInv, NEW t \in Threads,
           StartPanics(t) \/ StartReturns(t)
    PROVE  InjectInv'
<1>0. /\ call[t].at \in {"inject", "finish"} /\ call[t].at \in InStart
      /\ Become(t, Idle)
      /\ UNCHANGED <<nodeDependencies, resets, initializer, kept, client>>
  BY DEF StartPanics, StartReturns, At, InStart, setup, def
<1>1. call[t].n \in DOMAIN handle /\ Def(t) \in Defs /\ handle \in Seq(HandleRecord)
      /\ initErr \in [Defs -> BOOLEAN] /\ call[t].failed \in BOOLEAN
  BY <1>0, DefTypes, CallTypes DEF IType, CallRecord
<1>2. PICK out \in {"panic", "started"} :
         /\ DOMAIN handle' = DOMAIN handle
         /\ \A m \in DOMAIN handle :
              /\ handle'[m].def = handle[m].def /\ handle'[m].dep = handle[m].dep
              /\ handle'[m].out = IF m = call[t].n THEN out ELSE handle[m].out
         /\ \/ /\ out = "panic" /\ call[t].at = "inject" /\ call[t].dep = Nil
               /\ initErr' = initErr
            \/ /\ out = "started" /\ call[t].at = "finish"
               /\ initErr' = [initErr EXCEPT ![Def(t)] = call[t].failed]
  <2>1. CASE StartPanics(t)
    <3>1. "panic" \in Outcomes
      BY DEF Outcomes
    <3>2. handle' = [handle EXCEPT ![call[t].n].out = "panic"]
      BY <2>1 DEF StartPanics
    <3>3. /\ DOMAIN handle' = DOMAIN handle
          /\ \A m \in DOMAIN handle :
               /\ handle'[m].def = handle[m].def /\ handle'[m].dep = handle[m].dep
               /\ handle'[m].out = IF m = call[t].n THEN "panic" ELSE handle[m].out
      BY <1>1, <3>1, <3>2, OutSet
    <3> QED BY <2>1, <3>3 DEF StartPanics, At, def
  <2>2. CASE StartReturns(t)
    <3>1. handle' = [handle EXCEPT ![call[t].n] =
                        Started(handle[call[t].n], call[t].failed)]
      BY <2>2 DEF StartReturns
    <3>2. /\ DOMAIN handle' = DOMAIN handle
          /\ \A m \in DOMAIN handle :
               /\ handle'[m].def = handle[m].def /\ handle'[m].dep = handle[m].dep
               /\ handle'[m].out = IF m = call[t].n THEN "started" ELSE handle[m].out
      BY <1>1, <3>1, StartedSet
    <3> QED BY <2>2, <3>2 DEF StartReturns, At
  <2> QED BY <2>1, <2>2
<1>3. /\ CallInv' /\ KeptInv'
      /\ call'[t].at = "idle"
      /\ \A u \in Threads \ {t} : call'[u] = call[u]
      /\ \A u \in Threads \ {t} : call[u].at \in InStart \cup InResolve =>
           Def(u) \in Defs /\ Def(u)' = Def(u) /\ Def(u) # Def(t)
  BY <1>0, <1>2, EndedCallInv DEF InjectInv
<1>4. StillRegistered'
  BY <1>0, <1>2, <1>3 DEF InjectInv, StillRegistered, InStart
<1>5. \A d \in Defs : Injected(d)' = Injected(d)
  BY <1>0 DEF Injected
<1>6. \A n \in DOMAIN handle : handle[n].def \in Defs
  BY HandleTypes DEF HandleRecord
<1>7. handle[call[t].n].def = Def(t)
  BY DEF Def
<1>8. ASSUME resets = 0, call[t].at = "inject", call[t].dep = Nil, NEW n \in DOMAIN handle,
             handle[n].def = Def(t)
      PROVE  ~Owed(n)
  BY <1>1, <1>8, ConstantsAssumption DEF InjectInv, StillRegistered, Owed
<1>9. InjectedInv'
  <2> SUFFICES ASSUME resets = 0, NEW n \in DOMAIN handle, Owed(n)
               PROVE  /\ handle'[n].out \in {"started", "resolving"} =>
                            /\ ~initErr'[handle[n].def]
                            /\ Injected(handle[n].def) = handle[n].dep
                      /\ \A u \in Threads :
                            call'[u].at = "finish" /\ Def(u)' = handle[n].def =>
                                ~call'[u].failed
                                /\ Injected(handle[n].def) = handle[n].dep
    BY <1>0, <1>2, <1>5, <1>6 DEF InjectedInv, Owed
  <2>1. CASE handle[n].def # Def(t)
    <3>1. initErr'[handle[n].def] = initErr[handle[n].def]
      BY <1>1, <1>2, <1>6, <2>1
    <3> QED BY <1>2, <1>3, <1>7, <2>1, <3>1 DEF InjectInv, InjectedInv, InStart
  <2>2. CASE handle[n].def = Def(t)
    <3>1. call[t].at = "finish" /\ initErr' = [initErr EXCEPT ![Def(t)] = call[t].failed]
      BY <1>2, <1>8, <2>2
    <3>2. ~call[t].failed /\ Injected(Def(t)) = handle[n].dep
      BY <2>2, <3>1 DEF InjectInv, InjectedInv
    <3> QED BY <1>1, <1>3, <2>2, <3>1, <3>2 DEF InStart
  <2> QED BY <2>1, <2>2
<1>10. GetHasDependency'
  BY <1>0, <1>2, <1>7, <1>8 DEF InjectInv, GetHasDependency, Owed
<1> QED BY <1>3, <1>4, <1>9, <1>10 DEF InjectInv

\* A started handle is resolved.
LEMMA ResolveInv ==
    ASSUME OneUserEach, IType, InjectInv, NEW t \in Threads, NEW n \in Handles,
           Resolve(t, n)
    PROVE  InjectInv'
<1>0. /\ call[t].at = "idle" /\ n \in DOMAIN handle
      /\ handle[n].out = "started" /\ t \in Users[handle[n].def]
      /\ handle' = [handle EXCEPT ![n].out = "resolving"]
      /\ UNCHANGED <<nodeDependencies, resets, initErr, initializer, kept, client>>
  BY DEF Resolve, At, setup, def
<1>1. handle \in Seq(HandleRecord) /\ "resolving" \in Outcomes
  BY DEF IType, Outcomes
<1>2. /\ DOMAIN handle' = DOMAIN handle
      /\ \A m \in DOMAIN handle :
           /\ handle'[m].def = handle[m].def /\ handle'[m].dep = handle[m].dep
           /\ handle'[m].out = IF m = n THEN "resolving" ELSE handle[m].out
  BY <1>0, <1>1, OutSet
<1>3. /\ call'[t].at = "create" /\ call'[t].n = n
      /\ \A u \in Threads \ {t} : call'[u] = call[u]
  BY ResolveType
<1>4. \A u \in Threads \ {t} : call[u].at \in InStart \cup InResolve =>
         call[u].n \in DOMAIN handle /\ Def(u)' = Def(u) /\ call[u].n # n
  BY <1>0, <1>2, <1>3, DefTypes DEF InjectInv, CallInv, Def, InStart, InResolve
<1>5. handle[n].def \in Defs
  BY <1>0, HandleTypes DEF HandleRecord
<1>6. Def(t)' = handle[n].def
  BY <1>0, <1>2, <1>3 DEF Def
<1>7. CallInv' /\ KeptInv' /\ StillRegistered'
  BY <1>0, <1>2, <1>3, <1>4, <1>6
     DEF InjectInv, CallInv, KeptInv, StillRegistered, InStart, InResolve
<1>8. InjectedInv'
  BY <1>0, <1>2, <1>3, <1>4
     DEF InjectInv, InjectedInv, Owed, Injected, InStart
<1>9. GetHasDependency'
  BY <1>0, <1>2 DEF InjectInv, GetHasDependency
<1> QED BY <1>7, <1>8, <1>9 DEF InjectInv

\* A resolution finds no error and the client: the handle is owed one.
LEMMA ResolvingInv ==
    ASSUME OneUserEach, IType, InjectInv, NEW t \in Threads, Resolving(t)
    PROVE  InjectInv'
<1>0. /\ call[t].at \in InResolve
      /\ UNCHANGED <<nodeDependencies, resets, initErr, initializer, kept, client>>
  BY DEF Resolving, CreateExecution, GetChecks, GetUses, At, InResolve, setup, def
<1>1. /\ call[t].n \in DOMAIN handle /\ Def(t) \in Defs
      /\ handle \in Seq(HandleRecord) /\ handle[call[t].n].def = Def(t)
      /\ handle[call[t].n].out = "resolving"
  BY <1>0, DefTypes DEF IType, InjectInv, CallInv, Def
<1>2. resets = 0 /\ Owed(call[t].n) =>
         /\ ~initErr[Def(t)] /\ Injected(Def(t)) = handle[call[t].n].dep
         /\ handle[call[t].n].dep # None
  BY <1>1, ConstantsAssumption DEF InjectInv, InjectedInv, Owed
<1>3. Injected(Def(t)) \in (Deps \ {Nil}) \cup {None}
  BY <1>1, InjectedType
<1>4. \/ \E out \in Outcomes :
           /\ Ends(t, out)
           /\ resets = 0 /\ Owed(call[t].n) => out = handle[call[t].n].dep
      \/ \E at \in InResolve : Goto(t, at) /\ UNCHANGED handle
  <2>1. CASE CreateExecution(t)
    BY <1>2, <2>1 DEF CreateExecution, Outcomes, InResolve
  <2>2. CASE GetChecks(t)
    BY <1>2, <2>2 DEF GetChecks, Outcomes, InResolve
  <2>3. CASE GetUses(t)
    <3> DEFINE out == IF Injected(Def(t)) = None THEN "panic" ELSE Injected(Def(t))
    <3>1. out \in Outcomes
      BY <1>3 DEF Outcomes
    <3>2. Ends(t, out)
      BY <2>3 DEF GetUses
    <3>3. resets = 0 /\ Owed(call[t].n) => out = handle[call[t].n].dep
      BY <1>2
    <3> HIDE DEF out
    <3> QED BY <3>1, <3>2, <3>3
  <2> QED BY <2>1, <2>2, <2>3 DEF Resolving
<1>5. ASSUME NEW out \in Outcomes, Ends(t, out),
             resets = 0 /\ Owed(call[t].n) => out = handle[call[t].n].dep
      PROVE  InjectInv'
  <2>1. Become(t, Idle) /\ handle' = [handle EXCEPT ![call[t].n].out = out]
    BY <1>5 DEF Ends
  <2>2. /\ DOMAIN handle' = DOMAIN handle
        /\ \A m \in DOMAIN handle :
             /\ handle'[m].def = handle[m].def /\ handle'[m].dep = handle[m].dep
             /\ handle'[m].out = IF m = call[t].n THEN out ELSE handle[m].out
    BY <1>1, <2>1, OutSet
  <2>3. /\ CallInv' /\ KeptInv'
        /\ call'[t].at = "idle"
        /\ \A u \in Threads \ {t} : call'[u] = call[u]
        /\ \A u \in Threads \ {t} : call[u].at \in InStart \cup InResolve =>
             Def(u) \in Defs /\ Def(u)' = Def(u) /\ Def(u) # Def(t)
    BY <1>0, <2>1, <2>2, EndedCallInv DEF InjectInv
  <2>4. StillRegistered'
    BY <1>0, <2>2, <2>3 DEF InjectInv, StillRegistered, InStart
  <2>5. \A n \in DOMAIN handle : Owed(n)' = Owed(n)
    BY <2>2 DEF Owed
  <2>6. InjectedInv'
    <3>1. ASSUME resets = 0, NEW n \in DOMAIN handle, Owed(n),
                 handle'[n].out \in {"started", "resolving"}
          PROVE  ~initErr[handle[n].def] /\ Injected(handle[n].def) = handle[n].dep
      BY <1>1, <1>2, <1>5, <2>2, <3>1 DEF InjectInv, InjectedInv
    <3> QED BY <1>0, <2>2, <2>3, <2>5, <3>1
         DEF InjectInv, InjectedInv, Injected, InStart
  <2>7. GetHasDependency'
    BY <1>0, <1>5, <2>2, <2>5 DEF InjectInv, GetHasDependency, Owed
  <2> QED BY <2>3, <2>4, <2>6, <2>7 DEF InjectInv
<1>6. ASSUME NEW at \in InResolve, Goto(t, at), UNCHANGED handle PROVE InjectInv'
  <2>1. Moves(t, at, call[t].obj, call[t].dep, call[t].failed)
    BY <1>6, GotoMoves
  <2>2. CallInv' /\ \A u \in Threads : Def(u)' = Def(u) /\ call'[u].n = call[u].n
    BY <1>0, <1>6, <2>1, MovedCallInv DEF InjectInv
  <2>3. KeptInv' /\ StillRegistered' /\ InjectedInv'
    BY <1>0, <1>6, <2>1, <2>2
       DEF InjectInv, KeptInv, StillRegistered, InjectedInv, Owed, Injected, Moves,
           InStart, InResolve
  <2>4. GetHasDependency'
    BY <1>0, <1>6 DEF InjectInv, GetHasDependency
  <2> QED BY <2>2, <2>3, <2>4 DEF InjectInv
<1> QED BY <1>4, <1>5, <1>6

\* What the framework owes a resolver, where the code keeps it: when no two
\* goroutines start or resolve one definition, a handle whose Start found a
\* dependency of the right type calls it, whatever else is registered, started
\* and resolved in between. (Definitions that goroutines share do not have it.)
THEOREM DependencyReachesGet == OneUserEach => (Spec => []GetHasDependency)
<1> SUFFICES ASSUME OneUserEach PROVE Spec => []GetHasDependency
  OBVIOUS
<1>1. IType /\ InjectInv /\ [Next]_vars => InjectInv'
  <2> SUFFICES ASSUME IType, InjectInv, [Next]_vars PROVE InjectInv'
    OBVIOUS
  <2>1. CASE UNCHANGED vars
    BY <2>1 DEF vars, setup, def, InjectInv, CallInv, KeptInv, StillRegistered,
                InjectedInv, GetHasDependency, Owed, Injected, Def
  <2>2. ASSUME NEW t \in Threads, Starting(t) PROVE InjectInv'
    BY <2>2, InitializerInv, ThroughDefinitionInv, LookupInv, InjectStepInv,
       StartEndsInv DEF Starting
  <2>3. CASE Next
    BY <2>3, <2>2, SetupInjectInv, StartInjectInv, ResolveInv, ResolvingInv DEF Next
  <2> QED BY <2>1, <2>3
<1>2. InjectInv => GetHasDependency
  BY DEF InjectInv
<1> QED BY <1>1, <1>2, InitInjectInv, ITypeInvariant, PTL DEF Spec

==============================================================================
