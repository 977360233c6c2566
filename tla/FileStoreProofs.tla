--------------------------- MODULE FileStoreProofs ---------------------------
(***************************************************************************)
(* Theorems of FileStore for every set of goroutines and graphs, whatever  *)
(* they ask of the store and whatever fails.                               *)
(***************************************************************************)
EXTENDS FileStore, MapTheorems, FiniteSetTheorems, TLAPS

------------------------------------------------------------------------------
(* Types.                                                                    *)

All == UNION {Requests[c] : c \in Clients}

Outside  == {"idle", "start", "done"}
External == {"lockExternal", "waitExternal", "lockedExternal"}
Places   == Outside \cup External \cup {"lock", "wait", "locked", "loaded", "checkActive"}
Writers  == {"AddNode", "UpdateNode", "SetContent"}
Replies  == [err : Errors, val : Values]
Nodess   == MapsOf(Paths, NodeRecord)

\* Request r, with the graph g it works on and the nodes m it loaded, may be at place a.
Suits(r, a, g, m) ==
    /\ r.op # "ListGraphs"
    /\ r.op \notin ContentOps => g = r.g
    /\ a \in External => r.op = "SetContent" /\ ~Embedded(r)
    /\ r.op = "SetContent" => Kept(r.content) # None
    /\ a = "loaded" => r.op \in Writers /\ (r.op # "AddNode" => r.p \in DOMAIN m)
    /\ a = "checkActive" => r.op \in ContentOps
    /\ r.op = "StoreContent" /\ a # "checkActive" => r.content \notin Unmarshallable

\* What a call is doing, and for which request.
CallOK(c, r, a, g, m, rep) ==
    /\ r # None => r \in Requests[c]
    /\ a = "idle" <=> r = None
    /\ a \in Outside <=> g = None
    /\ a = "loaded" <=> m # None
    /\ a = "done" <=> rep # None
    /\ a \notin Outside => Suits(r, a, g, m)

CallsType ==
    /\ mode \in Modes
    /\ call \in [Clients -> All \cup {None}]
    /\ at \in [Clients -> Places]
    /\ target \in [Clients -> Graphs \cup {None}]
    /\ lock \in [Clients -> Nat]
    /\ loaded \in [Clients -> Nodess \cup {None}]
    /\ reply \in [Clients -> Replies \cup {None}]
    /\ \A c \in Clients : CallOK(c, call[c], at[c], target[c], loaded[c], reply[c])

\* Directories, files and the maps.
StorageType ==
    /\ disk \in MapsOf(Graphs, Nodess \cup {None})
    /\ DOMAIN disk \subseteq dirs /\ dirs \subseteq Graphs
    /\ files \subseteq dirs \X (Contents \ Unmarshallable)
    /\ torn \subseteq files
    /\ deleted \subseteq Graphs \X Contents

MapsType ==
    /\ known \subseteq Graphs
    /\ lockOf \in [Graphs -> Nat]
    /\ activeGraph \in Graphs \cup {None}

FType == CallsType /\ StorageType /\ MapsType

LEMMA Requested ==
    ASSUME NEW r \in All
    PROVE  /\ r.op \in GraphOps \cup NodeOps \cup ContentOps
           /\ r.op \in GraphOps \cup NodeOps => r.g \in Graphs
           /\ r.op \in NodeOps \ {"ListNodes"} => r.p \in Paths
           /\ r.op \in {"AddNode", "UpdateNode"} => r.data \in Data
           /\ r.op = "UpdateNode" => r.merge \in BOOLEAN
           /\ r.op \in {"SetContent", "ReadContent"} => r.side \in Sides
           /\ r.op = "SetContent" => r.force \in BOOLEAN
           /\ r.op \in {"SetContent"} \cup ContentOps => r.content \in Contents
           /\ r # None
BY RequestsAssumption, NoneAssumption DEF All, GraphOps, NodeOps, ContentOps

LEMMA KeptType ==
    ASSUME NEW v \in Contents, Kept(v) # None
    PROVE  Kept(v) \in Contents \ Unmarshallable
BY PlaceholderAssumption DEF Kept, Contents

LEMMA NoneIsNothing ==
    /\ None \notin Contents /\ None \notin Graphs /\ None \notin Holdings
    /\ None \notin Nodess /\ None \notin Replies
BY NoneAssumption DEF Nodess, Replies

------------------------------------------------------------------------------
(* Steps of calls.                                                           *)

\* Client c goes on with request r, place a, graph g, lock k, nodes m and reply rep;
\* the others stay where they are.
Turns(c, r, a, g, k, m, rep) ==
    /\ call' = [call EXCEPT ![c] = r] /\ at' = [at EXCEPT ![c] = a]
    /\ target' = [target EXCEPT ![c] = g] /\ lock' = [lock EXCEPT ![c] = k]
    /\ loaded' = [loaded EXCEPT ![c] = m] /\ reply' = [reply EXCEPT ![c] = rep]

LEMMA TurnsFacts ==
    ASSUME CallsType, NEW c \in Clients, NEW r, NEW a, NEW g, NEW k, NEW m, NEW rep,
           Turns(c, r, a, g, k, m, rep)
    PROVE  /\ call'[c] = r /\ at'[c] = a /\ target'[c] = g /\ lock'[c] = k
           /\ loaded'[c] = m /\ reply'[c] = rep
           /\ \A d \in Clients \ {c} :
                 /\ call'[d] = call[d] /\ at'[d] = at[d] /\ target'[d] = target[d]
                 /\ lock'[d] = lock[d] /\ loaded'[d] = loaded[d] /\ reply'[d] = reply[d]
BY DEF CallsType, Turns

LEMMA GotoTurns ==
    ASSUME CallsType, NEW c \in Clients, NEW a, Goto(c, a)
    PROVE  Turns(c, call[c], a, target[c], lock[c], loaded[c], reply[c])
BY DEF CallsType, Goto, Turns

LEMMA GotoOnTurns ==
    ASSUME CallsType, NEW c \in Clients, NEW a, NEW g, GotoOn(c, a, g)
    PROVE  Turns(c, call[c], a, g, lock[c], loaded[c], reply[c])
BY DEF CallsType, GotoOn, Turns

LEMMA FinishTurns ==
    ASSUME CallsType, NEW c \in Clients, NEW err, NEW val, Finish(c, err, val)
    PROVE  Turns(c, call[c], "done", None, 0, None, [err |-> err, val |-> val])
BY DEF CallsType, Finish, Turns

LEMMA TurnsType ==
    ASSUME CallsType, mode' = mode, NEW c \in Clients,
           NEW r \in All \cup {None}, NEW a \in Places, NEW g \in Graphs \cup {None},
           NEW k \in Nat, NEW m \in Nodess \cup {None}, NEW rep \in Replies \cup {None},
           Turns(c, r, a, g, k, m, rep), CallOK(c, r, a, g, m, rep)
    PROVE  CallsType'
<1>1. /\ mode' \in Modes
      /\ call' \in [Clients -> All \cup {None}]
      /\ at' \in [Clients -> Places]
      /\ target' \in [Clients -> Graphs \cup {None}]
      /\ lock' \in [Clients -> Nat]
      /\ loaded' \in [Clients -> Nodess \cup {None}]
      /\ reply' \in [Clients -> Replies \cup {None}]
  BY DEF CallsType, Turns
<1>2. ASSUME NEW d \in Clients
      PROVE  CallOK(d, call[d], at[d], target[d], loaded[d], reply[d])'
  <2>1. CASE d = c
    BY <2>1, TurnsFacts DEF CallOK, Suits, Kept, Embedded
  <2>2. CASE d # c
    <3>1. /\ call'[d] = call[d] /\ at'[d] = at[d] /\ target'[d] = target[d]
          /\ loaded'[d] = loaded[d] /\ reply'[d] = reply[d]
      BY <2>2, TurnsFacts
    <3>2. CallOK(d, call[d], at[d], target[d], loaded[d], reply[d])
      BY DEF CallsType
    <3> QED
      BY <3>1, <3>2 DEF CallOK, Suits, Kept, Embedded
  <2> QED
    BY <2>1, <2>2
<1> QED
  BY <1>1, <1>2 DEF CallsType

LEMMA Working ==
    ASSUME CallsType, NEW c \in Clients
    PROVE  /\ CallOK(c, call[c], at[c], target[c], loaded[c], reply[c])
           /\ at[c] \in Places /\ target[c] \in Graphs \cup {None} /\ lock[c] \in Nat
           /\ loaded[c] \in Nodess \cup {None} /\ reply[c] \in Replies \cup {None}
           /\ call[c] \in All \cup {None}
           /\ at[c] # "idle" => call[c] \in All /\ call[c] \in Requests[c] /\ call[c] # None
           /\ at[c] \notin Outside => /\ target[c] \in Graphs
                                      /\ Suits(call[c], at[c], target[c], loaded[c])
           /\ at[c] = "loaded" => loaded[c] \in Nodess
BY DEF CallsType, CallOK, All, Outside

LEMMA FinishType ==
    ASSUME CallsType, mode' = mode, NEW c \in Clients, at[c] # "idle",
           NEW err \in Errors, NEW val \in Values, Finish(c, err, val)
    PROVE  CallsType'
<1>1. PICK rep : rep = [err |-> err, val |-> val]
  OBVIOUS
<1>2. rep \in Replies /\ rep # None
  BY <1>1, NoneIsNothing DEF Replies
<1>3. Turns(c, call[c], "done", None, 0, None, rep)
  BY <1>1, FinishTurns
<1>4. CallOK(c, call[c], "done", None, None, rep)
  BY <1>2, Working DEF CallOK, Outside
<1> QED
  BY <1>2, <1>3, <1>4, Working, TurnsType DEF Places, Outside

LEMMA SucceedType ==
    ASSUME CallsType, mode' = mode, NEW c \in Clients, at[c] # "idle",
           NEW val \in Values, Succeed(c, val)
    PROVE  CallsType'
BY FinishType DEF Succeed, Errors

LEMMA FailType ==
    ASSUME CallsType, mode' = mode, NEW c \in Clients, at[c] # "idle",
           NEW err \in Errors, FailWith(c, err)
    PROVE  CallsType'
BY FinishType DEF FailWith, Values

LEMMA GotoType ==
    ASSUME CallsType, mode' = mode, NEW c \in Clients,
           at[c] \notin Outside \cup {"loaded"}, NEW a \in Places \ (Outside \cup {"loaded"}),
           Goto(c, a), Suits(call[c], a, target[c], loaded[c])
    PROVE  CallsType'
<1>1. Turns(c, call[c], a, target[c], lock[c], loaded[c], reply[c])
  BY GotoTurns
<1>2. CallOK(c, call[c], a, target[c], loaded[c], reply[c])
  BY Working DEF CallOK, Outside
<1> QED
  BY <1>1, <1>2, Working, TurnsType DEF Outside

LEMMA GotoOnType ==
    ASSUME CallsType, mode' = mode, NEW c \in Clients, at[c] = "start",
           NEW a \in Places \ (Outside \cup {"loaded"}), NEW g \in Graphs,
           GotoOn(c, a, g), Suits(call[c], a, g, loaded[c])
    PROVE  CallsType'
<1>1. Turns(c, call[c], a, g, lock[c], loaded[c], reply[c])
  BY GotoOnTurns
<1>2. CallOK(c, call[c], a, g, loaded[c], reply[c])
  BY Working, NoneIsNothing DEF CallOK, Outside
<1> QED
  BY <1>1, <1>2, Working, TurnsType DEF Outside

------------------------------------------------------------------------------
(* Each step, as what it makes of the calls and of the data.                 *)

LEMMA InvokeType ==
    ASSUME CallsType, NEW c \in Clients, Invoke(c)
    PROVE  CallsType' /\ UNCHANGED <<storage, maps>>
<1>1. PICK r \in Requests[c] : call' = [call EXCEPT ![c] = r]
  BY DEF Invoke
<1>2. r \in All /\ r # None
  BY Requested DEF All
<1>3. at[c] = "idle"
  BY Working DEF Invoke, CallOK
<1>4. Turns(c, r, "start", target[c], lock[c], loaded[c], reply[c])
  BY <1>1 DEF Invoke, Turns, CallsType
<1>5. CallOK(c, r, "start", target[c], loaded[c], reply[c])
  BY <1>2, <1>3, Working DEF CallOK, Outside
<1> QED
  BY <1>2, <1>4, <1>5, Working, TurnsType DEF Places, Outside, Invoke

LEMMA ReturnType ==
    ASSUME CallsType, NEW c \in Clients, Return(c)
    PROVE  CallsType' /\ UNCHANGED <<storage, maps>>
<1>1. Turns(c, None, "idle", target[c], lock[c], loaded[c], None)
  BY DEF Return, Turns, CallsType
<1>2. CallOK(c, None, "idle", target[c], loaded[c], None)
  BY Working DEF CallOK, Outside, Return
<1> QED
  BY <1>1, <1>2, Working, TurnsType DEF Places, Outside, Return

LEMMA FetchLockType ==
    ASSUME CallsType, MapsType, NEW c \in Clients, FetchLock(c)
    PROVE  CallsType' /\ UNCHANGED <<storage, maps>>
<1>1. PICK a \in {"wait", "waitExternal"} :
         /\ a = IF at[c] = "lock" THEN "wait" ELSE "waitExternal"
         /\ at' = [at EXCEPT ![c] = a]
  BY DEF FetchLock
<1>2. lockOf[target[c]] \in Nat /\ at[c] \notin Outside
  BY Working DEF MapsType, FetchLock, Outside
<1>3. Turns(c, call[c], a, target[c], lockOf[target[c]], loaded[c], reply[c])
  BY <1>1 DEF FetchLock, Turns, CallsType
<1>4. CallOK(c, call[c], a, target[c], loaded[c], reply[c])
  BY <1>1, <1>2, Working DEF CallOK, Suits, Outside, External, FetchLock
<1> QED
  BY <1>1, <1>2, <1>3, <1>4, Working, TurnsType DEF Places, Outside, External, FetchLock

LEMMA AcquireType ==
    ASSUME CallsType, NEW c \in Clients, Acquire(c)
    PROVE  CallsType' /\ UNCHANGED <<storage, maps>>
<1>1. PICK a \in {"locked", "lockedExternal"} :
         a = (IF at[c] = "wait" THEN "locked" ELSE "lockedExternal") /\ Goto(c, a)
  BY DEF Acquire
<1>2. at[c] \in {"wait", "waitExternal"}
  BY DEF Acquire
<1>3. Suits(call[c], a, target[c], loaded[c])
  BY <1>1, <1>2, Working DEF Suits, Outside, External
<1> QED
  BY <1>1, <1>2, <1>3, GotoType DEF Places, Outside, External, Acquire

\* A graph.json that was loaded.
LEMMA LoadableFacts ==
    ASSUME CallsType, StorageType, NEW c \in Clients, Loadable(c)
    PROVE  /\ at[c] = "locked" /\ call[c].op \in NodeOps
           /\ target[c] \in known /\ target[c] \in DOMAIN disk
           /\ Nodes(c) \in Nodess /\ Nodes(c) # None
           /\ DOMAIN Nodes(c) \subseteq Paths
           /\ HasNode(c) => call[c].p \in Paths /\ Nodes(c)[call[c].p] \in NodeRecord
<1>1. at[c] = "locked" /\ call[c].op \in NodeOps /\ target[c] \in known \cap DOMAIN disk
      /\ disk[target[c]] # None
  BY DEF Loadable, Available, AtNode
<1>2. Nodes(c) \in Nodess
  BY <1>1, MapType DEF StorageType, Nodes
<1>3. DOMAIN Nodes(c) \subseteq Paths /\ \A p \in DOMAIN Nodes(c) : Nodes(c)[p] \in NodeRecord
  BY <1>2, MapType DEF Nodess
<1> QED
  BY <1>1, <1>2, <1>3 DEF HasNode, Nodes

LEMMA LocalGraphOps ==
    ASSUME CallsType, NEW c \in Clients,
           call[c] # None, call[c].op \in {"CreateGraph", "DeleteGraph"}
    PROVE  /\ call[c].g \in Graphs /\ at[c] # "idle" /\ lock[c] \in Nat
           /\ \A m : \A a \in {"lock", "wait", "locked"} : Suits(call[c], a, call[c].g, m)
<1>1. call[c] \in All /\ at[c] # "idle" /\ lock[c] \in Nat
  BY Working DEF CallOK
<1> QED
  BY <1>1, Requested DEF GraphOps, Suits, ContentOps, External

LEMMA MarkGraphType ==
    ASSUME CallsType, MapsType, NEW c \in Clients, MarkGraph(c)
    PROVE  CallsType' /\ MapsType' /\ UNCHANGED storage
<1> DEFINE g == call[c].g
<1>1. call[c] # None /\ at[c] = "start" /\ g \in Graphs /\ mode' = mode
  BY LocalGraphOps DEF MarkGraph, Doing
<1>2. CASE g \in known
  BY <1>1, <1>2, FailType DEF MarkGraph, Errors, MapsType
<1>3. CASE g \notin known
  <2>1. known' = known \cup {g} /\ GotoOn(c, "lock", g) /\ Suits(call[c], "lock", g, loaded[c])
    BY <1>3, LocalGraphOps DEF MarkGraph, Doing
  <2>2. CallsType'
    BY <1>1, <2>1, GotoOnType DEF Places, Outside
  <2> QED
    BY <1>1, <2>1, <2>2 DEF MarkGraph, MapsType
<1> QED
  BY <1>2, <1>3

LEMMA UnmarkGraphType ==
    ASSUME CallsType, MapsType, NEW c \in Clients, UnmarkGraph(c)
    PROVE  CallsType' /\ MapsType' /\ UNCHANGED storage
<1> DEFINE g == call[c].g
<1>1. call[c] # None /\ at[c] = "start" /\ g \in Graphs /\ mode' = mode
  BY LocalGraphOps DEF UnmarkGraph, Doing
<1>2. CASE g \notin known
  BY <1>1, <1>2, FailType DEF UnmarkGraph, Errors, MapsType
<1>3. CASE g \in known
  <2>1. known' = known \ {g} /\ GotoOn(c, "lock", g) /\ Suits(call[c], "lock", g, loaded[c])
    BY <1>3, LocalGraphOps DEF UnmarkGraph, Doing
  <2>2. CallsType'
    BY <1>1, <2>1, GotoOnType DEF Places, Outside
  <2> QED
    BY <1>1, <2>1, <2>2 DEF UnmarkGraph, MapsType
<1> QED
  BY <1>2, <1>3

\* A graph is put on the disk, whatever the store made of it.
LEMMA DiskType ==
    ASSUME StorageType, NEW g \in dirs', NEW m \in Nodess \cup {None}, disk' = With(disk, g, m),
           dirs \subseteq dirs', dirs' \subseteq Graphs, UNCHANGED <<files, torn, deleted>>
    PROVE  StorageType'
<1>1. disk \in MapsOf(Graphs, Nodess \cup {None}) /\ g \in Graphs
  BY DEF StorageType
<1>2. disk' \in MapsOf(Graphs, Nodess \cup {None}) /\ DOMAIN disk' = (DOMAIN disk) \cup {g}
  BY <1>1, WithIsMap
<1> QED
  BY <1>2 DEF StorageType

LEMMA CreateGraphType ==
    ASSUME FType, NEW c \in Clients, CreateGraph(c)
    PROVE  FType'
<1>1. at[c] = "locked" /\ target[c] \in Graphs /\ mode' = mode
  BY Working DEF FType, CreateGraph, Doing, Outside
<1>2. CallsType'
  BY <1>1, SucceedType DEF FType, CreateGraph, Values
<1>3. << >> \in Nodess
  BY EmptyMap DEF Nodess
<1>4. StorageType'
  BY <1>1, <1>3, DiskType DEF FType, StorageType, CreateGraph
<1>5. MapsType'
  BY <1>1 DEF FType, MapsType, CreateGraph
<1> QED
  BY <1>2, <1>4, <1>5 DEF FType

LEMMA WithoutType ==
    ASSUME StorageType, NEW g, Without(g)
    PROVE  /\ StorageType' /\ DOMAIN disk' = DOMAIN disk \ {g}
           /\ \A x \in DOMAIN disk' : disk'[x] = disk[x]
<1>1. disk' \in MapsOf(Graphs, Nodess \cup {None}) /\ DOMAIN disk' = DOMAIN disk \ {g}
      /\ \A x \in DOMAIN disk' : disk'[x] = disk[x]
  BY RestrictIsMap DEF StorageType, Without
<1>2. files' \subseteq dirs' \X (Contents \ Unmarshallable)
  BY DEF StorageType, Without
<1> QED
  BY <1>1, <1>2 DEF StorageType, Without

\* A removal that fails half way: what it removed counts as deleted.
LEMMA HalfRemovedFacts ==
    ASSUME StorageType, NEW g \in Graphs, NEW disks, HalfRemoved(g, disks),
           disks \subseteq {disk, With(disk, g, None)}
    PROVE  /\ "remove" \in Faults
           /\ disk' \in MapsOf(Graphs, Nodess \cup {None})
           /\ DOMAIN disk' \subseteq (DOMAIN disk) \cup {g}
           /\ \A x \in DOMAIN disk : x # g => x \in DOMAIN disk' /\ disk'[x] = disk[x]
           /\ \A x \in DOMAIN disk' : \/ x \in DOMAIN disk /\ disk'[x] = disk[x]
                                      \/ x = g /\ disk'[x] = None /\ disks # {disk}
           /\ files' \subseteq files /\ torn' \subseteq files' /\ torn' \subseteq torn
           /\ deleted' \subseteq Graphs \X Contents
           /\ \E gone : /\ files' = files \ gone /\ torn' = torn \ gone
                        /\ deleted' = deleted \cup gone
<1>1. disk \in MapsOf(Graphs, Nodess \cup {None})
  BY DEF StorageType
<1>2. PICK gone \in SUBSET {f \in files : f[1] = g} :
         /\ files' = files \ gone /\ torn' = torn \ gone
         /\ deleted' = deleted \cup gone
  BY DEF HalfRemoved
<1>3. /\ files' \subseteq files /\ torn' \subseteq files' /\ torn' \subseteq torn
      /\ deleted' \subseteq Graphs \X Contents
  BY <1>2 DEF StorageType
<1>4. CASE disk' = disk
  BY <1>1, <1>2, <1>3, <1>4 DEF HalfRemoved
<1>5. CASE disk' = Restrict(disk, DOMAIN disk \ {g})
  <2>1. PICK S : S = DOMAIN disk \ {g}
    OBVIOUS
  <2>2. /\ disk' \in MapsOf(Graphs, Nodess \cup {None})
        /\ DOMAIN disk' = S /\ \A x \in S : disk'[x] = disk[x]
    BY <1>1, <1>5, <2>1, RestrictIsMap
  <2> QED
    BY <1>2, <1>3, <2>1, <2>2 DEF HalfRemoved
<1>6. CASE disk' = With(disk, g, None) /\ disks # {disk}
  <2>1. None \in Nodess \cup {None}
    OBVIOUS
  <2>2. /\ disk' \in MapsOf(Graphs, Nodess \cup {None})
        /\ DOMAIN disk' = (DOMAIN disk) \cup {g}
    BY <1>1, <1>6, <2>1, WithIsMap
  <2>3. \A x \in DOMAIN disk' : disk'[x] = IF x = g THEN None ELSE disk[x]
    BY <1>6 DEF With
  <2> QED
    BY <1>2, <1>3, <1>6, <2>2, <2>3 DEF HalfRemoved
<1> QED
  BY <1>4, <1>5, <1>6 DEF HalfRemoved

\* A creation that fails: nothing happened, all is removed, or something is left.
LEMMA CreationFailsFacts ==
    ASSUME CallsType, NEW c \in Clients, CreationFails(c)
    PROVE  /\ at[c] = "locked" /\ call[c] # None /\ call[c].op = "CreateGraph"
           /\ target[c] \in Graphs /\ mode' = mode /\ FailWith(c, "io")
           /\ UNCHANGED <<lockOf, activeGraph>> /\ Faults # {}
           /\ \/ UNCHANGED storage
              \/ Without(target[c])
              \/ /\ dirs' = dirs \cup {target[c]}
                 /\ \E disks : /\ HalfRemoved(target[c], disks)
                               /\ disks \subseteq {disk, With(disk, target[c], None)}
                               /\ "tornGraph" \notin Faults => disks = {disk}
<1>1. /\ at[c] = "locked" /\ call[c] # None /\ call[c].op = "CreateGraph"
      /\ mode' = mode /\ FailWith(c, "io") /\ UNCHANGED <<lockOf, activeGraph>> /\ Faults # {}
  BY DEF CreationFails, Doing
<1>2. target[c] \in Graphs
  BY <1>1, Working DEF Outside
<1>3. PICK disks : disks = {disk} \cup IF "tornGraph" \in Faults
                                       THEN {With(disk, target[c], None)} ELSE {}
  OBVIOUS
<1>4. /\ disks \subseteq {disk, With(disk, target[c], None)}
      /\ "tornGraph" \notin Faults => disks = {disk}
  BY <1>3
<1> QED
  BY <1>1, <1>2, <1>3, <1>4 DEF CreationFails

LEMMA CreateFailsType ==
    ASSUME FType, NEW c \in Clients, CreateFails(c)
    PROVE  FType'
<1>0. CallsType /\ StorageType /\ CreationFails(c) /\ known' = known \ {target[c]}
  BY DEF FType, CreateFails
<1>1. at[c] = "locked" /\ mode' = mode /\ target[c] \in Graphs /\ FailWith(c, "io")
  BY <1>0, CreationFailsFacts
<1>2. CallsType'
  BY <1>0, <1>1, FailType DEF Errors
<1>3. StorageType'
  <2>1. CASE UNCHANGED storage
    BY <1>0, <2>1 DEF StorageType, storage
  <2>2. CASE Without(target[c])
    BY <1>0, <2>2, WithoutType
  <2>3. ASSUME NEW disks, HalfRemoved(target[c], disks), dirs' = dirs \cup {target[c]},
               disks \subseteq {disk, With(disk, target[c], None)}
        PROVE  StorageType'
    <3>1. /\ disk' \in MapsOf(Graphs, Nodess \cup {None})
          /\ DOMAIN disk' \subseteq (DOMAIN disk) \cup {target[c]}
          /\ files' \subseteq files /\ torn' \subseteq files' /\ deleted' \subseteq Graphs \X Contents
      BY <1>0, <1>1, <2>3, HalfRemovedFacts
    <3> QED
      BY <1>0, <1>1, <2>3, <3>1 DEF StorageType
  <2> QED
    BY <1>0, <2>1, <2>2, <2>3, CreationFailsFacts
<1>4. MapsType'
  BY <1>0, CreationFailsFacts DEF FType, MapsType
<1> QED
  BY <1>2, <1>3, <1>4 DEF FType

LEMMA ForgetLockType ==
    ASSUME MapsType, NEW g \in Graphs, ForgetLock(g)
    PROVE  /\ lockOf' \in [Graphs -> Nat] /\ lockOf'[g] # 0
           /\ \A x \in Graphs \ {g} : lockOf'[x] = lockOf[x]
BY DEF MapsType, ForgetLock

LEMMA DeleteGraphType ==
    ASSUME FType, NEW c \in Clients, DeleteGraph(c)
    PROVE  FType'
<1>1. at[c] = "locked" /\ mode' = mode /\ target[c] \in Graphs
  BY Working DEF FType, DeleteGraph, Doing, Outside
<1>2. CallsType'
  BY <1>1, SucceedType DEF FType, DeleteGraph, Values
<1>3. StorageType'
  BY WithoutType DEF FType, DeleteGraph
<1>4. activeGraph' \in Graphs \cup {None}
  BY DEF FType, MapsType, DeleteGraph
<1>5. MapsType'
  BY <1>1, <1>4, ForgetLockType DEF FType, MapsType, DeleteGraph
<1> QED
  BY <1>2, <1>3, <1>5 DEF FType

LEMMA DeletionFailsFacts ==
    ASSUME CallsType, StorageType, NEW c \in Clients, DeleteFails(c)
    PROVE  /\ at[c] = "locked" /\ call[c] # None /\ call[c].op = "DeleteGraph"
           /\ target[c] \in Graphs /\ mode' = mode /\ FailWith(c, "io")
           /\ HalfRemoved(target[c], {disk}) /\ ForgetLock(target[c])
           /\ UNCHANGED <<dirs, known, activeGraph>>
<1>1. at[c] = "locked"
  BY DEF DeleteFails, DeletionFails, Doing
<1> QED
  BY <1>1, Working DEF DeleteFails, DeletionFails, Doing, Outside

LEMMA DeleteFailsType ==
    ASSUME FType, NEW c \in Clients, DeleteFails(c)
    PROVE  FType'
<1>0. CallsType /\ StorageType /\ MapsType
  BY DEF FType
<1>1. CallsType'
  BY <1>0, DeletionFailsFacts, FailType DEF Errors
<1>2. StorageType'
  <2>1. /\ disk' \in MapsOf(Graphs, Nodess \cup {None})
        /\ \A x \in DOMAIN disk' : x \in DOMAIN disk
        /\ files' \subseteq files /\ torn' \subseteq files' /\ deleted' \subseteq Graphs \X Contents
    <3>1. PICK disks : disks = {disk}
      OBVIOUS
    <3>2. /\ HalfRemoved(target[c], disks) /\ target[c] \in Graphs
          /\ disks \subseteq {disk, With(disk, target[c], None)}
      BY <1>0, <3>1, DeletionFailsFacts
    <3> QED
      BY <1>0, <3>1, <3>2, HalfRemovedFacts
  <2> QED
    BY <1>0, <2>1, DeletionFailsFacts DEF StorageType
<1>3. MapsType'
  BY <1>0, DeletionFailsFacts, ForgetLockType DEF MapsType
<1> QED
  BY <1>1, <1>2, <1>3 DEF FType

\* A call ends and the data stays.
LEMMA QuietEnd ==
    ASSUME FType, NEW c \in Clients, at[c] # "idle", mode' = mode,
           NEW err \in Errors, NEW val \in Values, Finish(c, err, val),
           UNCHANGED <<storage, maps>>
    PROVE  FType'
<1>1. CallsType'
  BY FinishType DEF FType
<1> QED
  BY <1>1 DEF FType, StorageType, MapsType, storage, maps

LEMMA QuietGo ==
    ASSUME FType, CallsType', UNCHANGED <<storage, maps>>
    PROVE  FType'
BY DEF FType, StorageType, MapsType, storage, maps

LEMMA ListGraphsType ==
    ASSUME FType, NEW c \in Clients, ListGraphs(c)
    PROVE  FType'
<1>1. known \in Values
  BY DEF FType, MapsType, Values
<1> QED
  BY <1>1, QuietEnd DEF ListGraphs, Succeed, Doing, Errors

LEMMA NotKeptType ==
    ASSUME FType, NEW c \in Clients, NotKept(c)
    PROVE  FType'
BY QuietEnd DEF NotKept, Succeed, FailWith, Doing, Errors, Values

LEMMA StartNodeOpType ==
    ASSUME FType, NEW c \in Clients, StartNodeOp(c)
    PROVE  FType'
<1>1. PICK a \in {"lock", "lockExternal"} :
         /\ a = IF call[c].op = "SetContent" /\ ~Embedded(call[c]) THEN "lockExternal"
                ELSE "lock"
         /\ GotoOn(c, a, call[c].g)
  BY DEF StartNodeOp
<1>2. call[c].g \in Graphs /\ call[c].op \notin GraphOps \cup ContentOps
  BY Working, Requested DEF FType, StartNodeOp, NodeOps, GraphOps, ContentOps
<1>3. Suits(call[c], a, call[c].g, loaded[c])
  BY <1>1, <1>2 DEF StartNodeOp, Suits, External, GraphOps, ContentOps
<1>4. CallsType'
  BY <1>1, <1>2, <1>3, GotoOnType DEF FType, StartNodeOp, Places, Outside, External
<1> QED
  BY <1>4, QuietGo DEF StartNodeOp

LEMMA WriteContentType ==
    ASSUME StorageType, NEW g \in Graphs, NEW v \in Contents \ Unmarshallable,
           WriteContent(g, v) \/ WriteContentFails(g, v), UNCHANGED <<disk, deleted>>
    PROVE  StorageType'
BY DEF StorageType, WriteContent, WriteContentFails, HasFile

LEMMA StoreExternalType ==
    ASSUME FType, NEW c \in Clients, StoreExternal(c)
    PROVE  FType'
<1> DEFINE g == target[c]
           v == Kept(call[c].content)
<1>1. at[c] = "lockedExternal" /\ mode' = mode /\ UNCHANGED maps /\ UNCHANGED <<disk, deleted>>
  BY DEF StoreExternal
<1>2. /\ g \in Graphs /\ call[c].op = "SetContent" /\ v # None
      /\ call[c] \in All /\ Suits(call[c], "lock", g, loaded[c])
  BY <1>1, Working DEF FType, Suits, Outside, External
<1>3. v \in Contents \ Unmarshallable
  BY <1>2, Requested, KeptType
<1>4. CASE FailWith(c, "graph") /\ UNCHANGED <<dirs, files, torn>>
  <2>1. CallsType'
    BY <1>1, <1>4, FailType DEF FType, Errors
  <2> QED
    BY <1>1, <1>4, <2>1, QuietGo DEF storage
<1>5. CASE WriteContent(g, v) /\ Goto(c, "lock")
  <2>1. CallsType'
    BY <1>1, <1>2, <1>5, GotoType DEF FType, Places, Outside
  <2> QED
    BY <1>1, <1>2, <1>3, <1>5, <2>1, WriteContentType DEF FType, MapsType, maps
<1>6. CASE WriteContentFails(g, v) /\ FailWith(c, "io")
  <2>1. CallsType'
    BY <1>1, <1>6, FailType DEF FType, Errors
  <2> QED
    BY <1>1, <1>2, <1>3, <1>6, <2>1, WriteContentType DEF FType, MapsType, maps
<1> QED
  BY <1>4, <1>5, <1>6 DEF StoreExternal

LEMMA GraphMissingType ==
    ASSUME FType, NEW c \in Clients, GraphMissing(c)
    PROVE  FType'
<1>1. CallsType'
  BY FailType DEF FType, GraphMissing, AtNode, Errors
<1> QED
  BY <1>1 DEF FType, GraphMissing, StorageType, MapsType, storage

LEMMA GraphTornType ==
    ASSUME FType, NEW c \in Clients, GraphTorn(c)
    PROVE  FType'
BY QuietEnd DEF GraphTorn, Available, AtNode, FailWith, Errors, Values

\* The operations that read.
LEMMA ReadersType ==
    ASSUME FType, NEW c \in Clients,
           ListNodes(c) \/ NodeExists(c) \/ NodeMissing(c) \/ GetNode(c) \/ ReadContent(c)
    PROVE  FType'
<1>1. Loadable(c) /\ UNCHANGED <<mode, storage, maps>>
  BY DEF ListNodes, NodeExists, NodeMissing, GetNode, ReadContent
<1>2. /\ at[c] = "locked" /\ DOMAIN Nodes(c) \subseteq Paths
      /\ HasNode(c) => Nodes(c)[call[c].p] \in NodeRecord
  BY <1>1, LoadableFacts DEF FType
<1>3. CASE ListNodes(c)
  BY <1>1, <1>2, <1>3, QuietEnd DEF ListNodes, Succeed, Values, Errors
<1>4. CASE NodeExists(c) \/ NodeMissing(c)
  BY <1>1, <1>2, <1>4, QuietEnd DEF NodeExists, NodeMissing, FailWith, Values, Errors
<1>5. CASE GetNode(c)
  <2>1. Nodes(c)[call[c].p].data \in Values
    BY <1>2, <1>5 DEF GetNode, NodeRecord, Values
  <2> QED
    BY <1>1, <1>2, <1>5, <2>1, QuietEnd DEF GetNode, Succeed, Errors
<1>6. CASE ReadContent(c)
  <2>1. PICK h : h = Nodes(c)[call[c].p][call[c].side]
    OBVIOUS
  <2>2. call[c].side \in Sides
    BY <1>2, <1>6, Working, Requested DEF FType, ReadContent
  <2>3. h \in Holdings \cup {None}
    BY <1>2, <1>6, <2>1, <2>2 DEF ReadContent, NodeRecord, Sides
  <2>4. h = None \/ h.hash \in Values
    BY <2>3 DEF Holdings, Values
  <2>5. None \in Values
    BY DEF Values
  <2>6. \E err \in Errors, val \in Values : Finish(c, err, val)
    <3>1. CASE h = None
      BY <1>6, <2>1, <2>5, <3>1 DEF ReadContent, Succeed, Errors
    <3>2. CASE h # None
      BY <1>6, <2>1, <2>4, <2>5, <3>2 DEF ReadContent, Fetch, Succeed, FailWith, Errors
    <3> QED
      BY <3>1, <3>2
  <2> QED
    BY <1>1, <1>2, <2>6, QuietEnd
<1> QED
  BY <1>3, <1>4, <1>5, <1>6

LEMMA LoadType ==
    ASSUME FType, NEW c \in Clients, Load(c)
    PROVE  FType'
<1>1. PICK m \in Nodess : m = Nodes(c)
  BY LoadableFacts DEF FType, Load
<1>2. /\ at[c] = "locked" /\ m # None
      /\ call[c].op \in Writers /\ (call[c].op # "AddNode" => call[c].p \in DOMAIN m)
  BY <1>1, LoadableFacts DEF FType, Load, Writers, HasNode
<1>3. Turns(c, call[c], "loaded", target[c], lock[c], m, reply[c])
  BY <1>1 DEF FType, CallsType, Load, Turns
<1>4. CallOK(c, call[c], "loaded", target[c], m, reply[c])
  BY <1>2, Working DEF FType, CallOK, Suits, Outside, External
<1>5. CallsType'
  BY <1>3, <1>4, Working, TurnsType DEF FType, Load, Places
<1> QED
  BY <1>5, QuietGo DEF Load

LEMMA IOFailsType ==
    ASSUME FType, NEW c \in Clients, IOFails(c)
    PROVE  FType'
<1>1. at[c] = "locked"
  BY DEF IOFails, AtNode, Doing
<1> QED
  BY <1>1, QuietEnd DEF IOFails, FailWith, Errors, Values

\* What a writer makes of a node.
LEMMA ChangedType ==
    ASSUME NEW r \in All, NEW m \in Nodess, r.op \in Writers,
           r.op # "AddNode" => r.p \in DOMAIN m,
           r.op = "SetContent" => Kept(r.content) # None
    PROVE  r.p \in Paths /\ Changed(r, m) \in NodeRecord
<1>1. r.p \in Paths
  BY Requested DEF Writers, NodeOps
<1>2. CASE r.op = "AddNode"
  <2>1. r.data \in Data
    BY <1>2, Requested
  <2> QED
    BY <1>1, <1>2, <2>1 DEF Changed, Node, NodeRecord
<1>3. CASE r.op = "UpdateNode"
  <2>1. r.data \in Data /\ m[r.p] \in NodeRecord
    BY <1>3, Requested, MapType DEF Nodess
  <2>2. PICK data : data = IF r.merge THEN Merge(m[r.p].data, r.data) ELSE r.data
    OBVIOUS
  <2>3. m[r.p].data \in Data
    BY <2>1 DEF NodeRecord
  <2>4. data \in Data
    BY <2>1, <2>2, <2>3, MergeIsMap DEF Data
  <2>5. Changed(r, m) = [m[r.p] EXCEPT !.data = data]
    BY <1>3, <2>2 DEF Changed
  <2> QED
    BY <1>1, <2>1, <2>4, <2>5 DEF NodeRecord
<1>4. CASE r.op = "SetContent"
  <2>1. r.side \in Sides /\ r.force \in BOOLEAN /\ r.content \in Contents /\ m[r.p] \in NodeRecord
    BY <1>4, Requested, MapType DEF Nodess
  <2>2. Kept(r.content) \in Contents \ Unmarshallable
    BY <1>4, <2>1, KeptType
  <2>3. PICK h : h = Held(Kept(r.content), Embedded(r))
    OBVIOUS
  <2>4. h \in Holdings
    BY <2>1, <2>2, <2>3 DEF Held, Holdings, Embedded
  <2>5. Changed(r, m) = [m[r.p] EXCEPT ![r.side] = h]
    BY <1>4, <2>3 DEF Changed
  <2> QED
    BY <1>1, <2>1, <2>4, <2>5 DEF NodeRecord, Sides
<1> QED
  BY <1>2, <1>3, <1>4 DEF Writers

\* What a writer is about to save.
LEMMA SavedType ==
    ASSUME CallsType, NEW c \in Clients, at[c] = "loaded"
    PROVE  /\ call[c].p \in Paths /\ Changed(call[c], loaded[c]) \in NodeRecord
           /\ With(loaded[c], call[c].p, Changed(call[c], loaded[c])) \in Nodess
<1>1. /\ call[c] \in All /\ loaded[c] \in Nodess
      /\ Suits(call[c], "loaded", target[c], loaded[c])
  BY Working DEF Outside
<1>2. call[c].p \in Paths /\ Changed(call[c], loaded[c]) \in NodeRecord
  BY <1>1, ChangedType DEF Suits
<1> QED
  BY <1>1, <1>2, WithIsMap DEF Nodess

LEMMA SaveType ==
    ASSUME FType, NEW c \in Clients, Save(c)
    PROVE  FType'
<1>1. at[c] = "loaded" /\ target[c] \in dirs /\ mode' = mode /\ UNCHANGED maps
      /\ UNCHANGED <<dirs, files, torn, deleted>>
  BY DEF Save
<1>2. CallsType'
  <2>1. call[c].op = "SetContent" => Kept(call[c].content) \in Values
    BY <1>1, Working, Requested, KeptType DEF FType, Suits, Outside, Values
  <2> QED
    BY <1>1, <2>1, SucceedType DEF FType, Save, Values
<1>3. StorageType'
  BY <1>1, SavedType, DiskType DEF FType, StorageType, Save
<1> QED
  BY <1>1, <1>2, <1>3 DEF FType, MapsType, maps

LEMMA SaveFailsType ==
    ASSUME FType, NEW c \in Clients, SaveFails(c)
    PROVE  FType'
BY QuietEnd DEF SaveFails, FailWith, Errors, Values

LEMMA FindActiveType ==
    ASSUME FType, NEW c \in Clients, FindActive(c)
    PROVE  FType'
<1>1. CASE activeGraph = None
  BY <1>1, QuietEnd DEF FindActive, FailWith, Errors, Values
<1>2. CASE activeGraph # None
  <2>1. /\ GotoOn(c, "checkActive", activeGraph) /\ at[c] = "start" /\ activeGraph \in Graphs
        /\ call[c].op \in ContentOps
    BY <1>2 DEF FindActive, FType, MapsType
  <2>2. Suits(call[c], "checkActive", activeGraph, loaded[c])
    BY <2>1 DEF Suits, ContentOps, External
  <2>3. CallsType'
    BY <2>1, <2>2, GotoOnType DEF FType, FindActive, Places, Outside
  <2> QED
    BY <2>3, QuietGo DEF FindActive
<1> QED
  BY <1>1, <1>2

LEMMA CheckActiveType ==
    ASSUME FType, NEW c \in Clients, CheckActive(c)
    PROVE  FType'
<1>1. at[c] = "checkActive" /\ Suits(call[c], "checkActive", target[c], loaded[c])
  BY Working DEF FType, CheckActive, Outside
<1>2. CASE \E err \in {"graph", "marshal"} : FailWith(c, err)
  BY <1>1, <1>2, QuietEnd DEF CheckActive, FailWith, Errors, Values
<1>3. CASE /\ Goto(c, "lock")
           /\ call[c].op = "StoreContent" => call[c].content \notin Unmarshallable
  <2>1. Suits(call[c], "lock", target[c], loaded[c])
    BY <1>1, <1>3 DEF Suits, External
  <2>2. CallsType'
    BY <1>1, <1>3, <2>1, GotoType DEF FType, CheckActive, Places, Outside
  <2> QED
    BY <2>2, QuietGo DEF CheckActive
<1> QED
  BY <1>2, <1>3 DEF CheckActive

LEMMA StoreContentType ==
    ASSUME FType, NEW c \in Clients, StoreContent(c)
    PROVE  FType'
<1> DEFINE g == target[c]
           v == call[c].content
<1>1. at[c] = "locked" /\ mode' = mode /\ UNCHANGED maps /\ UNCHANGED <<disk, deleted>>
      /\ call[c].op = "StoreContent"
  BY DEF StoreContent, Doing
<1>2. g \in Graphs /\ call[c] \in All /\ v \notin Unmarshallable
  BY <1>1, Working DEF FType, Outside, Suits
<1>3. v \in Contents
  BY <1>1, <1>2, Requested DEF ContentOps
<1>4. CallsType'
  <2>1. \E err \in Errors, val \in Values : Finish(c, err, val)
    BY <1>3 DEF StoreContent, Succeed, FailWith, Errors, Values
  <2> QED
    BY <1>1, <2>1, FinishType DEF FType
<1> QED
  BY <1>1, <1>2, <1>3, <1>4, WriteContentType DEF FType, StoreContent, MapsType, maps

LEMMA GetContentType ==
    ASSUME FType, NEW c \in Clients, GetContent(c)
    PROVE  FType'
<1>1. at[c] = "locked" /\ call[c].op = "GetContent" /\ call[c] \in All
  BY Working DEF FType, GetContent, Doing
<1>2. call[c].content \in Values /\ None \in Values
  BY <1>1, Requested DEF ContentOps, Values
<1>3. \E err \in Errors, val \in Values : Finish(c, err, val)
  BY <1>2 DEF GetContent, Fetch, Succeed, FailWith, Errors
<1> QED
  BY <1>1, <1>3, QuietEnd DEF GetContent

LEMMA DeleteContentType ==
    ASSUME FType, NEW c \in Clients, DeleteContent(c)
    PROVE  FType'
<1>1. at[c] = "locked" /\ mode' = mode
  BY DEF DeleteContent, Doing
<1>2. CallsType'
  <2>1. \E err \in Errors : Finish(c, err, None)
    BY DEF DeleteContent, Succeed, FailWith, Errors
  <2> QED
    BY <1>1, <2>1, FinishType DEF FType, Values
<1>3. StorageType'
  <2>1. /\ files' \subseteq files /\ torn' \subseteq files' /\ deleted' \subseteq deleted \cup files
        /\ disk' = disk /\ dirs' = dirs
    BY DEF FType, StorageType, DeleteContent
  <2> QED
    BY <2>1 DEF FType, StorageType
<1> QED
  BY <1>2, <1>3 DEF FType, DeleteContent, MapsType, maps

LEMMA RestartType ==
    ASSUME FType, Restart
    PROVE  FType'
<1>1. PICK cut \in SUBSET {c \in Clients : CanTear(c)} :
        LET graphs == {target[c] : c \in {d \in cut : CreatesFile(d)}}
            cutFiles == {<<target[c], Kept(call[c].content)>> :
                            c \in {d \in cut : ContentWrite(d)}} \ files
        IN  /\ disk' = Merge(disk, [g \in graphs |-> None])
            /\ dirs' = dirs \cup {target[c] : c \in cut}
            /\ files' = files \cup cutFiles
            /\ torn' = torn \cup cutFiles
  BY DEF Restart
<1> DEFINE graphs == {target[c] : c \in {d \in cut : CreatesFile(d)}}
           cutFiles == {<<target[c], Kept(call[c].content)>> :
                           c \in {d \in cut : ContentWrite(d)}} \ files
<1>2. \A c \in cut : c \in Clients /\ target[c] \in Graphs
  BY Working DEF FType, CanTear, CreatesFile, ContentWrite, Doing, Outside
<1>3. \A c \in cut : ContentWrite(c) => Kept(call[c].content) \in Contents \ Unmarshallable
  <2> SUFFICES ASSUME NEW c \in cut, ContentWrite(c)
               PROVE  Kept(call[c].content) \in Contents \ Unmarshallable
    OBVIOUS
  <2>1. call[c] \in All /\ Suits(call[c], at[c], target[c], loaded[c])
    BY Working DEF FType, ContentWrite, Doing, Outside
  <2>2. call[c].op \in {"SetContent", "StoreContent"}
    BY <2>1 DEF ContentWrite, Doing, Suits, External
  <2>3. Kept(call[c].content) # None
    BY <2>1, <2>2, Requested, NoneIsNothing DEF ContentWrite, Doing, Suits, External, Kept, ContentOps
  <2> QED
    BY <2>1, <2>2, <2>3, Requested, KeptType DEF ContentOps
<1>4. CallsType'
  BY DEF FType, CallsType, CallOK, Restart, NoCalls, Places, Outside
<1>5. disk' \in MapsOf(Graphs, Nodess \cup {None}) /\ DOMAIN disk' = (DOMAIN disk) \cup graphs
  <2>1. PICK f : f = [g \in graphs |-> None]
    OBVIOUS
  <2>2. f \in MapsOf(Graphs, Nodess \cup {None}) /\ DOMAIN f = graphs
    BY <1>2, <2>1, IsMap
  <2> QED
    BY <1>1, <2>1, <2>2, MergeIsMap DEF FType, StorageType, Merge
<1>6. graphs \subseteq dirs' /\ dirs \subseteq dirs' /\ dirs' \subseteq Graphs
  BY <1>1, <1>2 DEF FType, StorageType
<1>7. cutFiles \subseteq dirs' \X (Contents \ Unmarshallable)
  BY <1>1, <1>2, <1>3
<1>8. files' = files \cup cutFiles /\ torn' = torn \cup cutFiles
  BY <1>1
<1> HIDE DEF graphs, cutFiles
<1>9. StorageType'
  BY <1>5, <1>6, <1>7, <1>8 DEF FType, StorageType, Restart
<1>10. MapsType'
  <2>1. known' \subseteq DOMAIN disk' /\ DOMAIN disk' \subseteq Graphs
    BY <1>5, MapType DEF Restart
  <2> QED
    BY <2>1 DEF Restart, MapsType
<1> QED
  BY <1>4, <1>9, <1>10 DEF FType

\* Every step keeps the types.
LEMMA NextType ==
    ASSUME FType, Next
    PROVE  FType'
<1>1. CASE Restart
  BY <1>1, RestartType
<1>2. ASSUME NEW c \in Clients, Invoke(c) \/ Work(c) \/ Return(c)
      PROVE  FType'
  <2>1. CASE Invoke(c) \/ Return(c) \/ FetchLock(c) \/ Acquire(c)
    <3>1. CallsType' /\ UNCHANGED <<storage, maps>>
      BY <2>1, InvokeType, ReturnType, FetchLockType, AcquireType DEF FType
    <3> QED
      BY <3>1, QuietGo
  <2>5. CASE IOFails(c)
    BY <2>5, IOFailsType
  <2>2. CASE GraphStep(c)
    <3>1. CASE MarkGraph(c) \/ UnmarkGraph(c)
      <4>1. CallsType' /\ MapsType' /\ UNCHANGED storage
        BY <3>1, MarkGraphType, UnmarkGraphType DEF FType
      <4> QED
        BY <4>1 DEF FType, StorageType, storage
    <3>2. CASE CreateGraph(c) \/ CreateFails(c)
      BY <3>2, CreateGraphType, CreateFailsType
    <3>3. CASE DeleteGraph(c) \/ DeleteFails(c)
      BY <3>3, DeleteGraphType, DeleteFailsType
    <3>4. CASE ListGraphs(c)
      BY <3>4, ListGraphsType
    <3> QED
      BY <2>2, <3>1, <3>2, <3>3, <3>4 DEF GraphStep
  <2>3. CASE NodeStep(c)
    <3>1. CASE NotKept(c) \/ StartNodeOp(c) \/ StoreExternal(c)
      BY <3>1, NotKeptType, StartNodeOpType, StoreExternalType
    <3>2. CASE GraphMissing(c) \/ GraphTorn(c)
      BY <3>2, GraphMissingType, GraphTornType
    <3>3. CASE ListNodes(c) \/ NodeExists(c) \/ NodeMissing(c) \/ GetNode(c) \/ ReadContent(c)
      BY <3>3, ReadersType
    <3>4. CASE Load(c) \/ Save(c) \/ SaveFails(c)
      BY <3>4, LoadType, SaveType, SaveFailsType
    <3> QED
      BY <2>3, <3>1, <3>2, <3>3, <3>4 DEF NodeStep
  <2>4. CASE ContentStep(c)
    <3>1. CASE FindActive(c) \/ CheckActive(c)
      BY <3>1, FindActiveType, CheckActiveType
    <3>2. CASE StoreContent(c) \/ GetContent(c) \/ DeleteContent(c)
      BY <3>2, StoreContentType, GetContentType, DeleteContentType
    <3> QED
      BY <2>4, <3>1, <3>2 DEF ContentStep
  <2> QED
    BY <1>2, <2>1, <2>2, <2>3, <2>4, <2>5 DEF Work
<1> QED
  BY <1>1, <1>2 DEF Next

LEMMA InitType == Init => FType
<1> SUFFICES ASSUME Init PROVE FType
  OBVIOUS
<1>1. CallsType
  BY DEF Init, CallsType, CallOK, NoCalls, Places, Outside
<1>2. PICK empty : empty = << >>
  OBVIOUS
<1>3. empty \in Nodess
  BY <1>2, EmptyMap DEF Nodess
<1>4. disk = [g \in Existing |-> empty]
  BY <1>2 DEF Init
<1>5. disk \in MapsOf(Graphs, Nodess \cup {None}) /\ DOMAIN disk = Existing
  BY <1>3, <1>4, ExistingAssumption, IsMap
<1>6. StorageType /\ MapsType
  BY <1>5, ExistingAssumption DEF Init, StorageType, MapsType
<1> QED
  BY <1>1, <1>6 DEF FType

\* The types hold in every state.
THEOREM FTypeInvariant == Spec => []FType
<1>1. FType /\ UNCHANGED vars => FType'
  BY DEF FType, CallsType, CallOK, Suits, Kept, Embedded, StorageType, MapsType,
         vars, calls, storage, maps
<1> QED
  BY <1>1, InitType, NextType, PTL DEF Spec

\* Files have a directory to be in, torn ones are among them, and a call past its start
\* has the graph it works on (the type invariant of file_crash).
THEOREM TypeCorrect == Spec => []TypeOK
<1>1. FType => TypeOK
  <2> SUFFICES ASSUME FType PROVE TypeOK
    OBVIOUS
  <2>1. \A g \in DOMAIN disk : disk[g] # None => \A p \in DOMAIN disk[g] : \A s \in Sides :
          disk[g][p][s] # None => disk[g][p][s] \in Holdings
    <3> SUFFICES ASSUME NEW g \in DOMAIN disk, disk[g] # None, NEW p \in DOMAIN disk[g],
                        NEW s \in Sides, disk[g][p][s] # None
                 PROVE  disk[g][p][s] \in Holdings
      OBVIOUS
    <3>1. disk[g] \in Nodess
      BY MapType DEF FType, StorageType
    <3>2. disk[g][p] \in NodeRecord
      BY <3>1, MapType DEF Nodess
    <3> QED
      BY <3>2 DEF NodeRecord, Sides
  <2>2. \A c \in Clients :
          /\ at[c] \in {"idle", "start", "done"} <=> target[c] = None
          /\ at[c] = "loaded" <=> loaded[c] # None
          /\ at[c] = "done" <=> reply[c] # None
    BY DEF FType, CallsType, CallOK, Outside
  <2> QED
    BY <2>1, <2>2 DEF TypeOK, FType, CallsType, StorageType, MapsType
<1> QED
  BY <1>1, FTypeInvariant, PTL

------------------------------------------------------------------------------
(* Who asks for what: nobody else creates a graph that somebody deletes;     *)
(* nobody else writes nodes of a graph that somebody creates.                *)

CreatesApart ==
    \A c, d \in Clients : c # d => \A r \in Requests[c], q \in Requests[d] :
        r.op = "DeleteGraph" /\ q.op = "CreateGraph" => r.g # q.g

WritersApart ==
    \A c, d \in Clients : c # d => \A r \in Requests[c], q \in Requests[d] :
        r.op = "CreateGraph" /\ q.op \in Writers => r.g # q.g

Askers(ops, g) == {c \in Clients : \E r \in Requests[c] : r.op \in ops /\ r.g = g}

------------------------------------------------------------------------------
(* The invariants.                                                           *)

\* A call that has fetched a lock.
Fetched(c) == at[c] \in {"wait", "waitExternal"} \/ Holding(c)

\* A call on a graph, past its start.
UnderWay(c, op) == at[c] \notin Outside /\ call[c].op = op

\* A graph stays unknown while it is deleted.
DeleteInv ==
    \A c \in Clients :
        at[c] \notin Outside /\ call[c].op = "DeleteGraph" => target[c] \notin known

\* What was loaded has every node that is on the disk.
LoadedInv ==
    \A c \in Clients :
        at[c] = "loaded" /\ target[c] \in DOMAIN disk /\ disk[target[c]] # None
            => DOMAIN disk[target[c]] \subseteq DOMAIN loaded[c]

\* A content is in its file, or was deleted as such.
Keeping == files \cup deleted
AllStored(K, g, nodes) ==
    \A p \in DOMAIN nodes : \A s \in Sides :
        nodes[p][s] # None /\ ~nodes[p][s].embedded => <<g, nodes[p][s].hash>> \in K

\* A graph the store will not come to know until the process dies.
Gone(g) == g \notin known /\ Askers({"CreateGraph"}, g) = {}
Stranded(c) == at[c] # "loaded" /\ Gone(target[c])

\* No file is torn; what graph.json names is stored, and so is what a writer is
\* about to put there, unless it is stranded: it will find the graph gone.
RefInv ==
    /\ torn = {}
    /\ \A g \in DOMAIN disk : disk[g] # None => AllStored(Keeping, g, disk[g])
    /\ \A c \in Clients :
         /\ at[c] = "loaded" => AllStored(Keeping, target[c], loaded[c])
         /\ /\ at[c] \notin Outside \cup External
            /\ call[c].op = "SetContent" /\ ~Embedded(call[c])
            => \/ <<target[c], Kept(call[c].content)>> \in Keeping
               \/ Stranded(c)

------------------------------------------------------------------------------
(* What steps do, for the invariants to look at.                             *)

OthersStay(c) ==
    \A d \in Clients \ {c} :
        /\ call'[d] = call[d] /\ at'[d] = at[d] /\ target'[d] = target[d]
        /\ lock'[d] = lock[d] /\ loaded'[d] = loaded[d]

\* c has ended, begun or gone for a lock.
Away == Outside \cup {"lock", "lockExternal", "checkActive"}

\* A step of c that changes neither files nor maps; if it goes for the lock, it is for
\* nodes or contents, not for a graph to create or delete.
Quiet(c) ==
    /\ OthersStay(c) /\ at'[c] \in Away /\ UNCHANGED <<storage, maps>>
    /\ at'[c] \notin Outside =>
          /\ call'[c].op \in NodeOps \cup ContentOps
          /\ at'[c] = "lock" /\ call'[c].op = "SetContent" => Embedded(call'[c])

\* A step of c that ends its call.
Ends(c) == at'[c] = "done" /\ call'[c] = call[c]

LEMMA GotoFacts ==
    ASSUME CallsType, NEW c \in Clients, NEW a, Goto(c, a)
    PROVE  /\ OthersStay(c) /\ at'[c] = a /\ call'[c] = call[c] /\ target'[c] = target[c]
           /\ lock'[c] = lock[c] /\ loaded'[c] = loaded[c]
BY GotoTurns, TurnsFacts DEF OthersStay

LEMMA GotoOnFacts ==
    ASSUME CallsType, NEW c \in Clients, NEW a, NEW g, GotoOn(c, a, g)
    PROVE  /\ OthersStay(c) /\ at'[c] = a /\ call'[c] = call[c] /\ target'[c] = g
           /\ lock'[c] = lock[c] /\ loaded'[c] = loaded[c]
BY GotoOnTurns, TurnsFacts DEF OthersStay

LEMMA FinishFacts ==
    ASSUME CallsType, NEW c \in Clients, NEW err, NEW val, Finish(c, err, val)
    PROVE  OthersStay(c) /\ Ends(c)
<1>1. PICK rep : rep = [err |-> err, val |-> val]
  OBVIOUS
<1>2. Turns(c, call[c], "done", None, 0, None, rep)
  BY <1>1, FinishTurns
<1> QED
  BY <1>2, TurnsFacts DEF OthersStay, Ends

LEMMA SucceedFacts ==
    ASSUME CallsType, NEW c \in Clients, NEW val, Succeed(c, val)
    PROVE  OthersStay(c) /\ Ends(c)
BY FinishFacts DEF Succeed

LEMMA FailFacts ==
    ASSUME CallsType, NEW c \in Clients, NEW err, FailWith(c, err)
    PROVE  OthersStay(c) /\ Ends(c)
BY FinishFacts DEF FailWith

LEMMA EndsQuiet ==
    ASSUME NEW c, OthersStay(c), Ends(c), UNCHANGED <<storage, maps>>
    PROVE  Quiet(c)
BY DEF Ends, Quiet, Away, Outside

\* A large content that is set: its file is written, or the call fails.
LEMMA StoreExternalFacts ==
    ASSUME FType, NEW c \in Clients, StoreExternal(c)
    PROVE  /\ OthersStay(c) /\ at[c] = "lockedExternal" /\ call'[c] = call[c]
           /\ UNCHANGED <<disk, deleted, mode, maps>>
           /\ \/ /\ at'[c] = "lock" /\ target'[c] = target[c]
                 /\ WriteContent(target[c], Kept(call[c].content))
              \/ at'[c] = "done" /\ (\/ UNCHANGED <<dirs, files, torn>>
                                    \/ WriteContentFails(target[c], Kept(call[c].content)))
<1>1. CallsType /\ at[c] = "lockedExternal" /\ UNCHANGED <<disk, deleted, mode, maps>>
  BY DEF FType, StoreExternal
<1>2. CASE FailWith(c, "graph") /\ UNCHANGED <<dirs, files, torn>>
  BY <1>1, <1>2, FailFacts DEF Ends
<1>3. CASE WriteContent(target[c], Kept(call[c].content)) /\ Goto(c, "lock")
  BY <1>1, <1>3, GotoFacts
<1>4. CASE WriteContentFails(target[c], Kept(call[c].content)) /\ FailWith(c, "io")
  BY <1>1, <1>4, FailFacts DEF Ends
<1> QED
  BY <1>2, <1>3, <1>4 DEF StoreExternal

Marks(c)   == MarkGraph(c) /\ call[c].g \notin known
Unmarks(c) == UnmarkGraph(c) /\ call[c].g \in known

LEMMA MarksFacts ==
    ASSUME FType, NEW c \in Clients, Marks(c)
    PROVE  /\ OthersStay(c) /\ at'[c] = "lock" /\ call'[c] = call[c] /\ target'[c] = call[c].g
           /\ call[c] # None /\ call[c].op = "CreateGraph" /\ at[c] = "start"
           /\ UNCHANGED <<storage, lockOf>> /\ known' = known \cup {call[c].g}
<1>1. GotoOn(c, "lock", call[c].g) /\ CallsType
  BY DEF FType, Marks, MarkGraph
<1> QED
  BY <1>1, GotoOnFacts DEF Marks, MarkGraph, Doing

LEMMA UnmarksFacts ==
    ASSUME FType, NEW c \in Clients, Unmarks(c)
    PROVE  /\ OthersStay(c) /\ at'[c] = "lock" /\ call'[c] = call[c] /\ target'[c] = call[c].g
           /\ call[c] # None /\ call[c].op = "DeleteGraph" /\ at[c] = "start"
           /\ UNCHANGED <<storage, lockOf>> /\ known' = known \ {call[c].g}
<1>1. GotoOn(c, "lock", call[c].g) /\ CallsType
  BY DEF FType, Unmarks, UnmarkGraph
<1> QED
  BY <1>1, GotoOnFacts DEF Unmarks, UnmarkGraph, Doing

\* The steps that change a file or a map, and end the call.
Changes(c) ==
    \/ CreateGraph(c) \/ CreateFails(c) \/ DeleteGraph(c) \/ DeleteFails(c)
    \/ GraphMissing(c) \/ Save(c) \/ StoreContent(c) \/ DeleteContent(c)

LEMMA ChangesEnd ==
    ASSUME FType, NEW c \in Clients, Changes(c)
    PROVE  OthersStay(c) /\ Ends(c)
<1>1. \E err, val : Finish(c, err, val)
  BY DEF Changes, CreateGraph, CreateFails, CreationFails, DeleteGraph, DeleteFails,
         DeletionFails, GraphMissing, Save, StoreContent, DeleteContent, Succeed, FailWith
<1> QED
  BY <1>1, FinishFacts DEF FType

\* Under a lock: it is fetched, waited for, and kept while a graph is loaded.
LEMMA LockFacts ==
    ASSUME FType, NEW c \in Clients, FetchLock(c) \/ Acquire(c) \/ Load(c)
    PROVE  /\ OthersStay(c) /\ call'[c] = call[c] /\ target'[c] = target[c]
           /\ UNCHANGED <<storage, maps, mode>>
           /\ FetchLock(c) => lock'[c] = lockOf[target[c]] /\ loaded'[c] = loaded[c]
           /\ ~FetchLock(c) => lock'[c] = lock[c]
           /\ Load(c) => at[c] = "locked" /\ at'[c] = "loaded" /\ loaded'[c] = Nodes(c)
           /\ Acquire(c) => loaded'[c] = loaded[c]
<1>1. CASE FetchLock(c)
  BY <1>1 DEF FType, CallsType, OthersStay, FetchLock, Acquire, Load, Loadable, Available, AtNode
<1>2. CASE Acquire(c)
  BY <1>2, GotoFacts DEF FType, FetchLock, Acquire, Load, Loadable, Available, AtNode
<1>3. CASE Load(c)
  BY <1>3 DEF FType, CallsType, OthersStay, FetchLock, Acquire, Load, Loadable, Available, AtNode
<1> QED
  BY <1>1, <1>2, <1>3

\* Every step of a client is of one of these kinds.
LEMMA Kinds ==
    ASSUME FType, NEW c \in Clients, Invoke(c) \/ Work(c) \/ Return(c)
    PROVE  /\ OthersStay(c)
           /\ \/ FetchLock(c) \/ Acquire(c) \/ Load(c)
              \/ Quiet(c) \/ Marks(c) \/ Unmarks(c) \/ StoreExternal(c) \/ Changes(c)
<1>0. CallsType
  BY DEF FType
<1>1. CASE Invoke(c) \/ Return(c)
  BY <1>0, <1>1 DEF CallsType, OthersStay, Invoke, Return, Quiet, Away, Outside
<1>2. CASE FetchLock(c) \/ Acquire(c) \/ Load(c)
  BY <1>2, LockFacts
<1>3. CASE \E err, val : Finish(c, err, val) /\ UNCHANGED <<storage, maps>>
  BY <1>0, <1>3, FinishFacts, EndsQuiet
<1>4. CASE MarkGraph(c)
  <2>1. CASE call[c].g \in known
    BY <1>3, <1>4, <2>1 DEF MarkGraph, FailWith, maps
  <2> QED
    BY <1>4, <2>1, MarksFacts DEF Marks
<1>5. CASE UnmarkGraph(c)
  <2>1. CASE call[c].g \notin known
    BY <1>3, <1>5, <2>1 DEF UnmarkGraph, FailWith, maps
  <2> QED
    BY <1>5, <2>1, UnmarksFacts DEF Unmarks
<1>6. CASE StartNodeOp(c)
  <2>1. PICK a \in {"lock", "lockExternal"} :
           /\ a = IF call[c].op = "SetContent" /\ ~Embedded(call[c]) THEN "lockExternal"
                  ELSE "lock"
           /\ GotoOn(c, a, call[c].g)
    BY <1>6 DEF StartNodeOp
  <2>2. OthersStay(c) /\ at'[c] = a /\ call'[c] = call[c]
    BY <1>0, <2>1, GotoOnFacts
  <2>3. UNCHANGED <<storage, maps, mode>> /\ call[c].op \in NodeOps
    BY <1>6 DEF StartNodeOp
  <2> QED
    BY <2>1, <2>2, <2>3 DEF Quiet, Away
<1>7. CASE FindActive(c)
  <2>1. CASE activeGraph = None
    BY <1>3, <1>7, <2>1 DEF FindActive, FailWith
  <2>2. CASE activeGraph # None
    <3>1. OthersStay(c) /\ at'[c] = "checkActive" /\ call'[c] = call[c]
      BY <1>0, <1>7, <2>2, GotoOnFacts DEF FindActive
    <3> QED
      BY <1>7, <3>1 DEF FindActive, Quiet, Away
  <2> QED
    BY <2>1, <2>2
<1>8. CASE CheckActive(c)
  <2>1. CASE Goto(c, "lock")
    <3>1. OthersStay(c) /\ at'[c] = "lock" /\ call'[c] = call[c]
      BY <1>0, <2>1, GotoFacts
    <3>2. call[c].op \in ContentOps
      BY <1>0, <1>8, Working DEF CheckActive, Suits, Outside
    <3> QED
      BY <1>8, <3>1, <3>2 DEF CheckActive, Quiet, Away, ContentOps
  <2> QED
    BY <1>3, <1>8, <2>1 DEF CheckActive, FailWith
<1>9. CASE StoreExternal(c)
  BY <1>9, StoreExternalFacts
<1>10. CASE Changes(c)
  BY <1>10, ChangesEnd
<1>11. CASE \/ ListGraphs(c) \/ NotKept(c) \/ GraphTorn(c) \/ ListNodes(c) \/ NodeExists(c)
            \/ NodeMissing(c) \/ GetNode(c) \/ SaveFails(c) \/ IOFails(c)
  BY <1>3, <1>11 DEF ListGraphs, NotKept, GraphTorn, ListNodes, NodeExists, NodeMissing, GetNode,
                     SaveFails, IOFails, Succeed, FailWith
<1>12. CASE ReadContent(c) \/ GetContent(c)
  <2>1. \E err, val : Finish(c, err, val)
    BY <1>12 DEF ReadContent, GetContent, Fetch, Succeed, FailWith
  <2> QED
    BY <1>3, <1>12, <2>1 DEF ReadContent, GetContent
<1> QED
  BY <1>1, <1>2, <1>4, <1>5, <1>6, <1>7, <1>8, <1>9, <1>10, <1>11, <1>12
     DEF Work, GraphStep, NodeStep, ContentStep, Changes

------------------------------------------------------------------------------
(* Locks.                                                                    *)

\* Where a lock is taken from the map, it is the deleter's.
LEMMA LocksStay ==
    ASSUME FType, NEW c \in Clients, Quiet(c) \/ Marks(c) \/ Unmarks(c) \/ StoreExternal(c) \/ Changes(c)
    PROVE  \/ lockOf' = lockOf
           \/ /\ at[c] \notin Outside /\ call[c].op = "DeleteGraph" /\ target[c] \in Graphs
              /\ \A x \in Graphs \ {target[c]} : lockOf'[x] = lockOf[x]
              /\ at[c] = "locked" /\ at'[c] = "done" /\ lockOf'[target[c]] # 0
<1>1. CASE Quiet(c) \/ Marks(c) \/ Unmarks(c) \/ StoreExternal(c)
  BY <1>1, MarksFacts, UnmarksFacts, StoreExternalFacts DEF Quiet, maps
<1>2. CASE DeleteGraph(c) \/ DeleteFails(c)
  <2>1. at[c] = "locked" /\ call[c].op = "DeleteGraph" /\ ForgetLock(target[c])
    BY <1>2 DEF DeleteGraph, DeleteFails, DeletionFails, Doing
  <2>2. target[c] \in Graphs
    BY <2>1, Working DEF FType, Outside
  <2>3. at'[c] = "done"
    BY <1>2, ChangesEnd DEF Changes, Ends
  <2> QED
    BY <2>1, <2>2, <2>3, ForgetLockType DEF FType, Outside
<1>3. CASE \/ CreateGraph(c) \/ CreateFails(c) \/ GraphMissing(c) \/ Save(c)
           \/ StoreContent(c) \/ DeleteContent(c)
  BY <1>3 DEF CreateGraph, CreateFails, CreationFails, GraphMissing, Save, StoreContent,
              DeleteContent, maps
<1> QED
  BY <1>1, <1>2, <1>3 DEF Changes

\* After these c holds no lock.
LEMMA NotFetched ==
    ASSUME FType, NEW c \in Clients, Quiet(c) \/ Marks(c) \/ Unmarks(c) \/ StoreExternal(c) \/ Changes(c)
    PROVE  OthersStay(c) /\ at'[c] \notin {"wait", "waitExternal", "locked", "lockedExternal", "loaded"}
<1>1. at'[c] \in Away
  BY MarksFacts, UnmarksFacts, StoreExternalFacts, ChangesEnd DEF Quiet, Ends, Away, Outside
<1>2. OthersStay(c)
  BY MarksFacts, UnmarksFacts, StoreExternalFacts, ChangesEnd DEF Quiet
<1> QED
  BY <1>1, <1>2 DEF Away, Outside

------------------------------------------------------------------------------
(* What becomes of known graphs and of their graph.json.                     *)

KeepsDisk(c) ==
    \/ FetchLock(c) \/ Acquire(c) \/ Load(c) \/ Quiet(c) \/ Marks(c) \/ Unmarks(c)
    \/ StoreExternal(c) \/ GraphMissing(c) \/ StoreContent(c) \/ DeleteContent(c)

Removes(c) == CreateFails(c) \/ DeleteGraph(c) \/ DeleteFails(c)

LEMMA KeepsDiskFacts ==
    ASSUME FType, NEW c \in Clients, KeepsDisk(c)
    PROVE  disk' = disk
BY LockFacts, MarksFacts, UnmarksFacts, StoreExternalFacts
   DEF KeepsDisk, Quiet, GraphMissing, StoreContent, DeleteContent, storage

\* Only graph.json of the graph goes, unless a creation that failed leaves a torn one.
LEMMA RemovesFacts ==
    ASSUME FType, NEW c \in Clients, Removes(c)
    PROVE  /\ at[c] = "locked" /\ call[c].op \in {"CreateGraph", "DeleteGraph"} /\ call[c] # None
           /\ CreateFails(c) \/ call[c].op = "DeleteGraph"
           /\ DOMAIN disk' \subseteq (DOMAIN disk) \cup {target[c]}
           /\ \A x \in DOMAIN disk : x # target[c] => x \in DOMAIN disk' /\ disk'[x] = disk[x]
           /\ \A x \in DOMAIN disk' : \/ x \in DOMAIN disk /\ disk'[x] = disk[x]
                                      \/ /\ x = target[c] /\ disk'[x] = None
                                         /\ CreateFails(c) /\ "tornGraph" \in Faults
           /\ CreateFails(c) => known' = known \ {target[c]} /\ call[c].op = "CreateGraph"
           /\ ~CreateFails(c) => known' = known
<1>0. CallsType /\ StorageType
  BY DEF FType
<1>1. /\ at[c] = "locked" /\ call[c].op \in {"CreateGraph", "DeleteGraph"} /\ call[c] # None
      /\ CreateFails(c) \/ call[c].op = "DeleteGraph"
      /\ CreateFails(c) => known' = known \ {target[c]} /\ call[c].op = "CreateGraph"
      /\ ~CreateFails(c) => known' = known
  BY DEF Removes, CreateFails, CreationFails, DeleteGraph, DeleteFails, DeletionFails, Doing
<1>2. target[c] \in Graphs
  BY <1>0, <1>1, Working DEF Outside
<1>3. CASE disk' = disk
  BY <1>1, <1>3
<1>4. CASE Without(target[c])
  <2>1. /\ DOMAIN disk' = DOMAIN disk \ {target[c]} /\ \A x \in DOMAIN disk' : disk'[x] = disk[x]
    BY <1>0, <1>4, WithoutType
  <2> QED
    BY <1>1, <2>1
<1>5. ASSUME NEW disks, HalfRemoved(target[c], disks),
             disks \subseteq {disk, With(disk, target[c], None)},
             disks = {disk} \/ (CreateFails(c) /\ "tornGraph" \in Faults)
      PROVE  /\ DOMAIN disk' \subseteq (DOMAIN disk) \cup {target[c]}
             /\ \A x \in DOMAIN disk : x # target[c] => x \in DOMAIN disk' /\ disk'[x] = disk[x]
             /\ \A x \in DOMAIN disk' : \/ x \in DOMAIN disk /\ disk'[x] = disk[x]
                                        \/ /\ x = target[c] /\ disk'[x] = None
                                           /\ CreateFails(c) /\ "tornGraph" \in Faults
  BY <1>0, <1>2, <1>5, HalfRemovedFacts
<1>6. CASE CreateFails(c)
  <2>1. \/ UNCHANGED storage
        \/ Without(target[c])
        \/ \E disks : /\ HalfRemoved(target[c], disks)
                      /\ disks \subseteq {disk, With(disk, target[c], None)}
                      /\ "tornGraph" \notin Faults => disks = {disk}
    BY <1>0, <1>6, CreationFailsFacts DEF CreateFails
  <2> QED
    BY <1>1, <1>3, <1>4, <1>5, <1>6, <2>1 DEF storage
<1>7. CASE DeleteGraph(c)
  BY <1>1, <1>4, <1>7 DEF DeleteGraph
<1>8. CASE DeleteFails(c)
  <2>1. PICK disks : disks = {disk}
    OBVIOUS
  <2>2. HalfRemoved(target[c], disks) /\ disks \subseteq {disk, With(disk, target[c], None)}
    BY <1>0, <1>8, <2>1, DeletionFailsFacts
  <2> QED
    BY <1>1, <1>5, <2>1, <2>2
<1> QED
  BY <1>6, <1>7, <1>8 DEF Removes

LEMMA CreateGraphFacts ==
    ASSUME FType, NEW c \in Clients, CreateGraph(c)
    PROVE  /\ at[c] = "locked" /\ call[c].op = "CreateGraph" /\ call[c] # None
           /\ target[c] \in DOMAIN disk' /\ DOMAIN disk \subseteq DOMAIN disk'
           /\ DOMAIN disk' = DOMAIN disk \cup {target[c]}
           /\ disk'[target[c]] \in Nodess /\ DOMAIN disk'[target[c]] = {}
           /\ \A x \in DOMAIN disk \ {target[c]} : disk'[x] = disk[x]
           /\ known' = known
<1>1. PICK empty : empty = << >>
  OBVIOUS
<1>2. empty \in Nodess /\ DOMAIN empty = {}
  BY <1>1, EmptyMap DEF Nodess
<1>3. disk' = With(disk, target[c], empty) /\ disk \in MapsOf(Graphs, Nodess \cup {None})
      /\ target[c] \in Graphs /\ empty \in Nodess \cup {None}
  BY <1>1, <1>2, Working DEF FType, StorageType, CreateGraph, Doing, Outside
<1>4. /\ DOMAIN disk' = DOMAIN disk \cup {target[c]} /\ disk'[target[c]] = empty
      /\ \A x \in DOMAIN disk \ {target[c]} : disk'[x] = disk[x]
  BY <1>3 DEF With
<1> QED
  BY <1>2, <1>4 DEF CreateGraph, Doing

LEMMA SaveFacts ==
    ASSUME FType, NEW c \in Clients, Save(c)
    PROVE  /\ at[c] = "loaded" /\ call[c].op \in Writers /\ loaded[c] \in Nodess
           /\ target[c] \in Graphs /\ target[c] \in DOMAIN disk'
           /\ DOMAIN disk' = DOMAIN disk \cup {target[c]}
           /\ disk'[target[c]] = With(loaded[c], call[c].p, Changed(call[c], loaded[c]))
           /\ disk'[target[c]] \in Nodess
           /\ DOMAIN loaded[c] \subseteq DOMAIN disk'[target[c]]
           /\ \A x \in DOMAIN disk \ {target[c]} : disk'[x] = disk[x]
           /\ UNCHANGED <<maps, files, torn, deleted, dirs, mode>>
<1>1. at[c] = "loaded" /\ UNCHANGED <<maps, files, torn, deleted, dirs, mode>>
  BY DEF Save
<1>2. call[c].op \in Writers /\ loaded[c] \in Nodess /\ target[c] \in Graphs
  BY <1>1, Working DEF FType, Suits, Outside
<1>3. PICK m : m = With(loaded[c], call[c].p, Changed(call[c], loaded[c]))
  OBVIOUS
<1>4. m \in Nodess /\ call[c].p \in Paths /\ Changed(call[c], loaded[c]) \in NodeRecord
  BY <1>1, <1>3, SavedType DEF FType
<1>5. DOMAIN loaded[c] \subseteq DOMAIN m
  BY <1>3 DEF With
<1>6. disk' = With(disk, target[c], m) /\ disk \in MapsOf(Graphs, Nodess \cup {None})
      /\ m \in Nodess \cup {None}
  BY <1>3, <1>4 DEF Save, FType, StorageType
<1>7. /\ DOMAIN disk' = DOMAIN disk \cup {target[c]} /\ disk'[target[c]] = m
      /\ \A x \in DOMAIN disk \ {target[c]} : disk'[x] = disk[x]
  BY <1>6 DEF With
<1> QED
  BY <1>1, <1>2, <1>3, <1>4, <1>5, <1>7

\* A step of a client, as what it does to graph.json files.
LEMMA DiskKinds ==
    ASSUME FType, NEW c \in Clients, Invoke(c) \/ Work(c) \/ Return(c)
    PROVE  /\ OthersStay(c)
           /\ KeepsDisk(c) \/ Removes(c) \/ CreateGraph(c) \/ Save(c)
BY Kinds DEF KeepsDisk, Removes, Changes

\* The process dies: files that are being created may be torn, calls are gone.
LEMMA RestartFacts ==
    ASSUME FType, Restart
    PROVE  /\ \A c \in Clients : at'[c] = "idle" /\ call'[c] = None /\ target'[c] = None
           /\ known' \subseteq DOMAIN disk' /\ DOMAIN disk \subseteq DOMAIN disk'
           /\ "scan" \notin Faults => known' = DOMAIN disk'
           /\ lockOf' = [g \in Graphs |-> 0]
           /\ \A x \in DOMAIN disk' : \/ x \in DOMAIN disk /\ disk'[x] = disk[x]
                                      \/ /\ disk'[x] = None
                                         /\ \E c \in Clients : /\ at[c] = "locked" /\ target[c] = x
                                                               /\ call[c].op = "CreateGraph"
           /\ files \subseteq files' /\ deleted' = deleted /\ mode' = mode
           /\ "tornContent" \notin Faults => files' = files /\ torn' = torn
           /\ "tornGraph" \notin Faults => disk' = disk
<1>1. PICK cut \in SUBSET {c \in Clients : CanTear(c)} :
        LET graphs == {target[c] : c \in {d \in cut : CreatesFile(d)}}
            cutFiles == {<<target[c], Kept(call[c].content)>> :
                            c \in {d \in cut : ContentWrite(d)}} \ files
        IN  /\ disk' = Merge(disk, [g \in graphs |-> None])
            /\ files' = files \cup cutFiles
            /\ torn' = torn \cup cutFiles
  BY DEF Restart
<1>2. PICK graphs : graphs = {target[c] : c \in {d \in cut : CreatesFile(d)}}
  OBVIOUS
<1>3. PICK f : f = [g \in graphs |-> None]
  OBVIOUS
<1>4. disk' = Merge(disk, f) /\ DOMAIN f = graphs /\ \A g \in graphs : f[g] = None
  BY <1>1, <1>2, <1>3
<1>5. /\ DOMAIN disk' = DOMAIN disk \cup graphs
      /\ \A x \in DOMAIN disk' : disk'[x] = IF x \in graphs THEN None ELSE disk[x]
  BY <1>4 DEF Merge
<1>6. \A x \in graphs : \E c \in Clients : /\ at[c] = "locked" /\ target[c] = x
                                           /\ call[c].op = "CreateGraph"
  BY <1>2 DEF CreatesFile, Doing
<1>7. "tornContent" \notin Faults => files' = files /\ torn' = torn
  <2> SUFFICES ASSUME "tornContent" \notin Faults PROVE files' = files /\ torn' = torn
    OBVIOUS
  <2>1. \A c \in cut : ~ContentWrite(c)
    BY DEF CanTear, CreatesFile, ContentWrite, Doing
  <2> QED
    BY <1>1, <2>1
<1>8. "tornGraph" \notin Faults => disk' = disk
  <2> SUFFICES ASSUME "tornGraph" \notin Faults PROVE disk' = disk
    OBVIOUS
  <2>1. \A c \in cut : ~CreatesFile(c)
    BY DEF CanTear, CreatesFile, ContentWrite, Doing
  <2>2. graphs = {}
    BY <1>2, <2>1
  <2>3. disk = [x \in DOMAIN disk |-> disk[x]]
    BY MapType DEF FType, StorageType
  <2>4. disk' = [x \in DOMAIN disk |-> disk[x]]
    BY <1>4, <2>2 DEF Merge
  <2> QED
    BY <2>3, <2>4
<1>9. /\ \A c \in Clients : at'[c] = "idle" /\ call'[c] = None /\ target'[c] = None
      /\ known' \subseteq DOMAIN disk' /\ ("scan" \notin Faults => known' = DOMAIN disk')
      /\ lockOf' = [g \in Graphs |-> 0] /\ files \subseteq files' /\ deleted' = deleted /\ mode' = mode
  BY <1>1 DEF Restart, NoCalls
<1> QED
  BY <1>5, <1>6, <1>7, <1>8, <1>9

\* The store comes to know a graph only from who creates it.
LEMMA KnownFacts ==
    ASSUME FType, NEW c \in Clients, Invoke(c) \/ Work(c) \/ Return(c)
    PROVE  known' \subseteq known \/ Marks(c)
<1>1. CASE FetchLock(c) \/ Acquire(c) \/ Load(c) \/ Quiet(c) \/ Unmarks(c) \/ StoreExternal(c)
  BY <1>1, LockFacts, UnmarksFacts, StoreExternalFacts DEF Quiet, maps
<1>2. CASE Changes(c)
  BY <1>2 DEF Changes, CreateGraph, CreateFails, DeleteGraph, DeleteFails,
              GraphMissing, Save, StoreContent, DeleteContent, maps
<1> QED
  BY <1>1, <1>2, Kinds

\* A call that deletes a graph began by making it unknown.
LEMMA DeleterBegan ==
    ASSUME FType, NEW c \in Clients, Invoke(c) \/ Work(c) \/ Return(c),
           at'[c] \notin Outside, call'[c].op = "DeleteGraph"
    PROVE  \/ UnderWay(c, "DeleteGraph") /\ target'[c] = target[c]
           \/ Unmarks(c)
<1>1. CASE FetchLock(c) \/ Acquire(c) \/ Load(c)
  <2>1. call'[c] = call[c] /\ target'[c] = target[c]
    BY <1>1, LockFacts
  <2>2. at[c] \notin Outside
    BY <1>1 DEF FetchLock, Acquire, Load, Loadable, Available, AtNode, Outside
  <2> QED
    BY <2>1, <2>2 DEF UnderWay
<1>2. CASE Quiet(c)
  BY <1>2 DEF Quiet, NodeOps, ContentOps
<1>3. CASE Marks(c)
  BY <1>3, MarksFacts
<1>4. CASE StoreExternal(c)
  <2>1. call'[c] = call[c] /\ at[c] = "lockedExternal"
    BY <1>4, StoreExternalFacts
  <2>2. call[c].op = "SetContent"
    BY <2>1, Working DEF FType, Suits, Outside, External
  <2> QED
    BY <2>1, <2>2
<1>5. CASE Changes(c)
  BY <1>5, ChangesEnd DEF Ends, Outside
<1> QED
  BY <1>1, <1>2, <1>3, <1>4, <1>5, Kinds

\* Its own step that leaves a call with a graph loaded is the one that loads it.
LEMMA LoaderBegan ==
    ASSUME FType, NEW c \in Clients, Invoke(c) \/ Work(c) \/ Return(c), at'[c] = "loaded"
    PROVE  Load(c)
<1>1. CASE FetchLock(c) \/ Acquire(c)
  <2>1. at'[c] # "loaded"
    BY <1>1, GotoFacts DEF FType, CallsType, FetchLock, Acquire
  <2> QED
    BY <2>1
<1>2. CASE Quiet(c) \/ Marks(c) \/ Unmarks(c) \/ StoreExternal(c) \/ Changes(c)
  BY <1>2, NotFetched
<1> QED
  BY <1>1, <1>2, Kinds

LEMMA DeleteStep ==
    ASSUME CreatesApart, FType, FType', DeleteInv, Next
    PROVE  DeleteInv'
<1>1. CASE Restart
  BY <1>1, RestartFacts DEF DeleteInv, Outside
<1>2. ASSUME NEW c \in Clients, Invoke(c) \/ Work(c) \/ Return(c), NEW d \in Clients,
             at'[d] \notin Outside, call'[d].op = "DeleteGraph"
      PROVE  target'[d] \notin known'
  <2>1. CASE d = c
    <3>1. CASE UnderWay(c, "DeleteGraph") /\ target'[c] = target[c]
      <4>1. target[c] \notin known
        BY <3>1 DEF DeleteInv, UnderWay
      <4>2. ~Marks(c)
        BY <3>1, MarksFacts DEF UnderWay, Outside
      <4> QED
        BY <1>2, <2>1, <3>1, <4>1, <4>2, KnownFacts
    <3>2. CASE Unmarks(c)
      BY <1>2, <2>1, <3>2, UnmarksFacts
    <3> QED
      BY <1>2, <2>1, <3>1, <3>2, DeleterBegan
  <2>2. CASE d # c
    <3>1. /\ call'[d] = call[d] /\ at'[d] = at[d] /\ target'[d] = target[d]
          /\ target[d] \notin known
      BY <1>2, <2>2, DiskKinds DEF OthersStay, DeleteInv
    <3>2. CASE known' \subseteq known
      BY <3>1, <3>2
    <3>3. CASE Marks(c)
      <4>1. /\ known' = known \cup {call[c].g} /\ call[c].op = "CreateGraph" /\ at[c] = "start"
        BY <3>3, MarksFacts
      <4>2. /\ call[c] \in Requests[c] /\ call[d] \in Requests[d] /\ target[d] = call[d].g
        BY <1>2, <3>1, <4>1, Working DEF FType, Outside, Suits, ContentOps
      <4>3. call[d].g # call[c].g
        BY <1>2, <2>2, <3>1, <4>1, <4>2 DEF CreatesApart
      <4> QED
        BY <3>1, <4>1, <4>2, <4>3
    <3> QED
      BY <1>2, <3>2, <3>3, KnownFacts
  <2> QED
    BY <2>1, <2>2
<1> QED
  BY <1>1, <1>2 DEF Next, DeleteInv

\* What a call that creates a graph does once the graph is known.
LEMMA CreatorSteps ==
    ASSUME FType, NEW c \in Clients, at[c] \notin Outside, call[c] # None,
           call[c].op = "CreateGraph", Invoke(c) \/ Work(c) \/ Return(c)
    PROVE  FetchLock(c) \/ Acquire(c) \/ CreateGraph(c) \/ CreateFails(c)
<1>1. Suits(call[c], at[c], target[c], loaded[c])
  BY Working DEF FType
<1>2. ~Invoke(c) /\ ~Return(c)
  BY DEF Invoke, Return, Outside
<1>3. GraphStep(c) => CreateGraph(c) \/ CreateFails(c)
  BY DEF GraphStep, MarkGraph, UnmarkGraph, DeleteGraph, DeleteFails, DeletionFails, ListGraphs,
         Doing, Outside
<1>4. ~AtNode(c) /\ at[c] # "loaded" /\ at[c] # "lockedExternal" /\ at[c] # "checkActive"
  BY <1>1 DEF AtNode, NodeOps, ContentOps, Suits, Writers, External
<1>5. ~NodeStep(c)
  BY <1>4 DEF NodeStep, NotKept, StartNodeOp, StoreExternal, GraphMissing, GraphTorn, Available,
              Loadable, ListNodes, NodeExists, NodeMissing, GetNode, ReadContent, Load, Save,
              SaveFails, Doing, Outside
<1>6. ~ContentStep(c)
  BY <1>4 DEF ContentStep, FindActive, CheckActive, StoreContent, GetContent, DeleteContent,
              Doing, Outside
<1>7. ~IOFails(c)
  BY <1>4 DEF IOFails, Doing
<1> QED
  BY <1>2, <1>3, <1>5, <1>6, <1>7 DEF Work

LEMMA KnownStep ==
    ASSUME FType, FType', DeleteInv, KnownHasFile, Next
    PROVE  KnownHasFile'
<1>1. CASE Restart
  BY <1>1, RestartFacts DEF KnownHasFile
<1>2. ASSUME NEW c \in Clients, Invoke(c) \/ Work(c) \/ Return(c), NEW g \in known' \ DOMAIN disk'
      PROVE  \E d \in Clients : call'[d] # None /\ call'[d].op = "CreateGraph" /\ target'[d] = g
  <2>1. CASE Marks(c) /\ g = call[c].g
    BY <2>1, MarksFacts
  <2>2. CASE g \in known /\ g \in DOMAIN disk
    <3>1. CASE KeepsDisk(c)
      BY <1>2, <2>2, <3>1, KeepsDiskFacts
    <3>2. CASE CreateGraph(c) \/ Save(c)
      BY <1>2, <2>2, <3>2, CreateGraphFacts, SaveFacts
    <3>3. CASE Removes(c)
      <4>1. target[c] = g
        BY <1>2, <2>2, <3>3, RemovesFacts
      <4>2. CASE CreateFails(c)
        BY <1>2, <3>3, <4>1, <4>2, RemovesFacts
      <4>3. CASE call[c].op = "DeleteGraph"
        BY <2>2, <3>3, <4>1, <4>3, RemovesFacts DEF DeleteInv, Outside
      <4> QED
        BY <3>3, <4>2, <4>3, RemovesFacts
    <3> QED
      BY <1>2, <3>1, <3>2, <3>3, DiskKinds
  <2>3. CASE g \in known \ DOMAIN disk
    <3>1. PICK d \in Clients : call[d] # None /\ call[d].op = "CreateGraph" /\ target[d] = g
      BY <2>3 DEF KnownHasFile
    <3>2. CASE d # c
      BY <1>2, <3>1, <3>2, DiskKinds DEF OthersStay
    <3>3. CASE d = c
      <4>0. g # None
        BY <1>2, NoneIsNothing DEF FType, MapsType
      <4>1. at[c] \notin Outside /\ Suits(call[c], at[c], target[c], loaded[c])
        BY <3>1, <3>3, <4>0, Working DEF FType, CallOK
      <4>2. CASE FetchLock(c) \/ Acquire(c) \/ Load(c)
        BY <3>1, <3>3, <4>2, LockFacts
      <4>3. CASE CreateGraph(c)
        BY <1>2, <3>1, <3>3, <4>3, CreateGraphFacts
      <4>4. CASE CreateFails(c)
        BY <1>2, <3>1, <3>3, <4>4, RemovesFacts DEF Removes
      <4> QED
        BY <1>2, <3>1, <3>3, <4>1, <4>2, <4>3, <4>4, CreatorSteps
    <3> QED
      BY <3>2, <3>3
  <2> QED
    BY <1>2, <2>1, <2>2, <2>3, KnownFacts, MarksFacts
<1> QED
  BY <1>1, <1>2 DEF Next, KnownHasFile

LEMMA LoadedStep ==
    ASSUME FType, FType', OneRewriter, LoadedInv, Next
    PROVE  LoadedInv'
<1>1. CASE Restart
  BY <1>1, RestartFacts DEF LoadedInv
<1>2. ASSUME NEW c \in Clients, Invoke(c) \/ Work(c) \/ Return(c), NEW d \in Clients,
             at'[d] = "loaded", target'[d] \in DOMAIN disk', disk'[target'[d]] # None
      PROVE  DOMAIN disk'[target'[d]] \subseteq DOMAIN loaded'[d]
  <2>1. CASE Load(c) /\ d = c
    <3>1. target'[c] = target[c] /\ disk' = disk /\ loaded'[c] = disk[target[c]]
      BY <2>1, LockFacts DEF storage, Nodes
    <3> QED
      BY <2>1, <3>1
  <2>2. CASE ~(Load(c) /\ d = c)
    <3>1. d # c
      BY <1>2, <2>2, LoaderBegan
    <3>2. at'[d] = at[d] /\ target'[d] = target[d] /\ loaded'[d] = loaded[d]
      BY <1>2, <3>1, DiskKinds DEF OthersStay
    <3>4. CASE KeepsDisk(c)
      BY <1>2, <3>2, <3>4, KeepsDiskFacts DEF LoadedInv
    <3>5. CASE Removes(c)
      BY <1>2, <3>2, <3>5, RemovesFacts DEF LoadedInv
    <3>6. CASE CreateGraph(c)
      <4>1. CASE target[d] = target[c]
        BY <3>2, <3>6, <4>1, CreateGraphFacts
      <4>2. CASE target[d] # target[c]
        <5>1. /\ DOMAIN disk' = DOMAIN disk \cup {target[c]}
              /\ \A x \in DOMAIN disk \ {target[c]} : disk'[x] = disk[x]
          BY <3>6, CreateGraphFacts
        <5>2. target[d] \in DOMAIN disk /\ disk'[target[d]] = disk[target[d]]
          BY <1>2, <3>2, <4>2, <5>1
        <5> QED
          BY <1>2, <3>2, <5>2 DEF LoadedInv
      <4> QED
        BY <4>1, <4>2
    <3>7. CASE Save(c)
      <4>1. target[c] # target[d]
        <5>1. Rewriting(c) /\ Rewriting(d)
          BY <1>2, <3>2, <3>7, SaveFacts DEF Rewriting
        <5> QED
          BY <3>1, <5>1 DEF OneRewriter
      <4> QED
        <5>1. /\ DOMAIN disk' = DOMAIN disk \cup {target[c]}
              /\ \A x \in DOMAIN disk \ {target[c]} : disk'[x] = disk[x]
          BY <3>7, SaveFacts
        <5>2. target[d] \in DOMAIN disk /\ disk'[target[d]] = disk[target[d]]
          BY <1>2, <3>2, <4>1, <5>1
        <5> QED
          BY <1>2, <3>2, <5>2 DEF LoadedInv
    <3> QED
      BY <1>2, <3>4, <3>5, <3>6, <3>7, DiskKinds
  <2> QED
    BY <2>1, <2>2
<1> QED
  BY <1>1, <1>2 DEF Next, LoadedInv

LEMMA ApartCreates == RewritersApart(Requests) => CreatesApart
<1> SUFFICES ASSUME RewritersApart(Requests),
                    NEW c \in Clients, NEW d \in Clients, c # d,
                    NEW r \in Requests[c], NEW q \in Requests[d],
                    r.op = "DeleteGraph", q.op = "CreateGraph", r.g = q.g
             PROVE  FALSE
  BY DEF CreatesApart
<1>1. r.g \in Graphs
  BY Requested DEF All, GraphOps
<1>2. /\ c \in Askers({"DeleteGraph"}, r.g) /\ d \in Askers({"CreateGraph"}, r.g)
      /\ c \in Askers(Rewriters, r.g) /\ d \in Askers(Rewriters, r.g)
  BY DEF Askers, Rewriters
<1> QED
  BY <1>1, <1>2 DEF RewritersApart, Askers

LEMMA KnownInvariant == CreatesApart => (Spec => [](FType /\ DeleteInv /\ KnownHasFile))
<1> SUFFICES ASSUME CreatesApart PROVE Spec => [](FType /\ DeleteInv /\ KnownHasFile)
  OBVIOUS
<1>1. Init => DeleteInv /\ KnownHasFile
  BY DEF Init, NoCalls, DeleteInv, KnownHasFile, Outside
<1>2. DeleteInv /\ KnownHasFile /\ UNCHANGED vars => DeleteInv' /\ KnownHasFile'
  BY DEF DeleteInv, KnownHasFile, vars, calls, maps, storage
<1>3. FType /\ FType' /\ DeleteInv /\ KnownHasFile /\ [Next]_vars => DeleteInv' /\ KnownHasFile'
  BY <1>2, DeleteStep, KnownStep
<1> QED
  BY <1>1, <1>3, FTypeInvariant, PTL DEF Spec

\* A graph the store knows has a graph.json, or is being created, if nobody else creates
\* a graph that somebody deletes: what fails is forgotten, what is deleted stays unknown.
THEOREM KnownGraphsHaveFiles == CreatesApart => (Spec => []KnownHasFile)
BY KnownInvariant, PTL

------------------------------------------------------------------------------
(* One rewriter per graph: as long as somebody may rewrite it, the graph has *)
(* the lock it had at first.                                                 *)

\* Who holds a lock of a graph excludes the others that have come to hold the same.
ExcludeInv ==
    \A c, d \in Clients :
        /\ c # d /\ Holding(c) /\ Holding(d)
        /\ target[c] = target[d] /\ lock[c] = lock[d]
        => Reading(c) /\ Reading(d)

\* Until a graph's lock is forgotten, there is no other to fetch.
FirstInv == \A c \in Clients : Fetched(c) /\ lockOf[target[c]] = 0 => lock[c] = 0

\* A graph nobody creates: its lock is forgotten by the one call that deletes it, when
\* the store knows the graph no more and nobody has it loaded.
LockedAtFirst(g) ==
    /\ lockOf[g] # 0 => g \notin known
    /\ \A c \in Clients : at[c] = "loaded" /\ target[c] = g => lockOf[g] = 0
    /\ \A c \in Clients : UnderWay(c, "DeleteGraph") /\ target[c] = g =>
          /\ g \notin known /\ lockOf[g] = 0
          /\ \A d \in Clients : UnderWay(d, "DeleteGraph") /\ target[d] = g => c = d

RewriteInv ==
    \A g \in Graphs : /\ Askers({"DeleteGraph"}, g) = {} => lockOf[g] = 0
                      /\ Askers({"CreateGraph"}, g) = {} => LockedAtFirst(g)

LEMMA Asking ==
    ASSUME CallsType, NEW c \in Clients, at[c] \notin Outside, call[c].op \in Rewriters
    PROVE  /\ target[c] \in Graphs /\ target[c] = call[c].g
           /\ c \in Askers({call[c].op}, target[c]) /\ c \in Askers(Rewriters, target[c])
BY Working DEF Suits, Rewriters, ContentOps, Askers, Outside

\* Where a lock is forgotten, it is by the call that deletes its graph.
LEMMA Forgets ==
    ASSUME FType, NEW c \in Clients, Invoke(c) \/ Work(c) \/ Return(c)
    PROVE  \/ lockOf' = lockOf
           \/ /\ UnderWay(c, "DeleteGraph") /\ at[c] = "locked" /\ at'[c] = "done"
              /\ target[c] \in Graphs /\ lockOf'[target[c]] # 0
              /\ \A x \in Graphs \ {target[c]} : lockOf'[x] = lockOf[x]
<1>1. CASE FetchLock(c) \/ Acquire(c) \/ Load(c)
  BY <1>1, LockFacts DEF maps
<1>2. CASE Quiet(c) \/ Marks(c) \/ Unmarks(c) \/ StoreExternal(c) \/ Changes(c)
  BY <1>2, LocksStay DEF UnderWay
<1> QED
  BY <1>1, <1>2, Kinds

LEMMA ExcludeStep ==
    ASSUME FType, ExcludeInv, Next
    PROVE  ExcludeInv'
<1>1. CASE Restart
  BY <1>1 DEF Restart, ExcludeInv, Holding, NoCalls
<1>2. ASSUME NEW e \in Clients, Invoke(e) \/ Work(e) \/ Return(e),
             NEW c \in Clients, NEW d \in Clients, c # d, Holding(c)', Holding(d)',
             target'[c] = target'[d], lock'[c] = lock'[d]
      PROVE  Reading(c)' /\ Reading(d)'
  <2>1. CASE c # e /\ d # e
    <3>1. OthersStay(e)
      BY <1>2, Kinds
    <3> QED
      BY <1>2, <2>1, <3>1 DEF ExcludeInv, Holding, Reading, OthersStay
  <2>2. CASE Quiet(e) \/ Marks(e) \/ Unmarks(e) \/ StoreExternal(e) \/ Changes(e)
    <3>1. c # e /\ d # e
      BY <1>2, <2>2, NotFetched DEF Holding
    <3> QED
      BY <2>1, <3>1
  <2>3. CASE FetchLock(e)
    <3>1. ~Holding(e)'
      BY <2>3 DEF FType, CallsType, FetchLock, Holding
    <3> QED
      BY <1>2, <2>1, <3>1
  <2>4. CASE Load(e)
    <3>1. /\ OthersStay(e) /\ call'[e] = call[e] /\ target'[e] = target[e]
          /\ lock'[e] = lock[e] /\ at[e] = "locked"
      BY <2>4, LockFacts DEF FetchLock
    <3>2. \A x \in Clients : /\ call'[x] = call[x] /\ target'[x] = target[x] /\ lock'[x] = lock[x]
                             /\ Holding(x)' => Holding(x)
      BY <3>1 DEF OthersStay, Holding
    <3> QED
      BY <1>2, <3>2 DEF ExcludeInv, Reading
  <2>5. CASE Acquire(e)
    <3>1. /\ OthersStay(e) /\ call'[e] = call[e] /\ target'[e] = target[e]
          /\ lock'[e] = lock[e]
      BY <2>5, LockFacts DEF FetchLock, Acquire
    <3>2. \A x \in Clients : /\ call'[x] = call[x] /\ target'[x] = target[x] /\ lock'[x] = lock[x]
                             /\ x # e => (Holding(x)' <=> Holding(x))
      BY <3>1 DEF OthersStay, Holding
    <3>3. \A x \in Clients \ {e} : Holding(x) /\ target[x] = target[e] /\ lock[x] = lock[e] =>
                                      Reading(e) /\ Reading(x)
      BY <2>5 DEF Acquire
    <3> QED
      BY <1>2, <2>1, <3>2, <3>3 DEF Reading
  <2> QED
    BY <1>2, <2>2, <2>3, <2>4, <2>5, Kinds
<1> QED
  BY <1>1, <1>2 DEF Next, ExcludeInv

LEMMA FirstStep ==
    ASSUME FType, FType', FirstInv, Next
    PROVE  FirstInv'
<1>1. CASE Restart
  BY <1>1 DEF Restart, FirstInv, Fetched, Holding, NoCalls
<1>2. ASSUME NEW c \in Clients, Invoke(c) \/ Work(c) \/ Return(c), NEW d \in Clients,
             Fetched(d)', lockOf'[target'[d]] = 0
      PROVE  lock'[d] = 0
  <2>0. target'[d] \in Graphs
    <3>1. at'[d] \notin Outside
      BY <1>2 DEF Fetched, Holding, Outside
    <3> QED
      BY <3>1 DEF FType, CallsType, CallOK
  <2>1. lockOf[target'[d]] = 0 /\ (lockOf' = lockOf \/ (target'[d] # target[c] /\ at'[c] = "done"))
    BY <1>2, <2>0, Forgets
  <2>2. CASE d # c
    <3>1. /\ call'[d] = call[d] /\ at'[d] = at[d] /\ target'[d] = target[d] /\ lock'[d] = lock[d]
      BY <1>2, <2>2, Kinds DEF OthersStay
    <3> QED
      BY <1>2, <2>1, <3>1 DEF FirstInv, Fetched, Holding
  <2>3. CASE d = c /\ FetchLock(c)
    <3>1. target'[c] = target[c] /\ lock'[c] = lockOf[target[c]]
      BY <2>3, LockFacts
    <3> QED
      BY <2>1, <2>3, <3>1
  <2>4. CASE d = c /\ (Acquire(c) \/ Load(c)) /\ ~FetchLock(c)
    <3>1. target'[c] = target[c] /\ lock'[c] = lock[c]
      BY <2>4, LockFacts
    <3>2. Fetched(c)
      BY <2>4 DEF Fetched, Holding, Acquire, Load, Loadable, Available, AtNode
    <3> QED
      BY <2>1, <2>4, <3>1, <3>2 DEF FirstInv
  <2>5. CASE Quiet(c) \/ Marks(c) \/ Unmarks(c) \/ StoreExternal(c) \/ Changes(c)
    <3>1. d # c
      BY <1>2, <2>5, NotFetched DEF Fetched, Holding
    <3> QED
      BY <2>2, <3>1
  <2> QED
    BY <1>2, <2>2, <2>3, <2>4, <2>5, Kinds
<1> QED
  BY <1>1, <1>2 DEF Next, FirstInv

\* Nobody holds a graph's first lock with the call that forgets it.
LEMMA ForgottenAlone ==
    ASSUME FType, ExcludeInv, FirstInv, NEW c \in Clients, NEW d \in Clients,
           UnderWay(c, "DeleteGraph"), at[c] = "locked", lockOf[target[c]] = 0,
           at[d] = "loaded", target[d] = target[c]
    PROVE  FALSE
<1>1. lock[c] = 0 /\ lock[d] = 0 /\ Holding(c) /\ Holding(d) /\ c # d
  BY DEF FirstInv, Fetched, Holding
<1>2. Reading(c)
  BY <1>1 DEF ExcludeInv
<1> QED
  BY <1>2 DEF Reading, ReadOps, UnderWay

LEMMA LockedAtFirstStep ==
    ASSUME FType, FType', ExcludeInv, FirstInv, NEW g \in Graphs,
           Askers({"CreateGraph"}, g) = {}, LockedAtFirst(g),
           NEW c \in Clients, Invoke(c) \/ Work(c) \/ Return(c)
    PROVE  LockedAtFirst(g)'
<1>0. CallsType /\ OthersStay(c)
  BY Kinds DEF FType
<1>1. g \in known' => g \in known
  <2>1. CASE Marks(c)
    <3>1. /\ known' = known \cup {call[c].g} /\ call[c].op = "CreateGraph" /\ at[c] = "start"
      BY <2>1, MarksFacts
    <3>2. call[c] \in Requests[c]
      BY <1>0, <3>1, Working
    <3> QED
      BY <3>1, <3>2 DEF Askers
  <2> QED
    BY <2>1, KnownFacts
<1>2. Unmarks(c) /\ target'[c] = g => g \in known /\ g \notin known' /\ lockOf[g] = 0
  BY UnmarksFacts DEF Unmarks, LockedAtFirst
<1>3. ASSUME NEW d \in Clients, UnderWay(d, "DeleteGraph")', target'[d] = g
      PROVE  \/ UnderWay(d, "DeleteGraph") /\ target[d] = g
             \/ d = c /\ Unmarks(c)
  <2>1. CASE d = c
    BY <1>3, <2>1, DeleterBegan DEF UnderWay
  <2>2. CASE d # c
    BY <1>0, <1>3, <2>2 DEF OthersStay, UnderWay
  <2> QED
    BY <2>1, <2>2
<1>4. ASSUME NEW d \in Clients, at'[d] = "loaded", target'[d] = g
      PROVE  lockOf[g] = 0
  <2>1. CASE d = c
    <3>1. Load(c) /\ target[c] = g
      BY <1>4, <2>1, LoaderBegan, LockFacts
    <3>2. g \in known
      BY <3>1 DEF Load, Loadable, Available
    <3> QED
      BY <3>2 DEF LockedAtFirst
  <2>2. CASE d # c
    BY <1>0, <1>4, <2>2 DEF OthersStay, LockedAtFirst
  <2> QED
    BY <2>1, <2>2
<1>5. CASE lockOf'[g] = lockOf[g]
  <2>1. ASSUME NEW d \in Clients, UnderWay(d, "DeleteGraph")', target'[d] = g
        PROVE  g \notin known' /\ lockOf'[g] = 0
    BY <1>1, <1>2, <1>3, <1>5, <2>1 DEF LockedAtFirst
  <2>2. ASSUME NEW d \in Clients, UnderWay(d, "DeleteGraph")', target'[d] = g,
               NEW e \in Clients, UnderWay(e, "DeleteGraph")', target'[e] = g
        PROVE  d = e
    <3>1. CASE /\ UnderWay(d, "DeleteGraph") /\ target[d] = g
               /\ UnderWay(e, "DeleteGraph") /\ target[e] = g
      BY <3>1 DEF LockedAtFirst
    <3>2. CASE Unmarks(c) /\ target'[c] = g
      <4>1. g \in known
        BY <1>2, <3>2
      <4> QED
        BY <1>3, <2>2, <4>1 DEF LockedAtFirst
    <3> QED
      BY <1>3, <2>2, <3>1, <3>2
  <2> QED
    BY <1>1, <1>4, <1>5, <2>1, <2>2 DEF LockedAtFirst
<1>6. CASE /\ UnderWay(c, "DeleteGraph") /\ at[c] = "locked" /\ at'[c] = "done"
           /\ target[c] = g
  <2>1. g \notin known /\ lockOf[g] = 0
    BY <1>6 DEF LockedAtFirst
  <2>2. \A d \in Clients : ~(at'[d] = "loaded" /\ target'[d] = g)
    <3> SUFFICES ASSUME NEW d \in Clients, at'[d] = "loaded", target'[d] = g PROVE FALSE
      OBVIOUS
    <3>1. d # c
      BY <1>6
    <3>2. at[d] = "loaded" /\ target[d] = target[c]
      BY <1>0, <1>6, <3>1 DEF OthersStay
    <3> QED
      BY <1>6, <2>1, <3>2, ForgottenAlone
  <2>3. \A d \in Clients : ~(UnderWay(d, "DeleteGraph")' /\ target'[d] = g)
    <3> SUFFICES ASSUME NEW d \in Clients, UnderWay(d, "DeleteGraph")', target'[d] = g
                 PROVE  FALSE
      OBVIOUS
    <3>1. d # c
      BY <1>6 DEF UnderWay, Outside
    <3>2. UnderWay(d, "DeleteGraph") /\ target[d] = g
      BY <1>3, <3>1
    <3> QED
      BY <1>6, <3>1, <3>2 DEF LockedAtFirst
  <2> QED
    BY <1>1, <2>1, <2>2, <2>3 DEF LockedAtFirst
<1> QED
  BY <1>5, <1>6, Forgets

LEMMA RewriteStep ==
    ASSUME FType, FType', ExcludeInv, FirstInv, RewriteInv, Next
    PROVE  RewriteInv'
<1>1. CASE Restart
  <2>1. /\ \A c \in Clients : at'[c] = "idle"
        /\ \A g \in Graphs : lockOf'[g] = 0
    BY <1>1, RestartFacts
  <2> QED
    BY <2>1 DEF RewriteInv, LockedAtFirst, UnderWay, Outside
<1>2. ASSUME NEW c \in Clients, Invoke(c) \/ Work(c) \/ Return(c), NEW g \in Graphs
      PROVE  /\ Askers({"DeleteGraph"}, g) = {} => lockOf'[g] = 0
             /\ Askers({"CreateGraph"}, g) = {} => LockedAtFirst(g)'
  <2>1. ASSUME Askers({"DeleteGraph"}, g) = {}
        PROVE  lockOf'[g] = 0
    <3>1. lockOf[g] = 0
      BY <2>1 DEF RewriteInv
    <3>2. UnderWay(c, "DeleteGraph") => target[c] # g
      BY <2>1, Asking DEF FType, UnderWay, Rewriters
    <3> QED
      BY <1>2, <3>1, <3>2, Forgets
  <2>2. Askers({"CreateGraph"}, g) = {} => LockedAtFirst(g)'
    BY <1>2, LockedAtFirstStep DEF RewriteInv
  <2> QED
    BY <2>1, <2>2
<1>3. CASE \A g \in Graphs : /\ Askers({"DeleteGraph"}, g) = {} => lockOf'[g] = 0
                             /\ Askers({"CreateGraph"}, g) = {} => LockedAtFirst(g)'
  BY <1>3 DEF RewriteInv, Askers
<1> QED
  BY <1>1, <1>2, <1>3 DEF Next

\* Who may rewrite a graph holds its first lock.
LEMMA RewritersHoldFirst ==
    ASSUME RewritersApart(Requests), FType, FirstInv, RewriteInv,
           NEW c \in Clients, NEW d \in Clients, c # d, Rewriting(c), Rewriting(d),
           target[c] = target[d]
    PROVE  lock[c] = 0
<1>1. /\ CallsType /\ Holding(c) /\ Fetched(c) /\ at[c] \notin Outside /\ at[d] \notin Outside
      /\ call[c].op \in Rewriters /\ call[d].op \in Rewriters
  BY Working DEF FType, Rewriting, Holding, Fetched, Doing, Outside, Rewriters, Suits, Writers
<1>2. PICK g \in Graphs : g = target[c]
  BY <1>1, Asking
<1>3. c \in Askers(Rewriters, g) /\ d \in Askers(Rewriters, g) /\ c \in Askers({call[c].op}, g)
  BY <1>1, <1>2, Asking
<1>4. \/ Askers({"CreateGraph"}, g) = {} \/ Askers({"DeleteGraph"}, g) = {}
      \/ \A x, y \in Askers(Rewriters, g) : x = y
  BY DEF RewritersApart, Askers
<1>5. CASE Askers({"DeleteGraph"}, g) = {}
  BY <1>1, <1>2, <1>5 DEF RewriteInv, FirstInv
<1>6. CASE Askers({"CreateGraph"}, g) = {}
  <2>1. call[c].op # "CreateGraph"
    BY <1>3, <1>6
  <2>2. at[c] = "loaded" \/ UnderWay(c, "DeleteGraph")
    BY <1>1, <2>1 DEF Rewriting, UnderWay, Doing
  <2>3. lockOf[g] = 0
    BY <1>2, <1>6, <2>2 DEF RewriteInv, LockedAtFirst
  <2> QED
    BY <1>1, <1>2, <2>3 DEF FirstInv
<1> QED
  BY <1>3, <1>4, <1>5, <1>6

\* Of the calls that are about to replace graph.json or to remove it there is one per
\* graph, whatever fails and however often the process dies, if no graph that somebody
\* creates is deleted, too, unless by the one goroutine that changes it: no lock is
\* forgotten before the last of those that may rewrite the graph with it is through.
THEOREM RewritersAreAlone == RewritersApart(Requests) => (Spec => []OneRewriter)
<1> SUFFICES ASSUME RewritersApart(Requests) PROVE Spec => []OneRewriter
  OBVIOUS
<1>1. Init => ExcludeInv /\ FirstInv /\ RewriteInv
  BY DEF Init, NoCalls, ExcludeInv, FirstInv, RewriteInv, LockedAtFirst, UnderWay, Fetched,
         Holding, Outside
<1>2. ExcludeInv /\ FirstInv /\ RewriteInv /\ UNCHANGED vars =>
         ExcludeInv' /\ FirstInv' /\ RewriteInv'
  BY DEF ExcludeInv, FirstInv, RewriteInv, LockedAtFirst, UnderWay, Fetched, Holding, Reading,
         vars, calls, maps
<1>3. FType /\ FType' /\ ExcludeInv /\ FirstInv /\ RewriteInv /\ [Next]_vars =>
         ExcludeInv' /\ FirstInv' /\ RewriteInv'
  BY <1>2, ExcludeStep, FirstStep, RewriteStep
<1>4. FType /\ ExcludeInv /\ FirstInv /\ RewriteInv => OneRewriter
  <2> SUFFICES ASSUME FType, ExcludeInv, FirstInv, RewriteInv,
                      NEW c \in Clients, NEW d \in Clients, c # d, Rewriting(c), Rewriting(d),
                      target[c] = target[d]
               PROVE  FALSE
    BY DEF OneRewriter
  <2>1. lock[c] = 0 /\ lock[d] = 0
    BY RewritersHoldFirst
  <2>2. Holding(c) /\ Holding(d)
    BY DEF Rewriting, Holding, Doing
  <2>3. Reading(c)
    BY <2>1, <2>2 DEF ExcludeInv
  <2>4. call[c].op \notin ReadOps
    BY Working DEF FType, Rewriting, Doing, Outside, Suits, Writers, ReadOps
  <2> QED
    BY <2>3, <2>4 DEF Reading
<1> QED
  BY <1>1, <1>3, <1>4, FTypeInvariant, PTL DEF Spec

------------------------------------------------------------------------------
(* Nodes on the disk.                                                        *)

LEMMA LoadedInvariant == RewritersApart(Requests) => (Spec => []LoadedInv)
<1> SUFFICES ASSUME RewritersApart(Requests) PROVE Spec => []LoadedInv
  OBVIOUS
<1>1. Init => LoadedInv
  BY DEF Init, NoCalls, LoadedInv
<1>2. LoadedInv /\ UNCHANGED vars => LoadedInv'
  BY DEF LoadedInv, vars, calls, storage
<1>3. FType /\ FType' /\ OneRewriter /\ LoadedInv /\ [Next]_vars => LoadedInv'
  BY <1>2, LoadedStep
<1> QED
  BY <1>1, <1>3, FTypeInvariant, RewritersAreAlone, PTL DEF Spec

LEMMA SurviveStep ==
    ASSUME FType, DeleteInv, LoadedInv, Next, NEW g \in Created, disk[g] # None
    PROVE  g \in DOMAIN disk' /\ disk'[g] # None /\ DOMAIN disk[g] \subseteq DOMAIN disk'[g]
<1>1. /\ g \in DOMAIN disk /\ g \in known
      /\ \A c \in Clients : ~(target[c] = g /\ call[c].op = "CreateGraph")
  BY DEF Created
<1>2. CASE Restart
  <2>1. g \in DOMAIN disk' /\ disk'[g] = disk[g]
    BY <1>1, <1>2, RestartFacts
  <2> QED
    BY <2>1
<1>3. ASSUME NEW c \in Clients, Invoke(c) \/ Work(c) \/ Return(c)
      PROVE  g \in DOMAIN disk' /\ disk'[g] # None /\ DOMAIN disk[g] \subseteq DOMAIN disk'[g]
  <2>1. CASE KeepsDisk(c)
    BY <1>1, <2>1, KeepsDiskFacts
  <2>2. CASE Removes(c)
    <3>1. target[c] # g
      BY <1>1, <2>2, RemovesFacts DEF DeleteInv, Outside
    <3> QED
      BY <1>1, <2>2, <3>1, RemovesFacts
  <2>3. CASE CreateGraph(c)
    <3>1. /\ call[c].op = "CreateGraph" /\ DOMAIN disk \subseteq DOMAIN disk'
          /\ \A x \in DOMAIN disk \ {target[c]} : disk'[x] = disk[x]
      BY <2>3, CreateGraphFacts
    <3> QED
      BY <1>1, <3>1
  <2>4. CASE Save(c)
    <3>1. CASE target[c] = g
      <4>1. DOMAIN disk[g] \subseteq DOMAIN loaded[c]
        BY <1>1, <2>4, <3>1, SaveFacts DEF LoadedInv
      <4>2. /\ g \in DOMAIN disk' /\ disk'[g] \in Nodess
            /\ DOMAIN loaded[c] \subseteq DOMAIN disk'[g]
        BY <2>4, <3>1, SaveFacts
      <4> QED
        BY <4>1, <4>2, NoneIsNothing
    <3>2. CASE target[c] # g
      <4>1. /\ DOMAIN disk' = DOMAIN disk \cup {target[c]}
            /\ \A x \in DOMAIN disk \ {target[c]} : disk'[x] = disk[x]
        BY <2>4, SaveFacts
      <4> QED
        BY <1>1, <3>2, <4>1
    <3> QED
      BY <3>1, <3>2
  <2> QED
    BY <1>3, <2>1, <2>2, <2>3, <2>4, DiskKinds
<1> QED
  BY <1>2, <1>3 DEF Next

\* No call, failure or crash loses a node of a graph whose CreateGraph has returned, if no
\* graph somebody creates is deleted, too, unless by the one goroutine that changes it:
\* what a writer saves has every node that is on the disk, and a deletion made the graph
\* unknown first.
THEOREM NodesAreSafe == RewritersApart(Requests) => (Spec => NodesSurvive)
<1> SUFFICES ASSUME RewritersApart(Requests) PROVE Spec => NodesSurvive
  OBVIOUS
<1>1. FType /\ DeleteInv /\ LoadedInv /\ [Next]_vars =>
         [\A g \in Created : disk[g] # None =>
             /\ g \in DOMAIN disk'
             /\ disk'[g] # None
             /\ DOMAIN disk[g] \subseteq DOMAIN disk'[g]]_vars
  BY SurviveStep
<1>2. Spec => [](FType /\ DeleteInv /\ LoadedInv)
  BY ApartCreates, KnownInvariant, LoadedInvariant, PTL
<1> QED
  BY <1>1, <1>2, PTL DEF Spec, NodesSurvive

------------------------------------------------------------------------------
(* Contents.                                                                 *)

\* What a writer puts into a graph is stored, if its content is.
LEMMA ChangedStored ==
    ASSUME CallsType, NEW c \in Clients, at[c] = "loaded", NEW g, AllStored(Keeping, g, loaded[c]),
           call[c].op = "SetContent" /\ ~Embedded(call[c]) => <<g, Kept(call[c].content)>> \in Keeping
    PROVE  AllStored(Keeping, g, With(loaded[c], call[c].p, Changed(call[c], loaded[c])))
<1>1. PICK r : r = call[c]
  OBVIOUS
<1>2. PICK nodes : nodes = loaded[c]
  OBVIOUS
<1>3. PICK n : n = Changed(r, nodes)
  OBVIOUS
<1>4. /\ r \in All /\ nodes \in Nodess /\ r.op \in Writers /\ r.p \in Paths
      /\ r.op # "AddNode" => r.p \in DOMAIN nodes
  BY <1>1, <1>2, Working, Requested DEF Suits, Outside, Writers, NodeOps
<1>5. \A s \in Sides : n[s] # None /\ ~n[s].embedded => <<g, n[s].hash>> \in Keeping
  <2>1. CASE r.op = "AddNode"
    BY <1>3, <2>1 DEF Changed, Node, Sides
  <2>2. CASE r.op # "AddNode"
    <3>1. r.p \in DOMAIN nodes /\ nodes[r.p] \in NodeRecord
      BY <1>4, <2>2, MapType DEF Nodess
    <3>2. \A s \in Sides : nodes[r.p][s] # None /\ ~nodes[r.p][s].embedded =>
                              <<g, nodes[r.p][s].hash>> \in Keeping
      BY <1>2, <3>1 DEF AllStored
    <3>3. CASE r.op = "UpdateNode"
      <4>1. PICK data : data = IF r.merge THEN Merge(nodes[r.p].data, r.data) ELSE r.data
        OBVIOUS
      <4>2. n = [nodes[r.p] EXCEPT !.data = data]
        BY <1>3, <3>3, <4>1 DEF Changed
      <4>3. \A s \in Sides : n[s] = nodes[r.p][s]
        BY <3>1, <4>2 DEF NodeRecord, Sides
      <4> QED
        BY <3>2, <4>3
    <3>4. CASE r.op = "SetContent"
      <4>1. PICK h : h = Held(Kept(r.content), Embedded(r))
        OBVIOUS
      <4>2. n = [nodes[r.p] EXCEPT ![r.side] = h] /\ r.side \in Sides
        BY <1>3, <1>4, <3>4, <4>1, Requested DEF Changed
      <4>3. \A s \in Sides : n[s] = IF s = r.side THEN h ELSE nodes[r.p][s]
        BY <3>1, <4>2 DEF NodeRecord, Sides
      <4>4. h.hash = Kept(r.content) /\ h.embedded = Embedded(r)
        BY <4>1 DEF Held
      <4>5. ~h.embedded => <<g, h.hash>> \in Keeping
        BY <1>1, <3>4, <4>4
      <4> QED
        BY <3>2, <4>3, <4>5
    <3> QED
      BY <1>4, <2>2, <3>3, <3>4 DEF Writers
  <2> QED
    BY <2>1, <2>2
<1>6. PICK m : m = With(nodes, r.p, n)
  OBVIOUS
<1>7. \A p \in DOMAIN m : m[p] = n \/ (p \in DOMAIN nodes /\ m[p] = nodes[p])
  BY <1>6 DEF With
<1>8. AllStored(Keeping, g, m)
  BY <1>2, <1>5, <1>7 DEF AllStored
<1> QED
  BY <1>1, <1>2, <1>3, <1>6, <1>8

\* A step that keeps the content files of a graph, or puts what it removes among the
\* deleted, keeps what is stored there.
KeepsFiles(g) == \A v : <<g, v>> \in Keeping => <<g, v>> \in Keeping'

LEMMA StaysStored ==
    ASSUME NEW g, KeepsFiles(g)
    PROVE  \A nodes : AllStored(Keeping, g, nodes) => AllStored(Keeping', g, nodes)
BY DEF KeepsFiles, AllStored

\* Where content files go, their graph goes too, by who creates or deletes it, or they
\* are among the deleted.
LEMMA FilesFacts ==
    ASSUME FType, NEW c \in Clients, Invoke(c) \/ Work(c) \/ Return(c)
    PROVE  /\ mode' = mode
           /\ "tornContent" \notin Faults => torn' \subseteq torn
           /\ \/ \A g : KeepsFiles(g)
              \/ /\ Removes(c) /\ target[c] \notin DOMAIN disk'
                 /\ \A g : g # target[c] => KeepsFiles(g)
<1>1. mode' = mode
  BY DEF Invoke, Return, Work, FetchLock, Acquire, IOFails, GraphStep, MarkGraph, CreateGraph,
         CreateFails, CreationFails, UnmarkGraph, DeleteGraph, DeleteFails, DeletionFails,
         ListGraphs, NodeStep, NotKept, StartNodeOp,
         StoreExternal, GraphMissing, GraphTorn, ListNodes, NodeExists, NodeMissing, GetNode,
         ReadContent, Load, Save, SaveFails, ContentStep, FindActive, CheckActive, StoreContent,
         GetContent, DeleteContent
<1>2. CASE UNCHANGED <<files, torn, deleted>>
  BY <1>1, <1>2 DEF KeepsFiles, Keeping
<1>3. CASE \E v : /\ WriteContent(target[c], v) \/ WriteContentFails(target[c], v)
                  /\ deleted' = deleted
  BY <1>1, <1>3 DEF KeepsFiles, Keeping, WriteContent, WriteContentFails
<1>4. CASE Without(target[c]) /\ Removes(c)
  <2>1. PICK S : S = DOMAIN disk \ {target[c]}
    OBVIOUS
  <2>2. DOMAIN disk' = S
    BY <1>4, <2>1, RestrictIsMap DEF Without, FType, StorageType
  <2>3. \A g : g # target[c] => KeepsFiles(g)
    BY <1>4 DEF Without, KeepsFiles, Keeping
  <2> QED
    BY <1>1, <1>4, <2>1, <2>2, <2>3 DEF Without
<1>5. CASE \E gone : /\ files' = files \ gone /\ torn' = torn \ gone
                     /\ deleted' = deleted \cup gone
  BY <1>1, <1>5 DEF KeepsFiles, Keeping
<1>6. CASE FetchLock(c) \/ Acquire(c) \/ Load(c) \/ Quiet(c) \/ Marks(c) \/ Unmarks(c)
  BY <1>2, <1>6, LockFacts, MarksFacts, UnmarksFacts DEF Quiet, storage
<1>7. CASE StoreExternal(c)
  BY <1>2, <1>3, <1>7, StoreExternalFacts
<1>8. CASE CreateGraph(c) \/ GraphMissing(c) \/ Save(c)
  BY <1>2, <1>8 DEF CreateGraph, GraphMissing, Save, storage
<1>9. CASE CreateFails(c) \/ DeleteGraph(c) \/ DeleteFails(c)
  <2>1. \/ Without(target[c]) /\ Removes(c)
        \/ UNCHANGED storage
        \/ \E disks : HalfRemoved(target[c], disks)
    BY <1>9, CreationFailsFacts, DeletionFailsFacts DEF FType, CreateFails, DeleteGraph, Removes
  <2>2. (\E disks : HalfRemoved(target[c], disks)) =>
           \E gone : /\ files' = files \ gone /\ torn' = torn \ gone
                    /\ deleted' = deleted \cup gone
    BY DEF HalfRemoved
  <2> QED
    BY <1>2, <1>4, <1>5, <2>1, <2>2 DEF storage
<1>11. CASE DeleteContent(c)
  <2>1. CASE UNCHANGED <<files, torn, deleted>>
    BY <1>2, <2>1
  <2> QED
    BY <1>2, <1>5, <1>11, <2>1 DEF DeleteContent
<1>10. CASE StoreContent(c)
  <2>1. /\ deleted' = deleted
        /\ \E v : WriteContent(target[c], v) \/ WriteContentFails(target[c], v)
    BY <1>10 DEF StoreContent
  <2> QED
    BY <1>3, <2>1
<1> QED
  BY <1>6, <1>7, <1>8, <1>9, <1>10, <1>11, Kinds DEF Changes

\* What c needs stored once it has made its step.
LEMMA OwnContents ==
    ASSUME FType, FType', NEW c \in Clients, Invoke(c) \/ Work(c) \/ Return(c), RefInv,
           \A g : KeepsFiles(g), mode' = mode
    PROVE  /\ at'[c] = "loaded" => AllStored(Keeping', target'[c], loaded'[c])
           /\ /\ at'[c] \notin Outside \cup External
              /\ call'[c].op = "SetContent" /\ ~Embedded(call'[c])
              => \/ <<target'[c], Kept(call'[c].content)>> \in Keeping'
                 \/ Stranded(c)'
<1>0. /\ \A g, v : <<g, v>> \in Keeping => <<g, v>> \in Keeping'
      /\ \A g, nodes : AllStored(Keeping, g, nodes) => AllStored(Keeping', g, nodes)
  BY StaysStored DEF KeepsFiles
<1>1. CASE FetchLock(c) \/ Acquire(c) \/ Load(c)
  <2>1. call'[c] = call[c] /\ target'[c] = target[c]
    BY <1>1, LockFacts
  <2>2. at'[c] = "loaded" => AllStored(Keeping, target[c], loaded'[c])
    <3>1. CASE FetchLock(c) \/ Acquire(c)
      BY <3>1, GotoFacts DEF FetchLock, Acquire, FType, CallsType
    <3>2. CASE Load(c)
      <4>1. loaded'[c] = disk[target[c]] /\ target[c] \in DOMAIN disk /\ disk[target[c]] # None
        BY <3>2, LockFacts, LoadableFacts DEF FType, Load, Nodes
      <4> QED
        BY <4>1 DEF RefInv
    <3> QED
      BY <1>1, <3>1, <3>2
  <2>3. at'[c] \notin Outside \cup External => at[c] \notin Outside \cup External
    BY <1>1 DEF FetchLock, Acquire, Goto, Load, Loadable, Available, AtNode, FType, CallsType,
                Outside, External
  <2>4. Load(c) => target[c] \in known
    BY DEF Load, Loadable, Available
  <2>5. ~Load(c) => at'[c] # "loaded"
    BY <1>1, GotoFacts DEF FetchLock, Acquire, FType, CallsType
  <2>6. known' = known
    BY <1>1, LockFacts DEF maps
  <2>7. /\ at[c] \notin Outside \cup External /\ call[c].op = "SetContent" /\ ~Embedded(call[c])
        => \/ <<target[c], Kept(call[c].content)>> \in Keeping
           \/ Stranded(c)
    BY DEF RefInv
  <2> QED
    BY <1>0, <2>1, <2>2, <2>3, <2>4, <2>5, <2>6, <2>7 DEF Stranded, Gone
<1>2. CASE Quiet(c)
  <2>1. at'[c] \in Away /\ (at'[c] = "lock" /\ call'[c].op = "SetContent" => Embedded(call'[c]))
    BY <1>2 DEF Quiet, Outside
  <2>2. at'[c] = "checkActive" => call'[c].op \in ContentOps
    BY DEF FType, CallsType, CallOK, Suits, Outside
  <2> QED
    BY <2>1, <2>2 DEF Away, Outside, External, ContentOps
<1>3. CASE Marks(c) \/ Unmarks(c)
  BY <1>3, MarksFacts, UnmarksFacts
<1>4. CASE StoreExternal(c)
  <2>1. /\ at'[c] \in {"lock", "done"} /\ call'[c] = call[c]
        /\ at'[c] = "lock" => /\ target'[c] = target[c]
                              /\ WriteContent(target[c], Kept(call[c].content))
    BY <1>4, StoreExternalFacts
  <2> QED
    BY <2>1 DEF WriteContent, Keeping, Outside
<1>5. CASE Changes(c)
  BY <1>5, ChangesEnd DEF Ends, Outside
<1> QED
  BY <1>1, <1>2, <1>3, <1>4, <1>5, Kinds

LEMMA GoneStays ==
    ASSUME FType, NEW c \in Clients, Invoke(c) \/ Work(c) \/ Return(c), NEW g, Gone(g)
    PROVE  Gone(g)'
<1>1. CASE Marks(c)
  <2>1. /\ known' = known \cup {call[c].g} /\ call[c].op = "CreateGraph" /\ at[c] = "start"
    BY <1>1, MarksFacts
  <2>2. call[c] \in Requests[c]
    BY <2>1, Working DEF FType
  <2> QED
    BY <2>1, <2>2 DEF Gone, Askers
<1>2. CASE known' \subseteq known
  BY <1>2 DEF Gone, Askers
<1> QED
  BY <1>1, <1>2, KnownFacts

\* Where the content files of a graph are removed, a writer has nothing loaded from it,
\* and will find it gone.
LEMMA RemovedIsGone ==
    ASSUME RewritersApart(Requests), WritersApart, FType, OneRewriter, DeleteInv,
           NEW c \in Clients, Removes(c),
           NEW d \in Clients, d # c, at[d] \notin Outside, call[d].op \in Writers,
           target[d] = target[c]
    PROVE  Stranded(d)
<1>1. /\ at[c] = "locked" /\ call[c] # None /\ call[c].op \in {"CreateGraph", "DeleteGraph"}
  BY RemovesFacts
<1>2. /\ call[c] \in Requests[c] /\ target[c] = call[c].g
      /\ call[d] \in Requests[d] /\ target[d] = call[d].g
  BY <1>1, Working DEF FType, Suits, Outside, ContentOps, Writers
<1>3. call[c].op = "DeleteGraph"
  BY <1>1, <1>2 DEF WritersApart
<1>4. at[d] # "loaded"
  BY <1>1, <1>3 DEF OneRewriter, Rewriting, Doing
<1>5. target[c] \notin known
  BY <1>1, <1>3 DEF DeleteInv, Outside
<1>6. /\ target[c] \in Graphs /\ c \in Askers({"DeleteGraph"}, target[c])
      /\ c \in Askers(Rewriters, target[c]) /\ d \in Askers(Rewriters, target[c])
  <2>1. c \in Askers({call[c].op}, target[c]) /\ call[c].op \in Rewriters
        /\ call[d].op \in Rewriters /\ target[c] \in Graphs
    BY <1>1, <1>3, Asking DEF FType, Rewriters, Writers, Outside
  <2> QED
    BY <1>1, <1>3, <2>1, Asking DEF FType, Outside
<1>7. Askers({"CreateGraph"}, target[c]) = {}
  BY <1>6 DEF RewritersApart, Askers
<1> QED
  BY <1>4, <1>5, <1>7 DEF Stranded, Gone

LEMMA RefStep ==
    ASSUME RewritersApart(Requests), WritersApart, "tornContent" \notin Faults,
           FType, FType', OneRewriter, DeleteInv, RefInv, Next
    PROVE  RefInv'
<1>1. CASE Restart
  <2>1. /\ files' = files /\ torn' = torn /\ deleted' = deleted
        /\ \A x \in DOMAIN disk' : disk'[x] # None => x \in DOMAIN disk /\ disk'[x] = disk[x]
        /\ \A c \in Clients : at'[c] = "idle"
    BY <1>1, RestartFacts
  <2>2. \A g : KeepsFiles(g)
    BY <2>1 DEF KeepsFiles, Keeping
  <2>3. \A g, nodes : AllStored(Keeping, g, nodes) => AllStored(Keeping', g, nodes)
    BY <2>2, StaysStored
  <2> QED
    BY <2>1, <2>3 DEF RefInv, Outside
<1>2. ASSUME NEW c \in Clients, Invoke(c) \/ Work(c) \/ Return(c)
      PROVE  RefInv'
  <2>1. mode' = mode /\ torn' = {}
    BY <1>2, FilesFacts DEF RefInv
  <2>2. OthersStay(c)
    BY <1>2, Kinds
  <2>3. CASE \A g : KeepsFiles(g)
    <3>0. /\ \A g, v : <<g, v>> \in Keeping => <<g, v>> \in Keeping'
          /\ \A g, nodes : AllStored(Keeping, g, nodes) => AllStored(Keeping', g, nodes)
      BY <2>3, StaysStored DEF KeepsFiles
    <3>1. ASSUME NEW g \in DOMAIN disk', disk'[g] # None
          PROVE  AllStored(Keeping', g, disk'[g])
      <4>1. CASE g \in DOMAIN disk /\ disk'[g] = disk[g]
        BY <3>0, <3>1, <4>1 DEF RefInv
      <4>2. CASE KeepsDisk(c) \/ Removes(c)
        BY <3>1, <4>1, <4>2, KeepsDiskFacts, RemovesFacts
      <4>3. CASE CreateGraph(c)
        <5>1. CASE g = target[c]
          BY <4>3, <5>1, CreateGraphFacts DEF AllStored
        <5>2. CASE g # target[c]
          <6>1. /\ DOMAIN disk' = DOMAIN disk \cup {target[c]}
                /\ \A x \in DOMAIN disk \ {target[c]} : disk'[x] = disk[x]
            BY <4>3, CreateGraphFacts
          <6>2. g \in DOMAIN disk /\ disk'[g] = disk[g]
            BY <3>1, <5>2, <6>1
          <6> QED
            BY <4>1, <6>2
        <5> QED
          BY <5>1, <5>2
      <4>4. CASE Save(c)
        <5>1. CASE g = target[c]
          <6>1. /\ at[c] = "loaded"
                /\ disk'[g] = With(loaded[c], call[c].p, Changed(call[c], loaded[c]))
            BY <4>4, <5>1, SaveFacts
          <6>2. AllStored(Keeping, g, loaded[c])
            BY <5>1, <6>1 DEF RefInv
          <6>3. call[c].op = "SetContent" /\ ~Embedded(call[c]) =>
                  <<g, Kept(call[c].content)>> \in Keeping
            BY <5>1, <6>1 DEF RefInv, Stranded, Outside, External
          <6>4. AllStored(Keeping, g, With(loaded[c], call[c].p, Changed(call[c], loaded[c])))
            BY <6>1, <6>2, <6>3, ChangedStored DEF FType
          <6> QED
            BY <3>0, <6>1, <6>4
        <5>2. CASE g # target[c]
          <6>1. /\ DOMAIN disk' = DOMAIN disk \cup {target[c]}
                /\ \A x \in DOMAIN disk \ {target[c]} : disk'[x] = disk[x]
            BY <4>4, SaveFacts
          <6>2. g \in DOMAIN disk /\ disk'[g] = disk[g]
            BY <3>1, <5>2, <6>1
          <6> QED
            BY <4>1, <6>2
        <5> QED
          BY <5>1, <5>2
      <4> QED
        BY <1>2, <4>2, <4>3, <4>4, DiskKinds
    <3>2. ASSUME NEW d \in Clients
          PROVE  /\ at'[d] = "loaded" => AllStored(Keeping', target'[d], loaded'[d])
                 /\ /\ at'[d] \notin Outside \cup External
                    /\ call'[d].op = "SetContent" /\ ~Embedded(call'[d])
                    => \/ <<target'[d], Kept(call'[d].content)>> \in Keeping'
                       \/ Stranded(d)'
      <4>1. CASE d = c
        BY <1>2, <2>1, <2>3, <4>1, OwnContents
      <4>2. CASE d # c
        <5>1. /\ call'[d] = call[d] /\ at'[d] = at[d] /\ target'[d] = target[d]
              /\ loaded'[d] = loaded[d]
          BY <2>2, <4>2 DEF OthersStay
        <5>2. at[d] = "loaded" => AllStored(Keeping, target[d], loaded[d])
          BY DEF RefInv
        <5>3. /\ at[d] \notin Outside \cup External
              /\ call[d].op = "SetContent" /\ ~Embedded(call[d])
              => \/ <<target[d], Kept(call[d].content)>> \in Keeping
                 \/ Stranded(d)
          BY DEF RefInv
        <5>4. Stranded(d) => Stranded(d)'
          <6>1. PICK g : g = target[d]
            OBVIOUS
          <6>2. Gone(g) => Gone(g)'
            BY <1>2, GoneStays
          <6> QED
            BY <5>1, <6>1, <6>2 DEF Stranded, Gone
        <5> QED
          BY <3>0, <5>1, <5>2, <5>3, <5>4
      <4> QED
        BY <4>1, <4>2
    <3> QED
      BY <2>1, <3>1, <3>2 DEF RefInv, Embedded, Kept
  <2>4. CASE /\ Removes(c) /\ target[c] \notin DOMAIN disk'
             /\ \A g : g # target[c] => KeepsFiles(g)
    <3>0. ASSUME NEW g, g # target[c]
          PROVE  /\ \A v : <<g, v>> \in Keeping => <<g, v>> \in Keeping'
                 /\ \A nodes : AllStored(Keeping, g, nodes) => AllStored(Keeping', g, nodes)
      BY <2>4, <3>0, StaysStored DEF KeepsFiles
    <3>1. ASSUME NEW g \in DOMAIN disk', disk'[g] # None
          PROVE  AllStored(Keeping', g, disk'[g])
      <4>1. g \in DOMAIN disk /\ disk'[g] = disk[g] /\ g # target[c]
        BY <2>4, RemovesFacts
      <4>2. AllStored(Keeping, g, disk[g])
        BY <3>1, <4>1 DEF RefInv
      <4> QED
        BY <3>0, <4>1, <4>2
    <3>2. at[c] = "locked" /\ call[c].op \in {"CreateGraph", "DeleteGraph"}
      BY <2>4, RemovesFacts
    <3>3. at'[c] = "done"
      BY <2>4, ChangesEnd DEF Removes, Changes, Ends
    <3>4. ASSUME NEW d \in Clients, d # c, at[d] \notin Outside, call[d].op \in Writers,
                 target[d] = target[c]
          PROVE  Stranded(d)
      BY <2>4, <3>4, RemovedIsGone
    <3>5. ASSUME NEW d \in Clients
          PROVE  /\ at'[d] = "loaded" => AllStored(Keeping', target'[d], loaded'[d])
                 /\ /\ at'[d] \notin Outside \cup External
                    /\ call'[d].op = "SetContent" /\ ~Embedded(call'[d])
                    => \/ <<target'[d], Kept(call'[d].content)>> \in Keeping'
                       \/ Stranded(d)'
      <4>1. CASE d = c
        BY <3>3, <4>1 DEF Outside
      <4>2. CASE d # c
        <5>1. /\ call'[d] = call[d] /\ at'[d] = at[d] /\ target'[d] = target[d]
              /\ loaded'[d] = loaded[d]
          BY <2>2, <4>2 DEF OthersStay
        <5>2. at[d] = "loaded" => /\ AllStored(Keeping, target[d], loaded[d])
                                  /\ target[d] # target[c]
          <6> SUFFICES ASSUME at[d] = "loaded" PROVE target[d] # target[c]
            BY DEF RefInv
          <6>1. at[d] \notin Outside /\ call[d].op \in Writers
            BY Working DEF FType, Suits, Outside
          <6>2. ~Stranded(d)
            BY DEF Stranded
          <6> QED
            BY <3>4, <4>2, <6>1, <6>2
        <5>3. /\ at[d] \notin Outside \cup External
              /\ call[d].op = "SetContent" /\ ~Embedded(call[d])
              => \/ <<target[d], Kept(call[d].content)>> \in Keeping /\ target[d] # target[c]
                 \/ Stranded(d)
          BY <3>4, <4>2 DEF RefInv, Writers
        <5>4. Stranded(d) => Stranded(d)'
          <6>1. PICK g : g = target[d]
            OBVIOUS
          <6>2. Gone(g) => Gone(g)'
            BY <1>2, GoneStays
          <6> QED
            BY <5>1, <6>1, <6>2 DEF Stranded, Gone
        <5> QED
          BY <3>0, <5>1, <5>2, <5>3, <5>4
      <4> QED
        BY <4>1, <4>2
    <3> QED
      BY <2>1, <3>1, <3>5 DEF RefInv, Embedded, Kept
  <2> QED
    BY <1>2, <2>3, <2>4, FilesFacts
<1> QED
  BY <1>1, <1>2 DEF Next

LEMMA RefInvariant ==
    RewritersApart(Requests) /\ WritersApart /\ "tornContent" \notin Faults
        => (Spec => []RefInv)
<1> SUFFICES ASSUME RewritersApart(Requests), WritersApart, "tornContent" \notin Faults
             PROVE  Spec => []RefInv
  OBVIOUS
<1>1. Init => RefInv
  <2> SUFFICES ASSUME Init PROVE RefInv
    OBVIOUS
  <2>1. \A g \in DOMAIN disk : DOMAIN disk[g] = {}
    <3>1. PICK empty : empty = << >> /\ DOMAIN empty = {}
      BY EmptyMap
    <3> QED
      BY <3>1 DEF Init
  <2> QED
    BY <2>1 DEF Init, NoCalls, RefInv, AllStored, Outside
<1>2. RefInv /\ UNCHANGED vars => RefInv'
  BY DEF RefInv, Keeping, Embedded, Kept, Stranded, Gone, vars, calls, storage, maps
<1>3. FType /\ FType' /\ OneRewriter /\ DeleteInv /\ RefInv /\ [Next]_vars => RefInv'
  BY <1>2, RefStep
<1>4. Spec => [](FType /\ OneRewriter /\ DeleteInv)
  BY ApartCreates, KnownInvariant, RewritersAreAlone, PTL
<1> QED
  BY <1>1, <1>3, <1>4, PTL DEF Spec

\* What graph.json names is whole in its file, or was deleted as such, if no write of a
\* content is cut short, nobody else writes nodes of a graph somebody creates, and none
\* that somebody creates is deleted by another: the file is there before any save that
\* names it, and who set a content finds its graph gone when its file is.
THEOREM ContentsAreWhole ==
    RewritersApart(Requests) /\ WritersApart /\ "tornContent" \notin Faults
        => (Spec => []ReferencedContentIsWhole)
<1> SUFFICES ASSUME RewritersApart(Requests), WritersApart, "tornContent" \notin Faults
             PROVE  Spec => []ReferencedContentIsWhole
  OBVIOUS
<1>1. RefInv => ReferencedContentIsWhole
  BY DEF RefInv, AllStored, Keeping, ReferencedContentIsWhole
<1> QED
  BY <1>1, RefInvariant, PTL

------------------------------------------------------------------------------
(* Atomicity: to callers that create and delete graphs of their own the      *)
(* store is a GraphStore, if what fails leaves nothing half done, and no     *)
(* graph is overlooked when the store is opened.                             *)

CleanFaults == Faults \cap {"remove", "scan", "tornGraph", "tornContent"} = {}

\* Who creates a graph has it known and not yet on the disk, who deletes one has it
\* on the disk still; who is going to save it has all that is there.
SyncOf(c) ==
    /\ UnderWay(c, "CreateGraph") => target[c] \in known \ DOMAIN disk
    /\ UnderWay(c, "DeleteGraph") => target[c] \in DOMAIN disk \ known
    /\ at[c] = "loaded" =>
          /\ target[c] \in known \cap DOMAIN disk /\ loaded[c] = disk[target[c]]
          /\ call[c].op = "AddNode" => call[c].p \notin DOMAIN loaded[c]

\* So the known graphs are those on the disk, but for those somebody works on.
SyncInv ==
    /\ deleted = {}
    /\ \A g \in DOMAIN disk : disk[g] # None
    /\ \A g \in DOMAIN disk \ known :
         \E c \in Clients : UnderWay(c, "DeleteGraph") /\ target[c] = g
    /\ \A c \in Clients : SyncOf(c)

LEMMA ApartCalls ==
    ASSUME CallsApart(Requests)
    PROVE  RewritersApart(Requests) /\ CreatesApart /\ WritersApart
<1>1. \A c, d \in Clients : c # d => \A r \in Requests[c], q \in Requests[d] :
        r.op \in {"CreateGraph", "DeleteGraph"} => r.g # q.g
  BY DEF CallsApart
<1>2. RewritersApart(Requests)
  <2> SUFFICES ASSUME NEW g \in Graphs
               PROVE  \/ Askers({"CreateGraph"}, g) = {} \/ Askers({"DeleteGraph"}, g) = {}
                      \/ \A c, d \in Askers(Rewriters, g) : c = d
    BY DEF RewritersApart, Askers
  <2> SUFFICES ASSUME NEW e \in Askers({"CreateGraph"}, g), NEW c \in Askers(Rewriters, g)
               PROVE  c = e
    OBVIOUS
  <2> QED
    BY <1>1 DEF Askers
<1> QED
  BY <1>1, <1>2 DEF CreatesApart, WritersApart

\* What a call that is being made is for.
LEMMA Called ==
    ASSUME CallsApart(Requests), CallsType, NEW c \in Clients, call[c] # None
    PROVE  /\ call[c] \in Requests[c] /\ call[c] \in All /\ call[c].op \in GraphOps \cup NodeOps
           /\ at[c] \notin Outside =>
                 /\ call[c].op # "ListGraphs" /\ target[c] = call[c].g /\ target[c] \in Graphs
                 /\ Suits(call[c], at[c], target[c], loaded[c])
<1>1. call[c] \in Requests[c] /\ call[c] \in All
  BY Working DEF CallOK, CallsType
<1>2. call[c].op \in GraphOps \cup NodeOps
  BY <1>1 DEF CallsApart
<1>3. at[c] \notin Outside => target[c] \in Graphs /\ Suits(call[c], at[c], target[c], loaded[c])
  BY Working
<1> QED
  BY <1>1, <1>2, <1>3 DEF Suits, GraphOps, NodeOps, ContentOps

LEMMA Apart ==
    ASSUME CallsApart(Requests), CallsType, NEW c \in Clients, NEW d \in Clients, c # d,
           call[c] # None, call[c].op \in {"CreateGraph", "DeleteGraph"}, call[d] # None
    PROVE  call[d].op # "ListGraphs" /\ call[d].g # call[c].g
<1>1. call[c] \in Requests[c] /\ call[d] \in Requests[d]
  BY Called
<1> QED
  BY <1>1 DEF CallsApart

LEMMA Busy ==
    ASSUME CallsType, NEW c \in Clients, at[c] \notin {"idle"}
    PROVE  call[c] # None
BY Working

\* A graph is known when it is on the disk, to who is about to work on it; and so are all,
\* to who lists them.
LEMMA InSync ==
    ASSUME CallsApart(Requests), FType, KnownHasFile, SyncInv, NEW c \in Clients, call[c] # None
    PROVE  /\ at[c] = "start" \/ call[c].op \in NodeOps =>
                (call[c].g \in known <=> call[c].g \in DOMAIN disk)
           /\ call[c].op = "ListGraphs" => known = DOMAIN disk
<1>0. CallsType /\ known \subseteq Graphs
  BY DEF FType, MapsType
<1>1. ASSUME NEW g, g \in known, g \notin DOMAIN disk
      PROVE  \E d \in Clients : UnderWay(d, "CreateGraph") /\ target[d] = g
  <2>1. PICK d \in Clients : call[d] # None /\ call[d].op = "CreateGraph" /\ target[d] = g
    BY <1>1 DEF KnownHasFile
  <2>2. target[d] # None
    BY <1>0, <1>1, <2>1, NoneIsNothing
  <2> QED
    BY <1>0, <2>1, <2>2, Working DEF CallOK, UnderWay
<1>2. ASSUME NEW g, g \in DOMAIN disk, g \notin known
      PROVE  \E d \in Clients : UnderWay(d, "DeleteGraph") /\ target[d] = g
  BY <1>2 DEF SyncInv
<1>3. ASSUME NEW d \in Clients, UnderWay(d, "CreateGraph") \/ UnderWay(d, "DeleteGraph"),
             at[c] = "start" \/ call[c].op \in NodeOps \cup {"ListGraphs"}
      PROVE  call[c].op # "ListGraphs" /\ target[d] # call[c].g
  <2>1. call[d] # None /\ call[d].op \in {"CreateGraph", "DeleteGraph"} /\ target[d] = call[d].g
    BY <1>0, <1>3, Called, Busy DEF UnderWay, Outside
  <2>2. d # c
    BY <1>3, <2>1 DEF UnderWay, Outside, NodeOps
  <2> QED
    BY <1>0, <2>1, <2>2, Apart
<1>4. at[c] = "start" \/ call[c].op \in NodeOps =>
        (call[c].g \in known <=> call[c].g \in DOMAIN disk)
  BY <1>1, <1>2, <1>3
<1>5. ASSUME call[c].op = "ListGraphs", NEW g
      PROVE  g \in known <=> g \in DOMAIN disk
  BY <1>1, <1>2, <1>3, <1>5
<1> QED
  BY <1>4, <1>5

------------------------------------------------------------------------------
(* Steps keep the graphs in step.                                            *)

\* The graphs but g are as they were.
Elsewhere(g) ==
    \A x : x # g => /\ x \in known' <=> x \in known
                    /\ x \in DOMAIN disk' <=> x \in DOMAIN disk
                    /\ x \in DOMAIN disk => disk'[x] = disk[x]

\* The steps that change the known graphs or graph.json.
Touches(c) ==
    Marks(c) \/ Unmarks(c) \/ GraphMissing(c) \/ CreateGraph(c) \/ CreateFails(c)
    \/ DeleteGraph(c) \/ Save(c)

LEMMA NoContentOps ==
    ASSUME CallsApart(Requests), CleanFaults, CallsType, NEW c \in Clients
    PROVE  ~StoreContent(c) /\ ~GetContent(c) /\ ~DeleteContent(c) /\ ~DeleteFails(c)
           /\ ~FindActive(c) /\ ~CheckActive(c)
<1>1. at[c] # "idle" => call[c].op \notin ContentOps
  BY Called, Busy DEF GraphOps, NodeOps, ContentOps
<1>2. at[c] = "checkActive" => call[c].op \in ContentOps
  BY Working DEF Suits, Outside
<1> QED
  BY <1>1, <1>2 DEF StoreContent, GetContent, DeleteContent, DeleteFails, DeletionFails,
                    HalfRemoved, FindActive, CheckActive, Doing, CleanFaults, ContentOps

LEMMA TouchKinds ==
    ASSUME CallsApart(Requests), CleanFaults, FType, NEW c \in Clients,
           Invoke(c) \/ Work(c) \/ Return(c)
    PROVE  /\ OthersStay(c) /\ deleted' = deleted
           /\ Touches(c) \/ UNCHANGED <<known, disk>>
<1>0. CallsType
  BY DEF FType
<1>1. CASE FetchLock(c) \/ Acquire(c) \/ Load(c)
  BY <1>1, LockFacts DEF storage, maps
<1>2. CASE Quiet(c)
  BY <1>2 DEF Quiet, storage, maps
<1>3. CASE Marks(c) \/ Unmarks(c)
  BY <1>3, MarksFacts, UnmarksFacts DEF storage, Touches
<1>4. CASE StoreExternal(c)
  BY <1>4, StoreExternalFacts DEF maps
<1>5. CASE Changes(c)
  <2>1. Touches(c)
    BY <1>0, <1>5, NoContentOps DEF Changes, Touches
  <2>2. deleted' = deleted
    BY <1>0, <1>5, NoContentOps
       DEF Changes, CreateGraph, CreateFails, CreationFails, HalfRemoved, CleanFaults, DeleteGraph,
           Without, GraphMissing, Save, storage
  <2> QED
    BY <1>5, <2>1, <2>2, ChangesEnd
<1> QED
  BY <1>1, <1>2, <1>3, <1>4, <1>5, Kinds

LEMMA TouchFacts ==
    ASSUME CallsApart(Requests), FType, NEW c \in Clients, Touches(c)
    PROVE  /\ call[c] # None /\ Elsewhere(call[c].g)
           /\ Marks(c) \/ Unmarks(c) \/ (target[c] = call[c].g /\ at[c] \notin Outside)
           /\ \/ call[c].op \in {"CreateGraph", "DeleteGraph"}
              \/ GraphMissing(c) /\ call[c].op \in NodeOps
              \/ Save(c) /\ at[c] = "loaded" /\ call[c].op \in Writers
<1>0. CallsType
  BY DEF FType
<1>1. CASE Marks(c) \/ Unmarks(c)
  <2>1. disk' = disk /\ \E g : g = call[c].g /\ (known' = known \cup {g} \/ known' = known \ {g})
    BY <1>1, MarksFacts, UnmarksFacts DEF storage
  <2> QED
    BY <1>1, <2>1, MarksFacts, UnmarksFacts DEF Elsewhere
<1>2. CASE GraphMissing(c)
  <2>1. at[c] = "locked" /\ call[c].op \in NodeOps /\ disk' = disk /\ known' = known \ {target[c]}
    BY <1>2 DEF GraphMissing, AtNode, storage
  <2>2. call[c] # None /\ target[c] = call[c].g
    BY <1>0, <2>1, Called, Busy DEF Outside
  <2> QED
    BY <1>2, <2>1, <2>2 DEF Elsewhere, Outside
<1>3. CASE CreateGraph(c)
  <2>1. /\ at[c] = "locked" /\ call[c].op = "CreateGraph" /\ call[c] # None /\ known' = known
        /\ DOMAIN disk' = DOMAIN disk \cup {target[c]}
        /\ \A x \in DOMAIN disk \ {target[c]} : disk'[x] = disk[x]
    BY <1>3, CreateGraphFacts
  <2>2. target[c] = call[c].g
    BY <1>0, <2>1, Called DEF Outside
  <2> QED
    BY <2>1, <2>2 DEF Elsewhere, Outside
<1>4. CASE CreateFails(c) \/ DeleteGraph(c)
  <2>1. /\ at[c] = "locked" /\ call[c].op \in {"CreateGraph", "DeleteGraph"} /\ call[c] # None
        /\ DOMAIN disk' \subseteq (DOMAIN disk) \cup {target[c]}
        /\ \A x \in DOMAIN disk : x # target[c] => x \in DOMAIN disk' /\ disk'[x] = disk[x]
        /\ known' = known \ {target[c]} \/ known' = known
    BY <1>4, RemovesFacts DEF Removes
  <2>2. target[c] = call[c].g
    BY <1>0, <2>1, Called DEF Outside
  <2> QED
    BY <2>1, <2>2 DEF Elsewhere, Outside
<1>5. CASE Save(c)
  <2>1. /\ at[c] = "loaded" /\ call[c].op \in Writers /\ known' = known
        /\ DOMAIN disk' = DOMAIN disk \cup {target[c]}
        /\ \A x \in DOMAIN disk \ {target[c]} : disk'[x] = disk[x]
    BY <1>5, SaveFacts DEF maps
  <2>2. call[c] # None /\ target[c] = call[c].g
    BY <1>0, <2>1, Called, Busy DEF Outside
  <2> QED
    BY <1>5, <2>1, <2>2 DEF Elsewhere, Outside
<1> QED
  BY <1>1, <1>2, <1>3, <1>4, <1>5 DEF Touches

LEMMA OthersSync ==
    ASSUME CallsApart(Requests), CleanFaults, FType, OneRewriter, SyncInv, NEW c \in Clients,
           Invoke(c) \/ Work(c) \/ Return(c), NEW d \in Clients, d # c
    PROVE  SyncOf(d)'
<1>0. CallsType /\ SyncOf(d)
  BY DEF FType, SyncInv
<1>1. /\ call'[d] = call[d] /\ at'[d] = at[d] /\ target'[d] = target[d]
      /\ loaded'[d] = loaded[d]
  BY TouchKinds DEF OthersStay
<1>2. CASE UNCHANGED <<known, disk>>
  BY <1>0, <1>1, <1>2 DEF SyncOf, UnderWay
<1>3. CASE Touches(c) /\ at[d] \notin Outside
  <2>1. call[d] # None /\ target[d] = call[d].g /\ Suits(call[d], at[d], target[d], loaded[d])
    BY <1>0, <1>3, Called, Busy DEF Outside
  <2>2. CASE target[d] # call[c].g
    <3>1. PICK x : x = target[d]
      OBVIOUS
    <3>2. /\ x \in known' <=> x \in known
          /\ x \in DOMAIN disk' <=> x \in DOMAIN disk
          /\ x \in DOMAIN disk => disk'[x] = disk[x]
      BY <1>3, <2>2, <3>1, TouchFacts DEF Elsewhere
    <3> QED
      BY <1>0, <1>1, <3>1, <3>2 DEF SyncOf, UnderWay
  <2>3. CASE target[d] = call[c].g
    <3>1. call[c] # None /\ call[c].op \notin {"CreateGraph", "DeleteGraph"}
      BY <1>0, <1>3, <2>1, <2>3, TouchFacts, Apart
    <3>2. ~Marks(c) /\ ~Unmarks(c) /\ (GraphMissing(c) \/ (Save(c) /\ at[c] = "loaded"))
          /\ call[c].op \in NodeOps
      BY <1>3, <3>1, TouchFacts, MarksFacts, UnmarksFacts DEF Writers, NodeOps
    <3>3. target[c] = target[d]
      BY <1>3, <2>3, <3>2, TouchFacts
    <3>4. call[d].op \notin {"CreateGraph", "DeleteGraph"}
      BY <1>0, <2>1, <2>3, <3>1, Apart
    <3>5. at[d] # "loaded"
      <4> SUFFICES ASSUME at[d] = "loaded" PROVE FALSE
        OBVIOUS
      <4>1. CASE GraphMissing(c)
        BY <1>0, <3>3, <4>1 DEF SyncOf, GraphMissing
      <4>2. CASE at[c] = "loaded"
        BY <3>3, <4>2 DEF OneRewriter, Rewriting
      <4> QED
        BY <3>2, <4>1, <4>2
    <3> QED
      BY <1>1, <3>4, <3>5 DEF SyncOf, UnderWay
  <2> QED
    BY <2>2, <2>3
<1>4. CASE at[d] \in Outside
  BY <1>1, <1>4 DEF SyncOf, UnderWay, Outside
<1> QED
  BY <1>2, <1>3, <1>4, TouchKinds

LEMMA OwnSync ==
    ASSUME CallsApart(Requests), CleanFaults, FType, FType', KnownHasFile, SyncInv,
           NEW c \in Clients, Invoke(c) \/ Work(c) \/ Return(c)
    PROVE  SyncOf(c)'
<1>0. CallsType /\ SyncOf(c)
  BY DEF FType, SyncInv
<1>1. CASE FetchLock(c) \/ Acquire(c)
  <2>1. /\ call'[c] = call[c] /\ target'[c] = target[c] /\ UNCHANGED <<known, disk>>
    BY <1>1, LockFacts DEF storage, maps
  <2>2. at[c] \notin Outside
    BY <1>1 DEF FetchLock, Acquire, Outside
  <2>3. at'[c] # "loaded"
    BY <1>0, <1>1, GotoFacts DEF CallsType, FetchLock, Acquire
  <2> QED
    BY <1>0, <2>1, <2>2, <2>3 DEF SyncOf, UnderWay
<1>2. CASE Load(c)
  <2>1. /\ call'[c] = call[c] /\ target'[c] = target[c] /\ UNCHANGED <<known, disk>>
        /\ loaded'[c] = Nodes(c) /\ at[c] = "locked"
    BY <1>2, LockFacts DEF storage, maps
  <2>2. target[c] \in known \cap DOMAIN disk /\ call[c].op \in NodeOps
        /\ (call[c].op = "AddNode" => call[c].p \notin DOMAIN Nodes(c))
    BY <1>2 DEF Load, Loadable, Available, AtNode, HasNode
  <2> QED
    BY <2>1, <2>2 DEF SyncOf, UnderWay, Nodes, NodeOps
<1>3. CASE Quiet(c)
  BY <1>3 DEF Quiet, SyncOf, UnderWay, Away, Outside, NodeOps, ContentOps
<1>4. CASE Marks(c) \/ Unmarks(c)
  <2>1. /\ at'[c] = "lock" /\ call'[c] = call[c] /\ target'[c] = call[c].g
        /\ call[c] # None /\ at[c] = "start" /\ disk' = disk
        /\ \/ /\ call[c].op = "CreateGraph" /\ call[c].g \notin known
              /\ known' = known \cup {call[c].g}
           \/ /\ call[c].op = "DeleteGraph" /\ call[c].g \in known
              /\ known' = known \ {call[c].g}
    BY <1>4, MarksFacts, UnmarksFacts DEF Marks, Unmarks, storage
  <2>2. call[c].g \in known <=> call[c].g \in DOMAIN disk
    BY <2>1, InSync
  <2> QED
    BY <2>1, <2>2 DEF SyncOf, UnderWay
<1>5. CASE StoreExternal(c)
  <2>1. /\ at[c] = "lockedExternal" /\ call'[c] = call[c] /\ at'[c] \in {"lock", "done"}
    BY <1>5, StoreExternalFacts
  <2>2. call[c].op = "SetContent"
    BY <1>0, <2>1, Working DEF Suits, Outside, External
  <2> QED
    BY <2>1, <2>2 DEF SyncOf, UnderWay
<1>6. CASE Changes(c)
  BY <1>6, ChangesEnd DEF Ends, SyncOf, UnderWay, Outside
<1> QED
  BY <1>1, <1>2, <1>3, <1>4, <1>5, <1>6, Kinds

\* What a call that deletes a graph does once the graph is unknown.
LEMMA DeleterSteps ==
    ASSUME FType, CleanFaults, NEW c \in Clients, UnderWay(c, "DeleteGraph"),
           Invoke(c) \/ Work(c) \/ Return(c)
    PROVE  FetchLock(c) \/ Acquire(c) \/ DeleteGraph(c)
<1>1. Suits(call[c], at[c], target[c], loaded[c]) /\ call[c] # None
  BY Working DEF FType, UnderWay, Outside
<1>2. ~Invoke(c) /\ ~Return(c)
  BY <1>1 DEF Invoke, Return, UnderWay, Outside
<1>3. GraphStep(c) => DeleteGraph(c)
  BY DEF GraphStep, MarkGraph, UnmarkGraph, CreateGraph, CreateFails, CreationFails, DeleteFails,
         DeletionFails, HalfRemoved, ListGraphs, Doing, CleanFaults, UnderWay, Outside
<1>4. ~AtNode(c) /\ at[c] # "loaded" /\ at[c] # "lockedExternal" /\ at[c] # "checkActive"
  BY <1>1 DEF AtNode, NodeOps, ContentOps, Suits, Writers, External, UnderWay
<1>5. ~NodeStep(c)
  BY <1>4 DEF NodeStep, NotKept, StartNodeOp, StoreExternal, GraphMissing, GraphTorn, Available,
              Loadable, ListNodes, NodeExists, NodeMissing, GetNode, ReadContent, Load, Save,
              SaveFails, Doing, UnderWay, Outside
<1>6. ~ContentStep(c)
  BY <1>4 DEF ContentStep, FindActive, CheckActive, StoreContent, GetContent, DeleteContent,
              Doing, UnderWay, Outside
<1>7. ~IOFails(c)
  BY <1>4 DEF IOFails, Doing, UnderWay
<1> QED
  BY <1>2, <1>3, <1>5, <1>6, <1>7 DEF Work

\* A graph that is on the disk and not known is being deleted.
LEMMA DeletingSync ==
    ASSUME CallsApart(Requests), CleanFaults, FType, SyncInv,
           NEW c \in Clients, Invoke(c) \/ Work(c) \/ Return(c),
           NEW g, g \in DOMAIN disk', g \notin known'
    PROVE  \E d \in Clients : UnderWay(d, "DeleteGraph")' /\ target'[d] = g
<1>0. CallsType /\ SyncOf(c)
  BY DEF FType, SyncInv
<1>1. CASE g \in DOMAIN disk /\ g \notin known
  <2>1. PICK d \in Clients : UnderWay(d, "DeleteGraph") /\ target[d] = g
    BY <1>1 DEF SyncInv
  <2>2. CASE d # c
    <3>1. call'[d] = call[d] /\ at'[d] = at[d] /\ target'[d] = target[d]
      BY <2>2, TouchKinds DEF OthersStay
    <3> QED
      BY <2>1, <3>1 DEF UnderWay
  <2>3. CASE d = c
    <3>1. CASE FetchLock(c) \/ Acquire(c)
      <4>1. call'[c] = call[c] /\ target'[c] = target[c]
        BY <3>1, LockFacts
      <4>2. at'[c] \notin Outside
        BY <1>0, <3>1, GotoFacts DEF CallsType, FetchLock, Acquire, Outside
      <4> QED
        BY <2>1, <2>3, <4>1, <4>2 DEF UnderWay
    <3>2. CASE DeleteGraph(c)
      <4>1. DOMAIN disk' = DOMAIN disk \ {target[c]}
        BY <3>2, WithoutType DEF FType, DeleteGraph
      <4> QED
        BY <2>1, <2>3, <4>1
    <3> QED
      BY <2>1, <2>3, <3>1, <3>2, DeleterSteps
  <2> QED
    BY <2>2, <2>3
<1>2. CASE g \in known \/ g \notin DOMAIN disk
  <2>1. Touches(c) /\ g = call[c].g
    BY <1>2, TouchKinds, TouchFacts DEF Elsewhere
  <2>2. CASE Unmarks(c)
    BY <2>1, <2>2, UnmarksFacts DEF UnderWay, Outside
  <2>3. CASE Marks(c)
    BY <2>1, <2>3, MarksFacts
  <2>4. ~Marks(c) /\ ~Unmarks(c) => g = target[c] /\ at[c] \notin Outside
    BY <2>1, TouchFacts
  <2>5. CASE GraphMissing(c) /\ g = target[c]
    BY <1>2, <2>5 DEF GraphMissing, storage
  <2>6. CASE CreateGraph(c) /\ g = target[c]
    <3>1. target[c] \in known /\ known' = known
      BY <1>0, <2>6, CreateGraphFacts DEF SyncOf, UnderWay, Outside
    <3> QED
      BY <2>6, <3>1
  <2>7. CASE CreateFails(c) /\ g = target[c]
    <3>1. g \in DOMAIN disk /\ at[c] = "locked" /\ call[c].op = "CreateGraph"
      BY <2>7, RemovesFacts DEF Removes, CleanFaults
    <3> QED
      BY <1>0, <2>7, <3>1 DEF SyncOf, UnderWay, Outside
  <2>8. CASE DeleteGraph(c) /\ g = target[c]
    <3>1. DOMAIN disk' = DOMAIN disk \ {target[c]}
      BY <2>8, WithoutType DEF FType, DeleteGraph
    <3> QED
      BY <2>8, <3>1
  <2>9. CASE Save(c) /\ g = target[c]
    <3>1. target[c] \in known /\ known' = known
      BY <1>0, <2>9, SaveFacts DEF SyncOf, maps
    <3> QED
      BY <2>9, <3>1
  <2> QED
    BY <2>1, <2>2, <2>3, <2>4, <2>5, <2>6, <2>7, <2>8, <2>9 DEF Touches
<1> QED
  BY <1>1, <1>2

\* No graph.json is torn.
LEMMA WholeSync ==
    ASSUME CallsApart(Requests), CleanFaults, FType, SyncInv,
           NEW c \in Clients, Invoke(c) \/ Work(c) \/ Return(c), NEW g \in DOMAIN disk'
    PROVE  disk'[g] # None
<1>1. CASE KeepsDisk(c)
  BY <1>1, KeepsDiskFacts DEF SyncInv
<1>2. CASE Removes(c)
  BY <1>2, RemovesFacts DEF SyncInv, CleanFaults
<1>3. CASE CreateGraph(c) \/ Save(c)
  <2>1. /\ DOMAIN disk' = DOMAIN disk \cup {target[c]} /\ disk'[target[c]] \in Nodess
        /\ \A x \in DOMAIN disk \ {target[c]} : disk'[x] = disk[x]
    BY <1>3, CreateGraphFacts, SaveFacts
  <2>2. CASE g = target[c]
    BY <2>1, <2>2, NoneIsNothing
  <2>3. CASE g # target[c]
    BY <2>1, <2>3 DEF SyncInv
  <2> QED
    BY <2>2, <2>3
<1> QED
  BY <1>1, <1>2, <1>3, DiskKinds

LEMMA SyncInvariant ==
    CallsApart(Requests) /\ CleanFaults => (Spec => []SyncInv)
<1> SUFFICES ASSUME CallsApart(Requests), CleanFaults PROVE Spec => []SyncInv
  OBVIOUS
<1>1. Init => SyncInv
  <2> SUFFICES ASSUME Init PROVE SyncInv
    OBVIOUS
  <2>1. \A g \in DOMAIN disk : disk[g] # None
    <3>1. PICK empty : empty = << >> /\ empty \in Nodess
      BY EmptyMap DEF Nodess
    <3> QED
      BY <3>1, NoneIsNothing DEF Init
  <2>2. DOMAIN disk = known
    BY DEF Init
  <2> QED
    BY <2>1, <2>2 DEF Init, NoCalls, SyncInv, SyncOf, UnderWay, Outside
<1>2. SyncInv /\ UNCHANGED vars => SyncInv'
  BY DEF SyncInv, SyncOf, UnderWay, vars, calls, storage, maps
<1>3. FType /\ SyncInv /\ Restart => SyncInv'
  <2> SUFFICES ASSUME FType, SyncInv, Restart PROVE SyncInv'
    OBVIOUS
  <2>1. /\ \A c \in Clients : at'[c] = "idle"
        /\ disk' = disk /\ known' = DOMAIN disk /\ deleted' = deleted
    BY RestartFacts DEF CleanFaults
  <2> QED
    BY <2>1 DEF SyncInv, SyncOf, UnderWay, Outside
<1>4. ASSUME FType, FType', OneRewriter, KnownHasFile, SyncInv,
             NEW c \in Clients, Invoke(c) \/ Work(c) \/ Return(c)
      PROVE  SyncInv'
  <2>1. deleted' = {}
    BY <1>4, TouchKinds DEF SyncInv
  <2>2. \A d \in Clients : SyncOf(d)'
    BY <1>4, OthersSync, OwnSync
  <2> QED
    BY <1>4, <2>1, <2>2, DeletingSync, WholeSync DEF SyncInv
<1>5. FType /\ FType' /\ OneRewriter /\ KnownHasFile /\ SyncInv /\ [Next]_vars => SyncInv'
  BY <1>2, <1>3, <1>4 DEF Next
<1>6. Spec => [](FType /\ OneRewriter /\ KnownHasFile)
  BY ApartCalls, RewritersAreAlone, KnownInvariant, PTL
<1> QED
  BY <1>1, <1>5, <1>6, PTL DEF Spec

------------------------------------------------------------------------------
(* What callers see of the disk, and of the end of a call.                   *)

AbstractNodes(nodes) == [p \in DOMAIN nodes |-> AbstractNode(nodes[p])]

LEMMA Abstractions ==
    /\ AbstractGraphs = [g \in DOMAIN disk |-> AbstractNodes(disk[g])]
    /\ AbstractGraphs' = [g \in DOMAIN disk' |-> AbstractNodes(disk'[g])]
BY DEF AbstractGraphs, AbstractNodes, AbstractNode

LEMMA Unseen == ASSUME disk' = disk PROVE AbstractGraphs' = AbstractGraphs
BY DEF AbstractGraphs, AbstractNode

Seen == <<mode, AbstractGraphs, call, reply>>

LEMMA GoesUnseen ==
    ASSUME NEW c \in Clients,
           (\E a : Goto(c, a)) \/ (\E a, g : GotoOn(c, a, g)) \/ UNCHANGED <<call, reply>>,
           UNCHANGED <<mode, disk>>
    PROVE  UNCHANGED Seen
BY Unseen DEF Goto, GotoOn, Seen

LEMMA Answers ==
    ASSUME NEW c \in Clients, NEW err, NEW val, Finish(c, err, val), mode' = mode
    PROVE  Store!Answer(c, [err |-> err, val |-> val])
BY DEF Store!Answer, Finish

LEMMA Rejects ==
    ASSUME NEW c \in Clients, NEW err, FailWith(c, err), UNCHANGED <<mode, disk>>
    PROVE  Store!Reject(c, err)
<1>1. Store!Answer(c, [err |-> err, val |-> None])
  BY Answers DEF FailWith
<1> QED
  BY <1>1, Unseen DEF Store!Reject, Store!Failure

LEMMA Tells ==
    ASSUME NEW c \in Clients, NEW val, Succeed(c, val), UNCHANGED <<mode, disk>>
    PROVE  Store!Tell(c, val)
<1>1. Store!Answer(c, [err |-> "none", val |-> val])
  BY Answers DEF Succeed
<1> QED
  BY <1>1, Unseen DEF Store!Tell, Store!Success

LEMMA Put ==
    ASSUME NEW c \in Clients, NEW val, Succeed(c, val), mode' = mode,
           NEW gs, AbstractGraphs' = gs
    PROVE  Store!Change(c, gs, val)
<1>1. Store!Answer(c, [err |-> "none", val |-> val])
  BY Answers DEF Succeed
<1> QED
  BY <1>1 DEF Store!Change, Store!Success

\* A call that is not done is one GraphStore waits for.
LEMMA Waited ==
    ASSUME CallsType, NEW c \in Clients, at[c] \notin {"idle", "done"}
    PROVE  /\ call[c] # None /\ reply[c] = None
           /\ Store!DoGraph(c, call[c]) \/ Store!NotKept(c, call[c]) \/ Store!DoNode(c, call[c])
                 => Store!Do(c)
<1>1. call[c] # None /\ reply[c] = None
  BY DEF CallsType, CallOK
<1> QED
  BY <1>1 DEF Store!Do

LEMMA FailsIO ==
    ASSUME CallsType, NEW c \in Clients, at[c] \notin {"idle", "done"}, Faults # {},
           FailWith(c, "io"), UNCHANGED <<mode, disk>>
    PROVE  Store!Fail(c)
BY Waited, Rejects DEF Store!Fail

LEMMA SameMaps ==
    ASSUME NEW m, NEW k, NEW v
    PROVE  Store!With(m, k, v) = With(m, k, v) /\ Store!Merge(m, v) = Merge(m, v)
BY DEF Store!With, With, Store!Merge, Merge

LEMMA StoreKept == ASSUME NEW v PROVE Store!Kept(v) = Kept(v)
BY DEF Store!Kept, Kept

LEMMA AbstractWith ==
    ASSUME NEW m, NEW p, NEW n
    PROVE  AbstractNodes(With(m, p, n)) = With(AbstractNodes(m), p, AbstractNode(n))
BY DEF AbstractNodes, With

LEMMA AbstractEmpty ==
    ASSUME NEW empty, empty = << >>
    PROVE  AbstractNodes(empty) = << >>
<1>1. AbstractNodes(empty) \in [{} -> {}] /\ << >> \in [{} -> {}]
  BY EmptyMap DEF AbstractNodes
<1>2. \A f, h \in [{} -> {}] : f = h
  OBVIOUS
<1> QED
  BY <1>1, <1>2

\* Keeping all of the disk is leaving it alone.
LEMMA AllOfIt ==
    ASSUME StorageType, NEW g, g \notin DOMAIN disk,
           disk' = Restrict(disk, DOMAIN disk \ {g})
    PROVE  disk' = disk
<1>1. disk = [x \in DOMAIN disk |-> disk[x]]
  BY MapType DEF StorageType
<1>2. DOMAIN disk \ {g} = DOMAIN disk
  OBVIOUS
<1>3. disk' = [x \in DOMAIN disk |-> disk[x]]
  BY <1>2 DEF Restrict
<1> QED
  BY <1>1, <1>3

------------------------------------------------------------------------------
(* Every step is one of GraphStore's, or one its callers do not see.         *)

LEMMA InvokeReturnSteps ==
    ASSUME CallsType, NEW c \in Clients, Invoke(c) \/ Return(c)
    PROVE  Store!Invoke(c) \/ Store!Return(c)
<1>1. CASE Invoke(c)
  <2>1. AbstractGraphs' = AbstractGraphs
    BY <1>1, Unseen DEF Invoke, storage
  <2> QED
    BY <1>1, <2>1 DEF Invoke, Store!Invoke
<1>2. CASE Return(c)
  <2>1. AbstractGraphs' = AbstractGraphs /\ reply[c] # None
    BY <1>2, Unseen DEF Return, storage, CallsType, CallOK
  <2> QED
    BY <1>2, <2>1 DEF Return, Store!Return
<1> QED
  BY <1>1, <1>2

LEMMA RestartSteps ==
    ASSUME CleanFaults, FType, Restart
    PROVE  Store!Crash
<1>1. disk' = disk /\ mode' = mode
  BY RestartFacts DEF CleanFaults
<1>2. AbstractGraphs' = AbstractGraphs
  BY <1>1, Unseen
<1> QED
  BY <1>1, <1>2 DEF Store!Crash, Restart, NoCalls

LEMMA LockSteps ==
    ASSUME FType, NEW c \in Clients, FetchLock(c) \/ Acquire(c) \/ Load(c)
    PROVE  UNCHANGED Seen
<1>1. UNCHANGED <<mode, disk>>
  BY LockFacts DEF storage
<1>2. UNCHANGED <<call, reply>>
  BY DEF FetchLock, Acquire, Load, Goto
<1> QED
  BY <1>1, <1>2, GoesUnseen

\* A graph is made when its graph.json is, ...
LEMMA CreateSteps ==
    ASSUME CallsApart(Requests), CleanFaults, FType, KnownHasFile, SyncInv, NEW c \in Clients,
           MarkGraph(c) \/ CreateGraph(c) \/ CreateFails(c)
    PROVE  Store!Do(c) \/ Store!Fail(c) \/ UNCHANGED Seen
<1>0. CallsType /\ StorageType /\ SyncOf(c)
  BY DEF FType, SyncInv
<1>1. /\ call[c] # None /\ call[c].op = "CreateGraph" /\ at[c] \in {"start", "locked"}
      /\ mode' = mode
  BY DEF MarkGraph, CreateGraph, CreateFails, CreationFails, Doing
<1>2. DOMAIN AbstractGraphs = DOMAIN disk
  BY Abstractions
<1>3. at[c] = "locked" => target[c] = call[c].g /\ target[c] \notin DOMAIN disk
  BY <1>0, <1>1, Called DEF SyncOf, UnderWay, Outside
<1>4. CASE MarkGraph(c)
  <2>1. at[c] = "start" /\ disk' = disk
    BY <1>4 DEF MarkGraph, Doing, storage
  <2>2. CASE call[c].g \in known
    <3>1. Store!Reject(c, "exists")
      BY <1>1, <1>4, <2>1, <2>2, Rejects DEF MarkGraph
    <3>2. call[c].g \in DOMAIN AbstractGraphs
      BY <1>1, <1>2, <2>1, <2>2, InSync
    <3> QED
      BY <1>0, <1>1, <3>1, <3>2, Waited DEF Store!DoGraph
  <2>3. CASE call[c].g \notin known
    BY <1>1, <1>4, <2>1, <2>3, GoesUnseen DEF MarkGraph
  <2> QED
    BY <2>2, <2>3
<1>5. CASE CreateGraph(c)
  <2>1. PICK g : g = target[c]
    OBVIOUS
  <2>2. PICK empty : empty = << >>
    OBVIOUS
  <2>3. at[c] = "locked" /\ disk' = With(disk, g, empty) /\ Succeed(c, None)
    BY <1>5, <2>1, <2>2 DEF CreateGraph, Doing
  <2>4. AbstractNodes(empty) = empty
    BY <2>2, AbstractEmpty
  <2>5. AbstractGraphs' = With(AbstractGraphs, g, empty)
    BY <2>3, <2>4, Abstractions DEF With
  <2>6. PICK gs : gs = Store!With(AbstractGraphs, g, << >>)
    OBVIOUS
  <2>7. Store!Change(c, gs, None)
    BY <1>1, <2>2, <2>3, <2>5, <2>6, SameMaps, Put
  <2> QED
    BY <1>0, <1>1, <1>2, <1>3, <2>1, <2>3, <2>6, <2>7, Waited DEF Store!DoGraph
<1>6. CASE CreateFails(c)
  <2>1. at[c] = "locked" /\ FailWith(c, "io") /\ Faults # {}
    BY <1>0, <1>6, CreationFailsFacts DEF CreateFails
  <2>2. UNCHANGED storage \/ Without(target[c])
    BY <1>6 DEF CreateFails, CreationFails, HalfRemoved, CleanFaults
  <2>3. disk' = disk
    BY <1>0, <1>3, <2>1, <2>2, AllOfIt DEF storage, Without
  <2> QED
    BY <1>0, <1>1, <2>1, <2>3, FailsIO
<1> QED
  BY <1>4, <1>5, <1>6

\* ... is gone when its directory is, ...
LEMMA DeleteSteps ==
    ASSUME CallsApart(Requests), FType, KnownHasFile, SyncInv, NEW c \in Clients,
           UnmarkGraph(c) \/ DeleteGraph(c)
    PROVE  Store!Do(c) \/ UNCHANGED Seen
<1>0. CallsType /\ StorageType /\ SyncOf(c)
  BY DEF FType, SyncInv
<1>1. /\ call[c] # None /\ call[c].op = "DeleteGraph" /\ at[c] \in {"start", "locked"}
      /\ mode' = mode
  BY DEF UnmarkGraph, DeleteGraph, Doing
<1>2. DOMAIN AbstractGraphs = DOMAIN disk
  BY Abstractions
<1>3. CASE UnmarkGraph(c)
  <2>1. at[c] = "start" /\ disk' = disk
    BY <1>3 DEF UnmarkGraph, Doing, storage
  <2>2. CASE call[c].g \notin known
    <3>1. Store!Reject(c, "graph")
      BY <1>1, <1>3, <2>1, <2>2, Rejects DEF UnmarkGraph
    <3>2. call[c].g \notin DOMAIN AbstractGraphs
      BY <1>1, <1>2, <2>1, <2>2, InSync
    <3> QED
      BY <1>0, <1>1, <3>1, <3>2, Waited DEF Store!DoGraph
  <2>3. CASE call[c].g \in known
    BY <1>1, <1>3, <2>1, <2>3, GoesUnseen DEF UnmarkGraph
  <2> QED
    BY <2>2, <2>3
<1>4. CASE DeleteGraph(c)
  <2>1. PICK g : g = target[c]
    OBVIOUS
  <2>2. /\ at[c] = "locked" /\ Succeed(c, None)
        /\ disk' = [x \in DOMAIN disk \ {g} |-> disk[x]]
    BY <1>4, <2>1 DEF DeleteGraph, Doing, Without, Restrict
  <2>3. g = call[c].g /\ g \in DOMAIN disk
    BY <1>0, <1>1, <2>1, <2>2, Called DEF SyncOf, UnderWay, Outside
  <2>4. PICK gs : gs = [x \in DOMAIN AbstractGraphs \ {g} |-> AbstractGraphs[x]]
    OBVIOUS
  <2>5. AbstractGraphs' = gs
    BY <1>2, <2>2, <2>4, Abstractions
  <2>6. Store!Change(c, gs, None)
    BY <1>1, <2>2, <2>5, Put
  <2> QED
    BY <1>0, <1>1, <1>2, <2>2, <2>3, <2>4, <2>6, Waited DEF Store!DoGraph
<1> QED
  BY <1>3, <1>4

LEMMA ListSteps ==
    ASSUME CallsApart(Requests), FType, KnownHasFile, SyncInv, NEW c \in Clients, ListGraphs(c)
    PROVE  Store!Do(c)
<1>1. call[c] # None /\ call[c].op = "ListGraphs" /\ at[c] = "start" /\ CallsType
  BY DEF ListGraphs, Doing, FType
<1>2. Store!Tell(c, known)
  BY Tells DEF ListGraphs, storage
<1>3. known = DOMAIN AbstractGraphs
  BY <1>1, InSync, Abstractions
<1> QED
  BY <1>1, <1>2, <1>3, Waited DEF Store!DoGraph

LEMMA StartSteps ==
    ASSUME FType, NEW c \in Clients, NotKept(c) \/ StartNodeOp(c)
    PROVE  Store!Do(c) \/ UNCHANGED Seen
<1>1. CallsType /\ at[c] = "start" /\ UNCHANGED <<mode, disk>>
  BY DEF FType, NotKept, StartNodeOp, Doing, storage
<1>2. CASE NotKept(c)
  <2>1. call[c].op = "SetContent" /\ Kept(call[c].content) = None
    BY <1>2 DEF NotKept, Doing
  <2>2. IF mode = "strict" THEN Store!Reject(c, "marshal") ELSE Store!Tell(c, None)
    BY <1>1, <1>2, Rejects, Tells DEF NotKept
  <2>3. Store!NotKept(c, call[c])
    BY <2>1, <2>2, StoreKept DEF Store!NotKept
  <2> QED
    BY <1>1, <2>3, Waited
<1>3. CASE StartNodeOp(c)
  BY <1>1, <1>3, GoesUnseen DEF StartNodeOp
<1> QED
  BY <1>2, <1>3

\* ... and a call on one that is not there says so.
LEMMA MissingSteps ==
    ASSUME CallsApart(Requests), FType, KnownHasFile, SyncInv, NEW c \in Clients,
           at[c] \in {"locked", "lockedExternal"}, call[c].op \in NodeOps,
           target[c] \notin known \cap DOMAIN disk,
           FailWith(c, "graph"), UNCHANGED <<mode, disk>>
    PROVE  Store!Do(c)
<1>1. CallsType /\ call[c] # None
  BY Busy DEF FType
<1>2. target[c] = call[c].g /\ Suits(call[c], at[c], target[c], loaded[c])
  BY <1>1, Called DEF Outside
<1>3. call[c].g \notin DOMAIN AbstractGraphs
  BY <1>1, <1>2, InSync, Abstractions
<1>4. Store!Reject(c, "graph")
  BY Rejects
<1>5. call[c].op = "SetContent" => Store!Kept(call[c].content) # None
  BY <1>2, StoreKept DEF Suits
<1>6. Store!DoNode(c, call[c])
  BY <1>3, <1>4, <1>5 DEF Store!DoNode, NodeOps
<1> QED
  BY <1>1, <1>6, Waited

LEMMA StoreExternalSteps ==
    ASSUME CallsApart(Requests), CleanFaults, FType, KnownHasFile, SyncInv,
           NEW c \in Clients, StoreExternal(c)
    PROVE  Store!Do(c) \/ Store!Fail(c) \/ UNCHANGED Seen
<1>1. CallsType /\ at[c] = "lockedExternal" /\ UNCHANGED <<mode, disk>>
  BY DEF FType, StoreExternal
<1>2. call[c].op = "SetContent"
  BY <1>1, Working DEF Suits, Outside, External
<1>3. CASE target[c] \notin known /\ FailWith(c, "graph")
  BY <1>1, <1>2, <1>3, MissingSteps DEF NodeOps
<1>4. CASE Goto(c, "lock")
  BY <1>1, <1>4, GoesUnseen
<1>5. CASE FailWith(c, "io") /\ WriteContentFails(target[c], Kept(call[c].content))
  <2>1. Faults # {}
    BY <1>5 DEF WriteContentFails
  <2> QED
    BY <1>1, <1>5, <2>1, FailsIO
<1> QED
  BY <1>3, <1>4, <1>5 DEF StoreExternal

LEMMA GraphMissingSteps ==
    ASSUME CallsApart(Requests), FType, KnownHasFile, SyncInv, NEW c \in Clients,
           GraphMissing(c)
    PROVE  Store!Do(c)
BY MissingSteps DEF GraphMissing, AtNode, storage

\* What GraphStore asks of a call on a node of a graph that is there.
LEMMA DoesNode ==
    ASSUME CallsApart(Requests), FType, NEW c \in Clients, at[c] \in {"locked", "loaded"},
           call[c].op \in NodeOps, target[c] \in DOMAIN disk,
           LET r     == call[c]
               nodes == AbstractGraphs[r.g]
           IN  \/ r.op = "ListNodes" /\ Store!Tell(c, DOMAIN nodes)
               \/ /\ r.op = "AddNode"
                  /\ IF r.p \in DOMAIN nodes THEN Store!Reject(c, "exists")
                     ELSE Store!Change(c, Store!WithNode(r.g, r.p, Store!Node(r.data)), None)
               \/ /\ r.op \notin {"ListNodes", "AddNode"} /\ r.p \notin DOMAIN nodes
                  /\ Store!Reject(c, "node")
               \/ /\ r.op = "GetNode" /\ r.p \in DOMAIN nodes
                  /\ Store!Tell(c, nodes[r.p].data)
               \/ /\ r.op = "UpdateNode" /\ r.p \in DOMAIN nodes
                  /\ Store!Change(c, Store!WithNode(r.g, r.p, [nodes[r.p] EXCEPT !.data =
                                 IF r.merge THEN Store!Merge(@, r.data) ELSE r.data]), None)
               \/ /\ r.op = "SetContent" /\ r.p \in DOMAIN nodes
                  /\ Store!Change(c, Store!WithNode(r.g, r.p,
                                        [nodes[r.p] EXCEPT ![r.side] = Store!Kept(r.content)]),
                                  Store!Kept(r.content))
               \/ /\ r.op = "ReadContent" /\ r.p \in DOMAIN nodes
                  /\ Store!Tell(c, nodes[r.p][r.side])
    PROVE  Store!Do(c)
<1>1. CallsType /\ call[c] # None
  BY Busy DEF FType
<1>2. target[c] = call[c].g /\ Suits(call[c], at[c], target[c], loaded[c])
  BY <1>1, Called DEF Outside
<1>3. call[c].g \in DOMAIN AbstractGraphs
  BY <1>2, Abstractions
<1>4. call[c].op = "SetContent" => Store!Kept(call[c].content) # None
  BY <1>2, StoreKept DEF Suits
<1>5. Store!DoNode(c, call[c])
  BY <1>3, <1>4 DEF Store!DoNode, NodeOps
<1> QED
  BY <1>1, <1>5, Waited

\* The graph a call on a node uses, as callers see it.
LEMMA GraphOf ==
    ASSUME CallsApart(Requests), FType, NEW c \in Clients, at[c] \in {"locked", "loaded"},
           target[c] \in DOMAIN disk
    PROVE  /\ AbstractGraphs[call[c].g] = AbstractNodes(Nodes(c))
           /\ DOMAIN AbstractGraphs[call[c].g] = DOMAIN Nodes(c)
           /\ HasNode(c) => /\ call[c].p \in DOMAIN AbstractGraphs[call[c].g]
                            /\ AbstractGraphs[call[c].g][call[c].p]
                                  = AbstractNode(Nodes(c)[call[c].p])
<1>1. target[c] = call[c].g
  BY Called, Busy DEF FType, Outside
<1>2. AbstractGraphs[call[c].g] = AbstractNodes(Nodes(c))
  BY <1>1, Abstractions DEF Nodes
<1> QED
  BY <1>2 DEF AbstractNodes, HasNode

LEMMA ReadSteps ==
    ASSUME CallsApart(Requests), FType, NEW c \in Clients,
           ListNodes(c) \/ NodeExists(c) \/ NodeMissing(c) \/ GetNode(c)
    PROVE  Store!Do(c)
<1>1. Loadable(c) /\ UNCHANGED <<mode, disk>>
  BY DEF ListNodes, NodeExists, NodeMissing, GetNode, storage
<1>2. at[c] = "locked" /\ call[c].op \in NodeOps /\ target[c] \in DOMAIN disk
  BY <1>1 DEF Loadable, Available, AtNode
<1>3. DOMAIN AbstractGraphs[call[c].g] = DOMAIN Nodes(c)
  BY <1>2, GraphOf
<1>4. CASE ListNodes(c)
  <2>1. Store!Tell(c, DOMAIN AbstractGraphs[call[c].g])
    BY <1>1, <1>3, <1>4, Tells DEF ListNodes
  <2> QED
    BY <1>2, <1>4, <2>1, DoesNode DEF ListNodes
<1>5. CASE NodeExists(c)
  <2>1. Store!Reject(c, "exists") /\ call[c].p \in DOMAIN AbstractGraphs[call[c].g]
    BY <1>1, <1>3, <1>5, Rejects DEF NodeExists, HasNode
  <2> QED
    BY <1>2, <1>5, <2>1, DoesNode DEF NodeExists
<1>6. CASE NodeMissing(c)
  <2>1. Store!Reject(c, "node") /\ call[c].p \notin DOMAIN AbstractGraphs[call[c].g]
    BY <1>1, <1>3, <1>6, Rejects DEF NodeMissing, HasNode
  <2> QED
    BY <1>2, <1>6, <2>1, DoesNode DEF NodeMissing
<1>7. CASE GetNode(c)
  <2>1. PICK n : n = Nodes(c)[call[c].p]
    OBVIOUS
  <2>2. Store!Tell(c, n.data)
    BY <1>1, <1>7, <2>1, Tells DEF GetNode
  <2>3. /\ call[c].p \in DOMAIN AbstractGraphs[call[c].g]
        /\ AbstractGraphs[call[c].g][call[c].p] = AbstractNode(n)
    BY <1>2, <1>7, <2>1, GraphOf DEF GetNode
  <2>4. AbstractNode(n).data = n.data
    BY DEF AbstractNode
  <2> QED
    BY <1>2, <1>7, <2>2, <2>3, <2>4, DoesNode DEF GetNode
<1> QED
  BY <1>4, <1>5, <1>6, <1>7

\* A read tells what its node holds: it is embedded, or whole in its file.
LEMMA ContentSteps ==
    ASSUME CallsApart(Requests), FType, SyncInv, RefInv, NEW c \in Clients, ReadContent(c)
    PROVE  Store!Do(c)
<1>1. Loadable(c) /\ HasNode(c) /\ call[c].op = "ReadContent" /\ UNCHANGED <<mode, disk>>
  BY DEF ReadContent, storage
<1>2. /\ at[c] = "locked" /\ call[c].op \in NodeOps /\ target[c] \in DOMAIN disk
      /\ disk[target[c]] # None
  BY <1>1 DEF Loadable, Available, AtNode
<1>3. call[c].side \in Sides
  BY <1>1, <1>2, Working, Requested DEF FType
<1>4. PICK n : n = Nodes(c)[call[c].p]
  OBVIOUS
<1>5. PICK h : h = n[call[c].side]
  OBVIOUS
<1>6. PICK v : v = IF h = None THEN None ELSE h.hash
  OBVIOUS
<1>7. h # None /\ ~h.embedded => <<target[c], h.hash>> \in files /\ torn = {}
  <2>1. AllStored(files, target[c], Nodes(c)) /\ torn = {}
    BY <1>2 DEF RefInv, SyncInv, Keeping, Nodes, AllStored
  <2> QED
    BY <1>1, <1>3, <1>4, <1>5, <2>1 DEF AllStored, HasNode
<1>8. Succeed(c, v)
  BY <1>4, <1>5, <1>6, <1>7 DEF ReadContent, Fetch, HasFile
<1>9. Store!Tell(c, v)
  BY <1>1, <1>8, Tells
<1>10. /\ call[c].p \in DOMAIN AbstractGraphs[call[c].g]
       /\ AbstractGraphs[call[c].g][call[c].p] = AbstractNode(n)
  BY <1>1, <1>2, <1>4, GraphOf
<1>11. AbstractNode(n)[call[c].side] = v
  BY <1>3, <1>5, <1>6 DEF AbstractNode, Sides
<1> QED
  BY <1>1, <1>2, <1>9, <1>10, <1>11, DoesNode

LEMMA AbstractData ==
    ASSUME NEW n \in NodeRecord, NEW d \in Data
    PROVE  /\ AbstractNode([n EXCEPT !.data = d]) = [AbstractNode(n) EXCEPT !.data = d]
           /\ AbstractNode(n).data = n.data
BY DEF AbstractNode, NodeRecord

LEMMA AbstractSide ==
    ASSUME NEW n \in NodeRecord, NEW s \in Sides, NEW h \in Holdings
    PROVE  AbstractNode([n EXCEPT ![s] = h]) = [AbstractNode(n) EXCEPT ![s] = h.hash]
BY NoneIsNothing DEF AbstractNode, NodeRecord, Sides

\* What a save puts on the disk, as callers see it.
LEMMA SaveSeen ==
    ASSUME CallsApart(Requests), FType, SyncInv, NEW c \in Clients, Save(c)
    PROVE  AbstractGraphs' = Store!WithNode(call[c].g, call[c].p,
                                            AbstractNode(Changed(call[c], loaded[c])))
<1>1. PICK g, p, n, m : /\ g = call[c].g /\ p = call[c].p
                        /\ n = Changed(call[c], loaded[c]) /\ m = AbstractNode(n)
  OBVIOUS
<1>2. at[c] = "loaded" /\ CallsType /\ SyncOf(c)
  BY DEF Save, FType, SyncInv
<1>3. g = target[c] /\ g \in DOMAIN disk /\ loaded[c] = disk[g]
  BY <1>1, <1>2, Called, Busy DEF SyncOf, Outside
<1>4. disk' = With(disk, g, With(disk[g], p, n))
  BY <1>1, <1>3 DEF Save
<1>5. PICK e : e = With(disk[g], p, n)
  OBVIOUS
<1>6. DOMAIN disk' = DOMAIN disk /\ disk'[g] = e
      /\ \A x \in DOMAIN disk \ {g} : disk'[x] = disk[x]
  BY <1>3, <1>4, <1>5 DEF With
<1>7. AbstractNodes(e) = With(AbstractNodes(disk[g]), p, m)
  BY <1>1, <1>5, AbstractWith
<1>8. AbstractGraphs = [x \in DOMAIN disk |-> AbstractNodes(disk[x])]
  BY Abstractions
<1>9. AbstractGraphs' = [x \in DOMAIN disk |-> AbstractNodes(disk'[x])]
  BY <1>6, Abstractions
<1>10. AbstractGraphs' = [AbstractGraphs EXCEPT ![g] = With(@, p, m)]
  BY <1>3, <1>6, <1>7, <1>8, <1>9
<1>11. AbstractGraphs' = Store!WithNode(g, p, m)
  BY <1>10, SameMaps DEF Store!WithNode
<1> QED
  BY <1>1, <1>11

LEMMA SaveSteps ==
    ASSUME CallsApart(Requests), FType, SyncInv, NEW c \in Clients, Save(c)
    PROVE  Store!Do(c)
<1>1. CallsType /\ SyncOf(c) /\ at[c] = "loaded" /\ mode' = mode
  BY DEF FType, SyncInv, Save
<1>2. PICK r : r = call[c]
  OBVIOUS
<1>3. /\ r \in All /\ r.op \in Writers /\ r.op \in NodeOps /\ loaded[c] \in Nodess
      /\ (r.op # "AddNode" => r.p \in DOMAIN loaded[c])
      /\ (r.op = "SetContent" => Kept(r.content) # None)
  BY <1>1, <1>2, Working DEF Suits, Outside, Writers, NodeOps
<1>4. target[c] \in DOMAIN disk /\ loaded[c] = Nodes(c)
      /\ (r.op = "AddNode" => r.p \notin DOMAIN Nodes(c))
  BY <1>1, <1>2 DEF SyncOf, Nodes
<1>5. PICK n : n = Changed(r, loaded[c])
  OBVIOUS
<1>6. PICK gs : gs = Store!WithNode(r.g, r.p, AbstractNode(n))
  OBVIOUS
<1>7. AbstractGraphs' = gs
  BY <1>2, <1>5, <1>6, SaveSeen
<1>8. PICK v : v = IF r.op = "SetContent" THEN Kept(r.content) ELSE None
  OBVIOUS
<1>9. Store!Change(c, gs, v)
  BY <1>1, <1>2, <1>7, <1>8, Put DEF Save
<1>10. DOMAIN AbstractGraphs[r.g] = DOMAIN Nodes(c)
  BY <1>1, <1>2, <1>4, GraphOf
<1>11. CASE r.op = "AddNode"
  <2>1. n = Node(r.data)
    BY <1>5, <1>11 DEF Changed
  <2>2. AbstractNode(n) = Store!Node(r.data)
    BY <2>1 DEF AbstractNode, Node, Store!Node
  <2>3. Store!Change(c, Store!WithNode(r.g, r.p, Store!Node(r.data)), None)
    BY <1>6, <1>8, <1>9, <1>11, <2>2
  <2> QED
    BY <1>1, <1>2, <1>3, <1>4, <1>10, <1>11, <2>3, DoesNode
<1>12. CASE r.op # "AddNode"
  <2>1. HasNode(c)
    BY <1>2, <1>3, <1>4, <1>12 DEF HasNode
  <2>2. PICK o \in NodeRecord : o = Nodes(c)[r.p]
    BY <1>3, <1>4, <1>12, MapType DEF Nodess
  <2>3. PICK e : e = AbstractNode(o)
    OBVIOUS
  <2>4. r.p \in DOMAIN AbstractGraphs[r.g] /\ AbstractGraphs[r.g][r.p] = e
    BY <1>1, <1>2, <1>4, <2>1, <2>2, <2>3, GraphOf
  <2>5. CASE r.op = "UpdateNode"
    <3>1. PICK d : d = IF r.merge THEN Merge(o.data, r.data) ELSE r.data
      OBVIOUS
    <3>2. o.data \in Data /\ r.data \in Data
      BY <1>3, <2>5, Requested DEF NodeRecord
    <3>3. d \in Data
      BY <3>1, <3>2, MergeIsMap DEF Data
    <3>4. n = [o EXCEPT !.data = d]
      BY <1>4, <1>5, <2>2, <2>5, <3>1 DEF Changed
    <3>5. AbstractNode(n) = [e EXCEPT !.data = d] /\ e.data = o.data
      BY <2>3, <3>3, <3>4, AbstractData
    <3>6. [e EXCEPT !.data = d] =
            [e EXCEPT !.data = IF r.merge THEN Store!Merge(@, r.data) ELSE r.data]
      BY <3>1, <3>5, SameMaps
    <3>7. Store!Change(c, Store!WithNode(r.g, r.p, [e EXCEPT !.data =
                            IF r.merge THEN Store!Merge(@, r.data) ELSE r.data]), None)
      BY <1>6, <1>8, <1>9, <2>5, <3>5, <3>6
    <3> QED
      BY <1>1, <1>2, <1>3, <1>4, <2>4, <2>5, <3>7, DoesNode
  <2>6. CASE r.op = "SetContent"
    <3>1. r.side \in Sides /\ r.content \in Contents /\ r.force \in BOOLEAN
      BY <1>3, <2>6, Requested
    <3>2. PICK h : h = Held(Kept(r.content), Embedded(r))
      OBVIOUS
    <3>3. h \in Holdings /\ h.hash = Kept(r.content)
      BY <1>3, <2>6, <3>1, <3>2, KeptType DEF Held, Holdings, Embedded
    <3>4. n = [o EXCEPT ![r.side] = h]
      BY <1>4, <1>5, <2>2, <2>6, <3>2 DEF Changed
    <3>5. AbstractNode(n) = [e EXCEPT ![r.side] = h.hash]
      <4>1. PICK s \in Sides : s = r.side
        BY <3>1
      <4>2. AbstractNode([o EXCEPT ![s] = h]) = [AbstractNode(o) EXCEPT ![s] = h.hash]
        BY <3>3, AbstractSide
      <4> QED
        BY <2>3, <3>4, <4>1, <4>2
    <3>6. h.hash = Store!Kept(r.content)
      BY <3>3, StoreKept
    <3>7. Store!Change(c, Store!WithNode(r.g, r.p, [e EXCEPT ![r.side] = Store!Kept(r.content)]),
                       Store!Kept(r.content))
      BY <1>6, <1>8, <1>9, <2>6, <3>3, <3>5, <3>6
    <3> QED
      BY <1>1, <1>2, <1>3, <1>4, <2>4, <2>6, <3>7, DoesNode
  <2> QED
    BY <1>3, <1>12, <2>5, <2>6 DEF Writers
<1> QED
  BY <1>11, <1>12

LEMMA SaveFailsSteps ==
    ASSUME FType, SyncInv, NEW c \in Clients, SaveFails(c)
    PROVE  Store!Fail(c)
<1>1. CallsType /\ SyncOf(c) /\ at[c] = "loaded" /\ UNCHANGED <<mode, disk>>
  BY DEF FType, SyncInv, SaveFails, storage
<1>2. target[c] \in dirs
  BY <1>1 DEF SyncOf, FType, StorageType
<1>3. FailWith(c, "io") /\ Faults # {}
  BY <1>2 DEF SaveFails
<1> QED
  BY <1>1, <1>3, FailsIO

LEMMA WorkSteps ==
    ASSUME CallsApart(Requests), CleanFaults, FType, KnownHasFile, SyncInv, RefInv,
           NEW c \in Clients, Work(c)
    PROVE  Store!Do(c) \/ Store!Fail(c) \/ UNCHANGED Seen
<1>1. CASE FetchLock(c) \/ Acquire(c)
  BY <1>1, LockSteps
<1>5. CASE IOFails(c)
  <2>1. /\ at[c] = "locked" /\ Faults # {} /\ FailWith(c, "io")
        /\ UNCHANGED <<mode, disk>> /\ CallsType
    BY <1>5 DEF IOFails, AtNode, Doing, storage, FType
  <2> QED
    BY <2>1, FailsIO
<1>2. CASE GraphStep(c)
  <2>1. ~DeleteFails(c)
    BY DEF DeleteFails, DeletionFails, HalfRemoved, CleanFaults
  <2> QED
    BY <1>2, <2>1, CreateSteps, DeleteSteps, ListSteps DEF GraphStep
<1>3. CASE NodeStep(c)
  <2>1. ~GraphTorn(c)
    BY DEF GraphTorn, Available, SyncInv
  <2>2. CASE NotKept(c) \/ StartNodeOp(c) \/ StoreExternal(c) \/ GraphMissing(c)
    BY <2>2, StartSteps, StoreExternalSteps, GraphMissingSteps
  <2>3. CASE ListNodes(c) \/ NodeExists(c) \/ NodeMissing(c) \/ GetNode(c) \/ ReadContent(c)
    BY <2>3, ReadSteps, ContentSteps
  <2>4. CASE Load(c) \/ Save(c) \/ SaveFails(c)
    BY <2>4, LockSteps, SaveSteps, SaveFailsSteps
  <2> QED
    BY <1>3, <2>1, <2>2, <2>3, <2>4 DEF NodeStep
<1>4. CASE ContentStep(c)
  BY <1>4, NoContentOps DEF ContentStep, FType
<1> QED
  BY <1>1, <1>2, <1>3, <1>4, <1>5 DEF Work

\* To callers that create and delete graphs of their own the file store implements
\* GraphStore, if I/O that fails leaves nothing torn, no removal half done and no graph
\* overlooked when the store is opened again: a call
\* takes effect when graph.json is put in place or its graph's directory removed, however
\* many locks, files and loads that takes, and what it did survives the process.
THEOREM CallsAreAtomic == CallsApart(Requests) /\ CleanFaults => (Spec => Atomic)
<1> SUFFICES ASSUME CallsApart(Requests), CleanFaults PROVE Spec => Atomic
  OBVIOUS
<1>1. Init => Store!Init
  BY DEF Init, NoCalls, Store!Init
<1>2. ASSUME FType, KnownHasFile, SyncInv, RefInv, [Next]_vars
      PROVE  [Store!Next]_(Store!vars)
  <2>1. CASE UNCHANGED vars
    BY <2>1, Unseen DEF vars, calls, storage, Store!vars
  <2>2. CASE Restart
    BY <1>2, <2>2, RestartSteps DEF Store!Next
  <2>3. ASSUME NEW c \in Clients, Invoke(c) \/ Return(c)
        PROVE  Store!Next
    BY <1>2, <2>3, InvokeReturnSteps DEF FType, Store!Next
  <2>4. ASSUME NEW c \in Clients, Work(c)
        PROVE  Store!Next \/ UNCHANGED Seen
    BY <1>2, <2>4, WorkSteps DEF Store!Next
  <2> QED
    BY <1>2, <2>1, <2>2, <2>3, <2>4 DEF Next, Seen, Store!vars
<1>3. RewritersApart(Requests) /\ CreatesApart /\ WritersApart /\ "tornContent" \notin Faults
  BY ApartCalls DEF CleanFaults
<1>4. Spec => []FType
  BY <1>3, KnownInvariant, PTL
<1>5. Spec => []KnownHasFile
  BY <1>3, KnownInvariant, PTL
<1>6. Spec => []SyncInv
  BY SyncInvariant, PTL
<1>7. Spec => []RefInv
  BY <1>3, RefInvariant, PTL
<1> QED
  BY <1>1, <1>2, <1>4, <1>5, <1>6, <1>7, PTL DEF Spec, Atomic, Store!Spec

==============================================================================
