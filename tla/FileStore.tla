------------------------------ MODULE FileStore ------------------------------
(***************************************************************************)
(* The file store (store/filestore.go): a directory per graph with         *)
(* graph.json and content files named by hash; in memory, the set of known *)
(* graphs under the global lock, and a lock per graph kept in a sync.Map.  *)
(* A call fetches its graph's lock, waits for it, looks at the known       *)
(* graphs, loads graph.json and saves it: a writer's steps can interleave  *)
(* with those of a call that holds another lock of the same graph.         *)
(*                                                                         *)
(* graph.json is replaced by a rename, at once. os.WriteFile, which makes  *)
(* new files, is not atomic: if it fails, or the process dies in it, it    *)
(* may leave a torn file. What is read back is what encoding/json makes of *)
(* the file, always; a hash is the content it is of.                       *)
(***************************************************************************)
EXTENDS Naturals, Functions, Maps

CONSTANTS
    Clients,         \* goroutines that call the store
    Requests,        \* [Clients -> the requests each may make], as in GraphStore
    Modes,           \* the UnmarshallableContentModes stores are made with
    Unmarshallable,  \* the contents json.Marshal rejects
    Placeholder,     \* what the "placeholder" mode stores instead
    Big,             \* the contents longer than MaxEmbedSize
    None,            \* Go's nil, and the empty string
    Graphs,          \* graph IDs
    Existing,        \* graphs on disk, without nodes, when the store is opened
    Faults,          \* what of a directory or a file may fail: subset of
                     \* {"mkdir", "write", "read", "remove"} and of {"scan",
                     \* "tornGraph", "tornContent"}, see Restart
    MaxDeletes,      \* bound: in a process, until a graph was deleted so often
    MaxRestarts      \* bound: restarts of the process

VARIABLES
    mode,         \* options.UnmarshallableContentMode
    disk,         \* graph |-> its graph.json: node path |-> node;
                  \* None: a torn file
    dirs,         \* the graphs that have a directory
    files,        \* content files, as <<graph, hash>>
    torn,         \* those of them that were not written to the end
    known,        \* fileStore.graphs
    lockOf,       \* graph |-> which lock graphLocks has for it
    activeGraph,
    call,         \* the request each client is making, or None
    at,           \* how far it is
    target,       \* the graph it works on
    lock,         \* the lock it fetched
    loaded,       \* the graph it loaded
    reply,        \* what it returns, or None
    deleted,      \* history: content files DeleteContent removed, or a DeleteGraph
                  \* or CreateGraph that failed
    restarts      \* history

storage == <<disk, dirs, files, torn, deleted>>
maps    == <<known, lockOf, activeGraph>>
calls   == <<call, at, target, lock, loaded, reply>>
vars    == <<mode, storage, maps, calls, restarts>>

Sides    == {"request", "response"}
ReadOps  == {"GetNode", "ListNodes", "ReadContent", "GetContent"}
GraphOps == {"CreateGraph", "DeleteGraph", "ListGraphs"}
NodeOps  == {"ListNodes", "AddNode", "GetNode", "UpdateNode", "SetContent", "ReadContent"}
ContentOps == {"StoreContent", "GetContent", "DeleteContent"}

\* What the requests name.
Named(field) == {r[field] : r \in {q \in UNION {Requests[c] : c \in Clients} :
                                     field \in DOMAIN q}}
Paths    == Named("p")
Contents == Named("content") \cup {Placeholder}
Data     == MapsOf(UNION {DOMAIN d : d \in Named("data")},
                   UNION {Range(d) : d \in Named("data")})

\* A fileNode: its data, and for each side None or the hash and whether the
\* content is embedded.
Node(data) == [data |-> data, request |-> None, response |-> None]
Held(v, embedded) == [hash |-> v, embedded |-> embedded]

Holdings   == [hash : Contents \ Unmarshallable, embedded : BOOLEAN]
NodeRecord == [data : Data, request : Holdings \cup {None}, response : Holdings \cup {None}]
Errors     == {"none", "exists", "graph", "node", "marshal", "content", "io", "corrupt",
               "noActive"}
Values     == {None} \cup Contents \cup Data \cup (SUBSET Graphs) \cup (SUBSET Paths)

\* What GraphStore says of requests; None is none of the values it is told from.
ASSUME RequestsAssumption ==
    \A c \in Clients : \A r \in Requests[c] :
        \/ r \in [op : {"CreateGraph", "DeleteGraph", "ListGraphs", "ListNodes"}, g : Graphs]
        \/ r \in [op : {"GetNode"}, g : Graphs, p : Paths]
        \/ r \in [op : {"AddNode"}, g : Graphs, p : Paths, data : Data]
        \/ r \in [op : {"UpdateNode"}, g : Graphs, p : Paths, data : Data, merge : BOOLEAN]
        \/ r \in [op : {"ReadContent"}, g : Graphs, p : Paths, side : Sides]
        \/ r \in [op : {"SetContent"}, g : Graphs, p : Paths, side : Sides,
                  content : Contents, force : BOOLEAN]
        \/ r \in [op : {"StoreContent", "GetContent", "DeleteContent"}, content : Contents]

ASSUME NoneAssumption ==
    /\ \A c \in Clients : None \notin Requests[c]
    /\ None \notin Graphs \cup Contents \cup Holdings
    /\ None \notin MapsOf(Paths, NodeRecord)
    /\ None \notin [err : Errors, val : Values]

ASSUME PlaceholderAssumption == Placeholder \notin Unmarshallable

ASSUME ExistingAssumption == Existing \subseteq Graphs

NoCalls(v) == [c \in Clients |-> v]

Init ==
    /\ mode \in Modes
    /\ disk = [g \in Existing |-> << >>] /\ dirs = Existing
    /\ files = {} /\ torn = {} /\ deleted = {}
    /\ known = Existing
    /\ lockOf = [g \in Graphs |-> 0]
    /\ activeGraph = None
    /\ call = NoCalls(None) /\ at = NoCalls("idle") /\ target = NoCalls(None)
    /\ lock = NoCalls(0) /\ loaded = NoCalls(None) /\ reply = NoCalls(None)
    /\ restarts = 0

------------------------------------------------------------------------------
(* Calls, returns and locks.                                                 *)

Doing(c, op, where) == call[c] # None /\ call[c].op = op /\ at[c] = where

Goto(c, where) == /\ at' = [at EXCEPT ![c] = where]
                  /\ UNCHANGED <<call, target, lock, loaded, reply>>

GotoOn(c, where, g) == /\ at' = [at EXCEPT ![c] = where]
                       /\ target' = [target EXCEPT ![c] = g]
                       /\ UNCHANGED <<call, lock, loaded, reply>>

\* Return err and val, releasing the lock, if any.
Finish(c, err, val) ==
    /\ reply' = [reply EXCEPT ![c] = [err |-> err, val |-> val]]
    /\ at' = [at EXCEPT ![c] = "done"]
    /\ target' = [target EXCEPT ![c] = None]
    /\ lock' = [lock EXCEPT ![c] = 0]
    /\ loaded' = [loaded EXCEPT ![c] = None]
    /\ UNCHANGED call
Succeed(c, val)  == Finish(c, "none", val)
FailWith(c, err) == Finish(c, err, None)

Invoke(c) ==
    /\ call[c] = None
    /\ \E r \in Requests[c] :
         /\ r.op = "DeleteGraph" => \A g \in Graphs : lockOf[g] < MaxDeletes
         /\ call' = [call EXCEPT ![c] = r]
    /\ at' = [at EXCEPT ![c] = "start"]
    /\ UNCHANGED <<target, lock, loaded, reply, mode, storage, maps, restarts>>

Return(c) ==
    /\ at[c] = "done"
    /\ call' = [call EXCEPT ![c] = None]
    /\ at' = [at EXCEPT ![c] = "idle"]
    /\ reply' = [reply EXCEPT ![c] = None]
    /\ UNCHANGED <<target, lock, loaded, mode, storage, maps, restarts>>

Holding(c) == at[c] \in {"locked", "lockedExternal", "loaded"}
Reading(c) == call[c].op \in ReadOps

\* getGraphLock; the lock may be taken out of the map before it is acquired.
FetchLock(c) ==
    /\ at[c] \in {"lock", "lockExternal"}
    /\ lock' = [lock EXCEPT ![c] = lockOf[target[c]]]
    /\ at' = [at EXCEPT ![c] = IF at[c] = "lock" THEN "wait" ELSE "waitExternal"]
    /\ UNCHANGED <<call, target, loaded, reply, mode, storage, maps, restarts>>

\* Mutant: every operation takes the lock for reading.
Acquire_Shared(c) ==
    /\ at[c] \in {"wait", "waitExternal"}
    /\ Goto(c, IF at[c] = "wait" THEN "locked" ELSE "lockedExternal")
    /\ UNCHANGED <<mode, storage, maps, restarts>>

Acquire(c) ==
    /\ at[c] \in {"wait", "waitExternal"}
    /\ \A d \in Clients \ {c} :
         Holding(d) /\ target[d] = target[c] /\ lock[d] = lock[c] =>
             Reading(c) /\ Reading(d)
    /\ Goto(c, IF at[c] = "wait" THEN "locked" ELSE "lockedExternal")
    /\ UNCHANGED <<mode, storage, maps, restarts>>

------------------------------------------------------------------------------
(* Graphs.                                                                   *)

\* CreateGraph makes the graph known before there is a file, ...
MarkGraph(c) ==
    /\ Doing(c, "CreateGraph", "start")
    /\ LET g == call[c].g
       IN  IF g \in known THEN FailWith(c, "exists") /\ UNCHANGED known
           ELSE known' = known \cup {g} /\ GotoOn(c, "lock", g)
    /\ UNCHANGED <<mode, storage, lockOf, activeGraph, restarts>>

\* ... writes an empty graph.json ...
CreateGraph(c) ==
    /\ Doing(c, "CreateGraph", "locked")
    /\ LET g == target[c]
       IN  /\ disk' = With(disk, g, << >>)
           /\ dirs' = dirs \cup {g}
           /\ activeGraph' = IF activeGraph = None THEN g ELSE activeGraph
    /\ Succeed(c, None)
    /\ UNCHANGED <<mode, files, torn, deleted, known, lockOf, restarts>>

Without(g) == /\ disk' = Restrict(disk, DOMAIN disk \ {g})
              /\ dirs' = dirs \ {g}
              /\ files' = {f \in files : f[1] # g}
              /\ torn' = {f \in torn : f[1] # g}
              /\ UNCHANGED deleted

\* RemoveAll may fail anywhere on its way, if graph.json was one of these or gone.
HalfRemoved(g, disks) ==
    /\ "remove" \in Faults
    /\ disk' \in disks \cup {Restrict(disk, DOMAIN disk \ {g})}
    /\ \E gone \in SUBSET {f \in files : f[1] = g} :
         /\ files' = files \ gone /\ torn' = torn \ gone
         /\ deleted' = deleted \cup gone

\* The directory cannot be made, or graph.json not written; the error of the removal
\* that follows is ignored, and what it leaves may be a torn file.
CreationFails(c) ==
    /\ Doing(c, "CreateGraph", "locked")
    /\ LET g == target[c]
       IN  \/ "mkdir" \in Faults /\ UNCHANGED storage
           \/ "write" \in Faults /\ Without(g)
           \/ /\ "write" \in Faults /\ dirs' = dirs \cup {g}
              /\ HalfRemoved(g, {disk} \cup IF "tornGraph" \in Faults
                                           THEN {With(disk, g, None)} ELSE {})
    /\ FailWith(c, "io")
    /\ UNCHANGED <<mode, lockOf, activeGraph, restarts>>

\* Mutant: the mark of a graph that could not be created is not taken back.
CreateFails_StillKnown(c) == CreationFails(c) /\ UNCHANGED known

\* ... or cleans up and takes the mark back.
CreateFails(c) == CreationFails(c) /\ known' = known \ {target[c]}

\* DeleteGraph first makes the graph unknown, ...
UnmarkGraph(c) ==
    /\ Doing(c, "DeleteGraph", "start")
    /\ LET g == call[c].g
       IN  IF g \notin known THEN FailWith(c, "graph") /\ UNCHANGED known
           ELSE known' = known \ {g} /\ GotoOn(c, "lock", g)
    /\ UNCHANGED <<mode, storage, lockOf, activeGraph, restarts>>

\* ... then removes its directory and, in either case, its lock from the map.
ForgetLock(g) == lockOf' = [lockOf EXCEPT ![g] = @ + 1]

DeleteGraph(c) ==
    /\ Doing(c, "DeleteGraph", "locked")
    /\ Without(target[c])
    /\ activeGraph' \in IF activeGraph # target[c] THEN {activeGraph}
                        ELSE IF known = {} THEN {None} ELSE known
    /\ ForgetLock(target[c])
    /\ Succeed(c, None)
    /\ UNCHANGED <<mode, known, restarts>>

DeletionFails(c) ==
    /\ Doing(c, "DeleteGraph", "locked")
    /\ HalfRemoved(target[c], {disk}) /\ UNCHANGED dirs
    /\ ForgetLock(target[c])
    /\ FailWith(c, "io")
    /\ UNCHANGED <<mode, activeGraph, restarts>>

\* Mutant: "should we add it back to s.graphs?"
DeleteFails_KnownAgain(c) == DeletionFails(c) /\ known' = known \cup {target[c]}

DeleteFails(c) == DeletionFails(c) /\ UNCHANGED known

ListGraphs(c) ==
    /\ Doing(c, "ListGraphs", "start")
    /\ Succeed(c, known)
    /\ UNCHANGED <<mode, storage, maps, restarts>>

------------------------------------------------------------------------------
(* Nodes.                                                                    *)

Kept(v) == IF v \notin Unmarshallable THEN v
           ELSE IF mode = "placeholder" THEN Placeholder ELSE None

Embedded(r) == r.force \/ Kept(r.content) \notin Big

\* A content json cannot marshal: an error, or nothing at all, by the mode.
NotKept(c) ==
    /\ Doing(c, "SetContent", "start")
    /\ Kept(call[c].content) = None
    /\ IF mode = "strict" THEN FailWith(c, "marshal") ELSE Succeed(c, None)
    /\ UNCHANGED <<mode, storage, maps, restarts>>

\* Mutant: the "skip" mode goes on with the empty hash.
StartNodeOp_NoSkip(c) ==
    /\ at[c] = "start"
    /\ call[c].op \in NodeOps
    /\ GotoOn(c, "lock", call[c].g)
    /\ UNCHANGED <<mode, storage, maps, restarts>>

StartNodeOp(c) ==
    /\ at[c] = "start"
    /\ call[c].op \in NodeOps
    /\ call[c].op = "SetContent" => Kept(call[c].content) # None
    /\ GotoOn(c, IF call[c].op = "SetContent" /\ ~Embedded(call[c])
                 THEN "lockExternal" ELSE "lock", call[c].g)
    /\ UNCHANGED <<mode, storage, maps, restarts>>

\* storeContentBytesLocked: nothing to do if there is such a file, whole or
\* not; a write makes it, or fails and may leave a torn one. That the file is
\* there may be impossible to find out.
HasFile(g, v) == <<g, v>> \in files

WriteContent(g, v) ==
    /\ files' = files \cup {<<g, v>>}
    /\ dirs' = IF HasFile(g, v) THEN dirs ELSE dirs \cup {g}
    /\ UNCHANGED torn

WriteContentFails(g, v) ==
    \/ /\ "read" \in Faults \/ ("mkdir" \in Faults /\ ~HasFile(g, v))
       /\ UNCHANGED <<dirs, files, torn>>
    \/ /\ ~HasFile(g, v)
       /\ \/ "write" \in Faults /\ UNCHANGED <<files, torn>>
          \/ /\ "tornContent" \in Faults
             /\ files' = files \cup {<<g, v>>} /\ torn' = torn \cup {<<g, v>>}
       /\ dirs' = dirs \cup {g}

\* Mutant: the node refers to a large content that is not written yet.
StoreExternal_Later(c) ==
    /\ at[c] = "lockedExternal"
    /\ IF target[c] \notin known THEN FailWith(c, "graph") ELSE Goto(c, "lock")
    /\ UNCHANGED <<mode, storage, maps, restarts>>

\* setNodeContent: a large content goes to its file first, under a lock of its
\* own; the graph is then locked again.
StoreExternal(c) ==
    /\ at[c] = "lockedExternal"
    /\ LET g == target[c]
           v == Kept(call[c].content)
       IN  \/ g \notin known /\ FailWith(c, "graph") /\ UNCHANGED <<dirs, files, torn>>
           \/ g \in known /\ WriteContent(g, v) /\ Goto(c, "lock")
           \/ g \in known /\ WriteContentFails(g, v) /\ FailWith(c, "io")
    /\ UNCHANGED <<mode, disk, deleted, maps, restarts>>

AtNode(c) == at[c] = "locked" /\ call[c].op \in NodeOps

\* The checks of every node operation once it has the lock. A graph that is
\* known and has no file is made unknown by loadGraph.
GraphMissing(c) ==
    /\ AtNode(c)
    /\ target[c] \notin known \cap DOMAIN disk
    /\ known' = known \ {target[c]}
    /\ FailWith(c, "graph")
    /\ UNCHANGED <<mode, storage, lockOf, activeGraph, restarts>>

Available(c) == AtNode(c) /\ target[c] \in known \cap DOMAIN disk

GraphTorn(c) ==
    /\ Available(c) /\ disk[target[c]] = None
    /\ FailWith(c, "corrupt")
    /\ UNCHANGED <<mode, storage, maps, restarts>>

Loadable(c) == Available(c) /\ disk[target[c]] # None
Nodes(c)    == disk[target[c]]
HasNode(c)  == call[c].p \in DOMAIN Nodes(c)

ListNodes(c) ==
    /\ Loadable(c) /\ call[c].op = "ListNodes"
    /\ Succeed(c, DOMAIN Nodes(c))
    /\ UNCHANGED <<mode, storage, maps, restarts>>

NodeExists(c) ==
    /\ Loadable(c) /\ call[c].op = "AddNode" /\ HasNode(c)
    /\ FailWith(c, "exists")
    /\ UNCHANGED <<mode, storage, maps, restarts>>

NodeMissing(c) ==
    /\ Loadable(c) /\ call[c].op \in NodeOps \ {"ListNodes", "AddNode"}
    /\ ~HasNode(c)
    /\ FailWith(c, "node")
    /\ UNCHANGED <<mode, storage, maps, restarts>>

GetNode(c) ==
    /\ Loadable(c) /\ call[c].op = "GetNode" /\ HasNode(c)
    /\ Succeed(c, Nodes(c)[call[c].p].data)
    /\ UNCHANGED <<mode, storage, maps, restarts>>

\* What a content file gives its reader.
Fetch(c, g, v) ==
    IF ~HasFile(g, v) THEN FailWith(c, "content")
    ELSE IF <<g, v>> \in torn THEN FailWith(c, "corrupt") ELSE Succeed(c, v)

ReadContent(c) ==
    /\ Loadable(c) /\ call[c].op = "ReadContent" /\ HasNode(c)
    /\ LET h == Nodes(c)[call[c].p][call[c].side]
       IN  IF h = None THEN Succeed(c, None)
           ELSE IF h.embedded THEN Succeed(c, h.hash)
           ELSE Fetch(c, target[c], h.hash)
    /\ UNCHANGED <<mode, storage, maps, restarts>>

\* Writers: the graph is loaded, ...
Load(c) ==
    /\ Loadable(c)
    /\ \/ call[c].op = "AddNode" /\ ~HasNode(c)
       \/ call[c].op \in {"UpdateNode", "SetContent"} /\ HasNode(c)
    /\ at' = [at EXCEPT ![c] = "loaded"]
    /\ loaded' = [loaded EXCEPT ![c] = Nodes(c)]
    /\ UNCHANGED <<call, target, lock, reply, mode, storage, maps, restarts>>

\* ... the node changed in memory, ...
Changed(r, nodes) ==
    CASE r.op = "AddNode"    -> Node(r.data)
      [] r.op = "UpdateNode" -> [nodes[r.p] EXCEPT !.data =
                                   IF r.merge THEN Merge(@, r.data) ELSE r.data]
      [] r.op = "SetContent" -> [nodes[r.p] EXCEPT ![r.side] =
                                   Held(Kept(r.content), Embedded(r))]

\* ... and the graph saved, if its directory is still there.
Save(c) ==
    /\ at[c] = "loaded" /\ target[c] \in dirs
    /\ disk' = With(disk, target[c],
                     With(loaded[c], call[c].p, Changed(call[c], loaded[c])))
    /\ Succeed(c, IF call[c].op = "SetContent" THEN Kept(call[c].content) ELSE None)
    /\ UNCHANGED <<mode, dirs, files, torn, deleted, maps, restarts>>

SaveFails(c) ==
    /\ at[c] = "loaded"
    /\ target[c] \notin dirs \/ "write" \in Faults
    /\ FailWith(c, "io")
    /\ UNCHANGED <<mode, storage, maps, restarts>>

------------------------------------------------------------------------------
(* Contents of the active graph.                                             *)

FindActive(c) ==
    /\ at[c] = "start" /\ call[c].op \in ContentOps
    /\ IF activeGraph = None THEN FailWith(c, "noActive")
       ELSE GotoOn(c, "checkActive", activeGraph)
    /\ UNCHANGED <<mode, storage, maps, restarts>>

CheckActive(c) ==
    /\ at[c] = "checkActive"
    /\ IF target[c] \notin known THEN FailWith(c, "graph")
       ELSE IF call[c].op = "StoreContent" /\ call[c].content \in Unmarshallable
            THEN FailWith(c, "marshal")
            ELSE Goto(c, "lock")
    /\ UNCHANGED <<mode, storage, maps, restarts>>

\* The known graphs are not looked at again under the lock.
StoreContent(c) ==
    /\ Doing(c, "StoreContent", "locked")
    /\ LET g == target[c]
           v == call[c].content
       IN  \/ WriteContent(g, v) /\ Succeed(c, v)
           \/ WriteContentFails(g, v) /\ FailWith(c, "io")
    /\ UNCHANGED <<mode, disk, deleted, maps, restarts>>

GetContent(c) ==
    /\ Doing(c, "GetContent", "locked")
    /\ Fetch(c, target[c], call[c].content)
    /\ UNCHANGED <<mode, storage, maps, restarts>>

\* No node is looked at.
DeleteContent(c) ==
    /\ Doing(c, "DeleteContent", "locked")
    /\ LET f == <<target[c], call[c].content>>
       IN  IF f \in files
           THEN /\ files' = files \ {f} /\ torn' = torn \ {f}
                /\ deleted' = deleted \cup {f}
                /\ Succeed(c, None)
           ELSE FailWith(c, "content") /\ UNCHANGED <<files, torn, deleted>>
    /\ UNCHANGED <<mode, disk, dirs, maps, restarts>>

\* A file that cannot be read, looked for or removed: nothing changes.
IOFails(c) ==
    /\ \/ /\ "read" \in Faults
          /\ \/ AtNode(c) /\ target[c] \in known
             \/ Doing(c, "GetContent", "locked") \/ Doing(c, "DeleteContent", "locked")
       \/ /\ "remove" \in Faults
          /\ Doing(c, "DeleteContent", "locked") /\ HasFile(target[c], call[c].content)
    /\ FailWith(c, "io")
    /\ UNCHANGED <<mode, storage, maps, restarts>>

------------------------------------------------------------------------------
(* The process dies and NewFileStore opens the directory again: initialize   *)
(* knows the graphs that have a graph.json, whole or torn, except those of   *)
(* which it cannot find that out; no graph is active. A file being written   *)
(* may be torn.                                                              *)

\* Mutant: saveGraph writes graph.json in place.
CreatesFile_Save(c) == Doing(c, "CreateGraph", "locked") \/ at[c] = "loaded"

CreatesFile(c) == Doing(c, "CreateGraph", "locked")
ContentWrite(c) ==
    at[c] = "lockedExternal" \/ Doing(c, "StoreContent", "locked")

CanTear(c) ==
    \/ "tornGraph" \in Faults /\ CreatesFile(c)
    \/ "tornContent" \in Faults /\ ContentWrite(c)

Restart ==
    /\ restarts < MaxRestarts
    /\ \E cut \in SUBSET {c \in Clients : CanTear(c)} :
         LET graphs == {target[c] : c \in {d \in cut : CreatesFile(d)}}
             cutFiles == {<<target[c], Kept(call[c].content)>> :
                            c \in {d \in cut : ContentWrite(d)}} \ files
         IN  /\ disk' = Merge(disk, [g \in graphs |-> None])
             /\ dirs' = dirs \cup {target[c] : c \in cut}
             /\ files' = files \cup cutFiles
             /\ torn' = torn \cup cutFiles
    /\ known' \in IF "scan" \in Faults THEN SUBSET DOMAIN disk' ELSE {DOMAIN disk'}
    /\ lockOf' = [g \in Graphs |-> 0]
    /\ activeGraph' = None
    /\ call' = NoCalls(None) /\ at' = NoCalls("idle") /\ target' = NoCalls(None)
    /\ lock' = NoCalls(0) /\ loaded' = NoCalls(None) /\ reply' = NoCalls(None)
    /\ restarts' = restarts + 1
    /\ UNCHANGED <<mode, deleted>>

------------------------------------------------------------------------------
GraphStep(c) == \/ MarkGraph(c) \/ CreateGraph(c) \/ CreateFails(c)
                \/ UnmarkGraph(c) \/ DeleteGraph(c) \/ DeleteFails(c) \/ ListGraphs(c)

NodeStep(c) == \/ NotKept(c) \/ StartNodeOp(c) \/ StoreExternal(c) \/ GraphMissing(c)
               \/ GraphTorn(c) \/ ListNodes(c) \/ NodeExists(c) \/ NodeMissing(c)
               \/ GetNode(c) \/ ReadContent(c) \/ Load(c) \/ Save(c) \/ SaveFails(c)

ContentStep(c) == \/ FindActive(c) \/ CheckActive(c)
                  \/ StoreContent(c) \/ GetContent(c) \/ DeleteContent(c)

Work(c) == \/ FetchLock(c) \/ Acquire(c) \/ IOFails(c)
           \/ GraphStep(c) \/ NodeStep(c) \/ ContentStep(c)

Next == \/ \E c \in Clients : Invoke(c) \/ Work(c) \/ Return(c)
        \/ Restart

Spec == Init /\ [][Next]_vars

------------------------------------------------------------------------------
(* Properties.                                                               *)

\* Types; files have a directory to be in, and a call past its start has a
\* target.
TypeOK ==
    /\ mode \in Modes
    /\ DOMAIN disk \subseteq dirs /\ dirs \cup known \subseteq Graphs
    /\ torn \subseteq files
    /\ files \subseteq dirs \X (Contents \ Unmarshallable)
    /\ \A g \in DOMAIN disk : disk[g] # None => \A p \in DOMAIN disk[g] :
         \A s \in Sides : disk[g][p][s] # None => disk[g][p][s] \in Holdings
    /\ activeGraph \in Graphs \cup {None}
    /\ \A c \in Clients :
         /\ at[c] \in {"idle", "start", "done"} <=> target[c] = None
         /\ at[c] = "loaded" <=> loaded[c] # None
         /\ at[c] = "done" <=> reply[c] # None

\* Callers that create and delete graphs of their own: nobody else works on
\* such a graph, or lists the graphs. Contents of the active graph are not
\* among the calls of a GraphStore.
CallsApart(asks) ==
    \A c, d \in Clients : \A r \in asks[c], q \in asks[d] :
        /\ r.op \in GraphOps \cup NodeOps
        /\ c # d /\ r.op \in {"CreateGraph", "DeleteGraph"} =>
              q.op # "ListGraphs" /\ q.g # r.g

\* Files, locks and the two phases of a large content are details: to callers
\* that do not create or delete a graph others are using, every call is atomic,
\* whatever I/O fails, and what it did survives the process.
AbstractNode(n) ==
    [data |-> n.data,
     request |-> IF n.request = None THEN None ELSE n.request.hash,
     response |-> IF n.response = None THEN None ELSE n.response.hash]
AbstractGraphs ==
    [g \in DOMAIN disk |-> [p \in DOMAIN disk[g] |-> AbstractNode(disk[g][p])]]
Store == INSTANCE GraphStore WITH graphs <- AbstractGraphs, Durable <- TRUE
Atomic == Store!Spec

\* Requests among which no graph that somebody creates is deleted, too, unless one
\* goroutine alone changes it.
Rewriters == {"CreateGraph", "DeleteGraph", "AddNode", "UpdateNode", "SetContent"}
RewritersApart(asks) ==
    \A g \in Graphs :
        LET Askers(ops) == {c \in Clients : \E r \in asks[c] : r.op \in ops /\ r.g = g}
        IN  \/ Askers({"CreateGraph"}) = {} \/ Askers({"DeleteGraph"}) = {}
            \/ \A c, d \in Askers(Rewriters) : c = d

\* "Per-graph locking": of the calls that are about to put a graph.json in place of
\* another, or to remove it, there is one per graph, whichever of the locks the graph
\* has had they hold: a call that waits for the lock of a graph while it is deleted
\* must not go on with it when others have come to lock its successor.
Rewriting(c) == \/ at[c] = "loaded"
                \/ Doing(c, "CreateGraph", "locked") \/ Doing(c, "DeleteGraph", "locked")
OneRewriter ==
    \A c, d \in Clients :
        c # d /\ target[c] = target[d] => ~(Rewriting(c) /\ Rewriting(d))

\* A graph the store knows has a graph.json, but for the time CreateGraph takes
\* to write it; one that could not be written is forgotten.
KnownHasFile ==
    \A g \in known \ DOMAIN disk :
        \E c \in Clients : call[c] # None /\ call[c].op = "CreateGraph" /\ target[c] = g

\* A node's external content is in its file, in full, unless DeleteContent
\* or a removal of its graph that failed half way removed it: the file is
\* written before graph.json names it.
ReferencedContentIsWhole ==
    \A g \in DOMAIN disk : disk[g] # None => \A p \in DOMAIN disk[g] :
        \A s \in Sides :
            LET h == disk[g][p][s]
            IN  h # None /\ ~h.embedded =>
                    \/ <<g, h.hash>> \in files \ torn
                    \/ <<g, h.hash>> \in deleted

\* A graph CreateGraph reports as created is one the store knows.
CreatedIsKnown ==
    \A c \in Clients :
        Doing(c, "CreateGraph", "done") /\ reply[c].err = "none" => call[c].g \in known

\* A node of a graph whose CreateGraph has returned is not lost, nor its
\* graph.json torn, by a call, a failure or a crash at any step: only
\* DeleteGraph removes nodes, and it makes the graph unknown first.
Created == {g \in known \cap DOMAIN disk :
              \A c \in Clients : ~(target[c] = g /\ call[c].op = "CreateGraph")}
NodesSurvive ==
    [][\A g \in Created : disk[g] # None =>
          /\ g \in DOMAIN disk'
          /\ disk'[g] # None
          /\ DOMAIN disk[g] \subseteq DOMAIN disk'[g]]_vars

\* ContentStore: "Store and retrieve content by hash". While a known graph has a
\* content file, GetContent has an active graph to look for it.
RetrievableByHash == (\E f \in files : f[1] \in known) => activeGraph # None

==============================================================================
