----------------------------- MODULE MemoryStore -----------------------------
(***************************************************************************)
(* The in-memory store (store/memorystore.go): its graphs are objects that *)
(* a call looks up under the global lock and uses under the lock of the    *)
(* object, when the map may name it no longer; contents too large to embed *)
(* go to a map of their own, by hash. A hash is the content it is of.      *)
(*                                                                         *)
(* A step is what happens under one lock. Two calls hold one lock while    *)
(* they wait for another: DeleteGraph holds the global lock and waits for  *)
(* the object's, getNodeContent holds the object's for reading and waits   *)
(* for the global one, so the locks are what those calls are doing.        *)
(***************************************************************************)
EXTENDS Naturals, Sequences, Functions, Maps

CONSTANTS
    Clients,         \* goroutines that call the store
    Requests,        \* [Clients -> the requests each may make], as in GraphStore
    Modes,           \* the UnmarshallableContentModes stores are made with
    Unmarshallable,  \* the contents json.Marshal rejects
    Placeholder,     \* what the "placeholder" mode stores instead
    Big,             \* the contents longer than MaxEmbedSize
    None,            \* Go's nil, and the empty string
    MaxObjects       \* bound: graphs created in a behaviour

VARIABLES
    mode,         \* options.UnmarshallableContentMode
    graphs,       \* graph ID |-> index of its object
    objects,      \* every memoryGraph created: node path |-> node
    contents,     \* the hashes in the contents map
    activeGraph,
    call,         \* the request each client is making, or None
    at,           \* how far it is
    ref,          \* the object it looked up, or 0
    reply,        \* what it returns, or None
    deleted       \* history: hashes removed by DeleteContent

calls == <<call, at, ref, reply>>
vars  == <<mode, graphs, objects, contents, activeGraph, deleted, calls>>

Sides   == {"request", "response"}
NodeOps == {"ListNodes", "AddNode", "GetNode", "UpdateNode", "SetContent", "ReadContent"}

\* What the requests name.
Named(field) == {r[field] : r \in {q \in UNION {Requests[c] : c \in Clients} :
                                     field \in DOMAIN q}}
Graphs   == Named("g")
Paths    == Named("p")
Contents == Named("content") \cup {Placeholder}
Data     == MapsOf(UNION {DOMAIN d : d \in Named("data")},
                   UNION {Range(d) : d \in Named("data")})

\* A memoryNode: its data, and for each side None or the hash and whether the
\* content is embedded.
Node(data) == [data |-> data, request |-> None, response |-> None]
Held(v, embedded) == [hash |-> v, embedded |-> embedded]

Holdings   == [hash : Contents \ Unmarshallable, embedded : BOOLEAN]
NodeRecord == [data : Data, request : Holdings \cup {None}, response : Holdings \cup {None}]
Errors     == {"none", "exists", "graph", "node", "marshal", "content"}
Values     == {None} \cup Contents \cup Data \cup (SUBSET Graphs) \cup (SUBSET Paths)

\* What GraphStore says of requests; None is none of the values it is told from.
ASSUME RequestsAssumption ==
    \A c \in Clients : \A r \in Requests[c] :
        \/ r \in [op : {"CreateGraph", "DeleteGraph", "ListGraphs", "ListNodes"}, g : Graphs]
        \/ r \in [op : {"GetNode"}, g : Graphs, p : Paths]
        \/ r \in [op : {"AddNode"}, g : Graphs, p : Paths, data : Data]
        \/ r \in [op : {"UpdateNode"}, g : Graphs, p : Paths, data : Data, merge : BOOLEAN]
        \/ r \in [op : {"ReadContent"}, g : Graphs, p : Paths, side : Sides]
        \/ r \in [op : {"SetContent"}, g : Graphs, p : Paths, side : Sides,
                  content : Contents, force : BOOLEAN]
        \/ r \in [op : {"StoreContent", "GetContent", "DeleteContent"}, content : Contents]

ASSUME NoneAssumption ==
    /\ \A c \in Clients : None \notin Requests[c]
    /\ None \notin Graphs \cup Contents \cup Holdings
    /\ None \notin [err : Errors, val : Values]
    /\ None \notin [err : Errors, val : Values, json : BOOLEAN]

ASSUME PlaceholderAssumption == Placeholder \notin Unmarshallable

Init ==
    /\ mode \in Modes
    /\ graphs = << >> /\ objects = << >> /\ contents = {} /\ activeGraph = None
    /\ call = [c \in Clients |-> None]
    /\ at = [c \in Clients |-> "idle"]
    /\ ref = [c \in Clients |-> 0]
    /\ reply = [c \in Clients |-> None]
    /\ deleted = {}

------------------------------------------------------------------------------
(* Locks, calls and returns.                                                 *)

GlobalFree == \A c \in Clients : at[c] # "lockGraph"
DataFreeOfReaders(o) == \A c \in Clients : ~(at[c] = "readExternal" /\ ref[c] = o)

Doing(c, op, where) == call[c] # None /\ call[c].op = op /\ at[c] = where

Goto(c, where, o) == /\ at' = [at EXCEPT ![c] = where]
                     /\ ref' = [ref EXCEPT ![c] = o]
                     /\ UNCHANGED <<call, reply>>

\* json: the value is what encoding/json makes of the stored bytes.
Finish(c, err, val, json) ==
    /\ reply' = [reply EXCEPT ![c] = [err |-> err, val |-> val, json |-> json]]
    /\ at' = [at EXCEPT ![c] = "done"]
    /\ ref' = [ref EXCEPT ![c] = 0]
    /\ UNCHANGED call
Succeed(c, val) == Finish(c, "none", val, FALSE)
FailWith(c, err) == Finish(c, err, None, FALSE)

Invoke(c) ==
    /\ call[c] = None
    /\ \E r \in Requests[c] :
         /\ r.op = "CreateGraph" => Len(objects) < MaxObjects
         /\ call' = [call EXCEPT ![c] = r]
    /\ at' = [at EXCEPT ![c] = "start"]
    /\ UNCHANGED <<ref, reply, mode, graphs, objects, contents, activeGraph, deleted>>

Return(c) ==
    /\ at[c] = "done"
    /\ call' = [call EXCEPT ![c] = None]
    /\ at' = [at EXCEPT ![c] = "idle"]
    /\ reply' = [reply EXCEPT ![c] = None]
    /\ UNCHANGED <<ref, mode, graphs, objects, contents, activeGraph, deleted>>

------------------------------------------------------------------------------
(* Graphs.                                                                   *)

CreateGraph(c) ==
    /\ Doing(c, "CreateGraph", "start") /\ GlobalFree
    /\ LET g == call[c].g
       IN  IF g \in DOMAIN graphs
           THEN FailWith(c, "exists") /\ UNCHANGED <<graphs, objects, activeGraph>>
           ELSE /\ objects' = Append(objects, << >>)
                /\ graphs' = With(graphs, g, Len(objects) + 1)
                /\ activeGraph' = IF activeGraph = None THEN g ELSE activeGraph
                /\ Succeed(c, None)
    /\ UNCHANGED <<mode, contents, deleted>>

\* DeleteGraph takes the global lock and keeps it ...
FindToDelete(c) ==
    /\ Doing(c, "DeleteGraph", "start") /\ GlobalFree
    /\ IF call[c].g \in DOMAIN graphs THEN Goto(c, "lockGraph", graphs[call[c].g])
       ELSE FailWith(c, "graph")
    /\ UNCHANGED <<mode, graphs, objects, contents, activeGraph, deleted>>

\* Mutant: the active graph is not changed when it is deleted.
DeleteGraph_StillActive(c) ==
    /\ Doing(c, "DeleteGraph", "lockGraph")
    /\ DataFreeOfReaders(ref[c])
    /\ graphs' = Restrict(graphs, DOMAIN graphs \ {call[c].g})
    /\ Succeed(c, None)
    /\ UNCHANGED <<mode, objects, contents, activeGraph, deleted>>

\* ... until it has the lock of the object.
DeleteGraph(c) ==
    /\ Doing(c, "DeleteGraph", "lockGraph")
    /\ DataFreeOfReaders(ref[c])
    /\ LET g == call[c].g
           others == DOMAIN graphs \ {g}
       IN  /\ graphs' = Restrict(graphs, others)
           /\ activeGraph' \in IF activeGraph # g THEN {activeGraph}
                               ELSE IF others = {} THEN {None} ELSE others
    /\ Succeed(c, None)
    /\ UNCHANGED <<mode, objects, contents, deleted>>

ListGraphs(c) ==
    /\ Doing(c, "ListGraphs", "start") /\ GlobalFree
    /\ Succeed(c, DOMAIN graphs)
    /\ UNCHANGED <<mode, graphs, objects, contents, activeGraph, deleted>>

------------------------------------------------------------------------------
(* Nodes.                                                                    *)

\* What setNodeContent keeps of a content; None: the mode skips it.
Kept(v) == IF v \notin Unmarshallable THEN v
           ELSE IF mode = "placeholder" THEN Placeholder ELSE None

Embedded(r) == r.force \/ Kept(r.content) \notin Big

\* A content json cannot marshal: an error, or nothing at all, by the mode.
NotKept(c) ==
    /\ Doing(c, "SetContent", "start")
    /\ Kept(call[c].content) = None
    /\ IF mode = "strict" THEN FailWith(c, "marshal") ELSE Succeed(c, None)
    /\ UNCHANGED <<mode, graphs, objects, contents, activeGraph, deleted>>

\* Mutant: the "skip" mode goes on with the empty hash.
LookUp_NoSkip(c) ==
    /\ at[c] = "start" /\ GlobalFree
    /\ call[c].op \in NodeOps
    /\ IF call[c].g \notin DOMAIN graphs THEN FailWith(c, "graph")
       ELSE Goto(c, "lockNode", graphs[call[c].g])
    /\ UNCHANGED <<mode, graphs, objects, contents, activeGraph, deleted>>

\* The graph is looked up under the global lock, which is then released.
LookUp(c) ==
    /\ at[c] = "start" /\ GlobalFree
    /\ call[c].op \in NodeOps
    /\ call[c].op = "SetContent" => Kept(call[c].content) # None
    /\ IF call[c].g \notin DOMAIN graphs THEN FailWith(c, "graph")
       ELSE Goto(c, IF call[c].op = "SetContent" /\ ~Embedded(call[c])
                    THEN "storeExternal" ELSE "lockNode",
                 graphs[call[c].g])
    /\ UNCHANGED <<mode, graphs, objects, contents, activeGraph, deleted>>

Nodes(c) == objects[ref[c]]
Put(c, n) == objects' = [objects EXCEPT ![ref[c]] = With(@, call[c].p, n)]

ListNodes(c) ==
    /\ Doing(c, "ListNodes", "lockNode")
    /\ Succeed(c, DOMAIN Nodes(c))
    /\ UNCHANGED <<mode, graphs, objects, contents, activeGraph, deleted>>

\* The writers of a node wait for the readers of its graph.
AddNode(c) ==
    /\ Doing(c, "AddNode", "lockNode") /\ DataFreeOfReaders(ref[c])
    /\ IF call[c].p \in DOMAIN Nodes(c)
       THEN FailWith(c, "exists") /\ UNCHANGED objects
       ELSE Put(c, Node(call[c].data)) /\ Succeed(c, None)
    /\ UNCHANGED <<mode, graphs, contents, activeGraph, deleted>>

NodeMissing(c) ==
    /\ at[c] = "lockNode"
    /\ call[c].op \in {"GetNode", "UpdateNode", "SetContent", "ReadContent"}
    /\ call[c].op \in {"UpdateNode", "SetContent"} => DataFreeOfReaders(ref[c])
    /\ call[c].p \notin DOMAIN Nodes(c)
    /\ FailWith(c, "node")
    /\ UNCHANGED <<mode, graphs, objects, contents, activeGraph, deleted>>

HasNode(c) == call[c].p \in DOMAIN Nodes(c)
TheNode(c) == Nodes(c)[call[c].p]

GetNode(c) ==
    /\ Doing(c, "GetNode", "lockNode") /\ HasNode(c)
    /\ Succeed(c, TheNode(c).data)
    /\ UNCHANGED <<mode, graphs, objects, contents, activeGraph, deleted>>

\* Mutant: a merge replaces the map it should add to.
UpdateNode_Replaces(c) ==
    /\ Doing(c, "UpdateNode", "lockNode") /\ DataFreeOfReaders(ref[c]) /\ HasNode(c)
    /\ Put(c, [TheNode(c) EXCEPT !.data = call[c].data])
    /\ Succeed(c, None)
    /\ UNCHANGED <<mode, graphs, contents, activeGraph, deleted>>

UpdateNode(c) ==
    /\ Doing(c, "UpdateNode", "lockNode") /\ DataFreeOfReaders(ref[c]) /\ HasNode(c)
    /\ Put(c, [TheNode(c) EXCEPT !.data =
                 IF call[c].merge THEN Merge(@, call[c].data) ELSE call[c].data])
    /\ Succeed(c, None)
    /\ UNCHANGED <<mode, graphs, contents, activeGraph, deleted>>

\* Mutant: the content is not stored when there is no node to refer to it yet.
StoreExternal_ForNode(c) ==
    /\ at[c] = "storeExternal" /\ GlobalFree
    /\ contents' = IF HasNode(c) THEN contents \cup {Kept(call[c].content)} ELSE contents
    /\ Goto(c, "lockNode", ref[c])
    /\ UNCHANGED <<mode, graphs, objects, activeGraph, deleted>>

\* A content that is not embedded goes to the contents map first, ...
StoreExternal(c) ==
    /\ at[c] = "storeExternal" /\ GlobalFree
    /\ contents' = contents \cup {Kept(call[c].content)}
    /\ Goto(c, "lockNode", ref[c])
    /\ UNCHANGED <<mode, graphs, objects, activeGraph, deleted>>

\* ... then the node refers to it.
SetContent(c) ==
    /\ Doing(c, "SetContent", "lockNode") /\ DataFreeOfReaders(ref[c]) /\ HasNode(c)
    /\ Put(c, [TheNode(c) EXCEPT ![call[c].side] =
                 Held(Kept(call[c].content), Embedded(call[c]))])
    /\ Succeed(c, Kept(call[c].content))
    /\ UNCHANGED <<mode, graphs, contents, activeGraph, deleted>>

\* getNodeContent: nothing set, or embedded: the very value that was set; ...
ReadContent(c) ==
    /\ Doing(c, "ReadContent", "lockNode") /\ HasNode(c)
    /\ LET h == TheNode(c)[call[c].side]
       IN  IF h = None THEN Succeed(c, None)
           ELSE IF h.embedded THEN Succeed(c, h.hash)
           ELSE Goto(c, "readExternal", ref[c])
    /\ UNCHANGED <<mode, graphs, objects, contents, activeGraph, deleted>>

\* ... external: the lock of the graph is held while the content is fetched.
ReadExternal(c) ==
    /\ at[c] = "readExternal" /\ GlobalFree
    /\ LET h == TheNode(c)[call[c].side]
       IN  IF h.hash \in contents THEN Finish(c, "none", h.hash, TRUE)
           ELSE FailWith(c, "content")
    /\ UNCHANGED <<mode, graphs, objects, contents, activeGraph, deleted>>

------------------------------------------------------------------------------
(* Contents.                                                                 *)

StoreContent(c) ==
    /\ Doing(c, "StoreContent", "start")
    /\ IF call[c].content \in Unmarshallable
       THEN FailWith(c, "marshal") /\ UNCHANGED contents
       ELSE /\ GlobalFree
            /\ contents' = contents \cup {call[c].content}
            /\ Succeed(c, call[c].content)
    /\ UNCHANGED <<mode, graphs, objects, activeGraph, deleted>>

GetContent(c) ==
    /\ Doing(c, "GetContent", "start") /\ GlobalFree
    /\ IF call[c].content \in contents THEN Finish(c, "none", call[c].content, TRUE)
       ELSE FailWith(c, "content")
    /\ UNCHANGED <<mode, graphs, objects, contents, activeGraph, deleted>>

DeleteContent(c) ==
    /\ Doing(c, "DeleteContent", "start") /\ GlobalFree
    /\ LET v == call[c].content
       IN  IF v \in contents
           THEN /\ contents' = contents \ {v} /\ deleted' = deleted \cup {v}
                /\ Succeed(c, None)
           ELSE FailWith(c, "content") /\ UNCHANGED <<contents, deleted>>
    /\ UNCHANGED <<mode, graphs, objects, activeGraph>>

------------------------------------------------------------------------------
Work(c) ==
    \/ CreateGraph(c) \/ FindToDelete(c) \/ DeleteGraph(c) \/ ListGraphs(c)
    \/ NotKept(c) \/ LookUp(c) \/ ListNodes(c) \/ AddNode(c) \/ NodeMissing(c)
    \/ GetNode(c) \/ UpdateNode(c) \/ StoreExternal(c) \/ SetContent(c)
    \/ ReadContent(c) \/ ReadExternal(c)
    \/ StoreContent(c) \/ GetContent(c) \/ DeleteContent(c)

Next == \E c \in Clients : Invoke(c) \/ Work(c) \/ Return(c)

Spec == Init /\ [][Next]_vars

\* Every goroutine inside a call keeps running.
FairSpec == Spec /\ \A c \in Clients : WF_vars(Work(c))

------------------------------------------------------------------------------
(* Properties.                                                               *)

\* Types; a call that is past its lookup has an object.
TypeOK ==
    /\ mode \in Modes
    /\ contents \cup deleted \subseteq Contents \ Unmarshallable
    /\ \A g \in DOMAIN graphs : graphs[g] \in DOMAIN objects
    /\ \A o \in DOMAIN objects : \A p \in DOMAIN objects[o] : \A s \in Sides :
         objects[o][p][s] # None =>
            objects[o][p][s] \in [hash : Contents \ Unmarshallable, embedded : BOOLEAN]
    /\ \A c \in Clients :
         /\ at[c] \in {"idle", "start", "lockGraph", "lockNode", "storeExternal",
                       "readExternal", "done"}
         /\ at[c] \in {"lockGraph", "lockNode", "storeExternal", "readExternal"}
               <=> ref[c] # 0
         /\ ref[c] \in 0 .. Len(objects)
         /\ at[c] = "done" <=> reply[c] # None

\* The object behind a graph ID and the content behind a hash are details: to
\* callers that delete nothing every call is atomic (locks per graph, content
\* stored before it is referred to, early release of the global lock).
AbstractNode(n) ==
    [data |-> n.data,
     request |-> IF n.request = None THEN None ELSE n.request.hash,
     response |-> IF n.response = None THEN None ELSE n.response.hash]
AbstractGraphs ==
    [g \in DOMAIN graphs |-> [p \in DOMAIN objects[graphs[g]] |->
                                AbstractNode(objects[graphs[g]][p])]]
AbstractReply ==
    [c \in Clients |-> IF reply[c] = None THEN None
                       ELSE [err |-> reply[c].err, val |-> reply[c].val]]
Store == INSTANCE GraphStore WITH graphs <- AbstractGraphs, reply <- AbstractReply,
                                  Faults <- {}, Durable <- FALSE
Atomic == Store!Spec

\* A node never refers to a content that is not there, unless DeleteContent
\* removed it, which looks at no node: not even between the two steps of
\* setNodeContent, nor in a graph deleted meanwhile.
MissingWasDeleted ==
    \A o \in DOMAIN objects : \A p \in DOMAIN objects[o] : \A s \in Sides :
        LET h == objects[o][p][s]
        IN  h # None /\ ~h.embedded /\ h.hash \notin contents => h.hash \in deleted

\* There is an active graph exactly when there is a graph, and it exists.
ActiveGraphExists ==
    IF activeGraph = None THEN DOMAIN graphs = {} ELSE activeGraph \in DOMAIN graphs

\* DeleteGraph locks the graph "to prevent races with operations on that graph
\* finishing after deletion": no call changes a graph that was deleted.
DeletedIsLeftAlone ==
    [][\A o \in DOMAIN objects : objects'[o] # objects[o] => o \in Range(graphs)]_vars

\* Every call returns: no two calls wait for each other's lock.
EveryCallReturns == \A c \in Clients : call[c] # None ~> reply[c] # None

==============================================================================
