----------------------------- MODULE GraphStore -----------------------------
(***************************************************************************)
(* What a Store promises (store/store.go, interface GraphStore): every     *)
(* call takes effect at once, at some moment between its invocation and    *)
(* its return, and what took effect survives the process if the store is   *)
(* durable. Operations independent of a graph (ContentStore) are not part  *)
(* of it. A content is its value: where it is kept is the store's affair.  *)
(*                                                                         *)
(* A request is a record with the field op and what that operation takes:  *)
(* g a graph, p a node path, data a map of keys to values, merge, side     *)
(* "request" or "response", content, force (forceEmbed). A reply has the   *)
(* fields err, "none" for Go's nil, and val.                               *)
(***************************************************************************)
EXTENDS Maps

CONSTANTS
    Clients,         \* goroutines that call the store
    Requests,        \* [Clients -> the requests each of them may make]
    Unmarshallable,  \* the contents json.Marshal rejects
    Placeholder,     \* what the "placeholder" mode stores instead
    None,            \* no call, no reply, no content
    Faults,          \* the ways I/O may fail; {} in memory
    Durable          \* the store survives the process

VARIABLES
    mode,    \* UnmarshallableContentMode
    graphs,  \* graph |-> node path |-> node
    call,    \* the request each client is making, or None
    reply    \* what its call is going to return, or None

vars == <<mode, graphs, call, reply>>

Node(data) == [data |-> data, request |-> None, response |-> None]

Success(v)   == [err |-> "none", val |-> v]
Failure(err) == [err |-> err, val |-> None]

\* Set*Content: the content kept, by the mode; None: skipped.
Kept(v) == IF v \notin Unmarshallable THEN v
           ELSE IF mode = "placeholder" THEN Placeholder ELSE None

Init == /\ call = [c \in Clients |-> None]
        /\ reply = [c \in Clients |-> None]

Invoke(c) == /\ call[c] = None
             /\ \E r \in Requests[c] : call' = [call EXCEPT ![c] = r]
             /\ UNCHANGED <<mode, graphs, reply>>

Return(c) == /\ reply[c] # None
             /\ call' = [call EXCEPT ![c] = None]
             /\ reply' = [reply EXCEPT ![c] = None]
             /\ UNCHANGED <<mode, graphs>>

------------------------------------------------------------------------------
Answer(c, rep) == /\ reply' = [reply EXCEPT ![c] = rep]
                  /\ UNCHANGED <<mode, call>>

\* The graph as changed, and the call answered.
Change(c, gs, v) == graphs' = gs /\ Answer(c, Success(v))

\* Nothing changes.
Reject(c, err) == Answer(c, Failure(err)) /\ UNCHANGED graphs
Tell(c, v)     == Answer(c, Success(v)) /\ UNCHANGED graphs

WithNode(g, p, n) == [graphs EXCEPT ![g] = With(@, p, n)]

DoGraph(c, r) ==
    \/ /\ r.op = "CreateGraph"
       /\ IF r.g \in DOMAIN graphs THEN Reject(c, "exists")
          ELSE Change(c, With(graphs, r.g, << >>), None)
    \/ /\ r.op = "DeleteGraph"
       /\ IF r.g \notin DOMAIN graphs THEN Reject(c, "graph")
          ELSE Change(c, [g \in DOMAIN graphs \ {r.g} |-> graphs[g]], None)
    \/ r.op = "ListGraphs" /\ Tell(c, DOMAIN graphs)

\* A content that is not kept is reported before the graph is looked at.
NotKept(c, r) ==
    /\ r.op = "SetContent" /\ Kept(r.content) = None
    /\ IF mode = "strict" THEN Reject(c, "marshal") ELSE Tell(c, None)

DoNode(c, r) ==
    /\ r.op \in {"ListNodes", "AddNode", "GetNode", "UpdateNode", "SetContent", "ReadContent"}
    /\ r.op = "SetContent" => Kept(r.content) # None
    /\ IF r.g \notin DOMAIN graphs THEN Reject(c, "graph")
       ELSE LET nodes == graphs[r.g]
            IN  \/ r.op = "ListNodes" /\ Tell(c, DOMAIN nodes)
                \/ /\ r.op = "AddNode"
                   /\ IF r.p \in DOMAIN nodes THEN Reject(c, "exists")
                      ELSE Change(c, WithNode(r.g, r.p, Node(r.data)), None)
                \/ /\ r.op \notin {"ListNodes", "AddNode"}
                   /\ r.p \notin DOMAIN nodes
                   /\ Reject(c, "node")
                \/ /\ r.op \notin {"ListNodes", "AddNode"}
                   /\ r.p \in DOMAIN nodes
                   /\ LET n == nodes[r.p]
                      IN  \/ r.op = "GetNode" /\ Tell(c, n.data)
                          \/ /\ r.op = "UpdateNode"
                             /\ Change(c, WithNode(r.g, r.p, [n EXCEPT !.data =
                                             IF r.merge THEN Merge(@, r.data) ELSE r.data]), None)
                          \/ /\ r.op = "SetContent"
                             /\ Change(c, WithNode(r.g, r.p,
                                         [n EXCEPT ![r.side] = Kept(r.content)]),
                                       Kept(r.content))
                          \/ r.op = "ReadContent" /\ Tell(c, n[r.side])

\* The one moment at which the call takes effect.
Do(c) == /\ call[c] # None /\ reply[c] = None
         /\ DoGraph(c, call[c]) \/ NotKept(c, call[c]) \/ DoNode(c, call[c])

\* Or it fails and has none.
Fail(c) == /\ Faults # {}
           /\ call[c] # None /\ reply[c] = None
           /\ Reject(c, "io")

\* The process dies: its calls are gone, what was done is not.
Crash == /\ Durable
         /\ call' = [c \in Clients |-> None]
         /\ reply' = [c \in Clients |-> None]
         /\ UNCHANGED <<mode, graphs>>

Next == \/ \E c \in Clients : Invoke(c) \/ Do(c) \/ Fail(c) \/ Return(c)
        \/ Crash

Spec == Init /\ [][Next]_vars
==============================================================================
