-------------------------- MODULE MemoryStoreProofs --------------------------
(***************************************************************************)
(* Theorems of MemoryStore for every set of goroutines, whatever they ask  *)
(* of the store: its types, its contents, and that it is a GraphStore to   *)
(* those who delete nothing.                                               *)
(***************************************************************************)
EXTENDS MemoryStore, MapTheorems, SequenceTheorems, TLAPS

------------------------------------------------------------------------------
(* Types.                                                                    *)

All == UNION {Requests[c] : c \in Clients}

Places  == {"idle", "start", "lockGraph", "lockNode", "storeExternal", "readExternal",
            "done"}
InGraph == {"lockGraph", "lockNode", "storeExternal", "readExternal"}
Replies == [err : Errors, val : Values, json : BOOLEAN]

\* What a call is doing, and for which request.
CallType(c) ==
    /\ at[c] = "idle" <=> call[c] = None
    /\ at[c] \in InGraph <=> ref[c] # 0
    /\ at[c] = "done" <=> reply[c] # None
    /\ at[c] = "lockGraph" => call[c].op = "DeleteGraph"
    /\ at[c] = "lockNode" => call[c].op \in NodeOps
    /\ at[c] = "storeExternal" => call[c].op = "SetContent" /\ ~Embedded(call[c])
    /\ at[c] \in {"storeExternal", "lockNode"} /\ call[c].op = "SetContent"
          => Kept(call[c].content) # None
    /\ at[c] = "readExternal" => call[c].op = "ReadContent"

CallsType ==
    /\ mode \in Modes
    /\ call \in [Clients -> All \cup {None}]
    /\ at \in [Clients -> Places]
    /\ ref \in [Clients -> Nat]
    /\ reply \in [Clients -> Replies \cup {None}]
    /\ \A c \in Clients : CallType(c)

\* A read that went for an external content found a node that refers to one,
\* and holds the lock that keeps the node so.
ReadType(c) ==
    at[c] = "readExternal" =>
        /\ HasNode(c)
        /\ TheNode(c)[call[c].side] # None
        /\ ~TheNode(c)[call[c].side].embedded

DataType ==
    /\ objects \in Seq(MapsOf(Paths, NodeRecord))
    /\ graphs \in MapsOf(Graphs, DOMAIN objects)
    /\ contents \subseteq Contents \ Unmarshallable
    /\ deleted \subseteq Contents \ Unmarshallable
    /\ activeGraph \in Graphs \cup {None}
    /\ \A c \in Clients : ref[c] \in 0 .. Len(objects)
    /\ \A c \in Clients : ReadType(c)

MType == CallsType /\ DataType

LEMMA Requested ==
    ASSUME NEW r \in All
    PROVE  /\ r.op \in {"CreateGraph", "DeleteGraph", "ListGraphs"} \cup NodeOps => r.g \in Graphs
           /\ r.op \in NodeOps \ {"ListNodes"} => r.p \in Paths
           /\ r.op \in {"AddNode", "UpdateNode"} => r.data \in Data
           /\ r.op = "UpdateNode" => r.merge \in BOOLEAN
           /\ r.op \in {"SetContent", "ReadContent"} => r.side \in Sides
           /\ r.op = "SetContent" => r.force \in BOOLEAN
           /\ r.op \in {"SetContent", "StoreContent", "GetContent", "DeleteContent"}
                 => r.content \in Contents
           /\ r # None
BY RequestsAssumption, NoneAssumption DEF All, NodeOps

\* What setNodeContent keeps of a content can be marshalled.
LEMMA KeptType ==
    ASSUME NEW v \in Contents, Kept(v) # None
    PROVE  Kept(v) \in Contents \ Unmarshallable
BY PlaceholderAssumption DEF Kept, Contents

LEMMA NoneIsNoContent == None \notin Contents /\ None \notin Graphs /\ None \notin Holdings
BY NoneAssumption

LEMMA NoReply == \A rep \in Replies : rep # None
BY NoneAssumption DEF Replies

LEMMA FinishCalls ==
    ASSUME CallsType, NEW c \in Clients, at[c] # "idle",
           NEW err \in Errors, NEW val \in Values, NEW json \in BOOLEAN,
           Finish(c, err, val, json), mode' = mode
    PROVE  CallsType'
<1> DEFINE rep == [err |-> err, val |-> val, json |-> json]
<1>1. rep \in Replies /\ rep # None
  BY NoReply DEF Replies
<1>2. reply' = [reply EXCEPT ![c] = rep]
  BY DEF Finish
<1> HIDE DEF rep
<1>3. /\ reply' \in [Clients -> Replies \cup {None}]
      /\ at' \in [Clients -> Places] /\ ref' \in [Clients -> Nat] /\ call' = call
      /\ mode' \in Modes
  BY <1>1, <1>2 DEF CallsType, Finish, Places
<1>4. ASSUME NEW d \in Clients PROVE CallType(d)'
  BY <1>1, <1>2 DEF CallsType, CallType, Finish, Kept, Embedded, InGraph
<1> QED
  BY <1>3, <1>4 DEF CallsType

LEMMA GotoCalls ==
    ASSUME CallsType, NEW c \in Clients, at[c] \notin {"idle", "done"},
           NEW where \in InGraph, NEW o \in Nat \ {0},
           Goto(c, where, o), mode' = mode,
           where = "lockGraph" => call[c].op = "DeleteGraph",
           where = "lockNode" => call[c].op \in NodeOps,
           where = "storeExternal" => call[c].op = "SetContent" /\ ~Embedded(call[c]),
           where \in {"storeExternal", "lockNode"} /\ call[c].op = "SetContent"
              => Kept(call[c].content) # None,
           where = "readExternal" => call[c].op = "ReadContent"
    PROVE  CallsType'
<1>1. at' \in [Clients -> Places] /\ ref' \in [Clients -> Nat] /\ call' = call
      /\ mode' \in Modes /\ reply' = reply
  BY DEF CallsType, Goto, Places, InGraph
<1>2. ASSUME NEW d \in Clients PROVE CallType(d)'
  BY DEF CallsType, CallType, Goto, Kept, Embedded, InGraph
<1> QED
  BY <1>1, <1>2 DEF CallsType

------------------------------------------------------------------------------
(* What a step may do to the data.                                           *)

Moves(c) == \/ \E where, o : Goto(c, where, o)
            \/ \E err, val, json : Finish(c, err, val, json)

\* The calls of the others are as they were.
LEMMA OthersStay ==
    ASSUME CallsType, NEW c \in Clients, Moves(c), NEW d \in Clients, d # c
    PROVE  at'[d] = at[d] /\ ref'[d] = ref[d] /\ call'[d] = call[d] /\ reply'[d] = reply[d]
BY DEF CallsType, Moves, Goto, Finish

LEMMA Object ==
    ASSUME MType, NEW c \in Clients, ref[c] # 0
    PROVE  /\ ref[c] \in DOMAIN objects
           /\ Nodes(c) \in MapsOf(Paths, NodeRecord)
           /\ DOMAIN Nodes(c) \subseteq Paths
           /\ HasNode(c) => TheNode(c) \in NodeRecord
<1>1. ref[c] \in DOMAIN objects
  BY DEF MType, CallsType, DataType
<1>2. Nodes(c) \in MapsOf(Paths, NodeRecord)
  BY <1>1 DEF MType, DataType, Nodes
<1>3. \A p \in DOMAIN Nodes(c) : Nodes(c)[p] \in NodeRecord
  BY <1>2, MapType
<1>4. DOMAIN Nodes(c) \subseteq Paths
  BY <1>2, MapType
<1> QED
  BY <1>1, <1>2, <1>3, <1>4 DEF HasNode, TheNode

\* No object changes, and c does not go to read an external content.
LEMMA DataStays ==
    ASSUME MType, NEW c \in Clients, Moves(c), UNCHANGED objects,
           at'[c] # "readExternal", ref'[c] \in 0 .. Len(objects),
           graphs' \in MapsOf(Graphs, DOMAIN objects),
           contents' \subseteq Contents \ Unmarshallable,
           deleted' \subseteq Contents \ Unmarshallable,
           activeGraph' \in Graphs \cup {None}
    PROVE  DataType'
<1>1. ASSUME NEW d \in Clients PROVE ref'[d] \in 0 .. Len(objects) /\ ReadType(d)'
  <2>1. CASE d = c
    BY <2>1 DEF ReadType
  <2>2. CASE d # c
    <3>1. at'[d] = at[d] /\ ref'[d] = ref[d] /\ call'[d] = call[d]
      BY <2>2, OthersStay DEF MType
    <3> QED
      BY <3>1 DEF MType, DataType, ReadType, HasNode, TheNode, Nodes
  <2> QED
    BY <2>1, <2>2
<1> QED
  BY <1>1 DEF MType, DataType

\* c puts a node into the graph it has the lock of.
LEMMA PutObject ==
    ASSUME MType, NEW c \in Clients, ref[c] # 0, NEW n \in NodeRecord,
           call[c].p \in Paths, Put(c, n)
    PROVE  /\ objects' \in Seq(MapsOf(Paths, NodeRecord))
           /\ Len(objects') = Len(objects) /\ DOMAIN objects' = DOMAIN objects
           /\ objects'[ref[c]] = With(Nodes(c), call[c].p, n)
           /\ \A o \in DOMAIN objects \ {ref[c]} : objects'[o] = objects[o]
<1>1. PICK m : m = With(Nodes(c), call[c].p, n)
  OBVIOUS
<1>2. m \in MapsOf(Paths, NodeRecord)
  BY <1>1, Object, WithIsMap
<1>3. objects' = [objects EXCEPT ![ref[c]] = m]
  BY <1>1 DEF Put, Nodes
<1>4. ref[c] \in DOMAIN objects /\ objects \in Seq(MapsOf(Paths, NodeRecord))
  BY Object DEF MType, DataType
<1> QED
  BY <1>1, <1>2, <1>3, <1>4

LEMMA DataPut ==
    ASSUME MType, NEW c \in Clients, ref[c] # 0, NEW n \in NodeRecord,
           call[c].p \in Paths, Put(c, n), DataFreeOfReaders(ref[c]),
           Moves(c), ref'[c] = 0, at'[c] = "done",
           UNCHANGED <<graphs, contents, deleted, activeGraph>>
    PROVE  DataType'
<1>1. /\ objects' \in Seq(MapsOf(Paths, NodeRecord))
      /\ Len(objects') = Len(objects) /\ DOMAIN objects' = DOMAIN objects
      /\ \A o \in DOMAIN objects \ {ref[c]} : objects'[o] = objects[o]
  BY PutObject
<1>2. ASSUME NEW d \in Clients PROVE ref'[d] \in 0 .. Len(objects) /\ ReadType(d)'
  <2>1. CASE d = c
    BY <2>1 DEF ReadType, MType, DataType
  <2>2. CASE d # c
    <3>1. at'[d] = at[d] /\ ref'[d] = ref[d] /\ call'[d] = call[d]
      BY <2>2, OthersStay DEF MType
    <3>2. at[d] = "readExternal" => ref[d] # ref[c] /\ ref[d] \in DOMAIN objects
      BY Object DEF DataFreeOfReaders, MType, CallsType, CallType, InGraph
    <3>3. ref[d] \in 0 .. Len(objects) /\ ReadType(d)
      BY DEF MType, DataType
    <3>4. at[d] = "readExternal" => objects'[ref[d]] = objects[ref[d]]
      BY <1>1, <3>2
    <3> QED
      BY <1>1, <3>1, <3>3, <3>4 DEF ReadType, HasNode, TheNode, Nodes
  <2> QED
    BY <2>1, <2>2
<1> QED
  BY <1>1, <1>2 DEF MType, DataType

------------------------------------------------------------------------------
(* Every step keeps the types.                                               *)

\* A call that ends where it changes nothing.
LEMMA EndTypes ==
    ASSUME MType, NEW c \in Clients, at[c] # "idle",
           NEW err \in Errors, NEW val \in Values, NEW json \in BOOLEAN,
           Finish(c, err, val, json),
           UNCHANGED <<mode, graphs, objects, contents, activeGraph, deleted>>
    PROVE  MType'
<1>1. CallsType'
  BY FinishCalls DEF MType
<1>2. Moves(c) /\ at'[c] = "done" /\ ref'[c] = 0
  BY DEF Moves, Finish, MType, CallsType
<1>3. DataType'
  BY <1>2, DataStays DEF MType, DataType
<1> QED
  BY <1>1, <1>3 DEF MType

LEMMA FailTypes ==
    ASSUME MType, NEW c \in Clients, at[c] # "idle",
           NEW err \in Errors, FailWith(c, err),
           UNCHANGED <<mode, graphs, objects, contents, activeGraph, deleted>>
    PROVE  MType'
BY EndTypes DEF FailWith, Values

LEMMA SucceedTypes ==
    ASSUME MType, NEW c \in Clients, at[c] # "idle",
           NEW val \in Values, Succeed(c, val),
           UNCHANGED <<mode, graphs, objects, contents, activeGraph, deleted>>
    PROVE  MType'
BY EndTypes DEF Succeed, Errors

LEMMA InvokeTypes ==
    ASSUME MType, NEW c \in Clients, Invoke(c)
    PROVE  MType'
<1> USE DEF MType, Invoke
<1>1. PICK r \in Requests[c] : call' = [call EXCEPT ![c] = r]
  OBVIOUS
<1>2. r # None /\ r \in All
  BY Requested DEF All
<1>3. at[c] = "idle"
  BY DEF CallsType, CallType
<1>4. at' = [at EXCEPT ![c] = "start"] /\ "start" \in Places
  BY DEF Places
<1>5. call' \in [Clients -> All \cup {None}] /\ at' \in [Clients -> Places]
  BY <1>1, <1>2, <1>4 DEF CallsType
<1>6. ASSUME NEW d \in Clients PROVE CallType(d)' /\ ReadType(d)'
  <2>1. CASE d = c
    <3>1. at'[c] = "start" /\ call'[c] = r
      BY <1>1, <1>4 DEF CallsType
    <3> QED
      BY <1>2, <1>3, <2>1, <3>1 DEF CallsType, CallType, ReadType, InGraph
  <2>2. CASE d # c
    <3>1. at'[d] = at[d] /\ call'[d] = call[d]
      BY <1>1, <1>4, <2>2 DEF CallsType
    <3>2. CallType(d)'
      BY <3>1 DEF CallsType, CallType, Kept, Embedded
    <3>3. ReadType(d)'
      BY <3>1 DEF DataType, ReadType, HasNode, TheNode, Nodes
    <3> QED
      BY <3>2, <3>3
  <2> QED
    BY <2>1, <2>2
<1> QED
  BY <1>5, <1>6 DEF CallsType, DataType

LEMMA ReturnTypes ==
    ASSUME MType, NEW c \in Clients, Return(c)
    PROVE  MType'
<1> USE DEF MType, Return
<1>1. /\ call' \in [Clients -> All \cup {None}] /\ at' \in [Clients -> Places]
      /\ reply' \in [Clients -> Replies \cup {None}]
  BY DEF CallsType, Places
<1>2. ASSUME NEW d \in Clients PROVE CallType(d)' /\ ReadType(d)'
  BY DEF CallsType, CallType, DataType, ReadType, HasNode, TheNode,
         Nodes, Kept, Embedded, InGraph
<1> QED
  BY <1>1, <1>2 DEF CallsType, DataType

LEMMA CreateGraphTypes ==
    ASSUME MType, NEW c \in Clients, CreateGraph(c)
    PROVE  MType'
<1> DEFINE g == call[c].g
<1>1. call[c] \in All /\ g \in Graphs /\ at[c] = "start" /\ ref[c] = 0
  BY Requested DEF CreateGraph, Doing, MType, CallsType, CallType, InGraph
<1>2. CASE g \in DOMAIN graphs
  BY <1>1, <1>2, FailTypes DEF CreateGraph, Errors
<1>3. CASE g \notin DOMAIN graphs
  <2>1. /\ objects' = Append(objects, << >>)
        /\ graphs' = With(graphs, g, Len(objects) + 1)
        /\ activeGraph' \in {activeGraph, g}
        /\ Finish(c, "none", None, FALSE)
        /\ UNCHANGED <<mode, contents, deleted>>
    BY <1>3 DEF CreateGraph, Succeed
  <2>2. CallsType'
    BY <1>1, <2>1, FinishCalls DEF MType, Errors, Values
  <2>3. /\ objects' \in Seq(MapsOf(Paths, NodeRecord))
        /\ Len(objects') = Len(objects) + 1 /\ DOMAIN objects' = 1 .. Len(objects) + 1
        /\ \A o \in DOMAIN objects : objects'[o] = objects[o]
    <3>1. PICK e : e = << >> /\ e \in MapsOf(Paths, NodeRecord)
      BY EmptyMap
    <3>2. objects' = Append(objects, e) /\ objects \in Seq(MapsOf(Paths, NodeRecord))
      BY <2>1, <3>1 DEF MType, DataType
    <3> QED
      BY <3>1, <3>2
  <2>4. graphs' \in MapsOf(Graphs, DOMAIN objects')
    <3>1. PICK n : n = Len(objects) + 1
      OBVIOUS
    <3>2. n \in DOMAIN objects' /\ DOMAIN objects \subseteq DOMAIN objects'
      BY <2>3, <3>1 DEF MType, DataType
    <3>3. graphs \in MapsOf(Graphs, DOMAIN objects')
      BY <3>2, WiderMap DEF MType, DataType
    <3> QED
      BY <1>1, <2>1, <3>1, <3>2, <3>3, WithIsMap
  <2>5. Moves(c) /\ at'[c] = "done" /\ ref'[c] = 0
    BY <2>1 DEF Moves, Finish, MType, CallsType
  <2>6. ASSUME NEW d \in Clients PROVE ref'[d] \in 0 .. Len(objects') /\ ReadType(d)'
    <3>1. CASE d = c
      BY <2>3, <2>5, <3>1 DEF ReadType, MType, DataType
    <3>2. CASE d # c
      <4>1. at'[d] = at[d] /\ ref'[d] = ref[d] /\ call'[d] = call[d]
        BY <2>5, <3>2, OthersStay DEF MType
      <4>2. at[d] = "readExternal" => ref[d] \in DOMAIN objects
        BY Object DEF MType, CallsType, CallType, InGraph
      <4>3. ref'[d] \in 0 .. Len(objects')
        BY <2>3, <4>1 DEF MType, DataType
      <4>4. ReadType(d)'
        <5>1. ReadType(d)
          BY DEF MType, DataType
        <5>2. at[d] = "readExternal" => Nodes(d)' = Nodes(d)
          BY <2>3, <4>1, <4>2 DEF Nodes
        <5> QED
          BY <4>1, <5>1, <5>2 DEF ReadType, HasNode, TheNode
      <4> QED
        BY <4>3, <4>4
    <3> QED
      BY <3>1, <3>2
  <2>7. activeGraph' \in Graphs \cup {None}
    BY <1>1, <2>1 DEF MType, DataType
  <2> QED
    BY <2>1, <2>2, <2>3, <2>4, <2>6, <2>7 DEF MType, DataType
<1> QED
  BY <1>2, <1>3

LEMMA DeleteGraphTypes ==
    ASSUME MType, NEW c \in Clients, FindToDelete(c) \/ DeleteGraph(c)
    PROVE  MType'
<1>1. CASE FindToDelete(c)
  <2>1. at[c] = "start" /\ call[c].op = "DeleteGraph"
    BY <1>1 DEF FindToDelete, Doing
  <2>2. CASE call[c].g \notin DOMAIN graphs
    BY <1>1, <2>1, <2>2, FailTypes DEF FindToDelete, Errors
  <2>3. CASE call[c].g \in DOMAIN graphs
    <3>1. PICK o : o = graphs[call[c].g]
      OBVIOUS
    <3>2. o \in DOMAIN objects /\ o \in Nat \ {0} /\ o \in 0 .. Len(objects)
      BY <2>3, <3>1, MapType DEF MType, DataType
    <3>3. /\ Goto(c, "lockGraph", o)
          /\ UNCHANGED <<mode, graphs, objects, contents, activeGraph, deleted>>
      BY <1>1, <2>3, <3>1 DEF FindToDelete
    <3>4. CallsType'
      BY <2>1, <3>2, <3>3, GotoCalls DEF MType, InGraph
    <3>5. Moves(c) /\ at'[c] = "lockGraph" /\ ref'[c] = o
      BY <3>2, <3>3 DEF Moves, Goto, MType, CallsType, InGraph
    <3>6. DataType'
      BY <3>2, <3>3, <3>5, DataStays DEF MType, DataType
    <3> QED
      BY <3>4, <3>6 DEF MType
  <2> QED
    BY <2>2, <2>3
<1>2. CASE DeleteGraph(c)
  <2> DEFINE others == DOMAIN graphs \ {call[c].g}
  <2>1. /\ at[c] = "lockGraph" /\ graphs' = Restrict(graphs, others)
        /\ activeGraph' \in {activeGraph, None} \cup others
        /\ Finish(c, "none", None, FALSE)
        /\ UNCHANGED <<mode, objects, contents, deleted>>
    BY <1>2 DEF DeleteGraph, Doing, Succeed
  <2>2. CallsType'
    BY <2>1, FinishCalls DEF MType, Errors, Values
  <2>3. graphs' \in MapsOf(Graphs, DOMAIN objects) /\ DOMAIN graphs \subseteq Graphs
    BY <2>1, RestrictIsMap, MapType DEF MType, DataType
  <2>4. Moves(c) /\ at'[c] = "done" /\ ref'[c] = 0
    BY <2>1 DEF Moves, Finish, MType, CallsType
  <2>5. activeGraph' \in Graphs \cup {None}
    BY <2>1, <2>3 DEF MType, DataType
  <2>6. /\ UNCHANGED <<objects, contents, deleted>> /\ ref'[c] \in 0 .. Len(objects)
        /\ contents \subseteq Contents \ Unmarshallable
        /\ deleted \subseteq Contents \ Unmarshallable
    BY <2>1, <2>4 DEF MType, DataType
  <2>7. DataType'
    BY <2>3, <2>4, <2>5, <2>6, DataStays
  <2> QED
    BY <2>2, <2>7 DEF MType
<1> QED
  BY <1>1, <1>2

LEMMA LookUpTypes ==
    ASSUME MType, NEW c \in Clients, LookUp(c)
    PROVE  MType'
<1>1. at[c] = "start" /\ call[c].op \in NodeOps
  BY DEF LookUp
<1>2. CASE call[c].g \notin DOMAIN graphs
  BY <1>1, <1>2, FailTypes DEF LookUp, Errors
<1>3. CASE call[c].g \in DOMAIN graphs
  <2>1. PICK o, where : /\ o = graphs[call[c].g]
                        /\ where = IF call[c].op = "SetContent" /\ ~Embedded(call[c])
                                   THEN "storeExternal" ELSE "lockNode"
    OBVIOUS
  <2>2. o \in DOMAIN objects /\ o \in Nat \ {0} /\ o \in 0 .. Len(objects)
    BY <1>3, <2>1, MapType DEF MType, DataType
  <2>3. /\ Goto(c, where, o)
        /\ call[c].op = "SetContent" => Kept(call[c].content) # None
        /\ UNCHANGED <<mode, graphs, objects, contents, activeGraph, deleted>>
    BY <1>3, <2>1 DEF LookUp
  <2>4. where \in InGraph /\ where \in {"lockNode", "storeExternal"}
    BY <2>1 DEF InGraph
  <2>5. CallsType'
    BY <1>1, <2>1, <2>2, <2>3, <2>4, GotoCalls DEF MType
  <2>6. Moves(c) /\ at'[c] = where /\ ref'[c] = o
    BY <2>2, <2>3, <2>4 DEF Moves, Goto, MType, CallsType
  <2>7. DataType'
    BY <2>2, <2>3, <2>4, <2>6, DataStays DEF MType, DataType
  <2> QED
    BY <2>5, <2>7 DEF MType
<1> QED
  BY <1>2, <1>3

LEMMA NodeEndTypes ==
    ASSUME MType, NEW c \in Clients,
           NotKept(c) \/ ListGraphs(c) \/ ListNodes(c) \/ NodeMissing(c) \/ GetNode(c)
    PROVE  MType'
<1>1. CASE NotKept(c)
  <2>1. at[c] = "start" /\ UNCHANGED <<mode, graphs, objects, contents, activeGraph, deleted>>
    BY <1>1 DEF NotKept, Doing
  <2>2. FailWith(c, "marshal") \/ Succeed(c, None)
    BY <1>1 DEF NotKept
  <2> QED
    BY <2>1, <2>2, FailTypes, SucceedTypes DEF Errors, Values
<1>2. CASE ListGraphs(c)
  <2>1. PICK v : v = DOMAIN graphs
    OBVIOUS
  <2>2. v \in Values
    BY <2>1, MapType DEF MType, DataType, Values
  <2>3. at[c] = "start" /\ Succeed(c, v)
        /\ UNCHANGED <<mode, graphs, objects, contents, activeGraph, deleted>>
    BY <1>2, <2>1 DEF ListGraphs, Doing
  <2> QED
    BY <2>2, <2>3, SucceedTypes
<1>3. CASE ListNodes(c)
  <2>1. PICK v : v = DOMAIN Nodes(c)
    OBVIOUS
  <2>2. at[c] = "lockNode" /\ Succeed(c, v)
        /\ UNCHANGED <<mode, graphs, objects, contents, activeGraph, deleted>>
    BY <1>3, <2>1 DEF ListNodes, Doing
  <2>3. ref[c] # 0
    BY <2>2 DEF MType, CallsType, CallType, InGraph
  <2>4. v \in Values
    BY <2>1, <2>3, Object DEF Values
  <2> QED
    BY <2>2, <2>4, SucceedTypes
<1>4. CASE NodeMissing(c)
  BY <1>4, FailTypes DEF NodeMissing, Errors
<1>5. CASE GetNode(c)
  <2>1. PICK v : v = TheNode(c).data
    OBVIOUS
  <2>2. at[c] = "lockNode" /\ HasNode(c) /\ Succeed(c, v)
        /\ UNCHANGED <<mode, graphs, objects, contents, activeGraph, deleted>>
    BY <1>5, <2>1 DEF GetNode, Doing
  <2>3. ref[c] # 0
    BY <2>2 DEF MType, CallsType, CallType, InGraph
  <2>4. v \in Data
    BY <2>1, <2>2, <2>3, Object DEF NodeRecord
  <2>5. v \in Values
    BY <2>4 DEF Values
  <2> QED
    BY <2>2, <2>5, SucceedTypes
<1> QED
  BY <1>1, <1>2, <1>3, <1>4, <1>5

\* The node a writer puts: what it was, with something changed.
LEMMA PutTypes ==
    ASSUME MType, NEW c \in Clients, at[c] = "lockNode", NEW n \in NodeRecord,
           NEW val \in Values, call[c].p \in Paths, Put(c, n), Succeed(c, val),
           DataFreeOfReaders(ref[c]),
           UNCHANGED <<mode, graphs, contents, activeGraph, deleted>>
    PROVE  MType'
<1>1. Finish(c, "none", val, FALSE) /\ ref[c] # 0
  BY DEF Succeed, MType, CallsType, CallType, InGraph
<1>2. CallsType'
  BY <1>1, FinishCalls DEF MType, Errors
<1>3. Moves(c) /\ at'[c] = "done" /\ ref'[c] = 0
  BY <1>1 DEF Moves, Finish, MType, CallsType
<1>4. DataType'
  BY <1>1, <1>3, DataPut
<1> QED
  BY <1>2, <1>4 DEF MType

LEMMA DataChanged ==
    ASSUME NEW n \in NodeRecord, NEW d \in Data
    PROVE  /\ [n EXCEPT !.data = d] \in NodeRecord
           /\ [n EXCEPT !.data = d].data = d
           /\ \A s \in Sides : [n EXCEPT !.data = d][s] = n[s]
BY DEF NodeRecord, Sides

LEMMA SideChanged ==
    ASSUME NEW n \in NodeRecord, NEW s \in Sides, NEW h \in Holdings
    PROVE  /\ [n EXCEPT ![s] = h] \in NodeRecord
           /\ [n EXCEPT ![s] = h].data = n.data
           /\ \A t \in Sides : [n EXCEPT ![s] = h][t] = IF t = s THEN h ELSE n[t]
BY DEF NodeRecord, Sides

LEMMA NewNode ==
    ASSUME NEW d \in Data
    PROVE  Node(d) \in NodeRecord
BY DEF Node, NodeRecord

\* The requests of the calls that are in a graph.
LEMMA InNode ==
    ASSUME MType, NEW c \in Clients, at[c] \in {"lockNode", "storeExternal", "readExternal"}
    PROVE  /\ call[c] \in All /\ call[c].op \in NodeOps
           /\ call[c].g \in Graphs
           /\ call[c].op # "ListNodes" => call[c].p \in Paths
           /\ ref[c] # 0
<1>1. call[c] \in All /\ call[c].op \in NodeOps /\ ref[c] # 0
  BY DEF MType, CallsType, CallType, InGraph, NodeOps
<1> QED
  BY <1>1, Requested

LEMMA UpdateTypes ==
    ASSUME MType, NEW c \in Clients, AddNode(c) \/ UpdateNode(c)
    PROVE  MType'
<1>1. at[c] = "lockNode" /\ call[c].op \in {"AddNode", "UpdateNode"}
  BY DEF AddNode, UpdateNode, Doing
<1>2. call[c].p \in Paths /\ call[c].data \in Data /\ ref[c] # 0
  BY <1>1, InNode, Requested
<1>3. CASE AddNode(c)
  <2>1. CASE call[c].p \in DOMAIN Nodes(c)
    BY <1>1, <1>3, <2>1, FailTypes DEF AddNode, Errors
  <2>2. CASE call[c].p \notin DOMAIN Nodes(c)
    <3>1. PICK n \in NodeRecord : n = Node(call[c].data)
      BY <1>2, NewNode
    <3> QED
      BY <1>1, <1>2, <1>3, <2>2, <3>1, PutTypes DEF AddNode, Values
  <2> QED
    BY <2>1, <2>2
<1>4. CASE UpdateNode(c)
  <2>1. PICK n \in NodeRecord : n = TheNode(c)
    BY <1>2, <1>4, Object DEF UpdateNode
  <2>2. PICK d : d = IF call[c].merge THEN Merge(n.data, call[c].data) ELSE call[c].data
    OBVIOUS
  <2>3. n.data \in Data
    BY DEF NodeRecord
  <2>4. d \in Data
    BY <1>2, <2>2, <2>3, MergeIsMap DEF Data
  <2>5. PICK m \in NodeRecord : m = [n EXCEPT !.data = d]
    BY <2>4, DataChanged
  <2>6. Put(c, m)
    BY <1>4, <2>1, <2>2, <2>5 DEF UpdateNode
  <2> QED
    BY <1>1, <1>2, <1>4, <2>6, PutTypes DEF UpdateNode, Values
<1> QED
  BY <1>3, <1>4

LEMMA SetContentTypes ==
    ASSUME MType, NEW c \in Clients, SetContent(c)
    PROVE  MType'
<1>1. at[c] = "lockNode" /\ call[c].op = "SetContent" /\ HasNode(c)
  BY DEF SetContent, Doing
<1>2. /\ call[c].p \in Paths /\ call[c].side \in Sides /\ call[c].content \in Contents
      /\ call[c].force \in BOOLEAN /\ ref[c] # 0
  BY <1>1, InNode, Requested
<1>3. PICK v : v = Kept(call[c].content)
  OBVIOUS
<1>4. v \in Contents \ Unmarshallable
  BY <1>1, <1>2, <1>3, KeptType DEF MType, CallsType, CallType
<1>5. PICK h : h = Held(v, Embedded(call[c]))
  OBVIOUS
<1>6. h \in Holdings
  BY <1>2, <1>4, <1>5 DEF Held, Holdings, Embedded
<1>7. PICK n \in NodeRecord : n = TheNode(c)
  BY <1>1, <1>2, Object
<1>8. PICK m \in NodeRecord : m = [n EXCEPT ![call[c].side] = h]
  BY <1>2, <1>6, SideChanged
<1>9. Put(c, m) /\ Succeed(c, v) /\ DataFreeOfReaders(ref[c])
      /\ UNCHANGED <<mode, graphs, contents, activeGraph, deleted>>
  BY <1>3, <1>5, <1>7, <1>8 DEF SetContent
<1> QED
  BY <1>1, <1>2, <1>4, <1>9, PutTypes DEF Values

LEMMA StoreExternalTypes ==
    ASSUME MType, NEW c \in Clients, StoreExternal(c)
    PROVE  MType'
<1>1. at[c] = "storeExternal" /\ UNCHANGED <<mode, graphs, objects, activeGraph, deleted>>
  BY DEF StoreExternal
<1>2. call[c] \in All /\ call[c].op = "SetContent" /\ Kept(call[c].content) # None
  BY <1>1, InNode DEF MType, CallsType, CallType
<1>3. PICK o : o = ref[c]
  OBVIOUS
<1>4. o \in Nat \ {0} /\ o \in 0 .. Len(objects)
  BY <1>1, <1>3 DEF MType, CallsType, CallType, DataType, InGraph
<1>5. Goto(c, "lockNode", o)
  BY <1>3 DEF StoreExternal
<1>6. CallsType'
  BY <1>1, <1>2, <1>4, <1>5, GotoCalls DEF MType, InGraph, NodeOps
<1>7. contents' \subseteq Contents \ Unmarshallable
  BY <1>2, Requested, KeptType DEF StoreExternal, MType, DataType
<1>8. Moves(c) /\ at'[c] = "lockNode" /\ ref'[c] = o
  BY <1>4, <1>5 DEF Moves, Goto, MType, CallsType, InGraph
<1>9. DataType'
  BY <1>1, <1>4, <1>7, <1>8, DataStays DEF MType, DataType
<1> QED
  BY <1>6, <1>9 DEF MType

LEMMA ReadContentTypes ==
    ASSUME MType, NEW c \in Clients, ReadContent(c)
    PROVE  MType'
<1>1. /\ at[c] = "lockNode" /\ call[c].op = "ReadContent" /\ HasNode(c)
      /\ UNCHANGED <<mode, graphs, objects, contents, activeGraph, deleted>>
  BY DEF ReadContent, Doing
<1>2. call[c].side \in Sides /\ ref[c] # 0
  BY <1>1, InNode, Requested
<1>3. PICK h : h = TheNode(c)[call[c].side]
  OBVIOUS
<1>4. h \in Holdings \cup {None}
  BY <1>1, <1>2, <1>3, Object DEF NodeRecord, Sides
<1>5. CASE h = None
  BY <1>1, <1>3, <1>5, SucceedTypes DEF ReadContent, Values
<1>6. CASE h # None /\ h.embedded
  <2>1. h.hash \in Values
    BY <1>4, <1>6 DEF Holdings, Values
  <2> QED
    BY <1>1, <1>3, <1>6, <2>1, SucceedTypes DEF ReadContent
<1>7. CASE h # None /\ ~h.embedded
  <2>1. PICK o : o = ref[c]
    OBVIOUS
  <2>2. o \in Nat \ {0} /\ o \in 0 .. Len(objects)
    BY <1>2, <2>1 DEF MType, CallsType, DataType
  <2>3. Goto(c, "readExternal", o)
    BY <1>3, <1>7, <2>1 DEF ReadContent
  <2>4. CallsType'
    BY <1>1, <2>2, <2>3, GotoCalls DEF MType, InGraph
  <2>5. Moves(c) /\ at' = [at EXCEPT ![c] = "readExternal"] /\ ref'[c] = ref[c] /\ call' = call
    BY <2>1, <2>2, <2>3 DEF Moves, Goto, MType, CallsType, InGraph
  <2>6. ASSUME NEW d \in Clients PROVE ref'[d] \in 0 .. Len(objects) /\ ReadType(d)'
    <3>1. CASE d = c
      BY <1>1, <1>3, <1>7, <2>1, <2>2, <2>5, <3>1 DEF ReadType, HasNode, TheNode, Nodes
    <3>2. CASE d # c
      <4>1. at'[d] = at[d] /\ ref'[d] = ref[d] /\ call'[d] = call[d]
        BY <2>5, <3>2, OthersStay DEF MType
      <4> QED
        BY <1>1, <4>1 DEF MType, DataType, ReadType, HasNode, TheNode, Nodes
    <3> QED
      BY <3>1, <3>2
  <2>7. DataType'
    BY <1>1, <2>6 DEF MType, DataType
  <2> QED
    BY <2>4, <2>7 DEF MType
<1> QED
  BY <1>5, <1>6, <1>7

LEMMA ReadExternalTypes ==
    ASSUME MType, NEW c \in Clients, ReadExternal(c)
    PROVE  MType'
<1>1. /\ at[c] = "readExternal"
      /\ UNCHANGED <<mode, graphs, objects, contents, activeGraph, deleted>>
  BY DEF ReadExternal
<1>2. PICK h : h = TheNode(c)[call[c].side]
  OBVIOUS
<1>3. CASE h.hash \in contents
  <2>1. Finish(c, "none", h.hash, TRUE) /\ h.hash \in Values
    BY <1>2, <1>3 DEF ReadExternal, MType, DataType, Values
  <2> QED
    BY <1>1, <2>1, EndTypes DEF Errors
<1>4. CASE h.hash \notin contents
  BY <1>1, <1>2, <1>4, FailTypes DEF ReadExternal, Errors
<1> QED
  BY <1>3, <1>4

LEMMA ContentTypes ==
    ASSUME MType, NEW c \in Clients, StoreContent(c) \/ GetContent(c) \/ DeleteContent(c)
    PROVE  MType'
<1>1. /\ at[c] = "start" /\ UNCHANGED <<mode, graphs, objects, activeGraph>>
      /\ call[c] \in All /\ call[c].op \in {"StoreContent", "GetContent", "DeleteContent"}
  BY DEF StoreContent, GetContent, DeleteContent, Doing, MType, CallsType, CallType
<1>2. call[c].content \in Contents /\ call[c].content \in Values
  BY <1>1, Requested DEF Values
<1>3. CASE \E err : FailWith(c, err) /\ err \in Errors /\ UNCHANGED <<contents, deleted>>
  BY <1>1, <1>3, FailTypes
<1>4. CASE GetContent(c) /\ Finish(c, "none", call[c].content, TRUE)
  BY <1>1, <1>2, <1>4, EndTypes DEF GetContent, Errors
<1>5. CASE /\ \E val \in Values : Succeed(c, val)
           /\ contents' \subseteq Contents \ Unmarshallable
           /\ deleted' \subseteq Contents \ Unmarshallable
  <2>1. PICK val \in Values : Finish(c, "none", val, FALSE)
    BY <1>5 DEF Succeed
  <2>2. CallsType'
    BY <1>1, <2>1, FinishCalls DEF MType, Errors
  <2>3. Moves(c) /\ at'[c] = "done" /\ ref'[c] = 0
    BY <2>1 DEF Moves, Finish, MType, CallsType
  <2>4. DataType'
    BY <1>1, <1>5, <2>3, DataStays DEF MType, DataType
  <2> QED
    BY <2>2, <2>4 DEF MType
<1>6. CASE StoreContent(c)
  <2>1. CASE call[c].content \in Unmarshallable
    BY <1>3, <1>6, <2>1 DEF StoreContent, Errors
  <2>2. CASE call[c].content \notin Unmarshallable
    BY <1>2, <1>5, <1>6, <2>2 DEF StoreContent, MType, DataType
  <2> QED
    BY <2>1, <2>2
<1>7. CASE GetContent(c)
  BY <1>3, <1>4, <1>7 DEF GetContent, Errors
<1>8. CASE DeleteContent(c)
  <2>1. CASE call[c].content \in contents
    BY <1>5, <1>8, <2>1 DEF DeleteContent, MType, DataType, Values
  <2>2. CASE call[c].content \notin contents
    BY <1>3, <1>8, <2>2 DEF DeleteContent, Errors
  <2> QED
    BY <2>1, <2>2
<1> QED
  BY <1>6, <1>7, <1>8

LEMMA InitTypes ==
    ASSUME Init
    PROVE  MType
<1>1. graphs \in MapsOf(Graphs, DOMAIN objects)
  BY EmptyMap DEF Init
<1>2. CallsType
  BY DEF Init, CallsType, CallType, Places, InGraph
<1>3. DataType
  BY <1>1 DEF Init, DataType, ReadType
<1> QED
  BY <1>2, <1>3 DEF MType

LEMMA WorkTypes ==
    ASSUME MType, NEW c \in Clients, Work(c)
    PROVE  MType'
BY CreateGraphTypes, DeleteGraphTypes, LookUpTypes, NodeEndTypes, UpdateTypes,
   SetContentTypes, StoreExternalTypes, ReadContentTypes, ReadExternalTypes, ContentTypes
   DEF Work

LEMMA NextTypes ==
    ASSUME MType, [Next]_vars
    PROVE  MType'
<1>1. CASE UNCHANGED vars
  BY <1>1 DEF MType, CallsType, CallType, DataType, ReadType, HasNode, TheNode, Nodes,
              Kept, Embedded, vars, calls
<1>2. CASE Next
  BY <1>2, InvokeTypes, WorkTypes, ReturnTypes DEF Next
<1> QED
  BY <1>1, <1>2

\* The types, and what each call is doing: who is in a graph holds an object,
\* and a read that waits for the contents keeps its node as it found it.
THEOREM MTypeInvariant == Spec => []MType
BY InitTypes, NextTypes, PTL DEF Spec

\* TypeOK of the runs.
THEOREM TypeCorrect == Spec => []TypeOK
<1>1. MType => TypeOK
  <2> SUFFICES ASSUME MType PROVE TypeOK
    OBVIOUS
  <2> USE DEF MType
  <2>1. \A g \in DOMAIN graphs : graphs[g] \in DOMAIN objects
    BY MapType DEF DataType
  <2>2. ASSUME NEW o \in DOMAIN objects, NEW p \in DOMAIN objects[o], NEW s \in Sides,
               objects[o][p][s] # None
        PROVE  objects[o][p][s] \in [hash : Contents \ Unmarshallable, embedded : BOOLEAN]
    <3>1. objects[o] \in MapsOf(Paths, NodeRecord)
      BY DEF DataType
    <3>2. objects[o][p] \in NodeRecord
      BY <3>1, MapType
    <3> QED
      BY <2>2, <3>2 DEF NodeRecord, Sides, Holdings
  <2>3. ASSUME NEW c \in Clients
        PROVE  /\ at[c] \in Places /\ ref[c] \in 0 .. Len(objects)
               /\ at[c] \in InGraph <=> ref[c] # 0
               /\ at[c] = "done" <=> reply[c] # None
    BY DEF CallsType, CallType, DataType
  <2> QED
    BY <2>1, <2>2, <2>3 DEF TypeOK, CallsType, DataType, Places, InGraph
<1> QED
  BY <1>1, MTypeInvariant, PTL

------------------------------------------------------------------------------
(* External contents.                                                        *)

\* A call that is going to let a node refer to an external content has stored it.
StoredInv ==
    \A c \in Clients :
        at[c] = "lockNode" /\ call[c].op = "SetContent" /\ ~Embedded(call[c])
            => Kept(call[c].content) \in contents \cup deleted

ContentInv == MissingWasDeleted /\ StoredInv

\* A node whose external contents were stored.
Stored(n) == \A s \in Sides :
    n[s] # None /\ ~n[s].embedded => n[s].hash \in contents \cup deleted

\* A content leaves the store by DeleteContent alone.
LEMMA ContentsStay ==
    ASSUME [Next]_vars
    PROVE  contents \cup deleted \subseteq contents' \cup deleted' /\ mode' = mode
<1>1. CASE UNCHANGED vars
  BY <1>1 DEF vars
<1>2. ASSUME NEW c \in Clients, Invoke(c) \/ Return(c)
      PROVE  UNCHANGED <<contents, deleted, mode>>
  BY <1>2 DEF Invoke, Return
<1>3. ASSUME NEW c \in Clients, Work(c)
      PROVE  contents \cup deleted \subseteq contents' \cup deleted' /\ mode' = mode
  BY <1>3 DEF Work, CreateGraph, FindToDelete, DeleteGraph, ListGraphs, NotKept, LookUp,
     ListNodes, AddNode, NodeMissing, GetNode, UpdateNode, StoreExternal, SetContent,
     ReadContent, ReadExternal, StoreContent, GetContent, DeleteContent
<1> QED
  BY <1>1, <1>2, <1>3 DEF Next

\* A step that puts no node keeps the contents of the nodes.
LEMMA NoPut ==
    ASSUME MissingWasDeleted, [Next]_vars, UNCHANGED objects
    PROVE  MissingWasDeleted'
BY ContentsStay DEF MissingWasDeleted

LEMMA PutStored ==
    ASSUME MType, ContentInv, [Next]_vars, NEW c \in Clients, ref[c] # 0,
           NEW n \in NodeRecord, call[c].p \in Paths, Put(c, n), Stored(n)
    PROVE  MissingWasDeleted'
<1>1. /\ DOMAIN objects' = DOMAIN objects
      /\ objects'[ref[c]] = With(Nodes(c), call[c].p, n)
      /\ \A o \in DOMAIN objects \ {ref[c]} : objects'[o] = objects[o]
  BY PutObject
<1>2. PICK m : m = With(Nodes(c), call[c].p, n)
  OBVIOUS
<1>3. /\ DOMAIN m = DOMAIN Nodes(c) \cup {call[c].p} /\ m[call[c].p] = n
      /\ \A p \in DOMAIN Nodes(c) \ {call[c].p} : m[p] = Nodes(c)[p]
  BY <1>2 DEF With
<1>4. ref[c] \in DOMAIN objects
  BY Object
<1>5. ASSUME NEW o \in DOMAIN objects', NEW p \in DOMAIN objects'[o], NEW s \in Sides,
             objects'[o][p][s] # None, ~objects'[o][p][s].embedded
      PROVE  objects'[o][p][s].hash \in contents' \cup deleted'
  <2>1. CASE o = ref[c] /\ p = call[c].p
    BY <1>1, <1>2, <1>3, <1>5, <2>1, ContentsStay DEF Stored
  <2>2. CASE o = ref[c] /\ p # call[c].p
    BY <1>1, <1>2, <1>3, <1>4, <1>5, <2>2, ContentsStay
       DEF ContentInv, MissingWasDeleted, Nodes
  <2>3. CASE o # ref[c]
    BY <1>1, <1>5, <2>3, ContentsStay DEF ContentInv, MissingWasDeleted
  <2> QED
    BY <2>1, <2>2, <2>3
<1> QED
  BY <1>5 DEF MissingWasDeleted

LEMMA TheNodeStored ==
    ASSUME MType, MissingWasDeleted, NEW c \in Clients, ref[c] # 0, HasNode(c)
    PROVE  Stored(TheNode(c))
<1>1. ref[c] \in DOMAIN objects
  BY Object
<1> QED
  BY <1>1 DEF MissingWasDeleted, Stored, TheNode, HasNode, Nodes

LEMMA UpdateStored ==
    ASSUME MType, ContentInv, [Next]_vars, NEW c \in Clients, AddNode(c) \/ UpdateNode(c)
    PROVE  MissingWasDeleted'
<1>1. at[c] = "lockNode" /\ call[c].op \in {"AddNode", "UpdateNode"}
  BY DEF AddNode, UpdateNode, Doing
<1>2. call[c].p \in Paths /\ call[c].data \in Data /\ ref[c] # 0
  BY <1>1, InNode, Requested
<1>3. CASE AddNode(c) /\ call[c].p \notin DOMAIN Nodes(c)
  <2>1. PICK n \in NodeRecord : n = Node(call[c].data)
    BY <1>2, NewNode
  <2>2. Stored(n)
    BY <2>1 DEF Stored, Node, Sides
  <2>3. Put(c, n)
    BY <1>3, <2>1 DEF AddNode
  <2> QED
    BY <1>2, <2>2, <2>3, PutStored
<1>4. CASE UpdateNode(c)
  <2>1. PICK n \in NodeRecord : n = TheNode(c)
    BY <1>2, <1>4, Object DEF UpdateNode
  <2>2. PICK d : d = IF call[c].merge THEN Merge(n.data, call[c].data) ELSE call[c].data
    OBVIOUS
  <2>3. n.data \in Data
    BY DEF NodeRecord
  <2>4. d \in Data
    BY <1>2, <2>2, <2>3, MergeIsMap DEF Data
  <2>5. PICK m \in NodeRecord : m = [n EXCEPT !.data = d]
    BY <2>4, DataChanged
  <2>6. Put(c, m)
    BY <1>4, <2>1, <2>2, <2>5 DEF UpdateNode
  <2>7. Stored(n)
    BY <1>2, <1>4, <2>1, TheNodeStored DEF UpdateNode, ContentInv
  <2>8. \A s \in Sides : m[s] = n[s]
    BY <2>4, <2>5, DataChanged
  <2>9. Stored(m)
    BY <2>7, <2>8 DEF Stored
  <2> QED
    BY <1>2, <2>6, <2>9, PutStored
<1> QED
  BY <1>3, <1>4, NoPut DEF AddNode, ContentInv

LEMMA SetContentStored ==
    ASSUME MType, ContentInv, [Next]_vars, NEW c \in Clients, SetContent(c)
    PROVE  MissingWasDeleted'
<1>1. at[c] = "lockNode" /\ call[c].op = "SetContent" /\ HasNode(c)
  BY DEF SetContent, Doing
<1>2. /\ call[c].p \in Paths /\ call[c].side \in Sides /\ call[c].content \in Contents
      /\ call[c].force \in BOOLEAN /\ ref[c] # 0
  BY <1>1, InNode, Requested
<1>3. PICK v : v = Kept(call[c].content)
  OBVIOUS
<1>4. v \in Contents \ Unmarshallable
  BY <1>1, <1>2, <1>3, KeptType DEF MType, CallsType, CallType
<1>5. PICK h : h = Held(v, Embedded(call[c]))
  OBVIOUS
<1>6. /\ h \in Holdings /\ h.hash = v
      /\ ~h.embedded => v \in contents \cup deleted
  BY <1>1, <1>2, <1>3, <1>4, <1>5 DEF Held, Holdings, Embedded, ContentInv, StoredInv
<1>7. PICK n \in NodeRecord : n = TheNode(c)
  BY <1>1, <1>2, Object
<1>8. PICK m \in NodeRecord : m = [n EXCEPT ![call[c].side] = h]
  BY <1>2, <1>6, SideChanged
<1>9. Put(c, m)
  BY <1>3, <1>5, <1>7, <1>8 DEF SetContent
<1>10. Stored(n)
  BY <1>1, <1>2, <1>7, TheNodeStored DEF ContentInv
<1>11. \A s \in Sides : m[s] = IF s = call[c].side THEN h ELSE n[s]
  BY <1>2, <1>6, <1>8, SideChanged
<1>12. Stored(m)
  BY <1>6, <1>10, <1>11 DEF Stored
<1> QED
  BY <1>2, <1>9, <1>12, PutStored

LEMMA CreateGraphStored ==
    ASSUME MType, ContentInv, [Next]_vars, NEW c \in Clients, CreateGraph(c)
    PROVE  MissingWasDeleted'
<1>1. CASE UNCHANGED objects
  BY <1>1, NoPut DEF ContentInv
<1>2. CASE objects' = Append(objects, << >>)
  <2>1. PICK e : e = << >> /\ e \in MapsOf(Paths, NodeRecord) /\ DOMAIN e = {}
    BY EmptyMap
  <2>2. objects' = Append(objects, e) /\ objects \in Seq(MapsOf(Paths, NodeRecord))
    BY <1>2, <2>1 DEF MType, DataType
  <2>3. \A o \in DOMAIN objects' :
           \/ o \in DOMAIN objects /\ objects'[o] = objects[o]
           \/ DOMAIN objects'[o] = {}
    BY <2>1, <2>2
  <2> QED
    BY <2>3, ContentsStay DEF ContentInv, MissingWasDeleted
<1> QED
  BY <1>1, <1>2 DEF CreateGraph

LEMMA NextMissing ==
    ASSUME MType, ContentInv, [Next]_vars
    PROVE  MissingWasDeleted'
<1>1. CASE UNCHANGED vars
  BY <1>1, NoPut DEF vars, ContentInv
<1>2. ASSUME NEW c \in Clients, Invoke(c) \/ Return(c)
      PROVE  MissingWasDeleted'
  BY <1>2, NoPut DEF Invoke, Return, ContentInv
<1>3. ASSUME NEW c \in Clients, Work(c)
      PROVE  MissingWasDeleted'
  <2>1. CASE CreateGraph(c)
    BY <2>1, CreateGraphStored
  <2>2. CASE AddNode(c) \/ UpdateNode(c)
    BY <2>2, UpdateStored
  <2>3. CASE SetContent(c)
    BY <2>3, SetContentStored
  <2>4. CASE UNCHANGED objects
    BY <2>4, NoPut DEF ContentInv
  <2> QED
    BY <1>3, <2>1, <2>2, <2>3, <2>4 DEF Work, FindToDelete, DeleteGraph, ListGraphs, NotKept,
       LookUp, ListNodes, NodeMissing, GetNode, StoreExternal, ReadContent, ReadExternal,
       StoreContent, GetContent, DeleteContent
<1> QED
  BY <1>1, <1>2, <1>3 DEF Next

\* How a call gets to its node.
LEMMA WorkMoves ==
    ASSUME MType, NEW c \in Clients, Work(c)
    PROVE  /\ Moves(c)
           /\ at'[c] = "lockNode" =>
                \/ LookUp(c) /\ (call[c].op = "SetContent" => Embedded(call[c]))
                \/ StoreExternal(c)
<1> USE DEF MType, CallsType
<1>1. ASSUME \E err, val, json : Finish(c, err, val, json)
      PROVE  Moves(c) /\ at'[c] = "done"
  BY <1>1 DEF Moves, Finish
<1>2. ASSUME \E err : FailWith(c, err)
      PROVE  Moves(c) /\ at'[c] = "done"
  BY <1>1, <1>2 DEF FailWith
<1>3. ASSUME \E val : Succeed(c, val)
      PROVE  Moves(c) /\ at'[c] = "done"
  BY <1>1, <1>3 DEF Succeed
<1>4. ASSUME NEW where, NEW o, Goto(c, where, o)
      PROVE  Moves(c) /\ at'[c] = where
  BY <1>4 DEF Moves, Goto
<1>5. CASE CreateGraph(c) \/ DeleteGraph(c) \/ ListGraphs(c) \/ NotKept(c)
  BY <1>2, <1>3, <1>5 DEF CreateGraph, DeleteGraph, ListGraphs, NotKept
<1>6. CASE FindToDelete(c)
  BY <1>2, <1>4, <1>6 DEF FindToDelete
<1>7. CASE LookUp(c)
  BY <1>2, <1>4, <1>7 DEF LookUp
<1>8. CASE ListNodes(c) \/ AddNode(c) \/ NodeMissing(c) \/ GetNode(c)
           \/ UpdateNode(c) \/ SetContent(c)
  BY <1>2, <1>3, <1>8 DEF ListNodes, AddNode, NodeMissing, GetNode, UpdateNode, SetContent
<1>9. CASE StoreExternal(c)
  BY <1>4, <1>9 DEF StoreExternal
<1>10. CASE ReadContent(c)
  BY <1>3, <1>4, <1>10 DEF ReadContent
<1>11. CASE ReadExternal(c) \/ StoreContent(c) \/ GetContent(c) \/ DeleteContent(c)
  BY <1>1, <1>2, <1>3, <1>11 DEF ReadExternal, StoreContent, GetContent, DeleteContent
<1> QED
  BY <1>5, <1>6, <1>7, <1>8, <1>9, <1>10, <1>11 DEF Work

LEMMA NextStoredInv ==
    ASSUME MType, ContentInv, [Next]_vars
    PROVE  StoredInv'
<1>1. mode' = mode
  BY ContentsStay
<1> SUFFICES ASSUME NEW d \in Clients, at'[d] = "lockNode", call'[d].op = "SetContent",
                    ~(Embedded(call[d])')
             PROVE  Kept(call[d].content)' \in contents' \cup deleted'
  BY DEF StoredInv
<1>2. CASE UNCHANGED <<at[d], call[d]>>
  BY <1>1, <1>2, ContentsStay DEF ContentInv, StoredInv, Kept, Embedded
<1>3. CASE UNCHANGED vars
  BY <1>2, <1>3 DEF vars, calls
<1>4. ASSUME NEW c \in Clients, Invoke(c) \/ Return(c)
      PROVE  UNCHANGED <<at[d], call[d]>>
  BY <1>4 DEF Invoke, Return, MType, CallsType
<1>5. ASSUME NEW c \in Clients, Work(c)
      PROVE  Kept(call[d].content)' \in contents' \cup deleted'
  <2>1. CASE c # d
    BY <1>2, <1>5, <2>1, WorkMoves, OthersStay DEF MType
  <2>2. CASE c = d
    <3>1. call' = call
      BY <1>5, <2>2, WorkMoves DEF Moves, Goto, Finish
    <3>2. CASE LookUp(c) /\ (call[c].op = "SetContent" => Embedded(call[c]))
      BY <1>1, <2>2, <3>1, <3>2 DEF Embedded, Kept
    <3>3. CASE StoreExternal(c)
      BY <1>1, <2>2, <3>1, <3>3 DEF StoreExternal, Kept
    <3> QED
      BY <1>5, <2>2, <3>2, <3>3, WorkMoves
  <2> QED
    BY <2>1, <2>2
<1> QED
  BY <1>2, <1>3, <1>4, <1>5 DEF Next

\* A node never refers to an external content that is not there, unless
\* DeleteContent removed it: at no moment, whatever runs at the same time.
THEOREM ContentIsThere == Spec => []MissingWasDeleted
<1>1. Init => ContentInv
  BY DEF Init, ContentInv, MissingWasDeleted, StoredInv
<1>2. MType /\ ContentInv /\ [Next]_vars => ContentInv'
  BY NextMissing, NextStoredInv DEF ContentInv
<1>3. ContentInv => MissingWasDeleted
  BY DEF ContentInv
<1> QED
  BY <1>1, <1>2, <1>3, MTypeInvariant, PTL DEF Spec

------------------------------------------------------------------------------
(* The active graph.                                                         *)

LEMMA NextActive ==
    ASSUME MType, ActiveGraphExists, [Next]_vars
    PROVE  ActiveGraphExists'
<1> USE DEF ActiveGraphExists
<1>1. CASE UNCHANGED <<graphs, activeGraph>>
  BY <1>1
<1>2. ASSUME NEW c \in Clients, CreateGraph(c)
      PROVE  ActiveGraphExists'
  <2>1. CASE UNCHANGED <<graphs, activeGraph>>
    BY <1>1, <2>1
  <2>2. CASE ~UNCHANGED <<graphs, activeGraph>>
    <3>1. PICK g : g = call[c].g
      OBVIOUS
    <3>2. /\ graphs' = With(graphs, g, Len(objects) + 1)
          /\ activeGraph' = IF activeGraph = None THEN g ELSE activeGraph
      BY <1>2, <2>2, <3>1 DEF CreateGraph
    <3>3. DOMAIN graphs' = (DOMAIN graphs) \cup {g}
      BY <3>2 DEF With
    <3>4. call[c] \in All /\ call[c].op = "CreateGraph"
      BY <1>2 DEF CreateGraph, Doing, MType, CallsType
    <3>5. g # None
      BY <3>1, <3>4, Requested, NoneIsNoContent
    <3> QED
      BY <3>2, <3>3, <3>5
  <2> QED
    BY <2>1, <2>2
<1>3. ASSUME NEW c \in Clients, DeleteGraph(c)
      PROVE  ActiveGraphExists'
  <2> DEFINE g == call[c].g
             others == DOMAIN graphs \ {g}
  <2>1. /\ graphs' = Restrict(graphs, others)
        /\ activeGraph' \in IF activeGraph # g THEN {activeGraph}
                            ELSE IF others = {} THEN {None} ELSE others
    BY <1>3 DEF DeleteGraph
  <2>2. DOMAIN graphs' = others
    BY <2>1 DEF Restrict
  <2>3. None \notin DOMAIN graphs
    BY MapType, NoneIsNoContent DEF MType, DataType
  <2>4. call[c] \in All /\ call[c].op = "DeleteGraph"
    BY <1>3 DEF DeleteGraph, Doing, MType, CallsType
  <2>5. g # None
    BY <2>4, Requested, NoneIsNoContent
  <2> QED
    BY <2>1, <2>2, <2>3, <2>5
<1>4. ASSUME NEW c \in Clients, Invoke(c) \/ Return(c)
      PROVE  ActiveGraphExists'
  BY <1>1, <1>4 DEF Invoke, Return
<1>5. ASSUME NEW c \in Clients, Work(c)
      PROVE  ActiveGraphExists'
  BY <1>1, <1>2, <1>3, <1>5 DEF Work, FindToDelete, ListGraphs, NotKept,
     LookUp, ListNodes, AddNode, NodeMissing, GetNode, UpdateNode, StoreExternal, SetContent,
     ReadContent, ReadExternal, StoreContent, GetContent, DeleteContent
<1> QED
  BY <1>1, <1>4, <1>5 DEF Next, vars

\* There is an active graph exactly when there is a graph, and it exists, across
\* concurrent creations and deletions.
THEOREM ActiveGraph == Spec => []ActiveGraphExists
<1>1. Init => ActiveGraphExists
  BY EmptyMap DEF Init, ActiveGraphExists
<1> QED
  BY <1>1, NextActive, MTypeInvariant, PTL DEF Spec

------------------------------------------------------------------------------
(* Atomicity: to callers that delete nothing the store is a GraphStore,       *)
(* whoever they are and whatever they write.                                 *)

\* The calls GraphStore knows, but for DeleteGraph.
AtomicOps == {"CreateGraph", "ListGraphs"} \cup NodeOps
NobodyDeletes == \A c \in Clients : \A r \in Requests[c] : r.op \in AtomicOps

\* Nothing was deleted, so a call still has the object its graph ID names, and
\* no two graph IDs name one object.
NamesInv ==
    /\ deleted = {}
    /\ \A c \in Clients : call[c] # None => call[c].op \in AtomicOps
    /\ \A c \in Clients : ref[c] # 0 =>
          /\ call[c].g \in DOMAIN graphs
          /\ graphs[call[c].g] = ref[c]
    /\ \A g, h \in DOMAIN graphs : graphs[g] = graphs[h] => g = h

LEMMA SameNames ==
    ASSUME NobodyDeletes, MType, NamesInv, NEW c \in Clients, Moves(c),
           UNCHANGED <<graphs, deleted>>, ref'[c] \in {0, ref[c]}
    PROVE  NamesInv'
<1>1. call' = call
  BY DEF Moves, Goto, Finish
<1>2. \A d \in Clients : ref'[d] # 0 => ref'[d] = ref[d]
  BY OthersStay DEF MType
<1> QED
  BY <1>1, <1>2 DEF NamesInv

LEMMA CreateNames ==
    ASSUME NobodyDeletes, MType, NamesInv, NEW c \in Clients, CreateGraph(c)
    PROVE  NamesInv'
<1>1. PICK g : g = call[c].g
  OBVIOUS
<1>2. Moves(c) /\ ref'[c] = 0
  BY DEF CreateGraph, FailWith, Succeed, Finish, Moves, MType, CallsType
<1>3. CASE UNCHANGED graphs
  BY <1>2, <1>3, SameNames DEF CreateGraph
<1>4. CASE g \notin DOMAIN graphs /\ graphs' = With(graphs, g, Len(objects) + 1)
  <2>1. /\ DOMAIN graphs' = (DOMAIN graphs) \cup {g}
        /\ graphs'[g] = Len(objects) + 1
        /\ \A h \in DOMAIN graphs : graphs'[h] = graphs[h]
    BY <1>4 DEF With
  <2>2. \A h \in DOMAIN graphs : graphs[h] \in DOMAIN objects
    BY MapType DEF MType, DataType
  <2>3. Len(objects) + 1 \notin DOMAIN objects
    BY DEF MType, DataType
  <2>4. call' = call /\ deleted' = deleted
    BY <1>2 DEF Moves, Goto, Finish, CreateGraph
  <2>5. \A d \in Clients : ref'[d] # 0 => ref'[d] = ref[d]
    BY <1>2, OthersStay DEF MType
  <2> QED
    BY <1>4, <2>1, <2>2, <2>3, <2>4, <2>5 DEF NamesInv
<1> QED
  BY <1>1, <1>3, <1>4 DEF CreateGraph

LEMMA LookUpNames ==
    ASSUME NobodyDeletes, MType, NamesInv, NEW c \in Clients, LookUp(c)
    PROVE  NamesInv'
<1>1. CASE call[c].g \notin DOMAIN graphs
  <2>1. FailWith(c, "graph")
    BY <1>1 DEF LookUp
  <2>2. Moves(c) /\ ref'[c] = 0
    BY <2>1 DEF FailWith, Finish, Moves, MType, CallsType
  <2> QED
    BY <2>2, SameNames DEF LookUp
<1>2. CASE call[c].g \in DOMAIN graphs
  <2>1. PICK where : Goto(c, where, graphs[call[c].g])
    BY <1>2 DEF LookUp
  <2>2. Moves(c) /\ call' = call /\ ref'[c] = graphs[call[c].g]
    BY <2>1 DEF Goto, Moves, MType, CallsType
  <2>3. \A d \in Clients : d # c => ref'[d] = ref[d]
    BY <2>2, OthersStay DEF MType
  <2> QED
    BY <1>2, <2>2, <2>3 DEF NamesInv, LookUp
<1> QED
  BY <1>1, <1>2

LEMMA NextNames ==
    ASSUME NobodyDeletes, MType, NamesInv, [Next]_vars
    PROVE  NamesInv'
<1>1. CASE UNCHANGED vars
  BY <1>1 DEF NamesInv, vars, calls
<1>2. ASSUME NEW c \in Clients, Invoke(c)
      PROVE  NamesInv'
  <2>1. PICK r \in Requests[c] : call' = [call EXCEPT ![c] = r]
    BY <1>2 DEF Invoke
  <2>2. r.op \in AtomicOps
    BY <2>1 DEF NobodyDeletes
  <2>3. ref[c] = 0
    BY <1>2 DEF Invoke, MType, CallsType, CallType, InGraph
  <2>4. \A d \in Clients : call'[d] = IF d = c THEN r ELSE call[d]
    BY <2>1 DEF MType, CallsType
  <2> QED
    BY <1>2, <2>2, <2>3, <2>4 DEF Invoke, NamesInv
<1>3. ASSUME NEW c \in Clients, Return(c)
      PROVE  NamesInv'
  <2>1. ref[c] = 0
    BY <1>3 DEF Return, MType, CallsType, CallType, InGraph
  <2>2. \A d \in Clients : call'[d] = IF d = c THEN None ELSE call[d]
    BY <1>3 DEF Return, MType, CallsType
  <2> QED
    BY <1>3, <2>1, <2>2 DEF Return, NamesInv
<1>4. ASSUME NEW c \in Clients, Work(c)
      PROVE  NamesInv'
  <2>1. CASE CreateGraph(c)
    BY <2>1, CreateNames
  <2>2. CASE LookUp(c)
    BY <2>2, LookUpNames
  <2>3. CASE FindToDelete(c) \/ DeleteGraph(c) \/ StoreContent(c) \/ GetContent(c)
             \/ DeleteContent(c)
    BY <2>3 DEF FindToDelete, DeleteGraph, StoreContent, GetContent, DeleteContent, Doing,
                NamesInv, AtomicOps, NodeOps
  <2>4. CASE /\ ListGraphs(c) \/ NotKept(c) \/ ListNodes(c) \/ AddNode(c) \/ NodeMissing(c)
                \/ GetNode(c) \/ UpdateNode(c) \/ StoreExternal(c) \/ SetContent(c)
                \/ ReadContent(c) \/ ReadExternal(c)
    <3>1. UNCHANGED <<graphs, deleted>>
      BY <2>4 DEF ListGraphs, NotKept, ListNodes, AddNode, NodeMissing, GetNode, UpdateNode,
                  StoreExternal, SetContent, ReadContent, ReadExternal
    <3>2. \/ \E err, val, json : Finish(c, err, val, json)
          \/ \E where : Goto(c, where, ref[c])
      BY <2>4 DEF ListGraphs, NotKept, ListNodes, AddNode, NodeMissing, GetNode, UpdateNode,
                  StoreExternal, SetContent, ReadContent, ReadExternal, FailWith, Succeed
    <3>3. Moves(c) /\ ref'[c] \in {0, ref[c]}
      BY <3>2 DEF Moves, Finish, Goto, MType, CallsType
    <3> QED
      BY <3>1, <3>3, SameNames
  <2> QED
    BY <1>4, <2>1, <2>2, <2>3, <2>4 DEF Work
<1> QED
  BY <1>1, <1>2, <1>3, <1>4 DEF Next

------------------------------------------------------------------------------
(* What callers see of the state, and of the end of a call.                  *)

AbstractNodes(nodes) == [p \in DOMAIN nodes |-> AbstractNode(nodes[p])]
AbstractOf(rep) == IF rep = None THEN None ELSE [err |-> rep.err, val |-> rep.val]

LEMMA Abstractions ==
    /\ AbstractGraphs = [g \in DOMAIN graphs |-> AbstractNodes(objects[graphs[g]])]
    /\ AbstractReply = [c \in Clients |-> AbstractOf(reply[c])]
BY DEF AbstractGraphs, AbstractNodes, AbstractReply, AbstractOf

LEMMA Unseen ==
    ASSUME UNCHANGED <<graphs, objects>>
    PROVE  UNCHANGED AbstractGraphs
BY DEF AbstractGraphs, AbstractNode

LEMMA Stutters ==
    ASSUME UNCHANGED <<mode, graphs, objects, call, reply>>
    PROVE  UNCHANGED <<mode, AbstractGraphs, call, AbstractReply>>
<1>1. UNCHANGED AbstractReply
  BY DEF AbstractReply
<1> QED
  BY <1>1, Unseen

LEMMA Answers ==
    ASSUME MType, NEW c \in Clients,
           NEW err \in Errors, NEW val \in Values, NEW json \in BOOLEAN,
           Finish(c, err, val, json), mode' = mode
    PROVE  Store!Answer(c, [err |-> err, val |-> val])
<1>1. PICK rep : rep = [err |-> err, val |-> val, json |-> json]
  OBVIOUS
<1>2. rep \in Replies /\ rep # None /\ rep.err = err /\ rep.val = val
  BY <1>1, NoReply DEF Replies
<1>3. PICK seen : seen = [err |-> err, val |-> val]
  OBVIOUS
<1>4. AbstractOf(rep) = seen
  BY <1>2, <1>3 DEF AbstractOf
<1>5. reply' = [reply EXCEPT ![c] = rep]
  BY <1>1 DEF Finish
<1>6. AbstractReply' = [d \in Clients |-> AbstractOf(reply'[d])]
  BY DEF AbstractReply, AbstractOf
<1>7. AbstractReply' = [AbstractReply EXCEPT ![c] = seen]
  BY <1>4, <1>5, <1>6, Abstractions DEF MType, CallsType
<1> QED
  BY <1>3, <1>7 DEF Store!Answer, Finish

LEMMA Rejects ==
    ASSUME MType, NEW c \in Clients, NEW err \in Errors, FailWith(c, err),
           UNCHANGED <<mode, graphs, objects>>
    PROVE  Store!Reject(c, err)
<1>1. Store!Answer(c, [err |-> err, val |-> None])
  BY Answers DEF FailWith, Values
<1> QED
  BY <1>1, Unseen DEF Store!Reject, Store!Failure

LEMMA Tells ==
    ASSUME MType, NEW c \in Clients, NEW val \in Values, NEW json \in BOOLEAN,
           Finish(c, "none", val, json), UNCHANGED <<mode, graphs, objects>>
    PROVE  Store!Tell(c, val)
<1>1. Store!Answer(c, [err |-> "none", val |-> val])
  BY Answers DEF Errors
<1> QED
  BY <1>1, Unseen DEF Store!Tell, Store!Success

LEMMA Changes ==
    ASSUME MType, NEW c \in Clients, NEW val \in Values, Succeed(c, val), mode' = mode,
           NEW gs, AbstractGraphs' = gs
    PROVE  Store!Change(c, gs, val)
<1>1. Store!Answer(c, [err |-> "none", val |-> val])
  BY Answers DEF Errors, Succeed
<1> QED
  BY <1>1 DEF Store!Change, Store!Success

\* A call that is doing something is one GraphStore waits for.
LEMMA Working ==
    ASSUME MType, NEW c \in Clients, at[c] \notin {"idle", "done"}
    PROVE  /\ call[c] # None /\ call[c] \in All /\ AbstractReply[c] = None
           /\ Store!DoGraph(c, call[c]) \/ Store!NotKept(c, call[c]) \/ Store!DoNode(c, call[c])
                 => Store!Do(c)
<1>1. call[c] # None /\ call[c] \in All /\ reply[c] = None
  BY DEF MType, CallsType, CallType
<1>2. AbstractReply[c] = None
  BY <1>1 DEF AbstractReply
<1> QED
  BY <1>1, <1>2 DEF Store!Do

LEMMA SameMaps ==
    ASSUME NEW m, NEW k, NEW v
    PROVE  Store!With(m, k, v) = With(m, k, v) /\ Store!Merge(m, v) = Merge(m, v)
BY DEF Store!With, With, Store!Merge, Merge

LEMMA StoreKept == ASSUME NEW v PROVE Store!Kept(v) = Kept(v)
BY DEF Store!Kept, Kept

\* The graph a call uses, as callers see it.
LEMMA GraphOf ==
    ASSUME MType, NamesInv, NEW c \in Clients, ref[c] # 0
    PROVE  /\ call[c].g \in DOMAIN AbstractGraphs
           /\ AbstractGraphs[call[c].g] = AbstractNodes(Nodes(c))
           /\ DOMAIN AbstractGraphs[call[c].g] = DOMAIN Nodes(c)
           /\ HasNode(c) => AbstractGraphs[call[c].g][call[c].p] = AbstractNode(TheNode(c))
<1>1. call[c].g \in DOMAIN graphs /\ graphs[call[c].g] = ref[c]
  BY DEF NamesInv
<1>2. /\ call[c].g \in DOMAIN AbstractGraphs
      /\ AbstractGraphs[call[c].g] = AbstractNodes(Nodes(c))
  BY <1>1, Abstractions DEF Nodes
<1>3. DOMAIN AbstractNodes(Nodes(c)) = DOMAIN Nodes(c)
  BY DEF AbstractNodes
<1>4. HasNode(c) => AbstractNodes(Nodes(c))[call[c].p] = AbstractNode(TheNode(c))
  BY DEF AbstractNodes, HasNode, TheNode
<1> QED
  BY <1>2, <1>3, <1>4

LEMMA AbstractWith ==
    ASSUME NEW m, NEW p, NEW n
    PROVE  AbstractNodes(With(m, p, n)) = With(AbstractNodes(m), p, AbstractNode(n))
BY DEF AbstractNodes, With

LEMMA PutSeen ==
    ASSUME MType, NamesInv, NEW c \in Clients, ref[c] # 0, NEW n \in NodeRecord,
           call[c].p \in Paths, Put(c, n), UNCHANGED graphs
    PROVE  AbstractGraphs' = Store!WithNode(call[c].g, call[c].p, AbstractNode(n))
<1>1. PICK g, p, m : g = call[c].g /\ p = call[c].p /\ m = AbstractNode(n)
  OBVIOUS
<1>2. g \in DOMAIN graphs /\ graphs[g] = ref[c]
  BY <1>1 DEF NamesInv
<1>3. \A h \in DOMAIN graphs : graphs[h] \in DOMAIN objects
  BY MapType DEF MType, DataType
<1>4. objects'[ref[c]] = With(Nodes(c), p, n)
      /\ \A o \in DOMAIN objects \ {ref[c]} : objects'[o] = objects[o]
  BY <1>1, PutObject
<1>5. AbstractNodes(objects'[graphs[g]]) = With(AbstractNodes(objects[graphs[g]]), p, m)
  BY <1>1, <1>2, <1>4, AbstractWith DEF Nodes
<1>6. \A h \in DOMAIN graphs \ {g} : objects'[graphs[h]] = objects[graphs[h]]
  BY <1>2, <1>3, <1>4 DEF NamesInv
<1>7. AbstractGraphs' = [h \in DOMAIN graphs |-> AbstractNodes(objects'[graphs[h]])]
  BY DEF AbstractGraphs, AbstractNodes, AbstractNode
<1>8. AbstractGraphs = [h \in DOMAIN graphs |-> AbstractNodes(objects[graphs[h]])]
  BY Abstractions
<1>9. AbstractGraphs' = [AbstractGraphs EXCEPT ![g] = With(@, p, m)]
  BY <1>2, <1>5, <1>6, <1>7, <1>8
<1>10. AbstractGraphs' = Store!WithNode(g, p, m)
  BY <1>9, SameMaps DEF Store!WithNode
<1> QED
  BY <1>1, <1>10

LEMMA CreateSeen ==
    ASSUME MType, NamesInv, NEW g, g \notin DOMAIN graphs,
           graphs' = With(graphs, g, Len(objects) + 1), objects' = Append(objects, << >>)
    PROVE  AbstractGraphs' = With(AbstractGraphs, g, << >>)
<1>1. \A h \in DOMAIN graphs : graphs[h] \in DOMAIN objects
  BY MapType DEF MType, DataType
<1>2. PICK e : e = << >> /\ e \in MapsOf(Paths, NodeRecord) /\ DOMAIN e = {}
  BY EmptyMap
<1>3. objects' = Append(objects, e) /\ objects \in Seq(MapsOf(Paths, NodeRecord))
  BY <1>2 DEF MType, DataType
<1>4. /\ objects'[Len(objects) + 1] = e
      /\ \A o \in DOMAIN objects : objects'[o] = objects[o]
  BY <1>2, <1>3
<1>5. AbstractNodes(e) = << >>
  <2>1. AbstractNodes(e) \in [{} -> {}] /\ << >> \in [{} -> {}]
    BY <1>2 DEF AbstractNodes
  <2>2. \A f, h \in [{} -> {}] : f = h
    OBVIOUS
  <2> QED
    BY <2>1, <2>2
<1>6. AbstractGraphs' = [h \in DOMAIN graphs' |-> AbstractNodes(objects'[graphs'[h]])]
  BY DEF AbstractGraphs, AbstractNodes, AbstractNode
<1>7. AbstractGraphs = [h \in DOMAIN graphs |-> AbstractNodes(objects[graphs[h]])]
  BY Abstractions
<1> QED
  BY <1>1, <1>4, <1>5, <1>6, <1>7 DEF With

------------------------------------------------------------------------------
(* Every step is one of GraphStore's, or one its callers do not see.         *)

Seen == <<mode, AbstractGraphs, call, AbstractReply>>

LEMMA InvokeReturnSteps ==
    ASSUME MType, NEW c \in Clients, Invoke(c) \/ Return(c)
    PROVE  Store!Invoke(c) \/ Store!Return(c)
<1>1. CASE Invoke(c)
  <2>1. UNCHANGED <<mode, AbstractGraphs, AbstractReply>>
    BY <1>1, Unseen DEF Invoke, AbstractReply
  <2> QED
    BY <1>1, <2>1 DEF Invoke, Store!Invoke
<1>2. CASE Return(c)
  <2>1. reply[c] \in Replies /\ reply[c] # None
    BY <1>2 DEF Return, MType, CallsType, CallType
  <2>2. AbstractOf(reply[c]) # None
    BY <2>1, NoneAssumption DEF AbstractOf, Replies
  <2>3. AbstractReply' = [d \in Clients |-> AbstractOf(reply'[d])]
    BY DEF AbstractReply, AbstractOf
  <2>4. AbstractReply' = [AbstractReply EXCEPT ![c] = None]
    BY <1>2, <2>3, Abstractions DEF Return, AbstractOf, MType, CallsType
  <2>5. AbstractReply[c] # None
    BY <2>2, Abstractions
  <2> QED
    BY <1>2, <2>4, <2>5, Unseen DEF Return, Store!Return
<1> QED
  BY <1>1, <1>2

LEMMA GraphSteps ==
    ASSUME MType, NamesInv, NEW c \in Clients, CreateGraph(c) \/ ListGraphs(c)
    PROVE  Store!Do(c)
<1>1. DOMAIN AbstractGraphs = DOMAIN graphs
  BY Abstractions
<1>2. at[c] = "start"
  BY DEF CreateGraph, ListGraphs, Doing
<1>3. CASE CreateGraph(c)
  <2>1. call[c].op = "CreateGraph"
    BY <1>3 DEF CreateGraph, Doing
  <2>2. CASE call[c].g \in DOMAIN graphs
    <3>1. Store!Reject(c, "exists")
      BY <1>3, <2>2, Rejects DEF CreateGraph, Errors
    <3> QED
      BY <1>1, <1>2, <2>1, <2>2, <3>1, Working DEF Store!DoGraph
  <2>3. CASE call[c].g \notin DOMAIN graphs
    <3>1. PICK g : g = call[c].g
      OBVIOUS
    <3>2. /\ objects' = Append(objects, << >>) /\ graphs' = With(graphs, g, Len(objects) + 1)
          /\ Succeed(c, None) /\ mode' = mode
      BY <1>3, <2>3, <3>1 DEF CreateGraph
    <3>3. AbstractGraphs' = With(AbstractGraphs, g, << >>)
      BY <2>3, <3>1, <3>2, CreateSeen
    <3>4. AbstractGraphs' = Store!With(AbstractGraphs, g, << >>)
      BY <3>3, SameMaps
    <3>5. Store!Change(c, Store!With(AbstractGraphs, g, << >>), None)
      BY <3>2, <3>4, Changes DEF Values
    <3> QED
      BY <1>1, <1>2, <2>1, <2>3, <3>1, <3>5, Working DEF Store!DoGraph
  <2> QED
    BY <2>2, <2>3
<1>4. CASE ListGraphs(c)
  <2>1. PICK v : v = DOMAIN graphs
    OBVIOUS
  <2>2. v \in Values
    BY <2>1, MapType DEF MType, DataType, Values
  <2>3. Store!Tell(c, v)
    BY <1>4, <2>1, <2>2, Tells DEF ListGraphs, Succeed
  <2>4. call[c].op = "ListGraphs"
    BY <1>4 DEF ListGraphs, Doing
  <2> QED
    BY <1>1, <1>2, <2>1, <2>3, <2>4, Working DEF Store!DoGraph
<1> QED
  BY <1>3, <1>4

LEMMA NotKeptSteps ==
    ASSUME MType, NamesInv, NEW c \in Clients, NotKept(c)
    PROVE  Store!Do(c)
<1>1. at[c] = "start" /\ call[c].op = "SetContent" /\ Kept(call[c].content) = None
      /\ UNCHANGED <<mode, graphs, objects>>
  BY DEF NotKept, Doing
<1>2. IF mode = "strict" THEN Store!Reject(c, "marshal") ELSE Store!Tell(c, None)
  BY <1>1, Rejects, Tells DEF NotKept, Succeed, Errors, Values
<1>3. Store!NotKept(c, call[c])
  BY <1>1, <1>2, StoreKept DEF Store!NotKept
<1> QED
  BY <1>1, <1>3, Working

LEMMA LookUpSteps ==
    ASSUME MType, NamesInv, NEW c \in Clients, LookUp(c)
    PROVE  Store!Do(c) \/ UNCHANGED Seen
<1>1. at[c] = "start" /\ call[c].op \in NodeOps /\ UNCHANGED <<mode, graphs, objects>>
      /\ (call[c].op = "SetContent" => Kept(call[c].content) # None)
  BY DEF LookUp
<1>2. CASE call[c].g \notin DOMAIN graphs
  <2>1. Store!Reject(c, "graph")
    BY <1>1, <1>2, Rejects DEF LookUp, Errors
  <2>2. call[c].g \notin DOMAIN AbstractGraphs
    BY <1>2, Abstractions
  <2>3. Store!DoNode(c, call[c])
    BY <1>1, <2>1, <2>2, StoreKept DEF Store!DoNode, NodeOps
  <2> QED
    BY <1>1, <2>3, Working
<1>3. CASE call[c].g \in DOMAIN graphs
  BY <1>1, <1>3, Stutters DEF LookUp, Goto, Seen
<1> QED
  BY <1>2, <1>3

LEMMA UnseenSteps ==
    ASSUME MType, NEW c \in Clients,
           \/ StoreExternal(c)
           \/ ReadContent(c) /\ at'[c] = "readExternal"
    PROVE  UNCHANGED Seen
<1>1. UNCHANGED <<mode, graphs, objects>>
  BY DEF StoreExternal, ReadContent
<1>2. UNCHANGED <<call, reply>>
  BY DEF StoreExternal, ReadContent, Goto, Succeed, Finish, MType, CallsType
<1> QED
  BY <1>1, <1>2, Stutters DEF Seen

\* What GraphStore asks of a call on a node, which is at its node.
LEMMA AtNode ==
    ASSUME MType, NamesInv, NEW c \in Clients, at[c] \in {"lockNode", "readExternal"},
           LET r     == call[c]
               nodes == AbstractGraphs[r.g]
           IN  \/ r.op = "ListNodes" /\ Store!Tell(c, DOMAIN nodes)
               \/ /\ r.op = "AddNode"
                  /\ IF r.p \in DOMAIN nodes THEN Store!Reject(c, "exists")
                     ELSE Store!Change(c, Store!WithNode(r.g, r.p, Store!Node(r.data)), None)
               \/ /\ r.op \notin {"ListNodes", "AddNode"} /\ r.p \notin DOMAIN nodes
                  /\ Store!Reject(c, "node")
               \/ /\ r.op = "GetNode" /\ r.p \in DOMAIN nodes
                  /\ Store!Tell(c, nodes[r.p].data)
               \/ /\ r.op = "UpdateNode" /\ r.p \in DOMAIN nodes
                  /\ Store!Change(c, Store!WithNode(r.g, r.p, [nodes[r.p] EXCEPT !.data =
                                 IF r.merge THEN Store!Merge(@, r.data) ELSE r.data]), None)
               \/ /\ r.op = "SetContent" /\ r.p \in DOMAIN nodes
                  /\ Store!Change(c, Store!WithNode(r.g, r.p,
                                        [nodes[r.p] EXCEPT ![r.side] = Store!Kept(r.content)]),
                                  Store!Kept(r.content))
               \/ /\ r.op = "ReadContent" /\ r.p \in DOMAIN nodes
                  /\ Store!Tell(c, nodes[r.p][r.side])
    PROVE  Store!Do(c)
<1>1. call[c].op \in NodeOps /\ call[c].g \in DOMAIN AbstractGraphs
  BY InNode, GraphOf
<1>2. call[c].op = "SetContent" => Store!Kept(call[c].content) # None
  BY StoreKept DEF MType, CallsType, CallType
<1>3. Store!DoNode(c, call[c])
  BY <1>1, <1>2 DEF Store!DoNode, NodeOps
<1> QED
  BY <1>3, Working

LEMMA ReadSteps ==
    ASSUME MType, NamesInv, NEW c \in Clients,
           ListNodes(c) \/ NodeMissing(c) \/ GetNode(c)
    PROVE  Store!Do(c)
<1>1. at[c] = "lockNode" /\ UNCHANGED <<mode, graphs, objects>>
  BY DEF ListNodes, NodeMissing, GetNode, Doing
<1>2. ref[c] # 0
  BY <1>1, InNode
<1>3. CASE ListNodes(c)
  <2>1. PICK v : v = DOMAIN Nodes(c)
    OBVIOUS
  <2>2. v \in Values
    BY <1>2, <2>1, Object DEF Values
  <2>3. Store!Tell(c, v)
    BY <1>1, <1>3, <2>1, <2>2, Tells DEF ListNodes, Succeed
  <2>4. v = DOMAIN AbstractGraphs[call[c].g]
    BY <1>2, <2>1, GraphOf
  <2>5. call[c].op = "ListNodes"
    BY <1>3 DEF ListNodes, Doing
  <2> QED
    BY <1>1, <2>3, <2>4, <2>5, AtNode
<1>4. CASE NodeMissing(c)
  <2>1. Store!Reject(c, "node")
    BY <1>1, <1>4, Rejects DEF NodeMissing, Errors
  <2>2. call[c].p \notin DOMAIN AbstractGraphs[call[c].g]
    BY <1>2, <1>4, GraphOf DEF NodeMissing
  <2>3. call[c].op \notin {"ListNodes", "AddNode"}
    BY <1>4 DEF NodeMissing
  <2> QED
    BY <1>1, <2>1, <2>2, <2>3, AtNode
<1>5. CASE GetNode(c)
  <2>1. PICK n : n = TheNode(c)
    OBVIOUS
  <2>2. HasNode(c) /\ n \in NodeRecord
    BY <1>2, <1>5, <2>1, Object DEF GetNode
  <2>3. n.data \in Values
    BY <2>2 DEF NodeRecord, Values
  <2>4. Store!Tell(c, n.data)
    BY <1>1, <1>5, <2>1, <2>3, Tells DEF GetNode, Succeed
  <2>5. /\ call[c].p \in DOMAIN AbstractGraphs[call[c].g]
        /\ AbstractGraphs[call[c].g][call[c].p] = AbstractNode(n)
    BY <1>2, <2>1, <2>2, GraphOf DEF HasNode
  <2>6. AbstractNode(n).data = n.data
    BY DEF AbstractNode
  <2>7. call[c].op = "GetNode"
    BY <1>5 DEF GetNode, Doing
  <2> QED
    BY <1>1, <2>4, <2>5, <2>6, <2>7, AtNode
<1> QED
  BY <1>3, <1>4, <1>5

LEMMA AddSteps ==
    ASSUME MType, NamesInv, NEW c \in Clients, AddNode(c)
    PROVE  Store!Do(c)
<1>1. at[c] = "lockNode" /\ call[c].op = "AddNode" /\ UNCHANGED <<mode, graphs>>
  BY DEF AddNode, Doing
<1>2. call[c].p \in Paths /\ call[c].data \in Data /\ ref[c] # 0
  BY <1>1, InNode, Requested
<1>3. DOMAIN AbstractGraphs[call[c].g] = DOMAIN Nodes(c)
  BY <1>2, GraphOf
<1>4. CASE call[c].p \in DOMAIN Nodes(c)
  <2>1. Store!Reject(c, "exists")
    BY <1>1, <1>4, Rejects DEF AddNode, Errors
  <2> QED
    BY <1>1, <1>3, <1>4, <2>1, AtNode
<1>5. CASE call[c].p \notin DOMAIN Nodes(c)
  <2>1. PICK n \in NodeRecord : n = Node(call[c].data)
    BY <1>2, NewNode
  <2>2. AbstractNode(n) = Store!Node(call[c].data)
    BY <2>1 DEF AbstractNode, Node, Store!Node
  <2>3. Put(c, n) /\ Succeed(c, None)
    BY <1>5, <2>1 DEF AddNode
  <2>4. PICK gs : gs = Store!WithNode(call[c].g, call[c].p, Store!Node(call[c].data))
    OBVIOUS
  <2>5. AbstractGraphs' = gs
    BY <1>1, <1>2, <2>2, <2>3, <2>4, PutSeen
  <2>6. Store!Change(c, gs, None)
    BY <1>1, <2>3, <2>5, Changes DEF Values
  <2> QED
    BY <1>1, <1>3, <1>5, <2>4, <2>6, AtNode
<1> QED
  BY <1>4, <1>5

LEMMA AbstractData ==
    ASSUME NEW n \in NodeRecord, NEW d \in Data
    PROVE  /\ AbstractNode([n EXCEPT !.data = d]) = [AbstractNode(n) EXCEPT !.data = d]
           /\ AbstractNode(n).data = n.data
BY DEF AbstractNode, NodeRecord

LEMMA AbstractSide ==
    ASSUME NEW n \in NodeRecord, NEW s \in Sides, NEW h \in Holdings
    PROVE  /\ AbstractNode([n EXCEPT ![s] = h]) = [AbstractNode(n) EXCEPT ![s] = h.hash]
           /\ AbstractNode(n)[s] = IF n[s] = None THEN None ELSE n[s].hash
BY NoneIsNoContent DEF AbstractNode, NodeRecord, Sides

LEMMA UpdateSteps ==
    ASSUME MType, NamesInv, NEW c \in Clients, UpdateNode(c)
    PROVE  Store!Do(c)
<1>1. at[c] = "lockNode" /\ call[c].op = "UpdateNode" /\ HasNode(c)
      /\ UNCHANGED <<mode, graphs>>
  BY DEF UpdateNode, Doing
<1>2. call[c].p \in Paths /\ call[c].data \in Data /\ ref[c] # 0
  BY <1>1, InNode, Requested
<1>3. PICK n \in NodeRecord : n = TheNode(c)
  BY <1>1, <1>2, Object
<1>4. PICK d : d = IF call[c].merge THEN Merge(n.data, call[c].data) ELSE call[c].data
  OBVIOUS
<1>5. n.data \in Data
  BY DEF NodeRecord
<1>6. d \in Data
  BY <1>2, <1>4, <1>5, MergeIsMap DEF Data
<1>7. PICK m \in NodeRecord : m = [n EXCEPT !.data = d]
  BY <1>6, DataChanged
<1>8. Put(c, m) /\ Succeed(c, None)
  BY <1>1, <1>3, <1>4, <1>7 DEF UpdateNode
<1>9. PICK e : e = AbstractNode(n)
  OBVIOUS
<1>10. AbstractNode(m) = [e EXCEPT !.data = d] /\ e.data = n.data
  BY <1>6, <1>7, <1>9, AbstractData
<1>11. [e EXCEPT !.data = d] =
         [e EXCEPT !.data = IF call[c].merge THEN Store!Merge(@, call[c].data)
                            ELSE call[c].data]
  BY <1>4, <1>10, SameMaps
<1>12. /\ call[c].p \in DOMAIN AbstractGraphs[call[c].g]
       /\ AbstractGraphs[call[c].g][call[c].p] = e
  BY <1>1, <1>2, <1>3, <1>9, GraphOf DEF HasNode
<1>13. PICK gs : gs = Store!WithNode(call[c].g, call[c].p, [e EXCEPT !.data = d])
  OBVIOUS
<1>14. AbstractGraphs' = gs
  BY <1>1, <1>2, <1>8, <1>10, <1>13, PutSeen
<1>15. Store!Change(c, gs, None)
  BY <1>1, <1>8, <1>14, Changes DEF Values
<1> QED
  BY <1>1, <1>11, <1>12, <1>13, <1>15, AtNode

LEMMA SetSteps ==
    ASSUME MType, NamesInv, NEW c \in Clients, SetContent(c)
    PROVE  Store!Do(c)
<1>1. at[c] = "lockNode" /\ call[c].op = "SetContent" /\ HasNode(c)
      /\ UNCHANGED <<mode, graphs>>
  BY DEF SetContent, Doing
<1>2. /\ call[c].p \in Paths /\ call[c].side \in Sides /\ call[c].content \in Contents
      /\ call[c].force \in BOOLEAN /\ ref[c] # 0
  BY <1>1, InNode, Requested
<1>3. PICK v : v = Kept(call[c].content)
  OBVIOUS
<1>4. v \in Contents \ Unmarshallable
  BY <1>1, <1>2, <1>3, KeptType DEF MType, CallsType, CallType
<1>5. PICK h : h = Held(v, Embedded(call[c]))
  OBVIOUS
<1>6. h \in Holdings /\ h.hash = v
  BY <1>2, <1>4, <1>5 DEF Held, Holdings, Embedded
<1>7. PICK n \in NodeRecord : n = TheNode(c)
  BY <1>1, <1>2, Object
<1>8. PICK m \in NodeRecord : m = [n EXCEPT ![call[c].side] = h]
  BY <1>2, <1>6, SideChanged
<1>9. Put(c, m) /\ Succeed(c, v)
  BY <1>3, <1>5, <1>7, <1>8 DEF SetContent
<1>10. PICK e : e = AbstractNode(n)
  OBVIOUS
<1>11. AbstractNode(m) = [e EXCEPT ![call[c].side] = v]
  <2>1. PICK s \in Sides : s = call[c].side
    BY <1>2
  <2>2. AbstractNode([n EXCEPT ![s] = h]) = [AbstractNode(n) EXCEPT ![s] = h.hash]
    BY <1>6, AbstractSide
  <2> QED
    BY <1>6, <1>8, <1>10, <2>1, <2>2
<1>12. /\ call[c].p \in DOMAIN AbstractGraphs[call[c].g]
       /\ AbstractGraphs[call[c].g][call[c].p] = e
  BY <1>1, <1>2, <1>7, <1>10, GraphOf DEF HasNode
<1>13. PICK gs : gs = Store!WithNode(call[c].g, call[c].p, [e EXCEPT ![call[c].side] = v])
  OBVIOUS
<1>14. AbstractGraphs' = gs
  BY <1>1, <1>2, <1>9, <1>11, <1>13, PutSeen
<1>15. Store!Change(c, gs, v)
  BY <1>1, <1>4, <1>9, <1>14, Changes DEF Values
<1>16. v = Store!Kept(call[c].content)
  BY <1>3, StoreKept
<1> QED
  BY <1>1, <1>12, <1>13, <1>15, <1>16, AtNode

\* A read tells what its node holds: it is embedded, or it is in the contents.
LEMMA ContentSteps ==
    ASSUME MType, NamesInv, MissingWasDeleted, NEW c \in Clients,
           (ReadContent(c) /\ at'[c] # "readExternal") \/ ReadExternal(c)
    PROVE  Store!Do(c)
<1>1. /\ at[c] \in {"lockNode", "readExternal"} /\ call[c].op = "ReadContent" /\ HasNode(c)
      /\ UNCHANGED <<mode, graphs, objects>>
  BY DEF ReadContent, ReadExternal, Doing, MType, CallsType, CallType, DataType, ReadType
<1>2. call[c].side \in Sides /\ ref[c] # 0
  BY <1>1, InNode, Requested
<1>3. PICK n \in NodeRecord : n = TheNode(c)
  BY <1>1, <1>2, Object
<1>4. PICK h : h = n[call[c].side]
  OBVIOUS
<1>5. h \in Holdings \cup {None}
  BY <1>2, <1>4 DEF NodeRecord, Sides
<1>6. PICK v : v = IF h = None THEN None ELSE h.hash
  OBVIOUS
<1>7. v \in Values
  BY <1>5, <1>6 DEF Holdings, Values
<1>8. PICK json \in BOOLEAN : Finish(c, "none", v, json)
  <2>1. CASE ReadContent(c) /\ at'[c] # "readExternal"
    <3>1. Succeed(c, v)
      BY <1>3, <1>4, <1>6, <2>1 DEF ReadContent, Goto, MType, CallsType
    <3> QED
      BY <3>1 DEF Succeed
  <2>2. CASE ReadExternal(c)
    <3>1. h # None /\ ~h.embedded
      BY <1>3, <1>4, <2>2 DEF ReadExternal, MType, DataType, ReadType
    <3>2. Stored(n)
      BY <1>1, <1>2, <1>3, TheNodeStored
    <3>3. h.hash \in contents
      BY <1>2, <1>4, <3>1, <3>2 DEF Stored, NamesInv
    <3>4. Finish(c, "none", h.hash, TRUE)
      BY <1>3, <1>4, <2>2, <3>3 DEF ReadExternal
    <3> QED
      BY <1>6, <3>1, <3>4
  <2> QED
    BY <2>1, <2>2
<1>9. Store!Tell(c, v)
  BY <1>1, <1>7, <1>8, Tells
<1>10. /\ call[c].p \in DOMAIN AbstractGraphs[call[c].g]
       /\ AbstractGraphs[call[c].g][call[c].p] = AbstractNode(n)
  BY <1>1, <1>2, <1>3, GraphOf DEF HasNode
<1>11. AbstractNode(n)[call[c].side] = v
  BY <1>2, <1>4, <1>6 DEF AbstractNode, Sides
<1> QED
  BY <1>1, <1>9, <1>10, <1>11, AtNode

LEMMA NextSteps ==
    ASSUME NobodyDeletes, MType, NamesInv, MissingWasDeleted, [Next]_vars
    PROVE  [Store!Next]_Seen
<1>1. CASE UNCHANGED vars
  BY <1>1, Stutters DEF vars, calls, Seen
<1>2. ASSUME NEW c \in Clients, Invoke(c) \/ Return(c)
      PROVE  Store!Next
  BY <1>2, InvokeReturnSteps DEF Store!Next
<1>3. ASSUME NEW c \in Clients, Work(c)
      PROVE  Store!Do(c) \/ UNCHANGED Seen
  <2>1. call[c].op \notin {"DeleteGraph", "StoreContent", "GetContent", "DeleteContent"}
        \/ call[c] = None
    BY DEF NamesInv, AtomicOps, NodeOps
  <2>2. ~(FindToDelete(c) \/ DeleteGraph(c) \/ StoreContent(c) \/ GetContent(c)
          \/ DeleteContent(c))
    BY <2>1 DEF FindToDelete, DeleteGraph, StoreContent, GetContent, DeleteContent, Doing
  <2> QED
    BY <1>3, <2>2, GraphSteps, NotKeptSteps, LookUpSteps, UnseenSteps, ReadSteps, AddSteps,
       UpdateSteps, SetSteps, ContentSteps DEF Work
<1> QED
  BY <1>1, <1>2, <1>3 DEF Next, Store!Next

\* To callers that delete nothing the in-memory store implements GraphStore:
\* with a lock per graph, the global lock released early and large contents
\* stored apart, every call still takes effect at one moment.
THEOREM CallsAreAtomic == NobodyDeletes => (Spec => Atomic)
<1> SUFFICES ASSUME NobodyDeletes PROVE Spec => Atomic
  OBVIOUS
<1>1. Init => NamesInv
  BY EmptyMap DEF Init, NamesInv
<1>2. MType /\ NamesInv /\ [Next]_vars => NamesInv'
  BY NextNames
<1>3. MType /\ NamesInv /\ MissingWasDeleted /\ [Next]_vars
         => [Store!Next]_(Store!vars)
  BY NextSteps DEF Seen, Store!vars
<1>4. Init => Store!Init
  BY DEF Init, Store!Init, AbstractReply
<1> QED
  BY <1>1, <1>2, <1>3, <1>4, MTypeInvariant, ContentIsThere, PTL
     DEF Spec, Atomic, Store!Spec

==============================================================================
