---------------------------- MODULE MCMemoryStore ----------------------------
(* Requests for MemoryStore: what each goroutine asks of the store.          *)
EXTENDS MemoryStore, TLC

CONSTANTS c1, c2, g1, g2, p1, small, big, odd

Two == {c1, c2}
BigContents == {big}
OddContents == {odd}

OnGraph(op, g)         == [op |-> op, g |-> g]
Add(g, p, k)           == [op |-> "AddNode", g |-> g, p |-> p, data |-> (k :> 0)]
Get(g, p)              == [op |-> "GetNode", g |-> g, p |-> p]
Update(g, p, k, merge) == [op |-> "UpdateNode", g |-> g, p |-> p, data |-> (k :> 1),
                           merge |-> merge]
Set(g, p, s, v, force) == [op |-> "SetContent", g |-> g, p |-> p, side |-> s,
                           content |-> v, force |-> force]
Read(g, p, s)          == [op |-> "ReadContent", g |-> g, p |-> p, side |-> s]
OnContent(op, v)       == [op |-> op, content |-> v]

\* Two writers and readers of one node, while the graph is created.
Atomically ==
    c1 :> {OnGraph("CreateGraph", g1), Add(g1, p1, "status"),
           Set(g1, p1, "response", big, FALSE), Get(g1, p1),
           Read(g1, p1, "response"), OnGraph("ListNodes", g1)} @@
    c2 :> {OnGraph("CreateGraph", g1), Add(g1, p1, "error"),
           Update(g1, p1, "status", TRUE), Update(g1, p1, "error", FALSE),
           Set(g1, p1, "response", small, FALSE), Set(g1, p1, "response", big, TRUE),
           Set(g1, p1, "response", odd, FALSE), Read(g1, p1, "response"),
           OnGraph("ListGraphs", g1)}

\* Graphs and contents deleted under the goroutines that use them.
Deleting ==
    c1 :> {OnGraph("CreateGraph", g1), OnGraph("DeleteGraph", g1),
           OnContent("DeleteContent", big), OnContent("StoreContent", big),
           OnContent("StoreContent", odd), Add(g1, p1, "status")} @@
    c2 :> {OnGraph("CreateGraph", g2), OnGraph("DeleteGraph", g2),
           Add(g1, p1, "status"), Set(g1, p1, "request", big, FALSE),
           OnContent("GetContent", big)}

\* A graph deleted while a node is added to it.
DeleteAndAdd ==
    c1 :> {OnGraph("CreateGraph", g1), OnGraph("DeleteGraph", g1)} @@
    c2 :> {Add(g1, p1, "status")}

\* A graph deleted while a content of it is read.
DeleteAndRead ==
    c1 :> {OnGraph("CreateGraph", g1), OnGraph("DeleteGraph", g1)} @@
    c2 :> {Add(g1, p1, "status"), Set(g1, p1, "response", big, FALSE),
           Read(g1, p1, "response")}
==============================================================================
