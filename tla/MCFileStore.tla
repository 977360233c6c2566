----------------------------- MODULE MCFileStore -----------------------------
(* Requests for FileStore: what each goroutine asks of the store.            *)
EXTENDS FileStore, TLC

CONSTANTS c1, c2, g1, g2, p1, small, big, odd

Two == {c1, c2}
BigContents == {big}
OddContents == {odd}
BothGraphs  == {g1, g2}
FirstGraph  == {g1}
SecondGraph == {g2}

OnGraph(op, g)         == [op |-> op, g |-> g]
Add(g, p, k)           == [op |-> "AddNode", g |-> g, p |-> p, data |-> (k :> 0)]
Get(g, p)              == [op |-> "GetNode", g |-> g, p |-> p]
Update(g, p, k, merge) == [op |-> "UpdateNode", g |-> g, p |-> p, data |-> (k :> 1),
                           merge |-> merge]
Set(g, p, s, v, force) == [op |-> "SetContent", g |-> g, p |-> p, side |-> s,
                           content |-> v, force |-> force]
Read(g, p, s)          == [op |-> "ReadContent", g |-> g, p |-> p, side |-> s]
OnContent(op, v)       == [op |-> op, content |-> v]

\* Two goroutines on one node of a graph; one creates and deletes another graph.
Atomically ==
    c1 :> {OnGraph("CreateGraph", g2), OnGraph("DeleteGraph", g2), Add(g2, p1, "status"),
           OnGraph("ListGraphs", g1),
           Add(g1, p1, "status"), Set(g1, p1, "response", big, FALSE), Get(g1, p1)} @@
    c2 :> {Add(g1, p1, "error"), Update(g1, p1, "status", TRUE),
           Update(g1, p1, "error", FALSE), Set(g1, p1, "response", small, FALSE),
           Set(g1, p1, "response", odd, FALSE), Read(g1, p1, "response"),
           OnGraph("ListNodes", g1)}

\* A graph created, written and deleted while contents of the active graph are stored,
\* read and deleted by hash; another graph, which is there from the start, is
\* deleted by one goroutine while both work on it, a large content of it
\* being written.
Crashing ==
    c1 :> {OnGraph("CreateGraph", g1), OnGraph("DeleteGraph", g1), OnGraph("DeleteGraph", g2),
           Add(g1, p1, "status"), Add(g2, p1, "status")} @@
    c2 :> {Add(g2, p1, "status"), Set(g2, p1, "request", odd, FALSE),
           Set(g2, p1, "request", big, FALSE), OnContent("StoreContent", big),
           OnContent("GetContent", big), OnContent("DeleteContent", big)}

\* A content stored, and asked for when the store has been opened again.
StoreAndGet == c1 :> {OnGraph("CreateGraph", g1), OnContent("StoreContent", big)} @@
               c2 :> {OnContent("GetContent", big)}

\* A large content set again after it could not be written.
LargeContent == c1 :> {Add(g1, p1, "status")} @@
                c2 :> {Set(g1, p1, "response", big, FALSE)}

\* A graph deleted and made anew while a large content of it is set.
SetAndRecreate == c1 :> {Set(g1, p1, "response", big, FALSE)} @@
                  c2 :> {OnGraph("DeleteGraph", g1), OnGraph("CreateGraph", g1),
                         Add(g1, p1, "status")}

\* A node added to a graph while it is created.
CreateAndAdd == c1 :> {OnGraph("CreateGraph", g1)} @@ c2 :> {Add(g1, p1, "status")}

\* A graph deleted and created again while a node is added to it.
DeleteAndAdd == c1 :> {OnGraph("DeleteGraph", g1), OnGraph("CreateGraph", g1),
                       Add(g1, p1, "error")} @@
                c2 :> {Add(g1, p1, "status")}

\* Whose graphs are apart, and whose are not.
ASSUME AtomicallyIsApart == CallsApart(Atomically) /\ CallsApart(LargeContent)
ASSUME OthersAreNot ==
    \A asks \in {CreateAndAdd, DeleteAndAdd, SetAndRecreate} : ~CallsApart(asks)
ASSUME CrashingAreApart == RewritersApart(Crashing) /\ ~CallsApart(Crashing)
ASSUME RecreatedAreNot == ~RewritersApart(DeleteAndAdd)
==============================================================================
