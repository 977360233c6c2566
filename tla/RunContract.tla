----------------------------- MODULE RunContract -----------------------------
(***************************************************************************)
(* What ExecuteWorkflow promises about the graphs of a store that refuses  *)
(* to create a graph twice (core.go): a graph belongs to one run, for good;*)
(* it is written only while that run is in progress, never after it has    *)
(* returned or died; and a run succeeds only when every node of its graph  *)
(* is complete.                                                            *)
(***************************************************************************)
CONSTANTS Runs, Graphs, Nodes, None

VARIABLES phase,    \* "ready", "running", "ok", "error" or "lost", of each run
          owner,    \* the run that a graph belongs to, or None
          content   \* the nodes of a graph that are complete

InPhase(r, from, to) == /\ phase[r] = from
                        /\ phase' = [phase EXCEPT ![r] = to]

Init == /\ phase = [r \in Runs |-> "ready"]
        /\ owner = [g \in Graphs |-> None]
        /\ content = [g \in Graphs |-> {}]

TurnedAway(r) == InPhase(r, "ready", "error") /\ UNCHANGED <<owner, content>>

Begin(r) == /\ InPhase(r, "ready", "running")
            /\ \E g \in Graphs : /\ owner[g] = None
                                 /\ owner' = [owner EXCEPT ![g] = r]
            /\ UNCHANGED content

Complete(r) == /\ phase[r] = "running"
               /\ \E g \in Graphs, n \in Nodes :
                    /\ owner[g] = r
                    /\ content' = [content EXCEPT ![g] = @ \cup {n}]
               /\ UNCHANGED <<phase, owner>>

Succeed(r) == /\ InPhase(r, "running", "ok")
              /\ \E g \in Graphs : owner[g] = r /\ content[g] = Nodes
              /\ UNCHANGED <<owner, content>>

Fail(r) == InPhase(r, "running", "error") /\ UNCHANGED <<owner, content>>

\* The process dies, with the runs that are in progress and those about to be.
Die == /\ \E waiting \in SUBSET Runs :
            phase' = [r \in Runs |->
                        IF \/ phase[r] = "running"
                           \/ r \in waiting /\ phase[r] = "ready"
                        THEN "lost" ELSE phase[r]]
       /\ UNCHANGED <<owner, content>>

Next == \/ \E r \in Runs : \/ TurnedAway(r) \/ Begin(r) \/ Complete(r)
                           \/ Succeed(r) \/ Fail(r)
        \/ Die

Spec == Init /\ [][Next]_<<phase, owner, content>>
==============================================================================
