--------------------------- MODULE MCWorkflowRun ---------------------------
(* Who calls what in WorkflowRun. A run's .cfg picks some as Plans.          *)
EXTENDS WorkflowRun

CONSTANTS c1, c2, g1, g2, w

\* c1 and c2 name the graph g1, and a call that is a tool has g2 for its own;
\* all of them execute the workflow w.
Plan(tools, tolerant, local) ==
    [graph    |-> [c \in Calls |-> IF c \in tools THEN g2 ELSE g1],
     workflow |-> [c \in Calls |-> w],
     tools    |-> tools, tolerant |-> tolerant, local |-> local]

\* The stores of the repository, with a definition of w that is shared or made
\* for each call; a store for g1 that tolerates a graph that exists.
Supported == {Plan({}, {}, {}), Plan({}, {}, {w}),
              Plan({c2}, {}, {}), Plan({}, {g1}, {})}
Refused        == {Plan({}, {}, {})}
Tolerated      == {Plan({}, {g1}, {})}
LocalTolerated == {Plan({}, {g1}, {w})}
==============================================================================
