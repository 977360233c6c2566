--------------------------- MODULE MCNodeExecution ---------------------------
(* Small instances of NodeExecution: two callers, two outputs of which one   *)
(* cannot be marshalled.                                                     *)
EXTENDS NodeExecution, TLC

CONSTANTS c1, c2, in1, in2, good, odd

MCCallers == {c1, c2}
MCInputs  == {in1, in2}
MCOutputs == {good, odd}
MCUnmarshallable == {in2, odd}

CallerSymmetry == Permutations(MCCallers)
==============================================================================
