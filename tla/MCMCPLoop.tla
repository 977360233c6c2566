----------------------------- MODULE MCMCPLoop ------------------------------
(* Small instances of MCPLoop for TLC: how the middleware is used.           *)
EXTENDS MCPLoop

Request(choice, tools) == [choice |-> choice, tools |-> tools]

\* One loop, with a choice of each kind the code tells apart, with and without
\* tools of the caller, and two cells behind its messages: what the first round
\* appends fits or does not.
Alone == [loops |-> {"l1"},
          requests |-> {Request("nil", TRUE), Request("none", FALSE),
                        Request("name", FALSE), Request("struct", TRUE)},
          spare |-> 2, ids |-> {"a", "b"}, maxCalls |-> 2]

\* Two loops given one request, whose messages fill their array.
TwoFull == [loops |-> {"l1", "l2"}, requests |-> {Request("name", FALSE)},
            spare |-> 0, ids |-> {"a"}, maxCalls |-> 1]

\* The same with room in the array.
TwoSpare == [TwoFull EXCEPT !.spare = 2, !.ids = {"a", "b"}]

\* What a .cfg gives to Uses.
Safe      == {Alone, TwoFull}
OnlySpare == {TwoSpare}
OnlyAlone == {Alone}
=============================================================================
