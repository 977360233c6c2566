---------------------------- MODULE MCInjection -----------------------------
(* Instances of Injection for TLC: a chat node and a node that lists tools.  *)
EXTENDS Injection

CONSTANTS t1, t2, llm, tools, c1, c2, c3, chat, list, callTool

Two == {t1, t2}
Both == {llm, tools}
MCTypeOf  == [d \in Defs |-> IF d = llm THEN chat ELSE list]
MCAccepts == [d \in Defs |-> IF d = llm THEN {c1} ELSE {c2}]

Chat    == [dep |-> c1, nodes |-> {chat}]            \* openai.Inject
Tools   == [dep |-> c2, nodes |-> {list, callTool}]  \* openai.InjectMCPClient
NilChat == [dep |-> Nil, nodes |-> {chat}]
Mistake == [dep |-> c3, nodes |-> {chat, callTool}]  \* of the wrong type

\* What an application may register, rightly and wrongly.
Various == {<<Chat, Tools>>, <<Tools>>, <<Mistake>>, <<NilChat>>}
Proper  == {<<Chat>>}
NilOnly == {<<NilChat>>}

\* Each definition used by one goroutine, or by both.
OneEach == [d \in Defs |-> IF d = llm THEN {t1} ELSE {t2}]
Anyone  == [d \in Defs |-> Threads]
=============================================================================
