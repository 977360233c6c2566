------------------------------ MODULE MCPLoop -------------------------------
(***************************************************************************)
(* The tool loop of the WithMCP middleware (nodes/openai/middleware/       *)
(* mcp.go): list the tools, then ask the LLM, call the tools it asks for   *)
(* and show it their results, until it asks for none or the rounds are     *)
(* used up. The nodes it runs are those of nodes/openai/internal. Several  *)
(* loops may run at once, all given one request by their caller, whose     *)
(* slice of messages they then share.                                      *)
(*                                                                         *)
(* A message is of the user, of the assistant, with its tool calls, or of  *)
(* a tool, with the id of the call it answers and what became of it. What  *)
(* the LLM answers and how a tool fares are free.                          *)
(***************************************************************************)
EXTENDS Naturals, Sequences, FiniteSets, Maps

CONSTANTS
    Uses,           \* who calls the middleware and how, records with the fields
                    \*   loops     the loops that run
                    \*   requests  the requests they may be given, each with
                    \*             its ToolChoice and whether it has Tools
                    \*   spare     the capacity of the slice of messages in it
                    \*             beyond its length
                    \*   ids       the ids the LLM gives its tool calls, maybe
                    \*             not unique
                    \*   maxCalls  bound: tool calls in one response
    MaxIterations   \* maxToolIterations (10 in the code)

ASSUME IterationsAssumption == MaxIterations \in Nat

Loops == UNION {u.loops : u \in Uses}

\* nil, three strings that name no tool, one that does, *openai.ToolChoice and
\* openai.ToolChoice.
AllChoices == {"nil", "", "none", "auto", "name", "pointer", "struct"}
Specific   == {"name", "pointer"}

ASSUME UsesAssumption ==
    \A u \in Uses : /\ u.requests \subseteq [choice : AllChoices, tools : BOOLEAN]
                    /\ u.spare \in Nat /\ u.maxCalls \in Nat

\* Tool calls as the LLM forms them: rightly, with arguments that are not JSON,
\* with a type other than function or without a name.
Forms == {"right", "badArguments", "invalid"}
Calls(ids) == [id : ids, form : Forms]

\* What the LLM is told of a call: the tool's own words (a result, an error the
\* tool or the client reports, or that the arguments are not JSON), or that
\* the middleware has none.
Contents == {"toolSays", "frameworkError"}

User            == [role |-> "user"]
Blank           == [role |-> "blank"]
Assistant(cs)   == [role |-> "assistant", calls |-> cs]
Tool(id, words) == [role |-> "tool", id |-> id, content |-> words]

VARIABLES
    use,      \* how the middleware is used
    original, \* originalReq, which the loops have in common
    array,    \* the cells behind its messages, up to the slice's capacity
    loop      \* the variables of each loop, records with the fields
              \*   pc         "list", "loop", "llm", "calls", "collect", "returned"
              \*   mcpTools   mcpToolsAvailable
              \*   iter
              \*   shared, len, own  currentMessages after the messages of the
              \*              request: the first len cells of the caller's
              \*              array while shared, then own
              \*   called     toolsHaveBeenCalled
              \*   request    the last request: its messages, choice and
              \*              whether it has tools
              \*   toolCalls  of the last response
              \*   futures    their results so far
              \*   invoked    history: <<iteration, call>> of every CallTool
              \*              of the client
              \*   outcome    "none", "answer" or "error"

vars == <<use, original, array, loop>>

NoRequest == [messages |-> <<>>, choice |-> "nil", tools |-> FALSE]

Init ==
    /\ use \in Uses
    /\ original \in use.requests
    /\ array = [i \in 1..use.spare |-> Blank]
    /\ loop = [l \in use.loops |->
                 [pc |-> "list", mcpTools |-> FALSE, iter |-> 0,
                  shared |-> TRUE, len |-> 0, own |-> <<>>, called |-> FALSE,
                  request |-> NoRequest, toolCalls |-> <<>>, futures |-> <<>>,
                  invoked |-> <<>>, outcome |-> "none"]]

At(l, pc) == loop[l].pc = pc

Set(l, fields) ==
    loop' = [loop EXCEPT ![l] = Merge(@, fields)]

Return(l, result) ==
    /\ Set(l, [pc |-> "returned", outcome |-> result])
    /\ UNCHANGED array

------------------------------------------------------------------------------
(* currentMessages, a Go slice.                                              *)

currentMessages(l) ==
    <<User>> \o (IF loop[l].shared THEN SubSeq(array, 1, loop[l].len) ELSE loop[l].own)

\* currentMessages = append(currentMessages, messages...), and the fields set
\* with it: into the array behind the slice while there is room, whoever else
\* uses it, or into a new array of the loop's own.
AppendAnd(l, messages, fields) ==
    LET s == loop[l]
    IN  IF s.shared /\ s.len + Len(messages) <= use.spare
        THEN /\ array' = [i \in DOMAIN array |->
                            IF i \in s.len + 1..s.len + Len(messages)
                            THEN messages[i - s.len] ELSE array[i]]
             /\ Set(l, Merge([len |-> s.len + Len(messages)], fields))
        ELSE /\ Set(l, Merge([shared |-> FALSE, len |-> 0,
                               own |-> Tail(currentMessages(l)) \o messages], fields))
             /\ UNCHANGED array

------------------------------------------------------------------------------
\* No client, or an error of ListTools.
ListToolsFails(l) ==
    /\ At(l, "list")
    /\ Return(l, "error")

ListToolsReturns(l) ==
    /\ At(l, "list")
    /\ \E found \in BOOLEAN : Set(l, [pc |-> "loop", mcpTools |-> found])
    /\ UNCHANGED array

------------------------------------------------------------------------------
(* One round.                                                                *)

HasTools(l) == original.tools \/ loop[l].mcpTools

ToolChoice(l) ==
    IF loop[l].called \/ ~HasTools(l)     THEN "nil"
    ELSE IF original.choice \in Specific  THEN original.choice
    ELSE "auto"

\* The request gets a copy of the messages.
Ask(l) ==
    /\ Set(l, [pc |-> "llm",
               request |-> [messages |-> currentMessages(l),
                            choice |-> ToolChoice(l), tools |-> HasTools(l)]])
    /\ UNCHANGED array

\* Mutant: one round more.
AskLLM_OneMore(l) == At(l, "loop") /\ loop[l].iter <= MaxIterations /\ Ask(l)

AskLLM(l) == At(l, "loop") /\ loop[l].iter < MaxIterations /\ Ask(l)

GiveUp(l) ==
    /\ At(l, "loop") /\ loop[l].iter >= MaxIterations
    /\ Return(l, "error")

\* Mutant: another try, in the same round.
LLMFails_Retries(l) ==
    /\ At(l, "llm")
    /\ Set(l, [pc |-> "loop"])
    /\ UNCHANGED array

\* The LLM's node fails, or its response has no choices.
LLMFails(l) ==
    /\ At(l, "llm")
    /\ Return(l, "error")

LLMAnswers(l) ==
    /\ At(l, "llm")
    /\ Return(l, "answer")

LLMCalls(l, calls) ==
    /\ At(l, "llm")
    /\ AppendAnd(l, <<Assistant(calls)>>,
                 [pc |-> "calls", toolCalls |-> calls, futures |-> <<>>])

NextCall(l) == loop[l].toolCalls[Len(loop[l].futures) + 1]

\* The call that is next gets its future; invoked is the client's history.
Fanned(l, words, invoked) ==
    /\ At(l, "calls")
    /\ LET futures == Append(loop[l].futures, words)
       IN  Set(l, [futures |-> futures, invoked |-> invoked,
                   pc |-> IF Len(futures) = Len(loop[l].toolCalls)
                          THEN "collect" ELSE "calls"])
    /\ UNCHANGED array

Invoked(l) == Append(loop[l].invoked, <<loop[l].iter, Len(loop[l].futures) + 1>>)

\* A call no tool is asked for: it is malformed, or there are no tools at all.
RefuseCall(l) ==
    /\ At(l, "calls")
    /\ NextCall(l).form = "invalid" \/ ~HasTools(l)
    /\ Fanned(l, "frameworkError", loop[l].invoked)

\* The CallTool node: FanIn waits for it. A failure of the call is a message.
CallTool(l) ==
    /\ At(l, "calls") /\ NextCall(l).form = "right" /\ HasTools(l)
    /\ Fanned(l, "toolSays", Invoked(l))

RefuseArguments(l) ==
    /\ At(l, "calls") /\ NextCall(l).form = "badArguments" /\ HasTools(l)
    /\ Fanned(l, "toolSays", loop[l].invoked)

\* Mutant: a call that failed is tried again.
CallToolFails_Retries(l) ==
    /\ At(l, "calls") /\ NextCall(l).form = "right" /\ HasTools(l)
    /\ Len(loop[l].invoked) < MaxIterations * use.maxCalls
    /\ Set(l, [invoked |-> Invoked(l)])
    /\ UNCHANGED array

\* The node fails before or after it called the tool: its client is missing,
\* or its result cannot be stored.
CallToolFails(l) ==
    /\ At(l, "calls") /\ NextCall(l).form # "invalid" /\ HasTools(l)
    /\ \/ Fanned(l, "frameworkError", loop[l].invoked)
       \/ /\ NextCall(l).form = "right"
          /\ Fanned(l, "frameworkError", Invoked(l))

\* Mutant: nothing is said of a call that failed.
ToolMessages_Skips(l) ==
    SelectSeq([i \in DOMAIN loop[l].toolCalls |->
                 Tool(loop[l].toolCalls[i].id, loop[l].futures[i])],
              LAMBDA m : m.content = "toolSays")

ToolMessages(l) ==
    [i \in DOMAIN loop[l].toolCalls |->
       Tool(loop[l].toolCalls[i].id, loop[l].futures[i])]

\* Mutant: toolsHaveBeenCalled is not set.
Collect_NotCalled(l) ==
    /\ At(l, "collect")
    /\ AppendAnd(l, ToolMessages(l), [pc |-> "loop", iter |-> loop[l].iter + 1])

Collect(l) ==
    /\ At(l, "collect")
    /\ AppendAnd(l, ToolMessages(l),
                 [pc |-> "loop", called |-> TRUE, iter |-> loop[l].iter + 1])

Terminated == (\A l \in use.loops : At(l, "returned")) /\ UNCHANGED vars

Responses == UNION {[1..n -> Calls(use.ids)] : n \in 1..use.maxCalls}

Step(l) == \/ ListToolsFails(l) \/ ListToolsReturns(l)
           \/ AskLLM(l) \/ GiveUp(l) \/ LLMFails(l) \/ LLMAnswers(l)
           \/ (\E calls \in Responses : LLMCalls(l, calls))
           \/ RefuseCall(l) \/ CallTool(l) \/ RefuseArguments(l) \/ CallToolFails(l)
           \/ Collect(l)

Next == \/ /\ UNCHANGED <<use, original>>
           /\ \E l \in use.loops : Step(l)
        \/ Terminated

Spec == Init /\ [][Next]_vars

\* Each loop runs, and the nodes it waits for return.
FairSpec ==
    /\ Spec
    /\ \A l \in Loops : WF_vars(/\ l \in use.loops /\ Step(l)
                                 /\ UNCHANGED <<use, original>>)

------------------------------------------------------------------------------
(* Properties.                                                               *)

Messages == {User} \cup [role : {"assistant"}, calls : Responses]
            \cup [role : {"tool"}, id : use.ids, content : Contents]

\* Every variable keeps its type; a loop that is over has an outcome.
TypeOK ==
    /\ original \in use.requests
    /\ Len(array) = use.spare
    /\ \A i \in DOMAIN array : array[i] \in Messages \cup {Blank}
    /\ \A l \in use.loops :
         LET s == loop[l]
         IN  /\ s.pc \in {"list", "loop", "llm", "calls", "collect", "returned"}
             /\ s.mcpTools \in BOOLEAN /\ s.called \in BOOLEAN
             /\ s.iter \in 0..MaxIterations
             /\ s.shared \in BOOLEAN /\ s.len \in 0..use.spare
             /\ \A i \in DOMAIN currentMessages(l) : currentMessages(l)[i] \in Messages
             /\ Len(s.request.messages) <= Len(currentMessages(l))
             /\ s.request.choice \in AllChoices /\ s.request.tools \in BOOLEAN
             /\ Len(s.futures) <= Len(s.toolCalls)
             /\ s.outcome \in {"none", "answer", "error"}
             /\ s.outcome # "none" <=> s.pc = "returned"

\* The chat API's rule, which a loop keeps however calls fail and whatever
\* other loops do with the same request: in what the LLM is sent, a message
\* with tool calls is followed by exactly one tool message for each of them,
\* in their order, and there are no others. mcp.go:187 appends to the
\* caller's slice: it holds if that has no room (MCPLoopShared.cfg).
AnsweredAt(msgs, i) ==
    LET n == Len(msgs[i].calls)
    IN  /\ i + n <= Len(msgs)
        /\ \A j \in 1..n : /\ msgs[i + j].role = "tool"
                           /\ msgs[i + j].id = msgs[i].calls[j].id
EveryCallAnswered ==
    \A l \in use.loops :
        LET msgs == loop[l].request.messages
        IN  /\ \A i \in DOMAIN msgs : msgs[i].role = "assistant" => AnsweredAt(msgs, i)
            /\ \A i \in DOMAIN msgs : msgs[i].role = "tool" =>
                 \E k \in 1..(i - 1) : /\ msgs[k].role = "assistant"
                                       /\ i - k <= Len(msgs[k].calls)

\* A tool has effects: it is not called again for a call it was called for, and
\* the LLM is not asked again before it is told what every call came to.
Rounds(msgs) == Cardinality({i \in DOMAIN msgs : msgs[i].role = "assistant"})
InvokedOnceAndTold ==
    \A l \in use.loops :
        LET s == loop[l]
        IN  /\ \A i, j \in DOMAIN s.invoked : s.invoked[i] = s.invoked[j] => i = j
            /\ s.pc = "llm" => \A i \in DOMAIN s.invoked :
                                 s.invoked[i][1] < Rounds(s.request.messages)

\* A request asks for a tool only if it offers some. It keeps the tool the
\* caller forces until tools were called, and is free in every request that
\* has results in it: the LLM can answer.
HasResults(req) == \E i \in DOMAIN req.messages : req.messages[i].role = "tool"
ChoiceIsFreeOnceCalled ==
    \A l \in use.loops :
        LET req == loop[l].request
        IN  /\ req.choice # "nil" => req.tools
            /\ HasResults(req) => req.choice = "nil"
            /\ (original.choice \in Specific /\ req.tools /\ ~HasResults(req))
                 => req.choice = original.choice

\* What mcp.go:135 says: a caller's "none" is respected on the first call.
NoneIsRespected ==
    \A l \in use.loops :
        LET req == loop[l].request
        IN  (original.choice = "none" /\ req.tools /\ ~HasResults(req))
              => req.choice = "none"

\* Every loop ends: with an answer, an error, or when the rounds are used up.
Returns == <>(\A l \in use.loops : At(l, "returned"))
=============================================================================
