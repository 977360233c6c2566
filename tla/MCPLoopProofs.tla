---------------------------- MODULE MCPLoopProofs ----------------------------
(***************************************************************************)
(* Theorems of MCPLoop for every way of using the middleware, any number   *)
(* of rounds and of calls in a response.                                   *)
(***************************************************************************)
EXTENDS MCPLoop, SequenceTheorems, FiniteSetTheorems, TLAPS

Pcs == {"list", "loop", "llm", "calls", "collect", "returned"}

RequestRecord == [messages : Seq(Messages), choice : AllChoices, tools : BOOLEAN]
LoopRecord ==
    [pc : Pcs, mcpTools : BOOLEAN, iter : 0 .. MaxIterations, shared : BOOLEAN,
     len : 0 .. use.spare, own : Seq(Messages), called : BOOLEAN,
     request : RequestRecord, toolCalls : Seq(Calls(use.ids)), futures : Seq(Contents),
     invoked : Seq(Nat \X Nat), outcome : {"none", "answer", "error"}]

InRound(l) == loop[l].pc \in {"calls", "collect"}

\* How many messages a loop appended to those of the request.
Appended(s) == IF s.shared THEN s.len ELSE Len(s.own)

\* A loop, by itself: in a round it has tool calls, the first of which have their
\* futures; what it asked the LLM was not longer than the conversation is.
LoopOK(s) ==
    /\ ~s.shared => s.len = 0
    /\ Len(s.request.messages) <= 1 + Appended(s)
    /\ s.outcome # "none" <=> s.pc = "returned"
    /\ s.pc \in {"llm", "calls", "collect"} => s.iter < MaxIterations
    /\ s.pc \in {"calls", "collect"} => s.toolCalls \in Responses
    /\ s.pc = "calls" => Len(s.futures) < Len(s.toolCalls)
    /\ s.pc = "collect" => Len(s.futures) = Len(s.toolCalls)
    /\ Len(s.futures) <= Len(s.toolCalls)

\* What a loop appended to the caller's array is there.
CellsOK(s) == s.shared => \A i \in 1 .. s.len : array[i] \in Messages

LType ==
    /\ use \in Uses
    /\ original \in use.requests
    /\ array \in Seq(Messages \cup {Blank}) /\ Len(array) = use.spare
    /\ loop \in [use.loops -> LoopRecord]
    /\ \A l \in use.loops : LoopOK(loop[l]) /\ CellsOK(loop[l])

------------------------------------------------------------------------------
(* Types.                                                                    *)

LEMMA SameTypes ==
    ASSUME use' = use
    PROVE  /\ Messages' = Messages /\ Responses' = Responses /\ LoopRecord' = LoopRecord
           /\ \A s : LoopOK(s)' <=> LoopOK(s)
<1>1. Responses' = Responses
  BY DEF Responses
<1>2. Messages' = Messages
  BY <1>1 DEF Messages
<1>3. LoopRecord' = LoopRecord
  BY <1>2 DEF LoopRecord, RequestRecord
<1> QED
  BY <1>1, <1>2, <1>3 DEF LoopOK

LEMMA UseType ==
    ASSUME LType
    PROVE  /\ use.spare \in Nat /\ use.maxCalls \in Nat
           /\ original.choice \in AllChoices /\ original.tools \in BOOLEAN
BY UsesAssumption DEF LType

\* What a loop appended, and the conversation.
Added(l) == IF loop[l].shared THEN SubSeq(array, 1, loop[l].len) ELSE loop[l].own

LEMMA AddedType ==
    ASSUME LType, NEW l \in use.loops
    PROVE  /\ Added(l) \in Seq(Messages) /\ Len(Added(l)) = Appended(loop[l])
           /\ Appended(loop[l]) \in Nat
           /\ currentMessages(l) = <<User>> \o Added(l)
<1>1. loop[l] \in LoopRecord /\ CellsOK(loop[l])
  BY DEF LType
<1>2. loop[l].len \in 0 .. Len(array) /\ array \in Seq(Messages \cup {Blank})
      /\ loop[l].own \in Seq(Messages) /\ loop[l].shared \in BOOLEAN
  BY <1>1, UseType DEF LType, LoopRecord
<1>3. CASE loop[l].shared
  <2>1. PICK a, n : a = array /\ n = loop[l].len
    OBVIOUS
  <2>2. /\ SubSeq(a, 1, n) \in Seq(Messages \cup {Blank}) /\ Len(SubSeq(a, 1, n)) = n
        /\ \A i \in 1 .. n : SubSeq(a, 1, n)[i] = a[i]
    BY <1>2, <2>1, SubSeqProperties
  <2>3. \A i \in 1 .. n : SubSeq(a, 1, n)[i] \in Messages
    BY <1>1, <1>3, <2>1, <2>2 DEF CellsOK
  <2>4. SubSeq(a, 1, n) \in Seq(Messages)
    BY <1>2, <2>1, <2>2, <2>3
  <2> QED
    BY <1>2, <1>3, <2>1, <2>2, <2>4 DEF Added, Appended, currentMessages
<1>4. CASE ~loop[l].shared
  BY <1>2, <1>4 DEF Added, Appended, currentMessages
<1> QED
  BY <1>2, <1>3, <1>4

LEMMA CurType ==
    ASSUME LType, NEW l \in use.loops
    PROVE  /\ currentMessages(l) \in Seq(Messages)
           /\ Len(currentMessages(l)) = 1 + Appended(loop[l])
           /\ Tail(currentMessages(l)) = Added(l)
<1>1. PICK a : a = Added(l)
  OBVIOUS
<1>2. a \in Seq(Messages) /\ Len(a) = Appended(loop[l]) /\ currentMessages(l) = <<User>> \o a
  BY <1>1, AddedType
<1>3. User \in Messages
  BY DEF Messages
<1> QED
  BY <1>1, <1>2, <1>3

LEMMA SetType ==
    ASSUME LType, NEW l \in use.loops, NEW h \in LoopRecord, LoopOK(h), CellsOK(h),
           loop' = [loop EXCEPT ![l] = h], UNCHANGED <<use, original, array>>
    PROVE  LType'
<1>1. \A k \in use.loops : loop'[k] = IF k = l THEN h ELSE loop[k]
  BY DEF LType
<1>2. ASSUME NEW k \in use.loops PROVE (LoopOK(loop[k]) /\ CellsOK(loop[k]))'
  <2>1. PICK s : s = loop'[k]
    OBVIOUS
  <2>2. LoopOK(s) /\ CellsOK(s)
    BY <1>1, <2>1 DEF LType
  <2>3. LoopOK(s)'
    BY <2>2, SameTypes
  <2>4. CellsOK(s)'
    BY <2>2, SameTypes DEF CellsOK
  <2> QED
    BY <2>1, <2>3, <2>4
<1>3. loop' \in [use.loops -> LoopRecord]
  BY DEF LType
<1> QED
  BY <1>2, <1>3, SameTypes DEF LType

\* A step that sets fields of a loop and appends nothing.
LEMMA FieldsType ==
    ASSUME LType, NEW l \in use.loops, NEW fields,
           Merge(loop[l], fields) \in LoopRecord,
           LoopOK(Merge(loop[l], fields)), CellsOK(Merge(loop[l], fields)),
           Set(l, fields), UNCHANGED <<use, original, array>>
    PROVE  LType'
<1>1. PICK h : h = Merge(loop[l], fields)
  OBVIOUS
<1> QED
  BY <1>1, SetType DEF Set

LEMMA ReturnType ==
    ASSUME LType, NEW l \in use.loops, UNCHANGED <<use, original>>, ~InRound(l),
           loop[l].pc # "returned", NEW result \in {"answer", "error"}, Return(l, result)
    PROVE  LType'
<1> DEFINE fields == [pc |-> "returned", outcome |-> result]
<1>1. loop[l] \in LoopRecord /\ LoopOK(loop[l]) /\ CellsOK(loop[l])
  BY DEF LType
<1>2. /\ Merge(loop[l], fields) \in LoopRecord
      /\ LoopOK(Merge(loop[l], fields)) /\ CellsOK(Merge(loop[l], fields))
  BY <1>1 DEF Merge, LoopRecord, LoopOK, CellsOK, Pcs, Appended
<1> QED
  BY <1>2, FieldsType DEF Return

LEMMA ListToolsTypes ==
    ASSUME LType, NEW l \in use.loops, UNCHANGED <<use, original>>, ListToolsReturns(l)
    PROVE  LType'
<1>1. loop[l] \in LoopRecord /\ LoopOK(loop[l]) /\ CellsOK(loop[l]) /\ loop[l].pc = "list"
  BY DEF LType, ListToolsReturns, At
<1>2. PICK found \in BOOLEAN : Set(l, [pc |-> "loop", mcpTools |-> found])
  BY DEF ListToolsReturns
<1> DEFINE fields == [pc |-> "loop", mcpTools |-> found]
<1>3. /\ Merge(loop[l], fields) \in LoopRecord
      /\ LoopOK(Merge(loop[l], fields)) /\ CellsOK(Merge(loop[l], fields))
  BY <1>1 DEF Merge, LoopRecord, LoopOK, CellsOK, Pcs, Appended
<1> QED
  BY <1>2, <1>3, FieldsType DEF ListToolsReturns

LEMMA ToolsAndChoice ==
    ASSUME LType, NEW l \in use.loops
    PROVE  HasTools(l) \in BOOLEAN /\ ToolChoice(l) \in AllChoices
BY UseType DEF HasTools, ToolChoice, LType, LoopRecord, AllChoices

LEMMA AskTypes ==
    ASSUME LType, NEW l \in use.loops, UNCHANGED <<use, original>>, AskLLM(l)
    PROVE  LType'
<1>1. /\ loop[l] \in LoopRecord /\ LoopOK(loop[l]) /\ CellsOK(loop[l])
      /\ loop[l].pc = "loop" /\ loop[l].iter < MaxIterations
  BY DEF LType, AskLLM, At
<1>2. PICK req : req = [messages |-> currentMessages(l), choice |-> ToolChoice(l),
                        tools |-> HasTools(l)]
  OBVIOUS
<1>3. req \in RequestRecord /\ Len(req.messages) = 1 + Appended(loop[l])
  BY <1>2, CurType, ToolsAndChoice DEF RequestRecord
<1>4. PICK h : h = Merge(loop[l], [pc |-> "llm", request |-> req])
  OBVIOUS
<1>5. h \in LoopRecord
  BY <1>1, <1>3, <1>4 DEF Merge, LoopRecord, Pcs
<1>6. /\ h.pc = "llm" /\ h.request = req
      /\ h.shared = loop[l].shared /\ h.len = loop[l].len /\ h.own = loop[l].own
      /\ h.iter = loop[l].iter /\ h.outcome = loop[l].outcome
      /\ h.futures = loop[l].futures /\ h.toolCalls = loop[l].toolCalls
  BY <1>1, <1>4 DEF Merge, LoopRecord
<1>7. LoopOK(h) /\ CellsOK(h)
  BY <1>1, <1>3, <1>6 DEF LoopOK, CellsOK, Appended
<1> QED
  BY <1>2, <1>4, <1>5, <1>7, FieldsType DEF AskLLM, Ask

\* A call of the response gets its future.
LEMMA FannedTypes ==
    ASSUME LType, NEW l \in use.loops, UNCHANGED <<use, original>>,
           NEW words \in Contents, NEW invoked \in Seq(Nat \X Nat), Fanned(l, words, invoked)
    PROVE  LType'
<1>1. loop[l] \in LoopRecord /\ LoopOK(loop[l]) /\ CellsOK(loop[l]) /\ loop[l].pc = "calls"
  BY DEF LType, Fanned, At
<1>2. PICK futures : futures = Append(loop[l].futures, words)
  OBVIOUS
<1>3. futures \in Seq(Contents) /\ Len(futures) = Len(loop[l].futures) + 1
  BY <1>1, <1>2 DEF LoopRecord
<1> DEFINE pc == IF Len(futures) = Len(loop[l].toolCalls) THEN "collect" ELSE "calls"
<1>4. Len(loop[l].toolCalls) \in Nat /\ Len(loop[l].futures) \in Nat
  BY <1>1 DEF LoopRecord
<1>5. Len(futures) <= Len(loop[l].toolCalls)
  BY <1>1, <1>3, <1>4 DEF LoopOK
<1>6. PICK h : h = Merge(loop[l], [futures |-> futures, invoked |-> invoked, pc |-> pc])
  OBVIOUS
<1>7. h \in LoopRecord
  BY <1>1, <1>3, <1>6 DEF Merge, LoopRecord, Pcs
<1>8. /\ h.pc = pc /\ h.futures = futures /\ h.toolCalls = loop[l].toolCalls
      /\ h.shared = loop[l].shared /\ h.len = loop[l].len /\ h.own = loop[l].own
      /\ h.iter = loop[l].iter /\ h.outcome = loop[l].outcome /\ h.request = loop[l].request
  BY <1>1, <1>6 DEF Merge, LoopRecord
<1>9. LoopOK(h) /\ CellsOK(h)
  BY <1>1, <1>3, <1>4, <1>5, <1>8 DEF LoopOK, CellsOK, Appended
<1> QED
  BY <1>2, <1>6, <1>7, <1>9, FieldsType DEF Fanned

LEMMA CallTypes ==
    ASSUME LType, NEW l \in use.loops, UNCHANGED <<use, original>>,
           RefuseCall(l) \/ CallTool(l) \/ RefuseArguments(l) \/ CallToolFails(l)
    PROVE  LType'
<1>1. loop[l].invoked \in Seq(Nat \X Nat) /\ Len(loop[l].futures) \in Nat
      /\ loop[l].iter \in Nat
  BY IterationsAssumption DEF LType, LoopRecord
<1>2. Invoked(l) \in Seq(Nat \X Nat)
  BY <1>1 DEF Invoked
<1>3. PICK words \in Contents, invoked \in {loop[l].invoked, Invoked(l)} :
         Fanned(l, words, invoked)
  BY DEF RefuseCall, CallTool, RefuseArguments, CallToolFails, Contents
<1> QED
  BY <1>1, <1>2, <1>3, FannedTypes

------------------------------------------------------------------------------
(* The steps that append to the conversation.                                *)

\* The loop's record after AppendAnd, of what its fields make of it.
InPlace(s, ms)    == [s EXCEPT !.len = s.len + Len(ms)]
Copied(s, own)    == [s EXCEPT !.shared = FALSE, !.len = 0, !.own = own]
Fits(l, ms)       == loop[l].shared /\ loop[l].len + Len(ms) <= use.spare

\* What sets none of the fields of the slice.
OtherFields(fields) == DOMAIN fields \subseteq {"pc", "toolCalls", "futures", "called", "iter"}

LEMMA MergeOver ==
    ASSUME LType, NEW s \in LoopRecord, NEW fields, OtherFields(fields)
    PROVE  /\ \A n : Merge(s, Merge([len |-> n], fields)) = [Merge(s, fields) EXCEPT !.len = n]
           /\ \A own : Merge(s, Merge([shared |-> FALSE, len |-> 0, own |-> own], fields))
                          = Copied(Merge(s, fields), own)
<1>1. DOMAIN s = {"pc", "mcpTools", "iter", "shared", "len", "own", "called", "request",
                  "toolCalls", "futures", "invoked", "outcome"}
      /\ s = [f \in DOMAIN s |-> s[f]]
  BY DEF LoopRecord
<1>2. PICK m : m = Merge(s, fields)
  OBVIOUS
<1>3. m = [f \in DOMAIN s |-> IF f \in DOMAIN fields THEN fields[f] ELSE s[f]]
  BY <1>1, <1>2 DEF Merge, OtherFields
<1>4. ASSUME NEW n PROVE Merge(s, Merge([len |-> n], fields)) = [m EXCEPT !.len = n]
  <2>1. PICK one : one = Merge([len |-> n], fields)
    OBVIOUS
  <2>2. /\ DOMAIN one = {"len"} \cup DOMAIN fields /\ one["len"] = n
        /\ \A f \in DOMAIN fields : one[f] = fields[f]
    BY <2>1 DEF Merge, OtherFields
  <2>3. Merge(s, one) = [f \in DOMAIN s |-> IF f \in DOMAIN one THEN one[f] ELSE s[f]]
    BY <1>1, <2>2 DEF Merge, OtherFields
  <2>4. [m EXCEPT !.len = n] = [f \in DOMAIN s |-> IF f = "len" THEN n ELSE m[f]]
    BY <1>3
  <2>5. \A f \in DOMAIN s : (IF f \in DOMAIN one THEN one[f] ELSE s[f])
                              = IF f = "len" THEN n ELSE m[f]
    BY <1>3, <2>2
  <2> QED
    BY <2>1, <2>3, <2>4, <2>5
<1>5. ASSUME NEW own
      PROVE  Merge(s, Merge([shared |-> FALSE, len |-> 0, own |-> own], fields)) = Copied(m, own)
  <2>1. PICK slice : slice = [shared |-> FALSE, len |-> 0, own |-> own]
    OBVIOUS
  <2>2. PICK all : all = Merge(slice, fields)
    OBVIOUS
  <2>3. /\ DOMAIN all = {"shared", "len", "own"} \cup DOMAIN fields
        /\ all["shared"] = FALSE /\ all["len"] = 0 /\ all["own"] = own
        /\ \A f \in DOMAIN fields : all[f] = fields[f]
    BY <2>1, <2>2 DEF Merge, OtherFields
  <2>4. Merge(s, all) = [f \in DOMAIN s |-> IF f \in DOMAIN all THEN all[f] ELSE s[f]]
    BY <1>1, <2>3 DEF Merge, OtherFields
  <2>5. Copied(m, own) = [f \in DOMAIN s |-> IF f = "shared" THEN FALSE ELSE IF f = "len" THEN 0
                                              ELSE IF f = "own" THEN own ELSE m[f]]
    BY <1>3 DEF Copied
  <2>6. \A f \in DOMAIN s : (IF f \in DOMAIN all THEN all[f] ELSE s[f])
                              = IF f = "shared" THEN FALSE ELSE IF f = "len" THEN 0
                                ELSE IF f = "own" THEN own ELSE m[f]
    BY <1>3, <2>3
  <2> QED
    BY <2>1, <2>2, <2>4, <2>5, <2>6
<1> QED
  BY <1>2, <1>4, <1>5

LEMMA AppendCases ==
    ASSUME LType, NEW l \in use.loops, NEW fields, OtherFields(fields), NEW ms \in Seq(Messages),
           AppendAnd(l, ms, fields), NEW s, s = Merge(loop[l], fields)
    PROVE  \/ /\ Fits(l, ms)
              /\ array' = [i \in DOMAIN array |->
                             IF i \in loop[l].len + 1 .. loop[l].len + Len(ms)
                             THEN ms[i - loop[l].len] ELSE array[i]]
              /\ loop' = [loop EXCEPT ![l] = [s EXCEPT !.len = loop[l].len + Len(ms)]]
           \/ /\ ~Fits(l, ms)
              /\ UNCHANGED array
              /\ loop' = [loop EXCEPT ![l] = Copied(s, Added(l) \o ms)]
<1>1. loop[l] \in LoopRecord
  BY DEF LType
<1>2. PICK own : own = Added(l) \o ms
  OBVIOUS
<1>3. own = Tail(currentMessages(l)) \o ms
  BY <1>2, CurType
<1>4. PICK n : n = loop[l].len + Len(ms)
  OBVIOUS
<1>5. Merge(loop[l], Merge([len |-> n], fields)) = [s EXCEPT !.len = n]
  <2>1. Merge(loop[l], Merge([len |-> n], fields)) = [Merge(loop[l], fields) EXCEPT !.len = n]
    BY <1>1, MergeOver
  <2> QED
    BY <2>1
<1>6. Merge(loop[l], Merge([shared |-> FALSE, len |-> 0, own |-> own], fields)) = Copied(s, own)
  <2>1. Merge(loop[l], Merge([shared |-> FALSE, len |-> 0, own |-> own], fields))
          = Copied(Merge(loop[l], fields), own)
    BY <1>1, MergeOver
  <2> QED
    BY <2>1
<1>7. CASE Fits(l, ms)
  <2>1. /\ array' = [i \in DOMAIN array |->
                      IF i \in loop[l].len + 1 .. loop[l].len + Len(ms)
                      THEN ms[i - loop[l].len] ELSE array[i]]
        /\ Set(l, Merge([len |-> n], fields))
    BY <1>4, <1>7 DEF AppendAnd, Fits
  <2>2. loop' = [loop EXCEPT ![l] = [s EXCEPT !.len = n]]
    BY <1>5, <2>1 DEF Set
  <2> QED
    BY <1>4, <1>7, <2>1, <2>2
<1>8. CASE ~Fits(l, ms)
  <2>1. Set(l, Merge([shared |-> FALSE, len |-> 0, own |-> own], fields)) /\ UNCHANGED array
    BY <1>3, <1>8 DEF AppendAnd, Fits
  <2>2. loop' = [loop EXCEPT ![l] = Copied(s, own)]
    BY <1>6, <2>1 DEF Set
  <2> QED
    BY <1>2, <1>8, <2>1, <2>2
<1> QED
  BY <1>7, <1>8

LEMMA SliceKept ==
    ASSUME LType, NEW l \in use.loops, NEW fields, OtherFields(fields),
           NEW s \in LoopRecord, s = Merge(loop[l], fields)
    PROVE  s.shared = loop[l].shared /\ s.len = loop[l].len /\ s.own = loop[l].own
<1>1. PICK r : r = loop[l]
  OBVIOUS
<1>2. DOMAIN r = {"pc", "mcpTools", "iter", "shared", "len", "own", "called", "request",
                  "toolCalls", "futures", "invoked", "outcome"}
  BY <1>1 DEF LType, LoopRecord
<1>3. s = [f \in DOMAIN r |-> IF f \in DOMAIN fields THEN fields[f] ELSE r[f]]
  BY <1>1, <1>2 DEF Merge, OtherFields
<1>4. s["shared"] = r["shared"] /\ s["len"] = r["len"] /\ s["own"] = r["own"]
  BY <1>2, <1>3 DEF OtherFields
<1> QED
  BY <1>1, <1>4

LEMMA AppendTypes ==
    ASSUME LType, NEW l \in use.loops, UNCHANGED <<use, original>>,
           NEW fields, OtherFields(fields), NEW ms \in Seq(Messages), AppendAnd(l, ms, fields),
           NEW s \in LoopRecord, s = Merge(loop[l], fields), LoopOK(s)
    PROVE  LType'
<1>1. /\ loop[l] \in LoopRecord /\ CellsOK(loop[l]) /\ loop \in [use.loops -> LoopRecord]
      /\ array \in Seq(Messages \cup {Blank}) /\ Len(array) = use.spare /\ use.spare \in Nat
  BY UseType DEF LType
<1>2. s.shared = loop[l].shared /\ s.len = loop[l].len /\ s.own = loop[l].own
  BY SliceKept
<1>3. loop[l].len \in Nat /\ Len(ms) \in Nat /\ \A i \in 1 .. Len(ms) : ms[i] \in Messages
  BY <1>1 DEF LoopRecord
<1>4. CASE Fits(l, ms)
  <2>1. PICK h : h = [s EXCEPT !.len = loop[l].len + Len(ms)]
    OBVIOUS
  <2>2. array' = [i \in DOMAIN array |->
                    IF i \in loop[l].len + 1 .. loop[l].len + Len(ms)
                    THEN ms[i - loop[l].len] ELSE array[i]]
        /\ loop' = [loop EXCEPT ![l] = h]
    BY <1>4, <2>1, AppendCases
  <2>3. loop[l].len + Len(ms) \in 0 .. use.spare /\ loop[l].shared
    BY <1>1, <1>3, <1>4 DEF Fits
  <2>4. h \in LoopRecord
    BY <2>1, <2>3 DEF LoopRecord
  <2>5. /\ h.shared = loop[l].shared /\ h.len = loop[l].len + Len(ms)
        /\ h.own = s.own /\ h.pc = s.pc /\ h.request = s.request /\ h.outcome = s.outcome
        /\ h.iter = s.iter /\ h.futures = s.futures /\ h.toolCalls = s.toolCalls
    BY <1>2, <2>1 DEF LoopRecord
  <2>6. LoopOK(h)
    <3>1. Appended(s) = loop[l].len /\ Appended(h) = loop[l].len + Len(ms)
      BY <1>2, <2>3, <2>5 DEF Appended
    <3>2. Len(s.request.messages) \in Nat
      BY DEF LoopRecord, RequestRecord
    <3>3. Len(h.request.messages) <= 1 + Appended(h)
      BY <3>1, <3>2, <1>3, <2>5 DEF LoopOK
    <3> QED
      BY <3>3, <2>3, <2>5 DEF LoopOK
  <2>7. ASSUME NEW i \in DOMAIN array
        PROVE  /\ array'[i] \in Messages \cup {Blank}
               /\ array[i] \in Messages => array'[i] \in Messages
               /\ i \in loop[l].len + 1 .. loop[l].len + Len(ms) => array'[i] \in Messages
    <3>1. i \in loop[l].len + 1 .. loop[l].len + Len(ms) => i - loop[l].len \in 1 .. Len(ms)
      BY <1>1, <1>3
    <3> QED
      BY <3>1, <1>1, <1>3, <2>2
  <2>8. array' \in Seq(Messages \cup {Blank}) /\ Len(array') = use.spare
    <3>1. DOMAIN array = 1 .. use.spare
      BY <1>1
    <3>2. array' \in [1 .. use.spare -> Messages \cup {Blank}]
      BY <2>2, <2>7, <3>1
    <3>3. PICK a, n : a = array' /\ n = use.spare /\ n \in Nat
      BY <1>1
    <3>4. a \in [1 .. n -> Messages \cup {Blank}]
      BY <3>2, <3>3
    <3>5. a \in Seq(Messages \cup {Blank}) /\ Len(a) = n
      BY <3>3, <3>4
    <3> QED
      BY <3>3, <3>5
  <2>9. ASSUME NEW k \in use.loops PROVE (LoopOK(loop[k]) /\ CellsOK(loop[k]))'
    <3>1. PICK r : r = loop'[k]
      OBVIOUS
    <3>2. CASE k = l
      <4>1. r = h
        BY <1>1, <2>2, <3>1, <3>2
      <4>2. LoopOK(r)'
        BY <4>1, <2>6, SameTypes
      <4>3. ASSUME NEW i \in 1 .. r.len PROVE array'[i] \in Messages
        <5>1. i \in DOMAIN array
          BY <1>1, <2>3, <2>5, <4>1
        <5>2. CASE i <= loop[l].len
          <6>1. array[i] \in Messages
            BY <5>2, <1>1, <1>3, <2>3 DEF CellsOK
          <6> QED
            BY <5>1, <6>1, <2>7
        <5>3. CASE i > loop[l].len
          BY <5>1, <5>3, <1>3, <2>5, <2>7, <4>1
        <5> QED
          BY <5>2, <5>3, <1>3
      <4>4. CellsOK(r)'
        BY <4>3, SameTypes DEF CellsOK
      <4> QED
        BY <3>1, <4>2, <4>4
    <3>3. CASE k # l
      <4>1. r = loop[k] /\ r \in LoopRecord /\ LoopOK(r) /\ CellsOK(r)
        BY <1>1, <2>2, <3>1, <3>3 DEF LType
      <4>2. LoopOK(r)'
        BY <4>1, SameTypes
      <4>3. \A i \in 1 .. r.len : i \in DOMAIN array
        <5>1. r.len \in 0 .. use.spare
          BY <4>1 DEF LoopRecord
        <5> QED
          BY <1>1, <5>1
      <4>4. CellsOK(r)'
        BY <2>7, <4>1, <4>3, SameTypes DEF CellsOK
      <4> QED
        BY <3>1, <4>2, <4>4
    <3> QED
      BY <3>2, <3>3
  <2>10. loop' \in [use.loops -> LoopRecord]
    BY <1>1, <2>2, <2>4
  <2> QED
    BY <2>8, <2>9, <2>10, SameTypes DEF LType
<1>5. CASE ~Fits(l, ms)
  <2>1. PICK own : own = Added(l) \o ms
    OBVIOUS
  <2>2. PICK h : h = Copied(s, own)
    OBVIOUS
  <2>3. UNCHANGED array /\ loop' = [loop EXCEPT ![l] = h]
    BY <1>5, <2>1, <2>2, AppendCases
  <2>4. own \in Seq(Messages) /\ Len(own) = Appended(loop[l]) + Len(ms)
    BY <2>1, AddedType
  <2>5. h \in LoopRecord
    <3>1. 0 \in 0 .. use.spare /\ own \in Seq(Messages)
      BY <1>1, <2>4
    <3> HIDE <1>1
    <3> QED
      BY <2>2, <3>1 DEF Copied, LoopRecord
  <2>6. /\ h.shared = FALSE /\ h.len = 0 /\ h.own = own
        /\ h.pc = s.pc /\ h.request = s.request /\ h.outcome = s.outcome
        /\ h.iter = s.iter /\ h.futures = s.futures /\ h.toolCalls = s.toolCalls
    BY <2>2 DEF Copied, LoopRecord
  <2>7. LoopOK(h)
    <3>1. Appended(s) = Appended(loop[l]) /\ Appended(h) = Appended(loop[l]) + Len(ms)
      BY <1>2, <2>4, <2>6 DEF Appended
    <3>2. Len(s.request.messages) \in Nat /\ Appended(loop[l]) \in Nat
      BY AddedType DEF LoopRecord, RequestRecord
    <3>3. Len(h.request.messages) <= 1 + Appended(h)
      BY <3>1, <3>2, <1>3, <2>6 DEF LoopOK
    <3> QED
      BY <3>3, <2>6 DEF LoopOK
  <2> QED
    BY <2>3, <2>5, <2>6, <2>7, SetType DEF CellsOK
<1> QED
  BY <1>4, <1>5

LEMMA ResponseType ==
    ASSUME LType, NEW calls \in Responses
    PROVE  /\ calls \in Seq(Calls(use.ids)) /\ Len(calls) > 0
           /\ Assistant(calls) \in Messages
<1>1. PICK n \in 1 .. use.maxCalls : calls \in [1 .. n -> Calls(use.ids)]
  BY DEF Responses
<1>2. n \in Nat \ {0}
  BY UseType
<1>3. calls \in Seq(Calls(use.ids)) /\ Len(calls) = n
  BY <1>1, <1>2
<1> QED
  BY <1>2, <1>3 DEF Assistant, Messages

LEMMA ToolMessagesType ==
    ASSUME LType, NEW l \in use.loops, loop[l].pc = "collect"
    PROVE  /\ ToolMessages(l) \in Seq(Messages)
           /\ Len(ToolMessages(l)) = Len(loop[l].toolCalls)
           /\ \A i \in 1 .. Len(loop[l].toolCalls) :
                ToolMessages(l)[i] = Tool(loop[l].toolCalls[i].id, loop[l].futures[i])
<1>1. loop[l] \in LoopRecord /\ LoopOK(loop[l])
  BY DEF LType
<1>2. PICK calls, futures, n :
         calls = loop[l].toolCalls /\ futures = loop[l].futures /\ n = Len(calls)
  OBVIOUS
<1>3. /\ calls \in Seq(Calls(use.ids)) /\ futures \in Seq(Contents)
      /\ Len(futures) = n /\ n \in Nat
  BY <1>1, <1>2 DEF LoopRecord, LoopOK
<1>4. \A i \in 1 .. n : calls[i].id \in use.ids /\ futures[i] \in Contents
  <2> TAKE i \in 1 .. n
  <2>1. calls[i] \in Calls(use.ids) /\ futures[i] \in Contents
    BY <1>2, <1>3
  <2> QED
    BY <2>1 DEF Calls
<1>5. \A i \in 1 .. n : Tool(calls[i].id, futures[i]) \in Messages
  BY <1>4 DEF Tool, Messages
<1>6. PICK ms : ms = [i \in 1 .. n |-> Tool(calls[i].id, futures[i])]
  OBVIOUS
<1>7. ms \in [1 .. n -> Messages]
  BY <1>5, <1>6
<1>8. ms \in Seq(Messages) /\ Len(ms) = n
  BY <1>3, <1>7
<1>9. DOMAIN calls = 1 .. n
  BY <1>2, <1>3
<1>10. ToolMessages(l) = ms
  BY <1>2, <1>6, <1>9 DEF ToolMessages
<1> QED
  BY <1>2, <1>6, <1>8, <1>10

LEMMA LLMCallsTypes ==
    ASSUME LType, NEW l \in use.loops, UNCHANGED <<use, original>>,
           NEW calls \in Responses, LLMCalls(l, calls)
    PROVE  LType'
<1> DEFINE fields == [pc |-> "calls", toolCalls |-> calls, futures |-> <<>>]
<1>1. loop[l] \in LoopRecord /\ LoopOK(loop[l]) /\ loop[l].pc = "llm"
  BY DEF LType, LLMCalls, At
<1>2. PICK s : s = Merge(loop[l], fields)
  OBVIOUS
<1>3. calls \in Seq(Calls(use.ids)) /\ Len(calls) > 0 /\ <<Assistant(calls)>> \in Seq(Messages)
  BY ResponseType
<1>4. <<>> \in Seq(Contents) /\ Len(<<>>) = 0
  OBVIOUS
<1>5. s \in LoopRecord
  BY <1>1, <1>2, <1>3, <1>4 DEF Merge, LoopRecord, Pcs
<1>6. /\ s.pc = "calls" /\ s.toolCalls = calls /\ s.futures = <<>>
      /\ s.shared = loop[l].shared /\ s.len = loop[l].len /\ s.own = loop[l].own
      /\ s.iter = loop[l].iter /\ s.outcome = loop[l].outcome /\ s.request = loop[l].request
  BY <1>1, <1>2 DEF Merge, LoopRecord
<1>7. LoopOK(s)
  <2>1. Len(calls) \in Nat
    BY <1>3
  <2> QED
    BY <2>1, <1>1, <1>3, <1>4, <1>6 DEF LoopOK, Appended
<1>8. OtherFields(fields)
  BY DEF OtherFields
<1>9. AppendAnd(l, <<Assistant(calls)>>, fields)
  BY DEF LLMCalls
<1> QED
  BY <1>2, <1>3, <1>5, <1>7, <1>8, <1>9, AppendTypes

LEMMA CollectTypes ==
    ASSUME LType, NEW l \in use.loops, UNCHANGED <<use, original>>, Collect(l)
    PROVE  LType'
<1> DEFINE fields == [pc |-> "loop", called |-> TRUE, iter |-> loop[l].iter + 1]
<1>1. loop[l] \in LoopRecord /\ LoopOK(loop[l]) /\ loop[l].pc = "collect"
  BY DEF LType, Collect, At
<1>2. PICK s : s = Merge(loop[l], fields)
  OBVIOUS
<1>3. loop[l].iter + 1 \in 0 .. MaxIterations
  BY <1>1, IterationsAssumption DEF LoopRecord, LoopOK
<1>4. s \in LoopRecord
  BY <1>1, <1>2, <1>3 DEF Merge, LoopRecord, Pcs
<1>5. /\ s.pc = "loop" /\ s.toolCalls = loop[l].toolCalls /\ s.futures = loop[l].futures
      /\ s.shared = loop[l].shared /\ s.len = loop[l].len /\ s.own = loop[l].own
      /\ s.outcome = loop[l].outcome /\ s.request = loop[l].request
  BY <1>1, <1>2 DEF Merge, LoopRecord
<1>6. LoopOK(s)
  BY <1>1, <1>5 DEF LoopOK, Appended
<1>7. OtherFields(fields)
  BY DEF OtherFields
<1>8. AppendAnd(l, ToolMessages(l), fields)
  BY DEF Collect
<1> QED
  BY <1>1, <1>2, <1>4, <1>6, <1>7, <1>8, ToolMessagesType, AppendTypes

LEMMA InitTypes == Init => LType
<1> SUFFICES ASSUME Init PROVE LType
  OBVIOUS
<1>1. use \in Uses /\ original \in use.requests /\ use.spare \in Nat
  BY UsesAssumption DEF Init
<1>2. array \in Seq(Messages \cup {Blank}) /\ Len(array) = use.spare
  BY <1>1 DEF Init
<1>3. NoRequest \in RequestRecord /\ Len(NoRequest.messages) = 0
  BY DEF NoRequest, RequestRecord, AllChoices
<1>4. PICK s : s = [pc |-> "list", mcpTools |-> FALSE, iter |-> 0,
                    shared |-> TRUE, len |-> 0, own |-> <<>>, called |-> FALSE,
                    request |-> NoRequest, toolCalls |-> <<>>, futures |-> <<>>,
                    invoked |-> <<>>, outcome |-> "none"]
  OBVIOUS
<1>5. s \in LoopRecord
  <2>1. 0 \in 0 .. use.spare /\ 0 \in 0 .. MaxIterations
    BY <1>1, IterationsAssumption
  <2> QED
    BY <1>3, <1>4, <2>1 DEF LoopRecord, Pcs
<1>6. LoopOK(s) /\ CellsOK(s)
  BY <1>3, <1>4 DEF LoopOK, CellsOK, Appended
<1>7. loop = [l \in use.loops |-> s]
  BY <1>4 DEF Init
<1> QED
  BY <1>1, <1>2, <1>5, <1>6, <1>7 DEF LType

LEMMA StepTypes ==
    ASSUME LType, NEW l \in use.loops, UNCHANGED <<use, original>>, Step(l)
    PROVE  LType'
<1>1. CASE ListToolsFails(l)
  BY <1>1, ReturnType DEF ListToolsFails, At, InRound
<1>2. CASE ListToolsReturns(l)
  BY <1>2, ListToolsTypes
<1>3. CASE AskLLM(l)
  BY <1>3, AskTypes
<1>4. CASE GiveUp(l)
  BY <1>4, ReturnType DEF GiveUp, At, InRound
<1>5. CASE LLMFails(l)
  BY <1>5, ReturnType DEF LLMFails, At, InRound
<1>6. CASE LLMAnswers(l)
  BY <1>6, ReturnType DEF LLMAnswers, At, InRound
<1>7. CASE \E calls \in Responses : LLMCalls(l, calls)
  BY <1>7, LLMCallsTypes
<1>8. CASE RefuseCall(l) \/ CallTool(l) \/ RefuseArguments(l) \/ CallToolFails(l)
  BY <1>8, CallTypes
<1>9. CASE Collect(l)
  BY <1>9, CollectTypes
<1> QED
  BY <1>1, <1>2, <1>3, <1>4, <1>5, <1>6, <1>7, <1>8, <1>9 DEF Step

LEMMA StutterTypes == ASSUME LType, UNCHANGED vars PROVE LType'
<1>1. ASSUME NEW l \in use.loops PROVE (LoopOK(loop[l]) /\ CellsOK(loop[l]))'
  <2>1. PICK s : s = loop[l] /\ LoopOK(s) /\ CellsOK(s)
    BY DEF LType
  <2>2. LoopOK(s)' /\ CellsOK(s)'
    BY <2>1, SameTypes DEF vars, CellsOK
  <2> QED
    BY <2>1, <2>2 DEF vars
<1> QED
  BY <1>1, SameTypes DEF LType, vars

\* Every variable has its type, each loop's fields agree with where the loop is,
\* and what it appended to the caller's array are messages.
THEOREM LTypeInvariant == Spec => []LType
<1>1. Init => LType
  BY InitTypes
<1>2. LType /\ [Next]_vars => LType'
  BY StepTypes, StutterTypes DEF Next, Terminated, vars
<1> QED
  BY <1>1, <1>2, PTL DEF Spec

\* The type invariant the runs check: the loop stays within its rounds, never
\* holds more results than calls, and has an outcome exactly when it is over.
THEOREM TypeCorrect == Spec => []TypeOK
<1>1. LType => TypeOK
  <2> SUFFICES ASSUME LType PROVE TypeOK
    OBVIOUS
  <2>1. \A i \in DOMAIN array : array[i] \in Messages \cup {Blank}
    BY DEF LType
  <2>2. ASSUME NEW l \in use.loops
        PROVE  LET s == loop[l]
               IN  /\ s.pc \in {"list", "loop", "llm", "calls", "collect", "returned"}
                   /\ s.mcpTools \in BOOLEAN /\ s.called \in BOOLEAN
                   /\ s.iter \in 0..MaxIterations
                   /\ s.shared \in BOOLEAN /\ s.len \in 0..use.spare
                   /\ \A i \in DOMAIN currentMessages(l) : currentMessages(l)[i] \in Messages
                   /\ Len(s.request.messages) <= Len(currentMessages(l))
                   /\ s.request.choice \in AllChoices /\ s.request.tools \in BOOLEAN
                   /\ Len(s.futures) <= Len(s.toolCalls)
                   /\ s.outcome \in {"none", "answer", "error"}
                   /\ s.outcome # "none" <=> s.pc = "returned"
    <3>1. loop[l] \in LoopRecord /\ LoopOK(loop[l])
      BY DEF LType
    <3>2. PICK msgs : msgs = currentMessages(l)
      OBVIOUS
    <3>3. msgs \in Seq(Messages) /\ Len(msgs) = 1 + Appended(loop[l])
      BY <3>2, CurType
    <3>4. \A i \in DOMAIN msgs : msgs[i] \in Messages
      BY <3>3
    <3> QED
      BY <3>1, <3>2, <3>3, <3>4 DEF LoopRecord, RequestRecord, LoopOK, Pcs
  <2> QED
    BY <2>1, <2>2 DEF LType, TypeOK
<1> QED
  BY <1>1, LTypeInvariant, PTL

------------------------------------------------------------------------------
(* The conversation, of loops that do not write into one array.              *)

Separate == \A u \in Uses : u.spare = 0 \/ \A k, l \in u.loops : k = l

\* The first n messages, by themselves a conversation the chat API accepts.
Upto(msgs, n) ==
    /\ \A i \in 1 .. n : msgs[i].role = "assistant" =>
         /\ i + Len(msgs[i].calls) <= n
         /\ \A j \in 1 .. Len(msgs[i].calls) :
              msgs[i + j].role = "tool" /\ msgs[i + j].id = msgs[i].calls[j].id
    /\ \A i \in 1 .. n : msgs[i].role = "tool" =>
         \E k \in 1 .. (i - 1) : msgs[k].role = "assistant" /\ i - k <= Len(msgs[k].calls)

HasToolMessage(msgs) == \E i \in DOMAIN msgs : msgs[i].role = "tool"

Busy(s) == s.pc \in {"calls", "collect"}

\* Between rounds a loop's conversation is accepted as it is; in a round it is but for
\* its last message, whose tool calls are being answered. It has an assistant's
\* message for every round and results once tools were called.
Talk(s, msgs) ==
    /\ IF Busy(s) THEN /\ Len(msgs) > 1 /\ msgs[Len(msgs)] = Assistant(s.toolCalls)
                       /\ Upto(msgs, Len(msgs) - 1)
                  ELSE Upto(msgs, Len(msgs))
    /\ Upto(s.request.messages, Len(s.request.messages))
    /\ HasToolMessage(msgs) <=> s.called
    /\ Rounds(msgs) = IF Busy(s) THEN s.iter + 1 ELSE s.iter
    /\ s.pc = "llm" => s.request.messages = msgs

\* A tool was called in an earlier round, or in this one for a call that has its future.
Past(s, call) ==
    \/ call[1] < s.iter
    \/ Busy(s) /\ call[1] = s.iter /\ call[2] <= Len(s.futures)
InvokedOK(s) ==
    /\ \A i \in DOMAIN s.invoked : Past(s, s.invoked[i])
    /\ \A i, j \in DOMAIN s.invoked : s.invoked[i] = s.invoked[j] => i = j

ChoiceOK(req) ==
    /\ req.choice # "nil" => req.tools
    /\ HasToolMessage(req.messages) => req.choice = "nil"
    /\ (original.choice \in Specific /\ req.tools /\ ~HasToolMessage(req.messages))
         => req.choice = original.choice

TalkInv ==
    \A l \in use.loops : /\ Talk(loop[l], currentMessages(l))
                         /\ InvokedOK(loop[l]) /\ ChoiceOK(loop[l].request)

LEMMA MessageFacts ==
    ASSUME LType
    PROVE  /\ \A m \in Messages : m.role = "assistant" =>
                m.calls \in Seq(Calls(use.ids)) /\ Len(m.calls) \in Nat
           /\ \A calls : Assistant(calls).role = "assistant" /\ Assistant(calls).calls = calls
           /\ \A id, words : Tool(id, words).role = "tool" /\ Tool(id, words).id = id
<1>1. ASSUME NEW m \in Messages, m.role = "assistant"
      PROVE  m.calls \in Seq(Calls(use.ids)) /\ Len(m.calls) \in Nat
  <2>1. m \in [role : {"assistant"}, calls : Responses]
    BY <1>1 DEF Messages, User
  <2>2. m.calls \in Responses
    BY <2>1
  <2>3. m.calls \in Seq(Calls(use.ids))
    BY <2>2, ResponseType
  <2> QED
    BY <2>3
<1> QED
  BY <1>1 DEF Assistant, Tool

LEMMA UptoExtends ==
    ASSUME LType, NEW a \in Seq(Messages), NEW b, NEW n \in Nat, n <= Len(a),
           \A i \in 1 .. n : a[i] = b[i], Upto(a, n)
    PROVE  Upto(b, n)
<1>1. ASSUME NEW i \in 1 .. n, b[i].role = "assistant"
      PROVE  /\ i + Len(b[i].calls) <= n
             /\ \A j \in 1 .. Len(b[i].calls) :
                  b[i + j].role = "tool" /\ b[i + j].id = b[i].calls[j].id
  <2>1. a[i] \in Messages /\ a[i] = b[i]
    OBVIOUS
  <2>2. PICK calls : calls = a[i].calls
    OBVIOUS
  <2>3. Len(calls) \in Nat
    BY <1>1, <2>1, <2>2, MessageFacts
  <2>4. /\ i + Len(calls) <= n
        /\ \A j \in 1 .. Len(calls) : a[i + j].role = "tool" /\ a[i + j].id = calls[j].id
    BY <1>1, <2>1, <2>2 DEF Upto
  <2>5. \A j \in 1 .. Len(calls) : a[i + j] = b[i + j]
    BY <2>3, <2>4
  <2> QED
    BY <2>1, <2>2, <2>4, <2>5
<1>2. ASSUME NEW i \in 1 .. n, b[i].role = "tool"
      PROVE  \E k \in 1 .. (i - 1) : b[k].role = "assistant" /\ i - k <= Len(b[k].calls)
  <2>1. PICK k \in 1 .. (i - 1) : a[k].role = "assistant" /\ i - k <= Len(a[k].calls)
    BY <1>2 DEF Upto
  <2>2. a[k] = b[k]
    OBVIOUS
  <2> QED
    BY <2>1, <2>2
<1> QED
  BY <1>1, <1>2 DEF Upto

\* Positions of the assistant's messages.
Spoken(msgs) == {i \in DOMAIN msgs : msgs[i].role = "assistant"}

LEMMA SpokenFinite ==
    ASSUME LType, NEW a \in Seq(Messages)
    PROVE  IsFiniteSet(Spoken(a)) /\ Rounds(a) = Cardinality(Spoken(a)) /\ Rounds(a) \in Nat
<1>1. Spoken(a) \subseteq 1 .. Len(a)
  BY DEF Spoken
<1>2. IsFiniteSet(Spoken(a))
  BY <1>1, FS_Interval, FS_Subset
<1> QED
  BY <1>2, FS_CardinalityType DEF Rounds, Spoken

\* The LLM's message with tool calls comes last in an accepted conversation.
LEMMA Asked ==
    ASSUME LType, NEW a \in Seq(Messages), Upto(a, Len(a)), NEW calls \in Responses,
           NEW b, b = a \o <<Assistant(calls)>>
    PROVE  /\ Len(b) = Len(a) + 1 /\ b[Len(b)] = Assistant(calls)
           /\ Upto(b, Len(b) - 1)
           /\ Rounds(b) = Rounds(a) + 1
           /\ HasToolMessage(b) <=> HasToolMessage(a)
<1>1. PICK n, m : n = Len(a) /\ m = Assistant(calls)
  OBVIOUS
<1>2. m \in Messages /\ m.role = "assistant" /\ n \in Nat
  BY <1>1, ResponseType, MessageFacts
<1>3. /\ b \in Seq(Messages) /\ Len(b) = n + 1 /\ b[n + 1] = m
      /\ \A i \in 1 .. n : b[i] = a[i]
  BY <1>1, <1>2
<1>4. Upto(b, n)
  <2>1. n <= Len(a) /\ Upto(a, n) /\ \A i \in 1 .. n : a[i] = b[i]
    BY <1>1, <1>2, <1>3
  <2> HIDE <1>1, <1>3
  <2> QED
    BY <1>2, <2>1, UptoExtends
<1>5. Spoken(b) = Spoken(a) \cup {n + 1}
  BY <1>1, <1>2, <1>3 DEF Spoken
<1>6. n + 1 \notin Spoken(a)
  BY <1>1, <1>2 DEF Spoken
<1>7. Rounds(b) = Rounds(a) + 1
  <2>1. IsFiniteSet(Spoken(a)) /\ Rounds(a) = Cardinality(Spoken(a))
    BY SpokenFinite
  <2>2. Rounds(b) = Cardinality(Spoken(b))
    BY <1>3, SpokenFinite
  <2>3. Cardinality(Spoken(a) \cup {n + 1}) = Cardinality(Spoken(a)) + 1
    BY <1>6, <2>1, FS_AddElement
  <2> QED
    BY <1>5, <2>1, <2>2, <2>3
<1>8. HasToolMessage(b) <=> HasToolMessage(a)
  BY <1>1, <1>2, <1>3 DEF HasToolMessage
<1> QED
  BY <1>1, <1>2, <1>3, <1>4, <1>7, <1>8

\* A tool message for each call, in their order, makes it accepted again.
LEMMA Told ==
    ASSUME LType, NEW a \in Seq(Messages), NEW calls \in Responses,
           Len(a) > 1, a[Len(a)] = Assistant(calls), Upto(a, Len(a) - 1),
           NEW ms \in Seq(Messages), Len(ms) = Len(calls),
           \A i \in 1 .. Len(calls) : ms[i].role = "tool" /\ ms[i].id = calls[i].id,
           NEW b, b = a \o ms
    PROVE  /\ Upto(b, Len(b)) /\ Rounds(b) = Rounds(a) /\ HasToolMessage(b)
<1>1. PICK n, c : n = Len(a) /\ c = Len(calls)
  OBVIOUS
<1>2. n \in Nat /\ c \in Nat /\ n > 1 /\ c > 0
  BY <1>1, ResponseType
<1>3. /\ b \in Seq(Messages) /\ Len(b) = n + c
      /\ \A i \in 1 .. n : b[i] = a[i]
      /\ \A j \in 1 .. c : b[n + j] = ms[j]
  <2>1. \A i \in 1 .. n + c : b[i] = IF i <= n THEN a[i] ELSE ms[i - n]
    BY <1>1, ConcatProperties
  <2>2. \A j \in 1 .. c : n + j \in 1 .. n + c /\ ~(n + j <= n) /\ (n + j) - n = j
    BY <1>2
  <2>3. \A i \in 1 .. n : i \in 1 .. n + c /\ i <= n
    BY <1>2
  <2>4. b \in Seq(Messages) /\ Len(b) = n + c
    <3>1. a \o ms \in Seq(Messages) /\ Len(a \o ms) = Len(a) + Len(ms)
      BY ConcatProperties
    <3> QED
      BY <1>1, <3>1
  <2>5. \A j \in 1 .. c : b[n + j] = ms[j]
    BY <2>1, <2>2
  <2>6. \A i \in 1 .. n : b[i] = a[i]
    BY <2>1, <2>3
  <2> QED
    BY <2>4, <2>5, <2>6
<1>4. /\ b[n].role = "assistant" /\ b[n].calls = calls
      /\ \A j \in 1 .. c : b[n + j].role = "tool" /\ b[n + j].id = calls[j].id
  <2>1. n \in 1 .. n /\ b[n] = Assistant(calls)
    BY <1>1, <1>2, <1>3
  <2>2. ASSUME NEW j \in 1 .. c PROVE b[n + j].role = "tool" /\ b[n + j].id = calls[j].id
    <3>1. b[n + j] = ms[j]
      BY <1>3
    <3> QED
      BY <1>1, <3>1
  <2>3. b[n].role = "assistant" /\ b[n].calls = calls
    BY <2>1, MessageFacts
  <2> QED
    BY <2>2, <2>3
<1>5. Upto(b, n - 1)
  <2>1. n - 1 \in Nat /\ n - 1 <= Len(a) /\ \A i \in 1 .. (n - 1) : a[i] = b[i]
    BY <1>1, <1>2, <1>3
  <2> QED
    BY <1>1, <2>1, UptoExtends
<1>6. ASSUME NEW i \in 1 .. n + c
      PROVE  i \in 1 .. (n - 1) \/ i = n \/ \E j \in 1 .. c : i = n + j
  <2>1. i > n => i - n \in 1 .. c /\ i = n + (i - n)
    BY <1>2
  <2> QED
    BY <1>2, <2>1
<1>7. ASSUME NEW i \in 1 .. n + c, b[i].role = "assistant"
      PROVE  /\ i + Len(b[i].calls) <= n + c
             /\ \A j \in 1 .. Len(b[i].calls) :
                  b[i + j].role = "tool" /\ b[i + j].id = b[i].calls[j].id
  <2>1. CASE i = n
    BY <1>1, <1>4, <2>1, <1>2
  <2>2. CASE i \in 1 .. (n - 1)
    <3>1. b[i] \in Messages
      BY <1>3
    <3>2. Len(b[i].calls) \in Nat
      BY <1>7, <3>1, MessageFacts
    <3>3. /\ i + Len(b[i].calls) <= n - 1
          /\ \A j \in 1 .. Len(b[i].calls) :
                  b[i + j].role = "tool" /\ b[i + j].id = b[i].calls[j].id
      BY <1>5, <1>7, <2>2 DEF Upto
    <3>4. PICK k : k = Len(b[i].calls)
      OBVIOUS
    <3>5. k \in Nat /\ i + k <= n - 1 => i + k <= n + c
      BY <1>2
    <3> QED
      BY <3>2, <3>3, <3>4, <3>5
  <2> QED
    BY <1>4, <1>6, <1>7, <2>1, <2>2
<1>8. ASSUME NEW i \in 1 .. n + c, b[i].role = "tool"
      PROVE  \E k \in 1 .. (i - 1) : b[k].role = "assistant" /\ i - k <= Len(b[k].calls)
  <2>1. CASE i \in 1 .. (n - 1)
    BY <1>5, <1>8, <2>1 DEF Upto
  <2>2. CASE \E j \in 1 .. c : i = n + j
    <3>1. n \in 1 .. (i - 1) /\ i - n <= c
      BY <1>2, <2>2
    <3> QED
      BY <1>1, <1>4, <3>1
  <2> QED
    BY <1>4, <1>6, <1>8, <2>1, <2>2
<1>9. Spoken(b) = Spoken(a)
  <2>1. DOMAIN a = 1 .. n /\ DOMAIN b = 1 .. n + c
    BY <1>1, <1>3
  <2>2. \A i \in 1 .. n + c : b[i].role = "assistant" => i \in 1 .. n
    <3> SUFFICES ASSUME NEW i \in 1 .. n + c, b[i].role = "assistant" PROVE i \in 1 .. n
      OBVIOUS
    <3>1. ~ \E j \in 1 .. c : i = n + j
      BY <1>4
    <3> QED
      BY <1>2, <1>6, <3>1
  <2> QED
    BY <1>2, <1>3, <2>1, <2>2 DEF Spoken
<1>10. Rounds(b) = Rounds(a)
  BY <1>3, <1>9, SpokenFinite
<1>11. HasToolMessage(b)
  <2>1. n + 1 \in DOMAIN b /\ b[n + 1].role = "tool"
    BY <1>2, <1>3, <1>4
  <2> QED
    BY <2>1 DEF HasToolMessage
<1> QED
  <2>1. Upto(b, n + c)
    BY <1>7, <1>8 DEF Upto
  <2> QED
    BY <1>3, <1>10, <1>11, <2>1

\* AppendAnd appends to the conversation of its loop, and to no other's, if the
\* loops do not share an array with room in it.
LEMMA Appends ==
    ASSUME LType, Separate, NEW l \in use.loops, UNCHANGED <<use, original>>,
           NEW fields, OtherFields(fields), NEW ms \in Seq(Messages), Len(ms) > 0,
           AppendAnd(l, ms, fields), NEW s \in LoopRecord, s = Merge(loop[l], fields)
    PROVE  /\ currentMessages(l)' = currentMessages(l) \o ms
           /\ \A k \in use.loops \ {l} : /\ loop'[k] = loop[k]
                                         /\ currentMessages(k)' = currentMessages(k)
           /\ \E n, own : loop'[l] \in {[s EXCEPT !.len = n], Copied(s, own)}
<1>1. /\ loop[l] \in LoopRecord /\ loop \in [use.loops -> LoopRecord]
      /\ array \in Seq(Messages \cup {Blank}) /\ Len(array) = use.spare /\ use.spare \in Nat
      /\ use \in Uses
  BY UseType DEF LType
<1>2. PICK a, n, m : a = Added(l) /\ n = loop[l].len /\ m = Len(ms)
  OBVIOUS
<1>3. /\ a \in Seq(Messages) /\ currentMessages(l) = <<User>> \o a
      /\ User \in Messages /\ n \in Nat /\ m \in Nat /\ m > 0
      /\ <<User>> \o (a \o ms) = (<<User>> \o a) \o ms
  <2>1. n \in Nat
    BY <1>1, <1>2 DEF LoopRecord
  <2>2. a \in Seq(Messages) /\ currentMessages(l) = <<User>> \o a /\ <<User>> \in Seq(Messages)
    BY <1>2, AddedType DEF Messages
  <2>3. <<User>> \o (a \o ms) = (<<User>> \o a) \o ms
    BY <2>2, ConcatAssociative
  <2> QED
    BY <1>2, <2>1, <2>2, <2>3 DEF Messages
<1>4. CASE Fits(l, ms)
  <2>1. PICK h : h = [s EXCEPT !.len = n + m]
    OBVIOUS
  <2>2. array' = [i \in DOMAIN array |->
                    IF i \in n + 1 .. n + m THEN ms[i - n] ELSE array[i]]
        /\ loop' = [loop EXCEPT ![l] = h]
    BY <1>2, <1>4, <2>1, AppendCases
  <2>3. n + m <= use.spare /\ loop[l].shared
    BY <1>1, <1>2, <1>4 DEF Fits
  <2>4. use.spare # 0
    BY <1>1, <1>3, <2>3
  <2>5. \A k \in use.loops : k = l
    BY <1>1, <2>4 DEF Separate
  <2>6. loop'[l] = h
    BY <1>1, <2>2
  <2>7. h.shared /\ h.len = n + m
    BY <2>1, <2>3, SliceKept DEF LoopRecord
  <2>8. a = SubSeq(array, 1, n) /\ Len(a) = n
    BY <1>2, <2>3, AddedType DEF Added, Appended
  <2>9. PICK cells : cells = array'
    OBVIOUS
  <2>10. \A i \in 1 .. n + m : cells[i] = IF i <= n THEN a[i] ELSE ms[i - n]
    <3> SUFFICES ASSUME NEW i \in 1 .. n + m
                 PROVE  cells[i] = IF i <= n THEN a[i] ELSE ms[i - n]
      OBVIOUS
    <3>1. i \in DOMAIN array
      BY <1>1, <1>3, <2>3
    <3>2. cells[i] = IF i \in n + 1 .. n + m THEN ms[i - n] ELSE array[i]
      BY <2>2, <2>9, <3>1
    <3>3. CASE i <= n
      <4>1. \A j \in 1 .. n : array[j] \in Messages
        BY <1>2, <2>3 DEF LType, CellsOK
      <4>2. a[i] = array[i]
        BY <1>3, <2>8, <3>3, <4>1, SubSeqProperties
      <4> QED
        BY <1>3, <3>2, <3>3, <4>2
    <3>4. CASE i > n
      BY <1>3, <3>2, <3>4
    <3> QED
      BY <1>3, <3>3, <3>4
  <2>11. /\ a \o ms \in Seq(Messages) /\ Len(a \o ms) = n + m
         /\ \A i \in 1 .. n + m : (a \o ms)[i] = cells[i]
    <3>1. /\ a \o ms \in Seq(Messages) /\ Len(a \o ms) = Len(a) + Len(ms)
          /\ \A i \in 1 .. Len(a) + Len(ms) :
               (a \o ms)[i] = IF i <= Len(a) THEN a[i] ELSE ms[i - Len(a)]
      BY <1>3, ConcatProperties
    <3> QED
      BY <1>2, <2>8, <2>10, <3>1
  <2>12. SubSeq(cells, 1, n + m) = a \o ms
    <3>1. \A i \in 1 .. n + m : cells[i] \in Messages
      BY <2>11
    <3>2. /\ SubSeq(cells, 1, n + m) \in Seq(Messages) /\ Len(SubSeq(cells, 1, n + m)) = n + m
          /\ \A i \in 1 .. n + m : SubSeq(cells, 1, n + m)[i] = cells[i]
      BY <1>3, <3>1, SubSeqProperties
    <3> QED
      BY <2>11, <3>2
  <2>13. currentMessages(l)' = <<User>> \o (a \o ms)
    BY <2>6, <2>7, <2>9, <2>12 DEF currentMessages
  <2> QED
    BY <1>3, <2>1, <2>5, <2>6, <2>13
<1>5. CASE ~Fits(l, ms)
  <2>1. PICK own : own = a \o ms
    OBVIOUS
  <2>2. PICK h : h = Copied(s, own)
    OBVIOUS
  <2>3. UNCHANGED array /\ loop' = [loop EXCEPT ![l] = h]
    BY <1>2, <1>5, <2>1, <2>2, AppendCases
  <2>4. loop'[l] = h /\ \A k \in use.loops \ {l} : loop'[k] = loop[k]
    BY <1>1, <2>3
  <2>5. h.shared = FALSE /\ h.own = own
    BY <2>2 DEF Copied, LoopRecord
  <2>6. currentMessages(l)' = <<User>> \o (a \o ms)
    BY <2>1, <2>4, <2>5 DEF currentMessages
  <2>7. \A k \in use.loops \ {l} : currentMessages(k)' = currentMessages(k)
    <3> SUFFICES ASSUME NEW k \in use.loops \ {l}
                 PROVE  currentMessages(k)' = currentMessages(k)
      OBVIOUS
    <3>1. loop'[k] = loop[k] /\ array' = array
      BY <2>3, <2>4
    <3> QED
      BY <3>1 DEF currentMessages
  <2> QED
    BY <1>3, <2>2, <2>4, <2>6, <2>7
<1> QED
  BY <1>4, <1>5

\* A step that appends nothing.
LEMMA KeepTalk ==
    ASSUME LType, TalkInv, NEW l \in use.loops, UNCHANGED <<use, original, array>>,
           NEW h \in LoopRecord, loop' = [loop EXCEPT ![l] = h],
           h.shared = loop[l].shared, h.len = loop[l].len, h.own = loop[l].own,
           Talk(h, currentMessages(l)), InvokedOK(h), ChoiceOK(h.request)
    PROVE  TalkInv'
<1>1. \A k \in use.loops : loop'[k] = IF k = l THEN h ELSE loop[k]
  BY DEF LType
<1>2. \A k \in use.loops : currentMessages(k)' = currentMessages(k)
  <2> SUFFICES ASSUME NEW k \in use.loops PROVE currentMessages(k)' = currentMessages(k)
    OBVIOUS
  <2>1. /\ loop'[k].shared = loop[k].shared /\ loop'[k].len = loop[k].len
        /\ loop'[k].own = loop[k].own /\ array' = array
    <3>1. CASE k = l
      BY <1>1, <3>1
    <3>2. CASE k # l
      BY <1>1, <3>2
    <3> QED
      BY <3>1, <3>2
  <2>2. loop[k].shared \in BOOLEAN
    BY DEF LType, LoopRecord
  <2>3. /\ loop[k].shared <=> loop'[k].shared
        /\ loop'[k].own = loop[k].own /\ SubSeq(array', 1, loop'[k].len) = SubSeq(array, 1, loop[k].len)
    BY <2>1, <2>2
  <2> QED
    BY <2>3 DEF currentMessages
<1>3. \A req : ChoiceOK(req)' <=> ChoiceOK(req)
  BY DEF ChoiceOK
<1>4. ASSUME NEW k \in use.loops
      PROVE  (Talk(loop[k], currentMessages(k)) /\ InvokedOK(loop[k]) /\ ChoiceOK(loop[k].request))'
  <2>1. PICK r, msgs : r = loop'[k] /\ msgs = currentMessages(k)'
    OBVIOUS
  <2>2. Talk(r, msgs) /\ InvokedOK(r) /\ ChoiceOK(r.request)
    BY <1>1, <1>2, <2>1 DEF TalkInv
  <2>3. ChoiceOK(r.request)'
    BY <1>3, <2>2
  <2> QED
    BY <2>1, <2>2, <2>3
<1> QED
  BY <1>4 DEF TalkInv

\* What is said of a loop does not depend on where its messages are.
LEMMA SliceIrrelevant ==
    ASSUME NEW s, NEW h, NEW msgs, Talk(s, msgs), InvokedOK(s),
           h.pc = s.pc, h.request = s.request, h.toolCalls = s.toolCalls,
           h.called = s.called, h.iter = s.iter, h.invoked = s.invoked,
           h.futures = s.futures
    PROVE  Talk(h, msgs) /\ InvokedOK(h)
BY DEF Talk, Busy, InvokedOK, Past

\* A step that appends.
LEMMA AppendTalk ==
    ASSUME LType, Separate, TalkInv, NEW l \in use.loops, UNCHANGED <<use, original>>,
           NEW fields, OtherFields(fields), NEW ms \in Seq(Messages), Len(ms) > 0,
           AppendAnd(l, ms, fields), NEW s \in LoopRecord, s = Merge(loop[l], fields),
           Talk(s, currentMessages(l) \o ms), InvokedOK(s), ChoiceOK(s.request)
    PROVE  TalkInv'
<1>1. /\ currentMessages(l)' = currentMessages(l) \o ms
      /\ \A k \in use.loops \ {l} : /\ loop'[k] = loop[k]
                                    /\ currentMessages(k)' = currentMessages(k)
  BY Appends
<1>2. PICK n, own : loop'[l] \in {[s EXCEPT !.len = n], Copied(s, own)}
  BY Appends
<1>3. \A req : ChoiceOK(req)' <=> ChoiceOK(req)
  BY DEF ChoiceOK
<1>4. ASSUME NEW k \in use.loops
      PROVE  (Talk(loop[k], currentMessages(k)) /\ InvokedOK(loop[k]) /\ ChoiceOK(loop[k].request))'
  <2>1. PICK r, msgs : r = loop'[k] /\ msgs = currentMessages(k)'
    OBVIOUS
  <2>2. CASE k = l
    <3>1. Talk(s, msgs)
      BY <1>1, <2>1, <2>2
    <3>2. r = [s EXCEPT !.len = n] \/ r = Copied(s, own)
      BY <1>2, <2>1, <2>2
    <3>3. /\ r.pc = s.pc /\ r.request = s.request /\ r.toolCalls = s.toolCalls
          /\ r.called = s.called /\ r.iter = s.iter /\ r.invoked = s.invoked
          /\ r.futures = s.futures
      BY <3>2 DEF LoopRecord, Copied
    <3>4. Talk(r, msgs) /\ InvokedOK(r) /\ ChoiceOK(r.request)
      BY <3>1, <3>3, SliceIrrelevant
    <3> QED
      BY <1>3, <2>1, <3>4
  <2>3. CASE k # l
    <3>1. Talk(r, msgs) /\ InvokedOK(r) /\ ChoiceOK(r.request)
      BY <1>1, <2>1, <2>3 DEF TalkInv
    <3> QED
      BY <1>3, <2>1, <3>1
  <2> QED
    BY <2>2, <2>3
<1> QED
  BY <1>4 DEF TalkInv

\* A step between rounds that the conversation has no part in.
LEMMA PlainTalk ==
    ASSUME LType, TalkInv, NEW l \in use.loops, UNCHANGED <<use, original, array>>,
           ~Busy(loop[l]), NEW h \in LoopRecord, loop' = [loop EXCEPT ![l] = h],
           ~Busy(h), h.pc # "llm",
           h.shared = loop[l].shared, h.len = loop[l].len, h.own = loop[l].own,
           h.called = loop[l].called, h.iter = loop[l].iter, h.request = loop[l].request,
           h.invoked = loop[l].invoked
    PROVE  TalkInv'
<1>1. PICK s, msgs : s = loop[l] /\ msgs = currentMessages(l)
  OBVIOUS
<1>2. Talk(s, msgs) /\ InvokedOK(s) /\ ChoiceOK(s.request)
  BY <1>1 DEF TalkInv
<1>3. Talk(h, msgs)
  BY <1>1, <1>2 DEF Talk
<1>4. InvokedOK(h)
  BY <1>1, <1>2 DEF InvokedOK, Past
<1>5. ChoiceOK(h.request)
  BY <1>1, <1>2
<1> QED
  BY <1>1, <1>3, <1>4, <1>5, KeepTalk

LEMMA ReturnTalk ==
    ASSUME LType, TalkInv, NEW l \in use.loops, UNCHANGED <<use, original>>, ~Busy(loop[l]),
           NEW result \in {"answer", "error"}, Return(l, result)
    PROVE  TalkInv'
<1> DEFINE fields == [pc |-> "returned", outcome |-> result]
<1>1. loop[l] \in LoopRecord
  BY DEF LType
<1>2. PICK h : h = Merge(loop[l], fields)
  OBVIOUS
<1>3. h \in LoopRecord
  BY <1>1, <1>2 DEF Merge, LoopRecord, Pcs
<1>4. /\ h.pc = "returned"
      /\ h.shared = loop[l].shared /\ h.len = loop[l].len /\ h.own = loop[l].own
      /\ h.called = loop[l].called /\ h.iter = loop[l].iter /\ h.request = loop[l].request
      /\ h.invoked = loop[l].invoked
  BY <1>1, <1>2 DEF Merge, LoopRecord
<1>5. ~Busy(h) /\ h.pc # "llm"
  BY <1>4 DEF Busy
<1> QED
  BY <1>2, <1>3, <1>4, <1>5, PlainTalk DEF Return, Set

LEMMA ListToolsTalk ==
    ASSUME LType, TalkInv, NEW l \in use.loops, UNCHANGED <<use, original>>, ListToolsReturns(l)
    PROVE  TalkInv'
<1>1. loop[l] \in LoopRecord /\ ~Busy(loop[l])
  BY DEF LType, ListToolsReturns, At, Busy
<1>2. PICK found \in BOOLEAN : Set(l, [pc |-> "loop", mcpTools |-> found])
  BY DEF ListToolsReturns
<1>3. PICK h : h = Merge(loop[l], [pc |-> "loop", mcpTools |-> found])
  OBVIOUS
<1>4. h \in LoopRecord
  BY <1>1, <1>3 DEF Merge, LoopRecord, Pcs
<1>5. /\ h.pc = "loop"
      /\ h.shared = loop[l].shared /\ h.len = loop[l].len /\ h.own = loop[l].own
      /\ h.called = loop[l].called /\ h.iter = loop[l].iter /\ h.request = loop[l].request
      /\ h.invoked = loop[l].invoked
  BY <1>1, <1>3 DEF Merge, LoopRecord
<1>6. ~Busy(h) /\ h.pc # "llm"
  BY <1>5 DEF Busy
<1> QED
  BY <1>1, <1>2, <1>3, <1>4, <1>5, <1>6, PlainTalk DEF ListToolsReturns, Set

\* The request gets the conversation as it is between rounds, and a choice by it.
LEMMA AskTalk ==
    ASSUME LType, TalkInv, NEW l \in use.loops, UNCHANGED <<use, original>>, AskLLM(l)
    PROVE  TalkInv'
<1>1. loop[l] \in LoopRecord /\ loop[l].pc = "loop"
  BY DEF LType, AskLLM, At
<1>2. PICK msgs, req :
        /\ msgs = currentMessages(l)
        /\ req = [messages |-> msgs, choice |-> ToolChoice(l), tools |-> HasTools(l)]
  OBVIOUS
<1>3. Talk(loop[l], msgs) /\ InvokedOK(loop[l])
  BY <1>2 DEF TalkInv
<1>4. PICK h : h = Merge(loop[l], [pc |-> "llm", request |-> req])
  OBVIOUS
<1>5. req \in RequestRecord
  BY <1>2, CurType, ToolsAndChoice DEF RequestRecord
<1>6. h \in LoopRecord
  BY <1>1, <1>4, <1>5 DEF Merge, LoopRecord, Pcs
<1>7. /\ h.pc = "llm" /\ h.request = req
      /\ h.shared = loop[l].shared /\ h.len = loop[l].len /\ h.own = loop[l].own
      /\ h.called = loop[l].called /\ h.iter = loop[l].iter /\ h.invoked = loop[l].invoked
  BY <1>1, <1>4 DEF Merge, LoopRecord
<1>8. ~Busy(loop[l]) /\ ~Busy(h)
  BY <1>1, <1>7 DEF Busy
<1>9. Talk(h, msgs)
  BY <1>2, <1>3, <1>7, <1>8 DEF Talk
<1>10. InvokedOK(h)
  BY <1>3, <1>7, <1>8 DEF InvokedOK, Past
<1>11. ChoiceOK(req)
  <2>1. HasToolMessage(msgs) <=> loop[l].called
    BY <1>3 DEF Talk
  <2>2. req.messages = msgs /\ req.choice = ToolChoice(l) /\ req.tools = HasTools(l)
    BY <1>2
  <2>3. HasTools(l) \in BOOLEAN
    BY ToolsAndChoice
  <2> QED
    BY <2>1, <2>2, <2>3 DEF ChoiceOK, ToolChoice
<1> QED
  BY <1>2, <1>4, <1>6, <1>7, <1>9, <1>10, <1>11, KeepTalk DEF AskLLM, Ask, Set

\* A call of the response gets its future: the client was asked for it now, or not.
LEMMA FannedTalk ==
    ASSUME LType, TalkInv, NEW l \in use.loops, UNCHANGED <<use, original>>,
           NEW words \in Contents, NEW invoked \in {loop[l].invoked, Invoked(l)},
           Fanned(l, words, invoked)
    PROVE  TalkInv'
<1>1. loop[l] \in LoopRecord /\ loop[l].pc = "calls"
  BY DEF LType, Fanned, At
<1>2. PICK s, msgs : s = loop[l] /\ msgs = currentMessages(l)
  OBVIOUS
<1>3. /\ s \in LoopRecord /\ Busy(s)
      /\ Talk(s, msgs) /\ InvokedOK(s) /\ ChoiceOK(s.request)
  BY <1>1, <1>2 DEF TalkInv, Busy
<1>4. PICK futures, n : futures = Append(s.futures, words) /\ n = Len(s.futures)
  OBVIOUS
<1>5. futures \in Seq(Contents) /\ Len(futures) = n + 1 /\ n \in Nat
  BY <1>3, <1>4 DEF LoopRecord
<1>6. s.iter \in Nat /\ s.invoked \in Seq(Nat \X Nat)
  BY <1>3, IterationsAssumption DEF LoopRecord
<1>7. PICK call : call = <<s.iter, n + 1>>
  OBVIOUS
<1>8. Invoked(l) = Append(s.invoked, call) /\ call \in Nat \X Nat
  BY <1>2, <1>4, <1>5, <1>6, <1>7 DEF Invoked
<1>9. invoked \in Seq(Nat \X Nat)
  <2>1. Append(s.invoked, call) \in Seq(Nat \X Nat)
    BY <1>6, <1>8
  <2> QED
    BY <1>2, <1>6, <1>8, <2>1
<1> DEFINE pc == IF Len(futures) = Len(s.toolCalls) THEN "collect" ELSE "calls"
<1>10. PICK h : h = Merge(s, [futures |-> futures, invoked |-> invoked, pc |-> pc])
  OBVIOUS
<1>11. h \in LoopRecord
  BY <1>3, <1>5, <1>9, <1>10 DEF Merge, LoopRecord, Pcs
<1>12. /\ h.pc = pc /\ h.futures = futures /\ h.invoked = invoked
       /\ h.toolCalls = s.toolCalls /\ h.called = s.called /\ h.iter = s.iter
       /\ h.shared = s.shared /\ h.len = s.len /\ h.own = s.own /\ h.request = s.request
  BY <1>3, <1>10 DEF Merge, LoopRecord
<1>13. Busy(h) /\ h.pc # "llm"
  BY <1>12 DEF Busy
<1>14. Talk(h, msgs)
  BY <1>3, <1>12, <1>13 DEF Talk
<1>15. \A c \in Nat \X Nat : Past(s, c) => Past(h, c)
  <2> SUFFICES ASSUME NEW c \in Nat \X Nat, Past(s, c) PROVE Past(h, c)
    OBVIOUS
  <2>1. CASE c[1] < s.iter
    BY <1>12, <2>1 DEF Past
  <2>2. CASE c[1] = s.iter /\ c[2] <= n
    <3>1. c[2] \in Nat /\ c[2] <= n + 1
      BY <1>5, <2>2
    <3> QED
      BY <1>5, <1>12, <1>13, <2>2, <3>1 DEF Past
  <2> QED
    BY <1>4, <2>1, <2>2 DEF Past
<1>16. \A i \in DOMAIN s.invoked : s.invoked[i] \in Nat \X Nat /\ Past(h, s.invoked[i])
                                   /\ s.invoked[i] # call
  <2> SUFFICES ASSUME NEW i \in DOMAIN s.invoked
               PROVE  s.invoked[i] \in Nat \X Nat /\ Past(h, s.invoked[i]) /\ s.invoked[i] # call
    OBVIOUS
  <2>1. s.invoked[i] \in Nat \X Nat /\ Past(s, s.invoked[i])
    BY <1>3, <1>6 DEF InvokedOK
  <2>2. ~Past(s, call)
    BY <1>4, <1>5, <1>6, <1>7 DEF Past
  <2> QED
    BY <1>15, <2>1, <2>2
<1>17. InvokedOK(h)
  <2>1. CASE invoked = s.invoked
    BY <1>3, <1>12, <1>16, <2>1 DEF InvokedOK
  <2>2. CASE invoked = Append(s.invoked, call)
    <3>1. PICK k : k = Len(s.invoked)
      OBVIOUS
    <3>2. /\ k \in Nat /\ DOMAIN s.invoked = 1 .. k
          /\ DOMAIN invoked = 1 .. k + 1 /\ invoked[k + 1] = call
          /\ \A i \in 1 .. k : invoked[i] = s.invoked[i]
      BY <1>6, <1>8, <2>2, <3>1
    <3>3. Past(h, call)
      BY <1>5, <1>6, <1>7, <1>12, <1>13 DEF Past
    <3>4. \A i \in 1 .. k + 1 : i \in 1 .. k \/ i = k + 1
      BY <3>2
    <3>5. \A i \in 1 .. k + 1 : Past(h, invoked[i])
      BY <1>16, <3>2, <3>3, <3>4
    <3>6. \A i, j \in 1 .. k + 1 : invoked[i] = invoked[j] => i = j
      <4>1. \A i, j \in 1 .. k : invoked[i] = invoked[j] => i = j
        BY <1>3, <3>2 DEF InvokedOK
      <4>2. \A i \in 1 .. k : invoked[i] # invoked[k + 1]
        BY <1>16, <3>2
      <4> QED
        BY <3>4, <4>1, <4>2
    <3> QED
      BY <1>12, <3>2, <3>5, <3>6 DEF InvokedOK
  <2> QED
    BY <1>2, <1>8, <2>1, <2>2
<1>18. loop' = [loop EXCEPT ![l] = h] /\ UNCHANGED array
  BY <1>2, <1>4, <1>10 DEF Fanned, Set
<1>19. ChoiceOK(h.request)
  BY <1>3, <1>12
<1> QED
  BY <1>2, <1>11, <1>12, <1>14, <1>17, <1>18, <1>19, KeepTalk

LEMMA CallTalk ==
    ASSUME LType, TalkInv, NEW l \in use.loops, UNCHANGED <<use, original>>,
           RefuseCall(l) \/ CallTool(l) \/ RefuseArguments(l) \/ CallToolFails(l)
    PROVE  TalkInv'
<1>1. PICK words \in Contents, invoked \in {loop[l].invoked, Invoked(l)} :
         Fanned(l, words, invoked)
  BY DEF RefuseCall, CallTool, RefuseArguments, CallToolFails, Contents
<1> QED
  BY <1>1, FannedTalk

\* The response's message ends an accepted conversation and opens the round.
LEMMA LLMCallsTalk ==
    ASSUME LType, Separate, TalkInv, NEW l \in use.loops, UNCHANGED <<use, original>>,
           NEW calls \in Responses, LLMCalls(l, calls)
    PROVE  TalkInv'
<1> DEFINE fields == [pc |-> "calls", toolCalls |-> calls, futures |-> <<>>]
<1>1. loop[l] \in LoopRecord /\ loop[l].pc = "llm"
  BY DEF LType, LLMCalls, At
<1>2. PICK s, a, b, ms : /\ s = Merge(loop[l], fields) /\ a = currentMessages(l)
                         /\ ms = <<Assistant(calls)>> /\ b = a \o ms
  OBVIOUS
<1>3. calls \in Seq(Calls(use.ids)) /\ <<>> \in Seq(Contents)
      /\ ms \in Seq(Messages) /\ Len(ms) = 1 /\ a \in Seq(Messages) /\ Len(a) > 0
  <2>1. Appended(loop[l]) \in Nat
    BY AddedType
  <2> QED
    BY <1>2, <2>1, ResponseType, CurType
<1>4. s \in LoopRecord
  BY <1>1, <1>2, <1>3 DEF Merge, LoopRecord, Pcs
<1>5. /\ s.pc = "calls" /\ s.toolCalls = calls /\ s.called = loop[l].called
      /\ s.iter = loop[l].iter /\ s.invoked = loop[l].invoked /\ s.request = loop[l].request
  BY <1>1, <1>2 DEF Merge, LoopRecord
<1>6. Busy(s) /\ s.pc # "llm" /\ ~Busy(loop[l])
  BY <1>1, <1>5 DEF Busy
<1>7. Talk(loop[l], a) /\ InvokedOK(loop[l]) /\ ChoiceOK(loop[l].request)
  BY <1>2 DEF TalkInv
<1>8. Upto(a, Len(a))
  BY <1>6, <1>7 DEF Talk
<1>9. /\ Len(b) = Len(a) + 1 /\ b[Len(b)] = Assistant(calls) /\ Upto(b, Len(b) - 1)
      /\ Rounds(b) = Rounds(a) + 1
      /\ HasToolMessage(b) <=> HasToolMessage(a)
  BY <1>2, <1>3, <1>8, Asked
<1>10. Len(b) > 1
  BY <1>3, <1>9
<1>11. Talk(s, b)
  BY <1>5, <1>6, <1>7, <1>9, <1>10 DEF Talk
<1>12. InvokedOK(s)
  BY <1>5, <1>6, <1>7 DEF InvokedOK, Past
<1>13. ChoiceOK(s.request)
  BY <1>5, <1>7
<1>14. OtherFields(fields) /\ AppendAnd(l, ms, fields) /\ Len(ms) > 0
  BY <1>2, <1>3 DEF OtherFields, LLMCalls
<1> QED
  BY <1>2, <1>3, <1>4, <1>11, <1>12, <1>13, <1>14, AppendTalk

\* The results close the round.
LEMMA CollectTalk ==
    ASSUME LType, Separate, TalkInv, NEW l \in use.loops, UNCHANGED <<use, original>>, Collect(l)
    PROVE  TalkInv'
<1> DEFINE fields == [pc |-> "loop", called |-> TRUE, iter |-> loop[l].iter + 1]
<1>1. loop[l] \in LoopRecord /\ LoopOK(loop[l]) /\ loop[l].pc = "collect"
  BY DEF LType, Collect, At
<1>2. PICK s, a, b, ms, calls, futures :
        /\ s = Merge(loop[l], fields) /\ a = currentMessages(l)
        /\ ms = ToolMessages(l) /\ b = a \o ms
        /\ calls = loop[l].toolCalls /\ futures = loop[l].futures
  OBVIOUS
<1>3. /\ calls \in Responses /\ Len(calls) > 0 /\ a \in Seq(Messages)
      /\ ms \in Seq(Messages) /\ Len(ms) = Len(calls)
      /\ \A i \in 1 .. Len(calls) : ms[i] = Tool(calls[i].id, futures[i])
  <2>1. calls \in Responses
    BY <1>1, <1>2 DEF LoopOK
  <2> QED
    BY <1>1, <1>2, <2>1, ResponseType, CurType, ToolMessagesType
<1>4. /\ loop[l].iter + 1 \in 0 .. MaxIterations /\ loop[l].iter \in Nat
      /\ loop[l].invoked \in Seq(Nat \X Nat)
  BY <1>1, IterationsAssumption DEF LoopRecord, LoopOK
<1>5. s \in LoopRecord
  BY <1>1, <1>2, <1>4 DEF Merge, LoopRecord, Pcs
<1>6. /\ s.pc = "loop" /\ s.called = TRUE /\ s.iter = loop[l].iter + 1
      /\ s.invoked = loop[l].invoked /\ s.request = loop[l].request
  BY <1>1, <1>2 DEF Merge, LoopRecord
<1>7. Busy(loop[l]) /\ ~Busy(s) /\ s.pc # "llm"
  BY <1>1, <1>6 DEF Busy
<1>8. Talk(loop[l], a) /\ InvokedOK(loop[l]) /\ ChoiceOK(loop[l].request)
  BY <1>2 DEF TalkInv
<1>9. Len(a) > 1 /\ a[Len(a)] = Assistant(calls) /\ Upto(a, Len(a) - 1)
  BY <1>2, <1>7, <1>8 DEF Talk
<1>10. Upto(b, Len(b)) /\ Rounds(b) = Rounds(a) /\ HasToolMessage(b)
  <2>1. /\ a \in Seq(Messages) /\ calls \in Responses
        /\ Len(a) > 1 /\ a[Len(a)] = Assistant(calls) /\ Upto(a, Len(a) - 1)
        /\ ms \in Seq(Messages) /\ Len(ms) = Len(calls)
        /\ b = a \o ms
    BY <1>2, <1>3, <1>9
  <2>2. \A i \in 1 .. Len(calls) : ms[i].role = "tool" /\ ms[i].id = calls[i].id
    BY <1>3, MessageFacts
  <2> QED
    BY <2>1, <2>2, Told
<1>11. Talk(s, b)
  BY <1>6, <1>7, <1>8, <1>10 DEF Talk
<1>12. InvokedOK(s)
  <2>1. ASSUME NEW i \in DOMAIN s.invoked PROVE Past(s, s.invoked[i])
    <3>1. PICK call : call = s.invoked[i]
      OBVIOUS
    <3>2. Past(loop[l], call) /\ call \in Nat \X Nat
      BY <1>4, <1>6, <1>8, <3>1 DEF InvokedOK
    <3>3. call[1] \in Nat /\ call[1] <= loop[l].iter
      BY <1>4, <3>2 DEF Past
    <3>4. call[1] < s.iter
      BY <1>4, <1>6, <3>3
    <3> QED
      BY <3>1, <3>4 DEF Past
  <2> QED
    BY <1>6, <1>8, <2>1 DEF InvokedOK
<1>13. ChoiceOK(s.request)
  BY <1>6, <1>8
<1>14. OtherFields(fields) /\ AppendAnd(l, ms, fields) /\ Len(ms) > 0
  BY <1>2, <1>3 DEF OtherFields, Collect
<1> QED
  BY <1>2, <1>3, <1>5, <1>11, <1>12, <1>13, <1>14, AppendTalk

LEMMA InitTalk == Init => TalkInv
<1> SUFFICES ASSUME Init, NEW l \in use.loops
             PROVE  Talk(loop[l], currentMessages(l)) /\ InvokedOK(loop[l])
                    /\ ChoiceOK(loop[l].request)
  BY DEF TalkInv
<1>1. /\ loop[l].pc = "list" /\ loop[l].shared /\ loop[l].len = 0 /\ ~loop[l].called
      /\ loop[l].request = NoRequest /\ loop[l].invoked = <<>> /\ loop[l].iter = 0
  BY DEF Init
<1>2. PICK msgs : msgs = currentMessages(l)
  OBVIOUS
<1>3. msgs \in Seq(Messages) /\ Len(msgs) = 1 /\ msgs[1] = User
  <2>1. LType
    BY InitTypes
  <2>2. msgs \in Seq(Messages) /\ Len(msgs) = 1 + Appended(loop[l])
        /\ msgs = <<User>> \o Added(l)
    BY <1>2, <2>1, CurType, AddedType
  <2>3. Appended(loop[l]) = 0 /\ Added(l) \in Seq(Messages) /\ <<User>> \in Seq(Messages)
    BY <1>1, <2>1, AddedType DEF Appended, Messages
  <2> QED
    BY <2>2, <2>3
<1>4. User.role # "assistant" /\ User.role # "tool"
  BY DEF User
<1>5. Upto(msgs, 1) /\ ~HasToolMessage(msgs)
  BY <1>3, <1>4 DEF Upto, HasToolMessage
<1>6. Rounds(msgs) = 0
  <2>1. {i \in DOMAIN msgs : msgs[i].role = "assistant"} = {}
    BY <1>3, <1>4
  <2> QED
    BY <2>1, FS_EmptySet DEF Rounds
<1>7. /\ NoRequest.messages = <<>> /\ Upto(<<>>, 0) /\ Len(<<>>) = 0
      /\ NoRequest.choice = "nil" /\ NoRequest.tools = FALSE
  BY DEF NoRequest, Upto
<1>8. Talk(loop[l], msgs)
  BY <1>1, <1>3, <1>5, <1>6, <1>7 DEF Talk, Busy
<1>9. InvokedOK(loop[l])
  BY <1>1 DEF InvokedOK
<1>10. ChoiceOK(loop[l].request)
  BY <1>1, <1>7 DEF ChoiceOK, HasToolMessage
<1> QED
  BY <1>2, <1>8, <1>9, <1>10

LEMMA StepTalk ==
    ASSUME LType, Separate, TalkInv, NEW l \in use.loops, UNCHANGED <<use, original>>, Step(l)
    PROVE  TalkInv'
<1>1. CASE ListToolsFails(l)
  BY <1>1, ReturnTalk DEF ListToolsFails, At, Busy
<1>2. CASE ListToolsReturns(l)
  BY <1>2, ListToolsTalk
<1>3. CASE AskLLM(l)
  BY <1>3, AskTalk
<1>4. CASE GiveUp(l)
  BY <1>4, ReturnTalk DEF GiveUp, At, Busy
<1>5. CASE LLMFails(l)
  BY <1>5, ReturnTalk DEF LLMFails, At, Busy
<1>6. CASE LLMAnswers(l)
  BY <1>6, ReturnTalk DEF LLMAnswers, At, Busy
<1>7. CASE \E calls \in Responses : LLMCalls(l, calls)
  BY <1>7, LLMCallsTalk
<1>8. CASE RefuseCall(l) \/ CallTool(l) \/ RefuseArguments(l) \/ CallToolFails(l)
  BY <1>8, CallTalk
<1>9. CASE Collect(l)
  BY <1>9, CollectTalk
<1> QED
  BY <1>1, <1>2, <1>3, <1>4, <1>5, <1>6, <1>7, <1>8, <1>9 DEF Step

LEMMA StutterTalk == ASSUME TalkInv, UNCHANGED vars PROVE TalkInv'
<1>1. \A req : ChoiceOK(req)' <=> ChoiceOK(req)
  BY DEF ChoiceOK, vars
<1>2. ASSUME NEW k \in use.loops
      PROVE  (Talk(loop[k], currentMessages(k)) /\ InvokedOK(loop[k]) /\ ChoiceOK(loop[k].request))'
  <2>1. PICK r, msgs : r = loop[k] /\ msgs = currentMessages(k)
    OBVIOUS
  <2>2. Talk(r, msgs) /\ InvokedOK(r) /\ ChoiceOK(r.request)
    BY <2>1 DEF TalkInv
  <2>3. r = loop'[k] /\ msgs = currentMessages(k)'
    BY <2>1 DEF vars, currentMessages
  <2> QED
    BY <1>1, <2>2, <2>3
<1> QED
  BY <1>2 DEF TalkInv, vars

\* What each loop says, calls and asks for agrees with the rounds it has been
\* through, whatever the others do, if no two share an array with room in it.
THEOREM TalkInvariant == Separate => (Spec => []TalkInv)
<1> SUFFICES ASSUME Separate PROVE Spec => []TalkInv
  OBVIOUS
<1>1. Init => TalkInv
  BY InitTalk
<1>2. LType /\ TalkInv /\ [Next]_vars => TalkInv'
  BY StepTalk, StutterTalk DEF Next, Terminated, vars
<1> QED
  BY <1>1, <1>2, LTypeInvariant, PTL DEF Spec

\* What the LLM is sent is a conversation the chat API accepts, however calls fail:
\* every tool call has its one tool message, in order, and there are no others.
THEOREM CallsAreAnswered == Separate => (Spec => []EveryCallAnswered)
<1> SUFFICES ASSUME Separate PROVE Spec => []EveryCallAnswered
  OBVIOUS
<1>1. LType /\ TalkInv => EveryCallAnswered
  <2> SUFFICES ASSUME LType, TalkInv, NEW l \in use.loops, NEW msgs,
                      msgs = loop[l].request.messages
               PROVE  /\ \A i \in DOMAIN msgs : msgs[i].role = "assistant" => AnsweredAt(msgs, i)
                      /\ \A i \in DOMAIN msgs : msgs[i].role = "tool" =>
                           \E k \in 1..(i - 1) : /\ msgs[k].role = "assistant"
                                                 /\ i - k <= Len(msgs[k].calls)
    BY DEF EveryCallAnswered
  <2>1. msgs \in Seq(Messages)
    BY DEF LType, LoopRecord, RequestRecord
  <2>2. DOMAIN msgs = 1 .. Len(msgs) /\ Upto(msgs, Len(msgs))
    BY <2>1 DEF TalkInv, Talk
  <2>3. \A i \in DOMAIN msgs : msgs[i].role = "assistant" => AnsweredAt(msgs, i)
    <3> SUFFICES ASSUME NEW i \in 1 .. Len(msgs), msgs[i].role = "assistant"
                 PROVE  AnsweredAt(msgs, i)
      BY <2>2
    <3>1. /\ i + Len(msgs[i].calls) <= Len(msgs)
          /\ \A j \in 1 .. Len(msgs[i].calls) :
                msgs[i + j].role = "tool" /\ msgs[i + j].id = msgs[i].calls[j].id
      BY <2>2, Zenon DEF Upto
    <3> QED
      BY <3>1, Zenon DEF AnsweredAt
  <2>4. \A i \in DOMAIN msgs : msgs[i].role = "tool" =>
           \E k \in 1..(i - 1) : /\ msgs[k].role = "assistant"
                                 /\ i - k <= Len(msgs[k].calls)
    BY <2>2 DEF Upto
  <2> QED
    BY <2>3, <2>4
<1> QED
  BY <1>1, LTypeInvariant, TalkInvariant, PTL

\* A tool is called once for a call, and the LLM is asked again only when it is told
\* what the calls of every round came to.
THEOREM ToolsCalledOnce == Separate => (Spec => []InvokedOnceAndTold)
<1> SUFFICES ASSUME Separate PROVE Spec => []InvokedOnceAndTold
  OBVIOUS
<1>1. TalkInv => InvokedOnceAndTold
  <2> SUFFICES ASSUME TalkInv, NEW l \in use.loops, NEW s, s = loop[l]
               PROVE  /\ \A i, j \in DOMAIN s.invoked : s.invoked[i] = s.invoked[j] => i = j
                      /\ s.pc = "llm" => \A i \in DOMAIN s.invoked :
                                           s.invoked[i][1] < Rounds(s.request.messages)
    BY DEF InvokedOnceAndTold
  <2>1. Talk(s, currentMessages(l)) /\ InvokedOK(s)
    BY DEF TalkInv
  <2>2. CASE s.pc = "llm"
    <3>1. ~Busy(s)
      BY <2>2 DEF Busy
    <3>2. Rounds(s.request.messages) = s.iter
      BY <2>1, <2>2, <3>1 DEF Talk
    <3> QED
      BY <2>1, <3>1, <3>2 DEF InvokedOK, Past
  <2> QED
    BY <2>1, <2>2 DEF InvokedOK
<1> QED
  BY <1>1, TalkInvariant, PTL

\* A tool the caller forces is asked for until tools were called, never after, and
\* only of a request that offers some.
THEOREM ChoiceIsFree == Separate => (Spec => []ChoiceIsFreeOnceCalled)
<1> SUFFICES ASSUME Separate PROVE Spec => []ChoiceIsFreeOnceCalled
  OBVIOUS
<1>1. TalkInv => ChoiceIsFreeOnceCalled
  BY DEF TalkInv, ChoiceOK, ChoiceIsFreeOnceCalled, HasResults, HasToolMessage
<1> QED
  BY <1>1, TalkInvariant, PTL

==============================================================================
