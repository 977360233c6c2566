--------------------------- MODULE ResolutionProofs ---------------------------
(***************************************************************************)
(* Theorems of Resolution for every program, any number of goroutines and  *)
(* any interleaving of them. Each of the four parts has an inductive       *)
(* invariant of its own, on top of those before it: RType, of the types,   *)
(* PathInv, of the paths, MeansInv, of the results, and FutureInv, of the  *)
(* futures, and lemmas for the actions on each.                            *)
(***************************************************************************)
EXTENDS Resolution, SequenceTheorems, TLAPS

------------------------------------------------------------------------------
(* Sequences of anything.                                                    *)

IsSeq(s) == s \in Seq(ToSet(s))

LEMMA SomeSeq ==
    ASSUME NEW S, NEW s \in Seq(S)
    PROVE  IsSeq(s)
<1>1. Len(s) \in Nat /\ s \in [1..Len(s) -> S] /\ DOMAIN s = 1..Len(s)
  BY LenProperties
<1>2. s \in [1..Len(s) -> ToSet(s)]
  BY <1>1 DEF ToSet
<1> QED
  BY <1>1, <1>2, SeqDef DEF IsSeq

LEMMA SeqFacts ==
    ASSUME NEW s, IsSeq(s)
    PROVE  /\ Len(s) \in Nat
           /\ DOMAIN s = 1..Len(s)
           /\ s = <<>> <=> Len(s) = 0
BY LenProperties, EmptySeq DEF IsSeq

LEMMA Appended ==
    ASSUME NEW s, IsSeq(s), NEW e
    PROVE  /\ IsSeq(Append(s, e))
           /\ Append(s, e) # <<>>
           /\ Len(Append(s, e)) = Len(s) + 1
           /\ Append(s, e)[Len(s) + 1] = e
           /\ \A i \in 1..Len(s) : Append(s, e)[i] = s[i]
<1>1. PICK S : S = ToSet(s) \cup {e}
  OBVIOUS
<1>2. s \in Seq(S) /\ e \in S
  BY <1>1, SeqMonotonic DEF IsSeq
<1>3. /\ Append(s, e) \in Seq(S) /\ Append(s, e) # <<>>
      /\ Len(Append(s, e)) = Len(s) + 1
      /\ Append(s, e)[Len(s) + 1] = e
      /\ \A i \in 1..Len(s) : Append(s, e)[i] = s[i]
  BY <1>2, AppendProperties
<1> QED
  BY <1>3, SomeSeq

LEMMA FrontOf ==
    ASSUME NEW s, IsSeq(s), s # <<>>
    PROVE  /\ IsSeq(Front(s))
           /\ Len(Front(s)) = Len(s) - 1
           /\ \A i \in 1..Len(s) - 1 : Front(s)[i] = s[i]
<1>1. PICK S : S = ToSet(s) /\ s \in Seq(S)
  BY DEF IsSeq
<1>2. Len(s) \in Nat /\ Len(s) # 0
  BY <1>1, EmptySeq
<1>3. PICK n \in Nat : n = Len(s) - 1
  BY <1>2
<1>4. Front(s) = SubSeq(s, 1, n) /\ \A i \in 1..n : s[i] \in S
  BY <1>1, <1>2, <1>3, ElementOfSeq DEF Front
<1>5. /\ Front(s) \in Seq(S)
      /\ Len(Front(s)) = IF 1 <= n THEN n - 1 + 1 ELSE 0
      /\ \A i \in 1..n - 1 + 1 : Front(s)[i] = s[1 + i - 1]
  BY <1>4, SubSeqProperties
<1>6. Len(Front(s)) = n /\ \A i \in 1..n : Front(s)[i] = s[i]
  BY <1>5
<1> QED
  BY <1>3, <1>5, <1>6, SomeSeq

LEMMA FrontOfAppend ==
    ASSUME NEW S, NEW s \in Seq(S), NEW e \in S
    PROVE  Front(Append(s, e)) = s /\ Last(Append(s, e)) = e
<1>1. PICK a : a = Append(s, e)
  OBVIOUS
<1>2. /\ a \in Seq(S) /\ a # <<>> /\ Len(a) = Len(s) + 1 /\ a[Len(s) + 1] = e
      /\ \A i \in 1..Len(s) : a[i] = s[i]
  BY <1>1, AppendProperties
<1>3. Len(s) \in Nat
  BY LenProperties
<1>4. Len(Front(a)) = Len(a) - 1 /\ \A i \in 1..Len(a) - 1 : Front(a)[i] = a[i]
  BY <1>2, SomeSeq, FrontOf
<1>5. Front(a) = SubSeq(a, 1, Len(s))
  BY <1>2, <1>3 DEF Front
<1>6. Front(a) \in Seq(S)
  BY <1>2, <1>3, <1>5, ElementOfSeq, SubSeqProperties
<1>7. Len(Front(a)) = Len(s) /\ \A i \in 1..Len(s) : Front(a)[i] = s[i]
  BY <1>2, <1>3, <1>4
<1>8. Front(a) = s
  BY <1>6, <1>7, SeqEqual
<1> QED
  BY <1>1, <1>2, <1>8 DEF Last

------------------------------------------------------------------------------
(* Types.                                                                    *)

NoneIsNoResult == ~IsResult(None)

ResultOrNone(r) == r = None \/ IsResult(r)

ExecOK(p, k, e) ==
    /\ e = [h |-> e.h, ctx |-> e.ctx, in |-> e.in, state |-> e.state, result |-> e.result]
    /\ e.h \in p.handles /\ p.def[e.h] \in p.defs
    /\ IsContext(e.ctx) /\ ResultOrNone(e.in)
    /\ e.state \in {"new", "running", "done"}
    /\ e.state = "done" <=> e.result # None
    /\ ResultOrNone(e.result)
    /\ k = <<e.ctx.run, e.ctx.reg, k[3]>>
    /\ k[3] \in NodePaths /\ Front(k[3]) = e.ctx.base

FutureOK(ex, u) ==
    /\ u = Future(u.key, u.res, u.seen)
    /\ ResultOrNone(u.res)
    /\ u.res = None => u.key \in DOMAIN ex

Frame(f) ==
    /\ f = [op |-> f.op, at |-> f.at, h |-> f.h, ctx |-> f.ctx, in |-> f.in,
            path |-> f.path, key |-> f.key, futures |-> f.futures, ret |-> f.ret]
    /\ IsContext(f.ctx) /\ ResultOrNone(f.in) /\ ResultOrNone(f.ret)

ResolveFrame(p, ex, f) ==
    /\ f.op = "resolve" /\ f.h \in p.handles /\ f.futures = <<>>
    /\ f.at \in {"start", "setPath", "lookup", "getResult"}
    /\ f.in # None => p.kind[f.h] = "bind"
    /\ f.at # "start" => p.kind[f.h] = "node" \/ f.in # None
    /\ f.at = "start" /\ f.ret # None => p.kind[f.h] = "bind"
    /\ f.at \in {"setPath", "lookup"} => f.path \in NodePaths /\ Front(f.path) = f.ctx.base
    /\ f.at = "getResult" => f.key \in DOMAIN ex

ExecuteFrame(ex, f) ==
    /\ f.op = "execute" /\ f.at \in {"input", "run"} /\ f.futures = <<>>
    /\ f.key \in DOMAIN ex /\ f.ctx = ex[f.key].ctx /\ f.path = f.key[3]
    /\ f.at = "run" => f.in # None

BodyFrame(p, ex, f) ==
    /\ f.op = "body" /\ f.at \in p.defs /\ f.in # None
    /\ IsSeq(f.futures) /\ Len(f.futures) <= Len(p.fans[f.at])
    /\ \A j \in DOMAIN f.futures : FutureOK(ex, f.futures[j])

FrameOK(p, ex, f) ==
    Frame(f) /\ (ResolveFrame(p, ex, f) \/ ExecuteFrame(ex, f) \/ BodyFrame(p, ex, f))

\* A call that waits for another one.
Waiting(p, f) ==
    f.op = "resolve" => \/ f.at = "getResult"
                        \/ f.at = "start" /\ f.in = None /\ p.kind[f.h] = "bind"

CountersOK(cs) == \A c \in DOMAIN cs : cs[c] \in Nat \ {0}

ExecsOK(p, ex) ==
    /\ ex = [k \in DOMAIN ex |-> ex[k]]
    /\ \A k \in DOMAIN ex : ExecOK(p, k, ex[k])

StacksOK ==
    /\ stack = [t \in Threads |-> stack[t]] /\ outcome = [t \in Threads |-> outcome[t]]
    /\ \A t \in Threads : IsSeq(stack[t])

\* The positions of the calls that wait for the innermost one.
Under(t) == 1..Len(stack[t]) - 1

RType ==
    /\ program \in Programs
    /\ CountersOK(counter)
    /\ ExecsOK(program, execs)
    /\ StacksOK
    /\ \A t \in Threads : stack[t] = <<>> <=> outcome[t] # None
    /\ \A t \in Threads : \A i \in DOMAIN stack[t] : FrameOK(program, execs, stack[t][i])
    /\ \A t \in Threads : \A i \in Under(t) : Waiting(program, stack[t][i])

------------------------------------------------------------------------------
(* What calls and returns do to the stacks.                                  *)

\* Goroutine t has the frame f on top of what it had at the positions I.
Touched(t, f, I) ==
    /\ StacksOK'
    /\ stack'[t] # <<>>
    /\ stack'[t][Len(stack'[t])] = f
    /\ \A i \in 1..Len(stack'[t]) - 1 : i \in I /\ stack'[t][i] = stack[t][i]
    /\ \A u \in Threads : u # t => stack'[u] = stack[u]

LEMMA TopOfStack ==
    ASSUME StacksOK, NEW t \in Threads, Running(t)
    PROVE  /\ Len(stack[t]) \in Nat /\ Len(stack[t]) # 0
           /\ DOMAIN stack[t] = 1..Len(stack[t])
           /\ Top(t) = stack[t][Len(stack[t])]
<1>1. IsSeq(stack[t]) /\ stack[t] # <<>>
  BY DEF StacksOK, Running
<1> QED
  BY <1>1, SeqFacts DEF Top, Last

\* One stack is replaced.
LEMMA Restacked ==
    ASSUME StacksOK, NEW t \in Threads, NEW s, IsSeq(s),
           stack' = [stack EXCEPT ![t] = s],
           outcome' = outcome \/ (\E r : outcome' = [outcome EXCEPT ![t] = r])
    PROVE  /\ StacksOK'
           /\ stack'[t] = s
           /\ \A u \in Threads : u # t => stack'[u] = stack[u]
<1>1. stack'[t] = s /\ \A u \in Threads : u # t => stack'[u] = stack[u]
  BY DEF StacksOK
<1>2. stack' = [u \in Threads |-> stack'[u]]
  BY DEF StacksOK
<1>3. outcome' = [u \in Threads |-> outcome'[u]]
  BY DEF StacksOK
<1>4. \A u \in Threads : IsSeq(stack'[u])
  BY <1>1 DEF StacksOK
<1> QED
  BY <1>1, <1>2, <1>3, <1>4 DEF StacksOK

LEMMA SetTopMoves ==
    ASSUME StacksOK, NEW t \in Threads, Running(t), NEW f, SetTop(t, f), UNCHANGED outcome
    PROVE  Touched(t, f, Under(t)) /\ Len(stack'[t]) = Len(stack[t])
<1>1. PICK d : d = stack[t]
  OBVIOUS
<1>2. IsSeq(d) /\ d # <<>> /\ Len(d) \in Nat /\ Len(d) # 0
  BY <1>1, SeqFacts DEF StacksOK, Running
<1>3. PICK b : b = Front(d)
  OBVIOUS
<1>4. IsSeq(b) /\ Len(b) = Len(d) - 1 /\ \A i \in 1..Len(d) - 1 : b[i] = d[i]
  BY <1>2, <1>3, FrontOf
<1>5. PICK s : s = Append(b, f)
  OBVIOUS
<1>6. IsSeq(s) /\ s # <<>> /\ Len(s) = Len(b) + 1 /\ s[Len(b) + 1] = f
      /\ \A i \in 1..Len(b) : s[i] = b[i]
  BY <1>4, <1>5, Appended
<1>7. stack' = [stack EXCEPT ![t] = s]
  BY <1>1, <1>3, <1>5 DEF SetTop, StacksOK
<1>8. StacksOK' /\ stack'[t] = s /\ \A u \in Threads : u # t => stack'[u] = stack[u]
  BY <1>6, <1>7, Restacked
<1>9. Len(s) = Len(d)
  BY <1>2, <1>4, <1>6
<1>10. s[Len(s)] = f
  BY <1>2, <1>4, <1>6
<1>11. \A i \in 1..Len(s) - 1 : i \in 1..Len(d) - 1 /\ s[i] = d[i]
  BY <1>2, <1>4, <1>6
<1> QED
  BY <1>1, <1>6, <1>8, <1>9, <1>10, <1>11 DEF Touched, Under

LEMMA CallMoves ==
    ASSUME StacksOK, NEW t \in Threads, Running(t), NEW f, Call(t, f), UNCHANGED outcome
    PROVE  Touched(t, f, DOMAIN stack[t]) /\ Len(stack'[t]) = Len(stack[t]) + 1
<1>1. PICK d : d = stack[t]
  OBVIOUS
<1>2. IsSeq(d) /\ DOMAIN d = 1..Len(d) /\ Len(d) \in Nat
  BY <1>1, SeqFacts DEF StacksOK
<1>3. PICK s : s = Append(d, f)
  OBVIOUS
<1>4. IsSeq(s) /\ s # <<>> /\ Len(s) = Len(d) + 1 /\ s[Len(d) + 1] = f
      /\ \A i \in 1..Len(d) : s[i] = d[i]
  BY <1>2, <1>3, Appended
<1>5. stack' = [stack EXCEPT ![t] = s]
  BY <1>1, <1>3 DEF Call, StacksOK
<1>6. StacksOK' /\ stack'[t] = s /\ \A u \in Threads : u # t => stack'[u] = stack[u]
  BY <1>4, <1>5, Restacked
<1>7. \A i \in 1..Len(s) - 1 : i \in DOMAIN d /\ s[i] = d[i]
  BY <1>2, <1>4
<1> QED
  BY <1>1, <1>4, <1>6, <1>7 DEF Touched

\* The innermost call returns to the one below it, or the body of the goroutine does.
Caller(t) == stack[t][Len(stack[t]) - 1]

LEMMA ReturnMoves ==
    ASSUME StacksOK, NEW t \in Threads, Running(t), NEW r, Return(t, r)
    PROVE  \/ /\ Len(stack[t]) = 1
              /\ StacksOK' /\ stack'[t] = <<>> /\ outcome'[t] = r
              /\ \A u \in Threads : u # t => stack'[u] = stack[u] /\ outcome'[u] = outcome[u]
           \/ /\ Len(stack[t]) - 1 \in DOMAIN stack[t]
              /\ Touched(t, [Caller(t) EXCEPT !.ret = r], Under(t))
              /\ Len(stack'[t]) = Len(stack[t]) - 1
              /\ Caller(t) = stack[t][Len(stack'[t])]
              /\ UNCHANGED outcome
<1>1. PICK d : d = stack[t]
  OBVIOUS
<1>2. IsSeq(d) /\ d # <<>> /\ Len(d) \in Nat /\ Len(d) # 0 /\ DOMAIN d = 1..Len(d)
  BY <1>1, SeqFacts DEF StacksOK, Running
<1>3. PICK b : b = Front(d)
  OBVIOUS
<1>4. /\ IsSeq(b) /\ Len(b) = Len(d) - 1
      /\ \A i \in 1..Len(d) - 1 : b[i] = d[i]
  BY <1>2, <1>3, FrontOf
<1>5. CASE b = <<>>
  <2>1. Len(b) = 0
    BY <1>4, <1>5, SeqFacts
  <2>2. Len(d) = 1
    <3>1. Len(d) \in Nat /\ Len(d) - 1 = 0
      BY <1>2, <1>4, <2>1
    <3> QED
      BY <3>1
  <2>3. /\ stack' = [stack EXCEPT ![t] = <<>>]
        /\ outcome' = [outcome EXCEPT ![t] = r]
    BY <1>1, <1>3, <1>5 DEF Return
  <2>4. IsSeq(<<>>)
    BY <1>4, <1>5
  <2>5. StacksOK' /\ stack'[t] = <<>> /\ \A u \in Threads : u # t => stack'[u] = stack[u]
    BY <2>3, <2>4, Restacked
  <2>6. outcome'[t] = r /\ \A u \in Threads : u # t => outcome'[u] = outcome[u]
    BY <2>3 DEF StacksOK
  <2> QED
    BY <1>1, <2>2, <2>5, <2>6
<1>6. CASE b # <<>>
  <2>1. Len(b) \in Nat /\ Len(b) # 0
    BY <1>4, <1>6, SeqFacts
  <2>2. PICK c : c = Front(b)
    OBVIOUS
  <2>3. IsSeq(c) /\ Len(c) = Len(b) - 1 /\ \A i \in 1..Len(b) - 1 : c[i] = b[i]
    BY <1>4, <1>6, <2>2, FrontOf
  <2>4. Len(d) - 1 \in 1..Len(d) /\ b[Len(b)] = d[Len(d) - 1]
    BY <1>2, <1>4, <2>1
  <2>5. PICK f : f = [Caller(t) EXCEPT !.ret = r]
    OBVIOUS
  <2>6. f = [Last(b) EXCEPT !.ret = r]
    BY <1>1, <2>4, <2>5 DEF Caller, Last
  <2>7. PICK s : s = Append(c, f)
    OBVIOUS
  <2>8. IsSeq(s) /\ s # <<>> /\ Len(s) = Len(c) + 1 /\ s[Len(c) + 1] = f
        /\ \A i \in 1..Len(c) : s[i] = c[i]
    BY <2>3, <2>7, Appended
  <2>9. stack' = [stack EXCEPT ![t] = s] /\ outcome' = outcome
    BY <1>1, <1>3, <1>6, <2>2, <2>6, <2>7 DEF Return
  <2>10. StacksOK' /\ stack'[t] = s /\ \A u \in Threads : u # t => stack'[u] = stack[u]
    BY <2>8, <2>9, Restacked
  <2>11. Len(s) = Len(d) - 1 /\ s[Len(s)] = f
    BY <1>2, <1>4, <2>1, <2>3, <2>8
  <2>12. ASSUME NEW i \in 1..Len(s) - 1
         PROVE  i \in 1..Len(d) - 1 /\ s[i] = d[i]
    <3>1. i \in 1..Len(c) /\ i \in 1..Len(b) - 1 /\ i \in 1..Len(d) - 1
      BY <1>2, <1>4, <2>1, <2>3, <2>8
    <3>2. s[i] = c[i] /\ c[i] = b[i] /\ b[i] = d[i]
      BY <1>4, <2>3, <2>8, <3>1
    <3> QED
      BY <3>1, <3>2
  <2>13. Touched(t, f, Under(t))
    BY <1>1, <2>8, <2>10, <2>11, <2>12 DEF Touched, Under
  <2>14. Len(d) - 1 \in DOMAIN d
    BY <1>2, <2>4
  <2> QED
    BY <1>1, <2>5, <2>9, <2>10, <2>11, <2>13, <2>14 DEF Caller
<1> QED
  BY <1>5, <1>6

------------------------------------------------------------------------------
(* What a step does to the types.                                            *)

\* Executioners stay, as what they were made for.
Grows(ex, ey) ==
    /\ DOMAIN ex \subseteq DOMAIN ey
    /\ \A k \in DOMAIN ex : ey[k].h = ex[k].h /\ ey[k].ctx = ex[k].ctx /\ ey[k].in = ex[k].in

\* The registries and counters after a step.
Registered == /\ UNCHANGED program
              /\ CountersOK(counter') /\ ExecsOK(program, execs') /\ Grows(execs, execs')

LEMMA FrameStays ==
    ASSUME NEW p, NEW ex, NEW ey, NEW f, FrameOK(p, ex, f), Grows(ex, ey)
    PROVE  FrameOK(p, ey, f)
<1>1. CASE ResolveFrame(p, ex, f)
  BY <1>1 DEF FrameOK, ResolveFrame, Grows
<1>2. CASE ExecuteFrame(ex, f)
  BY <1>2 DEF FrameOK, ExecuteFrame, Grows
<1>3. CASE BodyFrame(p, ex, f)
  BY <1>3 DEF FrameOK, BodyFrame, FutureOK, Grows
<1> QED
  BY <1>1, <1>2, <1>3 DEF FrameOK

LEMMA Unregistered ==
    ASSUME RType, UNCHANGED <<program, counter, execs>>
    PROVE  Registered
BY DEF RType, Registered, Grows

LEMMA TouchedType ==
    ASSUME RType, NEW t \in Threads, NEW f, NEW I, Touched(t, f, I), Running(t),
           \A i \in I : i \in DOMAIN stack[t] /\ Waiting(program, stack[t][i]),
           UNCHANGED outcome, Registered, FrameOK(program, execs', f)
    PROVE  RType'
<1>1. program' \in Programs /\ CountersOK(counter') /\ ExecsOK(program', execs') /\ StacksOK'
  BY DEF RType, Registered, Touched
<1>2. \A u \in Threads : stack'[u] = <<>> <=> outcome'[u] # None
  BY DEF RType, Touched, Running
<1>3. ASSUME NEW u \in Threads, NEW i \in DOMAIN stack'[u]
      PROVE  FrameOK(program', execs', stack'[u][i])
  <2>1. CASE u # t
    <3>1. stack'[u][i] = stack[u][i] /\ i \in DOMAIN stack[u]
      BY <2>1 DEF Touched
    <3>2. FrameOK(program, execs, stack[u][i])
      BY <3>1 DEF RType
    <3> QED
      BY <3>1, <3>2, FrameStays DEF Registered
  <2>2. CASE u = t /\ i = Len(stack'[t])
    BY <2>2 DEF Touched, Registered
  <2>3. CASE u = t /\ i # Len(stack'[t])
    <3>1. IsSeq(stack'[t])
      BY <1>1 DEF StacksOK
    <3>2. i \in 1..Len(stack'[t]) - 1
      BY <2>3, <3>1, SeqFacts
    <3>3. stack'[t][i] = stack[t][i] /\ i \in DOMAIN stack[t]
      BY <3>2 DEF Touched
    <3>4. FrameOK(program, execs, stack[t][i])
      BY <3>3 DEF RType
    <3> QED
      BY <2>3, <3>3, <3>4, FrameStays DEF Registered
  <2> QED
    BY <2>1, <2>2, <2>3
<1>4. ASSUME NEW u \in Threads, NEW i \in 1..Len(stack'[u]) - 1
      PROVE  Waiting(program', stack'[u][i])
  <2>1. CASE u # t
    BY <2>1 DEF Touched, RType, Registered, Under
  <2>2. CASE u = t
    BY <2>2 DEF Touched, Registered
  <2> QED
    BY <2>1, <2>2
<1> QED
  BY <1>1, <1>2, <1>3, <1>4 DEF RType, Under

\* The calls that wait are among those made.
LEMMA UnderTop ==
    ASSUME RType, NEW t \in Threads
    PROVE  \A i \in Under(t) : i \in DOMAIN stack[t] /\ Waiting(program, stack[t][i])
<1>1. PICK d : d = stack[t]
  OBVIOUS
<1>2. Len(d) \in Nat /\ DOMAIN d = 1..Len(d)
  BY <1>1, SeqFacts DEF RType, StacksOK
<1>3. \A i \in 1..Len(d) - 1 : i \in DOMAIN d
  BY <1>2
<1> QED
  BY <1>1, <1>3 DEF RType, Under

\* The frame that gets a result is the one that waited, with the result.
WithRet(f, r) ==
    [op |-> f.op, at |-> f.at, h |-> f.h, ctx |-> f.ctx, in |-> f.in,
     path |-> f.path, key |-> f.key, futures |-> f.futures, ret |-> r]

LEMMA RetSet ==
    ASSUME NEW f, Frame(f), NEW r
    PROVE  [f EXCEPT !.ret = r] = WithRet(f, r)
BY DEF Frame, WithRet

LEMMA RetFrame ==
    ASSUME NEW p, NEW ex, NEW f, FrameOK(p, ex, f), Waiting(p, f), NEW r, ResultOrNone(r)
    PROVE  FrameOK(p, ex, WithRet(f, r))
<1>1. Frame(WithRet(f, r))
  BY DEF FrameOK, Frame, WithRet
<1>2. ResolveFrame(p, ex, f) => ResolveFrame(p, ex, WithRet(f, r))
  BY DEF ResolveFrame, WithRet, Waiting
<1>3. ExecuteFrame(ex, f) => ExecuteFrame(ex, WithRet(f, r))
  BY DEF ExecuteFrame, WithRet
<1>4. BodyFrame(p, ex, f) => BodyFrame(p, ex, WithRet(f, r))
  BY DEF BodyFrame, WithRet
<1> QED
  BY <1>1, <1>2, <1>3, <1>4 DEF FrameOK

LEMMA ReturnedType ==
    ASSUME NoneIsNoResult, RType, NEW t \in Threads, Running(t),
           NEW r, IsResult(r), Return(t, r), Registered
    PROVE  RType'
<1>1. StacksOK
  BY DEF RType
<1>2. CASE /\ Len(stack[t]) - 1 \in DOMAIN stack[t]
           /\ Touched(t, [Caller(t) EXCEPT !.ret = r], Under(t))
           /\ UNCHANGED outcome
  <2>1. FrameOK(program, execs, Caller(t)) /\ Waiting(program, Caller(t))
    <3>1. PICK d : d = stack[t]
      OBVIOUS
    <3>2. Len(d) \in Nat /\ DOMAIN d = 1..Len(d) /\ Len(d) - 1 \in DOMAIN d
      BY <1>1, <1>2, <3>1, SeqFacts DEF StacksOK
    <3>3. Len(d) - 1 \in 1..Len(d) - 1
      BY <3>2
    <3> QED
      BY <3>1, <3>2, <3>3 DEF RType, Caller, Under
  <2>2. [Caller(t) EXCEPT !.ret = r] = WithRet(Caller(t), r)
    BY <2>1, RetSet DEF FrameOK
  <2>3. FrameOK(program, execs', Caller(t))
    BY <2>1, FrameStays DEF Registered
  <2>4. FrameOK(program, execs', WithRet(Caller(t), r))
    BY <2>1, <2>3, RetFrame DEF ResultOrNone
  <2> QED
    BY <1>2, <2>2, <2>4, TouchedType, UnderTop
<1>3. CASE /\ StacksOK' /\ stack'[t] = <<>> /\ outcome'[t] = r
           /\ \A u \in Threads : u # t => stack'[u] = stack[u] /\ outcome'[u] = outcome[u]
  <2>1. r # None
    BY DEF NoneIsNoResult
  <2>2. \A u \in Threads : stack'[u] = <<>> <=> outcome'[u] # None
    BY <1>3, <2>1 DEF RType
  <2>3. ASSUME NEW u \in Threads, NEW i \in DOMAIN stack'[u]
        PROVE  FrameOK(program', execs', stack'[u][i])
    <3>1. u # t
      BY <1>3
    <3>2. stack'[u][i] = stack[u][i] /\ i \in DOMAIN stack[u]
      BY <1>3, <3>1
    <3>3. FrameOK(program, execs, stack[u][i])
      BY <3>2 DEF RType
    <3> QED
      BY <3>2, <3>3, FrameStays DEF Registered
  <2>4. ASSUME NEW u \in Threads, NEW i \in 1..Len(stack'[u]) - 1
        PROVE  Waiting(program', stack'[u][i])
    <3>1. u # t
      <4>1. CASE u = t
        <5>1. i \in 1..Len(<<>>) - 1
          BY <1>3, <4>1
        <5> QED
          BY <5>1
      <4> QED
        BY <4>1
    <3> QED
      BY <1>3, <3>1 DEF RType, Registered, Under
  <2> QED
    BY <1>3, <2>2, <2>3, <2>4 DEF RType, Registered, Under
<1> QED
  BY <1>1, <1>2, <1>3, ReturnMoves

------------------------------------------------------------------------------
(* The types, action by action.                                              *)

LEMMA ProgramFacts ==
    ASSUME RType
    PROVE  IsProgram(program) /\ StacksOK
BY ProgramsAssumption DEF RType

LEMMA TopFrame ==
    ASSUME RType, NEW t \in Threads, Running(t)
    PROVE  FrameOK(program, execs, Top(t)) /\ Frame(Top(t))
<1>1. PICK d : d = stack[t]
  OBVIOUS
<1>2. DOMAIN d = 1..Len(d) /\ Len(d) \in Nat /\ Len(d) # 0 /\ Top(t) = d[Len(d)]
  BY <1>1, TopOfStack DEF RType
<1>3. Len(d) \in DOMAIN d
  BY <1>2
<1> QED
  BY <1>1, <1>2, <1>3 DEF RType, FrameOK

LEMMA SetTopType ==
    ASSUME RType, NEW t \in Threads, Running(t), NEW f, SetTop(t, f), UNCHANGED outcome,
           Registered, FrameOK(program, execs', f)
    PROVE  RType'
BY SetTopMoves, TouchedType, UnderTop DEF RType

LEMMA CallType ==
    ASSUME RType, NEW t \in Threads, Running(t), NEW f, Call(t, f), UNCHANGED outcome,
           Waiting(program, Top(t)), Registered, FrameOK(program, execs', f)
    PROVE  RType'
<1>1. Touched(t, f, DOMAIN stack[t])
  BY CallMoves DEF RType
<1>2. ASSUME NEW i \in DOMAIN stack[t] PROVE Waiting(program, stack[t][i])
  <2>1. PICK d : d = stack[t]
    OBVIOUS
  <2>2. DOMAIN d = 1..Len(d) /\ Len(d) \in Nat
    BY <2>1, TopOfStack DEF RType
  <2>3. Top(t) = stack[t][Len(d)]
    BY <2>1, TopOfStack DEF RType
  <2>4. i = Len(d) \/ i \in 1..Len(d) - 1
    BY <2>1, <2>2
  <2> QED
    BY <2>1, <2>3, <2>4, UnderTop DEF Under
<1> QED
  BY <1>1, <1>2, TouchedType

LEMMA Results ==
    /\ \A v : IsResult(Ok(v))
    /\ \A c : IsResult(Err(c))
    /\ \A run, x : IsResult(Fails(run, x))
BY DEF IsResult, Ok, Err, Fails

\* A call of internalResolve that starts.
LEMMA NewResolveFrame ==
    ASSUME NEW p, NEW ex, NEW h \in p.handles, NEW ctx, IsContext(ctx),
           NEW in, ResultOrNone(in), in # None => p.kind[h] = "bind"
    PROVE  FrameOK(p, ex, ResolveCall(h, ctx, in))
BY DEF FrameOK, Frame, ResolveFrame, ResolveCall, ResultOrNone

LEMMA CallResolveType ==
    ASSUME RType, NEW t \in Threads, Running(t),
           NEW h \in Handles, Call(t, ResolveCall(h, Top(t).ctx, None)),
           Waiting(program, Top(t)),
           UNCHANGED <<program, counter, execs, outcome>>
    PROVE  RType'
<1>1. IsContext(Top(t).ctx)
  BY TopFrame DEF Frame
<1>2. FrameOK(program, execs, ResolveCall(h, Top(t).ctx, None))
  BY <1>1, NewResolveFrame DEF Handles, ResultOrNone
<1>3. Registered
  BY Unregistered
<1> QED
  BY <1>2, <1>3, CallType

LEMMA ResolveIntoType ==
    ASSUME NoneIsNoResult, RType, UNCHANGED program, NEW t \in Threads, ResolveInto(t)
    PROVE  RType'
<1>1. Running(t) /\ Registered
  BY Unregistered DEF ResolveInto, In
<1>2. PICK r : IsResult(r) /\ Return(t, r)
  BY Results DEF ResolveInto
<1> QED
  BY <1>1, <1>2, ReturnedType

LEMMA StepBindType ==
    ASSUME RType, UNCHANGED program, NEW t \in Threads, StepBind(t)
    PROVE  RType'
<1>1. Running(t) /\ Top(t).op = "resolve"
  BY DEF StepBind, In
<1>2. Top(t).h \in program.handles
  BY <1>1, TopFrame DEF FrameOK, ResolveFrame, ExecuteFrame, BodyFrame
<1>3. program.input[Top(t).h] \in Handles
  BY <1>2, ProgramFacts DEF StepBind, IsProgram, Handles
<1> QED
  BY <1>1, <1>3, CallResolveType DEF StepBind, In, Waiting

LEMMA TakeInstanceType ==
    ASSUME RType, UNCHANGED program, NEW t \in Threads, TakeInstance(t)
    PROVE  RType'
<1>1. PICK f : f = Top(t)
  OBVIOUS
<1>2. Running(t) /\ f.op = "resolve" /\ (program.kind[f.h] = "node" \/ f.in # None)
  BY <1>1 DEF TakeInstance, In
<1>3. Frame(f) /\ ResolveFrame(program, execs, f)
  BY <1>1, <1>2, TopFrame DEF FrameOK, ExecuteFrame, BodyFrame
<1>4. PICK d : d = program.def[f.h]
  OBVIOUS
<1>5. d \in program.defs
  BY <1>2, <1>3, <1>4, ProgramFacts DEF IsProgram, ResolveFrame
<1>6. PICK c : c = CounterOf(f.ctx, d)
  OBVIOUS
<1>7. Count(c) \in Nat
  BY DEF Count, RType, CountersOK
<1>8. counter' = Put(counter, c, Count(c) + 1)
  BY <1>1, <1>4, <1>6 DEF TakeInstance
<1>9. CountersOK(counter')
  BY <1>7, <1>8 DEF RType, CountersOK, Put
<1>10. PICK g : g = [f EXCEPT !.at = "setPath",
                       !.path = Append(f.ctx.base, <<program.id[d], Count(c)>>)]
  OBVIOUS
<1>11. /\ f.ctx.base \in Seq(STRING \X Nat)
       /\ <<program.id[d], Count(c)>> \in STRING \X Nat
  BY <1>3, <1>5, <1>7, ProgramFacts DEF IsProgram, Frame, IsContext, NodePaths
<1>12. PICK p : p = Append(f.ctx.base, <<program.id[d], Count(c)>>)
  OBVIOUS
<1>13. p \in NodePaths /\ Front(p) = f.ctx.base
  BY <1>11, <1>12, FrontOfAppend, AppendProperties DEF NodePaths
<1>14. g = [op |-> f.op, at |-> "setPath", h |-> f.h, ctx |-> f.ctx, in |-> f.in,
            path |-> p, key |-> f.key, futures |-> f.futures, ret |-> f.ret]
  BY <1>3, <1>10, <1>12 DEF Frame
<1>15. FrameOK(program, execs, g)
  BY <1>2, <1>3, <1>13, <1>14 DEF FrameOK, Frame, ResolveFrame
<1>16. SetTop(t, g) /\ UNCHANGED <<execs, outcome>>
  BY <1>1, <1>4, <1>6, <1>10 DEF TakeInstance
<1>17. Registered
  BY <1>9, <1>16 DEF RType, Registered, Grows
<1> QED
  BY <1>2, <1>15, <1>16, <1>17, SetTopType

\* What the innermost call is.
LEMMA InResolve ==
    ASSUME RType, NEW t \in Threads, NEW at, In(t, "resolve", at)
    PROVE  /\ Running(t) /\ Top(t).op = "resolve" /\ Top(t).at = at
           /\ Frame(Top(t)) /\ ResolveFrame(program, execs, Top(t))
BY TopFrame DEF In, FrameOK, ExecuteFrame, BodyFrame

LEMMA InExecute ==
    ASSUME RType, NEW t \in Threads, NEW at, In(t, "execute", at)
    PROVE  /\ Running(t) /\ Top(t).op = "execute" /\ Top(t).at = at
           /\ Frame(Top(t)) /\ ExecuteFrame(execs, Top(t))
           /\ ExecOK(program, Top(t).key, execs[Top(t).key])
<1>1. /\ Running(t) /\ Top(t).op = "execute" /\ Top(t).at = at
      /\ Frame(Top(t)) /\ ExecuteFrame(execs, Top(t))
  BY TopFrame DEF In, FrameOK, ResolveFrame, BodyFrame
<1> QED
  BY <1>1 DEF RType, ExecsOK, ExecuteFrame

LEMMA InBodyCall ==
    ASSUME RType, NEW t \in Threads, InBody(t)
    PROVE  Running(t) /\ Top(t).op = "body" /\ Frame(Top(t)) /\ BodyFrame(program, execs, Top(t))
BY TopFrame DEF InBody, FrameOK, ResolveFrame, ExecuteFrame

LEMMA BindStartsType ==
    ASSUME NoneIsNoResult, RType, UNCHANGED program, NEW t \in Threads, BindStarts(t)
    PROVE  RType'
<1>1. /\ Running(t) /\ Frame(Top(t)) /\ ResolveFrame(program, execs, Top(t))
      /\ Top(t).at = "start" /\ Top(t).ret # None /\ UNCHANGED <<counter, execs>>
  BY InResolve DEF BindStarts
<1>2. Registered
  BY <1>1, Unregistered
<1>3. ASSUME NEW v, SetTop(t, ResolveCall(Top(t).h, Top(t).ctx, Ok(v))), UNCHANGED outcome
      PROVE  RType'
  <2>1. FrameOK(program, execs, ResolveCall(Top(t).h, Top(t).ctx, Ok(v)))
    BY <1>1, Results, NewResolveFrame DEF ResolveFrame, Frame, ResultOrNone
  <2> QED
    BY <1>1, <1>2, <1>3, <2>1, SetTopType
<1>4. ASSUME NEW r, IsResult(r), Return(t, r)
      PROVE  RType'
  BY <1>1, <1>2, <1>4, ReturnedType
<1>5. IsResult(Top(t).ret)
  BY <1>1 DEF Frame, ResultOrNone
<1> QED
  BY <1>3, <1>4, <1>5, Results DEF BindStarts

LEMMA SetPathType ==
    ASSUME RType, UNCHANGED program, NEW t \in Threads, SetPath(t)
    PROVE  RType'
<1>1. PICK f : f = Top(t)
  OBVIOUS
<1>2. /\ Running(t) /\ Frame(f) /\ ResolveFrame(program, execs, f)
      /\ f.at = "setPath" /\ UNCHANGED <<counter, execs, outcome>>
  BY <1>1, InResolve DEF SetPath
<1>3. PICK g : g = [f EXCEPT !.at = "lookup"]
  OBVIOUS
<1>4. g = [op |-> f.op, at |-> "lookup", h |-> f.h, ctx |-> f.ctx, in |-> f.in,
           path |-> f.path, key |-> f.key, futures |-> f.futures, ret |-> f.ret]
  BY <1>2, <1>3 DEF Frame
<1>5. FrameOK(program, execs, g)
  BY <1>2, <1>4 DEF FrameOK, Frame, ResolveFrame
<1>6. SetTop(t, g)
  BY <1>1, <1>3 DEF SetPath
<1> QED
  BY <1>2, <1>5, <1>6, SetTopType, Unregistered

\* A new executioner is put where there was none.
LEMMA ExecsPut ==
    ASSUME NEW p, NEW ex, ExecsOK(p, ex), NEW k, k \notin DOMAIN ex, NEW e, ExecOK(p, k, e)
    PROVE  ExecsOK(p, Put(ex, k, e)) /\ Grows(ex, Put(ex, k, e))
BY DEF ExecsOK, Put, Grows

LEMMA GetOrCreateType ==
    ASSUME RType, UNCHANGED program, NEW t \in Threads, GetOrCreate(t)
    PROVE  RType'
<1>1. PICK f : f = Top(t)
  OBVIOUS
<1>2. /\ Running(t) /\ Frame(f) /\ ResolveFrame(program, execs, f)
      /\ f.at = "lookup" /\ UNCHANGED <<counter, outcome>>
  BY <1>1, InResolve DEF GetOrCreate
<1>3. PICK k : k = <<f.ctx.run, f.ctx.reg, f.path>>
  OBVIOUS
<1>4. PICK e : e = NewExecutioner(f.h, f.ctx, f.in)
  OBVIOUS
<1>5. /\ execs' = IF k \in DOMAIN execs THEN execs ELSE Put(execs, k, e)
      /\ SetTop(t, [f EXCEPT !.at = "getResult", !.key = k])
  BY <1>1, <1>3, <1>4 DEF GetOrCreate
<1>6. ExecOK(program, k, e)
  <2>1. f.h \in program.handles /\ program.def[f.h] \in program.defs
    BY <1>2, ProgramFacts DEF ResolveFrame, IsProgram
  <2>2. IsContext(f.ctx) /\ ResultOrNone(f.in) /\ f.path \in NodePaths
        /\ Front(f.path) = f.ctx.base
    BY <1>2 DEF Frame, ResolveFrame
  <2> QED
    BY <1>3, <1>4, <2>1, <2>2 DEF ExecOK, NewExecutioner, ResultOrNone
<1>7. Registered /\ k \in DOMAIN execs'
  <2>1. CASE k \in DOMAIN execs
    BY <1>2, <1>5, <2>1, Unregistered
  <2>2. CASE k \notin DOMAIN execs
    <3>1. execs' = Put(execs, k, e)
      BY <1>5, <2>2
    <3>2. ExecsOK(program, execs') /\ Grows(execs, execs')
      BY <1>6, <2>2, <3>1, ExecsPut DEF RType
    <3> QED
      BY <1>2, <3>1, <3>2 DEF RType, Registered, Put
  <2> QED
    BY <2>1, <2>2
<1>8. PICK g : g = [f EXCEPT !.at = "getResult", !.key = k]
  OBVIOUS
<1>9. g = [op |-> f.op, at |-> "getResult", h |-> f.h, ctx |-> f.ctx, in |-> f.in,
           path |-> f.path, key |-> k, futures |-> f.futures, ret |-> f.ret]
  BY <1>2, <1>8 DEF Frame
<1>10. FrameOK(program, execs', g)
  BY <1>2, <1>7, <1>9 DEF FrameOK, Frame, ResolveFrame
<1> QED
  BY <1>2, <1>5, <1>7, <1>8, <1>10, SetTopType

LEMMA StartsType ==
    ASSUME RType, UNCHANGED <<program, counter>>, NEW t \in Threads, Running(t),
           Waiting(program, Top(t)), NEW k \in DOMAIN execs, StartExecution(t, k)
    PROVE  RType'
<1>1. PICK e : e = execs[k]
  OBVIOUS
<1>2. ExecOK(program, k, e) /\ e.state = "new" /\ execs' = [execs EXCEPT ![k].state = "running"]
  BY <1>1 DEF RType, ExecsOK, StartExecution
<1>3. execs'[k] = [h |-> e.h, ctx |-> e.ctx, in |-> e.in, state |-> "running",
                   result |-> e.result]
  BY <1>1, <1>2 DEF ExecOK, RType, ExecsOK
<1>4. /\ execs' = [j \in DOMAIN execs |-> execs'[j]]
      /\ \A j \in DOMAIN execs : j # k => execs'[j] = execs[j]
  BY <1>2 DEF RType, ExecsOK
<1>5. ExecOK(program, k, execs'[k])
  BY <1>2, <1>3 DEF ExecOK
<1>6. ExecsOK(program, execs') /\ Grows(execs, execs')
  BY <1>1, <1>3, <1>4, <1>5 DEF ExecsOK, RType, Grows
<1>7. Registered
  BY <1>6 DEF RType, Registered
<1>8. FrameOK(program, execs', ExecuteCall(k))
  BY <1>1, <1>2, <1>3, <1>4
     DEF FrameOK, Frame, ExecuteFrame, ExecuteCall, ExecOK, ResultOrNone
<1> QED
  BY <1>7, <1>8, CallType DEF StartExecution

LEMMA GetResultType ==
    ASSUME NoneIsNoResult, RType, UNCHANGED program, NEW t \in Threads, GetResult(t)
    PROVE  RType'
<1>1. PICK k : k = Top(t).key
  OBVIOUS
<1>2. /\ Running(t) /\ Top(t).at = "getResult" /\ k \in DOMAIN execs
      /\ UNCHANGED <<program, counter>>
  BY <1>1, InResolve DEF GetResult, ResolveFrame
<1>3. CASE StartExecution(t, k)
  BY <1>2, <1>3, StartsType DEF Waiting
<1>4. CASE execs[k].state = "done" /\ Return(t, execs[k].result) /\ UNCHANGED execs
  <2>1. IsResult(execs[k].result)
    BY <1>2, <1>4 DEF RType, ExecsOK, ExecOK, ResultOrNone
  <2> QED
    BY <1>2, <1>4, <2>1, ReturnedType, Unregistered
<1> QED
  BY <1>1, <1>3, <1>4 DEF GetResult

LEMMA FinishType ==
    ASSUME NoneIsNoResult, RType, UNCHANGED <<program, counter>>, NEW t \in Threads,
           NEW at, In(t, "execute", at), NEW r, IsResult(r), Finish(t, r)
    PROVE  RType'
<1>1. PICK k : k = Top(t).key
  OBVIOUS
<1>2. PICK e : e = execs[k]
  OBVIOUS
<1>3. Running(t) /\ k \in DOMAIN execs /\ ExecOK(program, k, e)
  BY <1>1, <1>2, InExecute DEF ExecuteFrame
<1>4. execs' = [execs EXCEPT ![k].state = "done", ![k].result = r]
  BY <1>1 DEF Finish
<1>5. execs'[k] = [h |-> e.h, ctx |-> e.ctx, in |-> e.in, state |-> "done", result |-> r]
  BY <1>2, <1>3, <1>4 DEF ExecOK, RType, ExecsOK
<1>6. /\ execs' = [j \in DOMAIN execs |-> execs'[j]]
      /\ \A j \in DOMAIN execs : j # k => execs'[j] = execs[j]
  BY <1>4 DEF RType, ExecsOK
<1>7. ExecOK(program, k, execs'[k])
  BY <1>3, <1>5 DEF ExecOK, ResultOrNone, NoneIsNoResult
<1>8. ExecsOK(program, execs') /\ Grows(execs, execs')
  BY <1>2, <1>5, <1>6, <1>7 DEF ExecsOK, RType, Grows
<1>9. Registered
  BY <1>8 DEF RType, Registered
<1> QED
  BY <1>3, <1>9, ReturnedType DEF Finish

\* An execution goes on to run with the input v.
LEMMA RunsType ==
    ASSUME NoneIsNoResult, RType, NEW t \in Threads, In(t, "execute", "input"),
           NEW in, IsResult(in), NEW ret, ResultOrNone(ret),
           SetTop(t, [Top(t) EXCEPT !.at = "run", !.in = in, !.ret = ret]),
           UNCHANGED <<program, counter, execs, outcome>>
    PROVE  RType'
<1>1. PICK f : f = Top(t)
  OBVIOUS
<1>2. Running(t) /\ Frame(f) /\ ExecuteFrame(execs, f)
  BY <1>1, InExecute
<1>3. PICK g : g = [f EXCEPT !.at = "run", !.in = in, !.ret = ret]
  OBVIOUS
<1>4. g = [op |-> f.op, at |-> "run", h |-> f.h, ctx |-> f.ctx, in |-> in,
           path |-> f.path, key |-> f.key, futures |-> f.futures, ret |-> ret]
  BY <1>2, <1>3 DEF Frame
<1>5. in # None
  BY DEF NoneIsNoResult
<1>6. FrameOK(program, execs, g)
  BY <1>2, <1>4, <1>5 DEF FrameOK, Frame, ExecuteFrame, ResultOrNone
<1> QED
  BY <1>1, <1>2, <1>3, <1>6, SetTopType, Unregistered

LEMMA NoInputToResolveType ==
    ASSUME NoneIsNoResult, RType, UNCHANGED program, NEW t \in Threads, NoInputToResolve(t)
    PROVE  RType'
<1>1. In(t, "execute", "input") /\ UNCHANGED <<counter, execs, outcome>>
  BY DEF NoInputToResolve
<1>2. Frame(Top(t)) /\ ExecOK(program, Top(t).key, execs[Top(t).key])
  BY <1>1, InExecute
<1>3. PICK in : in = IF execs[Top(t).key].in # None THEN execs[Top(t).key].in ELSE Ok(<<>>)
  OBVIOUS
<1>4. IsResult(in)
  BY <1>2, <1>3, Results DEF ExecOK, ResultOrNone
<1>5. PICK ret : ret = Top(t).ret
  OBVIOUS
<1>6. ResultOrNone(ret)
  BY <1>2, <1>5 DEF Frame
<1>7. [Top(t) EXCEPT !.at = "run", !.in = in] = [Top(t) EXCEPT !.at = "run", !.in = in, !.ret = ret]
  BY <1>2, <1>5 DEF Frame
<1>8. SetTop(t, [Top(t) EXCEPT !.at = "run", !.in = in, !.ret = ret])
  BY <1>3, <1>7 DEF NoInputToResolve
<1> QED
  BY <1>1, <1>4, <1>6, <1>8, RunsType

LEMMA ResolveInputType ==
    ASSUME RType, UNCHANGED program, NEW t \in Threads, ResolveInput(t)
    PROVE  RType'
<1>1. In(t, "execute", "input") /\ UNCHANGED <<counter, execs, outcome>>
      /\ Call(t, ResolveCall(InputOf(t), Top(t).ctx, None)) /\ InputOf(t) # None
  BY DEF ResolveInput
<1>2. Running(t) /\ Top(t).op = "execute" /\ ExecOK(program, Top(t).key, execs[Top(t).key])
  BY <1>1, InExecute
<1>3. InputOf(t) \in Handles
  BY <1>1, <1>2, ProgramFacts DEF InputOf, ExecOK, IsProgram, Handles
<1> QED
  BY <1>1, <1>2, <1>3, CallResolveType DEF Waiting

LEMMA InputResolvedType ==
    ASSUME NoneIsNoResult, RType, UNCHANGED program, NEW t \in Threads, InputResolved(t)
    PROVE  RType'
<1>1. In(t, "execute", "input") /\ Top(t).ret # None /\ UNCHANGED counter
  BY DEF InputResolved
<1>2. PICK r : r = Top(t).ret
  OBVIOUS
<1>3. IsResult(r)
  BY <1>1, <1>2, InExecute DEF Frame, ResultOrNone
<1>4. CASE SetTop(t, [Top(t) EXCEPT !.at = "run", !.in = r, !.ret = None])
           /\ UNCHANGED <<execs, outcome>>
  BY <1>1, <1>3, <1>4, RunsType DEF ResultOrNone
<1>5. CASE Finish(t, r)
  BY <1>1, <1>3, <1>5, FinishType
<1> QED
  BY <1>2, <1>4, <1>5 DEF InputResolved

LEMMA LeafReturnsType ==
    ASSUME NoneIsNoResult, RType, UNCHANGED program, NEW t \in Threads, LeafReturns(t)
    PROVE  RType'
<1>1. In(t, "execute", "run") /\ UNCHANGED counter
  BY DEF LeafReturns
<1>2. PICK r : IsResult(r) /\ Finish(t, r)
  BY Results DEF LeafReturns
<1> QED
  BY <1>1, <1>2, FinishType

LEMMA BodyReturnedType ==
    ASSUME NoneIsNoResult, RType, UNCHANGED program, NEW t \in Threads, BodyReturned(t)
    PROVE  RType'
<1>1. In(t, "execute", "run") /\ UNCHANGED counter /\ Finish(t, Top(t).ret)
  BY DEF BodyReturned
<1>2. IsResult(Top(t).ret)
  BY <1>1, InExecute DEF BodyReturned, Frame, ResultOrNone
<1> QED
  BY <1>1, <1>2, FinishType

LEMMA EmptySequence == IsSeq(<<>>) /\ Len(<<>>) = 0 /\ DOMAIN <<>> = {}
<1>1. <<>> \in Seq({}) /\ Len(<<>>) = 0
  BY EmptySeq
<1>2. IsSeq(<<>>)
  BY <1>1, SomeSeq
<1> QED
  BY <1>1, <1>2, SeqFacts

\* The body of a definition that starts.
LEMMA NewBodyFrame ==
    ASSUME NEW p \in Programs, NEW ex, NEW d \in p.defs, NEW ctx, IsContext(ctx),
           NEW in, IsResult(in), NoneIsNoResult
    PROVE  FrameOK(p, ex, BodyCall(d, ctx, in))
<1>1. p.fans[d] \in Seq(p.handles)
  BY ProgramsAssumption DEF IsProgram
<1>2. Len(p.fans[d]) \in Nat
  BY <1>1
<1>3. PICK f : f = BodyCall(d, ctx, in)
  OBVIOUS
<1>4. f = [op |-> "body", at |-> d, h |-> None, ctx |-> ctx, in |-> in,
           path |-> <<>>, key |-> <<>>, futures |-> <<>>, ret |-> None]
  BY <1>3 DEF BodyCall
<1>5. Frame(f)
  BY <1>4 DEF Frame, ResultOrNone
<1>6. in # None
  BY DEF NoneIsNoResult
<1>7. BodyFrame(p, ex, f)
  BY <1>2, <1>4, <1>6, EmptySequence DEF BodyFrame
<1> QED
  BY <1>3, <1>5, <1>7 DEF FrameOK

LEMMA CallBodyType ==
    ASSUME NoneIsNoResult, RType, UNCHANGED program, NEW t \in Threads, CallBody(t)
    PROVE  RType'
<1>1. In(t, "execute", "run") /\ UNCHANGED <<counter, execs, outcome>>
  BY DEF CallBody
<1>2. PICK f : f = Top(t)
  OBVIOUS
<1>3. /\ Running(t) /\ f.op = "execute" /\ Frame(f) /\ ExecuteFrame(execs, f)
      /\ f.at = "run" /\ ExecOK(program, f.key, execs[f.key])
  BY <1>1, <1>2, InExecute
<1>4. PICK d \in program.defs : d = DefOf(t)
  BY <1>2, <1>3 DEF DefOf, ExecOK
<1>5. PICK ctx : ctx = BodyCtx(d, f.ctx, f.path)
  OBVIOUS
<1>6. IsContext(ctx)
  BY <1>3, <1>5 DEF BodyCtx, IsContext, Ctx, ExecuteFrame, ExecOK
<1>7. IsResult(f.in)
  BY <1>3 DEF ExecuteFrame, Frame, ResultOrNone
<1>8. FrameOK(program, execs, BodyCall(d, ctx, f.in))
  BY <1>4, <1>6, <1>7, NewBodyFrame DEF RType
<1>9. Call(t, BodyCall(d, ctx, f.in))
  BY <1>2, <1>4, <1>5 DEF CallBody
<1> QED
  BY <1>1, <1>2, <1>3, <1>8, <1>9, CallType, Unregistered DEF Waiting

LEMMA FanInResolvesType ==
    ASSUME RType, UNCHANGED program, NEW t \in Threads, FanInResolves(t)
    PROVE  RType'
<1>1. FansNext(t) /\ Call(t, ResolveCall(NextFan(t), Top(t).ctx, None))
      /\ UNCHANGED <<counter, execs, outcome>>
  BY DEF FanInResolves
<1>2. Running(t) /\ Top(t).op = "body" /\ BodyFrame(program, execs, Top(t))
  BY <1>1, InBodyCall DEF FansNext
<1>3. NextFan(t) \in Handles
  <2>1. PICK s \in Seq(program.handles) : s = Fans(t)
    BY <1>2, ProgramFacts DEF Fans, BodyFrame, IsProgram
  <2>2. PICK u : u = Futures(t)
    OBVIOUS
  <2>3. Len(u) \in Nat /\ Len(u) < Len(s)
    BY <1>1, <1>2, <2>1, <2>2, SeqFacts DEF BodyFrame, Futures, FansNext
  <2>4. Len(s) \in Nat
    BY <2>1, LenProperties
  <2>5. Len(u) + 1 \in 1..Len(s)
    BY <2>3, <2>4
  <2>6. s[Len(u) + 1] \in program.handles
    BY <2>5, ElementOfSeq
  <2> QED
    BY <2>1, <2>2, <2>6 DEF NextFan, Handles
<1> QED
  BY <1>1, <1>2, <1>3, CallResolveType DEF Waiting

\* A future is of an executioner that is registered, or has its result.
LEMMA FutureType ==
    ASSUME NoneIsNoResult, NEW ctx, NEW h, NEW r, IsResult(r)
    PROVE  FutureOK(execs, FutureFor(ctx, h, r))
<1>1. PICK k : k = <<ctx.run, ctx.reg, path[<<ctx, h>>]>>
  OBVIOUS
<1>2. \/ FutureFor(ctx, h, r) = Future(None, r, r)
      \/ FutureFor(ctx, h, r) = Future(None, Err({}), r)
      \/ k \in DOMAIN execs /\ FutureFor(ctx, h, r) = Future(k, None, r)
  BY <1>1 DEF FutureFor
<1>3. r # None /\ Err({}) # None /\ IsResult(Err({}))
  BY Results DEF NoneIsNoResult
<1> QED
  BY <1>2, <1>3 DEF FutureOK, Future, ResultOrNone

LEMMA FanInReturnsType ==
    ASSUME NoneIsNoResult, RType, UNCHANGED program, NEW t \in Threads, FanInReturns(t)
    PROVE  RType'
<1>1. PICK f : f = Top(t)
  OBVIOUS
<1>2. /\ InBody(t) /\ Len(f.futures) < Len(program.fans[f.at]) /\ f.ret # None
      /\ UNCHANGED <<counter, execs, outcome>>
  BY <1>1 DEF FanInReturns, FansNext, Futures, Fans
<1>3. Running(t) /\ Frame(f) /\ BodyFrame(program, execs, f)
  BY <1>1, <1>2, InBodyCall
<1>4. PICK u : u = FutureFor(f.ctx, NextFan(t), f.ret)
  OBVIOUS
<1>5. FutureOK(execs, u)
  BY <1>2, <1>3, <1>4, FutureType DEF Frame, ResultOrNone
<1>6. PICK s : s = f.futures
  OBVIOUS
<1>7. IsSeq(s) /\ Len(s) \in Nat /\ DOMAIN s = 1..Len(s)
  BY <1>3, <1>6, SeqFacts DEF BodyFrame
<1>8. PICK us : us = Append(s, u)
  OBVIOUS
<1>9. IsSeq(us) /\ Len(us) = Len(s) + 1 /\ us[Len(s) + 1] = u
      /\ \A i \in 1..Len(s) : us[i] = s[i]
  BY <1>7, <1>8, Appended
<1>10. DOMAIN us = 1..Len(us)
  BY <1>9, SeqFacts
<1>11. ASSUME NEW j \in DOMAIN us PROVE FutureOK(execs, us[j])
  <2>1. j = Len(s) + 1 \/ j \in 1..Len(s)
    BY <1>7, <1>9, <1>10
  <2> QED
    BY <1>3, <1>5, <1>6, <1>7, <1>9, <2>1 DEF BodyFrame
<1>12. Len(us) <= Len(program.fans[f.at])
  <2>1. PICK n \in Nat : n = Len(program.fans[f.at])
    BY <1>3, ProgramFacts, LenProperties DEF BodyFrame, IsProgram
  <2>2. Len(s) < n
    BY <1>2, <1>6, <2>1
  <2>3. Len(us) <= n
    BY <1>7, <1>9, <2>2
  <2> QED
    BY <2>1, <2>3
<1>13. PICK g : g = [f EXCEPT !.ret = None, !.futures = us]
  OBVIOUS
<1>14. g = [op |-> f.op, at |-> f.at, h |-> f.h, ctx |-> f.ctx, in |-> f.in,
            path |-> f.path, key |-> f.key, futures |-> us, ret |-> None]
  BY <1>3, <1>13 DEF Frame
<1>15. FrameOK(program, execs, g)
  BY <1>3, <1>9, <1>11, <1>12, <1>14 DEF FrameOK, Frame, BodyFrame, ResultOrNone
<1>16. SetTop(t, g)
  BY <1>1, <1>3, <1>4, <1>6, <1>8, <1>13 DEF FanInReturns, Frame
<1> QED
  BY <1>2, <1>3, <1>15, <1>16, SetTopType, Unregistered

LEMMA GetFutureType ==
    ASSUME NoneIsNoResult, RType, UNCHANGED program, NEW t \in Threads, GetFuture(t)
    PROVE  RType'
<1>1. PICK f : f = Top(t)
  OBVIOUS
<1>2. /\ Running(t) /\ f.op = "body" /\ Frame(f) /\ BodyFrame(program, execs, f)
      /\ UNCHANGED counter
  BY <1>1, InBodyCall DEF GetFuture
<1>3. PICK i \in DOMAIN f.futures :
         /\ f.futures[i].res = None
         /\ \/ StartExecution(t, f.futures[i].key)
            \/ /\ execs[f.futures[i].key].state = "done"
               /\ SetTop(t, [f EXCEPT !.ret = None,
                                      !.futures[i].res = execs[f.futures[i].key].result])
               /\ UNCHANGED <<execs, outcome>>
  BY <1>1 DEF GetFuture, Pending, Futures
<1>4. PICK k : k = f.futures[i].key
  OBVIOUS
<1>5. FutureOK(execs, f.futures[i]) /\ k \in DOMAIN execs
  BY <1>2, <1>3, <1>4 DEF BodyFrame, FutureOK
<1>6. CASE StartExecution(t, k)
  BY <1>1, <1>2, <1>5, <1>6, StartsType DEF Waiting
<1>7. CASE /\ execs[k].state = "done"
           /\ SetTop(t, [f EXCEPT !.ret = None, !.futures[i].res = execs[k].result])
           /\ UNCHANGED <<execs, outcome>>
  <2>1. PICK r : r = execs[k].result
    OBVIOUS
  <2>2. IsResult(r) /\ r # None
    BY <1>5, <1>7, <2>1 DEF RType, ExecsOK, ExecOK, ResultOrNone
  <2>3. PICK us : us = [f.futures EXCEPT ![i].res = r]
    OBVIOUS
  <2>4. PICK s : s = f.futures
    OBVIOUS
  <2>5. IsSeq(s) /\ DOMAIN s = 1..Len(s) /\ Len(s) \in Nat
    BY <1>2, <2>4, SeqFacts DEF BodyFrame
  <2>6. PICK v : v = [s[i] EXCEPT !.res = r]
    OBVIOUS
  <2>7. v = Future(s[i].key, r, s[i].seen)
    BY <1>5, <2>4, <2>6 DEF FutureOK, Future
  <2>8. us = [s EXCEPT ![i] = v] /\ i \in 1..Len(s)
    BY <1>3, <2>3, <2>4, <2>5, <2>6
  <2>9. IsSeq(us) /\ Len(us) = Len(s) /\ \A j \in 1..Len(s) : us[j] = IF j = i THEN v ELSE s[j]
    <3>1. PICK S : S = ToSet(s) \cup {v}
      OBVIOUS
    <3>2. s \in Seq(S) /\ v \in S
      BY <2>5, <3>1, SeqMonotonic DEF IsSeq
    <3>3. /\ us \in Seq(S) /\ Len(us) = Len(s)
          /\ \A j \in 1..Len(s) : us[j] = IF j = i THEN v ELSE s[j]
      BY <2>8, <3>2, ExceptSeq
    <3> QED
      BY <3>3, SomeSeq
  <2>10. FutureOK(execs, v)
    BY <2>2, <2>7 DEF FutureOK, Future, ResultOrNone
  <2>11. \A j \in DOMAIN us : FutureOK(execs, us[j])
    BY <1>2, <2>4, <2>5, <2>9, <2>10, SeqFacts DEF BodyFrame
  <2>12. PICK g : g = [f EXCEPT !.ret = None, !.futures[i].res = r]
    OBVIOUS
  <2>13. g = [op |-> f.op, at |-> f.at, h |-> f.h, ctx |-> f.ctx, in |-> f.in,
              path |-> f.path, key |-> f.key, futures |-> us, ret |-> None]
    BY <1>2, <2>3, <2>12 DEF Frame
  <2>14. FrameOK(program, execs, g)
    BY <1>2, <2>4, <2>9, <2>11, <2>13 DEF FrameOK, Frame, BodyFrame, ResultOrNone
  <2> QED
    BY <1>2, <1>7, <2>1, <2>12, <2>14, SetTopType, Unregistered
<1> QED
  BY <1>3, <1>4, <1>6, <1>7

LEMMA BodyEndsType ==
    ASSUME NoneIsNoResult, RType, UNCHANGED program, NEW t \in Threads,
           BodyFails(t) \/ BodyCombines(t)
    PROVE  RType'
<1>1. InBody(t) /\ UNCHANGED <<counter, execs>>
  BY DEF BodyFails, BodyCombines, AllGot, Got
<1>2. PICK r : IsResult(r) /\ Return(t, r)
  BY Results DEF BodyFails, BodyCombines
<1> QED
  BY <1>1, <1>2, InBodyCall, ReturnedType, Unregistered

LEMMA ResolveFinalType ==
    ASSUME NoneIsNoResult, RType, UNCHANGED program, NEW t \in Threads, ResolveFinal(t)
    PROVE  RType'
<1>1. InBody(t) /\ FinalOf(t) # None /\ UNCHANGED <<counter, execs>>
  BY DEF ResolveFinal, Got
<1>2. /\ Running(t) /\ Top(t).op = "body" /\ Frame(Top(t))
      /\ BodyFrame(program, execs, Top(t))
  BY <1>1, InBodyCall
<1>3. FinalOf(t) \in Handles
  BY <1>1, <1>2, ProgramFacts DEF FinalOf, BodyFrame, IsProgram, Handles
<1>4. CASE Call(t, ResolveCall(FinalOf(t), Top(t).ctx, None)) /\ UNCHANGED outcome
  BY <1>1, <1>2, <1>3, <1>4, CallResolveType DEF Waiting
<1>5. CASE Top(t).ret # None /\ Return(t, Top(t).ret)
  BY <1>1, <1>2, <1>5, ReturnedType, Unregistered DEF Frame, ResultOrNone
<1> QED
  BY <1>4, <1>5 DEF ResolveFinal

LEMMA NextType ==
    ASSUME NoneIsNoResult, RType, [Next]_<<program, vars>>
    PROVE  RType'
<1>1. CASE UNCHANGED <<program, vars>>
  BY <1>1 DEF vars, RType, StacksOK, Under
<1>2. ASSUME NEW t \in Threads, Resolve(t), UNCHANGED program
      PROVE  RType'
  BY <1>2, ResolveIntoType, StepBindType, BindStartsType, TakeInstanceType, SetPathType,
     GetOrCreateType, GetResultType DEF Resolve
<1>3. ASSUME NEW t \in Threads, Execute(t) \/ LeafReturns(t), UNCHANGED program
      PROVE  RType'
  BY <1>3, NoInputToResolveType, ResolveInputType, InputResolvedType, CallBodyType,
     BodyReturnedType, LeafReturnsType DEF Execute
<1>4. ASSUME NEW t \in Threads, Body(t), UNCHANGED program
      PROVE  RType'
  BY <1>4, FanInResolvesType, FanInReturnsType, GetFutureType, BodyEndsType,
     ResolveFinalType DEF Body
<1> QED
  BY <1>1, <1>2, <1>3, <1>4 DEF Next, Framework, Terminated

LEMMA InitType ==
    ASSUME NoneIsNoResult, Init
    PROVE  RType
<1>1. program \in Programs /\ counter = <<>> /\ execs = <<>>
  BY DEF Init
<1>2. CountersOK(counter) /\ ExecsOK(program, execs)
  BY <1>1, EmptySequence DEF CountersOK, ExecsOK
<1>3. ASSUME NEW t \in Threads
      PROVE  /\ IsSeq(stack[t]) /\ Len(stack[t]) = 1 /\ stack[t] # <<>>
             /\ FrameOK(program, execs, stack[t][1])
             /\ outcome[t] = None
  <2>1. PICK f : f = BodyCall(program.main[t].def, program.main[t].ctx, Ok(<<>>))
    OBVIOUS
  <2>2. stack[t] = <<f>> /\ outcome[t] = None
    BY <2>1 DEF Init
  <2>3. program.main[t].def \in program.defs /\ IsContext(program.main[t].ctx)
    BY <1>1, ProgramsAssumption DEF IsProgram
  <2>4. FrameOK(program, execs, f)
    BY <1>1, <2>1, <2>3, NewBodyFrame, Results
  <2>5. <<f>> \in Seq({f}) /\ Len(<<f>>) = 1 /\ <<f>>[1] = f
    OBVIOUS
  <2>6. IsSeq(<<f>>)
    BY <2>5, SomeSeq
  <2>7. <<f>> # <<>>
    BY <2>5, EmptySequence
  <2> QED
    BY <2>2, <2>4, <2>5, <2>6, <2>7
<1>4. StacksOK
  BY <1>3 DEF Init, StacksOK
<1>5. \A t \in Threads : \A i \in DOMAIN stack[t] : FrameOK(program, execs, stack[t][i])
  <2>1. TAKE t \in Threads
  <2>2. DOMAIN stack[t] = 1..1
    BY <1>3, SeqFacts
  <2> QED
    BY <1>3, <2>2
<1>6. \A t \in Threads : \A i \in Under(t) : FALSE
  <2>1. TAKE t \in Threads
  <2>2. Len(stack[t]) = 1
    BY <1>3
  <2>3. Under(t) = 1..0
    BY <2>2 DEF Under
  <2> QED
    BY <2>3
<1> QED
  BY <1>1, <1>2, <1>3, <1>4, <1>5, <1>6 DEF RType

\* The counters count, every executioner is under its own key and has a result when
\* it is done and not before, and a goroutine has returned or is in a call.
THEOREM TypeCorrect == NoneIsNoResult => (Spec => []TypeOK)
<1> SUFFICES ASSUME NoneIsNoResult PROVE Spec => []TypeOK
  OBVIOUS
<1>1. Init => RType
  BY InitType
<1>2. RType /\ [Next]_<<program, vars>> => RType'
  BY NextType
<1>3. RType => TypeOK
  <2> SUFFICES ASSUME RType PROVE TypeOK
    OBVIOUS
  <2>1. \A c \in DOMAIN counter : counter[c] \in Nat \ {0}
    BY DEF RType, CountersOK
  <2>2. ASSUME NEW k \in DOMAIN execs
        PROVE  LET e == execs[k]
               IN  /\ e.h \in Handles
                   /\ e.state \in {"new", "running", "done"}
                   /\ e.state = "done" <=> e.result # None
                   /\ e.result # None => IsResult(e.result)
                   /\ k[1] = e.ctx.run /\ k[2] = e.ctx.reg /\ Front(k[3]) = e.ctx.base
    <3>1. ExecOK(program, k, execs[k])
      BY DEF RType, ExecsOK
    <3> QED
      BY <3>1 DEF ExecOK, Handles, ResultOrNone
  <2>3. ASSUME NEW t \in Threads
        PROVE  /\ ~Running(t) <=> outcome[t] # None
               /\ \A i \in DOMAIN stack[t] :
                    stack[t][i].op \in {"resolve", "execute", "body"}
    BY DEF RType, Running, FrameOK, ResolveFrame, ExecuteFrame, BodyFrame
  <2> QED
    BY <2>1, <2>2, <2>3 DEF TypeOK
<1> QED
  BY <1>1, <1>2, <1>3, PTL DEF Spec

------------------------------------------------------------------------------
(* Paths.                                                                    *)

LEMMA ScopeFacts ==
    ASSUME NEW p \in Programs, NEW D \in p.defs
    PROVE  /\ ScopeOf(p, D) \subseteq Nodes(p)
           /\ \A i \in DOMAIN p.fans[D] :
                p.fans[D][i] \in Nodes(p) => p.fans[D][i] \in ScopeOf(p, D)
           /\ p.final[D] \in Nodes(p) => p.final[D] \in ScopeOf(p, D)
           /\ \A h \in ScopeOf(p, D) :
                p.input[h] \in Nodes(p) => p.input[h] \in ScopeOf(p, D)
<1>1. PICK scopes : scopes = {S \in SUBSET Nodes(p) : IsScope(p, D, S)}
  OBVIOUS
<1>2. \A h : h \in ScopeOf(p, D) <=> h \in Nodes(p) /\ \A S \in scopes : h \in S
  BY <1>1 DEF ScopeOf
<1>3. \A S \in scopes :
        /\ \A i \in DOMAIN p.fans[D] : p.fans[D][i] \in Nodes(p) => p.fans[D][i] \in S
        /\ p.final[D] \in Nodes(p) => p.final[D] \in S
        /\ \A h \in S : p.input[h] \in Nodes(p) => p.input[h] \in S
  BY <1>1 DEF IsScope, ToSet
<1>4. ASSUME NEW i \in DOMAIN p.fans[D], p.fans[D][i] \in Nodes(p)
      PROVE  p.fans[D][i] \in ScopeOf(p, D)
  BY <1>2, <1>3, <1>4
<1>5. p.final[D] \in Nodes(p) => p.final[D] \in ScopeOf(p, D)
  BY <1>2, <1>3
<1>6. ASSUME NEW h \in ScopeOf(p, D), p.input[h] \in Nodes(p)
      PROVE  p.input[h] \in ScopeOf(p, D)
  BY <1>2, <1>3, <1>6
<1> QED
  BY <1>2, <1>4, <1>5, <1>6

\* The Context of the body that the executioner e under k calls.
Inside(p, k, e) ==
    Ctx(e.ctx.run, k[3], IF p.type[p.def[e.h]] = "workflow" THEN k[3] ELSE e.ctx.reg)

\* The body of D runs with ctx.
Home(p, ex, ctx, D) ==
    \/ \E t \in Threads : p.main[t].ctx = ctx /\ p.main[t].def = D
    \/ \E k \in DOMAIN ex : ctx = Inside(p, k, ex[k]) /\ D = p.def[ex[k].h]

Placed(p, ex, h, ctx) == \E D \in p.defs : Home(p, ex, ctx, D) /\ h \in ScopeOf(p, D)

\* The path of a handle has a number its definition's counter gave away.
CountIn(cs, c) == IF c \in DOMAIN cs THEN cs[c] ELSE 0
CounterIn(p, ctx, d) == IF d \in p.local THEN <<ctx.run, ctx.base, d>> ELSE <<d>>
PathAt(p, ctx, h, n) == Append(ctx.base, <<p.id[p.def[h]], n>>)
Numbered(p, cs, x, ctx, h) ==
    \E n \in Nat : n < CountIn(cs, CounterIn(p, ctx, p.def[h])) /\ x = PathAt(p, ctx, h, n)

\* A call that has its path and did not ask the registry yet.
Claims(f) == f.op = "resolve" /\ f.at \in {"setPath", "lookup"}
Claimant(st, t) == st[t] # <<>> /\ Claims(Last(st[t]))

OneRegistry(ex) == \A j, k \in DOMAIN ex : j[1] = k[1] /\ j[3] = k[3] => j = k

BelowMains(p, ex) ==
    \A k \in DOMAIN ex : \A t \in Threads :
        p.main[t].ctx.run = k[1] => Len(k[3]) > Len(p.main[t].ctx.base)

ExecsPlaced(p, cs, ex) ==
    \A k \in DOMAIN ex : /\ Placed(p, ex, ex[k].h, ex[k].ctx)
                         /\ Numbered(p, cs, k[3], ex[k].ctx, ex[k].h)

FramePlaced(p, cs, ex, f) ==
    /\ f.op = "resolve" /\ f.h \in Nodes(p) => Placed(p, ex, f.h, f.ctx)
    /\ Claims(f) => Numbered(p, cs, f.path, f.ctx, f.h)
    /\ f.op = "resolve" /\ f.at = "getResult" => ex[f.key].h = f.h /\ ex[f.key].ctx = f.ctx
    /\ f.op = "body" => Home(p, ex, f.ctx, f.at)

\* No two calls have one path of one run, nor a call and an executioner.
Apart(st) ==
    \A t, u \in Threads : t # u /\ Claimant(st, t) /\ Claimant(st, u) =>
        \/ Last(st[t]).ctx.run # Last(st[u]).ctx.run
        \/ Last(st[t]).path # Last(st[u]).path
Free(st, ex) ==
    \A t \in Threads : Claimant(st, t) =>
        \A k \in DOMAIN ex : k[1] # Last(st[t]).ctx.run \/ k[3] # Last(st[t]).path

\* Whoever has the path that is on a handle has it for that handle.
Owned(p, cs, ex, st, pa) ==
    \A x \in DOMAIN pa :
        /\ x = <<x[1], x[2]>> /\ IsContext(x[1]) /\ x[2] \in Nodes(p)
        /\ Placed(p, ex, x[2], x[1]) /\ Numbered(p, cs, pa[x], x[1], x[2])
        /\ \A k \in DOMAIN ex : k[1] = x[1].run /\ k[3] = pa[x] => ex[k].h = x[2]
        /\ \A t \in Threads :
             Claimant(st, t) /\ Last(st[t]).ctx.run = x[1].run /\ Last(st[t]).path = pa[x]
                 => Last(st[t]).h = x[2]

PathInv ==
    /\ OneRegistry(execs) /\ BelowMains(program, execs)
    /\ ExecsPlaced(program, counter, execs)
    /\ \A t \in Threads : \A i \in DOMAIN stack[t] :
         FramePlaced(program, counter, execs, stack[t][i])
    /\ Apart(stack) /\ Free(stack, execs)
    /\ Owned(program, counter, execs, stack, path)

------------------------------------------------------------------------------
(* What two claims of one path have in common.                               *)

LEMMA HandleFacts ==
    ASSUME NEW p \in Programs, NEW h \in p.handles, p.def[h] # None
    PROVE  p.def[h] \in p.defs /\ p.id[p.def[h]] \in STRING
BY ProgramsAssumption DEF IsProgram

\* A path has one base and one number.
LEMMA PathParts ==
    ASSUME NEW p \in Programs, NEW ctx, IsContext(ctx), NEW h \in p.handles, p.def[h] # None,
           NEW n \in Nat
    PROVE  /\ PathAt(p, ctx, h, n) \in NodePaths
           /\ Front(PathAt(p, ctx, h, n)) = ctx.base
           /\ Last(PathAt(p, ctx, h, n)) = <<p.id[p.def[h]], n>>
           /\ Len(PathAt(p, ctx, h, n)) = Len(ctx.base) + 1
<1>1. <<p.id[p.def[h]], n>> \in STRING \X Nat /\ ctx.base \in Seq(STRING \X Nat)
  BY HandleFacts DEF IsContext, NodePaths
<1> QED
  BY <1>1, FrontOfAppend, AppendProperties DEF PathAt, NodePaths

\* Bodies with one run and one BasePath have one Context.
LEMMA HomesAgree ==
    ASSUME NEW p \in Programs, PathsApart(p), NEW ex, ExecsOK(p, ex), OneRegistry(ex),
           BelowMains(p, ex), NEW a, NEW b, NEW D, NEW E,
           Home(p, ex, a, D), Home(p, ex, b, E), a.run = b.run, a.base = b.base
    PROVE  a = b /\ Together(p, D, E)
<1>1. ASSUME NEW t \in Threads, NEW k \in DOMAIN ex,
             p.main[t].ctx.run = Inside(p, k, ex[k]).run,
             p.main[t].ctx.base = Inside(p, k, ex[k]).base
      PROVE  FALSE
  <2>1. ExecOK(p, k, ex[k])
    BY DEF ExecsOK
  <2>2. k[1] = p.main[t].ctx.run /\ k[3] = p.main[t].ctx.base /\ Len(k[3]) \in Nat
    BY <1>1, <2>1, LenProperties DEF ExecOK, Inside, Ctx, NodePaths
  <2> QED
    BY <2>2 DEF BelowMains
<1>2. ASSUME NEW j \in DOMAIN ex, NEW k \in DOMAIN ex,
             Inside(p, j, ex[j]).run = Inside(p, k, ex[k]).run,
             Inside(p, j, ex[j]).base = Inside(p, k, ex[k]).base
      PROVE  j = k
  <2>1. ExecOK(p, j, ex[j]) /\ ExecOK(p, k, ex[k])
    BY DEF ExecsOK
  <2>2. j[1] = k[1] /\ j[3] = k[3]
    BY <1>2, <2>1 DEF ExecOK, Inside, Ctx
  <2> QED
    BY <2>2 DEF OneRegistry
<1>3. CASE \E t \in Threads : p.main[t].ctx = a /\ p.main[t].def = D
  <2>1. PICK t \in Threads : p.main[t].ctx = a /\ p.main[t].def = D
    BY <1>3
  <2>2. PICK u \in Threads : p.main[u].ctx = b /\ p.main[u].def = E
    BY <1>1, <2>1 DEF Home
  <2>3. OneContext(p) /\ DOMAIN p.main = Threads
    BY ProgramsAssumption DEF PathsApart, IsProgram
  <2> QED
    BY <2>1, <2>2, <2>3 DEF OneContext, Together
<1>4. CASE \E k \in DOMAIN ex : a = Inside(p, k, ex[k]) /\ D = p.def[ex[k].h]
  <2>1. PICK k \in DOMAIN ex : a = Inside(p, k, ex[k]) /\ D = p.def[ex[k].h]
    BY <1>4
  <2>2. PICK j \in DOMAIN ex : b = Inside(p, j, ex[j]) /\ E = p.def[ex[j].h]
    BY <1>1, <2>1 DEF Home
  <2>3. j = k
    BY <1>2, <2>1, <2>2
  <2> QED
    BY <2>1, <2>2, <2>3 DEF Together
<1> QED
  BY <1>3, <1>4 DEF Home

\* Two handles with one path of one run are instances of one definition in one
\* scope, with one number.
LEMMA SameClaim ==
    ASSUME NEW p \in Programs, PathsApart(p), NEW ex, ExecsOK(p, ex), OneRegistry(ex),
           BelowMains(p, ex), NEW a, NEW b, NEW g \in p.handles, NEW h \in p.handles,
           NEW m \in Nat, NEW n \in Nat, IsContext(a), IsContext(b),
           Placed(p, ex, g, a), Placed(p, ex, h, b), p.def[g] # None, p.def[h] # None,
           a.run = b.run, PathAt(p, a, g, m) = PathAt(p, b, h, n)
    PROVE  a = b /\ p.def[g] = p.def[h] /\ m = n
<1>1. a.base = b.base /\ p.id[p.def[g]] = p.id[p.def[h]] /\ m = n
  <2>1. /\ Front(PathAt(p, a, g, m)) = a.base
        /\ Last(PathAt(p, a, g, m)) = <<p.id[p.def[g]], m>>
    BY PathParts
  <2>2. /\ Front(PathAt(p, b, h, n)) = b.base
        /\ Last(PathAt(p, b, h, n)) = <<p.id[p.def[h]], n>>
    BY PathParts
  <2> QED
    BY <2>1, <2>2
<1>2. PICK D \in p.defs : Home(p, ex, a, D) /\ g \in ScopeOf(p, D)
  BY DEF Placed
<1>3. PICK E \in p.defs : Home(p, ex, b, E) /\ h \in ScopeOf(p, E)
  BY DEF Placed
<1>4. a = b /\ Together(p, D, E)
  BY <1>1, <1>2, <1>3, HomesAgree
<1>5. p.def[g] = p.def[h]
  BY <1>1, <1>2, <1>3, <1>4 DEF PathsApart, NamesApart
<1> QED
  BY <1>1, <1>4, <1>5

------------------------------------------------------------------------------
(* What stays placed when registries and counters grow.                      *)

CountsGrow(cs, ct) == \A c : CountIn(cs, c) \in Nat /\ CountIn(ct, c) \in Nat
                             /\ CountIn(cs, c) <= CountIn(ct, c)

LEMMA CountsAreNumbers ==
    ASSUME NEW cs, CountersOK(cs), NEW c
    PROVE  CountIn(cs, c) \in Nat
BY DEF CountIn, CountersOK

LEMMA CountsStay ==
    ASSUME NEW cs, CountersOK(cs)
    PROVE  CountsGrow(cs, cs)
BY CountsAreNumbers DEF CountsGrow

LEMMA PlacedStays ==
    ASSUME NEW p, NEW ex, NEW ey, Grows(ex, ey)
    PROVE  /\ \A ctx, D : Home(p, ex, ctx, D) => Home(p, ey, ctx, D)
           /\ \A h, ctx : Placed(p, ex, h, ctx) => Placed(p, ey, h, ctx)
<1>1. \A k \in DOMAIN ex : Inside(p, k, ey[k]) = Inside(p, k, ex[k])
                         /\ ey[k].h = ex[k].h /\ k \in DOMAIN ey
  BY DEF Grows, Inside
<1>2. \A ctx, D : Home(p, ex, ctx, D) => Home(p, ey, ctx, D)
  BY <1>1 DEF Home
<1> QED
  BY <1>2 DEF Placed

LEMMA NumberedStays ==
    ASSUME NEW p, NEW cs, NEW ct, CountsGrow(cs, ct), NEW x, NEW ctx, NEW h,
           Numbered(p, cs, x, ctx, h)
    PROVE  Numbered(p, ct, x, ctx, h)
<1>1. PICK n \in Nat : n < CountIn(cs, CounterIn(p, ctx, p.def[h])) /\ x = PathAt(p, ctx, h, n)
  BY DEF Numbered
<1>2. n < CountIn(ct, CounterIn(p, ctx, p.def[h]))
  BY <1>1 DEF CountsGrow
<1> QED
  BY <1>1, <1>2 DEF Numbered

LEMMA FramePlacedStays ==
    ASSUME NEW p, NEW cs, NEW ct, NEW ex, NEW ey, Grows(ex, ey), CountsGrow(cs, ct),
           NEW f, FrameOK(p, ex, f), FramePlaced(p, cs, ex, f)
    PROVE  FramePlaced(p, ct, ey, f)
<1>1. f.op = "resolve" /\ f.at = "getResult" => f.key \in DOMAIN ex
  BY DEF FrameOK, ResolveFrame, ExecuteFrame, BodyFrame
<1>2. f.op = "resolve" /\ f.h \in Nodes(p) => Placed(p, ey, f.h, f.ctx)
  BY PlacedStays DEF FramePlaced
<1>3. Claims(f) => Numbered(p, ct, f.path, f.ctx, f.h)
  BY NumberedStays DEF FramePlaced
<1>4. f.op = "body" => Home(p, ey, f.ctx, f.at)
  BY PlacedStays DEF FramePlaced
<1>5. f.op = "resolve" /\ f.at = "getResult" => ey[f.key].h = f.h /\ ey[f.key].ctx = f.ctx
  BY <1>1 DEF FramePlaced, Grows
<1> QED
  BY <1>2, <1>3, <1>4, <1>5 DEF FramePlaced

LEMMA ExecsStayPlaced ==
    ASSUME NEW p, NEW cs, NEW ct, NEW ex, NEW ey, Grows(ex, ey), CountsGrow(cs, ct),
           ExecsPlaced(p, cs, ex), NEW k \in DOMAIN ex
    PROVE  Placed(p, ey, ey[k].h, ey[k].ctx) /\ Numbered(p, ct, k[3], ey[k].ctx, ey[k].h)
<1>1. ey[k].h = ex[k].h /\ ey[k].ctx = ex[k].ctx
  BY DEF Grows
<1>2. Placed(p, ex, ex[k].h, ex[k].ctx) /\ Numbered(p, cs, k[3], ex[k].ctx, ex[k].h)
  BY DEF ExecsPlaced
<1> QED
  BY <1>1, <1>2, PlacedStays, NumberedStays

------------------------------------------------------------------------------
(* Steps that register nothing.                                              *)

\* What every step has in common.
Counted == CountersOK(counter) /\ CountsGrow(counter, counter') /\ Grows(execs, execs')
           /\ UNCHANGED program

LEMMA FramesStayPlaced ==
    ASSUME RType, PathInv, Counted, NEW t \in Threads, NEW f, NEW I, Touched(t, f, I),
           \A i \in I : i \in DOMAIN stack[t],
           FramePlaced(program, counter', execs', f)
    PROVE  \A u \in Threads : \A i \in DOMAIN stack'[u] :
               FramePlaced(program', counter', execs', stack'[u][i])
<1>1. SUFFICES ASSUME NEW u \in Threads, NEW i \in DOMAIN stack'[u]
               PROVE  FramePlaced(program', counter', execs', stack'[u][i])
  OBVIOUS
<1>2. ASSUME NEW g, NEW v \in Threads, NEW j \in DOMAIN stack[v], g = stack[v][j]
      PROVE  FramePlaced(program', counter', execs', g)
  <2>1. FrameOK(program, execs, g) /\ FramePlaced(program, counter, execs, g)
    BY <1>2 DEF RType, PathInv
  <2> QED
    BY <2>1, FramePlacedStays DEF Counted
<1>3. CASE u # t
  <2>1. stack'[u] = stack[u]
    BY <1>3 DEF Touched
  <2> QED
    BY <1>2, <2>1
<1>4. CASE u = t /\ i = Len(stack'[t])
  BY <1>4 DEF Touched, Counted
<1>5. CASE u = t /\ i # Len(stack'[t])
  <2>1. IsSeq(stack'[t])
    BY DEF Touched, StacksOK
  <2>2. i \in 1..Len(stack'[t]) - 1
    BY <1>5, <2>1, SeqFacts
  <2>3. stack'[t][i] = stack[t][i] /\ i \in DOMAIN stack[t]
    BY <2>2 DEF Touched
  <2> QED
    BY <1>2, <1>5, <2>3
<1> QED
  BY <1>3, <1>4, <1>5

LEMMA ExecsAllStay ==
    ASSUME RType, PathInv, Counted, DOMAIN execs' = DOMAIN execs
    PROVE  /\ OneRegistry(execs') /\ BelowMains(program', execs')
           /\ ExecsPlaced(program', counter', execs')
<1>1. OneRegistry(execs') /\ BelowMains(program', execs')
  BY DEF PathInv, OneRegistry, BelowMains, Counted
<1>2. ExecsPlaced(program, counter, execs)
  BY DEF PathInv
<1>3. ASSUME NEW k \in DOMAIN execs
      PROVE  /\ Placed(program, execs', execs'[k].h, execs'[k].ctx)
             /\ Numbered(program, counter', k[3], execs'[k].ctx, execs'[k].h)
  BY <1>2, ExecsStayPlaced DEF Counted
<1>4. ExecsPlaced(program', counter', execs')
  BY <1>3 DEF ExecsPlaced, Counted
<1> QED
  BY <1>1, <1>4

\* The path of a handle stays in its scope, with a number that is given away.
LEMMA OwnedStays ==
    ASSUME NEW p, NEW cs, NEW ct, NEW ex, NEW ey, NEW st, NEW pa,
           Grows(ex, ey), CountsGrow(cs, ct), Owned(p, cs, ex, st, pa), NEW x \in DOMAIN pa
    PROVE  /\ x = <<x[1], x[2]>> /\ IsContext(x[1]) /\ x[2] \in Nodes(p)
           /\ Placed(p, ey, x[2], x[1]) /\ Numbered(p, ct, pa[x], x[1], x[2])
           /\ \A k \in DOMAIN ex : k[1] = x[1].run /\ k[3] = pa[x] => ey[k].h = x[2]
BY PlacedStays, NumberedStays DEF Owned, Grows

\* Nobody claims a path that was not claimed.
LEMMA NoNewClaim ==
    ASSUME PathInv, Counted, DOMAIN execs' = DOMAIN execs, UNCHANGED path,
           \A u \in Threads : Claimant(stack', u) =>
               /\ Claimant(stack, u)
               /\ Last(stack'[u]).path = Last(stack[u]).path
               /\ Last(stack'[u]).ctx = Last(stack[u]).ctx
               /\ Last(stack'[u]).h = Last(stack[u]).h
    PROVE  /\ Apart(stack') /\ Free(stack', execs')
           /\ Owned(program', counter', execs', stack', path')
<1>1. Apart(stack') /\ Free(stack', execs')
  BY DEF PathInv, Apart, Free
<1>2. ASSUME NEW x \in DOMAIN path
      PROVE  /\ x = <<x[1], x[2]>> /\ IsContext(x[1]) /\ x[2] \in Nodes(program)
             /\ Placed(program, execs', x[2], x[1])
             /\ Numbered(program, counter', path[x], x[1], x[2])
             /\ \A k \in DOMAIN execs : k[1] = x[1].run /\ k[3] = path[x] => execs'[k].h = x[2]
  BY OwnedStays DEF PathInv, Counted
<1>3. ASSUME NEW x \in DOMAIN path, NEW u \in Threads, Claimant(stack', u),
             Last(stack'[u]).ctx.run = x[1].run, Last(stack'[u]).path = path[x]
      PROVE  Last(stack'[u]).h = x[2]
  BY <1>3 DEF PathInv, Owned
<1>4. Owned(program, counter', execs', stack', path)
  BY <1>2, <1>3 DEF Owned
<1> QED
  BY <1>1, <1>4 DEF Counted

\* The claims after a step: those of the other goroutines, and f.
LEMMA ClaimsAfter ==
    ASSUME NEW t \in Threads, NEW f, NEW I, Touched(t, f, I)
    PROVE  /\ Claimant(stack', t) <=> Claims(f)
           /\ Last(stack'[t]) = f
           /\ \A u \in Threads : u # t =>
                /\ Claimant(stack', u) <=> Claimant(stack, u)
                /\ Last(stack'[u]) = Last(stack[u])
BY DEF Touched, Claimant, Last

\* A step that registers nothing and claims nothing new.
LEMMA TouchedPaths ==
    ASSUME RType, PathInv, Counted, NEW t \in Threads, Running(t), NEW f, NEW I,
           Touched(t, f, I), \A i \in I : i \in DOMAIN stack[t],
           FramePlaced(program, counter', execs', f),
           DOMAIN execs' = DOMAIN execs, UNCHANGED path,
           Claims(f) => /\ Claims(Top(t)) /\ f.path = Top(t).path /\ f.ctx = Top(t).ctx
                        /\ f.h = Top(t).h
    PROVE  PathInv'
<1>1. \A u \in Threads : Claimant(stack', u) =>
          /\ Claimant(stack, u)
          /\ Last(stack'[u]).path = Last(stack[u]).path
          /\ Last(stack'[u]).ctx = Last(stack[u]).ctx
          /\ Last(stack'[u]).h = Last(stack[u]).h
  BY ClaimsAfter DEF Claimant, Running, Top
<1>2. /\ Apart(stack') /\ Free(stack', execs')
      /\ Owned(program', counter', execs', stack', path')
  BY <1>1, NoNewClaim
<1>3. \A u \in Threads : \A i \in DOMAIN stack'[u] :
          FramePlaced(program', counter', execs', stack'[u][i])
  BY FramesStayPlaced
<1> QED
  BY <1>2, <1>3, ExecsAllStay DEF PathInv

\* The innermost call returns.
LEMMA ReturnedPaths ==
    ASSUME RType, PathInv, Counted, NEW t \in Threads, Running(t), NEW r, Return(t, r),
           DOMAIN execs' = DOMAIN execs, UNCHANGED path
    PROVE  PathInv'
<1>1. StacksOK
  BY DEF RType
<1>2. CASE /\ Len(stack[t]) - 1 \in DOMAIN stack[t]
           /\ Touched(t, [Caller(t) EXCEPT !.ret = r], Under(t))
  <2>1. /\ FrameOK(program, execs, Caller(t)) /\ Waiting(program, Caller(t))
        /\ FramePlaced(program, counter, execs, Caller(t))
    <3>1. PICK d : d = stack[t]
      OBVIOUS
    <3>2. Len(d) \in Nat /\ DOMAIN d = 1..Len(d) /\ Len(d) - 1 \in DOMAIN d
      BY <1>1, <1>2, <3>1, SeqFacts DEF StacksOK
    <3>3. Len(d) - 1 \in 1..Len(d) - 1
      BY <3>2
    <3> QED
      BY <3>1, <3>2, <3>3 DEF RType, PathInv, Caller, Under
  <2>2. PICK f : f = WithRet(Caller(t), r)
    OBVIOUS
  <2>3. [Caller(t) EXCEPT !.ret = r] = f
    BY <2>1, <2>2, RetSet DEF FrameOK
  <2>4. FramePlaced(program, counter', execs', Caller(t))
    BY <2>1, FramePlacedStays DEF Counted
  <2>5. FramePlaced(program, counter', execs', f)
    BY <2>2, <2>4 DEF FramePlaced, WithRet, Claims
  <2>6. ~Claims(f)
    BY <2>1, <2>2 DEF Claims, Waiting, WithRet
  <2> QED
    BY <1>2, <2>3, <2>5, <2>6, TouchedPaths, UnderTop
<1>3. CASE /\ StacksOK' /\ stack'[t] = <<>>
           /\ \A u \in Threads : u # t => stack'[u] = stack[u] /\ outcome'[u] = outcome[u]
  <2>1. \A u \in Threads : Claimant(stack', u) => /\ Claimant(stack, u)
                                                /\ Last(stack'[u]) = Last(stack[u])
    BY <1>3 DEF Claimant
  <2>2. /\ Apart(stack') /\ Free(stack', execs')
        /\ Owned(program', counter', execs', stack', path')
    BY <2>1, NoNewClaim
  <2>3. ASSUME NEW u \in Threads, NEW i \in DOMAIN stack'[u]
        PROVE  FramePlaced(program', counter', execs', stack'[u][i])
    <3>1. u # t
      BY <1>3, EmptySequence
    <3>2. stack'[u][i] = stack[u][i] /\ i \in DOMAIN stack[u]
      BY <1>3, <3>1
    <3>3. FrameOK(program, execs, stack[u][i])
          /\ FramePlaced(program, counter, execs, stack[u][i])
      BY <3>2 DEF RType, PathInv
    <3> QED
      BY <3>2, <3>3, FramePlacedStays DEF Counted
  <2> QED
    BY <2>2, <2>3, ExecsAllStay DEF PathInv
<1> QED
  BY <1>1, <1>2, <1>3, ReturnMoves

LEMMA NothingRegistered ==
    ASSUME RType, UNCHANGED <<program, counter, execs>>
    PROVE  Counted /\ DOMAIN execs' = DOMAIN execs
BY CountsStay DEF RType, Counted, Grows

LEMMA SetTopPaths ==
    ASSUME RType, PathInv, NEW t \in Threads, Running(t), NEW f, SetTop(t, f),
           UNCHANGED <<program, counter, path, execs, outcome>>,
           FramePlaced(program, counter, execs, f), ~Claims(f)
    PROVE  PathInv'
<1>1. Counted /\ DOMAIN execs' = DOMAIN execs
  BY NothingRegistered
<1>2. Touched(t, f, Under(t)) /\ \A i \in Under(t) : i \in DOMAIN stack[t]
  BY SetTopMoves, UnderTop DEF RType
<1> QED
  BY <1>1, <1>2, TouchedPaths

LEMMA CallPaths ==
    ASSUME RType, PathInv, Counted, NEW t \in Threads, Running(t), NEW f, Call(t, f),
           UNCHANGED <<path, outcome>>, DOMAIN execs' = DOMAIN execs,
           FramePlaced(program, counter', execs', f), ~Claims(f)
    PROVE  PathInv'
<1>1. Touched(t, f, DOMAIN stack[t])
  BY CallMoves DEF RType
<1> QED
  BY <1>1, TouchedPaths

------------------------------------------------------------------------------
(* The paths, action by action.                                              *)

\* Where the innermost call is.
LEMMA TopPlaced ==
    ASSUME RType, PathInv, NEW t \in Threads, Running(t)
    PROVE  FramePlaced(program, counter, execs, Top(t))
<1>1. PICK d : d = stack[t]
  OBVIOUS
<1>2. DOMAIN d = 1..Len(d) /\ Len(d) \in Nat /\ Len(d) # 0 /\ Top(t) = d[Len(d)]
  BY <1>1, TopOfStack DEF RType
<1>3. Len(d) \in DOMAIN d
  BY <1>2
<1> QED
  BY <1>1, <1>2, <1>3 DEF PathInv

\* The input of a node is in the scope of the node.
LEMMA InputPlaced ==
    ASSUME NEW p \in Programs, NEW ex, NEW h, NEW ctx, Placed(p, ex, h, ctx),
           p.input[h] \in Nodes(p)
    PROVE  Placed(p, ex, p.input[h], ctx)
<1>1. PICK D \in p.defs : Home(p, ex, ctx, D) /\ h \in ScopeOf(p, D)
  BY DEF Placed
<1>2. p.input[h] \in ScopeOf(p, D)
  BY <1>1, ScopeFacts
<1> QED
  BY <1>1, <1>2 DEF Placed

\* A call of internalResolve for a handle of its scope.
LEMMA CallResolvePaths ==
    ASSUME RType, PathInv, NEW t \in Threads, Running(t),
           NEW h, NEW ctx, h \in Nodes(program) => Placed(program, execs, h, ctx),
           Call(t, ResolveCall(h, ctx, None)),
           UNCHANGED <<program, counter, path, execs, outcome>>
    PROVE  PathInv'
<1>1. PICK f : f = ResolveCall(h, ctx, None)
  OBVIOUS
<1>2. FramePlaced(program, counter, execs, f) /\ ~Claims(f)
  BY <1>1 DEF ResolveCall, FramePlaced, Claims
<1>3. Counted /\ DOMAIN execs' = DOMAIN execs
  BY NothingRegistered
<1> QED
  BY <1>1, <1>2, <1>3, CallPaths

LEMMA ReturnsPaths ==
    ASSUME RType, PathInv, NEW t \in Threads, Running(t), NEW r, Return(t, r),
           UNCHANGED <<program, counter, path, execs>>
    PROVE  PathInv'
BY NothingRegistered, ReturnedPaths

LEMMA ResolveIntoPaths ==
    ASSUME RType, PathInv, UNCHANGED program, NEW t \in Threads, ResolveInto(t)
    PROVE  PathInv'
BY ReturnsPaths DEF ResolveInto, In

LEMMA StepBindPaths ==
    ASSUME RType, PathInv, UNCHANGED program, NEW t \in Threads, StepBind(t)
    PROVE  PathInv'
<1>1. PICK f : f = Top(t)
  OBVIOUS
<1>2. /\ Running(t) /\ f.op = "resolve" /\ f.h \in program.handles
      /\ program.kind[f.h] = "bind"
  BY <1>1, InResolve DEF StepBind, ResolveFrame
<1>3. f.h \in Nodes(program)
  BY <1>2, ProgramFacts DEF IsProgram, Nodes
<1>4. Placed(program, execs, f.h, f.ctx)
  BY <1>1, <1>2, <1>3, TopPlaced DEF FramePlaced
<1>5. program.input[f.h] \in Nodes(program) =>
          Placed(program, execs, program.input[f.h], f.ctx)
  BY <1>4, InputPlaced DEF RType
<1> QED
  BY <1>1, <1>2, <1>5, CallResolvePaths DEF StepBind

LEMMA BindStartsPaths ==
    ASSUME RType, PathInv, UNCHANGED program, NEW t \in Threads, BindStarts(t)
    PROVE  PathInv'
<1>1. /\ Running(t) /\ Top(t).op = "resolve" /\ UNCHANGED <<counter, path, execs>>
      /\ FramePlaced(program, counter, execs, Top(t))
  BY TopPlaced DEF BindStarts, In
<1>2. ASSUME NEW v, SetTop(t, ResolveCall(Top(t).h, Top(t).ctx, Ok(v))), UNCHANGED outcome
      PROVE  PathInv'
  <2>1. PICK f : f = ResolveCall(Top(t).h, Top(t).ctx, Ok(v))
    OBVIOUS
  <2>2. FramePlaced(program, counter, execs, f) /\ ~Claims(f)
    BY <1>1, <2>1 DEF ResolveCall, FramePlaced, Claims
  <2> QED
    BY <1>1, <1>2, <2>1, <2>2, SetTopPaths
<1>3. ASSUME NEW r, Return(t, r)
      PROVE  PathInv'
  BY <1>1, <1>3, ReturnsPaths
<1> QED
  BY <1>2, <1>3 DEF BindStarts

\* The path is written on a handle that has it, or will get it from the registry.
LEMMA SetPathPaths ==
    ASSUME RType, PathInv, UNCHANGED program, NEW t \in Threads, SetPath(t)
    PROVE  PathInv'
<1>1. PICK f : f = Top(t)
  OBVIOUS
<1>2. /\ Running(t) /\ Frame(f) /\ f.op = "resolve" /\ f.at = "setPath"
      /\ ResolveFrame(program, execs, f) /\ UNCHANGED <<counter, execs, outcome>>
      /\ FramePlaced(program, counter, execs, f)
  BY <1>1, InResolve, TopPlaced DEF SetPath
<1>3. PICK g : g = [f EXCEPT !.at = "lookup"]
  OBVIOUS
<1>4. g = [op |-> f.op, at |-> "lookup", h |-> f.h, ctx |-> f.ctx, in |-> f.in,
           path |-> f.path, key |-> f.key, futures |-> f.futures, ret |-> f.ret]
  BY <1>2, <1>3 DEF Frame
<1>5. FramePlaced(program, counter, execs, g) /\ Claims(f)
  BY <1>2, <1>4 DEF FramePlaced, Claims
<1>6. SetTop(t, g)
  BY <1>1, <1>3 DEF SetPath
<1>7. Counted /\ DOMAIN execs' = DOMAIN execs
  BY <1>2, NothingRegistered
<1>8. Touched(t, g, Under(t)) /\ \A i \in Under(t) : i \in DOMAIN stack[t]
  BY <1>2, <1>6, SetTopMoves, UnderTop DEF RType
<1>9. \A u \in Threads : \A i \in DOMAIN stack'[u] :
          FramePlaced(program', counter', execs', stack'[u][i])
  BY <1>2, <1>5, <1>7, <1>8, FramesStayPlaced
<1>10. f = Last(stack[t]) /\ Claimant(stack, t)
  BY <1>1, <1>2, <1>5 DEF Top, Claimant, Running
<1>11. \A u \in Threads : Claimant(stack', u) =>
           /\ Claimant(stack, u)
           /\ Last(stack'[u]).path = Last(stack[u]).path
           /\ Last(stack'[u]).ctx = Last(stack[u]).ctx
           /\ Last(stack'[u]).h = Last(stack[u]).h
  BY <1>4, <1>8, <1>10, ClaimsAfter
<1>12. Apart(stack') /\ Free(stack', execs')
  BY <1>2, <1>11 DEF PathInv, Apart, Free
<1>13. PICK x : x = <<f.ctx, f.h>>
  OBVIOUS
<1>14. path' = path \/ path' = Put(path, x, f.path)
  BY <1>1, <1>13 DEF SetPath
<1>15. ASSUME NEW y \in DOMAIN path, NEW u \in Threads, Claimant(stack', u),
              Last(stack'[u]).ctx.run = y[1].run, Last(stack'[u]).path = path[y]
       PROVE  Last(stack'[u]).h = y[2]
  BY <1>11, <1>15 DEF PathInv, Owned
<1>16. Owned(program, counter, execs, stack', path)
  BY <1>15 DEF PathInv, Owned
<1>17. /\ x = <<x[1], x[2]>> /\ IsContext(x[1]) /\ x[2] \in Nodes(program)
       /\ Placed(program, execs, x[2], x[1])
       /\ Numbered(program, counter, f.path, x[1], x[2])
  <2>1. f.h \in program.handles /\ program.def[f.h] # None /\ IsContext(f.ctx)
    BY <1>2, ProgramFacts DEF IsProgram, ResolveFrame, Frame
  <2> QED
    BY <1>2, <1>5, <1>13, <2>1 DEF FramePlaced, Nodes
<1>18. \A k \in DOMAIN execs : k[1] = x[1].run /\ k[3] = f.path => execs[k].h = x[2]
  BY <1>10, <1>13 DEF PathInv, Free
<1>19. ASSUME NEW u \in Threads, Claimant(stack', u),
              Last(stack'[u]).ctx.run = x[1].run, Last(stack'[u]).path = f.path
       PROVE  Last(stack'[u]).h = x[2]
  <2>1. u = t
    BY <1>10, <1>11, <1>13, <1>19 DEF PathInv, Apart
  <2> QED
    BY <1>10, <1>11, <1>13, <1>19, <2>1
<1>20. Owned(program, counter, execs, stack', Put(path, x, f.path))
  <2>1. PICK pa : pa = Put(path, x, f.path)
    OBVIOUS
  <2>2. /\ DOMAIN pa = DOMAIN path \cup {x} /\ pa[x] = f.path
        /\ \A y \in DOMAIN path : y # x => pa[y] = path[y]
    BY <2>1 DEF Put
  <2>3. ASSUME NEW y \in DOMAIN pa
        PROVE  /\ y = <<y[1], y[2]>> /\ IsContext(y[1]) /\ y[2] \in Nodes(program)
               /\ Placed(program, execs, y[2], y[1])
               /\ Numbered(program, counter, pa[y], y[1], y[2])
               /\ \A k \in DOMAIN execs : k[1] = y[1].run /\ k[3] = pa[y] => execs[k].h = y[2]
               /\ \A u \in Threads :
                    Claimant(stack', u) /\ Last(stack'[u]).ctx.run = y[1].run
                        /\ Last(stack'[u]).path = pa[y]
                            => Last(stack'[u]).h = y[2]
    <3>1. CASE y = x
      BY <1>17, <1>18, <1>19, <2>2, <3>1
    <3>2. CASE y # x
      BY <1>16, <2>2, <3>2 DEF Owned
    <3> QED
      BY <3>1, <3>2
  <2>4. Owned(program, counter, execs, stack', pa)
    BY <2>3 DEF Owned
  <2> QED
    BY <2>1, <2>4
<1>21. Owned(program', counter', execs', stack', path')
  BY <1>2, <1>14, <1>16, <1>20
<1> QED
  BY <1>2, <1>7, <1>9, <1>12, <1>21, ExecsAllStay DEF PathInv

LEMMA StartsPaths ==
    ASSUME RType, PathInv, UNCHANGED <<program, counter, path>>, NEW t \in Threads, Running(t),
           NEW k \in DOMAIN execs, StartExecution(t, k)
    PROVE  PathInv'
<1>1. ExecOK(program, k, execs[k]) /\ execs' = [execs EXCEPT ![k].state = "running"]
  BY DEF RType, ExecsOK, StartExecution
<1>2. DOMAIN execs' = DOMAIN execs /\ Grows(execs, execs')
  BY <1>1 DEF RType, ExecsOK, ExecOK, Grows
<1>3. Counted
  BY <1>2, CountsStay DEF RType, Counted
<1>4. PICK f : f = ExecuteCall(k)
  OBVIOUS
<1>5. f.op = "execute"
  BY <1>4 DEF ExecuteCall
<1>6. FramePlaced(program, counter', execs', f) /\ ~Claims(f)
  BY <1>5 DEF FramePlaced, Claims
<1> QED
  BY <1>2, <1>3, <1>4, <1>6, CallPaths DEF StartExecution

LEMMA GetResultPaths ==
    ASSUME RType, PathInv, UNCHANGED program, NEW t \in Threads, GetResult(t)
    PROVE  PathInv'
<1>1. PICK k : k = Top(t).key
  OBVIOUS
<1>2. Running(t) /\ k \in DOMAIN execs /\ UNCHANGED <<program, counter, path>>
  BY <1>1, InResolve DEF GetResult, ResolveFrame
<1> QED
  BY <1>1, <1>2, StartsPaths, ReturnsPaths DEF GetResult

LEMMA FinishPaths ==
    ASSUME RType, PathInv, UNCHANGED <<program, counter, path>>, NEW t \in Threads,
           NEW at, In(t, "execute", at), NEW r, Finish(t, r)
    PROVE  PathInv'
<1>1. PICK k : k = Top(t).key
  OBVIOUS
<1>2. Running(t) /\ k \in DOMAIN execs /\ ExecOK(program, k, execs[k])
  BY <1>1, InExecute DEF ExecuteFrame
<1>3. execs' = [execs EXCEPT ![k].state = "done", ![k].result = r] /\ Return(t, r)
  BY <1>1 DEF Finish
<1>4. DOMAIN execs' = DOMAIN execs /\ Grows(execs, execs')
  BY <1>2, <1>3 DEF RType, ExecsOK, ExecOK, Grows
<1>5. Counted
  BY <1>4, CountsStay DEF RType, Counted
<1> QED
  BY <1>2, <1>3, <1>4, <1>5, ReturnedPaths

LEMMA FinishesPaths ==
    ASSUME RType, PathInv, UNCHANGED program, NEW t \in Threads,
           LeafReturns(t) \/ BodyReturned(t)
    PROVE  PathInv'
BY FinishPaths DEF LeafReturns, BodyReturned

\* The innermost call goes on, in a body or an execution.
LEMMA GoesOnPaths ==
    ASSUME RType, PathInv, UNCHANGED <<program, counter, path, execs, outcome>>,
           NEW t \in Threads, Running(t), Top(t).op \in {"execute", "body"},
           NEW g, g.op = Top(t).op, g.op = "body" => g.at = Top(t).at,
           g.ctx = Top(t).ctx, SetTop(t, g)
    PROVE  PathInv'
<1>1. FramePlaced(program, counter, execs, Top(t))
  BY TopPlaced
<1>2. FramePlaced(program, counter, execs, g) /\ ~Claims(g)
  BY <1>1 DEF FramePlaced, Claims
<1> QED
  BY <1>2, SetTopPaths

LEMMA NoInputToResolvePaths ==
    ASSUME RType, PathInv, UNCHANGED program, NEW t \in Threads, NoInputToResolve(t)
    PROVE  PathInv'
<1>1. /\ In(t, "execute", "input") /\ UNCHANGED <<counter, path, execs, outcome>>
      /\ Running(t) /\ Top(t).op = "execute" /\ Frame(Top(t))
  BY InExecute DEF NoInputToResolve
<1>2. PICK g : /\ SetTop(t, g) /\ \E in : g = [Top(t) EXCEPT !.at = "run", !.in = in]
  BY DEF NoInputToResolve
<1>3. g.op = "execute" /\ g.ctx = Top(t).ctx
  BY <1>1, <1>2 DEF Frame
<1> QED
  BY <1>1, <1>2, <1>3, GoesOnPaths

LEMMA ResolveInputPaths ==
    ASSUME RType, PathInv, UNCHANGED program, NEW t \in Threads, ResolveInput(t)
    PROVE  PathInv'
<1>1. In(t, "execute", "input") /\ UNCHANGED <<counter, path, execs, outcome>>
      /\ Call(t, ResolveCall(InputOf(t), Top(t).ctx, None))
  BY DEF ResolveInput
<1>2. PICK k : k = Top(t).key
  OBVIOUS
<1>3. Running(t) /\ k \in DOMAIN execs /\ Top(t).ctx = execs[k].ctx
  BY <1>1, <1>2, InExecute DEF ExecuteFrame
<1>4. Placed(program, execs, execs[k].h, Top(t).ctx)
  BY <1>3 DEF PathInv, ExecsPlaced
<1>5. InputOf(t) \in Nodes(program) => Placed(program, execs, InputOf(t), Top(t).ctx)
  BY <1>2, <1>4, InputPlaced DEF RType, InputOf
<1> QED
  BY <1>1, <1>3, <1>5, CallResolvePaths

LEMMA InputResolvedPaths ==
    ASSUME RType, PathInv, UNCHANGED program, NEW t \in Threads, InputResolved(t)
    PROVE  PathInv'
<1>1. /\ In(t, "execute", "input") /\ UNCHANGED <<counter, path>>
      /\ Running(t) /\ Top(t).op = "execute" /\ Frame(Top(t))
  BY InExecute DEF InputResolved
<1>2. CASE Finish(t, Top(t).ret)
  BY <1>1, <1>2, FinishPaths
<1>3. CASE SetTop(t, [Top(t) EXCEPT !.at = "run", !.in = Top(t).ret, !.ret = None])
           /\ UNCHANGED <<execs, outcome>>
  <2>1. PICK g : g = [Top(t) EXCEPT !.at = "run", !.in = Top(t).ret, !.ret = None]
    OBVIOUS
  <2>2. g.op = "execute" /\ g.ctx = Top(t).ctx
    BY <1>1, <2>1 DEF Frame
  <2> QED
    BY <1>1, <1>3, <2>1, <2>2, GoesOnPaths
<1> QED
  BY <1>2, <1>3 DEF InputResolved

\* A body runs with the Context that is inside its executioner.
LEMMA CallBodyPaths ==
    ASSUME RType, PathInv, UNCHANGED program, NEW t \in Threads, CallBody(t)
    PROVE  PathInv'
<1>1. In(t, "execute", "run") /\ UNCHANGED <<counter, path, execs, outcome>>
  BY DEF CallBody
<1>2. PICK f : f = Top(t)
  OBVIOUS
<1>3. PICK k : k = f.key
  OBVIOUS
<1>4. /\ Running(t) /\ k \in DOMAIN execs /\ f.ctx = execs[k].ctx /\ f.path = k[3]
  BY <1>1, <1>2, <1>3, InExecute DEF ExecuteFrame
<1>5. PICK d : d = DefOf(t)
  OBVIOUS
<1>6. PICK ctx : ctx = BodyCtx(d, f.ctx, f.path)
  OBVIOUS
<1>7. d = program.def[execs[k].h] /\ ctx = Inside(program, k, execs[k])
  BY <1>2, <1>3, <1>4, <1>5, <1>6 DEF DefOf, BodyCtx, Inside
<1>8. Home(program, execs, ctx, d)
  BY <1>4, <1>7 DEF Home
<1>9. PICK g : g = BodyCall(d, ctx, f.in)
  OBVIOUS
<1>10. FramePlaced(program, counter, execs, g) /\ ~Claims(g)
  BY <1>8, <1>9 DEF FramePlaced, Claims, BodyCall
<1>11. Call(t, g)
  BY <1>2, <1>5, <1>6, <1>9 DEF CallBody
<1> QED
  BY <1>1, <1>4, <1>10, <1>11, CallPaths, NothingRegistered

\* What a body resolves is in the scope of its definition.
LEMMA FanInResolvesPaths ==
    ASSUME RType, PathInv, UNCHANGED program, NEW t \in Threads, FanInResolves(t)
    PROVE  PathInv'
<1>1. FansNext(t) /\ Call(t, ResolveCall(NextFan(t), Top(t).ctx, None))
      /\ UNCHANGED <<counter, path, execs, outcome>>
  BY DEF FanInResolves
<1>2. PICK D : D = Top(t).at
  OBVIOUS
<1>3. /\ Running(t) /\ Top(t).op = "body" /\ BodyFrame(program, execs, Top(t))
      /\ D \in program.defs
  BY <1>1, <1>2, InBodyCall DEF FansNext, BodyFrame
<1>4. Home(program, execs, Top(t).ctx, D)
  BY <1>2, <1>3, TopPlaced DEF FramePlaced
<1>5. PICK i \in DOMAIN program.fans[D] : NextFan(t) = program.fans[D][i]
  <2>1. PICK s \in Seq(program.handles) : s = program.fans[D]
    BY <1>3, ProgramFacts DEF IsProgram
  <2>2. PICK u : u = Futures(t)
    OBVIOUS
  <2>3. Len(u) \in Nat /\ Len(u) < Len(s)
    BY <1>1, <1>2, <1>3, <2>1, <2>2, SeqFacts DEF BodyFrame, Futures, FansNext, Fans
  <2>4. Len(s) \in Nat /\ DOMAIN s = 1..Len(s)
    BY <2>1, LenProperties
  <2>5. Len(u) + 1 \in DOMAIN s
    BY <2>3, <2>4
  <2> QED
    BY <1>2, <2>1, <2>2, <2>5 DEF NextFan, Fans
<1>6. NextFan(t) \in Nodes(program) => NextFan(t) \in ScopeOf(program, D)
  BY <1>3, <1>5, ScopeFacts DEF RType
<1>7. NextFan(t) \in Nodes(program) => Placed(program, execs, NextFan(t), Top(t).ctx)
  BY <1>3, <1>4, <1>6 DEF Placed
<1> QED
  BY <1>1, <1>3, <1>7, CallResolvePaths

LEMMA FanInReturnsPaths ==
    ASSUME RType, PathInv, UNCHANGED program, NEW t \in Threads, FanInReturns(t)
    PROVE  PathInv'
<1>1. InBody(t) /\ UNCHANGED <<counter, path, execs, outcome>>
  BY DEF FanInReturns, FansNext
<1>2. Running(t) /\ Top(t).op = "body" /\ Frame(Top(t))
  BY <1>1, InBodyCall
<1>3. PICK g : g = [Top(t) EXCEPT
                    !.ret = None,
                    !.futures = Append(@, FutureFor(Top(t).ctx, NextFan(t), Top(t).ret))]
  OBVIOUS
<1>4. g.op = Top(t).op /\ g.at = Top(t).at /\ g.ctx = Top(t).ctx
  BY <1>2, <1>3 DEF Frame
<1>5. SetTop(t, g)
  BY <1>3 DEF FanInReturns
<1> QED
  BY <1>1, <1>2, <1>4, <1>5, GoesOnPaths

LEMMA GetFuturePaths ==
    ASSUME RType, PathInv, UNCHANGED program, NEW t \in Threads, GetFuture(t)
    PROVE  PathInv'
<1>1. PICK f : f = Top(t)
  OBVIOUS
<1>2. /\ Running(t) /\ f.op = "body" /\ Frame(f) /\ BodyFrame(program, execs, f)
      /\ UNCHANGED <<counter, path>>
  BY <1>1, InBodyCall DEF GetFuture
<1>3. PICK i \in DOMAIN f.futures :
         /\ f.futures[i].res = None
         /\ \/ StartExecution(t, f.futures[i].key)
            \/ /\ SetTop(t, [f EXCEPT !.ret = None,
                                      !.futures[i].res = execs[f.futures[i].key].result])
               /\ UNCHANGED <<execs, outcome>>
  BY <1>1 DEF GetFuture, Pending, Futures
<1>4. PICK k : k = f.futures[i].key
  OBVIOUS
<1>5. k \in DOMAIN execs
  BY <1>2, <1>3, <1>4 DEF BodyFrame, FutureOK
<1>6. CASE StartExecution(t, k)
  BY <1>2, <1>5, <1>6, StartsPaths
<1>7. CASE SetTop(t, [f EXCEPT !.ret = None, !.futures[i].res = execs[k].result])
           /\ UNCHANGED <<execs, outcome>>
  <2>1. PICK g : g = [f EXCEPT !.ret = None, !.futures[i].res = execs[k].result]
    OBVIOUS
  <2>2. g.op = f.op /\ g.at = f.at /\ g.ctx = f.ctx
    BY <1>2, <2>1 DEF Frame
  <2> QED
    BY <1>1, <1>2, <1>7, <2>1, <2>2, GoesOnPaths
<1> QED
  BY <1>3, <1>4, <1>6, <1>7

LEMMA BodyEndsPaths ==
    ASSUME RType, PathInv, UNCHANGED program, NEW t \in Threads,
           BodyFails(t) \/ BodyCombines(t)
    PROVE  PathInv'
<1>1. InBody(t) /\ UNCHANGED <<counter, path, execs>>
  BY DEF BodyFails, BodyCombines, AllGot, Got
<1>2. PICK r : Return(t, r)
  BY DEF BodyFails, BodyCombines
<1> QED
  BY <1>1, <1>2, ReturnsPaths DEF InBody

LEMMA ResolveFinalPaths ==
    ASSUME RType, PathInv, UNCHANGED program, NEW t \in Threads, ResolveFinal(t)
    PROVE  PathInv'
<1>1. InBody(t) /\ UNCHANGED <<counter, path, execs>>
  BY DEF ResolveFinal, Got
<1>2. PICK D : D = Top(t).at
  OBVIOUS
<1>3. Running(t) /\ Top(t).op = "body" /\ D \in program.defs
  BY <1>1, <1>2, InBodyCall DEF BodyFrame
<1>4. Home(program, execs, Top(t).ctx, D)
  BY <1>2, <1>3, TopPlaced DEF FramePlaced
<1>5. FinalOf(t) \in Nodes(program) => FinalOf(t) \in ScopeOf(program, D)
  BY <1>2, <1>3, ScopeFacts DEF RType, FinalOf
<1>6. FinalOf(t) \in Nodes(program) => Placed(program, execs, FinalOf(t), Top(t).ctx)
  BY <1>3, <1>4, <1>5 DEF Placed
<1>7. CASE Call(t, ResolveCall(FinalOf(t), Top(t).ctx, None)) /\ UNCHANGED outcome
  BY <1>1, <1>3, <1>6, <1>7, CallResolvePaths
<1>8. CASE Return(t, Top(t).ret)
  BY <1>1, <1>3, <1>8, ReturnsPaths
<1> QED
  BY <1>7, <1>8 DEF ResolveFinal

------------------------------------------------------------------------------
(* A path is claimed.                                                        *)

LEMMA TakeInstancePaths ==
    ASSUME RType, PathInv, PathsApart(program), UNCHANGED program, NEW t \in Threads,
           TakeInstance(t)
    PROVE  PathInv'
<1>1. PICK f : f = Top(t)
  OBVIOUS
<1>2. Running(t) /\ f.op = "resolve" /\ (program.kind[f.h] = "node" \/ f.in # None)
  BY <1>1 DEF TakeInstance, In
<1>3. Frame(f) /\ ResolveFrame(program, execs, f)
  BY <1>1, <1>2, TopFrame DEF FrameOK, ExecuteFrame, BodyFrame
<1>4. f.h \in program.handles /\ program.def[f.h] # None /\ IsContext(f.ctx)
  BY <1>2, <1>3, ProgramFacts DEF IsProgram, ResolveFrame, Frame
<1>5. Placed(program, execs, f.h, f.ctx)
  BY <1>1, <1>2, <1>4, TopPlaced DEF FramePlaced, Nodes
<1>6. PICK c : c = CounterIn(program, f.ctx, program.def[f.h])
  OBVIOUS
<1>7. PICK n : n = CountIn(counter, c)
  OBVIOUS
<1>8. n \in Nat
  BY <1>7, CountsAreNumbers DEF RType
<1>9. /\ counter' = Put(counter, c, n + 1)
      /\ SetTop(t, [f EXCEPT !.at = "setPath",
                      !.path = Append(f.ctx.base, <<program.id[program.def[f.h]], n>>)])
      /\ UNCHANGED <<path, execs, outcome>>
  BY <1>1, <1>6, <1>7 DEF TakeInstance, CounterOf, CounterIn, Count, CountIn
<1>10. CountIn(counter', c) = n + 1 /\ \A x : x # c => CountIn(counter', x) = CountIn(counter, x)
  BY <1>9 DEF CountIn, Put
<1>11. Counted /\ DOMAIN execs' = DOMAIN execs
  <2>1. CountsGrow(counter, counter')
    <3>1. SUFFICES ASSUME NEW x
                   PROVE  /\ CountIn(counter, x) \in Nat /\ CountIn(counter', x) \in Nat
                          /\ CountIn(counter, x) <= CountIn(counter', x)
      BY DEF CountsGrow
    <3>2. CountIn(counter, x) \in Nat
      BY CountsAreNumbers DEF RType
    <3> QED
      BY <1>7, <1>8, <1>10, <3>2
  <2> QED
    BY <1>9, <2>1 DEF RType, Counted, Grows
<1>12. PICK p : p = PathAt(program, f.ctx, f.h, n)
  OBVIOUS
<1>13. PICK g : g = [f EXCEPT !.at = "setPath", !.path = p]
  OBVIOUS
<1>14. g = [op |-> f.op, at |-> "setPath", h |-> f.h, ctx |-> f.ctx, in |-> f.in,
            path |-> p, key |-> f.key, futures |-> f.futures, ret |-> f.ret]
  BY <1>3, <1>13 DEF Frame
<1>15. SetTop(t, g)
  BY <1>9, <1>12, <1>13 DEF PathAt
<1>16. n < CountIn(counter', c)
  BY <1>8, <1>10
<1>17. Numbered(program, counter', p, f.ctx, f.h)
  BY <1>6, <1>8, <1>12, <1>16 DEF Numbered
<1>18. FramePlaced(program, counter', execs', g)
  BY <1>2, <1>5, <1>9, <1>14, <1>17 DEF FramePlaced, Claims
<1>19. Touched(t, g, Under(t)) /\ \A i \in Under(t) : i \in DOMAIN stack[t]
  BY <1>2, <1>9, <1>15, SetTopMoves, UnderTop DEF RType
<1>20. \A u \in Threads : \A i \in DOMAIN stack'[u] :
           FramePlaced(program', counter', execs', stack'[u][i])
  BY <1>11, <1>18, <1>19, FramesStayPlaced
\* Nobody has the path: it has a number the counter did not give away.
<1>21. ASSUME NEW h \in program.handles, program.def[h] # None, NEW ctx, IsContext(ctx),
              Placed(program, execs, h, ctx), Numbered(program, counter, p, ctx, h)
       PROVE  ctx.run # f.ctx.run
  <2>1. SUFFICES ASSUME ctx.run = f.ctx.run PROVE FALSE
    OBVIOUS
  <2>2. PICK m \in Nat : /\ m < CountIn(counter, CounterIn(program, ctx, program.def[h]))
                         /\ p = PathAt(program, ctx, h, m)
    BY <1>21 DEF Numbered
  <2>3. /\ program \in Programs /\ ExecsOK(program, execs) /\ OneRegistry(execs)
        /\ BelowMains(program, execs)
    BY DEF RType, PathInv
  <2>4. PathAt(program, ctx, h, m) = PathAt(program, f.ctx, f.h, n)
    BY <1>12, <2>2
  <2>5. ctx = f.ctx /\ program.def[h] = program.def[f.h] /\ m = n
    BY <1>4, <1>5, <1>8, <1>21, <2>1, <2>3, <2>4, SameClaim
  <2> QED
    BY <1>6, <1>7, <1>8, <2>2, <2>5
<1>22. ASSUME NEW u \in Threads, Claimant(stack, u)
       PROVE  Last(stack[u]).ctx.run # f.ctx.run \/ Last(stack[u]).path # p
  <2>1. PICK e : e = Top(u)
    OBVIOUS
  <2>2. /\ Running(u) /\ e = Last(stack[u]) /\ e.op = "resolve" /\ Claims(e)
        /\ e.at \in {"setPath", "lookup"}
    BY <1>22, <2>1 DEF Claimant, Claims, Running, Top
  <2>3. Frame(e) /\ ResolveFrame(program, execs, e) /\ FramePlaced(program, counter, execs, e)
    BY <2>1, <2>2, TopFrame, TopPlaced DEF FrameOK, ExecuteFrame, BodyFrame
  <2>4. e.h \in program.handles /\ program.def[e.h] # None /\ IsContext(e.ctx)
    BY <2>2, <2>3, ProgramFacts DEF IsProgram, ResolveFrame, Frame
  <2>5. Placed(program, execs, e.h, e.ctx) /\ Numbered(program, counter, e.path, e.ctx, e.h)
    BY <2>2, <2>3, <2>4 DEF FramePlaced, Nodes
  <2> QED
    BY <1>21, <2>2, <2>4, <2>5
<1>23. ASSUME NEW k \in DOMAIN execs
       PROVE  k[1] # f.ctx.run \/ k[3] # p
  <2>1. ExecOK(program, k, execs[k])
    BY DEF RType, ExecsOK
  <2>2. Placed(program, execs, execs[k].h, execs[k].ctx)
        /\ Numbered(program, counter, k[3], execs[k].ctx, execs[k].h)
    BY DEF PathInv, ExecsPlaced
  <2>3. /\ execs[k].h \in program.handles /\ program.def[execs[k].h] # None
        /\ IsContext(execs[k].ctx) /\ k[1] = execs[k].ctx.run
    BY <2>1, ProgramFacts DEF ExecOK, IsProgram
  <2> QED
    BY <1>21, <2>2, <2>3
<1>24. /\ Last(stack'[t]).path = p /\ Last(stack'[t]).ctx = f.ctx
       /\ \A u \in Threads : u # t => /\ Claimant(stack', u) <=> Claimant(stack, u)
                                      /\ Last(stack'[u]) = Last(stack[u])
  BY <1>14, <1>19, ClaimsAfter
<1>25. Apart(stack')
  BY <1>22, <1>24 DEF PathInv, Apart
<1>26. Free(stack', execs')
  BY <1>9, <1>23, <1>24 DEF PathInv, Free
<1>27. ASSUME NEW x \in DOMAIN path
       PROVE  /\ x = <<x[1], x[2]>> /\ IsContext(x[1]) /\ x[2] \in Nodes(program)
              /\ Placed(program, execs', x[2], x[1])
              /\ Numbered(program, counter', path[x], x[1], x[2])
              /\ \A k \in DOMAIN execs : k[1] = x[1].run /\ k[3] = path[x] => execs'[k].h = x[2]
  BY <1>11, OwnedStays DEF PathInv, Counted
<1>28. ASSUME NEW x \in DOMAIN path, NEW u \in Threads, Claimant(stack', u),
              Last(stack'[u]).ctx.run = x[1].run, Last(stack'[u]).path = path[x]
       PROVE  Last(stack'[u]).h = x[2]
  <2>1. CASE u = t
    <3>1. x[1].run # f.ctx.run \/ path[x] # p
      <4>1. /\ IsContext(x[1]) /\ x[2] \in program.handles /\ program.def[x[2]] # None
            /\ Placed(program, execs, x[2], x[1])
            /\ Numbered(program, counter, path[x], x[1], x[2])
        BY DEF PathInv, Owned, Nodes
      <4> QED
        BY <1>21, <4>1
    <3> QED
      BY <1>24, <1>28, <2>1, <3>1
  <2>2. CASE u # t
    BY <1>24, <1>28, <2>2 DEF PathInv, Owned
  <2> QED
    BY <2>1, <2>2
<1>29. Owned(program', counter', execs', stack', path')
  <2>1. Owned(program, counter', execs', stack', path)
    BY <1>11, <1>27, <1>28 DEF Owned
  <2> QED
    BY <1>9, <2>1
<1> QED
  BY <1>11, <1>20, <1>25, <1>26, <1>29, ExecsAllStay DEF PathInv

LEMMA GetOrCreatePaths ==
    ASSUME RType, PathInv, PathsApart(program), UNCHANGED program, NEW t \in Threads,
           GetOrCreate(t)
    PROVE  PathInv'
<1>1. PICK f : f = Top(t)
  OBVIOUS
<1>2. /\ Running(t) /\ Frame(f) /\ ResolveFrame(program, execs, f)
      /\ f.op = "resolve" /\ f.at = "lookup" /\ UNCHANGED <<counter, path, outcome>>
      /\ FramePlaced(program, counter, execs, f)
  BY <1>1, InResolve, TopPlaced DEF GetOrCreate
<1>3. PICK k : k = <<f.ctx.run, f.ctx.reg, f.path>>
  OBVIOUS
<1>4. Claims(f) /\ f = Last(stack[t]) /\ Claimant(stack, t)
  BY <1>1, <1>2 DEF Claims, Claimant, Running, Top
<1>5. \A j \in DOMAIN execs : j[1] # k[1] \/ j[3] # k[3]
  BY <1>3, <1>4 DEF PathInv, Free
<1>6. k \notin DOMAIN execs
  BY <1>5
<1>7. PICK e : e = NewExecutioner(f.h, f.ctx, f.in)
  OBVIOUS
<1>8. /\ execs' = Put(execs, k, e)
      /\ SetTop(t, [f EXCEPT !.at = "getResult", !.key = k])
  BY <1>1, <1>3, <1>6, <1>7 DEF GetOrCreate
<1>9. DOMAIN execs' = DOMAIN execs \cup {k} /\ execs'[k] = e
      /\ \A j \in DOMAIN execs : execs'[j] = execs[j]
  BY <1>6, <1>8 DEF Put
<1>10. Counted
  BY <1>2, <1>9, CountsStay DEF RType, Counted, Grows
<1>11. f.h \in program.handles /\ program.def[f.h] # None /\ IsContext(f.ctx)
  BY <1>2, ProgramFacts DEF IsProgram, ResolveFrame, Frame
<1>12. Placed(program, execs, f.h, f.ctx) /\ Numbered(program, counter, f.path, f.ctx, f.h)
  BY <1>2, <1>4, <1>11 DEF FramePlaced, Nodes
<1>13. OneRegistry(execs')
  BY <1>5, <1>9 DEF PathInv, OneRegistry
<1>14. BelowMains(program, execs')
  <2>1. PICK n \in Nat : f.path = PathAt(program, f.ctx, f.h, n)
    BY <1>12 DEF Numbered
  <2>2. Len(f.path) = Len(f.ctx.base) + 1 /\ Len(f.ctx.base) \in Nat
    BY <1>11, <2>1, PathParts, LenProperties DEF RType, IsContext, NodePaths
  <2>3. ASSUME NEW u \in Threads, program.main[u].ctx.run = f.ctx.run
        PROVE  Len(f.path) > Len(program.main[u].ctx.base)
    <3>1. PICK D \in program.defs : Home(program, execs, f.ctx, D)
      BY <1>12 DEF Placed
    <3>2. CASE \E v \in Threads : program.main[v].ctx = f.ctx
      <4>1. program.main[u].ctx = f.ctx
        BY <2>3, <3>2, ProgramFacts DEF PathsApart, OneContext, IsProgram
      <4> QED
        BY <2>2, <4>1
    <3>3. CASE \E j \in DOMAIN execs : f.ctx = Inside(program, j, execs[j])
      <4>1. PICK j \in DOMAIN execs : f.ctx = Inside(program, j, execs[j])
        BY <3>3
      <4>2. ExecOK(program, j, execs[j])
        BY DEF RType, ExecsOK
      <4>3. f.ctx.run = j[1] /\ f.ctx.base = j[3]
        BY <4>1, <4>2 DEF ExecOK, Inside, Ctx
      <4>4. Len(f.ctx.base) > Len(program.main[u].ctx.base)
        BY <2>3, <4>3 DEF PathInv, BelowMains
      <4>5. PICK b : b = program.main[u].ctx.base
        OBVIOUS
      <4>6. Len(b) \in Nat
        <5>1. IsContext(program.main[u].ctx)
          BY ProgramFacts DEF IsProgram
        <5> QED
          BY <4>5, <5>1, LenProperties DEF IsContext, NodePaths
      <4> QED
        BY <2>2, <4>4, <4>5, <4>6
    <3> QED
      BY <3>1, <3>2, <3>3 DEF Home
  <2>4. k[1] = f.ctx.run /\ k[3] = f.path
    BY <1>3
  <2> QED
    BY <1>9, <2>3, <2>4 DEF PathInv, BelowMains
<1>15. Placed(program, execs', f.h, f.ctx)
  BY <1>10, <1>12, PlacedStays DEF Counted
<1>16. ExecsPlaced(program, counter', execs')
  <2>1. ASSUME NEW j \in DOMAIN execs
        PROVE  /\ Placed(program, execs', execs'[j].h, execs'[j].ctx)
               /\ Numbered(program, counter', j[3], execs'[j].ctx, execs'[j].h)
    BY <1>10, ExecsStayPlaced DEF Counted, PathInv
  <2>2. /\ Placed(program, execs', execs'[k].h, execs'[k].ctx)
        /\ Numbered(program, counter', k[3], execs'[k].ctx, execs'[k].h)
    BY <1>2, <1>3, <1>7, <1>9, <1>12, <1>15 DEF NewExecutioner
  <2> QED
    BY <1>9, <2>1, <2>2 DEF ExecsPlaced
<1>17. PICK g : g = [f EXCEPT !.at = "getResult", !.key = k]
  OBVIOUS
<1>18. g = [op |-> f.op, at |-> "getResult", h |-> f.h, ctx |-> f.ctx, in |-> f.in,
            path |-> f.path, key |-> k, futures |-> f.futures, ret |-> f.ret]
  BY <1>2, <1>17 DEF Frame
<1>19. FramePlaced(program, counter', execs', g) /\ ~Claims(g)
  BY <1>2, <1>7, <1>9, <1>15, <1>18 DEF FramePlaced, Claims, NewExecutioner
<1>20. Touched(t, g, Under(t)) /\ \A i \in Under(t) : i \in DOMAIN stack[t]
  BY <1>2, <1>8, <1>17, SetTopMoves, UnderTop DEF RType
<1>21. \A u \in Threads : \A i \in DOMAIN stack'[u] :
           FramePlaced(program', counter', execs', stack'[u][i])
  BY <1>10, <1>19, <1>20, FramesStayPlaced
<1>22. \A u \in Threads : Claimant(stack', u) =>
           u # t /\ Claimant(stack, u) /\ Last(stack'[u]) = Last(stack[u])
  BY <1>19, <1>20, ClaimsAfter
<1>23. Apart(stack')
  BY <1>22 DEF PathInv, Apart
<1>24. ASSUME NEW u \in Threads, Claimant(stack', u), NEW j \in DOMAIN execs'
       PROVE  j[1] # Last(stack'[u]).ctx.run \/ j[3] # Last(stack'[u]).path
  <2>1. u # t /\ Claimant(stack, u) /\ Last(stack'[u]) = Last(stack[u])
    BY <1>22, <1>24
  <2>2. CASE j \in DOMAIN execs
    BY <2>1, <2>2 DEF PathInv, Free
  <2>3. CASE j = k
    <3>1. Last(stack[u]).ctx.run # f.ctx.run \/ Last(stack[u]).path # f.path
      BY <1>4, <2>1 DEF PathInv, Apart
    <3> QED
      BY <1>3, <2>1, <2>3, <3>1
  <2> QED
    BY <1>9, <2>2, <2>3
<1>25. Free(stack', execs')
  BY <1>24 DEF Free
<1>26. ASSUME NEW x \in DOMAIN path
       PROVE  /\ x = <<x[1], x[2]>> /\ IsContext(x[1]) /\ x[2] \in Nodes(program)
              /\ Placed(program, execs', x[2], x[1])
              /\ Numbered(program, counter', path[x], x[1], x[2])
              /\ \A j \in DOMAIN execs' : j[1] = x[1].run /\ j[3] = path[x] => execs'[j].h = x[2]
  <2>1. /\ x = <<x[1], x[2]>> /\ IsContext(x[1]) /\ x[2] \in Nodes(program)
        /\ Placed(program, execs', x[2], x[1])
        /\ Numbered(program, counter', path[x], x[1], x[2])
        /\ \A j \in DOMAIN execs : j[1] = x[1].run /\ j[3] = path[x] => execs'[j].h = x[2]
    BY <1>10, OwnedStays DEF PathInv, Counted
  <2>2. k[1] = x[1].run /\ k[3] = path[x] => e.h = x[2]
    BY <1>3, <1>4, <1>7 DEF PathInv, Owned, NewExecutioner
  <2> QED
    BY <1>9, <2>1, <2>2
<1>27. \A x \in DOMAIN path : \A u \in Threads :
           Claimant(stack', u) /\ Last(stack'[u]).ctx.run = x[1].run
               /\ Last(stack'[u]).path = path[x] => Last(stack'[u]).h = x[2]
  BY <1>22 DEF PathInv, Owned
<1>28. Owned(program, counter', execs', stack', path)
  BY <1>26, <1>27 DEF Owned
<1> QED
  BY <1>2, <1>13, <1>14, <1>16, <1>21, <1>23, <1>25, <1>28 DEF PathInv

------------------------------------------------------------------------------
LEMMA NextPaths ==
    ASSUME RType, PathInv, PathsApart(program), [Next]_<<program, vars>>
    PROVE  PathInv'
<1>1. CASE UNCHANGED <<program, vars>>
  BY <1>1 DEF vars, PathInv, Apart, Free, Owned, Claimant
<1>2. ASSUME NEW t \in Threads, Resolve(t), UNCHANGED program
      PROVE  PathInv'
  BY <1>2, ResolveIntoPaths, StepBindPaths, BindStartsPaths, TakeInstancePaths, SetPathPaths,
     GetOrCreatePaths, GetResultPaths DEF Resolve
<1>3. ASSUME NEW t \in Threads, Execute(t) \/ LeafReturns(t), UNCHANGED program
      PROVE  PathInv'
  BY <1>3, NoInputToResolvePaths, ResolveInputPaths, InputResolvedPaths, CallBodyPaths,
     FinishesPaths DEF Execute
<1>4. ASSUME NEW t \in Threads, Body(t), UNCHANGED program
      PROVE  PathInv'
  BY <1>4, FanInResolvesPaths, FanInReturnsPaths, GetFuturePaths, BodyEndsPaths,
     ResolveFinalPaths DEF Body
<1> QED
  BY <1>1, <1>2, <1>3, <1>4 DEF Next, Framework, Terminated

LEMMA InitPaths ==
    ASSUME Init
    PROVE  PathInv
<1>1. program \in Programs /\ DOMAIN execs = {} /\ DOMAIN path = {}
  BY EmptySequence DEF Init
<1>2. ASSUME NEW t \in Threads
      PROVE  /\ Len(stack[t]) = 1 /\ DOMAIN stack[t] = 1..1
             /\ FramePlaced(program, counter, execs, stack[t][1]) /\ ~Claims(stack[t][1])
  <2>1. PICK f : f = BodyCall(program.main[t].def, program.main[t].ctx, Ok(<<>>))
    OBVIOUS
  <2>2. stack[t] = <<f>>
    BY <2>1 DEF Init
  <2>3. Home(program, execs, program.main[t].ctx, program.main[t].def)
    BY DEF Home
  <2>4. FramePlaced(program, counter, execs, f) /\ ~Claims(f)
    BY <2>1, <2>3 DEF BodyCall, FramePlaced, Claims
  <2>5. <<f>> \in Seq({f}) /\ Len(<<f>>) = 1 /\ <<f>>[1] = f
    OBVIOUS
  <2>6. DOMAIN <<f>> = 1..1
    BY <2>5, LenProperties
  <2> QED
    BY <2>2, <2>4, <2>5, <2>6
<1>3. \A t \in Threads : ~Claimant(stack, t)
  BY <1>2 DEF Claimant, Last
<1>4. \A t \in Threads : \A i \in DOMAIN stack[t] :
          FramePlaced(program, counter, execs, stack[t][i])
  BY <1>2
<1> QED
  BY <1>1, <1>3, <1>4
     DEF PathInv, OneRegistry, BelowMains, ExecsPlaced, Apart, Free, Owned

\* If the definitions of one scope have NodeIDs of their own and the goroutines of
\* one run belong to one NewNode function, then a path names one instance of its
\* run, however the goroutines interleave, and who asks a registry gets its own.
THEOREM PathsAreInstances ==
    NoneIsNoResult /\ (\A p \in Programs : PathsApart(p)) => (Spec => []PathNamesInstance)
<1> SUFFICES ASSUME NoneIsNoResult, \A p \in Programs : PathsApart(p)
             PROVE  Spec => []PathNamesInstance
  OBVIOUS
<1>1. Init => RType /\ PathInv
  BY InitType, InitPaths
<1>2. RType /\ PathInv /\ [Next]_<<program, vars>> => RType' /\ PathInv'
  BY NextType, NextPaths DEF RType
<1>3. RType /\ PathInv => PathNamesInstance
  <2> SUFFICES ASSUME RType, PathInv PROVE PathNamesInstance
    OBVIOUS
  <2>1. ASSUME NEW t \in Threads, In(t, "resolve", "getResult")
        PROVE  execs[Top(t).key].h = Top(t).h /\ execs[Top(t).key].ctx = Top(t).ctx
    BY <2>1, TopPlaced DEF In, FramePlaced
  <2> QED
    BY <2>1 DEF PathInv, OneRegistry, PathNamesInstance
<1> QED
  BY <1>1, <1>2, <1>3, PTL DEF Spec

------------------------------------------------------------------------------
(* Results.                                                                  *)

Means(r, v, run, code) ==
    /\ r.ok => r.val = v
    /\ ~r.ok => r.cause # {} /\ r.cause \subseteq {run} \X code

HandleMeans(p, run, h, r) == Means(r, Meaning(p)[h], run, UserCode(p)[h])
BodyMeans(p, run, d, arg, r) ==
    Means(r, BodyValue(p, Meaning(p), d, arg), run, BodyCode(p, UserCode(p), d))
IsArgument(p, h, r) == r.ok /\ r.val = Argument(p, Meaning(p), h)

ExecMeans(p, e) ==
    /\ p.kind[e.h] \in {"node", "bind"}
    /\ e.in # None <=> p.kind[e.h] = "bind"
    /\ e.in # None => IsArgument(p, e.h, e.in)
    /\ e.result # None => HandleMeans(p, e.ctx.run, e.h, e.result)

ExecsMean(p, ex) == \A k \in DOMAIN ex : ExecMeans(p, ex[k])

\* What a body resolves next, and whether it gets its futures first.
Asked(p, f) == IF Len(f.futures) < Len(p.fans[f.at]) THEN p.fans[f.at][Len(f.futures) + 1]
               ELSE p.final[f.at]
Gets(p, f) == /\ Len(f.futures) \in p.waits[f.at] \cup {Len(p.fans[f.at])}
              /\ \E j \in DOMAIN f.futures : f.futures[j].res = None

ResolveMeans(p, pa, f) ==
    /\ f.in # None => IsArgument(p, f.h, f.in)
    /\ f.at = "start" /\ f.ret # None => HandleMeans(p, f.ctx.run, p.input[f.h], f.ret)
    /\ f.at \in {"lookup", "getResult"} /\ f.in = None => <<f.ctx, f.h>> \in DOMAIN pa

ExecuteMeans(p, ex, f) ==
    /\ f.at = "input" /\ f.ret # None =>
         /\ ex[f.key].in = None /\ p.input[ex[f.key].h] # None
         /\ HandleMeans(p, f.ctx.run, p.input[ex[f.key].h], f.ret)
    /\ f.at = "run" => IsArgument(p, ex[f.key].h, f.in)
    /\ f.at = "run" /\ f.ret # None =>
         /\ p.type[p.def[ex[f.key].h]] # "leaf"
         /\ BodyMeans(p, f.ctx.run, p.def[ex[f.key].h], f.in.val, f.ret)

FutureMeans(p, ex, run, h, u) ==
    /\ u.res # None => HandleMeans(p, run, h, u.res)
    /\ u.res = None => ex[u.key].h = h /\ ex[u.key].ctx.run = run

\* What internalResolve of h with ctx may return.
ResolvedTo(p, pa, ctx, h, r) ==
    /\ HandleMeans(p, ctx.run, h, r)
    /\ r.ok => p.kind[h] # "error"
    /\ r.ok /\ p.kind[h] = "node" => <<ctx, h>> \in DOMAIN pa

BodyCallMeans(p, ex, pa, f) ==
    /\ f.in.ok
    /\ \A j \in DOMAIN f.futures :
         FutureMeans(p, ex, f.ctx.run, p.fans[f.at][j], f.futures[j])
    /\ f.ret # None /\ ~Gets(p, f) =>
         /\ Asked(p, f) # None
         /\ ResolvedTo(p, pa, f.ctx, Asked(p, f), f.ret)

FrameMeans(p, ex, pa, f) ==
    /\ f.op = "resolve" => ResolveMeans(p, pa, f)
    /\ f.op = "execute" => ExecuteMeans(p, ex, f)
    /\ f.op = "body" => BodyCallMeans(p, ex, pa, f)

\* A body has a future of the executioner under k.
Awaits(f, k) == \E j \in DOMAIN f.futures : f.futures[j].res = None /\ f.futures[j].key = k

\* The call l made the call u.
Linked(p, ex, l, u) ==
    /\ u.op = "resolve" =>
         /\ u.ctx = l.ctx
         /\ \/ l.op = "resolve" /\ l.at = "start" /\ u.h = p.input[l.h]
            \/ /\ l.op = "execute" /\ l.at = "input"
               /\ ex[l.key].in = None /\ u.h = p.input[ex[l.key].h]
            \/ l.op = "body" /\ u.h = Asked(p, l)
    /\ u.op = "execute" => \/ l.op = "resolve" /\ l.at = "getResult" /\ l.key = u.key
                           \/ l.op = "body" /\ Gets(p, l) /\ Awaits(l, u.key)
    /\ u.op = "body" =>
         /\ l.op = "execute" /\ l.at = "run"
         /\ p.type[p.def[ex[l.key].h]] # "leaf" /\ u.at = p.def[ex[l.key].h]
         /\ u.in = l.in /\ u.ctx.run = l.ctx.run /\ u.ctx.base = l.key[3]

MainCall(p, t, f) == /\ f.op = "body" /\ f.at = p.main[t].def /\ f.ctx = p.main[t].ctx
                     /\ f.in = Ok(<<>>)

OutcomeMeans(p, t, r) == BodyMeans(p, p.main[t].ctx.run, p.main[t].def, <<>>, r)

MeansInv ==
    /\ ExecsMean(program, execs)
    /\ \A t \in Threads : \A i \in DOMAIN stack[t] :
         FrameMeans(program, execs, path, stack[t][i])
    /\ \A t \in Threads : \A i \in Under(t) :
         Linked(program, execs, stack[t][i], stack[t][i + 1])
    /\ \A t \in Threads : stack[t] # <<>> => MainCall(program, t, stack[t][1])
    /\ \A t \in Threads : outcome[t] # None => OutcomeMeans(program, t, outcome[t])

------------------------------------------------------------------------------
(* What handles and bodies mean.                                             *)

LEMMA OkMeans ==
    ASSUME NEW v, NEW run, NEW code
    PROVE  Means(Ok(v), v, run, code)
BY DEF Means, Ok

LEMMA FailsMeans ==
    ASSUME NEW v, NEW run, NEW code, NEW x \in code
    PROVE  Means(Fails(run, x), v, run, code)
BY DEF Means, Fails, Err

LEMMA FailsLike ==
    ASSUME NEW r, ~r.ok, NEW v, NEW w, NEW run, NEW code, Means(r, v, run, code),
           NEW all, code \subseteq all
    PROVE  Means(r, w, run, all)
BY DEF Means

LEMMA CodeFacts ==
    ASSUME NEW p \in Programs, Unfolds(p), NEW h \in p.handles
    PROVE  /\ h \in UserCode(p)[h]
           /\ p.input[h] # None => UserCode(p)[p.input[h]] \subseteq UserCode(p)[h]
           /\ p.def[h] # None => BodyCode(p, UserCode(p), p.def[h]) \subseteq UserCode(p)[h]
<1>1. UserCode(p)[h] = HandleCode(p, UserCode(p), h)
  BY DEF Unfolds
<1> QED
  BY <1>1 DEF HandleCode

\* A constant is its own value.
LEMMA IntoMeans ==
    ASSUME NEW p \in Programs, Unfolds(p), NEW h \in p.handles, NEW run
    PROVE  /\ p.kind[h] = "into" => HandleMeans(p, run, h, Ok(<<h>>))
           /\ HandleMeans(p, run, h, Fails(run, h))
<1>1. p.kind[h] = "into" => Meaning(p)[h] = <<h>>
  BY DEF Unfolds, HandleValue
<1> QED
  BY <1>1, CodeFacts, OkMeans, FailsMeans DEF HandleMeans

\* A handle that is not given its input fails as the input did.
LEMMA InputMeans ==
    ASSUME NEW p \in Programs, Unfolds(p), NEW h \in p.handles, p.input[h] # None,
           NEW run, NEW r, ~r.ok, HandleMeans(p, run, p.input[h], r)
    PROVE  HandleMeans(p, run, h, r)
BY CodeFacts, FailsLike DEF HandleMeans

\* A node of an atomic definition.
LEMMA LeafMeans ==
    ASSUME NEW p \in Programs, Unfolds(p), NEW h \in p.handles, p.kind[h] \in {"node", "bind"},
           p.type[p.def[h]] = "leaf", NEW run, NEW in, IsArgument(p, h, in)
    PROVE  /\ HandleMeans(p, run, h, Ok(<<p.def[h], in.val>>))
           /\ HandleMeans(p, run, h, Fails(run, p.def[h]))
<1>1. Meaning(p)[h] = <<p.def[h], in.val>>
  BY DEF Unfolds, HandleValue, IsArgument
<1>2. p.def[h] # None
  BY ProgramsAssumption DEF IsProgram
<1>3. p.def[h] \in UserCode(p)[h]
  BY <1>2, CodeFacts DEF BodyCode
<1> QED
  BY <1>1, <1>3, OkMeans, FailsMeans DEF HandleMeans

\* A node of a definition with a body.
LEMMA NodeMeans ==
    ASSUME NEW p \in Programs, Unfolds(p), NEW h \in p.handles, p.kind[h] \in {"node", "bind"},
           p.type[p.def[h]] # "leaf", NEW run, NEW in, IsArgument(p, h, in),
           NEW r, IsResult(r), BodyMeans(p, run, p.def[h], in.val, r)
    PROVE  HandleMeans(p, run, h, r)
<1>1. Meaning(p)[h] = BodyValue(p, Meaning(p), p.def[h], in.val)
  BY DEF Unfolds, HandleValue, IsArgument
<1>2. p.def[h] # None
  BY ProgramsAssumption DEF IsProgram
<1>3. BodyCode(p, UserCode(p), p.def[h]) \subseteq UserCode(p)[h]
  BY <1>2, CodeFacts
<1>4. CASE r.ok
  BY <1>1, <1>4 DEF BodyMeans, HandleMeans, Means
<1>5. CASE ~r.ok
  BY <1>3, <1>5, FailsLike DEF BodyMeans, HandleMeans
<1> QED
  BY <1>4, <1>5

\* A body that returns a handle, ...
LEMMA FinalMeans ==
    ASSUME NEW p \in Programs, NEW d \in p.defs, p.final[d] # None, NEW run, NEW arg, NEW r,
           HandleMeans(p, run, p.final[d], r)
    PROVE  BodyMeans(p, run, d, arg, r)
<1>1. BodyValue(p, Meaning(p), d, arg) = Meaning(p)[p.final[d]]
  BY DEF BodyValue
<1>2. UserCode(p)[p.final[d]] \subseteq BodyCode(p, UserCode(p), d)
  BY DEF BodyCode, Needed
<1>3. CASE r.ok
  BY <1>1, <1>3 DEF BodyMeans, HandleMeans, Means
<1>4. CASE ~r.ok
  BY <1>2, <1>4, FailsLike DEF BodyMeans, HandleMeans
<1> QED
  BY <1>3, <1>4

\* ... or fails with a dependency.
LEMMA NeededCode ==
    ASSUME NEW p \in Programs, NEW d \in p.defs, NEW i \in DOMAIN p.fans[d],
           p.fans[d][i] \notin p.tolerated
    PROVE  UserCode(p)[p.fans[d][i]] \subseteq BodyCode(p, UserCode(p), d)
<1>1. p.fans[d][i] \in p.handles /\ None \notin p.handles
  BY ProgramsAssumption DEF IsProgram
<1>2. p.fans[d][i] \in ToSet(p.fans[d])
  BY DEF ToSet
<1>3. p.fans[d][i] \in Needed(p, d)
  BY <1>1, <1>2 DEF Needed
<1> QED
  BY <1>3 DEF BodyCode

------------------------------------------------------------------------------
(* What a step does to the results.                                          *)

LEMMA FrameMeansStays ==
    ASSUME NEW p, NEW ex, NEW ey, NEW pa, NEW pb, Grows(ex, ey), DOMAIN pa \subseteq DOMAIN pb,
           NEW f, FrameOK(p, ex, f), FrameMeans(p, ex, pa, f)
    PROVE  FrameMeans(p, ey, pb, f)
<1>1. CASE f.op = "resolve"
  BY <1>1 DEF FrameMeans, ResolveMeans
<1>2. CASE f.op = "execute"
  <2>1. f.key \in DOMAIN ex
    BY <1>2 DEF FrameOK, ResolveFrame, ExecuteFrame, BodyFrame
  <2>2. ey[f.key].h = ex[f.key].h /\ ey[f.key].in = ex[f.key].in
    BY <2>1 DEF Grows
  <2> QED
    BY <1>2, <2>2 DEF FrameMeans, ExecuteMeans
<1>3. CASE f.op = "body"
  <2>1. BodyFrame(p, ex, f) /\ BodyCallMeans(p, ex, pa, f)
    BY <1>3 DEF FrameOK, ResolveFrame, ExecuteFrame, FrameMeans
  <2>2. ASSUME NEW j \in DOMAIN f.futures
        PROVE  FutureMeans(p, ey, f.ctx.run, p.fans[f.at][j], f.futures[j])
    <3>1. f.futures[j].res = None => f.futures[j].key \in DOMAIN ex
      BY <2>1 DEF BodyFrame, FutureOK
    <3> QED
      BY <2>1, <3>1 DEF BodyCallMeans, FutureMeans, Grows
  <2> QED
    BY <1>3, <2>1, <2>2 DEF FrameMeans, BodyCallMeans, ResolvedTo
<1> QED
  BY <1>1, <1>2, <1>3 DEF FrameMeans

LEMMA LinkedStays ==
    ASSUME NEW p, NEW ex, NEW ey, Grows(ex, ey), NEW l, FrameOK(p, ex, l), NEW u,
           Linked(p, ex, l, u)
    PROVE  Linked(p, ey, l, u)
<1>1. l.op = "execute" => ey[l.key].h = ex[l.key].h /\ ey[l.key].in = ex[l.key].in
  BY DEF FrameOK, ResolveFrame, ExecuteFrame, BodyFrame, Grows
<1> QED
  BY <1>1 DEF Linked

\* A call goes on: it is still the one that was made.
SameCall(f, g) ==
    /\ g.op = f.op /\ g.ctx = f.ctx
    /\ f.op = "resolve" => g.h = f.h
    /\ f.op = "execute" => g.key = f.key
    /\ f.op = "body" => g.at = f.at /\ g.in = f.in

LEMMA SameCallLinked ==
    ASSUME NEW f, NEW g, SameCall(f, g)
    PROVE  /\ \A p, ex, l : Linked(p, ex, l, f) => Linked(p, ex, l, g)
           /\ \A p, t : MainCall(p, t, f) => MainCall(p, t, g)
BY DEF SameCall, Linked, MainCall

\* What every step has in common.
Kept == /\ UNCHANGED program /\ Grows(execs, execs') /\ DOMAIN path \subseteq DOMAIN path'
        /\ ExecsMean(program, execs')

LEMMA Predecessor ==
    ASSUME NEW n \in Nat
    PROVE  /\ n - 1 \in 1..n - 1 => n - 1 + 1 = n /\ n # 1
           /\ n # 0 /\ n # 1 => 1 \in 1..n - 1
OBVIOUS

LEMMA TouchedMeans ==
    ASSUME RType, MeansInv, Kept, UNCHANGED outcome, NEW t \in Threads, NEW f, NEW I,
           Touched(t, f, I), \A i \in I : i \in DOMAIN stack[t],
           FrameMeans(program, execs', path', f),
           NEW n \in Nat, n = Len(stack'[t]),
           n = 1 => MainCall(program, t, f),
           n # 1 => Linked(program, execs', stack[t][n - 1], f)
    PROVE  MeansInv'
<1>1. n # 0 /\ DOMAIN stack'[t] = 1..n
  BY SeqFacts DEF Touched, StacksOK
<1>2. /\ stack'[t][n] = f
      /\ \A i \in 1..n - 1 : i \in DOMAIN stack[t] /\ stack'[t][i] = stack[t][i]
      /\ \A u \in Threads : u # t => stack'[u] = stack[u]
  BY DEF Touched
<1>3. ASSUME NEW u \in Threads, NEW i \in DOMAIN stack'[u]
      PROVE  FrameMeans(program', execs', path', stack'[u][i])
  <2>1. CASE u = t /\ i = n
    BY <1>2, <2>1 DEF Kept
  <2>2. CASE u # t \/ i # n
    <3>1. i \in DOMAIN stack[u] /\ stack'[u][i] = stack[u][i]
      <4>1. CASE u # t
        BY <1>2, <4>1
      <4>2. CASE u = t /\ i # n
        <5>1. i \in 1..n - 1
          BY <1>1, <4>2
        <5> QED
          BY <1>2, <4>2, <5>1
      <4> QED
        BY <2>2, <4>1, <4>2
    <3>2. FrameOK(program, execs, stack[u][i]) /\ FrameMeans(program, execs, path, stack[u][i])
      BY <3>1 DEF RType, MeansInv
    <3> QED
      BY <3>1, <3>2, FrameMeansStays DEF Kept
  <2> QED
    BY <2>1, <2>2
<1>4. ASSUME NEW u \in Threads, NEW i \in Under(u), stack'[u][i] = stack[u][i],
             stack'[u][i + 1] = stack[u][i + 1]
      PROVE  Linked(program, execs', stack'[u][i], stack'[u][i + 1])
  <2>1. FrameOK(program, execs, stack[u][i])
    BY UnderTop DEF RType
  <2>2. Linked(program, execs, stack[u][i], stack[u][i + 1])
    BY DEF MeansInv
  <2> QED
    BY <1>4, <2>1, <2>2, LinkedStays DEF Kept
<1>5. ASSUME NEW u \in Threads, NEW i \in 1..Len(stack'[u]) - 1
      PROVE  Linked(program', execs', stack'[u][i], stack'[u][i + 1])
  <2>1. CASE u # t
    <3>1. i \in Under(u) /\ stack'[u] = stack[u]
      BY <1>2, <2>1 DEF Under
    <3> QED
      BY <1>4, <3>1 DEF Kept
  <2>2. CASE u = t /\ i = n - 1
    <3>0. i \in 1..n - 1
      BY <2>2
    <3>1. i + 1 = n /\ n # 1
      BY <2>2, <3>0, Predecessor
    <3>2. stack'[t][i] = stack[t][n - 1] /\ stack'[t][i + 1] = f
      BY <1>2, <2>2, <3>0, <3>1
    <3> QED
      BY <2>2, <3>1, <3>2 DEF Kept
  <2>3. CASE u = t /\ i # n - 1
    <3>0. i \in 1..n - 1
      BY <2>3
    <3>1. i \in 1..n - 1 /\ i + 1 \in 1..n - 1
      BY <2>3, <3>0
    <3>2. /\ stack'[t][i] = stack[t][i] /\ stack'[t][i + 1] = stack[t][i + 1]
          /\ i + 1 \in DOMAIN stack[t]
      BY <1>2, <3>1
    <3>3. i \in Under(t)
      <4>1. PICK m : m = Len(stack[t])
        OBVIOUS
      <4>2. m \in Nat /\ i + 1 \in 1..m
        BY <3>2, <4>1, SeqFacts DEF RType, StacksOK
      <4>3. i \in 1..m - 1
        BY <3>1, <4>2
      <4> QED
        BY <4>1, <4>3 DEF Under
    <3> QED
      BY <1>4, <2>3, <3>2, <3>3 DEF Kept
  <2> QED
    BY <2>1, <2>2, <2>3
<1>6. ASSUME NEW u \in Threads, stack'[u] # <<>>
      PROVE  MainCall(program', u, stack'[u][1])
  <2>1. CASE u # t
    BY <1>2, <1>6, <2>1 DEF MeansInv, Kept
  <2>2. CASE u = t /\ n = 1
    BY <1>2, <2>2 DEF Kept
  <2>3. CASE u = t /\ n # 1
    <3>0. n # 0
      BY <1>1
    <3>1. 1 \in 1..n - 1
      BY <2>3, <3>0, Predecessor
    <3>2. stack'[t][1] = stack[t][1] /\ 1 \in DOMAIN stack[t]
      BY <1>2, <3>1
    <3>3. stack[t] # <<>>
      BY <3>2, EmptySequence
    <3> QED
      BY <2>3, <3>2, <3>3 DEF MeansInv, Kept
  <2> QED
    BY <2>1, <2>2, <2>3
<1>7. \A u \in Threads : outcome'[u] # None => OutcomeMeans(program', u, outcome'[u])
  BY DEF MeansInv, Kept
<1>8. ExecsMean(program', execs')
  BY DEF Kept
<1> QED
  BY <1>3, <1>5, <1>6, <1>7, <1>8 DEF MeansInv, Under

\* Where a call is: at the bottom of its stack, or made by the one below it.
LEMMA LinkBelow ==
    ASSUME RType, MeansInv, NEW t \in Threads, NEW i \in DOMAIN stack[t], Grows(execs, execs')
    PROVE  /\ i = 1 => MainCall(program, t, stack[t][i])
           /\ i # 1 => Linked(program, execs', stack[t][i - 1], stack[t][i])
<1>1. PICK m : m = Len(stack[t])
  OBVIOUS
<1>2. m \in Nat /\ i \in 1..m /\ stack[t] # <<>>
  BY <1>1, SeqFacts, EmptySequence DEF RType, StacksOK
<1>3. i = 1 => MainCall(program, t, stack[t][i])
  BY <1>2 DEF MeansInv
<1>4. ASSUME i # 1
      PROVE  Linked(program, execs', stack[t][i - 1], stack[t][i])
  <2>1. PICK j : j = i - 1
    OBVIOUS
  <2>2. j \in 1..m - 1 /\ j + 1 = i /\ j \in 1..m
    BY <1>2, <1>4, <2>1
  <2>3. j \in Under(t) /\ j \in DOMAIN stack[t]
    BY <1>1, <2>2, SeqFacts DEF Under, RType, StacksOK
  <2>4. Linked(program, execs, stack[t][j], stack[t][i]) /\ FrameOK(program, execs, stack[t][j])
    BY <2>2, <2>3 DEF MeansInv, RType
  <2> QED
    BY <2>1, <2>4, LinkedStays
<1> QED
  BY <1>3, <1>4

LEMMA SetTopMeans ==
    ASSUME RType, MeansInv, Kept, UNCHANGED outcome, NEW t \in Threads, Running(t),
           NEW f, SetTop(t, f), SameCall(Top(t), f), FrameMeans(program, execs', path', f)
    PROVE  MeansInv'
<1>1. PICK n : n = Len(stack[t])
  OBVIOUS
<1>2. n \in Nat /\ n # 0 /\ DOMAIN stack[t] = 1..n /\ Top(t) = stack[t][n]
  BY <1>1, TopOfStack DEF RType
<1>3. n \in DOMAIN stack[t]
  BY <1>2
<1>4. /\ n = 1 => MainCall(program, t, Top(t))
      /\ n # 1 => Linked(program, execs', stack[t][n - 1], Top(t))
  BY <1>2, <1>3, LinkBelow DEF Kept
<1>5. /\ n = 1 => MainCall(program, t, f)
      /\ n # 1 => Linked(program, execs', stack[t][n - 1], f)
  BY <1>4, SameCallLinked
<1>6. Touched(t, f, Under(t)) /\ Len(stack'[t]) = n /\ \A i \in Under(t) : i \in DOMAIN stack[t]
  BY <1>1, SetTopMoves, UnderTop DEF RType
<1> QED
  BY <1>2, <1>5, <1>6, TouchedMeans

LEMMA CallMeans ==
    ASSUME RType, MeansInv, Kept, UNCHANGED outcome, NEW t \in Threads, Running(t),
           NEW f, Call(t, f), Linked(program, execs', Top(t), f),
           FrameMeans(program, execs', path', f)
    PROVE  MeansInv'
<1>1. PICK m : m = Len(stack[t])
  OBVIOUS
<1>2. m \in Nat /\ m # 0 /\ Top(t) = stack[t][m]
  BY <1>1, TopOfStack DEF RType
<1>3. Touched(t, f, DOMAIN stack[t]) /\ Len(stack'[t]) = m + 1
  BY <1>1, CallMoves DEF RType
<1>4. PICK n \in Nat : n = m + 1
  BY <1>2
<1>5. n # 1 /\ n - 1 = m
  BY <1>2, <1>4
<1>6. Linked(program, execs', stack[t][n - 1], f)
  BY <1>2, <1>5
<1> QED
  BY <1>3, <1>4, <1>5, <1>6, TouchedMeans

\* A result that the call u may return.
Answers(p, pa, u, r) ==
    /\ u.op = "resolve" => ResolvedTo(p, pa, u.ctx, u.h, r)
    /\ u.op = "body" => BodyMeans(p, u.ctx.run, u.at, u.in.val, r)

\* The call below gets what it asked for.
LEMMA AnswerMeans ==
    ASSUME NEW p \in Programs, NEW ex, NEW pa, NEW l, NEW u, NEW r,
           FrameOK(p, ex, u), FrameOK(p, ex, l), Linked(p, ex, l, u),
           FrameMeans(p, ex, pa, l), Answers(p, pa, u, r)
    PROVE  FrameMeans(p, ex, pa, WithRet(l, r))
<1>1. None \notin p.handles
  BY ProgramsAssumption DEF IsProgram
<1>2. u.op = "resolve" => u.h \in p.handles
  BY DEF FrameOK, ResolveFrame, ExecuteFrame, BodyFrame
<1>3. CASE l.op = "resolve"
  <2>1. ResolveMeans(p, pa, WithRet(l, r))
    BY <1>3 DEF Linked, FrameMeans, ResolveMeans, Answers, ResolvedTo, WithRet, FrameOK, ResolveFrame,
                ExecuteFrame, BodyFrame
  <2> QED
    BY <1>3, <2>1 DEF FrameMeans, WithRet
<1>4. CASE l.op = "execute"
  <2>1. u.op = "resolve" \/ u.op = "body"
    BY <1>4 DEF FrameOK, ResolveFrame, ExecuteFrame, BodyFrame, Linked
  <2>2. ExecuteMeans(p, ex, WithRet(l, r))
    <3>1. CASE u.op = "resolve"
      BY <1>1, <1>2, <1>4, <3>1 DEF Linked, FrameMeans, ExecuteMeans, Answers, ResolvedTo, WithRet
    <3>2. CASE u.op = "body"
      BY <1>4, <3>2 DEF Linked, FrameMeans, ExecuteMeans, Answers, WithRet
    <3> QED
      BY <2>1, <3>1, <3>2
  <2> QED
    BY <1>4, <2>2 DEF FrameMeans, WithRet
<1>5. CASE l.op = "body"
  <2>1. Asked(p, WithRet(l, r)) = Asked(p, l) /\ (Gets(p, WithRet(l, r)) <=> Gets(p, l))
    BY DEF Asked, Gets, WithRet
  <2>2. BodyCallMeans(p, ex, pa, l)
    BY <1>5 DEF FrameMeans
  <2>3. ~Gets(p, l) => u.op = "resolve" /\ u.ctx = l.ctx /\ u.h = Asked(p, l)
    BY <1>5 DEF Linked, FrameOK, ResolveFrame, ExecuteFrame, BodyFrame
  <2>4. ~Gets(p, l) =>
            Asked(p, l) # None /\ ResolvedTo(p, pa, l.ctx, Asked(p, l), r)
    BY <1>1, <1>2, <2>3 DEF Answers
  <2>5. BodyCallMeans(p, ex, pa, WithRet(l, r))
    BY <2>1, <2>2, <2>4 DEF BodyCallMeans, WithRet
  <2> QED
    BY <1>5, <2>5 DEF FrameMeans, WithRet
<1> QED
  BY <1>3, <1>4, <1>5 DEF FrameOK, ResolveFrame, ExecuteFrame, BodyFrame

LEMMA ReturnMeans ==
    ASSUME NoneIsNoResult, RType, MeansInv, Kept, NEW t \in Threads, Running(t),
           NEW r, IsResult(r), Return(t, r), Answers(program, path', Top(t), r)
    PROVE  MeansInv'
<1>1. PICK m : m = Len(stack[t])
  OBVIOUS
<1>2. m \in Nat /\ m # 0 /\ DOMAIN stack[t] = 1..m /\ Top(t) = stack[t][m] /\ StacksOK
  BY <1>1, TopOfStack DEF RType
<1>3. m \in DOMAIN stack[t]
  BY <1>2
<1>4. /\ m = 1 => MainCall(program, t, Top(t))
      /\ m # 1 => Linked(program, execs', stack[t][m - 1], Top(t))
  BY <1>2, <1>3, LinkBelow DEF Kept
<1>5. CASE /\ m - 1 \in DOMAIN stack[t]
           /\ Touched(t, [Caller(t) EXCEPT !.ret = r], Under(t))
           /\ Len(stack'[t]) = m - 1 /\ Caller(t) = stack[t][m - 1] /\ UNCHANGED outcome
  <2>1. PICK n \in Nat : n = m - 1
    BY <1>2
  <2>2. n \in DOMAIN stack[t] /\ m # 1 /\ n # 0
    BY <1>2, <1>5, <2>1
  <2>3. PICK l : l = Caller(t)
    OBVIOUS
  <2>4. l = stack[t][n] /\ FrameOK(program, execs, l) /\ FrameMeans(program, execs, path, l)
    BY <1>5, <2>1, <2>2, <2>3 DEF RType, MeansInv
  <2>5. FrameOK(program, execs', l) /\ FrameMeans(program, execs', path', l)
    BY <2>4, FrameStays, FrameMeansStays DEF Kept
  <2>6. FrameOK(program, execs', Top(t))
    BY TopFrame, FrameStays DEF Kept
  <2>7. Linked(program, execs', l, Top(t))
    BY <1>4, <2>1, <2>2, <2>4
  <2>8. FrameMeans(program, execs', path', WithRet(l, r))
    BY <2>5, <2>6, <2>7, AnswerMeans DEF RType
  <2>9. [Caller(t) EXCEPT !.ret = r] = WithRet(l, r)
    BY <2>3, <2>4, RetSet DEF FrameOK
  <2>10. SameCall(l, WithRet(l, r))
    BY DEF SameCall, WithRet
  <2>11. /\ n = 1 => MainCall(program, t, l)
         /\ n # 1 => Linked(program, execs', stack[t][n - 1], l)
    BY <2>2, <2>4, LinkBelow DEF Kept
  <2>12. /\ n = 1 => MainCall(program, t, WithRet(l, r))
         /\ n # 1 => Linked(program, execs', stack[t][n - 1], WithRet(l, r))
    BY <2>10, <2>11, SameCallLinked
  <2>13. Touched(t, WithRet(l, r), Under(t)) /\ Len(stack'[t]) = n
    BY <1>5, <2>1, <2>9
  <2> QED
    BY <1>5, <2>8, <2>12, <2>13, TouchedMeans, UnderTop
<1>6. CASE /\ m = 1 /\ StacksOK' /\ stack'[t] = <<>> /\ outcome'[t] = r
           /\ \A u \in Threads : u # t => stack'[u] = stack[u] /\ outcome'[u] = outcome[u]
  <2>1. MainCall(program, t, Top(t))
    BY <1>4, <1>6
  <2>2. OutcomeMeans(program, t, r)
    BY <2>1 DEF MainCall, Answers, OutcomeMeans, Ok
  <2>3. \A u \in Threads : outcome'[u] # None => OutcomeMeans(program', u, outcome'[u])
    BY <1>6, <2>2 DEF MeansInv, Kept
  <2>4. ASSUME NEW u \in Threads, NEW i \in DOMAIN stack'[u]
        PROVE  FrameMeans(program', execs', path', stack'[u][i])
    <3>1. u # t
      BY <1>6, EmptySequence
    <3>2. stack'[u][i] = stack[u][i] /\ i \in DOMAIN stack[u]
      BY <1>6, <3>1
    <3>3. FrameOK(program, execs, stack[u][i]) /\ FrameMeans(program, execs, path, stack[u][i])
      BY <3>2 DEF RType, MeansInv
    <3> QED
      BY <3>2, <3>3, FrameMeansStays DEF Kept
  <2>5. ASSUME NEW u \in Threads, NEW i \in 1..Len(stack'[u]) - 1
        PROVE  Linked(program', execs', stack'[u][i], stack'[u][i + 1])
    <3>1. u # t
      <4>1. CASE u = t
        <5>1. i \in 1..Len(<<>>) - 1
          BY <1>6, <4>1
        <5> QED
          BY <5>1
      <4> QED
        BY <4>1
    <3>2. stack'[u] = stack[u] /\ i \in Under(u)
      BY <1>6, <3>1 DEF Under
    <3>3. FrameOK(program, execs, stack[u][i]) /\ Linked(program, execs, stack[u][i], stack[u][i + 1])
      BY <3>2, UnderTop DEF RType, MeansInv
    <3> QED
      BY <3>2, <3>3, LinkedStays DEF Kept
  <2>6. \A u \in Threads : stack'[u] # <<>> => MainCall(program', u, stack'[u][1])
    BY <1>6 DEF MeansInv, Kept
  <2> QED
    BY <2>3, <2>4, <2>5, <2>6 DEF MeansInv, Under, Kept
<1> QED
  BY <1>1, <1>2, <1>5, <1>6, ReturnMoves

------------------------------------------------------------------------------
(* The results, action by action.                                            *)

LEMMA KeptSame ==
    ASSUME MeansInv, UNCHANGED <<program, execs, path>>
    PROVE  Kept
BY DEF MeansInv, Kept, Grows

LEMMA TopMeans ==
    ASSUME RType, MeansInv, NEW t \in Threads, Running(t)
    PROVE  FrameMeans(program, execs, path, Top(t))
<1>1. PICK d : d = stack[t]
  OBVIOUS
<1>2. DOMAIN d = 1..Len(d) /\ Len(d) \in Nat /\ Len(d) # 0 /\ Top(t) = d[Len(d)]
  BY <1>1, TopOfStack DEF RType
<1>3. Len(d) \in DOMAIN d
  BY <1>2
<1> QED
  BY <1>1, <1>2, <1>3 DEF MeansInv

\* A call of internalResolve that starts.
LEMMA CallResolveMeans ==
    ASSUME RType, MeansInv, NEW t \in Threads, Running(t), NEW h,
           Call(t, ResolveCall(h, Top(t).ctx, None)),
           \/ Top(t).op = "resolve" /\ Top(t).at = "start" /\ h = program.input[Top(t).h]
           \/ /\ Top(t).op = "execute" /\ Top(t).at = "input"
              /\ execs[Top(t).key].in = None /\ h = program.input[execs[Top(t).key].h]
           \/ Top(t).op = "body" /\ h = Asked(program, Top(t)),
           UNCHANGED <<program, execs, path, outcome>>
    PROVE  MeansInv'
<1>1. PICK f : f = ResolveCall(h, Top(t).ctx, None)
  OBVIOUS
<1>2. FrameMeans(program, execs, path, f)
  BY <1>1 DEF FrameMeans, ResolveMeans, ResolveCall
<1>3. Linked(program, execs, Top(t), f)
  BY <1>1 DEF Linked, ResolveCall
<1> QED
  BY <1>1, <1>2, <1>3, CallMeans, KeptSame

LEMMA ResolveIntoMeans ==
    ASSUME NoneIsNoResult, RType, MeansInv, Unfolds(program), UNCHANGED program,
           NEW t \in Threads, ResolveInto(t)
    PROVE  MeansInv'
<1>1. PICK f : f = Top(t)
  OBVIOUS
<1>2. Running(t) /\ f.op = "resolve" /\ f.h \in program.handles /\ UNCHANGED <<execs, path>>
  BY <1>1, InResolve DEF ResolveInto, ResolveFrame
<1>3. PICK r : /\ IsResult(r) /\ Return(t, r)
               /\ \/ program.kind[f.h] = "into" /\ r = Ok(<<f.h>>)
                  \/ program.kind[f.h] = "error" /\ r = Fails(f.ctx.run, f.h)
  BY <1>1, Results DEF ResolveInto
<1>4. HandleMeans(program, f.ctx.run, f.h, r)
  BY <1>2, <1>3, IntoMeans DEF RType
<1>5. Answers(program, path', f, r)
  BY <1>2, <1>3, <1>4 DEF Answers, ResolvedTo, Fails, Err
<1> QED
  BY <1>1, <1>2, <1>3, <1>5, ReturnMeans, KeptSame

LEMMA StepBindMeans ==
    ASSUME RType, MeansInv, UNCHANGED program, NEW t \in Threads, StepBind(t)
    PROVE  MeansInv'
BY CallResolveMeans DEF StepBind, In

LEMMA BindStartsMeans ==
    ASSUME NoneIsNoResult, RType, MeansInv, Unfolds(program), UNCHANGED program,
           NEW t \in Threads, BindStarts(t)
    PROVE  MeansInv'
<1>1. PICK f : f = Top(t)
  OBVIOUS
<1>2. /\ Running(t) /\ f.op = "resolve" /\ f.at = "start" /\ f.ret # None
      /\ Frame(f) /\ ResolveFrame(program, execs, f) /\ UNCHANGED <<execs, path>>
  BY <1>1, InResolve DEF BindStarts
<1>3. /\ f.h \in program.handles /\ program.kind[f.h] = "bind" /\ program.input[f.h] # None
      /\ program \in Programs
  BY <1>2, ProgramFacts DEF ResolveFrame, IsProgram, RType
<1>4. IsResult(f.ret)
  BY <1>2 DEF Frame, ResultOrNone
<1>5. HandleMeans(program, f.ctx.run, program.input[f.h], f.ret)
  BY <1>1, <1>2, TopMeans DEF FrameMeans, ResolveMeans
<1>6. CASE /\ f.ret.ok /\ UNCHANGED outcome
           /\ SetTop(t, ResolveCall(f.h, f.ctx, Ok(<<f.h, f.ret.val>>)))
  <2>1. PICK g : g = ResolveCall(f.h, f.ctx, Ok(<<f.h, f.ret.val>>))
    OBVIOUS
  <2>2. SameCall(f, g)
    BY <1>2, <2>1 DEF SameCall, ResolveCall
  <2>3. IsArgument(program, f.h, Ok(<<f.h, f.ret.val>>))
    BY <1>3, <1>5, <1>6 DEF IsArgument, Argument, HandleMeans, Means, Ok
  <2>4. FrameMeans(program, execs, path, g)
    BY <2>1, <2>3 DEF FrameMeans, ResolveMeans, ResolveCall
  <2> QED
    BY <1>1, <1>2, <1>6, <2>1, <2>2, <2>4, SetTopMeans, KeptSame
<1>7. ASSUME NEW r, IsResult(r), Return(t, r), (r = f.ret /\ ~r.ok) \/ r = Fails(f.ctx.run, f.h)
      PROVE  MeansInv'
  <2>1. ~r.ok
    BY <1>7 DEF Fails, Err
  <2>2. HandleMeans(program, f.ctx.run, f.h, r)
    <3>1. CASE r = f.ret /\ ~r.ok
      BY <1>3, <1>5, <3>1, InputMeans
    <3>2. CASE r = Fails(f.ctx.run, f.h)
      BY <1>3, <3>2, IntoMeans
    <3> QED
      BY <1>7, <3>1, <3>2
  <2>3. Answers(program, path', f, r)
    BY <1>2, <2>1, <2>2 DEF Answers, ResolvedTo
  <2> QED
    BY <1>1, <1>2, <1>7, <2>3, ReturnMeans, KeptSame
<1> QED
  BY <1>1, <1>4, <1>6, <1>7, Results DEF BindStarts

LEMMA TakeInstanceMeans ==
    ASSUME RType, MeansInv, UNCHANGED program, NEW t \in Threads, TakeInstance(t)
    PROVE  MeansInv'
<1>1. PICK f : f = Top(t)
  OBVIOUS
<1>2. /\ Running(t) /\ f.op = "resolve" /\ Frame(f)
      /\ UNCHANGED <<execs, path, outcome>>
  BY <1>1, InResolve DEF TakeInstance
<1>3. PICK x, g : /\ g = [f EXCEPT !.at = "setPath", !.path = x]
                  /\ SetTop(t, g)
  BY <1>1 DEF TakeInstance
<1>4. g = [op |-> f.op, at |-> "setPath", h |-> f.h, ctx |-> f.ctx, in |-> f.in,
           path |-> x, key |-> f.key, futures |-> f.futures, ret |-> f.ret]
  BY <1>2, <1>3 DEF Frame
<1>5. SameCall(f, g)
  BY <1>2, <1>4 DEF SameCall
<1>6. FrameMeans(program, execs, path, g)
  BY <1>1, <1>2, <1>4, TopMeans DEF FrameMeans, ResolveMeans
<1> QED
  BY <1>1, <1>2, <1>3, <1>5, <1>6, SetTopMeans, KeptSame

LEMMA SetPathMeans ==
    ASSUME RType, MeansInv, UNCHANGED program, NEW t \in Threads, SetPath(t)
    PROVE  MeansInv'
<1>1. PICK f : f = Top(t)
  OBVIOUS
<1>2. /\ Running(t) /\ f.op = "resolve" /\ Frame(f)
      /\ UNCHANGED <<execs, outcome>>
      /\ path' = IF f.in = None THEN Put(path, <<f.ctx, f.h>>, f.path) ELSE path
  BY <1>1, InResolve DEF SetPath
<1>3. PICK g : g = [f EXCEPT !.at = "lookup"] /\ SetTop(t, g)
  BY <1>1 DEF SetPath
<1>4. g = [op |-> f.op, at |-> "lookup", h |-> f.h, ctx |-> f.ctx, in |-> f.in,
           path |-> f.path, key |-> f.key, futures |-> f.futures, ret |-> f.ret]
  BY <1>2, <1>3 DEF Frame
<1>5. SameCall(f, g)
  BY <1>2, <1>4 DEF SameCall
<1>6. DOMAIN path \subseteq DOMAIN path' /\ (f.in = None => <<f.ctx, f.h>> \in DOMAIN path')
  BY <1>2 DEF Put
<1>7. Kept
  BY <1>2, <1>6 DEF Kept, MeansInv, Grows
<1>8. FrameMeans(program, execs', path', g)
  BY <1>1, <1>2, <1>4, <1>6, TopMeans DEF FrameMeans, ResolveMeans
<1> QED
  BY <1>1, <1>2, <1>3, <1>5, <1>7, <1>8, SetTopMeans

LEMMA GetOrCreateMeans ==
    ASSUME NoneIsNoResult, RType, MeansInv, UNCHANGED program, NEW t \in Threads, GetOrCreate(t)
    PROVE  MeansInv'
<1>1. PICK f : f = Top(t)
  OBVIOUS
<1>2. /\ Running(t) /\ f.op = "resolve" /\ f.at = "lookup" /\ Frame(f)
      /\ ResolveFrame(program, execs, f) /\ UNCHANGED <<path, outcome>>
  BY <1>1, InResolve DEF GetOrCreate
<1>3. PICK k, e, g : /\ e = NewExecutioner(f.h, f.ctx, f.in)
                     /\ execs' = IF k \in DOMAIN execs THEN execs ELSE Put(execs, k, e)
                     /\ g = [f EXCEPT !.at = "getResult", !.key = k]
                     /\ SetTop(t, g)
  BY <1>1 DEF GetOrCreate
<1>4. g = [op |-> f.op, at |-> "getResult", h |-> f.h, ctx |-> f.ctx, in |-> f.in,
           path |-> f.path, key |-> k, futures |-> f.futures, ret |-> f.ret]
  BY <1>2, <1>3 DEF Frame
<1>5. SameCall(f, g)
  BY <1>2, <1>4 DEF SameCall
<1>6. ResolveMeans(program, path, f)
  BY <1>1, <1>2, TopMeans DEF FrameMeans
<1>7. ExecMeans(program, e)
  BY <1>2, <1>3, <1>6 DEF ExecMeans, NewExecutioner, ResolveMeans, ResolveFrame
<1>8. ExecsMean(program, execs') /\ Grows(execs, execs')
  BY <1>3, <1>7 DEF MeansInv, ExecsMean, Put, Grows
<1>9. Kept
  BY <1>2, <1>8 DEF Kept
<1>10. FrameMeans(program, execs', path', g)
  BY <1>2, <1>4, <1>6 DEF FrameMeans, ResolveMeans
<1> QED
  BY <1>1, <1>2, <1>3, <1>5, <1>9, <1>10, SetTopMeans

\* What an executioner is for does not change when it runs or is done.
LEMMA StartsMeans ==
    ASSUME RType, MeansInv, UNCHANGED <<program, path>>, NEW t \in Threads, Running(t),
           NEW k \in DOMAIN execs, StartExecution(t, k),
           \/ Top(t).op = "resolve" /\ Top(t).at = "getResult" /\ Top(t).key = k
           \/ Top(t).op = "body" /\ Gets(program, Top(t)) /\ Awaits(Top(t), k)
    PROVE  MeansInv'
<1>1. PICK e : e = execs[k]
  OBVIOUS
<1>2. ExecOK(program, k, e) /\ execs' = [execs EXCEPT ![k].state = "running"]
  BY <1>1 DEF RType, ExecsOK, StartExecution
<1>3. execs'[k] = [h |-> e.h, ctx |-> e.ctx, in |-> e.in, state |-> "running",
                   result |-> e.result]
  BY <1>1, <1>2 DEF ExecOK, RType, ExecsOK
<1>4. DOMAIN execs' = DOMAIN execs /\ \A j \in DOMAIN execs : j # k => execs'[j] = execs[j]
  BY <1>2 DEF RType, ExecsOK
<1>5. Kept
  BY <1>1, <1>3, <1>4 DEF Kept, Grows, MeansInv, ExecsMean, ExecMeans
<1>6. PICK f : f = ExecuteCall(k)
  OBVIOUS
<1>7. FrameMeans(program, execs', path', f)
  BY <1>6 DEF FrameMeans, ExecuteMeans, ExecuteCall
<1>8. Linked(program, execs', Top(t), f)
  BY <1>6 DEF Linked, ExecuteCall
<1> QED
  BY <1>5, <1>6, <1>7, <1>8, CallMeans DEF StartExecution

LEMMA GetResultMeans ==
    ASSUME NoneIsNoResult, RType, PathInv, MeansInv, UNCHANGED program,
           NEW t \in Threads, GetResult(t)
    PROVE  MeansInv'
<1>1. PICK f : f = Top(t)
  OBVIOUS
<1>2. PICK k : k = f.key
  OBVIOUS
<1>3. /\ Running(t) /\ f.op = "resolve" /\ f.at = "getResult" /\ ResolveFrame(program, execs, f)
      /\ k \in DOMAIN execs /\ UNCHANGED path
  BY <1>1, <1>2, InResolve DEF GetResult, ResolveFrame
<1>4. CASE StartExecution(t, k)
  BY <1>1, <1>2, <1>3, <1>4, StartsMeans
<1>5. CASE execs[k].state = "done" /\ Return(t, execs[k].result) /\ UNCHANGED execs
  <2>1. PICK r : r = execs[k].result
    OBVIOUS
  <2>2. IsResult(r) /\ r # None
    BY <1>3, <1>5, <2>1 DEF RType, ExecsOK, ExecOK, ResultOrNone
  <2>3. execs[k].h = f.h /\ execs[k].ctx = f.ctx
    BY <1>1, <1>2, <1>3, TopPlaced DEF FramePlaced
  <2>4. HandleMeans(program, f.ctx.run, f.h, r)
    BY <1>3, <2>1, <2>2, <2>3 DEF MeansInv, ExecsMean, ExecMeans
  <2>5. ResolveMeans(program, path, f)
    BY <1>1, <1>3, TopMeans DEF FrameMeans
  <2>6. Answers(program, path', f, r)
    BY <1>3, <2>4, <2>5 DEF Answers, ResolvedTo, ResolveMeans, ResolveFrame
  <2> QED
    BY <1>1, <1>3, <1>5, <2>1, <2>2, <2>6, ReturnMeans, KeptSame
<1> QED
  BY <1>1, <1>2, <1>4, <1>5 DEF GetResult

LEMMA FinishMeans ==
    ASSUME NoneIsNoResult, RType, MeansInv, UNCHANGED <<program, path>>, NEW t \in Threads,
           NEW at, In(t, "execute", at), NEW r, IsResult(r), Finish(t, r),
           HandleMeans(program, Top(t).ctx.run, execs[Top(t).key].h, r)
    PROVE  MeansInv'
<1>1. PICK k : k = Top(t).key
  OBVIOUS
<1>2. PICK e : e = execs[k]
  OBVIOUS
<1>3. /\ Running(t) /\ Top(t).op = "execute" /\ k \in DOMAIN execs /\ ExecOK(program, k, e)
      /\ Top(t).ctx = e.ctx
  BY <1>1, <1>2, InExecute DEF ExecuteFrame
<1>4. execs' = [execs EXCEPT ![k].state = "done", ![k].result = r]
  BY <1>1 DEF Finish
<1>5. execs'[k] = [h |-> e.h, ctx |-> e.ctx, in |-> e.in, state |-> "done", result |-> r]
  BY <1>2, <1>3, <1>4 DEF ExecOK, RType, ExecsOK
<1>6. DOMAIN execs' = DOMAIN execs /\ \A j \in DOMAIN execs : j # k => execs'[j] = execs[j]
  BY <1>4 DEF RType, ExecsOK
<1>7. HandleMeans(program, e.ctx.run, e.h, r)
  BY <1>1, <1>2, <1>3
<1>8. ExecMeans(program, e)
  BY <1>2, <1>3 DEF MeansInv, ExecsMean
<1>9. ExecMeans(program, execs'[k])
  BY <1>5, <1>7, <1>8 DEF ExecMeans
<1>10. ExecsMean(program, execs')
  BY <1>6, <1>9 DEF MeansInv, ExecsMean
<1>11. Kept
  BY <1>2, <1>5, <1>6, <1>10 DEF Kept, Grows
<1>12. Answers(program, path', Top(t), r)
  BY <1>3 DEF Answers
<1> QED
  BY <1>3, <1>11, <1>12, ReturnMeans DEF Finish

\* What an execution knows: what it is for, and what came back to it.
LEMMA ExecutionMeans ==
    ASSUME RType, MeansInv, NEW t \in Threads, NEW at, In(t, "execute", at),
           NEW e, e = execs[Top(t).key]
    PROVE  /\ program \in Programs /\ e.h \in program.handles /\ program.kind[e.h] \in {"node", "bind"}
           /\ Running(t) /\ Frame(Top(t)) /\ ExecMeans(program, e) /\ Top(t).ctx = e.ctx
           /\ Top(t).op = "execute" /\ Top(t).at = at /\ ExecuteMeans(program, execs, Top(t))
           /\ ResultOrNone(Top(t).ret) /\ ResultOrNone(e.in)
<1>1. /\ Running(t) /\ Top(t).op = "execute" /\ Top(t).at = at /\ Frame(Top(t))
      /\ ExecuteFrame(execs, Top(t)) /\ ExecOK(program, Top(t).key, e)
  BY InExecute
<1>2. ExecMeans(program, e)
  BY <1>1 DEF MeansInv, ExecsMean, ExecuteFrame
<1>3. ExecuteMeans(program, execs, Top(t))
  BY <1>1, TopMeans DEF FrameMeans
<1> QED
  BY <1>1, <1>2, <1>3 DEF RType, ExecOK, ExecuteFrame, ExecMeans, Frame

\* An execution goes on to run with its argument.
LEMMA RunsMeans ==
    ASSUME RType, MeansInv, UNCHANGED <<program, execs, path, outcome>>, NEW t \in Threads,
           In(t, "execute", "input"), NEW in, IsArgument(program, execs[Top(t).key].h, in),
           SetTop(t, [Top(t) EXCEPT !.at = "run", !.in = in, !.ret = None])
    PROVE  MeansInv'
<1>1. PICK f : f = Top(t)
  OBVIOUS
<1>2. Running(t) /\ Frame(f) /\ f.op = "execute"
  BY <1>1, InExecute
<1>3. PICK g : g = [f EXCEPT !.at = "run", !.in = in, !.ret = None]
  OBVIOUS
<1>4. g = [op |-> f.op, at |-> "run", h |-> f.h, ctx |-> f.ctx, in |-> in,
           path |-> f.path, key |-> f.key, futures |-> f.futures, ret |-> None]
  BY <1>2, <1>3 DEF Frame
<1>5. SameCall(f, g)
  BY <1>2, <1>4 DEF SameCall
<1>6. FrameMeans(program, execs, path, g)
  BY <1>1, <1>2, <1>4 DEF FrameMeans, ExecuteMeans
<1> QED
  BY <1>1, <1>2, <1>3, <1>5, <1>6, SetTopMeans, KeptSame

LEMMA NoInputToResolveMeans ==
    ASSUME RType, MeansInv, UNCHANGED program, NEW t \in Threads, NoInputToResolve(t)
    PROVE  MeansInv'
<1>1. PICK f : f = Top(t)
  OBVIOUS
<1>2. PICK e : e = execs[f.key]
  OBVIOUS
<1>3. In(t, "execute", "input") /\ UNCHANGED <<execs, path, outcome>>
      /\ (e.in # None \/ program.input[e.h] = None)
  BY <1>1, <1>2 DEF NoInputToResolve, InputOf
<1>4. Frame(f) /\ ExecMeans(program, e) /\ ExecuteMeans(program, execs, f) /\ f.at = "input"
  BY <1>1, <1>2, <1>3, ExecutionMeans
<1>5. f.ret = None
  BY <1>2, <1>3, <1>4 DEF ExecuteMeans
<1>6. PICK in : in = IF e.in # None THEN e.in ELSE Ok(<<>>)
  OBVIOUS
<1>7. IsArgument(program, e.h, in)
  BY <1>3, <1>4, <1>6 DEF ExecMeans, IsArgument, Argument, Ok
<1>8. [f EXCEPT !.at = "run", !.in = in] = [f EXCEPT !.at = "run", !.in = in, !.ret = None]
  BY <1>4, <1>5 DEF Frame
<1>9. SetTop(t, [f EXCEPT !.at = "run", !.in = in, !.ret = None])
  BY <1>1, <1>2, <1>6, <1>8 DEF NoInputToResolve
<1> QED
  BY <1>1, <1>2, <1>3, <1>7, <1>9, RunsMeans

LEMMA ResolveInputMeans ==
    ASSUME RType, MeansInv, UNCHANGED program, NEW t \in Threads, ResolveInput(t)
    PROVE  MeansInv'
BY CallResolveMeans DEF ResolveInput, In, InputOf

LEMMA InputResolvedMeans ==
    ASSUME NoneIsNoResult, RType, MeansInv, Unfolds(program), UNCHANGED program,
           NEW t \in Threads, InputResolved(t)
    PROVE  MeansInv'
<1>1. PICK f : f = Top(t)
  OBVIOUS
<1>2. PICK e : e = execs[f.key]
  OBVIOUS
<1>3. PICK r : r = f.ret
  OBVIOUS
<1>4. In(t, "execute", "input") /\ r # None /\ UNCHANGED path
  BY <1>1, <1>3 DEF InputResolved
<1>5. /\ program \in Programs /\ e.h \in program.handles /\ ExecMeans(program, e)
      /\ ExecuteMeans(program, execs, f) /\ f.at = "input" /\ IsResult(r)
  BY <1>1, <1>2, <1>3, <1>4, ExecutionMeans DEF ResultOrNone
<1>6. /\ e.in = None /\ program.input[e.h] # None
      /\ HandleMeans(program, f.ctx.run, program.input[e.h], r)
  BY <1>2, <1>3, <1>4, <1>5 DEF ExecuteMeans
<1>7. CASE /\ r.ok /\ UNCHANGED <<execs, outcome>>
           /\ SetTop(t, [f EXCEPT !.at = "run", !.in = r, !.ret = None])
  <2>1. IsArgument(program, e.h, r)
    BY <1>5, <1>6, <1>7 DEF IsArgument, Argument, ExecMeans, HandleMeans, Means
  <2> QED
    BY <1>1, <1>2, <1>4, <1>7, <2>1, RunsMeans
<1>8. CASE ~r.ok /\ Finish(t, r)
  <2>1. HandleMeans(program, f.ctx.run, e.h, r)
    BY <1>5, <1>6, <1>8, InputMeans
  <2> QED
    BY <1>1, <1>2, <1>4, <1>5, <1>8, <2>1, FinishMeans
<1> QED
  BY <1>1, <1>3, <1>7, <1>8 DEF InputResolved

LEMMA LeafReturnsMeans ==
    ASSUME NoneIsNoResult, RType, MeansInv, Unfolds(program), UNCHANGED program,
           NEW t \in Threads, LeafReturns(t)
    PROVE  MeansInv'
<1>1. PICK f : f = Top(t)
  OBVIOUS
<1>2. PICK e : e = execs[f.key]
  OBVIOUS
<1>3. PICK d : d = program.def[e.h]
  OBVIOUS
<1>4. /\ In(t, "execute", "run") /\ program.type[d] = "leaf" /\ UNCHANGED path
      /\ \/ Finish(t, Ok(<<d, f.in.val>>))
         \/ Finish(t, Fails(f.ctx.run, d))
  BY <1>1, <1>2, <1>3 DEF LeafReturns, DefOf
<1>5. /\ program \in Programs /\ e.h \in program.handles
      /\ program.kind[e.h] \in {"node", "bind"}
      /\ ExecuteMeans(program, execs, f) /\ f.at = "run"
  BY <1>1, <1>2, <1>4, ExecutionMeans
<1>6. IsArgument(program, e.h, f.in)
  BY <1>2, <1>5 DEF ExecuteMeans
<1>7. /\ HandleMeans(program, f.ctx.run, e.h, Ok(<<d, f.in.val>>))
      /\ HandleMeans(program, f.ctx.run, e.h, Fails(f.ctx.run, d))
  BY <1>3, <1>4, <1>5, <1>6, LeafMeans
<1> QED
  BY <1>1, <1>2, <1>4, <1>7, Results, FinishMeans

LEMMA BodyReturnedMeans ==
    ASSUME NoneIsNoResult, RType, MeansInv, Unfolds(program), UNCHANGED program,
           NEW t \in Threads, BodyReturned(t)
    PROVE  MeansInv'
<1>1. PICK f : f = Top(t)
  OBVIOUS
<1>2. PICK e : e = execs[f.key]
  OBVIOUS
<1>3. In(t, "execute", "run") /\ f.ret # None /\ Finish(t, f.ret) /\ UNCHANGED path
  BY <1>1 DEF BodyReturned
<1>4. /\ program \in Programs /\ e.h \in program.handles
      /\ program.kind[e.h] \in {"node", "bind"}
      /\ ExecuteMeans(program, execs, f) /\ f.at = "run" /\ IsResult(f.ret)
  BY <1>1, <1>2, <1>3, ExecutionMeans DEF ResultOrNone
<1>5. /\ IsArgument(program, e.h, f.in) /\ program.type[program.def[e.h]] # "leaf"
      /\ BodyMeans(program, f.ctx.run, program.def[e.h], f.in.val, f.ret)
  BY <1>2, <1>3, <1>4 DEF ExecuteMeans
<1>6. HandleMeans(program, f.ctx.run, e.h, f.ret)
  BY <1>4, <1>5, NodeMeans
<1> QED
  BY <1>1, <1>2, <1>3, <1>4, <1>6, FinishMeans

LEMMA CallBodyMeans ==
    ASSUME RType, MeansInv, UNCHANGED program, NEW t \in Threads, CallBody(t)
    PROVE  MeansInv'
<1>1. PICK f : f = Top(t)
  OBVIOUS
<1>2. PICK e : e = execs[f.key]
  OBVIOUS
<1>3. PICK d, ctx, g : /\ d = program.def[e.h] /\ program.type[d] # "leaf"
                       /\ ctx = BodyCtx(d, f.ctx, f.path)
                       /\ g = BodyCall(d, ctx, f.in)
                       /\ Call(t, g)
  BY <1>1, <1>2 DEF CallBody, DefOf
<1>4. In(t, "execute", "run") /\ UNCHANGED <<execs, path, outcome>>
  BY DEF CallBody
<1>5. Running(t) /\ f.op = "execute" /\ f.at = "run" /\ ExecuteMeans(program, execs, f)
  BY <1>1, <1>2, <1>4, ExecutionMeans
<1>6. f.in.ok
  BY <1>5 DEF ExecuteMeans, IsArgument
<1>7. ctx.run = f.ctx.run /\ ctx.base = f.key[3]
  BY <1>1, <1>3, <1>4, InExecute DEF BodyCtx, Ctx, ExecuteFrame
<1>8. g.op = "body" /\ g.at = d /\ g.in = f.in /\ g.ctx = ctx /\ g.futures = <<>> /\ g.ret = None
  BY <1>3 DEF BodyCall
<1>9. Linked(program, execs, f, g)
  BY <1>2, <1>3, <1>5, <1>7, <1>8 DEF Linked
<1>10. FrameMeans(program, execs, path, g)
  BY <1>6, <1>8, EmptySequence DEF FrameMeans, BodyCallMeans
<1> QED
  BY <1>1, <1>3, <1>4, <1>5, <1>9, <1>10, CallMeans, KeptSame

\* What a body knows: what it fanned in, and what came back to it.
LEMMA BodyCallFacts ==
    ASSUME RType, MeansInv, NEW t \in Threads, InBody(t), NEW f, f = Top(t)
    PROVE  /\ program \in Programs /\ IsProgram(program)
           /\ Running(t) /\ f.op = "body" /\ f.at \in program.defs /\ Frame(f)
           /\ BodyFrame(program, execs, f) /\ BodyCallMeans(program, execs, path, f)
           /\ IsSeq(f.futures) /\ Len(f.futures) \in Nat /\ DOMAIN f.futures = 1..Len(f.futures)
           /\ program.fans[f.at] \in Seq(program.handles)
<1>1. Running(t) /\ f.op = "body" /\ Frame(f) /\ BodyFrame(program, execs, f)
  BY InBodyCall
<1>2. BodyCallMeans(program, execs, path, f)
  BY <1>1, TopMeans DEF FrameMeans
<1>3. IsSeq(f.futures) /\ Len(f.futures) \in Nat /\ DOMAIN f.futures = 1..Len(f.futures)
  BY <1>1, SeqFacts DEF BodyFrame
<1>4. program \in Programs /\ IsProgram(program)
  BY ProgramFacts DEF RType
<1>5. program.fans[f.at] \in Seq(program.handles)
  BY <1>1, <1>4 DEF BodyFrame, IsProgram
<1> QED
  BY <1>1, <1>2, <1>3, <1>4, <1>5 DEF BodyFrame

LEMMA FanInResolvesMeans ==
    ASSUME RType, MeansInv, UNCHANGED program, NEW t \in Threads, FanInResolves(t)
    PROVE  MeansInv'
<1>1. /\ InBody(t) /\ Call(t, ResolveCall(NextFan(t), Top(t).ctx, None))
      /\ UNCHANGED <<execs, path, outcome>>
  BY DEF FanInResolves, FansNext
<1>2. NextFan(t) = Asked(program, Top(t))
  BY DEF FanInResolves, FansNext, NextFan, Asked, Futures, Fans
<1> QED
  BY <1>1, <1>2, InBodyCall, CallResolveMeans

\* The future of a dependency is of its executioner, or has its result.
LEMMA FutureForMeans ==
    ASSUME NoneIsNoResult, RType, PathInv, NEW ctx, NEW h, NEW r, r # None,
           program.kind[h] \in {"node", "into", "error"}, ResolvedTo(program, path, ctx, h, r)
    PROVE  FutureMeans(program, execs, ctx.run, h, FutureFor(ctx, h, r))
<1>1. PICK k : k = <<ctx.run, ctx.reg, path[<<ctx, h>>]>>
  OBVIOUS
<1>2. PICK u : u = FutureFor(ctx, h, r)
  OBVIOUS
<1>3. CASE u = Future(None, r, r)
  BY <1>2, <1>3 DEF FutureMeans, ResolvedTo, Future
<1>4. CASE u # Future(None, r, r)
  <2>1. r.ok /\ program.kind[h] = "node"
    BY <1>2, <1>4 DEF FutureFor, ResolvedTo
  <2>2. PICK x : x = <<ctx, h>>
    OBVIOUS
  <2>3. x \in DOMAIN path /\ x[1] = ctx /\ x[2] = h
    BY <2>1, <2>2 DEF ResolvedTo
  <2>4. k \in DOMAIN execs /\ u = Future(k, None, r)
    BY <1>1, <1>2, <1>4, <2>1, <2>2, <2>3 DEF FutureFor
  <2>5. k[1] = ctx.run /\ k[3] = path[x]
    BY <1>1, <2>2
  <2>6. execs[k].h = h
    BY <2>3, <2>4, <2>5 DEF PathInv, Owned
  <2>7. k = <<execs[k].ctx.run, execs[k].ctx.reg, k[3]>>
    BY <2>4 DEF RType, ExecsOK, ExecOK
  <2>8. execs[k].ctx.run = ctx.run
    BY <2>5, <2>7
  <2> QED
    BY <1>2, <2>4, <2>6, <2>8 DEF FutureMeans, Future
<1> QED
  BY <1>3, <1>4

LEMMA FanInReturnsMeans ==
    ASSUME NoneIsNoResult, RType, PathInv, MeansInv, FansNodes(program), UNCHANGED program,
           NEW t \in Threads, FanInReturns(t)
    PROVE  MeansInv'
<1>1. PICK f : f = Top(t)
  OBVIOUS
<1>2. PICK s, n : s = f.futures /\ n = Len(s)
  OBVIOUS
<1>3. PICK h, u, us, g : /\ h = NextFan(t) /\ u = FutureFor(f.ctx, h, f.ret)
                         /\ us = Append(s, u)
                         /\ g = [f EXCEPT !.ret = None, !.futures = us]
  OBVIOUS
<1>4. InBody(t) /\ n < Len(program.fans[f.at]) /\ f.ret # None
      /\ UNCHANGED <<execs, path, outcome>>
  BY <1>1, <1>2 DEF FanInReturns, FansNext, Futures, Fans
<1>5. /\ Running(t) /\ f.op = "body" /\ f.at \in program.defs /\ Frame(f)
      /\ BodyCallMeans(program, execs, path, f) /\ IsSeq(s) /\ n \in Nat /\ DOMAIN s = 1..n
      /\ program.fans[f.at] \in Seq(program.handles) /\ IsProgram(program)
  BY <1>1, <1>2, <1>4, BodyCallFacts
<1>6. ~Gets(program, f)
  BY <1>1 DEF FanInReturns, FansNext, Waits, Pending, Futures, Fans, Gets
<1>7. h = program.fans[f.at][n + 1] /\ h = Asked(program, f)
  BY <1>1, <1>2, <1>3, <1>4 DEF NextFan, Futures, Fans, Asked
<1>8. n + 1 \in DOMAIN program.fans[f.at] /\ h \in program.handles
  <2>1. PICK l : l = program.fans[f.at] /\ Len(l) \in Nat /\ DOMAIN l = 1..Len(l)
    BY <1>5, LenProperties
  <2>2. n < Len(l)
    BY <1>4, <2>1
  <2>3. n + 1 \in 1..Len(l)
    BY <1>5, <2>1, <2>2
  <2> QED
    BY <1>5, <1>7, <2>1, <2>3, ElementOfSeq
<1>9. program.kind[h] \in {"node", "into", "error"}
  <2>1. program.kind[h] # "bind"
    BY <1>5, <1>7, <1>8 DEF FansNodes
  <2>2. program.kind[h] \in {"node", "bind", "into", "error"}
    BY <1>5, <1>8 DEF IsProgram
  <2> QED
    BY <2>1, <2>2
<1>10. ResolvedTo(program, path, f.ctx, h, f.ret)
  BY <1>4, <1>5, <1>6, <1>7 DEF BodyCallMeans
<1>11. FutureMeans(program, execs, f.ctx.run, h, u)
  BY <1>3, <1>4, <1>9, <1>10, FutureForMeans
<1>12. /\ IsSeq(us) /\ Len(us) = n + 1 /\ us[n + 1] = u
       /\ \A i \in 1..n : us[i] = s[i]
  BY <1>2, <1>3, <1>5, Appended
<1>13. ASSUME NEW j \in DOMAIN us
       PROVE  FutureMeans(program, execs, f.ctx.run, program.fans[f.at][j], us[j])
  <2>1. j \in 1..n + 1
    BY <1>12, SeqFacts
  <2>2. CASE j = n + 1
    BY <1>7, <1>11, <1>12, <2>2
  <2>3. CASE j # n + 1
    <3>1. j \in 1..n
      BY <1>5, <2>1, <2>3
    <3> QED
      BY <1>2, <1>5, <1>12, <3>1 DEF BodyCallMeans
  <2> QED
    BY <2>2, <2>3
<1>14. g = [op |-> f.op, at |-> f.at, h |-> f.h, ctx |-> f.ctx, in |-> f.in,
            path |-> f.path, key |-> f.key, futures |-> us, ret |-> None]
  BY <1>3, <1>5 DEF Frame
<1>15. SameCall(f, g)
  BY <1>5, <1>14 DEF SameCall
<1>16. FrameMeans(program, execs, path, g)
  BY <1>5, <1>13, <1>14 DEF FrameMeans, BodyCallMeans
<1>17. SetTop(t, g)
  BY <1>1, <1>2, <1>3, <1>5 DEF FanInReturns, Frame
<1> QED
  BY <1>1, <1>4, <1>5, <1>15, <1>16, <1>17, SetTopMeans, KeptSame

LEMMA GetFutureMeans ==
    ASSUME NoneIsNoResult, RType, MeansInv, UNCHANGED program, NEW t \in Threads, GetFuture(t)
    PROVE  MeansInv'
<1>1. PICK f : f = Top(t)
  OBVIOUS
<1>2. PICK s : s = f.futures
  OBVIOUS
<1>3. InBody(t) /\ UNCHANGED path
      /\ Len(s) \in program.waits[f.at] \cup {Len(program.fans[f.at])}
  BY <1>1, <1>2 DEF GetFuture, Waits, Futures, Fans
<1>4. /\ Running(t) /\ f.op = "body" /\ f.at \in program.defs /\ Frame(f)
      /\ BodyFrame(program, execs, f)
      /\ BodyCallMeans(program, execs, path, f) /\ IsSeq(s) /\ DOMAIN s = 1..Len(s)
  BY <1>1, <1>2, <1>3, BodyCallFacts
<1>5. PICK i, k :
         /\ i \in DOMAIN s /\ s[i].res = None /\ k = s[i].key
         /\ \/ StartExecution(t, k)
            \/ /\ execs[k].state = "done"
               /\ SetTop(t, [f EXCEPT !.ret = None, !.futures[i].res = execs[k].result])
               /\ UNCHANGED <<execs, outcome>>
  BY <1>1, <1>2 DEF GetFuture, Pending, Futures
<1>6. k \in DOMAIN execs /\ FutureOK(execs, s[i])
  BY <1>2, <1>4, <1>5 DEF BodyFrame, FutureOK
<1>7. Gets(program, f) /\ Awaits(f, k)
  BY <1>2, <1>3, <1>5 DEF Gets, Awaits
<1>8. CASE StartExecution(t, k)
  BY <1>1, <1>3, <1>4, <1>6, <1>7, <1>8, StartsMeans
<1>9. CASE /\ execs[k].state = "done"
           /\ SetTop(t, [f EXCEPT !.ret = None, !.futures[i].res = execs[k].result])
           /\ UNCHANGED <<execs, outcome>>
  <2>1. PICK r, v, us, g : /\ r = execs[k].result
                           /\ v = [s[i] EXCEPT !.res = r]
                           /\ us = [s EXCEPT ![i].res = r]
                           /\ g = [f EXCEPT !.ret = None, !.futures[i].res = r]
    OBVIOUS
  <2>2. r # None
    BY <1>6, <1>9, <2>1 DEF RType, ExecsOK, ExecOK
  <2>3. HandleMeans(program, execs[k].ctx.run, execs[k].h, r)
    BY <1>6, <2>1, <2>2 DEF MeansInv, ExecsMean, ExecMeans
  <2>4. FutureMeans(program, execs, f.ctx.run, program.fans[f.at][i], s[i])
    BY <1>2, <1>4, <1>5 DEF BodyCallMeans
  <2>5. HandleMeans(program, f.ctx.run, program.fans[f.at][i], r)
    BY <1>5, <2>3, <2>4 DEF FutureMeans
  <2>6. v = Future(s[i].key, r, s[i].seen)
    BY <1>6, <2>1 DEF FutureOK, Future
  <2>7. FutureMeans(program, execs, f.ctx.run, program.fans[f.at][i], v)
    BY <2>2, <2>5, <2>6 DEF FutureMeans, Future
  <2>8. us = [s EXCEPT ![i] = v]
    BY <2>1
  <2>9. s = [j \in DOMAIN s |-> s[j]]
    BY <1>4 DEF IsSeq
  <2>10. DOMAIN us = DOMAIN s /\ \A j \in DOMAIN s : us[j] = IF j = i THEN v ELSE s[j]
    BY <1>5, <2>8, <2>9
  <2>11. \A j \in DOMAIN us :
            FutureMeans(program, execs, f.ctx.run, program.fans[f.at][j], us[j])
    BY <1>2, <1>4, <2>7, <2>10 DEF BodyCallMeans
  <2>12. g = [op |-> f.op, at |-> f.at, h |-> f.h, ctx |-> f.ctx, in |-> f.in,
              path |-> f.path, key |-> f.key, futures |-> us, ret |-> None]
    BY <1>2, <1>4, <2>1 DEF Frame
  <2>13. SameCall(f, g)
    BY <1>4, <2>12 DEF SameCall
  <2>14. FrameMeans(program, execs, path, g)
    BY <1>4, <2>11, <2>12 DEF FrameMeans, BodyCallMeans
  <2> QED
    BY <1>1, <1>3, <1>4, <1>9, <2>1, <2>13, <2>14, SetTopMeans, KeptSame
<1> QED
  BY <1>5, <1>8, <1>9

\* A body has futures of dependencies it has.
LEMMA FannedIn ==
    ASSUME NEW p \in Programs, NEW ex, NEW f, BodyFrame(p, ex, f)
    PROVE  DOMAIN f.futures \subseteq DOMAIN p.fans[f.at]
<1>1. PICK us, l : us = f.futures /\ l = p.fans[f.at]
  OBVIOUS
<1>2. l \in Seq(p.handles) /\ IsSeq(us)
  BY <1>1, ProgramsAssumption DEF BodyFrame, IsProgram
<1>3. PICK m, n \in Nat : m = Len(us) /\ n = Len(l) /\ DOMAIN us = 1..m /\ DOMAIN l = 1..n
  BY <1>2, SeqFacts, LenProperties
<1>4. m <= n
  BY <1>1, <1>3 DEF BodyFrame
<1>5. 1..m \subseteq 1..n
  BY <1>3, <1>4
<1> QED
  BY <1>1, <1>3, <1>5

\* A body fails with its dependencies or by itself, ...
LEMMA BodyFailsMeans ==
    ASSUME NoneIsNoResult, RType, MeansInv, UNCHANGED program, NEW t \in Threads, BodyFails(t)
    PROVE  MeansInv'
<1>1. PICK f : f = Top(t)
  OBVIOUS
<1>2. InBody(t) /\ UNCHANGED <<execs, path>>
  BY DEF BodyFails, AllGot
<1>3. /\ program \in Programs /\ Running(t) /\ f.op = "body" /\ f.at \in program.defs
      /\ BodyFrame(program, execs, f) /\ BodyCallMeans(program, execs, path, f)
  BY <1>1, <1>2, BodyCallFacts
<1>4. PICK code, v : /\ code = BodyCode(program, UserCode(program), f.at)
                     /\ v = BodyValue(program, Meaning(program), f.at, f.in.val)
  OBVIOUS
<1>5. ASSUME NEW r, IsResult(r), Return(t, r), Means(r, v, f.ctx.run, code)
      PROVE  MeansInv'
  <2>1. Answers(program, path', f, r)
    BY <1>3, <1>4, <1>5 DEF Answers, BodyMeans
  <2> QED
    BY <1>1, <1>2, <1>3, <1>5, <2>1, ReturnMeans, KeptSame
<1>6. CASE Return(t, Fails(f.ctx.run, f.at))
  <2>1. f.at \in code
    BY <1>4 DEF BodyCode
  <2> QED
    BY <1>5, <1>6, <2>1, FailsMeans, Results
<1>7. CASE /\ Failed(t) # {}
           /\ Return(t, Err(UNION {Futures(t)[i].res.cause : i \in Failed(t)}))
  <2>1. PICK c : c = UNION {Futures(t)[i].res.cause : i \in Failed(t)}
    OBVIOUS
  <2>2. ASSUME NEW i \in Failed(t)
        PROVE  /\ Futures(t)[i].res.cause # {}
               /\ Futures(t)[i].res.cause \subseteq {f.ctx.run} \X code
    <3>1. PICK r, h : r = f.futures[i].res /\ h = program.fans[f.at][i]
      OBVIOUS
    <3>2. /\ i \in DOMAIN f.futures /\ r # None /\ ~r.ok /\ h \notin program.tolerated
          /\ Futures(t)[i].res = r
      BY <1>1, <3>1 DEF Failed, Futures, Fans
    <3>3. i \in DOMAIN program.fans[f.at]
      BY <1>3, <3>2, FannedIn DEF RType
    <3>4. HandleMeans(program, f.ctx.run, h, r)
      BY <1>3, <3>1, <3>2 DEF BodyCallMeans, FutureMeans
    <3>5. UserCode(program)[h] \subseteq code
      BY <1>3, <1>4, <3>1, <3>2, <3>3, NeededCode
    <3> QED
      BY <3>2, <3>4, <3>5 DEF HandleMeans, Means
  <2>3. c # {} /\ c \subseteq {f.ctx.run} \X code
    BY <1>7, <2>1, <2>2
  <2>4. Means(Err(c), v, f.ctx.run, code)
    BY <2>3 DEF Means, Err
  <2> QED
    BY <1>5, <1>7, <2>1, <2>4, Results
<1> QED
  BY <1>1, <1>6, <1>7 DEF BodyFails

\* ... makes a value of what it fanned in, ...
LEMMA BodyCombinesMeans ==
    ASSUME NoneIsNoResult, RType, MeansInv, UNCHANGED program, NEW t \in Threads,
           BodyCombines(t)
    PROVE  MeansInv'
<1>1. PICK f : f = Top(t)
  OBVIOUS
<1>2. PICK d, m, fans : d = f.at /\ m = Meaning(program) /\ fans = program.fans[d]
  OBVIOUS
<1>3. /\ InBody(t) /\ UNCHANGED <<execs, path>> /\ program.final[d] = None
      /\ Len(f.futures) = Len(fans)
  BY <1>1, <1>2 DEF BodyCombines, Got, FinalOf, Futures, Fans
<1>4. /\ program \in Programs /\ Running(t) /\ f.op = "body" /\ d \in program.defs
      /\ BodyCallMeans(program, execs, path, f)
      /\ DOMAIN f.futures = 1..Len(f.futures) /\ fans \in Seq(program.handles)
  BY <1>1, <1>2, <1>3, BodyCallFacts
<1>5. DOMAIN f.futures = DOMAIN fans
  BY <1>3, <1>4, LenProperties
<1>6. PICK got : got = [i \in DOMAIN f.futures |->
                          IF fans[i] \in program.tolerated THEN <<fans[i]>>
                          ELSE f.futures[i].res.val]
  OBVIOUS
<1>7. PICK want : want = [i \in DOMAIN fans |->
                          IF fans[i] \in program.tolerated THEN <<fans[i]>>
                          ELSE m[fans[i]]]
  OBVIOUS
<1>8. ASSUME NEW i \in DOMAIN fans
      PROVE  got[i] = want[i]
  <2>1. CASE fans[i] \in program.tolerated
    BY <1>5, <1>6, <1>7, <2>1
  <2>2. CASE fans[i] \notin program.tolerated
    <3>1. f.futures[i].res # None /\ f.futures[i].res.ok
      BY <1>1, <1>2, <1>5, <2>2 DEF BodyCombines, Got, Pending, Failed, Futures, Fans
    <3>2. HandleMeans(program, f.ctx.run, fans[i], f.futures[i].res)
      BY <1>2, <1>4, <1>5, <3>1 DEF BodyCallMeans, FutureMeans
    <3>3. f.futures[i].res.val = m[fans[i]]
      BY <1>2, <3>1, <3>2 DEF HandleMeans, Means
    <3> QED
      BY <1>5, <1>6, <1>7, <2>2, <3>3
  <2> QED
    BY <2>1, <2>2
<1>9. got = want
  BY <1>5, <1>6, <1>7, <1>8
<1>10. PICK r : r = Ok(<<d, f.in.val>> \o got)
  OBVIOUS
<1>11. Return(t, r)
  BY <1>1, <1>2, <1>6, <1>10 DEF BodyCombines, Futures, Fans
<1>12. BodyValue(program, m, d, f.in.val) = <<d, f.in.val>> \o want
  BY <1>2, <1>3, <1>7 DEF BodyValue
<1>13. BodyMeans(program, f.ctx.run, d, f.in.val, r)
  BY <1>2, <1>9, <1>10, <1>12, OkMeans DEF BodyMeans
<1>14. Answers(program, path', f, r) /\ IsResult(r)
  BY <1>2, <1>4, <1>10, <1>13, Results DEF Answers
<1> QED
  BY <1>1, <1>3, <1>4, <1>11, <1>14, ReturnMeans, KeptSame

\* ... or returns what its last handle means.
LEMMA ResolveFinalMeans ==
    ASSUME NoneIsNoResult, RType, MeansInv, UNCHANGED program, NEW t \in Threads,
           ResolveFinal(t)
    PROVE  MeansInv'
<1>1. PICK f : f = Top(t)
  OBVIOUS
<1>2. PICK h : h = program.final[f.at]
  OBVIOUS
<1>3. /\ InBody(t) /\ UNCHANGED <<execs, path>> /\ h # None
      /\ Len(f.futures) = Len(program.fans[f.at])
  BY <1>1, <1>2 DEF ResolveFinal, Got, FinalOf, Futures, Fans
<1>4. /\ program \in Programs /\ Running(t) /\ f.op = "body" /\ f.at \in program.defs
      /\ BodyCallMeans(program, execs, path, f) /\ Frame(f) /\ Len(f.futures) \in Nat
  BY <1>1, <1>3, BodyCallFacts
<1>5. h = Asked(program, f)
  <2>1. PICK n : n = Len(f.futures) /\ n = Len(program.fans[f.at])
    BY <1>3
  <2>2. ~(n < n)
    BY <1>4, <2>1
  <2> QED
    BY <1>2, <2>1, <2>2 DEF Asked
<1>6. ~Gets(program, f)
  BY <1>1 DEF ResolveFinal, Got, Pending, Futures, Gets
<1>7. CASE Call(t, ResolveCall(h, f.ctx, None)) /\ UNCHANGED outcome
  BY <1>1, <1>3, <1>4, <1>5, <1>7, CallResolveMeans
<1>8. CASE f.ret # None /\ Return(t, f.ret)
  <2>1. HandleMeans(program, f.ctx.run, h, f.ret)
    BY <1>4, <1>5, <1>6, <1>8 DEF BodyCallMeans, ResolvedTo
  <2>2. BodyMeans(program, f.ctx.run, f.at, f.in.val, f.ret)
    BY <1>2, <1>3, <1>4, <2>1, FinalMeans
  <2>3. Answers(program, path', f, f.ret) /\ IsResult(f.ret)
    BY <1>4, <1>8, <2>2 DEF Answers, Frame, ResultOrNone
  <2> QED
    BY <1>1, <1>3, <1>4, <1>8, <2>3, ReturnMeans, KeptSame
<1> QED
  BY <1>1, <1>2, <1>7, <1>8 DEF ResolveFinal, FinalOf

LEMMA NextMeans ==
    ASSUME NoneIsNoResult, RType, PathInv, MeansInv, Unfolds(program), FansNodes(program),
           [Next]_<<program, vars>>
    PROVE  MeansInv'
<1>1. CASE UNCHANGED <<program, vars>>
  BY <1>1 DEF vars, MeansInv, Under
<1>2. ASSUME NEW t \in Threads, Resolve(t), UNCHANGED program
      PROVE  MeansInv'
  BY <1>2, ResolveIntoMeans, StepBindMeans, BindStartsMeans, TakeInstanceMeans, SetPathMeans,
     GetOrCreateMeans, GetResultMeans DEF Resolve
<1>3. ASSUME NEW t \in Threads, Execute(t) \/ LeafReturns(t), UNCHANGED program
      PROVE  MeansInv'
  BY <1>3, NoInputToResolveMeans, ResolveInputMeans, InputResolvedMeans, CallBodyMeans,
     BodyReturnedMeans, LeafReturnsMeans DEF Execute
<1>4. ASSUME NEW t \in Threads, Body(t), UNCHANGED program
      PROVE  MeansInv'
  BY <1>4, FanInResolvesMeans, FanInReturnsMeans, GetFutureMeans, BodyFailsMeans,
     BodyCombinesMeans, ResolveFinalMeans DEF Body
<1> QED
  BY <1>1, <1>2, <1>3, <1>4 DEF Next, Framework, Terminated

LEMMA InitMeans ==
    ASSUME Init
    PROVE  MeansInv
<1>1. DOMAIN execs = {} /\ \A t \in Threads : outcome[t] = None
  BY EmptySequence DEF Init
<1>2. ASSUME NEW t \in Threads
      PROVE  /\ DOMAIN stack[t] = 1..1 /\ Under(t) = {}
             /\ FrameMeans(program, execs, path, stack[t][1])
             /\ MainCall(program, t, stack[t][1])
  <2>1. PICK f : f = BodyCall(program.main[t].def, program.main[t].ctx, Ok(<<>>))
    OBVIOUS
  <2>2. stack[t] = <<f>>
    BY <2>1 DEF Init
  <2>3. MainCall(program, t, f)
    BY <2>1 DEF MainCall, BodyCall
  <2>4. FrameMeans(program, execs, path, f)
    BY <2>1, EmptySequence DEF FrameMeans, BodyCallMeans, BodyCall, Ok
  <2>5. <<f>> \in Seq({f}) /\ Len(<<f>>) = 1 /\ <<f>>[1] = f
    OBVIOUS
  <2>6. DOMAIN <<f>> = 1..1
    BY <2>5, LenProperties
  <2>7. 1..Len(<<f>>) - 1 = {}
    BY <2>5
  <2> QED
    BY <2>2, <2>3, <2>4, <2>5, <2>6, <2>7 DEF Under
<1>3. \A t \in Threads : \A i \in DOMAIN stack[t] :
          FrameMeans(program, execs, path, stack[t][i])
  BY <1>2
<1> QED
  BY <1>1, <1>2, <1>3 DEF MeansInv, ExecsMean

LEMMA MeansInductive ==
    ASSUME NoneIsNoResult, \A p \in Programs : WellBuilt(p)
    PROVE  /\ Init => RType /\ PathInv /\ MeansInv
           /\ RType /\ PathInv /\ MeansInv /\ [Next]_<<program, vars>> =>
                  RType' /\ PathInv' /\ MeansInv'
<1>1. Init => RType /\ PathInv /\ MeansInv
  BY InitType, InitPaths, InitMeans
<1>2. RType => WellBuilt(program)
  BY DEF RType
<1> QED
  BY <1>1, <1>2, NextType, NextPaths, NextMeans DEF WellBuilt

\* Whatever other goroutines and runs do to the definitions and handles it shares with
\* them, a goroutine that gets a value gets the one its body stands for.
THEOREM ValuesAreMeanings ==
    NoneIsNoResult /\ (\A p \in Programs : WellBuilt(p)) => (Spec => []ResultIsMeaning)
<1> SUFFICES ASSUME NoneIsNoResult, \A p \in Programs : WellBuilt(p)
             PROVE  Spec => []ResultIsMeaning
  OBVIOUS
<1>1. MeansInv => ResultIsMeaning
  BY DEF MeansInv, OutcomeMeans, BodyMeans, Means, ResultIsMeaning
<1> QED
  BY <1>1, MeansInductive, PTL DEF Spec

\* A goroutine that gets an error gets the errors of user code it depends on, of its
\* own run: the framework makes none up and passes none from run to run.
THEOREM ErrorsHaveCauses ==
    NoneIsNoResult /\ (\A p \in Programs : WellBuilt(p)) => (Spec => []ErrorHasCause)
<1> SUFFICES ASSUME NoneIsNoResult, \A p \in Programs : WellBuilt(p)
             PROVE  Spec => []ErrorHasCause
  OBVIOUS
<1>1. MeansInv => ErrorHasCause
  BY DEF MeansInv, OutcomeMeans, BodyMeans, Means, ErrorHasCause
<1> QED
  BY <1>1, MeansInductive, PTL DEF Spec

------------------------------------------------------------------------------
(* Futures. A resolution in progress, on its own stack or on another one,    *)
(* is of a handle of its own, so that nobody else writes the path it holds.  *)

\* What a call is about: its handle, or the one of its executioner.
HandleOf(ex, f) == IF f.op = "execute" THEN ex[f.key].h ELSE f.h
Mine(p, ex, f) == IF f.op = "body" THEN ScopeOf(p, f.at) ELSE {HandleOf(ex, f)} \cap Nodes(p)

Rank(p, ex, f) == IF f.op = "execute" THEN 2 * Depth(p)[HandleOf(ex, f)]
                  ELSE 2 * Depth(p)[HandleOf(ex, f)] + 1

\* The call u, above l on a stack, is in a body below l, or about an input of l's handle.
Deeper(p, ex, l, u) ==
    \/ Len(u.ctx.base) > Len(l.ctx.base)
    \/ /\ u.ctx = l.ctx /\ u.op # "body"
       /\ l.op # "body" => Rank(p, ex, u) < Rank(p, ex, l)

\* The i-th call of the stack s of t is about what the body of t resolves itself, or it is
\* in the body of an execution below it.
Belongs(p, ex, t, s, i) ==
    \/ s[i].ctx = p.main[t].ctx /\ Mine(p, ex, s[i]) \subseteq ScopeOf(p, p.main[t].def)
    \/ \E j \in 1..i - 1 : /\ s[j].op = "execute"
                           /\ s[i].ctx.run = s[j].key[1] /\ s[i].ctx.base = s[j].key[3]

NestInv ==
    \A t \in Threads : \A j \in DOMAIN stack[t] :
        /\ \A i \in 1..j - 1 : Deeper(program, execs, stack[t][i], stack[t][j])
        /\ Belongs(program, execs, t, stack[t], j)

\* An executioner that runs is run by one call.
Runs(f, k) == f.op = "execute" /\ f.key = k

OnceInv ==
    /\ \A t \in Threads : \A i \in DOMAIN stack[t] :
         stack[t][i].op = "execute" => execs[stack[t][i].key].state = "running"
    /\ \A t, u \in Threads : \A i \in DOMAIN stack[t] : \A j \in DOMAIN stack[u] :
         /\ stack[t][i].op = "execute" /\ stack[u][j].op = "execute"
         /\ stack[t][i].key = stack[u][j].key
         => t = u /\ i = j

\* A resolution holds the path on its handle, and a future the result seen.
Seen(ex, u) == IF u.res # None THEN u.res = u.seen
               ELSE ex[u.key].state = "done" /\ ex[u.key].result = u.seen
Held(p, ex, pa, f) ==
    /\ f.op = "resolve" /\ f.in = None /\ f.at \in {"lookup", "getResult"} =>
         /\ f.path = pa[<<f.ctx, f.h>>]
         /\ f.at = "getResult" => f.key = <<f.ctx.run, f.ctx.reg, f.path>>
    /\ f.op = "body" => \A j \in DOMAIN f.futures : Seen(ex, f.futures[j])

\* The result of a node is that of the executioner under the path on its handle.
ResultAt(p, ex, pa, ctx, h, r) ==
    r.ok /\ p.kind[h] = "node" =>
        LET k == <<ctx.run, ctx.reg, pa[<<ctx, h>>]>>
        IN  k \in DOMAIN ex /\ ex[k].state = "done" /\ ex[k].result = r
Settled(p, ex, pa, f) ==
    f.op = "body" /\ f.ret # None /\ ~Gets(p, f) =>
        ResultAt(p, ex, pa, f.ctx, Asked(p, f), f.ret)

HoldInv ==
    /\ \A t \in Threads : \A i \in DOMAIN stack[t] : Held(program, execs, path, stack[t][i])
    /\ \A t \in Threads : stack[t] # <<>> => Settled(program, execs, path, Last(stack[t]))

ResultInv == RType /\ PathInv /\ MeansInv
FutureInv == NestInv /\ OnceInv /\ HoldInv

------------------------------------------------------------------------------
(* Where the calls of a stack are.                                           *)

LEMMA RankIsNumber ==
    ASSUME NEW p, NoCycles(p), NEW ex, ExecsOK(p, ex), NEW f, FrameOK(p, ex, f), f.op # "body"
    PROVE  HandleOf(ex, f) \in p.handles /\ Rank(p, ex, f) \in Nat
<1>1. CASE f.op = "resolve"
  <2>1. f.h \in p.handles
    BY <1>1 DEF FrameOK, ResolveFrame, ExecuteFrame, BodyFrame
  <2> QED
    BY <1>1, <2>1 DEF HandleOf, Rank, NoCycles
<1>2. CASE f.op = "execute"
  <2>1. f.key \in DOMAIN ex
    BY <1>2 DEF FrameOK, ResolveFrame, ExecuteFrame, BodyFrame
  <2>2. ex[f.key].h \in p.handles
    BY <2>1 DEF ExecsOK, ExecOK
  <2> QED
    BY <1>2, <2>2 DEF HandleOf, Rank, NoCycles
<1> QED
  BY <1>1, <1>2 DEF FrameOK, ResolveFrame, ExecuteFrame, BodyFrame

LEMMA BaseLength ==
    ASSUME NEW p, NEW ex, NEW f, FrameOK(p, ex, f)
    PROVE  Len(f.ctx.base) \in Nat
BY LenProperties DEF FrameOK, Frame, IsContext, NodePaths

LEMMA DeeperStill ==
    ASSUME NEW p, NoCycles(p), NEW ex, ExecsOK(p, ex), NEW l, NEW m, NEW u,
           FrameOK(p, ex, l), FrameOK(p, ex, m), FrameOK(p, ex, u),
           Deeper(p, ex, l, m), Deeper(p, ex, m, u)
    PROVE  Deeper(p, ex, l, u)
<1>1. Len(l.ctx.base) \in Nat /\ Len(m.ctx.base) \in Nat /\ Len(u.ctx.base) \in Nat
  BY BaseLength
<1>2. CASE Len(m.ctx.base) > Len(l.ctx.base) \/ Len(u.ctx.base) > Len(m.ctx.base)
  <2>1. Len(m.ctx.base) >= Len(l.ctx.base) /\ Len(u.ctx.base) >= Len(m.ctx.base)
    BY <1>1 DEF Deeper
  <2>2. Len(u.ctx.base) > Len(l.ctx.base)
    BY <1>1, <1>2, <2>1
  <2> QED
    BY <2>2 DEF Deeper
<1>3. CASE ~(Len(m.ctx.base) > Len(l.ctx.base) \/ Len(u.ctx.base) > Len(m.ctx.base))
  <2>1. /\ m.ctx = l.ctx /\ u.ctx = m.ctx /\ m.op # "body" /\ u.op # "body"
        /\ Rank(p, ex, u) < Rank(p, ex, m)
        /\ l.op # "body" => Rank(p, ex, m) < Rank(p, ex, l)
    BY <1>3 DEF Deeper
  <2>2. Rank(p, ex, u) \in Nat /\ Rank(p, ex, m) \in Nat
        /\ (l.op # "body" => Rank(p, ex, l) \in Nat)
    BY <2>1, RankIsNumber
  <2>3. l.op # "body" => Rank(p, ex, u) < Rank(p, ex, l)
    BY <2>1, <2>2
  <2> QED
    BY <2>1, <2>3 DEF Deeper
<1> QED
  BY <1>2, <1>3

LEMMA HandleStays ==
    ASSUME NEW p, NEW ex, NEW ey, Grows(ex, ey), NEW f, FrameOK(p, ex, f)
    PROVE  HandleOf(ey, f) = HandleOf(ex, f) /\ Mine(p, ey, f) = Mine(p, ex, f)
           /\ Rank(p, ey, f) = Rank(p, ex, f)
<1>1. f.op = "execute" => f.key \in DOMAIN ex
  BY DEF FrameOK, ResolveFrame, ExecuteFrame, BodyFrame
<1>2. HandleOf(ey, f) = HandleOf(ex, f)
  BY <1>1 DEF HandleOf, Grows
<1> QED
  BY <1>2 DEF Mine, Rank

LEMMA DeeperStays ==
    ASSUME NEW p, NEW ex, NEW ey, Grows(ex, ey), NEW l, NEW u, FrameOK(p, ex, l),
           FrameOK(p, ex, u), Deeper(p, ex, l, u)
    PROVE  Deeper(p, ey, l, u)
BY HandleStays DEF Deeper

LEMMA BelongsStays ==
    ASSUME NEW p, NEW ex, NEW ey, Grows(ex, ey), NEW t, NEW s, NEW sx, NEW i,
           FrameOK(p, ex, s[i]), sx[i] = s[i], \A j \in 1..i - 1 : sx[j] = s[j],
           Belongs(p, ex, t, s, i)
    PROVE  Belongs(p, ey, t, sx, i)
BY HandleStays DEF Belongs

\* What a body asks for is in its scope.
LEMMA AskedIsInScope ==
    ASSUME NEW p \in Programs, NEW ex, NEW l, BodyFrame(p, ex, l), NEW h, h = Asked(p, l)
    PROVE  /\ h # None => h \in p.handles
           /\ h \in Nodes(p) => h \in ScopeOf(p, l.at)
<1>1. PICK us, fans, n, m : /\ us = l.futures /\ fans = p.fans[l.at]
                           /\ n = Len(us) /\ m = Len(fans)
  OBVIOUS
<1>2. l.at \in p.defs /\ IsSeq(us) /\ fans \in Seq(p.handles)
      /\ p.final[l.at] \in p.handles \cup {None}
  BY <1>1, ProgramsAssumption DEF BodyFrame, IsProgram
<1>3. n \in Nat /\ m \in Nat /\ DOMAIN fans = 1..m
  BY <1>1, <1>2, SeqFacts, LenProperties
<1>4. CASE n < m /\ h = fans[n + 1]
  <2>1. n + 1 \in 1..m
    BY <1>3, <1>4
  <2>2. n + 1 \in DOMAIN fans
    BY <1>3, <2>1
  <2> QED
    BY <1>1, <1>2, <1>4, <2>2, ElementOfSeq, ScopeFacts
<1>5. CASE h = p.final[l.at]
  BY <1>2, <1>5, ScopeFacts
<1> QED
  BY <1>1, <1>4, <1>5 DEF Asked

\* The handles a call resolves are those of its own scope, ...
LEMMA MineBelow ==
    ASSUME NEW p \in Programs, NEW cs, NEW ex, ExecsOK(p, ex), NEW l, NEW u,
           FrameOK(p, ex, l), FrameOK(p, ex, u), Waiting(p, l), FramePlaced(p, cs, ex, l),
           Linked(p, ex, l, u), u.op # "body", u.op = "execute" => l.op # "body",
           NEW D \in p.defs, Mine(p, ex, l) \subseteq ScopeOf(p, D)
    PROVE  u.ctx = l.ctx /\ Mine(p, ex, u) \subseteq ScopeOf(p, D)
<1>2. CASE u.op = "execute"
  <2>1. l.op = "resolve" /\ l.at = "getResult" /\ l.key = u.key
    BY <1>2 DEF Linked
  <2>2. ex[u.key].h = l.h /\ ex[u.key].ctx = l.ctx
    BY <2>1 DEF FramePlaced
  <2>3. u.ctx = ex[u.key].ctx
    BY <1>2 DEF FrameOK, ResolveFrame, ExecuteFrame, BodyFrame
  <2>4. Mine(p, ex, u) = Mine(p, ex, l)
    BY <1>2, <2>1, <2>2 DEF Mine, HandleOf
  <2> QED
    BY <2>2, <2>3, <2>4
<1>3. CASE u.op = "resolve"
  <2>1. u.ctx = l.ctx
    BY <1>3 DEF Linked
  <2>2. Mine(p, ex, u) = {u.h} \cap Nodes(p)
    BY <1>3 DEF Mine, HandleOf
  <2>3. CASE l.op = "body"
    <3>1. l.at \in p.defs /\ u.h = Asked(p, l) /\ Mine(p, ex, l) = ScopeOf(p, l.at)
      BY <1>3, <2>3 DEF Linked, FrameOK, ResolveFrame, ExecuteFrame, BodyFrame, Mine
    <3>2. u.h \in Nodes(p) => u.h \in ScopeOf(p, l.at)
      BY <2>3, <3>1, AskedIsInScope DEF FrameOK, ResolveFrame, ExecuteFrame
    <3> QED
      BY <2>1, <2>2, <3>1, <3>2
  <2>4. CASE l.op # "body"
    <3>1. PICK h : h = HandleOf(ex, l)
      OBVIOUS
    <3>2. h \in p.handles /\ p.def[h] # None /\ u.h = p.input[h]
      <4>1. CASE l.op = "resolve"
        <5>1. l.h \in p.handles /\ u.h = p.input[l.h] /\ l.at = "start"
          BY <1>3, <4>1 DEF Linked, FrameOK, ResolveFrame, ExecuteFrame, BodyFrame
        <5>2. p.kind[l.h] = "bind"
          BY <4>1, <5>1 DEF Waiting
        <5> QED
          BY <3>1, <4>1, <5>1, <5>2, ProgramsAssumption DEF HandleOf, IsProgram
      <4>2. CASE l.op = "execute"
        <5>1. l.key \in DOMAIN ex /\ u.h = p.input[ex[l.key].h]
          BY <1>3, <4>2 DEF Linked, FrameOK, ResolveFrame, ExecuteFrame, BodyFrame
        <5>2. ex[l.key].h \in p.handles /\ p.def[ex[l.key].h] \in p.defs
          BY <5>1 DEF ExecsOK, ExecOK
        <5> QED
          BY <3>1, <4>2, <5>1, <5>2, ProgramsAssumption DEF HandleOf, IsProgram
      <4> QED
        BY <2>4, <4>1, <4>2 DEF FrameOK, ResolveFrame, ExecuteFrame, BodyFrame
    <3>3. h \in Mine(p, ex, l)
      BY <2>4, <3>1, <3>2 DEF Mine, Nodes
    <3>4. h \in ScopeOf(p, D)
      BY <3>3
    <3> QED
      BY <2>1, <2>2, <3>2, <3>4, ScopeFacts
  <2> QED
    BY <2>3, <2>4
<1> QED
  BY <1>2, <1>3 DEF FrameOK, ResolveFrame, ExecuteFrame, BodyFrame

\* ... or of its input.
LEMMA DeeperAbove ==
    ASSUME NEW p \in Programs, NoCycles(p), NEW cs, NEW ex, ExecsOK(p, ex), ExecsPlaced(p, cs, ex),
           NEW l, NEW u, FrameOK(p, ex, l), FrameOK(p, ex, u), Waiting(p, l),
           FramePlaced(p, cs, ex, l), Linked(p, ex, l, u), u.op = "execute" => l.op # "body"
    PROVE  Deeper(p, ex, l, u)
<1>1. None \notin p.handles
  BY ProgramsAssumption DEF IsProgram
<1>2. CASE u.op = "body"
  <2>1. l.op = "execute" /\ u.ctx.base = l.key[3] /\ l.key \in DOMAIN ex /\ l.ctx = ex[l.key].ctx
    BY <1>2 DEF Linked, FrameOK, ResolveFrame, ExecuteFrame, BodyFrame
  <2>2. PICK e : e = ex[l.key]
    OBVIOUS
  <2>3. ExecOK(p, l.key, e) /\ Numbered(p, cs, l.key[3], e.ctx, e.h)
    BY <2>1, <2>2 DEF ExecsOK, ExecsPlaced
  <2>4. PICK n \in Nat : l.key[3] = PathAt(p, e.ctx, e.h, n)
    BY <2>3 DEF Numbered
  <2>5. p.def[e.h] # None /\ e.h \in p.handles /\ IsContext(e.ctx)
    BY <2>3, ProgramsAssumption DEF ExecOK, IsProgram
  <2>6. Len(l.key[3]) = Len(e.ctx.base) + 1
    BY <2>4, <2>5, PathParts
  <2>7. Len(e.ctx.base) \in Nat
    BY <2>1, <2>2, BaseLength
  <2>8. Len(u.ctx.base) > Len(l.ctx.base)
    BY <2>1, <2>2, <2>6, <2>7
  <2> QED
    BY <2>8 DEF Deeper
<1>3. CASE u.op = "execute"
  <2>1. l.op = "resolve" /\ l.at = "getResult" /\ l.key = u.key
    BY <1>3 DEF Linked
  <2>2. ex[u.key].h = l.h /\ ex[u.key].ctx = l.ctx /\ u.ctx = ex[u.key].ctx
    BY <1>3, <2>1 DEF FramePlaced, FrameOK, ResolveFrame, ExecuteFrame, BodyFrame
  <2>3. Rank(p, ex, l) = Rank(p, ex, u) + 1
    BY <1>3, <2>1, <2>2 DEF Rank, HandleOf
  <2>4. Rank(p, ex, u) \in Nat
    BY <1>3, RankIsNumber
  <2>5. Rank(p, ex, u) < Rank(p, ex, l)
    BY <2>3, <2>4
  <2> QED
    BY <1>3, <2>2, <2>5 DEF Deeper
<1>4. CASE u.op = "resolve" /\ l.op = "body"
  BY <1>4 DEF Linked, Deeper
<1>5. CASE u.op = "resolve" /\ l.op # "body"
  <2>1. PICK h : h = HandleOf(ex, l)
    OBVIOUS
  <2>2. h \in p.handles
    BY <1>5, <2>1, RankIsNumber
  <2>3. u.h \in p.handles /\ u.h = p.input[h] /\ u.ctx = l.ctx
    BY <1>5, <2>1 DEF Linked, FrameOK, ResolveFrame, ExecuteFrame, BodyFrame, HandleOf
  <2>4. Depth(p)[u.h] < Depth(p)[h] /\ Depth(p)[u.h] \in Nat /\ Depth(p)[h] \in Nat
    BY <1>1, <2>2, <2>3 DEF NoCycles
  <2>5. /\ Rank(p, ex, u) = 2 * Depth(p)[u.h] + 1
        /\ Rank(p, ex, l) = 2 * Depth(p)[h] \/ Rank(p, ex, l) = 2 * Depth(p)[h] + 1
    BY <1>5, <2>1 DEF Rank, HandleOf
  <2>6. Rank(p, ex, u) < Rank(p, ex, l)
    BY <2>4, <2>5
  <2> QED
    BY <1>5, <2>3, <2>6 DEF Deeper
<1> QED
  BY <1>2, <1>3, <1>4, <1>5 DEF FrameOK, ResolveFrame, ExecuteFrame, BodyFrame

LEMMA BelongsAbove ==
    ASSUME NEW p \in Programs, NEW cs, NEW ex, ExecsOK(p, ex), NEW t \in Threads, NEW s, NEW i \in Nat,
           i # 0, FrameOK(p, ex, s[i]), FrameOK(p, ex, s[i + 1]), Waiting(p, s[i]),
           FramePlaced(p, cs, ex, s[i]), Linked(p, ex, s[i], s[i + 1]),
           s[i + 1].op = "execute" => s[i].op # "body", Belongs(p, ex, t, s, i)
    PROVE  Belongs(p, ex, t, s, i + 1)
<1>1. PICK l, u : l = s[i] /\ u = s[i + 1]
  OBVIOUS
<1>2. i + 1 - 1 = i /\ 1..i - 1 \subseteq 1..i /\ i \in 1..i
  OBVIOUS
<1>3. CASE u.op = "body"
  <2>1. l.op = "execute" /\ u.ctx.run = l.ctx.run /\ u.ctx.base = l.key[3]
    BY <1>1, <1>3 DEF Linked
  <2>2. l.key \in DOMAIN ex /\ l.ctx = ex[l.key].ctx
    BY <1>1, <2>1 DEF FrameOK, ResolveFrame, ExecuteFrame, BodyFrame
  <2>3. l.key[1] = l.ctx.run
    BY <2>2 DEF ExecsOK, ExecOK
  <2> QED
    BY <1>1, <1>2, <2>1, <2>3 DEF Belongs
<1>4. CASE u.op # "body"
  <2>1. ASSUME l.ctx = p.main[t].ctx, Mine(p, ex, l) \subseteq ScopeOf(p, p.main[t].def)
        PROVE  Belongs(p, ex, t, s, i + 1)
    <3>1. p.main[t].def \in p.defs
      BY ProgramsAssumption DEF IsProgram
    <3>2. u.ctx = l.ctx /\ Mine(p, ex, u) \subseteq ScopeOf(p, p.main[t].def)
      BY <1>1, <1>4, <2>1, <3>1, MineBelow
    <3> QED
      BY <1>1, <2>1, <3>2 DEF Belongs
  <2>2. ASSUME NEW j \in 1..i - 1, s[j].op = "execute",
               l.ctx.run = s[j].key[1], l.ctx.base = s[j].key[3]
        PROVE  Belongs(p, ex, t, s, i + 1)
    <3>1. u.ctx = l.ctx
      <4>1. CASE u.op = "resolve"
        BY <1>1, <4>1 DEF Linked
      <4>2. CASE u.op = "execute"
        <5>1. l.op = "resolve" /\ l.at = "getResult" /\ l.key = u.key
          BY <1>1, <4>2 DEF Linked
        <5> QED
          BY <1>1, <4>2, <5>1 DEF FramePlaced, FrameOK, ResolveFrame, ExecuteFrame, BodyFrame
      <4> QED
        BY <1>1, <1>4, <4>1, <4>2 DEF FrameOK, ResolveFrame, ExecuteFrame, BodyFrame
    <3>2. j \in 1..i + 1 - 1
      BY <1>2, <2>2
    <3> QED
      BY <1>1, <2>2, <3>1, <3>2 DEF Belongs
  <2> QED
    BY <1>1, <2>1, <2>2 DEF Belongs
<1> QED
  BY <1>3, <1>4

------------------------------------------------------------------------------
(* Who else is about a handle.                                               *)

LEMMA NodesAreMine ==
    ASSUME RType, NEW f, FrameOK(program, execs, f), f.op = "resolve", f.in = None, f.at # "start"
    PROVE  program.kind[f.h] = "node" /\ f.h \in Mine(program, execs, f)
<1>1. f.h \in program.handles /\ program.kind[f.h] = "node"
  BY DEF FrameOK, ResolveFrame, ExecuteFrame, BodyFrame
<1>2. program.def[f.h] # None
  BY <1>1, ProgramFacts DEF IsProgram
<1> QED
  BY <1>1, <1>2 DEF Mine, HandleOf, Nodes

\* No calls of two goroutines with one Context are about one handle.
LEMMA NobodyElse ==
    ASSUME RType, PathInv, NestInv, OnceInv, OwnHandles(program),
           NEW t \in Threads, NEW u \in Threads, t # u,
           NEW i \in DOMAIN stack[t], NEW j \in DOMAIN stack[u], stack[t][i].ctx = stack[u][j].ctx,
           NEW h, h \in Mine(program, execs, stack[t][i]), h \in Mine(program, execs, stack[u][j])
    PROVE  FALSE
<1>1. PICK ctx : ctx = stack[t][i].ctx /\ ctx = stack[u][j].ctx
  OBVIOUS
<1>2. ASSUME NEW v \in Threads, NEW n \in DOMAIN stack[v], NEW m \in 1..n - 1,
             stack[v][m].op = "execute"
      PROVE  m \in DOMAIN stack[v] /\ stack[v][m].key \in DOMAIN execs
  <2>1. PICK d : d = stack[v]
    OBVIOUS
  <2>2. DOMAIN d = 1..Len(d) /\ Len(d) \in Nat
    BY <2>1, SeqFacts DEF RType, StacksOK
  <2>3. m \in DOMAIN d
    BY <2>1, <2>2
  <2> QED
    BY <1>2, <2>1, <2>3 DEF RType, FrameOK, ResolveFrame, ExecuteFrame, BodyFrame
<1>3. ASSUME NEW v \in Threads, NEW w \in Threads, ctx = program.main[v].ctx,
             NEW n \in DOMAIN stack[w], NEW m \in 1..n - 1, stack[w][m].op = "execute",
             ctx.run = stack[w][m].key[1], ctx.base = stack[w][m].key[3]
      PROVE  FALSE
  <2>1. PICK k \in DOMAIN execs : k = stack[w][m].key
    BY <1>2, <1>3
  <2>2. Len(k[3]) > Len(ctx.base) /\ k[3] = ctx.base
    BY <1>3, <2>1 DEF PathInv, BelowMains
  <2>3. Len(ctx.base) \in Nat
    BY <1>1, BaseLength DEF RType
  <2> QED
    BY <2>2, <2>3
<1>4. CASE /\ ctx = program.main[t].ctx /\ ctx = program.main[u].ctx
           /\ h \in ScopeOf(program, program.main[t].def)
           /\ h \in ScopeOf(program, program.main[u].def)
  <2>1. DOMAIN program.main = Threads
    BY ProgramFacts DEF IsProgram
  <2> QED
    BY <1>4, <2>1 DEF OwnHandles
<1>5. ASSUME NEW m \in 1..i - 1, NEW n \in 1..j - 1,
             stack[t][m].op = "execute", stack[u][n].op = "execute",
             ctx.run = stack[t][m].key[1], ctx.base = stack[t][m].key[3],
             ctx.run = stack[u][n].key[1], ctx.base = stack[u][n].key[3]
      PROVE  FALSE
  <2>1. stack[t][m].key \in DOMAIN execs /\ stack[u][n].key \in DOMAIN execs
        /\ m \in DOMAIN stack[t] /\ n \in DOMAIN stack[u]
    BY <1>2, <1>5
  <2>2. stack[t][m].key = stack[u][n].key
    BY <1>5, <2>1 DEF PathInv, OneRegistry
  <2> QED
    BY <1>5, <2>1, <2>2 DEF OnceInv
<1>6. Belongs(program, execs, t, stack[t], i) /\ Belongs(program, execs, u, stack[u], j)
  BY DEF NestInv
<1> QED
  BY <1>1, <1>3, <1>4, <1>5, <1>6 DEF Belongs

\* Nor are two on one stack.
LEMMA NotTwice ==
    ASSUME RType, NestInv, NoCycles(program), NEW t \in Threads, NEW j \in DOMAIN stack[t],
           NEW i \in 1..j - 1, i \in DOMAIN stack[t],
           stack[t][i].op = "resolve", stack[t][j].op = "resolve",
           stack[t][i].ctx = stack[t][j].ctx, stack[t][i].h = stack[t][j].h
    PROVE  FALSE
<1>1. PICK l, u : l = stack[t][i] /\ u = stack[t][j]
  OBVIOUS
<1>2. FrameOK(program, execs, l) /\ FrameOK(program, execs, u) /\ Deeper(program, execs, l, u)
  BY <1>1 DEF RType, NestInv
<1>3. Rank(program, execs, u) = Rank(program, execs, l) /\ Rank(program, execs, u) \in Nat
  BY <1>1, <1>2, RankIsNumber DEF Rank, HandleOf, RType
<1>4. Len(l.ctx.base) \in Nat
  BY <1>2, BaseLength
<1> QED
  BY <1>1, <1>2, <1>3, <1>4 DEF Deeper

------------------------------------------------------------------------------
(* What a step does to the stacks.                                           *)

\* The stack of t has n calls, those below the innermost as before.
Moved(t, n) ==
    /\ n \in Nat /\ n = Len(stack'[t]) /\ DOMAIN stack'[t] = 1..n
    /\ \A i \in 1..n - 1 : i \in DOMAIN stack[t] /\ stack'[t][i] = stack[t][i]
    /\ \A u \in Threads : u # t => stack'[u] = stack[u]

LEMMA TouchedMoves ==
    ASSUME NEW t \in Threads, NEW f, NEW I, Touched(t, f, I), \A i \in I : i \in DOMAIN stack[t],
           NEW n, n = Len(stack'[t])
    PROVE  Moved(t, n) /\ n # 0 /\ stack'[t][n] = f
<1>1. IsSeq(stack'[t]) /\ stack'[t] # <<>>
  BY DEF Touched, StacksOK
<1>2. n \in Nat /\ n # 0 /\ DOMAIN stack'[t] = 1..n
  BY <1>1, SeqFacts
<1> QED
  BY <1>2 DEF Touched, Moved

LEMMA EmptyMoves ==
    ASSUME NEW t \in Threads, stack'[t] = <<>>, \A u \in Threads : u # t => stack'[u] = stack[u]
    PROVE  Moved(t, 0)
<1>1. Len(stack'[t]) = 0 /\ DOMAIN stack'[t] = {} /\ 1..0 = {} /\ 1..0 - 1 = {}
  BY EmptySequence
<1> QED
  BY <1>1 DEF Moved

\* Every call of the new stacks is an old one or the innermost of t.
LEMMA OldOrTop ==
    ASSUME NEW t \in Threads, NEW n, Moved(t, n), NEW u \in Threads, NEW j \in DOMAIN stack'[u]
    PROVE  \/ (u = t /\ j = n /\ n # 0)
           \/ /\ (u # t \/ j \in 1..n - 1)
              /\ j \in DOMAIN stack[u] /\ stack'[u][j] = stack[u][j]
<1>1. CASE u # t
  BY <1>1 DEF Moved
<1>2. CASE u = t
  <2>1. j \in 1..n /\ n \in Nat
    BY <1>2 DEF Moved
  <2>2. (j = n /\ n # 0) \/ j \in 1..n - 1
    BY <2>1
  <2> QED
    BY <1>2, <2>2 DEF Moved
<1> QED
  BY <1>1, <1>2

\* An execution that a body waits for is not running.
LEMMA NotAwaited ==
    ASSUME NEW ex, NEW p, NEW pa, NEW l, NEW u, Held(p, ex, pa, l), Linked(p, ex, l, u),
           u.op = "execute" => ex[u.key].state = "running"
    PROVE  u.op = "execute" => l.op # "body"
<1>1. ASSUME u.op = "execute", l.op = "body"
      PROVE  FALSE
  <2>1. Awaits(l, u.key)
    BY <1>1 DEF Linked
  <2>2. ex[u.key].state = "done"
    BY <1>1, <2>1 DEF Awaits, Held, Seen
  <2> QED
    BY <1>1, <2>2
<1> QED
  BY <1>1

LEMMA JustBelow ==
    ASSUME NEW n \in Nat, n # 0, n # 1
    PROVE  n - 1 \in Nat /\ n - 1 # 0 /\ n - 1 + 1 = n /\ n - 1 \in 1..n /\ n - 1 \in 1..n - 1
OBVIOUS

LEMMA MovedNest ==
    ASSUME ResultInv, ResultInv', NoCycles(program), UNCHANGED program, Grows(execs, execs'),
           NestInv, OnceInv', HoldInv', NEW t \in Threads, NEW n, Moved(t, n)
    PROVE  NestInv'
<1>1. program \in Programs /\ ExecsOK(program, execs') /\ ExecsPlaced(program, counter', execs')
  BY DEF ResultInv, RType, PathInv
<1>2. ASSUME NEW u \in Threads, NEW j \in DOMAIN stack'[u]
      PROVE  /\ FrameOK(program, execs', stack'[u][j])
             /\ FramePlaced(program, counter', execs', stack'[u][j])
             /\ Held(program, execs', path', stack'[u][j])
             /\ stack'[u][j].op = "execute" => execs'[stack'[u][j].key].state = "running"
  BY DEF ResultInv, RType, PathInv, HoldInv, OnceInv
<1>3. ASSUME NEW u \in Threads, NEW j \in DOMAIN stack'[u], u # t \/ j \in 1..n - 1,
             j \in DOMAIN stack[u], stack'[u][j] = stack[u][j]
      PROVE  /\ \A i \in 1..j - 1 : /\ i \in DOMAIN stack'[u]
                                    /\ Deeper(program, execs', stack'[u][i], stack'[u][j])
             /\ Belongs(program, execs', u, stack'[u], j)
  <2>1. PICK d : d = stack[u]
    OBVIOUS
  <2>2. Len(d) \in Nat /\ DOMAIN d = 1..Len(d)
    BY <2>1, SeqFacts DEF ResultInv, RType, StacksOK
  <2>3. \A i \in 1..j - 1 : i \in DOMAIN stack[u]
    BY <1>3, <2>1, <2>2
  <2>4. \A i \in 1..j - 1 : stack'[u][i] = stack[u][i] /\ i \in DOMAIN stack'[u]
    <3>1. CASE u # t
      BY <2>3, <3>1 DEF Moved
    <3>2. CASE u = t
      <4>1. j \in 1..n - 1 /\ n \in Nat
        BY <1>3, <3>2 DEF Moved
      <4>2. \A i \in 1..j - 1 : i \in 1..n - 1 /\ i \in 1..n
        BY <4>1
      <4> QED
        BY <3>2, <4>2 DEF Moved
    <3> QED
      BY <3>1, <3>2
  <2>5. \A i \in 1..j - 1 : /\ FrameOK(program, execs, stack[u][i])
                            /\ Deeper(program, execs, stack[u][i], stack[u][j])
    BY <1>3, <2>3 DEF ResultInv, RType, NestInv
  <2>6. FrameOK(program, execs, stack[u][j]) /\ Belongs(program, execs, u, stack[u], j)
    BY <1>3 DEF ResultInv, RType, NestInv
  <2> QED
    BY <1>3, <2>4, <2>5, <2>6, DeeperStays, BelongsStays
<1>4. ASSUME n # 0
      PROVE  /\ \A i \in 1..n - 1 : Deeper(program, execs', stack'[t][i], stack'[t][n])
             /\ Belongs(program, execs', t, stack'[t], n)
  <2>1. n \in Nat /\ n \in 1..n /\ n = Len(stack'[t]) /\ DOMAIN stack'[t] = 1..n
    BY <1>4 DEF Moved
  <2>2. CASE n = 1
    <3>1. stack'[t] # <<>>
      BY <2>1, <2>2, EmptySequence
    <3>2. MainCall(program, t, stack'[t][1])
      BY <3>1 DEF ResultInv, MeansInv
    <3>3. Belongs(program, execs', t, stack'[t], 1)
      BY <3>2 DEF Belongs, MainCall, Mine
    <3>4. 1..n - 1 = {}
      BY <2>2
    <3> QED
      BY <2>2, <3>3, <3>4
  <2>3. CASE n # 1
    <3>1. PICK m : m = n - 1
      OBVIOUS
    <3>12. m \in Nat /\ m # 0 /\ m + 1 = n /\ m \in 1..n /\ m \in 1..n - 1
      BY <1>4, <2>1, <2>3, <3>1, JustBelow
    <3>2. PICK l, u : l = stack'[t][m] /\ u = stack'[t][n]
      OBVIOUS
    <3>3. Linked(program, execs', l, u)
      BY <2>1, <3>1, <3>12, <3>2 DEF ResultInv, MeansInv, Under
    <3>4. Waiting(program, l)
      BY <2>1, <3>1, <3>12, <3>2 DEF ResultInv, RType, Under
    <3>5. m \in DOMAIN stack'[t] /\ n \in DOMAIN stack'[t]
      BY <2>1, <3>1, <3>12
    <3>6. u.op = "execute" => l.op # "body"
      BY <1>2, <3>2, <3>3, <3>5, NotAwaited
    <3>7. Deeper(program, execs', l, u)
      BY <1>1, <1>2, <3>2, <3>3, <3>4, <3>5, <3>6, DeeperAbove
    <3>8. m \in DOMAIN stack[t] /\ stack'[t][m] = stack[t][m]
      BY <3>1, <3>12 DEF Moved
    <3>9. /\ \A i \in 1..m - 1 : /\ i \in DOMAIN stack'[t]
                                 /\ Deeper(program, execs', stack'[t][i], l)
          /\ Belongs(program, execs', t, stack'[t], m)
      BY <1>3, <3>1, <3>12, <3>2, <3>5, <3>8
    <3>10. Belongs(program, execs', t, stack'[t], m + 1)
      BY <1>1, <1>2, <3>1, <3>12, <3>2, <3>3, <3>4, <3>5, <3>6, <3>9, BelongsAbove
    <3>11. ASSUME NEW i \in 1..n - 1
           PROVE  Deeper(program, execs', stack'[t][i], u)
      <4>1. i = m \/ i \in 1..m - 1
        BY <3>1, <3>12
      <4>2. CASE i \in 1..m - 1
        BY <1>1, <1>2, <3>2, <3>5, <3>7, <3>9, <4>2, DeeperStill
      <4> QED
        BY <3>2, <3>7, <4>1, <4>2
    <3> QED
      BY <3>1, <3>12, <3>2, <3>10, <3>11
  <2> QED
    BY <2>2, <2>3
<1>5. ASSUME NEW u \in Threads, NEW j \in DOMAIN stack'[u]
      PROVE  /\ \A i \in 1..j - 1 : Deeper(program', execs', stack'[u][i], stack'[u][j])
             /\ Belongs(program', execs', u, stack'[u], j)
  BY <1>3, <1>4, OldOrTop
<1> QED
  BY <1>5 DEF NestInv

------------------------------------------------------------------------------
(* What a step does to the futures.                                          *)

LEMMA OnceMoved ==
    ASSUME OnceInv, NEW t \in Threads, NEW n, Moved(t, n),
           \A u \in Threads : \A j \in DOMAIN stack[u] :
             (u # t \/ j \in 1..n) /\ stack[u][j].op = "execute" =>
                 execs'[stack[u][j].key].state = "running",
           n # 0 /\ stack'[t][n].op = "execute" =>
             LET k == stack'[t][n].key
             IN  \/ n \in DOMAIN stack[t] /\ Runs(stack[t][n], k)
                 \/ execs'[k].state = "running" /\ execs[k].state # "running"
    PROVE  OnceInv'
<1>1. ASSUME NEW u \in Threads, NEW j \in DOMAIN stack'[u], stack'[u][j].op = "execute",
             NEW k, k = stack'[u][j].key
      PROVE  \/ /\ j \in DOMAIN stack[u] /\ (u # t \/ j \in 1..n)
                /\ stack[u][j].op = "execute" /\ stack[u][j].key = k
             \/ /\ u = t /\ j = n
                /\ execs'[k].state = "running" /\ execs[k].state # "running"
  <2>1. CASE u = t /\ j = n /\ n # 0
    <3>1. n \in 1..n
      BY <2>1 DEF Moved
    <3> QED
      BY <1>1, <2>1, <3>1 DEF Runs
  <2>2. CASE /\ (u # t \/ j \in 1..n - 1)
             /\ j \in DOMAIN stack[u] /\ stack'[u][j] = stack[u][j]
    <3>1. j \in 1..n - 1 => j \in 1..n
      BY DEF Moved
    <3> QED
      BY <1>1, <2>2, <3>1
  <2> QED
    BY <2>1, <2>2, OldOrTop
<1>2. ASSUME NEW u \in Threads, NEW j \in DOMAIN stack'[u], stack'[u][j].op = "execute"
      PROVE  execs'[stack'[u][j].key].state = "running"
  BY <1>1, <1>2
<1>3. ASSUME NEW u \in Threads, NEW v \in Threads,
             NEW i \in DOMAIN stack'[u], NEW j \in DOMAIN stack'[v],
             stack'[u][i].op = "execute", stack'[v][j].op = "execute",
             stack'[u][i].key = stack'[v][j].key
      PROVE  u = v /\ i = j
  <2>1. PICK k : k = stack'[u][i].key /\ k = stack'[v][j].key
    BY <1>3
  <2>2. \/ /\ i \in DOMAIN stack[u] /\ stack[u][i].op = "execute" /\ stack[u][i].key = k
           /\ execs[k].state = "running"
        \/ u = t /\ i = n /\ execs[k].state # "running"
    BY <1>1, <1>3, <2>1 DEF OnceInv
  <2>3. \/ /\ j \in DOMAIN stack[v] /\ stack[v][j].op = "execute" /\ stack[v][j].key = k
           /\ execs[k].state = "running"
        \/ v = t /\ j = n /\ execs[k].state # "running"
    BY <1>1, <1>3, <2>1 DEF OnceInv
  <2> QED
    BY <2>2, <2>3 DEF OnceInv
<1> QED
  BY <1>2, <1>3 DEF OnceInv

\* A result stays.
Memoized(ex, ey) ==
    \A k \in DOMAIN ex : ex[k].state = "done" => ey[k].state = "done" /\ ey[k].result = ex[k].result

LEMMA HeldStays ==
    ASSUME NEW p, NEW ex, NEW ey, Memoized(ex, ey), NEW pa, NEW pb, NEW f, FrameOK(p, ex, f),
           f.op = "resolve" /\ f.in = None /\ f.at \in {"lookup", "getResult"} =>
             pb[<<f.ctx, f.h>>] = pa[<<f.ctx, f.h>>],
           Held(p, ex, pa, f)
    PROVE  Held(p, ey, pb, f)
<1>1. ASSUME f.op = "body", NEW j \in DOMAIN f.futures
      PROVE  Seen(ey, f.futures[j])
  <2>1. FutureOK(ex, f.futures[j]) /\ Seen(ex, f.futures[j])
    BY <1>1 DEF FrameOK, ResolveFrame, ExecuteFrame, BodyFrame, Held
  <2> QED
    BY <2>1 DEF Seen, FutureOK, Memoized
<1> QED
  BY <1>1 DEF Held

LEMMA SettledStays ==
    ASSUME NEW p, NEW ex, NEW ey, Memoized(ex, ey), Grows(ex, ey), NEW pa, NEW pb, NEW f,
           f.op = "body" /\ f.ret # None /\ f.ret.ok /\ ~Gets(p, f) /\ p.kind[Asked(p, f)] = "node" =>
             pb[<<f.ctx, Asked(p, f)>>] = pa[<<f.ctx, Asked(p, f)>>],
           Settled(p, ex, pa, f)
    PROVE  Settled(p, ey, pb, f)
BY DEF Settled, ResultAt, Memoized, Grows

\* The paths that the calls below n of t and those of other goroutines rely on are not written.
PathStays(t, n) ==
    /\ \A u \in Threads : \A j \in DOMAIN stack[u] :
         LET g == stack[u][j]
         IN  /\ u # t \/ j \in 1..n - 1
             /\ g.op = "resolve" /\ g.in = None /\ g.at \in {"lookup", "getResult"}
             => path'[<<g.ctx, g.h>>] = path[<<g.ctx, g.h>>]
    /\ \A u \in Threads : u # t /\ stack[u] # <<>> =>
         LET g == Last(stack[u])
         IN  g.op = "body" /\ g.ret # None /\ g.ret.ok /\ ~Gets(program, g)
               /\ program.kind[Asked(program, g)] = "node"
             => path'[<<g.ctx, Asked(program, g)>>] = path[<<g.ctx, Asked(program, g)>>]

LEMMA HoldMoved ==
    ASSUME RType, StacksOK', HoldInv, UNCHANGED program, Grows(execs, execs'), Memoized(execs, execs'),
           NEW t \in Threads, NEW n, Moved(t, n), PathStays(t, n),
           n # 0 => /\ Held(program, execs', path', stack'[t][n])
                    /\ Settled(program, execs', path', stack'[t][n])
    PROVE  HoldInv'
<1>1. ASSUME NEW u \in Threads, NEW j \in DOMAIN stack'[u]
      PROVE  Held(program, execs', path', stack'[u][j])
  <2>1. CASE u = t /\ j = n /\ n # 0
    BY <2>1
  <2>2. CASE /\ (u # t \/ j \in 1..n - 1)
             /\ j \in DOMAIN stack[u] /\ stack'[u][j] = stack[u][j]
    <3>1. PICK g : g = stack[u][j]
      OBVIOUS
    <3>2. FrameOK(program, execs, g) /\ Held(program, execs, path, g)
      BY <2>2, <3>1 DEF RType, HoldInv
    <3>3. g.op = "resolve" /\ g.in = None /\ g.at \in {"lookup", "getResult"} =>
             path'[<<g.ctx, g.h>>] = path[<<g.ctx, g.h>>]
      BY <2>2, <3>1 DEF PathStays
    <3> QED
      BY <2>2, <3>1, <3>2, <3>3, HeldStays
  <2> QED
    BY <2>1, <2>2, OldOrTop
<1>2. ASSUME NEW u \in Threads, stack'[u] # <<>>
      PROVE  Settled(program, execs', path', Last(stack'[u]))
  <2>1. CASE u # t
    <3>1. PICK g : g = Last(stack[u]) /\ g = Last(stack'[u])
      BY <2>1 DEF Moved
    <3>2. stack[u] # <<>>
      BY <1>2, <2>1 DEF Moved
    <3>3. Settled(program, execs, path, g)
      BY <3>1, <3>2 DEF HoldInv
    <3>4. g.op = "body" /\ g.ret # None /\ g.ret.ok /\ ~Gets(program, g)
               /\ program.kind[Asked(program, g)] = "node"
             => path'[<<g.ctx, Asked(program, g)>>] = path[<<g.ctx, Asked(program, g)>>]
      BY <2>1, <3>1, <3>2 DEF PathStays
    <3> QED
      BY <3>1, <3>3, <3>4, SettledStays
  <2>2. CASE u = t
    <3>1. Last(stack'[t]) = stack'[t][n]
      BY DEF Last, Moved
    <3>2. n # 0
      <4>1. IsSeq(stack'[t]) /\ n = Len(stack'[t])
        BY DEF StacksOK, Moved
      <4> QED
        BY <1>2, <2>2, <4>1, SeqFacts
    <3> QED
      BY <2>2, <3>1, <3>2
  <2> QED
    BY <2>1, <2>2
<1> QED
  BY <1>1, <1>2 DEF HoldInv

LEMMA FuturesMoved ==
    ASSUME ResultInv, ResultInv', NoCycles(program), FutureInv, UNCHANGED program,
           Grows(execs, execs'), Memoized(execs, execs'),
           NEW t \in Threads, NEW n, Moved(t, n), PathStays(t, n),
           \A u \in Threads : \A j \in DOMAIN stack[u] :
             (u # t \/ j \in 1..n) /\ stack[u][j].op = "execute" =>
                 execs'[stack[u][j].key].state = "running",
           n # 0 /\ stack'[t][n].op = "execute" =>
             LET k == stack'[t][n].key
             IN  \/ n \in DOMAIN stack[t] /\ Runs(stack[t][n], k)
                 \/ execs'[k].state = "running" /\ execs[k].state # "running",
           n # 0 => /\ Held(program, execs', path', stack'[t][n])
                    /\ Settled(program, execs', path', stack'[t][n])
    PROVE  FutureInv'
<1>1. OnceInv'
  BY OnceMoved DEF FutureInv
<1>2. HoldInv'
  BY HoldMoved DEF FutureInv, ResultInv, RType
<1>3. NestInv'
  BY <1>1, <1>2, MovedNest DEF FutureInv
<1> QED
  BY <1>1, <1>2, <1>3 DEF FutureInv

------------------------------------------------------------------------------
(* The futures, step by step.                                                *)

\* What every step has in common.
Stepping == /\ ResultInv /\ ResultInv' /\ FutureInv
            /\ NoCycles(program) /\ OwnHandles(program) /\ UNCHANGED program

\* Executioners are added, at most.
Lasting(ex, ey) == \A k \in DOMAIN ex : k \in DOMAIN ey /\ ey[k] = ex[k]

LEMMA LastingGrows ==
    ASSUME NEW ex, NEW ey, Lasting(ex, ey)
    PROVE  Grows(ex, ey) /\ Memoized(ex, ey)
BY DEF Lasting, Grows, Memoized

LEMMA PathUnwritten ==
    ASSUME UNCHANGED path, NEW t, NEW n
    PROVE  PathStays(t, n)
BY DEF PathStays

LEMMA TopIndex ==
    ASSUME RType, NEW t \in Threads, Running(t), NEW n, n = Len(stack[t])
    PROVE  /\ n \in Nat /\ n # 0 /\ DOMAIN stack[t] = 1..n /\ n \in DOMAIN stack[t]
           /\ Top(t) = stack[t][n]
<1>1. n \in Nat /\ n # 0 /\ DOMAIN stack[t] = 1..n /\ Top(t) = stack[t][n]
  BY TopOfStack DEF RType
<1>2. n \in 1..n
  BY <1>1
<1> QED
  BY <1>1, <1>2

LEMMA RunningStays ==
    ASSUME RType, OnceInv, Lasting(execs, execs'), NEW u \in Threads, NEW j \in DOMAIN stack[u],
           stack[u][j].op = "execute"
    PROVE  execs'[stack[u][j].key].state = "running"
<1>1. stack[u][j].key \in DOMAIN execs
  BY DEF RType, FrameOK, ResolveFrame, ExecuteFrame, BodyFrame
<1> QED
  BY <1>1 DEF OnceInv, Lasting

LEMMA SetTopFutures ==
    ASSUME Stepping, UNCHANGED outcome, NEW t \in Threads, Running(t), NEW f, SetTop(t, f),
           SameCall(Top(t), f), Lasting(execs, execs'), PathStays(t, Len(stack[t])),
           Held(program, execs', path', f), Settled(program, execs', path', f)
    PROVE  FutureInv'
<1>1. RType /\ OnceInv /\ StacksOK
  BY DEF Stepping, ResultInv, FutureInv, RType
<1>2. PICK n : n = Len(stack[t])
  OBVIOUS
<1>3. n \in DOMAIN stack[t] /\ Top(t) = stack[t][n]
  BY <1>1, <1>2, TopIndex
<1>4. Touched(t, f, Under(t)) /\ n = Len(stack'[t]) /\ \A i \in Under(t) : i \in DOMAIN stack[t]
  BY <1>1, <1>2, SetTopMoves, UnderTop
<1>5. Moved(t, n) /\ stack'[t][n] = f
  BY <1>4, TouchedMoves
<1>6. f.op = "execute" => Runs(stack[t][n], f.key)
  BY <1>3 DEF SameCall, Runs
<1>7. \A u \in Threads : \A j \in DOMAIN stack[u] :
         stack[u][j].op = "execute" => execs'[stack[u][j].key].state = "running"
  BY <1>1, RunningStays
<1> QED
  BY <1>2, <1>3, <1>5, <1>6, <1>7, LastingGrows, FuturesMoved DEF Stepping

LEMMA CallFutures ==
    ASSUME Stepping, UNCHANGED <<execs, path, outcome>>, NEW t \in Threads, Running(t),
           NEW f, Call(t, f), f.op # "execute", f.ret = None,
           f.op = "resolve" => f.at = "start", f.op = "body" => f.futures = <<>>
    PROVE  FutureInv'
<1>1. RType /\ OnceInv /\ StacksOK
  BY DEF Stepping, ResultInv, FutureInv, RType
<1>2. PICK n : n = Len(stack'[t])
  OBVIOUS
<1>3. Touched(t, f, DOMAIN stack[t])
  BY <1>1, CallMoves
<1>4. Moved(t, n) /\ stack'[t][n] = f
  BY <1>2, <1>3, TouchedMoves
<1>5. Lasting(execs, execs')
  BY DEF Lasting
<1>6. \A u \in Threads : \A j \in DOMAIN stack[u] :
         stack[u][j].op = "execute" => execs'[stack[u][j].key].state = "running"
  BY <1>1, <1>5, RunningStays
<1>7. Held(program, execs', path', f) /\ Settled(program, execs', path', f)
  BY EmptySequence DEF Held, Settled
<1> QED
  BY <1>4, <1>5, <1>6, <1>7, LastingGrows, PathUnwritten, FuturesMoved DEF Stepping

\* A call that returns is told what the executioner under the path has.
LEMMA ReturnFutures ==
    ASSUME Stepping, Grows(execs, execs'), Memoized(execs, execs'), UNCHANGED path,
           NEW t \in Threads, Running(t), NEW r, Return(t, r),
           Top(t).op = "resolve" =>
             ResultAt(program, execs', path', Top(t).ctx, Top(t).h, r),
           \A u \in Threads : \A j \in DOMAIN stack[u] :
             (u # t \/ j \in Under(t)) /\ stack[u][j].op = "execute" =>
                 execs'[stack[u][j].key].state = "running"
    PROVE  FutureInv'
<1>1. RType /\ MeansInv /\ HoldInv /\ StacksOK
  BY DEF Stepping, ResultInv, FutureInv, RType
<1>2. PICK m : m = Len(stack[t])
  OBVIOUS
<1>3. m \in Nat /\ m # 0 /\ m \in DOMAIN stack[t] /\ Top(t) = stack[t][m] /\ DOMAIN stack[t] = 1..m
  BY <1>1, <1>2, TopIndex
<1>4. CASE stack'[t] = <<>> /\ \A u \in Threads : u # t => stack'[u] = stack[u]
  <2>1. Moved(t, 0)
    BY <1>4, EmptyMoves
  <2>2. \A j : j \notin 1..0
    OBVIOUS
  <2> QED
    BY <2>1, <2>2, PathUnwritten, FuturesMoved DEF Stepping
<1>5. CASE /\ m - 1 \in DOMAIN stack[t]
           /\ Touched(t, [Caller(t) EXCEPT !.ret = r], Under(t))
           /\ Len(stack'[t]) = m - 1
           /\ Caller(t) = stack[t][Len(stack'[t])]
  <2>1. PICK n : n = m - 1 /\ n = Len(stack'[t])
    BY <1>5
  <2>2. PICK l : l = Caller(t) /\ l = stack[t][n]
    BY <1>5, <2>1
  <2>3. n \in DOMAIN stack[t] /\ m # 1
    BY <1>3, <1>5, <2>1
  <2>4. /\ FrameOK(program, execs, l) /\ Held(program, execs, path, l)
        /\ Linked(program, execs', l, Top(t))
    BY <1>1, <1>3, <2>1, <2>2, <2>3, LinkBelow DEF RType, HoldInv
  <2>5. PICK f : f = WithRet(l, r) /\ f = [Caller(t) EXCEPT !.ret = r]
    BY <2>2, <2>4, RetSet DEF FrameOK
  <2>6. Moved(t, n) /\ stack'[t][n] = f
    BY <1>1, <1>5, <2>1, <2>5, TouchedMoves, UnderTop
  <2>7. f.op = "execute" => Runs(stack[t][n], f.key)
    BY <2>2, <2>5 DEF WithRet, Runs
  <2>8. Held(program, execs', path', f)
    <3>1. Held(program, execs', path', l)
      BY <2>4, HeldStays
    <3> QED
      BY <2>5, <3>1 DEF Held, WithRet
  <2>9. Settled(program, execs', path', f)
    <3>1. Asked(program, f) = Asked(program, l) /\ (Gets(program, f) <=> Gets(program, l))
      BY <2>5 DEF Asked, Gets, WithRet
    <3>2. ASSUME f.op = "body", ~Gets(program, f)
          PROVE  Top(t).op = "resolve" /\ Top(t).ctx = f.ctx /\ Top(t).h = Asked(program, f)
      <4>1. l.op = "body" /\ ~Gets(program, l) /\ l.ctx = f.ctx
        BY <2>5, <3>1, <3>2 DEF WithRet
      <4>2. Top(t).op \in {"resolve", "execute", "body"}
        BY <1>1, TopFrame DEF FrameOK, ResolveFrame, ExecuteFrame, BodyFrame
      <4> QED
        BY <2>4, <3>1, <4>1, <4>2 DEF Linked
    <3>3. f.ret = r
      BY <2>5 DEF WithRet
    <3> QED
      BY <3>2, <3>3 DEF Settled
  <2>10. ASSUME NEW u \in Threads, NEW j \in DOMAIN stack[u], u # t \/ j \in 1..n,
                stack[u][j].op = "execute"
         PROVE  execs'[stack[u][j].key].state = "running"
    <3>1. u # t \/ j \in Under(t)
      BY <1>2, <2>1, <2>10 DEF Under
    <3> QED
      BY <2>10, <3>1
  <2> QED
    BY <2>3, <2>6, <2>7, <2>8, <2>9, <2>10, PathUnwritten, FuturesMoved DEF Stepping
<1> QED
  BY <1>1, <1>2, <1>4, <1>5, ReturnMoves

\* Nothing is executed by a call that answers.
LEMMA AnswerFutures ==
    ASSUME Stepping, UNCHANGED <<execs, path>>, NEW t \in Threads, Running(t), NEW r, Return(t, r),
           Top(t).op = "resolve" => ResultAt(program, execs, path, Top(t).ctx, Top(t).h, r)
    PROVE  FutureInv'
<1>1. RType /\ OnceInv
  BY DEF Stepping, ResultInv, FutureInv
<1>2. Lasting(execs, execs')
  BY DEF Lasting
<1>3. \A u \in Threads : \A j \in DOMAIN stack[u] :
         stack[u][j].op = "execute" => execs'[stack[u][j].key].state = "running"
  BY <1>1, <1>2, RunningStays
<1> QED
  BY <1>2, <1>3, LastingGrows, ReturnFutures

\* An executioner that starts was not running, ...
LEMMA StartsFutures ==
    ASSUME Stepping, UNCHANGED path, NEW t \in Threads, Running(t), NEW k \in DOMAIN execs,
           StartExecution(t, k)
    PROVE  FutureInv'
<1>1. RType /\ OnceInv /\ StacksOK
  BY DEF Stepping, ResultInv, FutureInv, RType
<1>2. PICK e : e = execs[k]
  OBVIOUS
<1>3. /\ ExecOK(program, k, e) /\ e.state = "new" /\ execs' = [execs EXCEPT ![k].state = "running"]
      /\ Call(t, ExecuteCall(k)) /\ UNCHANGED outcome
  BY <1>1, <1>2 DEF RType, ExecsOK, StartExecution
<1>4. execs'[k] = [h |-> e.h, ctx |-> e.ctx, in |-> e.in, state |-> "running", result |-> e.result]
  BY <1>1, <1>2, <1>3 DEF ExecOK, RType, ExecsOK
<1>5. DOMAIN execs' = DOMAIN execs /\ \A j \in DOMAIN execs : j # k => execs'[j] = execs[j]
  BY <1>1, <1>3 DEF RType, ExecsOK
<1>6. Grows(execs, execs') /\ Memoized(execs, execs')
  BY <1>2, <1>3, <1>4, <1>5 DEF Grows, Memoized
<1>7. PICK f, n : f = ExecuteCall(k) /\ n = Len(stack'[t])
  OBVIOUS
<1>8. Touched(t, f, DOMAIN stack[t])
  BY <1>1, <1>3, <1>7, CallMoves
<1>9. Moved(t, n) /\ stack'[t][n] = f
  BY <1>7, <1>8, TouchedMoves
<1>10. f.op = "execute" /\ f.key = k
  BY <1>7 DEF ExecuteCall
<1>11. Held(program, execs', path', f) /\ Settled(program, execs', path', f)
  BY <1>10 DEF Held, Settled
<1>12. execs'[f.key].state = "running" /\ execs[f.key].state # "running"
  BY <1>2, <1>3, <1>4, <1>10
<1>13. ASSUME NEW u \in Threads, NEW j \in DOMAIN stack[u], stack[u][j].op = "execute"
       PROVE  execs'[stack[u][j].key].state = "running"
  <2>1. stack[u][j].key \in DOMAIN execs
    BY <1>1, <1>13 DEF RType, FrameOK, ResolveFrame, ExecuteFrame, BodyFrame
  <2> QED
    BY <1>1, <1>2, <1>3, <1>5, <1>13, <2>1 DEF OnceInv
<1> QED
  BY <1>6, <1>9, <1>11, <1>12, <1>13, PathUnwritten, FuturesMoved DEF Stepping

\* ... and one that is done was running in the call that returns.
LEMMA FinishFutures ==
    ASSUME Stepping, UNCHANGED path, NEW t \in Threads, NEW at, In(t, "execute", at),
           NEW r, Finish(t, r)
    PROVE  FutureInv'
<1>1. RType /\ OnceInv
  BY DEF Stepping, ResultInv, FutureInv
<1>2. PICK k, e : k = Top(t).key /\ e = execs[k]
  OBVIOUS
<1>3. PICK m : m = Len(stack[t])
  OBVIOUS
<1>4. Running(t) /\ Top(t).op = "execute" /\ k \in DOMAIN execs /\ ExecOK(program, k, e)
  BY <1>1, <1>2, InExecute DEF ExecuteFrame
<1>5. m \in DOMAIN stack[t] /\ Top(t) = stack[t][m] /\ m \in Nat
  BY <1>1, <1>3, <1>4, TopIndex
<1>6. e.state = "running"
  BY <1>1, <1>2, <1>4, <1>5 DEF OnceInv
<1>7. execs' = [execs EXCEPT ![k].state = "done", ![k].result = r] /\ Return(t, r)
  BY <1>2 DEF Finish
<1>8. execs'[k] = [h |-> e.h, ctx |-> e.ctx, in |-> e.in, state |-> "done", result |-> r]
  BY <1>1, <1>2, <1>4, <1>7 DEF ExecOK, RType, ExecsOK
<1>9. DOMAIN execs' = DOMAIN execs /\ \A j \in DOMAIN execs : j # k => execs'[j] = execs[j]
  BY <1>1, <1>7 DEF RType, ExecsOK
<1>10. Grows(execs, execs') /\ Memoized(execs, execs')
  BY <1>2, <1>6, <1>8, <1>9 DEF Grows, Memoized
<1>11. ASSUME NEW u \in Threads, NEW j \in DOMAIN stack[u], u # t \/ j \in Under(t),
              stack[u][j].op = "execute"
       PROVE  execs'[stack[u][j].key].state = "running"
  <2>1. u # t \/ j # m
    <3>1. j \in 1..m - 1 => j # m
      BY <1>5
    <3> QED
      BY <1>3, <1>11, <3>1 DEF Under
  <2>2. stack[u][j].key # k
    BY <1>1, <1>2, <1>4, <1>5, <1>11, <2>1 DEF OnceInv
  <2>3. stack[u][j].key \in DOMAIN execs
    BY <1>1, <1>11 DEF RType, FrameOK, ResolveFrame, ExecuteFrame, BodyFrame
  <2> QED
    BY <1>1, <1>9, <1>11, <2>2, <2>3 DEF OnceInv
<1> QED
  BY <1>4, <1>7, <1>10, <1>11, ReturnFutures

------------------------------------------------------------------------------
(* The futures, action by action.                                            *)

LEMMA ResolveIntoFutures ==
    ASSUME Stepping, NEW t \in Threads, ResolveInto(t)
    PROVE  FutureInv'
<1>1. Running(t) /\ UNCHANGED <<execs, path>> /\ \E r : Return(t, r)
  BY DEF ResolveInto, In
<1>2. program.kind[Top(t).h] # "node"
  BY DEF ResolveInto
<1> QED
  BY <1>1, <1>2, AnswerFutures DEF ResultAt

LEMMA CallResolveFutures ==
    ASSUME Stepping, UNCHANGED <<execs, path, outcome>>, NEW t \in Threads, Running(t),
           NEW h, Call(t, ResolveCall(h, Top(t).ctx, None))
    PROVE  FutureInv'
<1>1. PICK f : f = ResolveCall(h, Top(t).ctx, None)
  OBVIOUS
<1>2. f.op = "resolve" /\ f.at = "start" /\ f.ret = None
  BY <1>1 DEF ResolveCall
<1> QED
  BY <1>1, <1>2, CallFutures

LEMMA StepBindFutures ==
    ASSUME Stepping, NEW t \in Threads, StepBind(t)
    PROVE  FutureInv'
BY CallResolveFutures DEF StepBind, In

LEMMA BindStartsFutures ==
    ASSUME Stepping, NEW t \in Threads, BindStarts(t)
    PROVE  FutureInv'
<1>1. PICK f : f = Top(t)
  OBVIOUS
<1>2. RType
  BY DEF Stepping, ResultInv
<1>3. /\ Running(t) /\ f.op = "resolve" /\ program.kind[f.h] = "bind" /\ UNCHANGED <<execs, path>>
  BY <1>1, <1>2, InResolve DEF BindStarts, ResolveFrame
<1>4. CASE UNCHANGED outcome /\ \E in : SetTop(t, ResolveCall(f.h, f.ctx, in))
  <2>1. PICK in, g : g = ResolveCall(f.h, f.ctx, in) /\ SetTop(t, g)
    BY <1>4
  <2>2. SameCall(f, g) /\ g.op = "resolve" /\ g.at = "start"
    BY <1>3, <2>1 DEF SameCall, ResolveCall
  <2>3. Held(program, execs', path', g) /\ Settled(program, execs', path', g)
    BY <2>2 DEF Held, Settled
  <2>4. Lasting(execs, execs') /\ PathStays(t, Len(stack[t]))
    BY <1>3, PathUnwritten DEF Lasting
  <2> QED
    BY <1>1, <1>3, <1>4, <2>1, <2>2, <2>3, <2>4, SetTopFutures
<1>5. CASE \E r : Return(t, r)
  BY <1>1, <1>3, <1>5, AnswerFutures DEF ResultAt
<1> QED
  BY <1>1, <1>4, <1>5 DEF BindStarts

LEMMA TakeInstanceFutures ==
    ASSUME Stepping, NEW t \in Threads, TakeInstance(t)
    PROVE  FutureInv'
<1>1. PICK f : f = Top(t)
  OBVIOUS
<1>2. RType
  BY DEF Stepping, ResultInv
<1>3. Running(t) /\ f.op = "resolve" /\ Frame(f) /\ UNCHANGED <<execs, path, outcome>>
  BY <1>1, <1>2, InResolve DEF TakeInstance
<1>4. PICK x, g : g = [f EXCEPT !.at = "setPath", !.path = x] /\ SetTop(t, g)
  BY <1>1 DEF TakeInstance
<1>5. g = [op |-> f.op, at |-> "setPath", h |-> f.h, ctx |-> f.ctx, in |-> f.in,
           path |-> x, key |-> f.key, futures |-> f.futures, ret |-> f.ret]
  BY <1>3, <1>4 DEF Frame
<1>6. SameCall(f, g) /\ Held(program, execs', path', g) /\ Settled(program, execs', path', g)
  BY <1>3, <1>5 DEF SameCall, Held, Settled
<1>7. Lasting(execs, execs') /\ PathStays(t, Len(stack[t]))
  BY <1>3, PathUnwritten DEF Lasting
<1> QED
  BY <1>1, <1>3, <1>4, <1>6, <1>7, SetTopFutures

\* What a body waits for is its own.
LEMMA AskedIsMine ==
    ASSUME RType, NEW l, FrameOK(program, execs, l), FrameMeans(program, execs, path, l),
           l.op = "body", l.ret # None, ~Gets(program, l),
           NEW h, h = Asked(program, l), program.kind[h] = "node"
    PROVE  h \in Mine(program, execs, l)
<1>1. BodyFrame(program, execs, l) /\ h # None
  BY DEF FrameOK, ResolveFrame, ExecuteFrame, FrameMeans, BodyCallMeans
<1>2. h \in program.handles
  BY <1>1, AskedIsInScope DEF RType
<1>3. h \in Nodes(program)
  BY <1>2, ProgramFacts DEF IsProgram, Nodes
<1> QED
  BY <1>1, <1>3, AskedIsInScope DEF RType, Mine

\* Nobody else relies on the path of the handle that gets a new one.
LEMMA SetPathFutures ==
    ASSUME Stepping, NEW t \in Threads, SetPath(t)
    PROVE  FutureInv'
<1>1. PICK f, n : f = Top(t) /\ n = Len(stack[t])
  OBVIOUS
<1>2. RType /\ PathInv /\ MeansInv /\ NestInv /\ OnceInv
  BY DEF Stepping, ResultInv, FutureInv
<1>3. /\ Running(t) /\ f.op = "resolve" /\ f.at = "setPath" /\ Frame(f)
      /\ UNCHANGED <<execs, outcome>>
      /\ path' = IF f.in = None THEN Put(path, <<f.ctx, f.h>>, f.path) ELSE path
  BY <1>1, <1>2, InResolve DEF SetPath
<1>4. n \in DOMAIN stack[t] /\ f = stack[t][n] /\ n \in Nat /\ DOMAIN stack[t] = 1..n
  BY <1>1, <1>2, <1>3, TopIndex
<1>5. PICK g : g = [f EXCEPT !.at = "lookup"] /\ SetTop(t, g)
  BY <1>1 DEF SetPath
<1>6. g = [op |-> f.op, at |-> "lookup", h |-> f.h, ctx |-> f.ctx, in |-> f.in,
           path |-> f.path, key |-> f.key, futures |-> f.futures, ret |-> f.ret]
  BY <1>3, <1>5 DEF Frame
<1>7. SameCall(f, g) /\ Settled(program, execs', path', g)
  BY <1>3, <1>6 DEF SameCall, Settled
<1>8. f.in = None => path'[<<f.ctx, f.h>>] = f.path
  BY <1>3 DEF Put
<1>9. Held(program, execs', path', g)
  BY <1>3, <1>6, <1>8 DEF Held
<1>10. Lasting(execs, execs')
  BY <1>3 DEF Lasting
<1>11. CASE f.in # None
  <2>1. PathStays(t, n)
    BY <1>3, <1>11, PathUnwritten
  <2> QED
    BY <1>1, <1>3, <1>5, <1>7, <1>9, <1>10, <2>1, SetTopFutures
<1>12. CASE f.in = None
  <2>1. ASSUME NEW x \in DOMAIN path, x # <<f.ctx, f.h>>
        PROVE  path'[x] = path[x]
    BY <1>3, <1>12, <2>1 DEF Put
  <2>2. f.h \in Mine(program, execs, f)
    BY <1>2, <1>3, <1>4, <1>12, NodesAreMine DEF RType
  <2>3. ASSUME NEW u \in Threads, NEW j \in DOMAIN stack[u], u # t \/ j \in 1..n - 1,
               NEW l, l = stack[u][j], l.op = "resolve", l.in = None,
               l.at \in {"lookup", "getResult"}
        PROVE  path'[<<l.ctx, l.h>>] = path[<<l.ctx, l.h>>]
    <3>1. l.h \in Mine(program, execs, l)
      BY <1>2, <2>3, NodesAreMine DEF RType
    <3>2. ASSUME l.ctx = f.ctx, l.h = f.h
          PROVE  FALSE
      <4>1. CASE u # t
        BY <1>2, <1>4, <2>2, <2>3, <3>1, <3>2, <4>1, NobodyElse DEF Stepping
      <4>2. CASE u = t
        BY <1>2, <1>3, <1>4, <2>3, <3>2, <4>2, NotTwice DEF Stepping
      <4> QED
        BY <4>1, <4>2
    <3>3. <<l.ctx, l.h>> \in DOMAIN path
      BY <1>2, <2>3 DEF MeansInv, FrameMeans, ResolveMeans
    <3> QED
      BY <2>1, <3>2, <3>3
  <2>4. ASSUME NEW u \in Threads, u # t, stack[u] # <<>>, NEW l, l = Last(stack[u]),
               l.op = "body", l.ret # None, l.ret.ok, ~Gets(program, l),
               NEW h, h = Asked(program, l), program.kind[h] = "node"
        PROVE  path'[<<l.ctx, h>>] = path[<<l.ctx, h>>]
    <3>1. PICK j : j \in DOMAIN stack[u] /\ l = stack[u][j]
      BY <1>2, <2>4, TopIndex DEF Running, Top
    <3>2. h \in Mine(program, execs, l)
      BY <1>2, <2>4, <3>1, AskedIsMine DEF RType, MeansInv
    <3>3. ASSUME l.ctx = f.ctx, h = f.h
          PROVE  FALSE
      <4>1. /\ stack[t][n].ctx = stack[u][j].ctx
            /\ h \in Mine(program, execs, stack[t][n])
            /\ h \in Mine(program, execs, stack[u][j])
        BY <1>4, <2>2, <3>1, <3>2, <3>3
      <4> QED
        BY <1>2, <1>4, <2>4, <3>1, <4>1, NobodyElse DEF Stepping
    <3>4. <<l.ctx, h>> \in DOMAIN path
      BY <1>2, <2>4, <3>1 DEF MeansInv, FrameMeans, BodyCallMeans, ResolvedTo
    <3> QED
      BY <2>1, <3>3, <3>4
  <2>5. PathStays(t, n)
    BY <2>3, <2>4 DEF PathStays
  <2> QED
    BY <1>1, <1>3, <1>5, <1>7, <1>9, <1>10, <2>5, SetTopFutures
<1> QED
  BY <1>11, <1>12

LEMMA GetOrCreateFutures ==
    ASSUME Stepping, NEW t \in Threads, GetOrCreate(t)
    PROVE  FutureInv'
<1>1. PICK f : f = Top(t)
  OBVIOUS
<1>2. RType /\ HoldInv
  BY DEF Stepping, ResultInv, FutureInv
<1>3. /\ Running(t) /\ f.op = "resolve" /\ f.at = "lookup" /\ Frame(f) /\ UNCHANGED <<path, outcome>>
  BY <1>1, <1>2, InResolve DEF GetOrCreate
<1>4. PICK k, e, g : /\ k = <<f.ctx.run, f.ctx.reg, f.path>>
                     /\ execs' = IF k \in DOMAIN execs THEN execs ELSE Put(execs, k, e)
                     /\ g = [f EXCEPT !.at = "getResult", !.key = k]
                     /\ SetTop(t, g)
  BY <1>1 DEF GetOrCreate
<1>5. g = [op |-> f.op, at |-> "getResult", h |-> f.h, ctx |-> f.ctx, in |-> f.in,
           path |-> f.path, key |-> k, futures |-> f.futures, ret |-> f.ret]
  BY <1>3, <1>4 DEF Frame
<1>6. Lasting(execs, execs')
  BY <1>4 DEF Lasting, Put
<1>7. Held(program, execs, path, f)
  BY <1>1, <1>2, <1>3, TopIndex DEF HoldInv
<1>8. SameCall(f, g) /\ Held(program, execs', path', g) /\ Settled(program, execs', path', g)
  BY <1>3, <1>4, <1>5, <1>7 DEF SameCall, Held, Settled
<1> QED
  BY <1>1, <1>3, <1>4, <1>6, <1>8, PathUnwritten, SetTopFutures

LEMMA GetResultFutures ==
    ASSUME Stepping, NEW t \in Threads, GetResult(t)
    PROVE  FutureInv'
<1>1. PICK f, k : f = Top(t) /\ k = f.key
  OBVIOUS
<1>2. RType /\ HoldInv
  BY DEF Stepping, ResultInv, FutureInv
<1>3. /\ Running(t) /\ f.op = "resolve" /\ f.at = "getResult" /\ ResolveFrame(program, execs, f)
      /\ k \in DOMAIN execs /\ UNCHANGED path
  BY <1>1, <1>2, InResolve DEF GetResult, ResolveFrame
<1>4. CASE StartExecution(t, k)
  BY <1>3, <1>4, StartsFutures
<1>5. CASE execs[k].state = "done" /\ Return(t, execs[k].result) /\ UNCHANGED execs
  <2>1. Held(program, execs, path, f)
    BY <1>1, <1>2, <1>3, TopIndex DEF HoldInv
  <2>2. ResultAt(program, execs, path, f.ctx, f.h, execs[k].result)
    BY <1>1, <1>3, <1>5, <2>1 DEF Held, ResultAt, ResolveFrame
  <2> QED
    BY <1>1, <1>3, <1>5, <2>2, AnswerFutures
<1> QED
  BY <1>1, <1>4, <1>5 DEF GetResult

LEMMA NoInputToResolveFutures ==
    ASSUME Stepping, NEW t \in Threads, NoInputToResolve(t)
    PROVE  FutureInv'
<1>1. PICK f, in : f = Top(t) /\ SetTop(t, [f EXCEPT !.at = "run", !.in = in])
  BY DEF NoInputToResolve
<1>2. RType
  BY DEF Stepping, ResultInv
<1>3. Running(t) /\ f.op = "execute" /\ Frame(f) /\ UNCHANGED <<execs, path, outcome>>
  BY <1>1, <1>2, InExecute DEF NoInputToResolve
<1>4. PICK g : g = [f EXCEPT !.at = "run", !.in = in]
  OBVIOUS
<1>5. g = [op |-> f.op, at |-> "run", h |-> f.h, ctx |-> f.ctx, in |-> in,
           path |-> f.path, key |-> f.key, futures |-> f.futures, ret |-> f.ret]
  BY <1>3, <1>4 DEF Frame
<1>6. SameCall(f, g) /\ Held(program, execs', path', g) /\ Settled(program, execs', path', g)
  BY <1>3, <1>5 DEF SameCall, Held, Settled
<1>7. Lasting(execs, execs') /\ PathStays(t, Len(stack[t]))
  BY <1>3, PathUnwritten DEF Lasting
<1> QED
  BY <1>1, <1>3, <1>4, <1>6, <1>7, SetTopFutures

LEMMA ResolveInputFutures ==
    ASSUME Stepping, NEW t \in Threads, ResolveInput(t)
    PROVE  FutureInv'
BY CallResolveFutures DEF ResolveInput, In

LEMMA InputResolvedFutures ==
    ASSUME Stepping, NEW t \in Threads, InputResolved(t)
    PROVE  FutureInv'
<1>1. PICK f : f = Top(t)
  OBVIOUS
<1>2. RType
  BY DEF Stepping, ResultInv
<1>3. /\ In(t, "execute", "input") /\ Running(t) /\ f.op = "execute" /\ Frame(f)
      /\ UNCHANGED path
  BY <1>1, <1>2, InExecute DEF InputResolved
<1>4. CASE UNCHANGED <<execs, outcome>>
           /\ SetTop(t, [f EXCEPT !.at = "run", !.in = f.ret, !.ret = None])
  <2>1. PICK g : g = [f EXCEPT !.at = "run", !.in = f.ret, !.ret = None]
    OBVIOUS
  <2>2. g = [op |-> f.op, at |-> "run", h |-> f.h, ctx |-> f.ctx, in |-> f.ret,
             path |-> f.path, key |-> f.key, futures |-> f.futures, ret |-> None]
    BY <1>3, <2>1 DEF Frame
  <2>3. SameCall(f, g) /\ Held(program, execs', path', g) /\ Settled(program, execs', path', g)
    BY <1>3, <2>2 DEF SameCall, Held, Settled
  <2>4. Lasting(execs, execs') /\ PathStays(t, Len(stack[t]))
    BY <1>3, <1>4, PathUnwritten DEF Lasting
  <2> QED
    BY <1>1, <1>3, <1>4, <2>1, <2>3, <2>4, SetTopFutures
<1>5. CASE Finish(t, f.ret)
  BY <1>3, <1>5, FinishFutures
<1> QED
  BY <1>1, <1>4, <1>5 DEF InputResolved

LEMMA ReturnsFutures ==
    ASSUME Stepping, NEW t \in Threads, LeafReturns(t) \/ BodyReturned(t)
    PROVE  FutureInv'
<1>1. In(t, "execute", "run") /\ UNCHANGED path /\ \E r : Finish(t, r)
  BY DEF LeafReturns, BodyReturned
<1> QED
  BY <1>1, FinishFutures

LEMMA CallBodyFutures ==
    ASSUME Stepping, NEW t \in Threads, CallBody(t)
    PROVE  FutureInv'
<1>1. PICK f, d, ctx : f = BodyCall(d, ctx, Top(t).in) /\ Call(t, f)
  BY DEF CallBody
<1>2. Running(t) /\ UNCHANGED <<execs, path, outcome>>
  BY DEF CallBody, In
<1>3. f.op = "body" /\ f.futures = <<>> /\ f.ret = None
  BY <1>1 DEF BodyCall
<1> QED
  BY <1>1, <1>2, <1>3, CallFutures

LEMMA FanInResolvesFutures ==
    ASSUME Stepping, NEW t \in Threads, FanInResolves(t)
    PROVE  FutureInv'
BY CallResolveFutures DEF FanInResolves, FansNext, InBody

\* The future FanIn makes has the result it was given, now or when asked.
LEMMA FutureForIsSettled ==
    ASSUME NEW ctx, NEW h, NEW r, r # None, program.kind[h] \in {"node", "into", "error"},
           ResolvedTo(program, path, ctx, h, r), ResultAt(program, execs, path, ctx, h, r)
    PROVE  Seen(execs, FutureFor(ctx, h, r))
<1>1. PICK k, u : k = <<ctx.run, ctx.reg, path[<<ctx, h>>]>> /\ u = FutureFor(ctx, h, r)
  OBVIOUS
<1>2. CASE u = Future(None, r, r)
  BY <1>1, <1>2 DEF Seen, Future
<1>3. CASE u # Future(None, r, r)
  <2>1. r.ok /\ program.kind[h] = "node"
    BY <1>1, <1>3 DEF FutureFor, ResolvedTo
  <2>2. <<ctx, h>> \in DOMAIN path
    BY <2>1 DEF ResolvedTo
  <2>3. k \in DOMAIN execs /\ u = Future(k, None, r)
    BY <1>1, <1>3, <2>1, <2>2 DEF FutureFor
  <2>4. execs[k].state = "done" /\ execs[k].result = r
    BY <1>1, <2>1 DEF ResultAt
  <2> QED
    BY <1>1, <2>3, <2>4 DEF Seen, Future
<1> QED
  BY <1>2, <1>3

LEMMA FannedKind ==
    ASSUME NEW p \in Programs, FansNodes(p), NEW d \in p.defs, NEW n \in Nat,
           n < Len(p.fans[d]), NEW h, h = p.fans[d][n + 1]
    PROVE  p.kind[h] \in {"node", "into", "error"}
<1>1. PICK l : l = p.fans[d]
  OBVIOUS
<1>2. l \in Seq(p.handles) /\ p.kind \in [p.handles -> {"node", "bind", "into", "error"}]
  BY <1>1, ProgramsAssumption DEF IsProgram
<1>3. Len(l) \in Nat /\ DOMAIN l = 1..Len(l) /\ n < Len(l)
  BY <1>1, <1>2, LenProperties
<1>4. n + 1 \in 1..Len(l)
  BY <1>3
<1>5. n + 1 \in DOMAIN l /\ h \in p.handles
  BY <1>1, <1>2, <1>3, <1>4, ElementOfSeq
<1>6. p.kind[h] # "bind"
  BY <1>1, <1>5 DEF FansNodes
<1> QED
  BY <1>2, <1>5, <1>6

LEMMA FanInReturnsFutures ==
    ASSUME Stepping, FansNodes(program), NEW t \in Threads, FanInReturns(t)
    PROVE  FutureInv'
<1>0. RType /\ PathInv /\ MeansInv /\ HoldInv
  BY DEF Stepping, ResultInv, FutureInv
<1>1. PICK f : f = Top(t)
  OBVIOUS
<1>2. PICK s, n : s = f.futures /\ n = Len(s)
  OBVIOUS
<1>3. PICK h, u, us, g : /\ h = NextFan(t) /\ u = FutureFor(f.ctx, h, f.ret)
                         /\ us = Append(s, u)
                         /\ g = [f EXCEPT !.ret = None, !.futures = us]
  OBVIOUS
<1>4. InBody(t) /\ n < Len(program.fans[f.at]) /\ f.ret # None
      /\ UNCHANGED <<execs, path, outcome>>
  BY <1>1, <1>2 DEF FanInReturns, FansNext, Futures, Fans
<1>5. /\ Running(t) /\ f.op = "body" /\ f.at \in program.defs /\ Frame(f)
      /\ BodyCallMeans(program, execs, path, f) /\ IsSeq(s) /\ n \in Nat /\ DOMAIN s = 1..n
      /\ program.fans[f.at] \in Seq(program.handles) /\ IsProgram(program)
      /\ BodyFrame(program, execs, f)
  BY <1>0, <1>1, <1>2, <1>4, BodyCallFacts
<1>6. ~Gets(program, f)
  BY <1>1 DEF FanInReturns, FansNext, Waits, Pending, Futures, Fans, Gets
<1>7. h = program.fans[f.at][n + 1] /\ h = Asked(program, f)
  BY <1>1, <1>2, <1>3, <1>4 DEF NextFan, Futures, Fans, Asked
<1>8. program.kind[h] \in {"node", "into", "error"}
  BY <1>0, <1>2, <1>4, <1>5, <1>7, FannedKind DEF RType
<1>9. ResolvedTo(program, path, f.ctx, h, f.ret)
  BY <1>4, <1>5, <1>6, <1>7 DEF BodyCallMeans
<1>10. /\ Held(program, execs, path, f)
       /\ ResultAt(program, execs, path, f.ctx, h, f.ret)
  <2>1. Held(program, execs, path, f)
    BY <1>0, <1>1, <1>5, TopIndex DEF HoldInv
  <2>2. Settled(program, execs, path, f)
    BY <1>0, <1>1, <1>5 DEF HoldInv, Running, Top
  <2> QED
    BY <1>4, <1>5, <1>6, <1>7, <2>1, <2>2 DEF Settled
<1>11. Seen(execs, u)
  BY <1>3, <1>4, <1>8, <1>9, <1>10, FutureForIsSettled
<1>12. /\ IsSeq(us) /\ Len(us) = n + 1 /\ us[n + 1] = u
       /\ \A i \in 1..n : us[i] = s[i]
  BY <1>2, <1>3, <1>5, Appended
<1>13. ASSUME NEW j \in DOMAIN us
       PROVE  Seen(execs, us[j])
  <2>1. j \in 1..n + 1
    BY <1>12, SeqFacts
  <2>2. CASE j = n + 1
    BY <1>11, <1>12, <2>2
  <2>3. CASE j # n + 1
    <3>1. j \in 1..n
      BY <1>5, <2>1, <2>3
    <3> QED
      BY <1>2, <1>5, <1>10, <1>12, <3>1 DEF Held
  <2> QED
    BY <2>2, <2>3
<1>14. g = [op |-> f.op, at |-> f.at, h |-> f.h, ctx |-> f.ctx, in |-> f.in,
            path |-> f.path, key |-> f.key, futures |-> us, ret |-> None]
  BY <1>3, <1>5 DEF Frame
<1>15. SameCall(f, g) /\ Settled(program, execs', path', g)
  BY <1>5, <1>14 DEF SameCall, Settled
<1>16. Held(program, execs', path', g)
  BY <1>4, <1>5, <1>13, <1>14 DEF Held
<1>17. SetTop(t, g)
  BY <1>1, <1>2, <1>3, <1>5 DEF FanInReturns, Frame
<1>18. Lasting(execs, execs') /\ PathStays(t, Len(stack[t]))
  BY <1>4, PathUnwritten DEF Lasting
<1> QED
  BY <1>1, <1>4, <1>5, <1>15, <1>16, <1>17, <1>18, SetTopFutures DEF Stepping

\* Get waits for nothing: the executioner is done.
LEMMA GetFutureFutures ==
    ASSUME Stepping, NEW t \in Threads, GetFuture(t)
    PROVE  FutureInv'
<1>0. RType /\ MeansInv /\ HoldInv
  BY DEF Stepping, ResultInv, FutureInv
<1>1. PICK f, s : f = Top(t) /\ s = f.futures
  OBVIOUS
<1>2. InBody(t) /\ UNCHANGED path
  BY DEF GetFuture
<1>3. /\ Running(t) /\ f.op = "body" /\ Frame(f) /\ BodyFrame(program, execs, f)
      /\ IsSeq(s)
  BY <1>0, <1>1, <1>2, BodyCallFacts
<1>4. Held(program, execs, path, f)
  BY <1>0, <1>1, <1>3, TopIndex DEF HoldInv
<1>5. PICK i, k :
         /\ i \in DOMAIN s /\ s[i].res = None /\ k = s[i].key
         /\ \/ StartExecution(t, k)
            \/ /\ execs[k].state = "done"
               /\ SetTop(t, [f EXCEPT !.ret = None, !.futures[i].res = execs[k].result])
               /\ UNCHANGED <<execs, outcome>>
  BY <1>1 DEF GetFuture, Pending, Futures
<1>6. execs[k].state = "done" /\ execs[k].result = s[i].seen /\ FutureOK(execs, s[i])
  BY <1>1, <1>3, <1>4, <1>5 DEF Held, Seen, BodyFrame
<1>7. PICK r, v, us, g : /\ r = execs[k].result
                         /\ v = [s[i] EXCEPT !.res = r]
                         /\ us = [s EXCEPT ![i].res = r]
                         /\ g = [f EXCEPT !.ret = None, !.futures[i].res = r]
  OBVIOUS
<1>8. SetTop(t, g) /\ UNCHANGED <<execs, outcome>>
  BY <1>5, <1>6, <1>7 DEF StartExecution
<1>9. k \in DOMAIN execs /\ r # None
  BY <1>0, <1>5, <1>6, <1>7 DEF RType, ExecsOK, ExecOK, FutureOK
<1>10. v = Future(s[i].key, r, s[i].seen)
  BY <1>6, <1>7 DEF FutureOK, Future
<1>11. Seen(execs, v)
  BY <1>6, <1>7, <1>9, <1>10 DEF Seen, Future
<1>12. us = [s EXCEPT ![i] = v]
  BY <1>7
<1>13. s = [j \in DOMAIN s |-> s[j]]
  BY <1>3 DEF IsSeq
<1>14. DOMAIN us = DOMAIN s /\ \A j \in DOMAIN s : us[j] = IF j = i THEN v ELSE s[j]
  BY <1>5, <1>12, <1>13
<1>15. \A j \in DOMAIN us : Seen(execs, us[j])
  BY <1>1, <1>3, <1>4, <1>11, <1>14 DEF Held
<1>16. g = [op |-> f.op, at |-> f.at, h |-> f.h, ctx |-> f.ctx, in |-> f.in,
            path |-> f.path, key |-> f.key, futures |-> us, ret |-> None]
  BY <1>1, <1>3, <1>7 DEF Frame
<1>17. SameCall(f, g) /\ Settled(program, execs', path', g)
  BY <1>3, <1>16 DEF SameCall, Settled
<1>18. Held(program, execs', path', g)
  BY <1>3, <1>8, <1>15, <1>16 DEF Held
<1>19. Lasting(execs, execs') /\ PathStays(t, Len(stack[t]))
  BY <1>2, <1>8, PathUnwritten DEF Lasting
<1> QED
  BY <1>1, <1>3, <1>8, <1>17, <1>18, <1>19, SetTopFutures DEF Stepping

LEMMA BodyReturnsFutures ==
    ASSUME Stepping, NEW t \in Threads, BodyFails(t) \/ BodyCombines(t) \/ ResolveFinal(t)
    PROVE  FutureInv'
<1>1. /\ Running(t) /\ Top(t).op = "body" /\ UNCHANGED <<execs, path>>
      /\ \/ \E r : Return(t, r)
         \/ UNCHANGED outcome /\ \E h : Call(t, ResolveCall(h, Top(t).ctx, None))
  BY DEF BodyFails, AllGot, BodyCombines, ResolveFinal, Got, InBody
<1> QED
  BY <1>1, AnswerFutures, CallResolveFutures

LEMMA NextFutures ==
    ASSUME ResultInv, ResultInv', FutureInv, NoCycles(program), OwnHandles(program),
           FansNodes(program), [Next]_<<program, vars>>
    PROVE  FutureInv'
<1>1. CASE UNCHANGED <<program, vars>>
  <2>1. UNCHANGED <<program, execs, path, stack>>
    BY <1>1 DEF vars
  <2> QED
    BY <2>1 DEF FutureInv, NestInv, OnceInv, HoldInv
<1>2. ASSUME NEW t \in Threads, Resolve(t), UNCHANGED program
      PROVE  FutureInv'
  BY <1>2, ResolveIntoFutures, StepBindFutures, BindStartsFutures, TakeInstanceFutures,
     SetPathFutures, GetOrCreateFutures, GetResultFutures DEF Resolve, Stepping
<1>3. ASSUME NEW t \in Threads, Execute(t) \/ LeafReturns(t), UNCHANGED program
      PROVE  FutureInv'
  BY <1>3, NoInputToResolveFutures, ResolveInputFutures, InputResolvedFutures,
     CallBodyFutures, ReturnsFutures DEF Execute, Stepping
<1>4. ASSUME NEW t \in Threads, Body(t), UNCHANGED program
      PROVE  FutureInv'
  BY <1>4, FanInResolvesFutures, FanInReturnsFutures, GetFutureFutures,
     BodyReturnsFutures DEF Body, Stepping
<1> QED
  BY <1>1, <1>2, <1>3, <1>4 DEF Next, Framework, Terminated

\* A goroutine that starts is in its body.
LEMMA InitStacks ==
    ASSUME Init, NEW t \in Threads
    PROVE  \A i \in DOMAIN stack[t] :
             /\ i = 1 /\ stack[t][i].op = "body" /\ stack[t][i].futures = <<>>
             /\ stack[t][i].ret = None /\ MainCall(program, t, stack[t][i])
<1>1. PICK f : f = BodyCall(program.main[t].def, program.main[t].ctx, Ok(<<>>))
  OBVIOUS
<1>2. stack[t] = <<f>>
  BY <1>1 DEF Init
<1>3. /\ f.op = "body" /\ f.futures = <<>> /\ f.ret = None
      /\ MainCall(program, t, f)
  BY <1>1 DEF MainCall, BodyCall
<1>4. <<f>> \in Seq({f}) /\ Len(<<f>>) = 1 /\ <<f>>[1] = f
  OBVIOUS
<1>5. DOMAIN <<f>> = 1..1
  BY <1>4, LenProperties
<1>6. \A i \in 1..1 : i = 1
  OBVIOUS
<1> QED
  BY <1>2, <1>3, <1>4, <1>5, <1>6

LEMMA InitFutures ==
    ASSUME Init
    PROVE  FutureInv
<1>1. 1..1 - 1 = {}
  OBVIOUS
<1>2. ASSUME NEW t \in Threads, NEW i \in DOMAIN stack[t]
      PROVE  /\ 1..i - 1 = {} /\ stack[t][i].op # "execute"
             /\ Belongs(program, execs, t, stack[t], i)
             /\ Held(program, execs, path, stack[t][i])
  BY <1>1, InitStacks, EmptySequence DEF Belongs, MainCall, Mine, Held
<1>3. ASSUME NEW t \in Threads
      PROVE  Settled(program, execs, path, Last(stack[t]))
  <2>1. PICK f : f = BodyCall(program.main[t].def, program.main[t].ctx, Ok(<<>>))
    OBVIOUS
  <2>2. stack[t] = <<f>> /\ f.ret = None
    BY <2>1 DEF Init, BodyCall
  <2>3. Last(<<f>>) = f
    BY DEF Last
  <2> QED
    BY <2>2, <2>3 DEF Settled
<1>4. NestInv
  BY <1>2 DEF NestInv
<1>5. OnceInv
  BY <1>2 DEF OnceInv
<1>6. HoldInv
  BY <1>2, <1>3 DEF HoldInv
<1> QED
  BY <1>4, <1>5, <1>6 DEF FutureInv

\* The future FanIn returns has the result FanIn's own resolution had: nobody writes
\* another path on the handle in between, so the executioner FanIn finds under the path
\* is the one that was resolved, and Get starts nothing again.
THEOREM FuturesHaveTheirResult ==
    NoneIsNoResult /\ (\A p \in Programs : WellBuilt(p) /\ NoCycles(p) /\ OwnHandles(p)) =>
        (Spec => []FutureIsOfItsDependency)
<1> SUFFICES ASSUME NoneIsNoResult,
                    \A p \in Programs : WellBuilt(p) /\ NoCycles(p) /\ OwnHandles(p)
             PROVE  Spec => []FutureIsOfItsDependency
  OBVIOUS
<1>1. Init => ResultInv /\ FutureInv
  BY MeansInductive, InitFutures DEF ResultInv
<1>2. ResultInv => WellBuilt(program) /\ NoCycles(program) /\ OwnHandles(program)
  BY DEF ResultInv, RType
<1>3. ResultInv /\ [Next]_<<program, vars>> => ResultInv'
  BY MeansInductive DEF ResultInv
<1>4. ResultInv /\ FutureInv /\ [Next]_<<program, vars>> => FutureInv'
  BY <1>2, <1>3, NextFutures DEF WellBuilt
<1>5. ResultInv /\ FutureInv => FutureIsOfItsDependency
  <2> SUFFICES ASSUME ResultInv, FutureInv, NEW t \in Threads, NEW i \in DOMAIN stack[t],
                      NEW j \in DOMAIN stack[t][i].futures
               PROVE  LET f == stack[t][i].futures[j]
                      IN  IF f.res # None THEN f.res = f.seen
                          ELSE /\ f.key \in DOMAIN execs
                               /\ execs[f.key].state = "done" => execs[f.key].result = f.seen
    BY DEF FutureIsOfItsDependency
  <2>1. PICK g : g = stack[t][i]
    OBVIOUS
  <2>2. FrameOK(program, execs, g) /\ Held(program, execs, path, g)
    BY <2>1 DEF ResultInv, RType, FutureInv, HoldInv
  <2>3. g.op = "body"
    BY <2>1, <2>2, EmptySequence DEF FrameOK, ResolveFrame, ExecuteFrame, BodyFrame
  <2>4. FutureOK(execs, g.futures[j]) /\ Seen(execs, g.futures[j])
    BY <2>1, <2>2, <2>3 DEF FrameOK, ResolveFrame, ExecuteFrame, BodyFrame, Held
  <2> QED
    BY <2>1, <2>4 DEF FutureOK, Seen
<1> QED
  BY <1>1, <1>3, <1>4, <1>5, PTL DEF Spec

==============================================================================
