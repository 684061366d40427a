----------------------------- MODULE Pass2Proofs -----------------------------
(***************************************************************************)
(* Proofs about Pass2, for any threads, functions, locks and variables: a  *)
(* paragraph is of one function with one set of locks, because the context *)
(* says who and how many, and nothing that changes the locks leaves it     *)
(* open; and of one invocation if the function is not recursive, because   *)
(* the number of its calls is then that of the one that runs.              *)
(***************************************************************************)
EXTENDS Pass2, SequenceTheorems, FiniteSetTheorems, TLAPS

-----------------------------------------------------------------------------
(* Types *)

\* A sequence, of whatever.
IsSeq(s) == \E S : s \in Seq(S)

Frame == [fn : Functions, no : 0 .. MaxLines]

\* No thread has called a function more often than there are lines.
Typed ==
    /\ TypeOK
    /\ Len(trace) \in 0 .. MaxLines
    /\ \A t \in Threads, f \in Functions : invoked[t][f] <= Len(trace)
    /\ IsSeq(trace)
    /\ IsSeq(para)
    /\ IsSeq(out)
    /\ ctxt # NoCtxt =>
        \E t \in Threads : \E f, n, k : ctxt = <<t, f, n, k>>

\* A line is appended.
LEMMA AppendAny ==
    ASSUME NEW s, NEW e, IsSeq(s)
    PROVE  /\ IsSeq(Append(s, e))
           /\ Len(s) \in Nat /\ Len(Append(s, e)) = Len(s) + 1
           /\ DOMAIN Append(s, e) = 1 .. Len(s) + 1 /\ DOMAIN s = 1 .. Len(s)
           /\ \A i \in 1 .. Len(s) : Append(s, e)[i] = s[i]
           /\ Append(s, e)[Len(s) + 1] = e
           /\ Append(s, e) # <<>>
<1>1. PICK S : s \in Seq(S)
  BY DEF IsSeq
<1>2. s \in Seq(S \cup {e})
  BY <1>1, SeqMonotonic
<1>3. Append(s, e) \in Seq(S \cup {e})
  BY <1>2
<1>4. /\ Len(s) \in Nat /\ Len(Append(s, e)) = Len(s) + 1
      /\ DOMAIN Append(s, e) = 1 .. Len(s) + 1 /\ DOMAIN s = 1 .. Len(s)
      /\ \A i \in 1 .. Len(s) : Append(s, e)[i] = s[i]
      /\ Append(s, e)[Len(s) + 1] = e
  BY <1>2, <1>3
<1>5. Append(s, e) # <<>>
  <2>1. Len(Append(s, e)) # 0
    BY <1>4
  <2>2. Len(<<>>) = 0
    BY EmptySeq
  <2> QED
    BY <2>1, <2>2
<1> QED
  BY <1>3, <1>4, <1>5 DEF IsSeq

\* Reading a line leaves the paragraph and the output sequences, and a context
\* with a paragraph only.
LEMMA ReadAccessTyped ==
    ASSUME Typed, NEW t \in Threads, NEW tag \in {"READ", "WRITE"}, NEW class, NEW v,
           ReadAccess(Access(t, tag, class, v))
    PROVE  /\ IsSeq(para')
           /\ \A i \in DOMAIN para' : IsAccess(para'[i])
           /\ ctxt' # NoCtxt /\ para' # <<>>
           /\ \E u \in Threads : \E f, n, k : ctxt' = <<u, f, n, k>>
           /\ out' = out
<1> DEFINE e == Access(t, tag, class, v)
<1>1. /\ IsAccess(e)
      /\ Ctxt(e) = <<t, Last(frames[t]).fn, invoked[t][Last(frames[t]).fn], Cardinality(held[t])>>
  BY DEF Access, IsAccess, Ctxt
<1> HIDE DEF e
<1>2. /\ ctxt' = IF ctxt = NoCtxt THEN Ctxt(e) ELSE ctxt
      /\ para' = IF ctxt' = Ctxt(e) THEN Append(para, e) ELSE para
      /\ out' = out
  BY DEF ReadAccess, e
<1>3. IsSeq(para)
  BY DEF Typed
<1>4. /\ IsSeq(Append(para, e))
      /\ Len(para) \in Nat
      /\ DOMAIN Append(para, e) = 1 .. Len(para) + 1 /\ DOMAIN para = 1 .. Len(para)
      /\ \A i \in 1 .. Len(para) : Append(para, e)[i] = para[i]
      /\ Append(para, e)[Len(para) + 1] = e
      /\ Append(para, e) # <<>>
  BY <1>3, AppendAny
<1>5. \A i \in DOMAIN Append(para, e) : IsAccess(Append(para, e)[i])
  <2>1. \A i \in 1 .. Len(para) + 1 : i \in 1 .. Len(para) \/ i = Len(para) + 1
    BY <1>4
  <2> QED
    BY <1>1, <1>4, <2>1 DEF Typed, TypeOK
<1>6. ctxt' # NoCtxt /\ \E u \in Threads : \E f, n, k : ctxt' = <<u, f, n, k>>
  <2>1. CASE ctxt = NoCtxt
    BY <1>1, <1>2, <2>1 DEF NoCtxt
  <2>2. CASE ctxt # NoCtxt
    BY <1>2, <2>2 DEF Typed
  <2> QED
    BY <2>1, <2>2
<1>7. para' # <<>>
  BY <1>2, <1>4 DEF Typed, TypeOK
<1> QED
  BY <1>2, <1>3, <1>4, <1>5, <1>6, <1>7 DEF Typed, TypeOK

LEMMA FlushedTyped ==
    ASSUME Typed
    PROVE  IsSeq(Flushed)
<1>1. IsSeq(out)
  BY DEF Typed
<1>2. IsSeq(Append(out, process_para(para, ctxt)))
  BY <1>1, AppendAny
<1> QED
  BY <1>1, <1>2 DEF Flushed

LEMMA ReadOtherTyped ==
    ASSUME Typed, NEW e, ReadOther(e)
    PROVE  ctxt' = NoCtxt /\ para' = <<>> /\ IsSeq(out')
<1>1. para' = <<>>
  BY DEF ReadOther, Typed, TypeOK
<1>2. out' = Append(Flushed, e) /\ ctxt' = NoCtxt
  BY DEF ReadOther
<1> QED
  BY <1>1, <1>2, FlushedTyped, AppendAny

\* A line is written.
LEMMA WriteLineTyped ==
    ASSUME Typed, NEW e, WriteLine(e)
    PROVE  /\ IsSeq(trace')
           /\ Len(trace') = Len(trace) + 1
           /\ Len(trace') \in 0 .. MaxLines /\ Len(trace) \in 0 .. MaxLines
           /\ MaxLines \in Nat
<1>1. trace' = Append(trace, e) /\ Len(trace) < MaxLines
  BY DEF WriteLine
<1>2. IsSeq(trace)
  BY DEF Typed
<1>3. IsSeq(trace') /\ Len(trace') = Len(trace) + 1
  BY <1>1, <1>2, AppendAny
<1>4. Len(trace) \in 0 .. MaxLines /\ MaxLines \in Nat
  BY Pass2Assumption DEF Typed
<1> QED
  BY <1>1, <1>3, <1>4

LEMMA InitTyped == Init => Typed
<1> SUFFICES ASSUME Init PROVE Typed
  OBVIOUS
<1>1. <<>> \in Seq({}) /\ Len(<<>>) = 0 /\ MaxLines \in Nat
  BY EmptySeq, Pass2Assumption
<1>2. IsSeq(<<>>)
  BY <1>1 DEF IsSeq
<1>3. trace = <<>> /\ para = <<>> /\ out = <<>> /\ ctxt = NoCtxt
  BY DEF Init
<1>4. <<>> \in Seq(Frame)
  OBVIOUS
<1>5. /\ frames \in [Threads -> Seq(Frame)]
      /\ invoked \in [Threads -> [Functions -> 0 .. MaxLines]]
      /\ held \in [Threads -> SUBSET Locks]
      /\ phase = "reading"
  BY <1>1, <1>4 DEF Init
<1>6. \A i \in DOMAIN para : IsAccess(para[i])
  BY <1>3
<1>7. \A t \in Threads, f \in Functions : invoked[t][f] <= Len(trace)
  BY <1>1, <1>3 DEF Init
<1>8. TypeOK
  BY <1>3, <1>5, <1>6 DEF TypeOK, Frame
<1> QED
  BY <1>1, <1>2, <1>3, <1>7, <1>8 DEF Typed

\* The frames under the last one.
LEMMA FrontFacts ==
    ASSUME NEW S, NEW s \in Seq(S), s # <<>>
    PROVE  /\ Front(s) \in Seq(S)
           /\ Last(s) \in S
           /\ \A i \in DOMAIN Front(s) : i \in DOMAIN s /\ Front(s)[i] = s[i]
           /\ Len(s) \in DOMAIN s /\ Last(s) = s[Len(s)]
<1>1. Len(s) \in Nat /\ Len(s) > 0 /\ DOMAIN s = 1 .. Len(s)
  BY EmptySeq
<1>2. \A i \in 1 .. Len(s) - 1 : s[i] \in S
  BY <1>1, ElementOfSeq
<1>3. /\ Front(s) \in Seq(S) /\ Len(Front(s)) = Len(s) - 1
      /\ \A i \in 1 .. Len(s) - 1 : Front(s)[i] = s[i]
  BY <1>1, <1>2, SubSeqProperties DEF Front
<1>4. DOMAIN Front(s) = 1 .. Len(s) - 1
  BY <1>3
<1> QED
  BY <1>1, <1>3, <1>4, ElementOfSeq DEF Last

\* A call counts one more and adds its frame.
LEMMA CallTyped ==
    ASSUME Typed, NEW t \in Threads, NEW f \in Functions, PrintCall(t, f)
    PROVE  /\ frames' \in [Threads -> Seq(Frame)]
           /\ invoked' \in [Threads -> [Functions -> 0 .. MaxLines]]
           /\ \A u \in Threads, g \in Functions : invoked'[u][g] <= Len(trace) + 1
           /\ invoked'[t][f] = invoked[t][f] + 1
           /\ \A u \in Threads, g \in Functions :
                 u # t \/ g # f => invoked'[u][g] = invoked[u][g]
           /\ frames'[t] = Append(frames[t], [fn |-> f, no |-> invoked'[t][f]])
           /\ \A u \in Threads \ {t} : frames'[u] = frames[u]
           /\ frames[t] \in Seq(Frame)
<1>1. /\ invoked' = [invoked EXCEPT ![t][f] = @ + 1]
      /\ frames' = [frames EXCEPT ![t] = Append(@, [fn |-> f, no |-> invoked'[t][f]])]
  BY DEF PrintCall
<1>2. /\ Len(trace) + 1 \in 0 .. MaxLines /\ Len(trace) \in Nat /\ MaxLines \in Nat
  <2>1. WriteLine(Other("CALL", t))
    BY DEF PrintCall
  <2>2. Len(trace) < MaxLines
    BY <2>1 DEF WriteLine
  <2> QED
    BY <2>2, Pass2Assumption DEF Typed
<1>3. invoked \in [Threads -> [Functions -> 0 .. MaxLines]] /\ frames \in [Threads -> Seq(Frame)]
  BY DEF Typed, TypeOK, Frame
<1>4. \A u \in Threads, g \in Functions : invoked[u][g] \in Nat /\ invoked[u][g] <= Len(trace)
  BY <1>2, <1>3 DEF Typed
<1>5. /\ invoked'[t][f] = invoked[t][f] + 1
      /\ \A u \in Threads, g \in Functions : u # t \/ g # f => invoked'[u][g] = invoked[u][g]
  BY <1>1, <1>3
<1>6. \A u \in Threads, g \in Functions : invoked'[u][g] <= Len(trace) + 1
  BY <1>2, <1>4, <1>5
<1>7. invoked[t][f] + 1 \in 0 .. MaxLines
  BY <1>2, <1>4
<1>8. invoked' \in [Threads -> [Functions -> 0 .. MaxLines]]
  BY <1>1, <1>3, <1>7
<1>9. [fn |-> f, no |-> invoked'[t][f]] \in Frame
  BY <1>5, <1>7 DEF Frame
<1>10. Append(frames[t], [fn |-> f, no |-> invoked'[t][f]]) \in Seq(Frame)
  BY <1>3, <1>9
<1> QED
  BY <1>1, <1>3, <1>5, <1>6, <1>8, <1>10

LEMMA NextTyped == Typed /\ [Next]_vars => Typed'
<1> SUFFICES ASSUME Typed, [Next]_vars PROVE Typed'
  OBVIOUS
<1>1. /\ frames \in [Threads -> Seq(Frame)]
      /\ invoked \in [Threads -> [Functions -> 0 .. MaxLines]]
      /\ held \in [Threads -> SUBSET Locks]
      /\ \A t \in Threads, f \in Functions : invoked[t][f] <= Len(trace)
  BY DEF Typed, TypeOK, Frame
<1>2. \A t \in Threads, f \in Functions : invoked[t][f] <= Len(trace) + 1
  <2>1. Len(trace) \in Nat /\ \A t \in Threads, f \in Functions : invoked[t][f] \in Nat
    BY <1>1, Pass2Assumption DEF Typed
  <2> QED
    BY <1>1, <2>1
<1>3. ASSUME NEW t \in Threads, NEW tag \in {"READ", "WRITE"}, NEW class \in {"LOCAL", "GLOBAL"},
             NEW v \in Vars, PrintAccess(t, tag, class, v)
      PROVE  Typed'
  <2> DEFINE e == Access(t, tag, class, v)
  <2>1. WriteLine(e) /\ ReadAccess(e) /\ UNCHANGED <<progVars, phase>>
    BY <1>3 DEF PrintAccess
  <2>2. /\ IsSeq(para')
        /\ \A i \in DOMAIN para' : IsAccess(para'[i])
        /\ ctxt' # NoCtxt /\ para' # <<>>
        /\ \E u \in Threads : \E f, n, k : ctxt' = <<u, f, n, k>>
        /\ out' = out
    BY <2>1, ReadAccessTyped
  <2>3. IsSeq(trace') /\ Len(trace') = Len(trace) + 1 /\ Len(trace') \in 0 .. MaxLines
    BY <2>1, WriteLineTyped
  <2> HIDE DEF e
  <2> QED
    BY <1>2, <2>1, <2>2, <2>3 DEF Typed, TypeOK, progVars
<1>4. ASSUME NEW e, WriteLine(e), ReadOther(e), phase' = phase,
             frames' \in [Threads -> Seq(Frame)],
             invoked' \in [Threads -> [Functions -> 0 .. MaxLines]],
             held' \in [Threads -> SUBSET Locks],
             \A t \in Threads, f \in Functions : invoked'[t][f] <= Len(trace) + 1
      PROVE  Typed'
  <2>1. ctxt' = NoCtxt /\ para' = <<>> /\ IsSeq(out')
    BY <1>4, ReadOtherTyped
  <2>2. IsSeq(trace') /\ Len(trace') = Len(trace) + 1 /\ Len(trace') \in 0 .. MaxLines
    BY <1>4, WriteLineTyped
  <2>3. IsSeq(<<>>)
    BY EmptySeq DEF IsSeq
  <2>4. \A i \in DOMAIN para' : IsAccess(para'[i])
    BY <2>1
  <2>5. phase' \in {"reading", "done", "failed"}
    BY <1>4 DEF Typed, TypeOK
  <2>6. TypeOK'
    BY <1>4, <2>1, <2>4, <2>5 DEF TypeOK, Frame
  <2> QED
    BY <1>4, <2>1, <2>2, <2>3, <2>6 DEF Typed
<1>5. ASSUME NEW t \in Threads, NEW f \in Functions, PrintCall(t, f) PROVE Typed'
  <2>1. /\ WriteLine(Other("CALL", t)) /\ ReadOther(Other("CALL", t))
        /\ held' = held /\ phase' = phase
    BY <1>5 DEF PrintCall
  <2> QED
    BY <1>1, <1>4, <1>5, <2>1, CallTyped
<1>6. ASSUME NEW t \in Threads, NEW l \in Locks, PrintLock(t, l) PROVE Typed'
  <2>1. /\ WriteLine(Other("LOCK", t)) /\ ReadOther(Other("LOCK", t))
        /\ held' = [held EXCEPT ![t] = @ \cup {l}]
        /\ frames' = frames /\ invoked' = invoked /\ phase' = phase
    BY <1>6 DEF PrintLock
  <2>2. held' \in [Threads -> SUBSET Locks]
    BY <1>1, <2>1
  <2> QED
    BY <1>1, <1>2, <1>4, <2>1, <2>2
<1>7. ASSUME NEW t \in Threads, NEW l \in Locks, PrintUnlock(t, l) PROVE Typed'
  <2>1. /\ WriteLine(Other("UNLOCK", t)) /\ ReadOther(Other("UNLOCK", t))
        /\ held' = [held EXCEPT ![t] = @ \ {l}]
        /\ frames' = frames /\ invoked' = invoked /\ phase' = phase
    BY <1>7 DEF PrintUnlock
  <2>2. held' \in [Threads -> SUBSET Locks]
    BY <1>1, <2>1
  <2> QED
    BY <1>1, <1>2, <1>4, <2>1, <2>2
<1>8. ASSUME NEW t \in Threads, PrintUntypedUnlock(t) PROVE Typed'
  <2>1. WriteLine(Other("UNLOCK", t)) /\ phase' = "failed"
        /\ UNCHANGED <<progVars, ctxt, para, out>>
    BY <1>8 DEF PrintUntypedUnlock
  <2>2. IsSeq(trace') /\ Len(trace') = Len(trace) + 1 /\ Len(trace') \in 0 .. MaxLines
    BY <2>1, WriteLineTyped
  <2>3. TypeOK'
    BY <2>1 DEF Typed, TypeOK, progVars
  <2>4. invoked' = invoked /\ ctxt' = ctxt /\ para' = para /\ out' = out
    BY <2>1 DEF progVars
  <2> QED
    BY <1>2, <2>2, <2>3, <2>4 DEF Typed
<1>9. ASSUME NEW t \in Threads, Return(t) PROVE Typed'
  <2>1. /\ frames' = [frames EXCEPT ![t] = Front(@)] /\ frames[t] # <<>>
        /\ UNCHANGED <<invoked, held, trace, phase, ctxt, para, out>>
    BY <1>9 DEF Return
  <2>2. Front(frames[t]) \in Seq(Frame)
    BY <1>1, <2>1, FrontFacts
  <2>3. frames' \in [Threads -> Seq(Frame)]
    BY <1>1, <2>1, <2>2
  <2>4. TypeOK'
    BY <2>1, <2>3 DEF Typed, TypeOK, Frame
  <2> QED
    BY <2>1, <2>4 DEF Typed
<1>10. CASE EndOfTrace
  <2>1. out' = Flushed /\ phase' = "done" /\ UNCHANGED <<progVars, trace, ctxt, para>>
    BY <1>10 DEF EndOfTrace
  <2>2. IsSeq(out')
    BY <2>1, FlushedTyped
  <2>3. TypeOK'
    BY <2>1 DEF Typed, TypeOK, progVars
  <2>4. UNCHANGED <<invoked, trace, ctxt, para>>
    BY <2>1 DEF progVars
  <2> QED
    BY <2>2, <2>3, <2>4 DEF Typed
<1>11. CASE UNCHANGED vars
  <2>1. TypeOK'
    BY <1>11 DEF vars, progVars, Typed, TypeOK
  <2>2. UNCHANGED <<invoked, trace, ctxt, para, out>>
    BY <1>11 DEF vars, progVars
  <2> QED
    BY <2>1, <2>2 DEF Typed
<1> QED
  BY <1>3, <1>5, <1>6, <1>7, <1>8, <1>9, <1>10, <1>11 DEF Next

\* Type correctness; a paragraph is open exactly when it has an access.
THEOREM TypeCorrect == Spec => []TypeOK
<1>1. Typed => TypeOK
  BY DEF Typed
<1> QED
  BY <1>1, InitTyped, NextTyped, PTL DEF Spec
-----------------------------------------------------------------------------
(* What a paragraph is of *)

\* The number of calls of a function that is not recursive is that of the one a
\* thread is in.
CountInv ==
    \A t \in Threads : \A i \in DOMAIN frames[t] :
        LET f == frames[t][i] IN f.fn \notin Recursive => f.no = invoked[t][f.fn]

\* Accesses p of the function and, if it is not recursive, of the invocation in a
\* context, with one set of locks.
Pure(p, c) ==
    \A j, k \in DOMAIN p :
        /\ p[j].THREADID = c[1] /\ p[j].FUNCNAME = c[2]
        /\ p[j].FUNCNAME \notin Recursive => p[j].inv = c[3]
        /\ p[j].locks = p[k].locks

PureElement(g) == g.tag = "IO" => Pure(g.of, g.ctxt)

\* The locks of the open paragraph are those its thread still has.
ParaPure ==
    \A i \in DOMAIN para :
        /\ para[i].THREADID = ctxt[1] /\ para[i].FUNCNAME = ctxt[2]
        /\ para[i].FUNCNAME \notin Recursive => para[i].inv = ctxt[3]
        /\ para[i].locks = held[ctxt[1]]

PureInv ==
    /\ CountInv
    /\ ParaPure
    /\ \A i \in DOMAIN out : PureElement(out[i])

LEMMA CallCounts ==
    ASSUME Typed, CountInv, NEW t \in Threads, NEW f \in Functions, PrintCall(t, f)
    PROVE  CountInv'
<1>1. /\ invoked'[t][f] = invoked[t][f] + 1
      /\ \A u \in Threads, g \in Functions : u # t \/ g # f => invoked'[u][g] = invoked[u][g]
      /\ frames'[t] = Append(frames[t], [fn |-> f, no |-> invoked'[t][f]])
      /\ \A u \in Threads \ {t} : frames'[u] = frames[u]
      /\ frames[t] \in Seq(Frame)
  BY CallTyped
<1>2. f \in Recursive \/ \A i \in DOMAIN frames[t] : frames[t][i].fn # f
  BY DEF PrintCall, Active
<1>3. \A u \in Threads : \A i \in DOMAIN frames[u] : frames[u][i].fn \in Functions
  <2>1. \A u \in Threads : frames[u] \in Seq(Frame)
    BY DEF Typed, TypeOK, Frame
  <2>2. \A u \in Threads : \A i \in DOMAIN frames[u] : frames[u][i] \in Frame
    BY <2>1, ElementOfSeq
  <2> QED
    BY <2>2 DEF Frame
<1> SUFFICES ASSUME NEW u \in Threads, NEW i \in DOMAIN frames'[u],
                    frames'[u][i].fn \notin Recursive
             PROVE  frames'[u][i].no = invoked'[u][frames'[u][i].fn]
  BY DEF CountInv
<1>4. CASE u # t
  BY <1>1, <1>3, <1>4 DEF CountInv
<1>5. CASE u = t
  <2>1. DOMAIN frames'[t] = 1 .. Len(frames[t]) + 1 /\ DOMAIN frames[t] = 1 .. Len(frames[t])
    BY <1>1
  <2>2. CASE i \in 1 .. Len(frames[t])
    <3>1. frames'[t][i] = frames[t][i]
      BY <1>1, <2>2
    <3>2. i \in DOMAIN frames[t] /\ frames[t][i].fn \notin Recursive
      BY <1>5, <2>1, <2>2, <3>1
    <3>3. frames[t][i].fn # f /\ frames[t][i].fn \in Functions
      BY <1>2, <1>3, <3>2
    <3>4. invoked'[t][frames[t][i].fn] = invoked[t][frames[t][i].fn]
      BY <1>1, <3>3
    <3>5. frames[t][i].no = invoked[t][frames[t][i].fn]
      BY <3>2 DEF CountInv
    <3> QED
      BY <1>5, <3>1, <3>4, <3>5
  <2>3. CASE i = Len(frames[t]) + 1
    BY <1>1, <1>5, <2>3
  <2>4. i \in 1 .. Len(frames[t]) \/ i = Len(frames[t]) + 1
    <3>1. Len(frames[t]) \in Nat
      BY <1>1
    <3> QED
      BY <1>5, <2>1, <3>1
  <2> QED
    BY <2>2, <2>3, <2>4
<1> QED
  BY <1>4, <1>5

\* An element is appended that is pure if it is a group.
LEMMA AppendPure ==
    ASSUME NEW s, IsSeq(s), NEW e, PureElement(e), \A i \in DOMAIN s : PureElement(s[i])
    PROVE  \A i \in DOMAIN Append(s, e) : PureElement(Append(s, e)[i])
<1>1. /\ Len(s) \in Nat /\ DOMAIN Append(s, e) = 1 .. Len(s) + 1 /\ DOMAIN s = 1 .. Len(s)
      /\ \A i \in 1 .. Len(s) : Append(s, e)[i] = s[i]
      /\ Append(s, e)[Len(s) + 1] = e
  BY AppendAny
<1>2. \A i \in 1 .. Len(s) + 1 : i \in 1 .. Len(s) \/ i = Len(s) + 1
  BY <1>1
<1> QED
  BY <1>1, <1>2

LEMMA FlushedPure ==
    ASSUME Typed, PureInv
    PROVE  IsSeq(Flushed) /\ \A i \in DOMAIN Flushed : PureElement(Flushed[i])
<1> DEFINE g == process_para(para, ctxt)
<1>1. PureElement(g)
  <2>1. g.of = para /\ g.ctxt = ctxt
    BY DEF process_para
  <2>2. Pure(para, ctxt)
    BY DEF PureInv, ParaPure, Pure
  <2> QED
    BY <2>1, <2>2 DEF PureElement
<1> HIDE DEF g
<1>2. IsSeq(out) /\ \A i \in DOMAIN out : PureElement(out[i])
  BY DEF Typed, PureInv
<1>3. \A i \in DOMAIN Append(out, g) : PureElement(Append(out, g)[i])
  BY <1>1, <1>2, AppendPure
<1> QED
  BY <1>2, <1>3, FlushedTyped DEF Flushed, g

LEMMA ReadOtherPure ==
    ASSUME Typed, PureInv, CountInv', NEW e, e.tag # "IO", ReadOther(e)
    PROVE  PureInv'
<1>1. para' = <<>> /\ out' = Append(Flushed, e)
  BY ReadOtherTyped DEF ReadOther
<1>2. ParaPure'
  BY <1>1 DEF ParaPure
<1>3. IsSeq(Flushed) /\ \A i \in DOMAIN Flushed : PureElement(Flushed[i])
  BY FlushedPure
<1>4. \A i \in DOMAIN Append(Flushed, e) : PureElement(Append(Flushed, e)[i])
  BY <1>3, AppendPure DEF PureElement
<1> QED
  BY <1>1, <1>2, <1>4 DEF PureInv

LEMMA ReadAccessPure ==
    ASSUME Typed, PureInv, NEW t \in Threads, NEW tag, NEW class, NEW v, frames[t] # <<>>,
           ReadAccess(Access(t, tag, class, v)), UNCHANGED progVars
    PROVE  PureInv'
<1> DEFINE e == Access(t, tag, class, v)
           f == Last(frames[t])
<1>1. /\ e.THREADID = t /\ e.FUNCNAME = f.fn /\ e.INVNO = invoked[t][f.fn] /\ e.inv = f.no
      /\ e.locks = held[t]
      /\ Ctxt(e) = <<t, f.fn, invoked[t][f.fn], Cardinality(held[t])>>
  BY DEF Access, Ctxt
<1>2. f.fn \notin Recursive => f.no = invoked[t][f.fn]
  <2>1. frames[t] \in Seq(Frame)
    BY DEF Typed, TypeOK, Frame
  <2>2. Len(frames[t]) \in DOMAIN frames[t] /\ f = frames[t][Len(frames[t])]
    BY <2>1, FrontFacts
  <2> QED
    BY <2>2 DEF PureInv, CountInv
<1> HIDE DEF e, f
<1>3. /\ ctxt' = IF ctxt = NoCtxt THEN Ctxt(e) ELSE ctxt
      /\ para' = IF ctxt' = Ctxt(e) THEN Append(para, e) ELSE para
      /\ out' = out /\ held' = held
  BY DEF ReadAccess, progVars, e
<1>4. CountInv'
  BY DEF PureInv, CountInv, progVars
<1>5. ctxt = NoCtxt => para = <<>>
  BY DEF Typed, TypeOK
<1>6. \A i \in DOMAIN para :
        /\ para[i].THREADID = ctxt'[1] /\ para[i].FUNCNAME = ctxt'[2]
        /\ para[i].FUNCNAME \notin Recursive => para[i].inv = ctxt'[3]
        /\ para[i].locks = held[ctxt'[1]]
  BY <1>3, <1>5 DEF PureInv, ParaPure
<1>7. CASE ctxt' = Ctxt(e)
  <2>1. /\ e.THREADID = ctxt'[1] /\ e.FUNCNAME = ctxt'[2]
        /\ e.FUNCNAME \notin Recursive => e.inv = ctxt'[3]
        /\ e.locks = held[ctxt'[1]]
    BY <1>1, <1>2, <1>7
  <2>2. /\ Len(para) \in Nat /\ DOMAIN para = 1 .. Len(para)
        /\ DOMAIN Append(para, e) = 1 .. Len(para) + 1
        /\ \A i \in 1 .. Len(para) : Append(para, e)[i] = para[i]
        /\ Append(para, e)[Len(para) + 1] = e
    BY AppendAny DEF Typed
  <2>3. \A i \in 1 .. Len(para) + 1 : i \in 1 .. Len(para) \/ i = Len(para) + 1
    BY <2>2
  <2>4. para' = Append(para, e)
    BY <1>3, <1>7
  <2>5. ParaPure'
    BY <1>3, <1>6, <2>1, <2>2, <2>3, <2>4 DEF ParaPure
  <2> QED
    BY <1>3, <1>4, <2>5 DEF PureInv
<1>8. CASE ctxt' # Ctxt(e)
  <2>1. ParaPure'
    BY <1>3, <1>6, <1>8 DEF ParaPure
  <2> QED
    BY <1>3, <1>4, <2>1 DEF PureInv
<1> QED
  BY <1>7, <1>8

LEMMA NextPure == Typed /\ PureInv /\ [Next]_vars => PureInv'
<1> SUFFICES ASSUME Typed, PureInv, [Next]_vars PROVE PureInv'
  OBVIOUS
<1>1. \A tag \in {"CALL", "LOCK", "UNLOCK"}, t \in Threads : Other(tag, t).tag # "IO"
  BY DEF Other
<1>2. UNCHANGED <<frames, invoked>> => CountInv'
  BY DEF PureInv, CountInv
<1>3. ASSUME NEW t \in Threads, NEW tag \in {"READ", "WRITE"}, NEW class \in {"LOCAL", "GLOBAL"},
             NEW v \in Vars, PrintAccess(t, tag, class, v)
      PROVE  PureInv'
  BY <1>3, ReadAccessPure DEF PrintAccess
<1>4. ASSUME NEW t \in Threads, NEW f \in Functions, PrintCall(t, f) PROVE PureInv'
  <2>1. CountInv'
    BY <1>4, CallCounts DEF PureInv
  <2> QED
    BY <1>1, <1>4, <2>1, ReadOtherPure DEF PrintCall
<1>5. ASSUME NEW t \in Threads, NEW l \in Locks, PrintLock(t, l) \/ PrintUnlock(t, l)
      PROVE  PureInv'
  BY <1>1, <1>2, <1>5, ReadOtherPure DEF PrintLock, PrintUnlock
<1>6. ASSUME NEW t \in Threads, PrintUntypedUnlock(t) PROVE PureInv'
  BY <1>2, <1>6 DEF PrintUntypedUnlock, progVars, PureInv, ParaPure
<1>7. ASSUME NEW t \in Threads, Return(t) PROVE PureInv'
  <2>1. /\ frames' = [frames EXCEPT ![t] = Front(@)] /\ frames[t] # <<>>
        /\ UNCHANGED <<invoked, held, ctxt, para, out>>
    BY <1>7 DEF Return
  <2>2. frames \in [Threads -> Seq(Frame)]
    BY DEF Typed, TypeOK, Frame
  <2>3. \A i \in DOMAIN Front(frames[t]) :
           i \in DOMAIN frames[t] /\ Front(frames[t])[i] = frames[t][i]
    BY <2>1, <2>2, FrontFacts
  <2>4. frames'[t] = Front(frames[t]) /\ \A u \in Threads \ {t} : frames'[u] = frames[u]
    BY <2>1, <2>2
  <2>5. CountInv'
    BY <2>1, <2>3, <2>4 DEF PureInv, CountInv
  <2> QED
    BY <2>1, <2>5 DEF PureInv, ParaPure
<1>8. CASE EndOfTrace
  <2>1. out' = Flushed /\ UNCHANGED <<frames, invoked, held, ctxt, para>>
    BY <1>8 DEF EndOfTrace, progVars
  <2> QED
    BY <1>2, <2>1, FlushedPure DEF PureInv, ParaPure
<1>9. CASE UNCHANGED vars
  BY <1>2, <1>9 DEF vars, progVars, PureInv, ParaPure
<1> QED
  BY <1>3, <1>4, <1>5, <1>6, <1>7, <1>8, <1>9 DEF Next

\* For any threads, functions and locks, the accesses of an IO element of dynamic.xml
\* are of the function it names with the same locks, and of the invocation it names
\* if the function is not recursive.
THEOREM GroupsArePure == Spec => []GroupsPure
<1>1. Init => PureInv
  <2> SUFFICES ASSUME Init PROVE PureInv
    OBVIOUS
  <2>1. DOMAIN <<>> = {}
    OBVIOUS
  <2>2. para = <<>> /\ out = <<>> /\ \A t \in Threads : frames[t] = <<>>
    BY DEF Init
  <2> QED
    BY <2>1, <2>2 DEF PureInv, ParaPure, CountInv
<1>2. PureInv => GroupsPure
  BY DEF PureInv, PureElement, Pure, GroupsPure, Groups
<1> QED
  BY <1>1, <1>2, InitTyped, NextTyped, NextPure, PTL DEF Spec

-----------------------------------------------------------------------------
(* What an element says of its accesses *)

\* The positions in p of the accesses to a local variable with a tag.
At(p, v, tag) == {i \in DOMAIN p : IsLocal(p[i]) /\ p[i].VARID = v /\ p[i].tag = tag}

\* The local accesses of a paragraph and those counted in its element correspond,
\* the n-th counted of a variable and a tag to one of those accesses.
LEMMA CountedAll ==
    ASSUME NEW p, NEW c, IsFiniteSet(DOMAIN p), \A i \in DOMAIN p : IsAccess(p[i])
    PROVE  Cardinality(Counted(process_para(p, c))) = Cardinality({i \in DOMAIN p : IsLocal(p[i])})
<1> DEFINE g == process_para(p, c)
           L == {i \in DOMAIN p : IsLocal(p[i])}
           tags == {"WRITE", "READ"}
           b == [k \in LocalVars(p) \X tags |->
                   CHOOSE f \in Bijection(1 .. Cardinality(At(p, k[1], k[2])), At(p, k[1], k[2])) : TRUE]
           F == [x \in Counted(g) |-> b[<<x[1], x[2]>>][x[3]]]
<1>1. ASSUME NEW v, NEW tag \in tags
      PROVE  IsFiniteSet(At(p, v, tag))
  <2>1. At(p, v, tag) \in SUBSET DOMAIN p
    BY DEF At
  <2> QED
    BY <2>1, FS_Subset
<1>2. ASSUME NEW v \in LocalVars(p), NEW tag \in tags
      PROVE  b[<<v, tag>>] \in Bijection(1 .. Cardinality(At(p, v, tag)), At(p, v, tag))
  <2>1. ExistsBijection(1 .. Cardinality(At(p, v, tag)), At(p, v, tag))
    BY <1>1, FS_CardinalityType
  <2> QED
    BY <2>1 DEF ExistsBijection
<1>3. /\ DOMAIN g.local = LocalVars(p)
      /\ \A v \in LocalVars(p) : \A tag \in tags : g.local[v][tag] = Cardinality(At(p, v, tag))
  BY DEF process_para, Count, At
<1>4. /\ \A x \in Counted(g) : \E v \in LocalVars(p), tag \in tags :
             \E n \in 1 .. Cardinality(At(p, v, tag)) : x = <<v, tag, n>>
      /\ \A v \in LocalVars(p), tag \in tags :
             \A n \in 1 .. Cardinality(At(p, v, tag)) : <<v, tag, n>> \in Counted(g)
  <2> DEFINE T(v, tag) == {<<v, tag, n>> : n \in 1 .. g.local[v][tag]}
  <2> HIDE DEF g
  <2>1. Counted(g) = UNION {T(v, tag) : v \in LocalVars(p), tag \in tags}
    BY <1>3 DEF Counted
  <2>2. \A v \in LocalVars(p), tag \in tags :
            T(v, tag) = {<<v, tag, n>> : n \in 1 .. Cardinality(At(p, v, tag))}
    BY <1>3
  <2> HIDE DEF T
  <2>3. \A x : x \in Counted(g) <=> \E v \in LocalVars(p), tag \in tags : x \in T(v, tag)
    BY <2>1
  <2> QED
    BY <2>2, <2>3
<1> HIDE DEF b, g
<1>5. ASSUME NEW v \in LocalVars(p), NEW tag \in tags, NEW n \in 1 .. Cardinality(At(p, v, tag))
      PROVE  /\ <<v, tag, n>> \in Counted(g)
             /\ F[<<v, tag, n>>] = b[<<v, tag>>][n]
             /\ F[<<v, tag, n>>] \in At(p, v, tag)
  <2>1. <<v, tag, n>> \in Counted(g)
    BY <1>4
  <2>2. b[<<v, tag>>][n] \in At(p, v, tag)
    BY <1>2 DEF Bijection, Injection
  <2> QED
    BY <2>1, <2>2
<1>6. F \in [Counted(g) -> L]
  <2> SUFFICES ASSUME NEW x \in Counted(g) PROVE F[x] \in L
    OBVIOUS
  <2>1. PICK v \in LocalVars(p), tag \in tags : \E n \in 1 .. Cardinality(At(p, v, tag)) :
            x = <<v, tag, n>>
    BY <1>4
  <2>2. PICK n \in 1 .. Cardinality(At(p, v, tag)) : x = <<v, tag, n>>
    BY <2>1
  <2>3. F[<<v, tag, n>>] \in At(p, v, tag)
    BY <1>5
  <2> HIDE DEF F
  <2>4. F[x] \in At(p, v, tag)
    BY <2>2, <2>3
  <2> QED
    BY <2>4 DEF At
<1>7. ASSUME NEW x \in Counted(g), NEW y \in Counted(g), F[x] = F[y] PROVE x = y
  <2>1. PICK v \in LocalVars(p), tag \in tags : \E n \in 1 .. Cardinality(At(p, v, tag)) :
            x = <<v, tag, n>>
    BY <1>4
  <2>2. PICK n \in 1 .. Cardinality(At(p, v, tag)) : x = <<v, tag, n>>
    BY <2>1
  <2>3. PICK w \in LocalVars(p), tog \in tags : \E m \in 1 .. Cardinality(At(p, w, tog)) :
            y = <<w, tog, m>>
    BY <1>4
  <2>4. PICK m \in 1 .. Cardinality(At(p, w, tog)) : y = <<w, tog, m>>
    BY <2>3
  <2>5. F[<<v, tag, n>>] \in At(p, v, tag) /\ F[<<w, tog, m>>] \in At(p, w, tog)
    BY <1>5
  <2>9. F[<<v, tag, n>>] = F[<<w, tog, m>>]
    BY <1>7, <2>2, <2>4
  <2>6. v = w /\ tag = tog
    BY <2>5, <2>9 DEF At
  <2>7. b[<<v, tag>>][n] = b[<<v, tag>>][m]
    BY <1>5, <2>6, <2>9
  <2>8. n = m
    BY <1>2, <2>6, <2>7 DEF Bijection, Injection, IsInjective
  <2> QED
    BY <2>2, <2>4, <2>6, <2>8
<1>8. ASSUME NEW i \in L PROVE \E x \in Counted(g) : F[x] = i
  <2> DEFINE v == p[i].VARID
             tag == p[i].tag
  <2>1. v \in LocalVars(p) /\ tag \in tags /\ i \in At(p, v, tag)
    BY DEF LocalVars, IsAccess, At
  <2> HIDE DEF v, tag
  <2>2. PICK n \in 1 .. Cardinality(At(p, v, tag)) : b[<<v, tag>>][n] = i
    BY <1>2, <2>1 DEF Bijection, Surjection
  <2> QED
    BY <1>5, <2>1, <2>2
<1> HIDE DEF F
<1>9. F \in Injection(Counted(g), L) /\ F \in Surjection(Counted(g), L)
  BY <1>6, <1>7, <1>8 DEF Injection, IsInjective, Surjection
<1>10. IsFiniteSet(L)
  BY FS_Subset
<1> QED
  BY <1>9, <1>10, FS_Injection DEF g

\* Listed or counted, an element has the accesses of its paragraph.
LEMMA ParaConserved ==
    ASSUME NEW p, NEW c, IsSeq(p), \A i \in DOMAIN p : IsAccess(p[i]),
           NEW g, g = process_para(p, c)
    PROVE  /\ Cardinality(DOMAIN g.nonlocal) + Cardinality(Counted(g)) = Len(p)
           /\ \A j \in DOMAIN g.nonlocal : ~IsLocal(g.nonlocal[j])
<1> DEFINE L == {i \in DOMAIN p : IsLocal(p[i])}
           N == {i \in DOMAIN p : ~IsLocal(p[i])}
<1>1. g.nonlocal = Restrict(p, N)
  BY DEF process_para
<1>2. DOMAIN g.nonlocal = N /\ \A j \in N : g.nonlocal[j] = p[j]
  BY <1>1 DEF Restrict
<1>3. PICK S : p \in Seq(S)
  BY DEF IsSeq
<1>4. Len(p) \in Nat /\ DOMAIN p = 1 .. Len(p)
  BY <1>3, LenProperties
<1>5. IsFiniteSet(DOMAIN p) /\ Cardinality(DOMAIN p) = Len(p)
  BY <1>4, FS_Interval
<1>6. Cardinality(Counted(g)) = Cardinality(L)
  BY <1>5, CountedAll
<1>7. IsFiniteSet(L) /\ IsFiniteSet(N)
  BY <1>5, FS_Subset
<1>8. L \cup N = DOMAIN p /\ L \cap N = {}
  OBVIOUS
<1> HIDE DEF L, N
<1>9. Cardinality(L) \in Nat /\ Cardinality(N) \in Nat /\ Cardinality({}) = 0
  BY <1>7, FS_CardinalityType, FS_EmptySet
<1>10. Cardinality(L \cup N) = Cardinality(L) + Cardinality(N) - Cardinality(L \cap N)
  BY <1>7, FS_Union
<1>11. Len(p) = Cardinality(L) + Cardinality(N)
  <2>1. Cardinality(L \cup N) = Len(p) /\ Cardinality(L \cap N) = 0
    BY <1>5, <1>8, <1>9
  <2> DEFINE a == Cardinality(L)
             b == Cardinality(N)
  <2>2. a \in Nat /\ b \in Nat /\ Len(p) = a + b - 0
    BY <1>9, <1>10, <2>1
  <2> HIDE DEF a, b
  <2>3. Len(p) = a + b
    BY <2>2
  <2> QED
    BY <2>3 DEF a, b
<1>12. Cardinality(DOMAIN g.nonlocal) + Cardinality(Counted(g)) = Len(p)
  BY <1>2, <1>6, <1>9, <1>11
<1> QED
  BY <1>2, <1>12 DEF N

\* Every element is that of some paragraph.
Conserved(g) ==
    /\ Cardinality(DOMAIN g.nonlocal) + Cardinality(Counted(g)) = Len(g.of)
    /\ \A j \in DOMAIN g.nonlocal : ~IsLocal(g.nonlocal[j])

ConservedInv == \A i \in DOMAIN out : out[i].tag = "IO" => Conserved(out[i])

LEMMA AppendConserved ==
    ASSUME NEW s, IsSeq(s), NEW e, e.tag = "IO" => Conserved(e),
           \A i \in DOMAIN s : s[i].tag = "IO" => Conserved(s[i])
    PROVE  \A i \in DOMAIN Append(s, e) : Append(s, e)[i].tag = "IO" => Conserved(Append(s, e)[i])
<1>1. /\ Len(s) \in Nat /\ DOMAIN Append(s, e) = 1 .. Len(s) + 1 /\ DOMAIN s = 1 .. Len(s)
      /\ \A i \in 1 .. Len(s) : Append(s, e)[i] = s[i]
      /\ Append(s, e)[Len(s) + 1] = e
  BY AppendAny
<1>2. \A i \in 1 .. Len(s) + 1 : i \in 1 .. Len(s) \/ i = Len(s) + 1
  BY <1>1
<1> QED
  BY <1>1, <1>2

LEMMA FlushedConserved ==
    ASSUME Typed, ConservedInv
    PROVE  \A i \in DOMAIN Flushed : Flushed[i].tag = "IO" => Conserved(Flushed[i])
<1> DEFINE g == process_para(para, ctxt)
<1>1. g.of = para /\ IsSeq(para) /\ IsSeq(out) /\ \A i \in DOMAIN para : IsAccess(para[i])
  BY DEF process_para, Typed, TypeOK
<1>2. Conserved(g)
  BY <1>1, ParaConserved DEF Conserved
<1> HIDE DEF g
<1>3. \A i \in DOMAIN Append(out, g) :
        Append(out, g)[i].tag = "IO" => Conserved(Append(out, g)[i])
  BY <1>1, <1>2, AppendConserved DEF ConservedInv
<1> QED
  BY <1>3 DEF Flushed, ConservedInv, g

LEMMA ReadOtherConserved ==
    ASSUME Typed, ConservedInv, NEW e, e.tag # "IO", ReadOther(e)
    PROVE  ConservedInv'
<1>1. \A i \in DOMAIN Append(Flushed, e) :
        Append(Flushed, e)[i].tag = "IO" => Conserved(Append(Flushed, e)[i])
  BY FlushedTyped, FlushedConserved, AppendConserved
<1>2. out' = Append(Flushed, e)
  BY DEF ReadOther
<1> QED
  BY <1>1, <1>2 DEF ConservedInv

LEMMA NextConserved == Typed /\ ConservedInv /\ [Next]_vars => ConservedInv'
<1> SUFFICES ASSUME Typed, ConservedInv, [Next]_vars PROVE ConservedInv'
  OBVIOUS
<1>1. \A tag \in {"CALL", "LOCK", "UNLOCK"}, t \in Threads : Other(tag, t).tag # "IO"
  BY DEF Other
<1>2. ASSUME out' = out PROVE ConservedInv'
  BY <1>2 DEF ConservedInv
<1>3. ASSUME NEW t \in Threads, NEW tag \in {"READ", "WRITE"}, NEW class \in {"LOCAL", "GLOBAL"},
             NEW v \in Vars, PrintAccess(t, tag, class, v)
      PROVE  ConservedInv'
  BY <1>2, <1>3 DEF PrintAccess, ReadAccess
<1>4. ASSUME NEW t \in Threads, NEW f \in Functions, PrintCall(t, f) PROVE ConservedInv'
  BY <1>1, <1>4, ReadOtherConserved DEF PrintCall
<1>5. ASSUME NEW t \in Threads, NEW l \in Locks, PrintLock(t, l) \/ PrintUnlock(t, l)
      PROVE  ConservedInv'
  BY <1>1, <1>5, ReadOtherConserved DEF PrintLock, PrintUnlock
<1>6. ASSUME NEW t \in Threads, Return(t) \/ PrintUntypedUnlock(t) PROVE ConservedInv'
  BY <1>2, <1>6 DEF Return, PrintUntypedUnlock
<1>7. CASE EndOfTrace
  BY <1>7, FlushedConserved DEF EndOfTrace, ConservedInv
<1>8. CASE UNCHANGED vars
  BY <1>2, <1>8 DEF vars
<1> QED
  BY <1>3, <1>4, <1>5, <1>6, <1>7, <1>8 DEF Next

\* For any threads, locks and variables, each access of a paragraph is in its IO
\* element once: listed if it is not LOCAL, counted if it is.
THEOREM GroupsAreConserved == Spec => []GroupsConserve
<1>1. Init => ConservedInv
  BY DEF Init, ConservedInv
<1>2. ConservedInv => GroupsConserve
  BY DEF ConservedInv, Conserved, GroupsConserve, Groups
<1> QED
  BY <1>1, <1>2, InitTyped, NextTyped, NextConserved, PTL DEF Spec

-----------------------------------------------------------------------------
(* Where the lines of the dump are in dynamic.xml *)

\* The lines an element stands for, and all those of some elements.
Of(e) == IF e.tag = "IO" THEN e.of ELSE <<e>>
In(s) == UNION {Range(Of(s[i])) : i \in DOMAIN s}

Sorted(p) == \A m, n \in DOMAIN p : m < n => p[m].id < p[n].id
Ordered(s) ==
    \A i, j \in DOMAIN s : \A m \in DOMAIN Of(s[i]), n \in DOMAIN Of(s[j]) :
        i < j \/ (i = j /\ m < n) => Of(s[i])[m].id < Of(s[j])[n].id

\* The elements and then the open paragraph have lines of the dump, in its order,
\* and no line but an access is left out.
PlaceInv ==
    /\ \A x \in Range(trace) : x.id \in 1 .. Len(trace)
    /\ In(out) \subseteq Range(trace) /\ Range(para) \subseteq Range(trace)
    /\ Ordered(out) /\ Sorted(para)
    /\ phase = "reading" => \A x \in In(out), y \in Range(para) : x.id < y.id
    /\ phase # "failed" => {x \in Range(trace) : ~IsAccess(x)} \subseteq In(out)

LEMMA AppendRange ==
    ASSUME NEW s, NEW e, IsSeq(s)
    PROVE  Range(Append(s, e)) = Range(s) \cup {e}
<1>1. /\ Len(s) \in Nat /\ DOMAIN Append(s, e) = 1 .. Len(s) + 1 /\ DOMAIN s = 1 .. Len(s)
      /\ \A i \in 1 .. Len(s) : Append(s, e)[i] = s[i]
      /\ Append(s, e)[Len(s) + 1] = e
  BY AppendAny
<1>2. 1 .. Len(s) + 1 = 1 .. Len(s) \cup {Len(s) + 1}
  BY <1>1
<1> QED
  BY <1>1, <1>2 DEF Range

LEMMA AppendIn ==
    ASSUME NEW s, NEW e, IsSeq(s)
    PROVE  In(Append(s, e)) = In(s) \cup Range(Of(e))
<1>1. /\ Len(s) \in Nat /\ DOMAIN Append(s, e) = 1 .. Len(s) + 1 /\ DOMAIN s = 1 .. Len(s)
      /\ \A i \in 1 .. Len(s) : Append(s, e)[i] = s[i]
      /\ Append(s, e)[Len(s) + 1] = e
  BY AppendAny
<1>2. 1 .. Len(s) + 1 = 1 .. Len(s) \cup {Len(s) + 1}
  BY <1>1
<1> QED
  BY <1>1, <1>2 DEF In

LEMMA AppendSorted ==
    ASSUME NEW p, NEW e, IsSeq(p), Sorted(p), \A x \in Range(p) : x.id < e.id
    PROVE  Sorted(Append(p, e))
<1>1. /\ Len(p) \in Nat /\ DOMAIN Append(p, e) = 1 .. Len(p) + 1 /\ DOMAIN p = 1 .. Len(p)
      /\ \A i \in 1 .. Len(p) : Append(p, e)[i] = p[i]
      /\ Append(p, e)[Len(p) + 1] = e
  BY AppendAny
<1>2. \A m \in DOMAIN p : p[m].id < e.id
  BY DEF Range
<1>3. \A m, n \in 1 .. Len(p) + 1 : m < n =>
        m \in 1 .. Len(p) /\ (n \in 1 .. Len(p) \/ n = Len(p) + 1)
  BY <1>1
<1> QED
  BY <1>1, <1>2, <1>3 DEF Sorted

\* An element goes last that is sorted and has only later lines.
LEMMA AppendOrdered ==
    ASSUME NEW s, NEW e, IsSeq(s), Ordered(s), Sorted(Of(e)),
           \A x \in In(s), y \in Range(Of(e)) : x.id < y.id
    PROVE  Ordered(Append(s, e))
<1> DEFINE a == Append(s, e)
<1>1. /\ Len(s) \in Nat /\ DOMAIN a = 1 .. Len(s) + 1 /\ DOMAIN s = 1 .. Len(s)
      /\ \A i \in 1 .. Len(s) : a[i] = s[i]
      /\ a[Len(s) + 1] = e
  BY AppendAny
<1> HIDE DEF a
<1> SUFFICES ASSUME NEW i \in DOMAIN a, NEW j \in DOMAIN a,
                    NEW m \in DOMAIN Of(a[i]), NEW n \in DOMAIN Of(a[j]),
                    i < j \/ (i = j /\ m < n)
             PROVE  Of(a[i])[m].id < Of(a[j])[n].id
  BY DEF Ordered, a
<1>2. CASE j \in 1 .. Len(s)
  <2>1. i \in 1 .. Len(s)
    BY <1>1, <1>2
  <2>2. a[i] = s[i] /\ a[j] = s[j]
    BY <1>1, <1>2, <2>1
  <2> QED
    BY <1>1, <1>2, <2>1, <2>2 DEF Ordered
<1>3. CASE j = Len(s) + 1 /\ i \in 1 .. Len(s)
  <2>1. a[i] = s[i] /\ a[j] = e
    BY <1>1, <1>3
  <2>2. i \in DOMAIN s /\ m \in DOMAIN Of(s[i]) /\ n \in DOMAIN Of(e)
    BY <1>1, <1>3, <2>1
  <2>3. Of(s[i])[m] \in Range(Of(s[i])) /\ Of(e)[n] \in Range(Of(e))
    BY <2>2 DEF Range
  <2>4. Of(s[i])[m] \in In(s)
    BY <2>2, <2>3 DEF In
  <2> QED
    BY <2>1, <2>3, <2>4
<1>4. CASE j = Len(s) + 1 /\ i = Len(s) + 1
  <2>1. a[i] = e /\ a[j] = e
    BY <1>1, <1>4
  <2>2. m < n
    BY <1>1, <1>4
  <2> QED
    BY <2>1, <2>2 DEF Sorted
<1> QED
  BY <1>1, <1>2, <1>3, <1>4

\* The open paragraph is written after the elements it follows.
LEMMA FlushedPlaced ==
    ASSUME Typed, PlaceInv, phase = "reading"
    PROVE  /\ IsSeq(Flushed) /\ Ordered(Flushed)
           /\ In(Flushed) = In(out) \cup Range(para)
<1> DEFINE g == process_para(para, ctxt)
<1>1. Of(g) = para
  BY DEF Of, process_para
<1> HIDE DEF g
<1>2. IsSeq(out) /\ IsSeq(Flushed)
  BY FlushedTyped DEF Typed
<1>3. Ordered(Append(out, g)) /\ In(Append(out, g)) = In(out) \cup Range(para)
  BY <1>1, <1>2, AppendOrdered, AppendIn DEF PlaceInv
<1>4. ctxt = NoCtxt => Range(para) = {}
  <2>1. DOMAIN <<>> = {}
    OBVIOUS
  <2> QED
    BY <2>1 DEF Typed, TypeOK, Range
<1> QED
  BY <1>2, <1>3, <1>4 DEF Flushed, PlaceInv, g

\* A line numbered last is written.
LEMMA WriteLinePlaced ==
    ASSUME Typed, PlaceInv, NEW e, e.id = Len(trace) + 1, WriteLine(e)
    PROVE  /\ Range(trace') = Range(trace) \cup {e}
           /\ \A x \in Range(trace') : x.id \in 1 .. Len(trace')
           /\ \A x \in Range(trace) : x.id < e.id
<1>1. trace' = Append(trace, e) /\ IsSeq(trace)
  BY DEF WriteLine, Typed
<1>2. /\ Range(trace') = Range(trace) \cup {e}
      /\ Len(trace) \in Nat /\ Len(trace') = Len(trace) + 1
  BY <1>1, AppendRange, AppendAny
<1>3. \A x \in Range(trace) : x.id \in 1 .. Len(trace)
  BY DEF PlaceInv
<1>4. \A x \in Range(trace) : x.id \in 1 .. Len(trace') /\ x.id < e.id
  BY <1>2, <1>3
<1> QED
  BY <1>2, <1>4

LEMMA ReadOtherPlaced ==
    ASSUME Typed, PlaceInv, NEW e, e.id = Len(trace) + 1, e.tag # "IO",
           WriteLine(e), ReadOther(e), phase' = phase
    PROVE  PlaceInv'
<1>1. phase = "reading" /\ para' = <<>> /\ out' = Append(Flushed, e)
  BY ReadOtherTyped DEF ReadOther, WriteLine
<1>2. /\ IsSeq(Flushed) /\ Ordered(Flushed)
      /\ In(Flushed) = In(out) \cup Range(para)
  BY <1>1, FlushedPlaced
<1>3. /\ Range(trace') = Range(trace) \cup {e}
      /\ \A x \in Range(trace') : x.id \in 1 .. Len(trace')
      /\ \A x \in Range(trace) : x.id < e.id
  BY WriteLinePlaced
<1>4. Of(e) = <<e>> /\ Range(Of(e)) = {e} /\ Sorted(Of(e))
  <2>1. DOMAIN <<e>> = {1} /\ <<e>>[1] = e
    OBVIOUS
  <2>2. \A m, n \in {1} : ~(m < n)
    OBVIOUS
  <2> QED
    BY <2>1, <2>2 DEF Of, Range, Sorted
<1>5. In(out') = In(out) \cup Range(para) \cup {e}
  BY <1>1, <1>2, <1>4, AppendIn
<1>6. Ordered(out')
  <2>1. \A x \in In(Flushed), y \in Range(Of(e)) : x.id < y.id
    BY <1>2, <1>3, <1>4 DEF PlaceInv
  <2> QED
    BY <1>1, <1>2, <1>4, <2>1, AppendOrdered
<1>7. Range(para') = {} /\ Sorted(para')
  <2>1. DOMAIN para' = {}
    BY <1>1
  <2> QED
    BY <2>1 DEF Range, Sorted
<1>8. In(out') \subseteq Range(trace') /\ Range(para') \subseteq Range(trace')
  BY <1>3, <1>5, <1>7 DEF PlaceInv
<1>9. {x \in Range(trace') : ~IsAccess(x)} \subseteq In(out')
  BY <1>1, <1>3, <1>5 DEF PlaceInv
<1>10. In(out)' = In(out') /\ Ordered(out)' /\ Sorted(para)' /\ Range(para)' = Range(para')
       /\ Range(trace)' = Range(trace')
  BY <1>6, <1>7 DEF In, Of, Range, Ordered, Sorted
<1> QED
  BY <1>3, <1>6, <1>7, <1>8, <1>9, <1>10 DEF PlaceInv

LEMMA ReadAccessPlaced ==
    ASSUME Typed, PlaceInv, NEW e, e.id = Len(trace) + 1, IsAccess(e),
           WriteLine(e), ReadAccess(e), phase' = phase
    PROVE  PlaceInv'
<1> DEFINE joined == Append(para, e)
<1>1. phase = "reading" /\ out' = out /\ (para' = para \/ para' = joined)
  BY DEF ReadAccess, WriteLine
<1>2. /\ Range(trace') = Range(trace) \cup {e}
      /\ \A x \in Range(trace') : x.id \in 1 .. Len(trace')
      /\ \A x \in Range(trace) : x.id < e.id
  BY WriteLinePlaced
<1>3. IsSeq(para)
  BY DEF Typed
<1>4. \A x \in In(out) \cup Range(para) : x.id < e.id
  BY <1>2 DEF PlaceInv
<1>5. Sorted(joined) /\ Range(joined) = Range(para) \cup {e}
  BY <1>3, <1>4, AppendSorted, AppendRange DEF PlaceInv
<1> HIDE DEF joined
<1>6. Sorted(para') /\ Range(para') \subseteq Range(para) \cup {e}
  BY <1>1, <1>5 DEF PlaceInv
<1>7. \A x \in In(out), y \in Range(para') : x.id < y.id
  BY <1>1, <1>4, <1>6 DEF PlaceInv
<1>8. {x \in Range(trace') : ~IsAccess(x)} \subseteq In(out)
  BY <1>1, <1>2 DEF PlaceInv
<1>9. In(out') = In(out) /\ Ordered(out')
  BY <1>1 DEF PlaceInv
<1>10. In(out)' = In(out') /\ Ordered(out)' = Ordered(out') /\ Sorted(para)' = Sorted(para')
       /\ Range(para)' = Range(para') /\ Range(trace)' = Range(trace')
  BY DEF In, Of, Range, Ordered, Sorted
<1>11. In(out') \subseteq Range(trace') /\ Range(para') \subseteq Range(trace')
  BY <1>2, <1>6, <1>9 DEF PlaceInv
<1> QED
  BY <1>1, <1>2, <1>6, <1>7, <1>8, <1>9, <1>10, <1>11 DEF PlaceInv

LEMMA NextPlaced == Typed /\ PlaceInv /\ [Next]_vars => PlaceInv'
<1> SUFFICES ASSUME Typed, PlaceInv, [Next]_vars PROVE PlaceInv'
  OBVIOUS
<1>1. ASSUME NEW t \in Threads, NEW tag \in {"CALL", "LOCK", "UNLOCK"},
             WriteLine(Other(tag, t)), ReadOther(Other(tag, t)), phase' = phase
      PROVE  PlaceInv'
  <2> DEFINE e == Other(tag, t)
  <2>1. e.id = Len(trace) + 1 /\ e.tag # "IO"
    BY DEF Other
  <2> HIDE DEF e
  <2> QED
    BY <1>1, <2>1, ReadOtherPlaced DEF e
<1>2. ASSUME NEW t \in Threads, NEW tag \in {"READ", "WRITE"}, NEW class \in {"LOCAL", "GLOBAL"},
             NEW v \in Vars, PrintAccess(t, tag, class, v)
      PROVE  PlaceInv'
  <2> DEFINE e == Access(t, tag, class, v)
  <2>1. e.id = Len(trace) + 1 /\ IsAccess(e)
    BY DEF Access, IsAccess
  <2>2. WriteLine(e) /\ ReadAccess(e) /\ phase' = phase
    BY <1>2 DEF PrintAccess
  <2> HIDE DEF e
  <2> QED
    BY <2>1, <2>2, ReadAccessPlaced
<1>3. ASSUME NEW t \in Threads, NEW f \in Functions, PrintCall(t, f) PROVE PlaceInv'
  BY <1>1, <1>3 DEF PrintCall
<1>4. ASSUME NEW t \in Threads, NEW l \in Locks, PrintLock(t, l) \/ PrintUnlock(t, l)
      PROVE  PlaceInv'
  BY <1>1, <1>4 DEF PrintLock, PrintUnlock
<1>5. ASSUME NEW t \in Threads, PrintUntypedUnlock(t) PROVE PlaceInv'
  <2> DEFINE e == Other("UNLOCK", t)
  <2>1. WriteLine(e) /\ phase' = "failed" /\ out' = out /\ para' = para
    BY <1>5 DEF PrintUntypedUnlock
  <2>2. e.id = Len(trace) + 1
    BY DEF Other
  <2> HIDE DEF e
  <2>3. /\ Range(trace') = Range(trace) \cup {e}
        /\ \A x \in Range(trace') : x.id \in 1 .. Len(trace')
    BY <2>1, <2>2, WriteLinePlaced
  <2>4. In(out') = In(out) /\ Ordered(out') /\ Sorted(para') /\ Range(para') = Range(para)
    BY <2>1 DEF PlaceInv
  <2> QED
    BY <2>1, <2>3, <2>4 DEF PlaceInv
<1>6. CASE EndOfTrace
  <2>1. phase = "reading" /\ out' = Flushed /\ phase' = "done" /\ para' = para /\ trace' = trace
    BY <1>6 DEF EndOfTrace
  <2>2. Ordered(out') /\ In(out') = In(out) \cup Range(para)
    BY <2>1, FlushedPlaced
  <2>3. Sorted(para') /\ Range(para') = Range(para) /\ Range(trace') = Range(trace)
    BY <2>1 DEF PlaceInv
  <2> QED
    BY <2>1, <2>2, <2>3 DEF PlaceInv
<1>7. ASSUME UNCHANGED <<trace, phase, para, out>> PROVE PlaceInv'
  <2>1. /\ In(out') = In(out) /\ Ordered(out') = Ordered(out) /\ Sorted(para') = Sorted(para)
        /\ Range(para') = Range(para) /\ Range(trace') = Range(trace) /\ Len(trace') = Len(trace)
    BY <1>7
  <2> QED
    BY <1>7, <2>1 DEF PlaceInv
<1>8. ASSUME NEW t \in Threads, Return(t) PROVE PlaceInv'
  BY <1>7, <1>8 DEF Return
<1>9. CASE UNCHANGED vars
  BY <1>7, <1>9 DEF vars
<1> QED
  BY <1>2, <1>3, <1>4, <1>5, <1>6, <1>8, <1>9 DEF Next

LEMMA InitPlaced == Init => PlaceInv
<1> SUFFICES ASSUME Init PROVE PlaceInv
  OBVIOUS
<1>1. trace = <<>> /\ para = <<>> /\ out = <<>>
  BY DEF Init
<1>2. DOMAIN <<>> = {}
  OBVIOUS
<1>3. Range(trace) = {} /\ Range(para) = {} /\ In(out) = {} /\ Ordered(out) /\ Sorted(para)
  BY <1>1, <1>2 DEF Range, In, Ordered, Sorted
<1> QED
  BY <1>3 DEF PlaceInv

LEMMA ContentsIn == Contents = In(out)
  BY DEF Contents, Part, In, Of

\* For any threads, locks and variables, all the events of a dump that pass2.py does
\* not fail on are in dynamic.xml, and its lines are there in the order of the dump.
THEOREM EventsAreInPlace == Spec => []EventsInPlace
<1>1. ASSUME PlaceInv PROVE EventsInPlace
  <2>1. \A i \in DOMAIN out : Part(i) = Of(out[i])
    BY DEF Part, Of
  <2>2. ASSUME phase # "failed"
        PROVE  {e \in Contents : ~IsAccess(e)} = {e \in Range(trace) : ~IsAccess(e)}
    BY <1>1, <2>2, ContentsIn DEF PlaceInv
  <2>3. ASSUME NEW i \in DOMAIN out, NEW j \in DOMAIN out,
               NEW m \in DOMAIN Part(i), NEW n \in DOMAIN Part(j),
               i < j \/ (i = j /\ m < n)
        PROVE  Part(i)[m].id < Part(j)[n].id
    BY <1>1, <2>1, <2>3 DEF PlaceInv, Ordered
  <2> QED
    BY <2>2, <2>3 DEF EventsInPlace
<1> QED
  BY <1>1, InitTyped, NextTyped, InitPlaced, NextPlaced, PTL DEF Spec

-----------------------------------------------------------------------------
(* Accesses that are kept *)

\* Of a uniform dump every access read is in an element or the open paragraph; the
\* paragraph's context is that of the last line, its function was not called since,
\* and its locks are still held.
KeptInv ==
    /\ phase = "reading" /\ Uniform =>
          {x \in Range(trace) : IsAccess(x)} \subseteq In(out) \cup Range(para)
    /\ phase = "done" /\ Uniform => {x \in Range(trace) : IsAccess(x)} \subseteq In(out)
    /\ phase = "reading" /\ ctxt # NoCtxt =>
          /\ Len(trace) > 0
          /\ IsAccess(trace[Len(trace)])
          /\ ctxt[3] = invoked[ctxt[1]][ctxt[2]]
          /\ ctxt[4] = Cardinality(held[ctxt[1]])
          /\ Uniform => /\ trace[Len(trace)].THREADID = ctxt[1]
                        /\ trace[Len(trace)].FUNCNAME = ctxt[2]

\* A dump is uniform when it is so without its last line, and that line follows.
LEMMA UniformPrefix ==
    ASSUME Typed, NEW e, WriteLine(e), Uniform'
    PROVE  /\ Uniform
           /\ Len(trace) > 0 /\ IsAccess(trace[Len(trace)]) /\ IsAccess(e) =>
                 /\ e.THREADID = trace[Len(trace)].THREADID
                 /\ e.FUNCNAME = trace[Len(trace)].FUNCNAME
<1>1. trace' = Append(trace, e) /\ IsSeq(trace)
  BY DEF WriteLine, Typed
<1>2. /\ Len(trace) \in Nat /\ Len(trace') = Len(trace) + 1
      /\ \A i \in 1 .. Len(trace) : trace'[i] = trace[i]
      /\ trace'[Len(trace) + 1] = e
  BY <1>1, AppendAny
<1>3. \A i \in 1 .. Len(trace) :
        IsAccess(trace'[i]) /\ IsAccess(trace'[i + 1]) =>
            /\ trace'[i].THREADID = trace'[i + 1].THREADID
            /\ trace'[i].FUNCNAME = trace'[i + 1].FUNCNAME
  <2>1. Len(trace') - 1 = Len(trace)
    BY <1>2
  <2> QED
    BY <2>1 DEF Uniform, IsAccess
<1>4. Uniform
  <2>1. \A i \in 1 .. Len(trace) - 1 : i \in 1 .. Len(trace) /\ i + 1 \in 1 .. Len(trace)
    BY <1>2
  <2> QED
    BY <1>2, <1>3, <2>1 DEF Uniform
<1>5. ASSUME Len(trace) > 0, IsAccess(trace[Len(trace)]), IsAccess(e)
      PROVE  e.THREADID = trace[Len(trace)].THREADID /\ e.FUNCNAME = trace[Len(trace)].FUNCNAME
  <2>1. Len(trace) \in 1 .. Len(trace)
    BY <1>2, <1>5
  <2>2. trace'[Len(trace)] = trace[Len(trace)]
    BY <1>2, <2>1
  <2> QED
    BY <1>2, <1>3, <1>5, <2>1, <2>2
<1> QED
  BY <1>4, <1>5

LEMMA WriteLineLast ==
    ASSUME Typed, NEW e, WriteLine(e)
    PROVE  /\ Range(trace') = Range(trace) \cup {e}
           /\ Len(trace') > 0 /\ trace'[Len(trace')] = e
<1>1. trace' = Append(trace, e) /\ IsSeq(trace)
  BY DEF WriteLine, Typed
<1>2. /\ Range(trace') = Range(trace) \cup {e}
      /\ Len(trace) \in Nat /\ Len(trace') = Len(trace) + 1
      /\ trace'[Len(trace) + 1] = e
  BY <1>1, AppendAny, AppendRange
<1> QED
  BY <1>2

LEMMA ReadOtherKept ==
    ASSUME Typed, PlaceInv, KeptInv, NEW e, ~IsAccess(e), e.tag # "IO",
           WriteLine(e), ReadOther(e), phase' = phase
    PROVE  KeptInv'
<1>1. phase = "reading" /\ ctxt' = NoCtxt /\ para' = <<>> /\ out' = Append(Flushed, e)
  BY ReadOtherTyped DEF ReadOther, WriteLine
<1>2. IsSeq(Flushed) /\ In(Flushed) = In(out) \cup Range(para)
  BY <1>1, FlushedPlaced
<1>3. In(out) \cup Range(para) \subseteq In(out')
  BY <1>1, <1>2, AppendIn
<1>4. Range(trace') = Range(trace) \cup {e}
  BY WriteLineLast
<1>5. ASSUME Uniform'
      PROVE  {x \in Range(trace') : IsAccess(x)} \subseteq In(out')
  <2>1. Uniform
    BY <1>5, UniformPrefix
  <2> QED
    BY <1>1, <1>3, <1>4, <2>1 DEF KeptInv
<1>6. phase' # "done"
  BY <1>1
<1> QED
  BY <1>1, <1>5, <1>6 DEF KeptInv

LEMMA ReadAccessKept ==
    ASSUME Typed, KeptInv, NEW t \in Threads, NEW e, IsAccess(e),
           e.THREADID = t, e.INVNO = invoked[t][e.FUNCNAME], e.locks = held[t],
           WriteLine(e), ReadAccess(e), UNCHANGED <<invoked, held, phase>>
    PROVE  KeptInv'
<1>1. /\ phase = "reading" /\ out' = out
      /\ ctxt' = IF ctxt = NoCtxt THEN Ctxt(e) ELSE ctxt
      /\ para' = IF ctxt' = Ctxt(e) THEN Append(para, e) ELSE para
  BY DEF ReadAccess, WriteLine
<1>2. /\ Range(trace') = Range(trace) \cup {e}
      /\ Len(trace') > 0 /\ trace'[Len(trace')] = e
  BY WriteLineLast
<1>3. Ctxt(e) = <<t, e.FUNCNAME, invoked[t][e.FUNCNAME], Cardinality(held[t])>>
  BY DEF Ctxt
<1>4. ctxt'[3] = invoked[ctxt'[1]][ctxt'[2]] /\ ctxt'[4] = Cardinality(held[ctxt'[1]])
  BY <1>1, <1>3 DEF KeptInv
<1>5. ASSUME Uniform' PROVE ctxt' = Ctxt(e)
  <2>1. CASE ctxt = NoCtxt
    BY <1>1, <2>1
  <2>2. CASE ctxt # NoCtxt
    <3>1. Uniform /\ e.THREADID = trace[Len(trace)].THREADID /\ e.FUNCNAME = trace[Len(trace)].FUNCNAME
      BY <1>1, <1>5, <2>2, UniformPrefix DEF KeptInv
    <3>2. /\ t = ctxt[1] /\ e.FUNCNAME = ctxt[2] /\ ctxt[3] = invoked[ctxt[1]][ctxt[2]]
          /\ ctxt[4] = Cardinality(held[ctxt[1]])
      BY <1>1, <2>2, <3>1 DEF KeptInv
    <3>3. PICK u \in Threads : \E f, n, k : ctxt = <<u, f, n, k>>
      BY <2>2 DEF Typed
    <3>4. PICK f, n, k : ctxt = <<u, f, n, k>>
      BY <3>3
    <3>5. t = u /\ e.FUNCNAME = f /\ n = invoked[t][f] /\ k = Cardinality(held[t])
      BY <3>2, <3>4
    <3> QED
      BY <1>1, <1>3, <2>2, <3>4, <3>5
  <2> QED
    BY <2>1, <2>2
<1>6. ASSUME Uniform'
      PROVE  {x \in Range(trace') : IsAccess(x)} \subseteq In(out') \cup Range(para')
  <2>1. Uniform
    BY <1>6, UniformPrefix
  <2>2. IsSeq(para) /\ para' = Append(para, e)
    BY <1>1, <1>5, <1>6 DEF Typed
  <2>3. Range(para') = Range(para) \cup {e}
    BY <2>2, AppendRange
  <2> QED
    BY <1>1, <1>2, <2>1, <2>3 DEF KeptInv
<1>7. ASSUME Uniform' PROVE e.THREADID = ctxt'[1] /\ e.FUNCNAME = ctxt'[2]
  BY <1>3, <1>5, <1>7
<1>8. phase' = "reading" /\ phase' # "done"
  BY <1>1
<1> QED
  BY <1>2, <1>4, <1>6, <1>7, <1>8 DEF KeptInv

LEMMA NextKept == Typed /\ PlaceInv /\ KeptInv /\ [Next]_vars => KeptInv'
<1> SUFFICES ASSUME Typed, PlaceInv, KeptInv, [Next]_vars PROVE KeptInv'
  OBVIOUS
<1>1. \A tag \in {"CALL", "LOCK", "UNLOCK"}, t \in Threads :
        Other(tag, t).tag # "IO" /\ ~IsAccess(Other(tag, t))
  BY DEF Other, IsAccess
<1>2. ASSUME NEW t \in Threads, NEW tag \in {"READ", "WRITE"}, NEW class \in {"LOCAL", "GLOBAL"},
             NEW v \in Vars, PrintAccess(t, tag, class, v)
      PROVE  KeptInv'
  <2> DEFINE e == Access(t, tag, class, v)
  <2>1. IsAccess(e) /\ e.THREADID = t /\ e.INVNO = invoked[t][e.FUNCNAME] /\ e.locks = held[t]
    BY DEF Access, IsAccess
  <2>2. WriteLine(e) /\ ReadAccess(e) /\ UNCHANGED <<invoked, held, phase>>
    BY <1>2 DEF PrintAccess, progVars
  <2> HIDE DEF e
  <2> QED
    BY <2>1, <2>2, ReadAccessKept
<1>3. ASSUME NEW t \in Threads, NEW f \in Functions, PrintCall(t, f) PROVE KeptInv'
  BY <1>1, <1>3, ReadOtherKept DEF PrintCall
<1>4. ASSUME NEW t \in Threads, NEW l \in Locks, PrintLock(t, l) \/ PrintUnlock(t, l)
      PROVE  KeptInv'
  BY <1>1, <1>4, ReadOtherKept DEF PrintLock, PrintUnlock
<1>5. ASSUME NEW t \in Threads, PrintUntypedUnlock(t) PROVE KeptInv'
  <2>1. phase' = "failed"
    BY <1>5 DEF PrintUntypedUnlock
  <2> QED
    BY <2>1 DEF KeptInv
<1>6. CASE EndOfTrace
  <2>1. phase = "reading" /\ out' = Flushed /\ phase' = "done" /\ trace' = trace
    BY <1>6 DEF EndOfTrace
  <2>2. In(out') = In(out) \cup Range(para)
    BY <2>1, FlushedPlaced
  <2>3. Uniform' = Uniform /\ Range(trace') = Range(trace)
    BY <2>1 DEF Uniform
  <2> QED
    BY <2>1, <2>2, <2>3 DEF KeptInv
<1>7. ASSUME UNCHANGED <<invoked, held, trace, phase, ctxt, para, out>> PROVE KeptInv'
  <2>1. Uniform' = Uniform
    BY <1>7 DEF Uniform
  <2>2. In(out') = In(out) /\ Range(para') = Range(para) /\ Range(trace') = Range(trace)
    BY <1>7
  <2> QED
    BY <1>7, <2>1, <2>2 DEF KeptInv
<1>8. ASSUME NEW t \in Threads, Return(t) PROVE KeptInv'
  BY <1>7, <1>8 DEF Return
<1>9. CASE UNCHANGED vars
  BY <1>7, <1>9 DEF vars, progVars
<1> QED
  BY <1>2, <1>3, <1>4, <1>5, <1>6, <1>8, <1>9 DEF Next

LEMMA InitKept == Init => KeptInv
<1> SUFFICES ASSUME Init PROVE KeptInv
  OBVIOUS
<1>1. trace = <<>> /\ ctxt = NoCtxt /\ phase = "reading"
  BY DEF Init
<1>2. DOMAIN <<>> = {}
  OBVIOUS
<1>3. Range(trace) = {}
  BY <1>1, <1>2 DEF Range
<1> QED
  BY <1>1, <1>3 DEF KeptInv

\* For any threads, locks and variables: a dump whose accesses between two events
\* are of one function in one thread loses none of them, those before its end neither.
THEOREM UniformAccessesAreKept == Spec => []UniformAccessesKept
<1>1. PlaceInv /\ KeptInv => UniformAccessesKept
  <2> SUFFICES ASSUME PlaceInv, KeptInv, Uniform, phase = "done"
               PROVE  {e \in Contents : IsAccess(e)} = {e \in Range(trace) : IsAccess(e)}
    BY DEF UniformAccessesKept, AccessesKept
  <2> QED
    BY ContentsIn DEF PlaceInv, KeptInv
<1> QED
  BY <1>1, InitTyped, NextTyped, InitPlaced, NextPlaced, InitKept, NextKept, PTL DEF Spec
=============================================================================
