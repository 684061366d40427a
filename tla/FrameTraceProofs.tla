--------------------------- MODULE FrameTraceProofs ---------------------------
(***************************************************************************)
(* Proofs about FrameTrace, for any threads, call graph and frame sizes.   *)
(* What the tool keeps of a thread that left frames by an exception is too *)
(* much, but behind every frame that is live there are only frames below   *)
(* it: see Embedded.                                                       *)
(***************************************************************************)
EXTENDS FrameTrace, SequenceTheorems, TLAPS

-----------------------------------------------------------------------------
(* Places on the stacks *)

\* The words of thread t, those of the threads before it below them.
LEMMA RegionFacts ==
    ASSUME NEW t \in Threads
    PROVE  /\ StackWords \in Nat /\ Word \in Nat
           /\ Bottom(t) \in Nat /\ Bottom(t) >= 1
           /\ Base(t) = Bottom(t) + StackWords
           /\ Base(t) + StackWords <= Word
           /\ \A u \in Threads : t < u => Base(t) <= Bottom(u)
<1> DEFINE K == StackWords
<1>1. K \in Nat /\ NThreads \in Nat /\ Word \in Nat /\ Word > (NThreads + 1) * K
  BY FrameTraceAssumption
<1>2. t \in Nat /\ t + 1 <= NThreads
  BY <1>1 DEF Threads
<1> HIDE DEF K
<1>3. \A a, b \in Nat : a * K \in Nat /\ (a <= b => a * K <= b * K)
  BY <1>1
<1>4. \A a \in Nat : (a + 1) * K = a * K + K
  BY <1>1
<1>5. Bottom(t) = t * K + 1 /\ Base(t) = Bottom(t) + K
  BY DEF Bottom, Base, K
<1>6. Bottom(t) \in Nat /\ Bottom(t) >= 1
  BY <1>2, <1>3, <1>5
<1>7. Base(t) + K <= Word
  <2>1. (t + 1) * K <= NThreads * K /\ (t + 1) * K = t * K + K
    BY <1>1, <1>2, <1>3, <1>4
  <2>2. (NThreads + 1) * K = NThreads * K + K
    BY <1>1, <1>4
  <2>3. t * K \in Nat /\ NThreads * K \in Nat
    BY <1>1, <1>2, <1>3
  <2> QED
    BY <1>1, <1>5, <2>1, <2>2, <2>3
<1>8. ASSUME NEW u \in Threads, t < u PROVE Base(t) <= Bottom(u)
  <2>1. u \in Nat /\ t + 1 <= u /\ Bottom(u) = u * K + 1
    BY <1>2, <1>8 DEF Threads, Bottom, K
  <2>2. (t + 1) * K <= u * K /\ (t + 1) * K = t * K + K
    BY <1>2, <1>3, <1>4, <2>1
  <2>3. t * K \in Nat /\ u * K \in Nat
    BY <1>2, <1>3, <2>1
  <2> QED
    BY <1>1, <1>5, <2>1, <2>2, <2>3
<1> QED
  BY <1>1, <1>5, <1>6, <1>7, <1>8 DEF K

\* The frame is thread t's, and all of it is on the stack of t.
Within(f, t) ==
    /\ f \in Frame /\ f.tid = t /\ f.fname \in Functions
    /\ Bottom(t) <= Floor(f) /\ f.rbp + 2 <= Base(t)

LEMMA WithinFacts ==
    ASSUME NEW t \in Threads, NEW f, Within(f, t)
    PROVE  /\ f.rbp \in Nat /\ FrameSize[f.fname] \in Nat
           /\ Floor(f) \in Nat /\ Floor(f) = f.rbp - FrameSize[f.fname]
           /\ Floor(f) <= f.rbp /\ Floor(f) >= 1
           /\ Bottom(t) <= Floor(f) /\ f.rbp < Base(t)
           /\ f.rbp + StackWords < Word
<1>1. /\ StackWords \in Nat /\ Word \in Nat /\ Bottom(t) \in Nat /\ Bottom(t) >= 1
      /\ Base(t) = Bottom(t) + StackWords /\ Base(t) + StackWords <= Word
  BY RegionFacts
<1>2. f.rbp \in 0 .. Word - 1 /\ FrameSize[f.fname] \in Nat
  BY FrameTraceAssumption DEF Within, Frame
<1> QED
  BY <1>1, <1>2 DEF Within, Floor

-----------------------------------------------------------------------------
(* Sequences of frames *)

LEMMA FrontFacts ==
    ASSUME NEW S, NEW s \in Seq(S), s # <<>>
    PROVE  /\ Len(s) \in Nat \ {0}
           /\ Front(s) \in Seq(S)
           /\ Len(Front(s)) = Len(s) - 1
           /\ \A i \in 1 .. Len(s) - 1 : Front(s)[i] = s[i]
           /\ Last(s) = s[Len(s)] /\ Last(s) \in S
<1>1. Len(s) \in Nat \ {0}
  OBVIOUS
<1>2. Last(s) = s[Len(s)] /\ Last(s) \in S
  BY <1>1 DEF Last
<1>3. \A i \in 1 .. Len(s) - 1 : s[i] \in S
  BY <1>1
<1> DEFINE n == Len(s) - 1
<1>4. n \in Nat /\ n - 1 + 1 = n /\ (~(1 <= n) => n = 0)
  <2>1. \A k \in Nat \ {0} :
            k - 1 \in Nat /\ k - 1 - 1 + 1 = k - 1 /\ (~(1 <= k - 1) => k - 1 = 0)
    OBVIOUS
  <2> QED
    BY <1>1, <2>1
<1>5. /\ Front(s) \in Seq(S)
      /\ Len(Front(s)) = IF 1 <= n THEN n - 1 + 1 ELSE 0
      /\ \A i \in 1 .. n - 1 + 1 : Front(s)[i] = s[1 + i - 1]
  BY <1>1, <1>3, <1>4, SubSeqProperties DEF Front
<1>6. Len(Front(s)) = n
  BY <1>4, <1>5
<1>7. ASSUME NEW i \in 1 .. n PROVE Front(s)[i] = s[i]
  <2>1. 1 + i - 1 = i
    OBVIOUS
  <2> QED
    BY <1>4, <1>5, <2>1
<1> QED
  BY <1>1, <1>2, <1>5, <1>6, <1>7

LEMMA AppendFacts ==
    ASSUME NEW S, NEW s \in Seq(S), NEW f \in S
    PROVE  /\ Append(s, f) \in Seq(S)
           /\ Len(Append(s, f)) = Len(s) + 1
           /\ Len(s) \in Nat
           /\ \A i \in 1 .. Len(s) : Append(s, f)[i] = s[i]
           /\ Append(s, f)[Len(s) + 1] = f
  OBVIOUS

LEMMA CutFacts ==
    ASSUME NEW S, NEW s \in Seq(S), NEW d \in 1 .. Len(s) - 1
    PROVE  /\ SubSeq(s, 1, d) \in Seq(S)
           /\ Len(SubSeq(s, 1, d)) = d
           /\ Len(s) \in Nat
           /\ \A i \in 1 .. d : SubSeq(s, 1, d)[i] = s[i]
  OBVIOUS
-----------------------------------------------------------------------------
(* Types *)

\* The frames of thread t are on its stack, each below those before it, as is the
\* one it is about to have; it has those that are older than its exceptions.
Placed(t) ==
    /\ \A d \in 1 .. Len(stack[t]) : Within(stack[t][d], t)
    /\ \A d \in 1 .. Len(stack[t]) : \A c \in 1 .. d - 1 :
          stack[t][d].rbp < Floor(stack[t][c])
    /\ phase[t] \in {"calling", "entered"} => NextRbp(t) - FrameSize[callee[t]] >= Bottom(t)
    /\ phase[t] = "running" => stack[t] # <<>>
    /\ t \in unwound => older[t] <= Len(stack[t])

\* Invocations are counted by the tool as they are made.
Counted == \A t \in Threads, f \in Functions : invMap[f][t] = entries[t][f]

RealInv == Counted /\ \A t \in Threads : Placed(t)

\* A thread whose frames stay.
LEMMA PlacedStays ==
    ASSUME NEW t \in Threads, Placed(t),
           stack'[t] = stack[t], older'[t] = older[t], t \in unwound' => t \in unwound,
           \/ phase'[t] \in {"calling", "entered"} =>
                 NextRbp(t) - FrameSize[callee'[t]] >= Bottom(t)
           \/ phase'[t] = phase[t] /\ callee'[t] = callee[t],
           phase'[t] = "running" => phase[t] = "running"
    PROVE  Placed(t)'
<1>1. NextRbp(t)' = NextRbp(t)
  BY DEF NextRbp, Rsp, Top, Last, Floor, Base, Bottom
<1>2. \A f : Within(f, t)' = Within(f, t) /\ Floor(f)' = Floor(f)
  BY DEF Within, Frame, Floor, Bottom, Base
<1>3. Bottom(t)' = Bottom(t)
  BY DEF Bottom
<1> QED
  BY <1>1, <1>2, <1>3 DEF Placed

LEMMA InitTyped == Init => TypeOK /\ RealInv
<1> SUFFICES ASSUME Init PROVE TypeOK /\ RealInv
  OBVIOUS
<1>1. /\ MaxInv \in Nat /\ StackWords \in Nat /\ Start \in [Threads -> Functions]
      /\ FrameSize \in [Functions -> Nat]
      /\ \A t \in Threads : FrameSize[Start[t]] + 2 <= StackWords
  BY FrameTraceAssumption
<1>2. <<>> \in Seq(Frame) /\ Len(<<>>) = 0
  BY EmptySeq
<1>3. DOMAIN RBPstack = {}
  BY DEF Init, EmptyMap
<1>4. TypeOK
  <2>1. stack \in [Threads -> Seq(Frame)] /\ invstack \in [Threads -> Seq(Frame)]
    BY <1>2 DEF Init
  <2>2. /\ phase \in [Threads -> {"calling", "entered", "running", "ended"}]
        /\ callee \in [Threads -> Functions]
    BY <1>1 DEF Init
  <2>3. /\ entries \in [Threads -> [Functions -> 0 .. MaxInv]]
        /\ invMap \in [Functions -> [Threads -> 0 .. MaxInv]]
    <3>1. 0 \in 0 .. MaxInv
      BY <1>1
    <3>2. /\ entries = [t \in Threads |-> [f \in Functions |-> 0]]
          /\ invMap = [f \in Functions |-> [t \in Threads |-> 0]]
      BY DEF Init
    <3> QED
      BY <3>1, <3>2, Zenon
  <2>4. older \in [Threads -> 0 .. StackWords]
    <3>1. StackWords \in 0 .. StackWords
      BY <1>1
    <3> QED
      BY <3>1 DEF Init
  <2> QED
    BY <1>3, <2>1, <2>2, <2>3, <2>4 DEF TypeOK
<1>5. Counted
  BY DEF Init, Counted
<1>6. ASSUME NEW t \in Threads PROVE Placed(t)
  <2>1. /\ stack[t] = <<>> /\ phase[t] = "calling" /\ callee[t] = Start[t]
        /\ unwound = {}
    BY DEF Init
  <2>2. Len(stack[t]) = 0
    BY <1>2, <2>1
  <2>3. NextRbp(t) = Base(t) - 2
    BY <2>1 DEF NextRbp, Rsp
  <2>4. Bottom(t) \in Nat /\ Base(t) = Bottom(t) + StackWords
    BY RegionFacts
  <2>5. NextRbp(t) - FrameSize[callee[t]] >= Bottom(t)
    BY <1>1, <2>1, <2>3, <2>4
  <2> QED
    BY <2>1, <2>2, <2>5 DEF Placed
<1> QED
  BY <1>4, <1>5, <1>6 DEF RealInv

\* Where the next frame of a thread goes: below the one it is in.
LEMMA NextRbpFacts ==
    ASSUME TypeOK, RealInv, NEW t \in Threads
    PROVE  /\ NextRbp(t) \in Int /\ NextRbp(t) + 2 <= Base(t)
           /\ \A d \in 1 .. Len(stack[t]) : NextRbp(t) < Floor(stack[t][d])
<1>1. stack[t] \in Seq(Frame) /\ Placed(t)
  BY DEF TypeOK, RealInv
<1>2. Base(t) \in Nat
  BY RegionFacts
<1>3. CASE stack[t] = <<>>
  <2>1. NextRbp(t) = Base(t) - 2 /\ Len(stack[t]) = 0
    BY <1>3 DEF NextRbp, Rsp
  <2> QED
    BY <1>2, <2>1
<1>4. CASE stack[t] # <<>>
  <2> DEFINE L == Len(stack[t])
             top == stack[t][L]
  <2>1. L \in Nat \ {0} /\ L \in 1 .. L /\ Top(t) = top
    <3>1. L \in Nat \ {0} /\ Last(stack[t]) = stack[t][L]
      BY <1>1, <1>4, FrontFacts
    <3> QED
      BY <3>1 DEF Top
  <2>2. Within(top, t)
    BY <1>1, <2>1 DEF Placed
  <2>3. /\ Floor(top) \in Nat /\ top.rbp \in Nat
        /\ Floor(top) <= top.rbp /\ top.rbp < Base(t)
    BY <2>2, WithinFacts
  <2>4. NextRbp(t) = Floor(top) - 2
    BY <1>4, <2>1 DEF NextRbp, Rsp
  <2>5. ASSUME NEW d \in 1 .. L PROVE NextRbp(t) < Floor(stack[t][d])
    <3>1. Floor(stack[t][d]) \in Nat
      BY <1>1, WithinFacts DEF Placed
    <3>2. CASE d = L
      BY <2>3, <2>4, <3>2
    <3>3. CASE d # L
      <4>1. d \in 1 .. L - 1
        BY <2>1, <3>3
      <4>2. top.rbp < Floor(stack[t][d])
        BY <1>1, <2>1, <4>1 DEF Placed
      <4> QED
        BY <2>3, <2>4, <3>1, <4>2
    <3> QED
      BY <3>2, <3>3
  <2> HIDE DEF top
  <2> QED
    BY <1>2, <2>3, <2>4, <2>5
<1> QED
  BY <1>3, <1>4

\* The step of updateRBP: the frame it records is the one the thread now has.
LEMMA PushFacts ==
    ASSUME TypeOK, RealInv, NEW t \in Threads, updateRBP(t)
    PROVE  LET f == fnlog(t, callee[t], entries[t][callee[t]], NextRbp(t))
           IN  /\ f.rbp = NextRbp(t) /\ f \in Frame /\ Within(f, t)
               /\ stack' = [stack EXCEPT ![t] = Append(@, f)]
               /\ invstack' = [invstack EXCEPT ![t] = Append(@, f)]
               /\ RBPstack' = Insert(RBPstack, f.rbp, f)
               /\ phase[t] = "entered" /\ phase' = [phase EXCEPT ![t] = "running"]
               /\ UNCHANGED <<callee, entries, unwound, older, invMap, line, meant>>
<1> DEFINE g == callee[t]
           b == NextRbp(t)
           f == fnlog(t, g, entries[t][g], b)
<1>1. phase[t] = "entered"
  BY DEF updateRBP
<1>2. g \in Functions /\ entries[t][g] \in 0 .. MaxInv
  BY DEF TypeOK
<1>3. f.rbp = b /\ f.tid = t /\ f.fname = g
  BY DEF fnlog
<1>4. b \in Int /\ b + 2 <= Base(t) /\ b - FrameSize[g] >= Bottom(t)
  BY <1>1, NextRbpFacts DEF RealInv, Placed
<1>5. FrameSize[g] \in Nat
  BY <1>2, FrameTraceAssumption
<1>6. /\ StackWords \in Nat /\ Word \in Nat /\ Bottom(t) \in Nat /\ Bottom(t) >= 1
      /\ Base(t) = Bottom(t) + StackWords /\ Base(t) + StackWords <= Word
  BY RegionFacts
<1>7. b \in 0 .. Word - 1
  BY <1>4, <1>5, <1>6
<1>8. f \in Frame
  BY <1>2, <1>7 DEF fnlog, Frame
<1>9. Within(f, t)
  <2>1. Floor(f) = b - FrameSize[g]
    BY <1>3 DEF Floor
  <2> QED
    BY <1>2, <1>3, <1>4, <1>8, <2>1 DEF Within
<1>10. invMap[g][t] = entries[t][g]
  BY <1>2 DEF RealInv, Counted
<1>11. /\ stack' = [stack EXCEPT ![t] = Append(@, f)]
       /\ invstack' = [invstack EXCEPT ![t] = Append(@, f)]
       /\ RBPstack' = Insert(RBPstack, b, f)
       /\ phase' = [phase EXCEPT ![t] = "running"]
       /\ UNCHANGED <<callee, entries, unwound, older, invMap, line, meant>>
  BY <1>10 DEF updateRBP, Push, outVars
<1> QED
  BY <1>1, <1>3, <1>8, <1>9, <1>11

\* The step of retP.
LEMMA PopFacts ==
    ASSUME TypeOK, RealInv, NEW t \in Threads, retP(t)
    PROVE  /\ stack[t] # <<>> /\ invstack[t] # <<>>
           /\ stack' = [stack EXCEPT ![t] = Front(@)]
           /\ invstack' = [invstack EXCEPT ![t] = Front(@)]
           /\ RBPstack' = Erase(RBPstack, Last(invstack[t]).rbp)
           /\ phase[t] = "running"
           /\ phase' = [phase EXCEPT ![t] = IF Len(stack[t]) = 1 THEN "ended" ELSE "running"]
           /\ older' = IF t \in unwound
                       THEN [older EXCEPT ![t] = Smaller(@, Len(stack[t]) - 1)]
                       ELSE older
           /\ UNCHANGED <<callee, entries, unwound, invMap, line, meant>>
  BY DEF retP, Leave, Running, RealInv, Placed, outVars

\* The smaller of two numbers.
LEMMA SmallerFacts ==
    ASSUME NEW m \in Int, NEW n \in Int
    PROVE  Smaller(m, n) \in {m, n} /\ Smaller(m, n) <= m /\ Smaller(m, n) <= n
  BY DEF Smaller

\* A thread with the first n of its frames.
LEMMA PlacedCut ==
    ASSUME NEW t \in Threads, Placed(t), NEW n \in Nat,
           n <= Len(stack[t]), Len(stack[t]) \in Nat, Len(stack'[t]) = n,
           \A i \in 1 .. n : stack'[t][i] = stack[t][i],
           phase'[t] \notin {"calling", "entered"},
           phase'[t] = "running" => stack'[t] # <<>>,
           t \in unwound' => older'[t] <= n
    PROVE  Placed(t)'
<1>1. \A i \in 1 .. n : i \in 1 .. Len(stack[t])
  OBVIOUS
<1>2. \A f : Within(f, t)' = Within(f, t) /\ Floor(f)' = Floor(f)
  BY DEF Within, Frame, Floor, Bottom, Base
<1>3. \A d \in 1 .. n : Within(stack'[t][d], t)
  BY <1>1 DEF Placed
<1>4. ASSUME NEW d \in 1 .. n, NEW c \in 1 .. d - 1
      PROVE  stack'[t][d].rbp < Floor(stack'[t][c])
  <2>1. d \in 1 .. Len(stack[t]) /\ c \in 1 .. n
    OBVIOUS
  <2> QED
    BY <2>1 DEF Placed
<1> QED
  BY <1>2, <1>3, <1>4 DEF Placed

LEMMA NextTyped == TypeOK /\ RealInv /\ [Next]_vars => TypeOK' /\ RealInv'
<1> SUFFICES ASSUME TypeOK, RealInv, [Next]_vars PROVE TypeOK' /\ RealInv'
  OBVIOUS
<1>1. /\ MaxInv \in Nat /\ Word \in Nat /\ StackWords \in Nat
      /\ Calls \in [Functions -> SUBSET Functions]
  BY FrameTraceAssumption
<1>2. \A u \in Threads : Placed(u) /\ stack[u] \in Seq(Frame)
  BY DEF TypeOK, RealInv
<1>3. ASSUME NEW t \in Threads, NEW g \in Functions, callP(t, g)
      PROVE  TypeOK' /\ RealInv'
  <2>1. /\ stack' = stack /\ entries' = entries /\ invMap' = invMap
        /\ unwound' = unwound /\ older' = older
        /\ RBPstack' = RBPstack /\ invstack' = invstack
        /\ callee' = [callee EXCEPT ![t] = g]
        /\ phase[t] = "running" /\ phase' = [phase EXCEPT ![t] = "calling"]
        /\ NextRbp(t) - FrameSize[g] >= Bottom(t)
    BY <1>3 DEF callP, Running, toolVars
  <2>2. TypeOK'
    BY <2>1 DEF TypeOK
  <2>3. Counted'
    BY <2>1 DEF RealInv, Counted
  <2>4. ASSUME NEW u \in Threads PROVE Placed(u)'
    <3>1. CASE u = t
      <4>1. callee'[t] = g /\ phase'[t] = "calling"
        BY <2>1 DEF TypeOK
      <4> QED
        BY <1>2, <2>1, <3>1, <4>1, PlacedStays
    <3>2. CASE u # t
      <4>1. callee'[u] = callee[u] /\ phase'[u] = phase[u]
        BY <2>1, <3>2 DEF TypeOK
      <4> QED
        BY <1>2, <2>1, <4>1, PlacedStays
    <3> QED
      BY <3>1, <3>2
  <2> QED
    BY <2>2, <2>3, <2>4 DEF RealInv
<1>4. ASSUME NEW t \in Threads, invP(t)
      PROVE  TypeOK' /\ RealInv'
  <2>1. /\ stack' = stack /\ callee' = callee
        /\ unwound' = unwound /\ older' = older
        /\ RBPstack' = RBPstack /\ invstack' = invstack
        /\ invMap' = [invMap EXCEPT ![callee[t]][t] = @ + 1]
        /\ entries' = [entries EXCEPT ![t][callee[t]] = @ + 1]
        /\ phase[t] = "calling" /\ phase' = [phase EXCEPT ![t] = "entered"]
        /\ entries[t][callee[t]] < MaxInv
    BY <1>4 DEF invP
  <2>2. /\ callee[t] \in Functions /\ entries[t][callee[t]] + 1 \in 0 .. MaxInv
        /\ invMap[callee[t]][t] = entries[t][callee[t]]
    BY <1>1, <2>1 DEF TypeOK, RealInv, Counted
  <2>3. TypeOK'
    BY <2>1, <2>2 DEF TypeOK
  <2>4. Counted'
    BY <2>1, <2>2 DEF TypeOK, RealInv, Counted
  <2>5. ASSUME NEW u \in Threads PROVE Placed(u)'
    <3>1. CASE u = t
      <4>1. NextRbp(t) - FrameSize[callee'[t]] >= Bottom(t)
        BY <1>2, <2>1 DEF Placed
      <4>2. phase'[t] = "entered"
        BY <2>1 DEF TypeOK
      <4> QED
        BY <1>2, <2>1, <3>1, <4>1, <4>2, PlacedStays
    <3>2. CASE u # t
      <4>1. phase'[u] = phase[u]
        BY <2>1, <3>2 DEF TypeOK
      <4> QED
        BY <1>2, <2>1, <4>1, PlacedStays
    <3> QED
      BY <3>1, <3>2
  <2> QED
    BY <2>3, <2>4, <2>5 DEF RealInv
<1>5. ASSUME NEW t \in Threads, updateRBP(t)
      PROVE  TypeOK' /\ RealInv'
  <2> DEFINE f == fnlog(t, callee[t], entries[t][callee[t]], NextRbp(t))
             L == Len(stack[t])
  <2>1. /\ f.rbp = NextRbp(t) /\ f \in Frame /\ Within(f, t)
        /\ stack' = [stack EXCEPT ![t] = Append(@, f)]
        /\ invstack' = [invstack EXCEPT ![t] = Append(@, f)]
        /\ RBPstack' = Insert(RBPstack, f.rbp, f)
        /\ phase' = [phase EXCEPT ![t] = "running"]
        /\ UNCHANGED <<callee, entries, unwound, older, invMap, line, meant>>
    BY <1>5, PushFacts
  <2> HIDE DEF f
  <2>2. stack[t] \in Seq(Frame) /\ invstack[t] \in Seq(Frame)
    BY DEF TypeOK
  <2>3. TypeOK'
    <3>1. f.rbp \in 0 .. Word - 1
      BY <2>1 DEF Frame
    <3>2. /\ DOMAIN RBPstack' \subseteq 0 .. Word - 1
          /\ \A b \in DOMAIN RBPstack' : RBPstack'[b] \in Frame
      BY <2>1, <3>1 DEF TypeOK, Insert
    <3>3. Append(stack[t], f) \in Seq(Frame) /\ Append(invstack[t], f) \in Seq(Frame)
      BY <2>1, <2>2
    <3> QED
      BY <2>1, <3>2, <3>3 DEF TypeOK
  <2>4. Counted'
    BY <2>1 DEF RealInv, Counted
  <2>5. ASSUME NEW u \in Threads PROVE Placed(u)'
    <3>1. CASE u = t
      <4>1. stack'[t] = Append(stack[t], f) /\ phase'[t] = "running"
        BY <2>1 DEF TypeOK
      <4>2. /\ Len(stack'[t]) = L + 1 /\ L \in Nat
            /\ \A i \in 1 .. L : stack'[t][i] = stack[t][i]
            /\ stack'[t][L + 1] = f
        BY <2>1, <2>2, <4>1, AppendFacts
      <4>3. \A x, v : Within(x, v)' = Within(x, v) /\ Floor(x)' = Floor(x)
        BY DEF Within, Frame, Floor, Bottom, Base
      <4>4. \A i \in 1 .. L + 1 : i = L + 1 \/ i \in 1 .. L
        BY <4>2
      <4>5. \A i \in 1 .. L + 1 : Within(stack'[t][i], t)
        BY <1>2, <2>1, <4>2, <4>4 DEF Placed
      <4>6. ASSUME NEW i \in 1 .. L + 1, NEW c \in 1 .. i - 1
            PROVE  stack'[t][i].rbp < Floor(stack'[t][c])
        <5>1. c \in 1 .. L /\ stack'[t][c] = stack[t][c]
          BY <4>2
        <5>2. CASE i = L + 1
          BY <2>1, <4>2, <5>1, <5>2, NextRbpFacts
        <5>3. CASE i \in 1 .. L
          BY <1>2, <4>2, <5>1, <5>3 DEF Placed
        <5> QED
          BY <4>4, <5>2, <5>3
      <4>7. stack'[t] # <<>>
        <5>1. Len(stack'[t]) # 0
          BY <4>2
        <5> QED
          BY <5>1
      <4>8. t \in unwound' => older'[t] <= L + 1
        <5>1. t \in unwound => older[t] <= L /\ older[t] \in Int
          BY <1>1, <1>2 DEF Placed, TypeOK
        <5> QED
          BY <2>1, <4>2, <5>1
      <4> QED
        BY <3>1, <4>1, <4>2, <4>3, <4>5, <4>6, <4>7, <4>8 DEF Placed
    <3>2. CASE u # t
      <4>1. stack'[u] = stack[u] /\ phase'[u] = phase[u]
        BY <2>1, <3>2 DEF TypeOK
      <4> QED
        BY <1>2, <2>1, <4>1, PlacedStays
    <3> QED
      BY <3>1, <3>2
  <2> QED
    BY <2>3, <2>4, <2>5 DEF RealInv
<1>6. ASSUME NEW t \in Threads, retP(t)
      PROVE  TypeOK' /\ RealInv'
  <2> DEFINE L == Len(stack[t])
  <2>1. /\ stack[t] # <<>> /\ invstack[t] # <<>>
        /\ stack' = [stack EXCEPT ![t] = Front(@)]
        /\ invstack' = [invstack EXCEPT ![t] = Front(@)]
        /\ RBPstack' = Erase(RBPstack, Last(invstack[t]).rbp)
        /\ phase' = [phase EXCEPT ![t] = IF L = 1 THEN "ended" ELSE "running"]
        /\ older' = IF t \in unwound THEN [older EXCEPT ![t] = Smaller(@, L - 1)] ELSE older
        /\ UNCHANGED <<callee, entries, unwound, invMap, line, meant>>
    BY <1>6, PopFacts
  <2>2. stack[t] \in Seq(Frame) /\ invstack[t] \in Seq(Frame)
    BY DEF TypeOK
  <2>3. /\ L \in Nat \ {0} /\ Front(stack[t]) \in Seq(Frame)
        /\ Len(Front(stack[t])) = L - 1
        /\ \A i \in 1 .. L - 1 : Front(stack[t])[i] = stack[t][i]
    BY <2>1, <2>2, FrontFacts
  <2>4. /\ older[t] \in 0 .. StackWords /\ L - 1 \in Nat
        /\ Smaller(older[t], L - 1) \in 0 .. StackWords
        /\ Smaller(older[t], L - 1) <= L - 1
    <3>1. older[t] \in 0 .. StackWords /\ L - 1 \in Nat
      BY <2>3 DEF TypeOK
    <3>2. older[t] \in Int /\ L - 1 \in Int
      BY <3>1
    <3>3. /\ Smaller(older[t], L - 1) \in {older[t], L - 1}
          /\ Smaller(older[t], L - 1) <= older[t] /\ Smaller(older[t], L - 1) <= L - 1
      BY <3>2, SmallerFacts
    <3> QED
      BY <1>1, <3>1, <3>3
  <2>5. TypeOK'
    <3>1. /\ DOMAIN RBPstack' \subseteq 0 .. Word - 1
          /\ \A b \in DOMAIN RBPstack' : RBPstack'[b] \in Frame
      BY <2>1 DEF TypeOK, Erase
    <3>2. Front(invstack[t]) \in Seq(Frame)
      BY <2>1, <2>2, FrontFacts
    <3>3. older' \in [Threads -> 0 .. StackWords]
      BY <2>1, <2>4 DEF TypeOK
    <3> QED
      BY <2>1, <2>3, <3>1, <3>2, <3>3 DEF TypeOK
  <2>6. Counted'
    BY <2>1 DEF RealInv, Counted
  <2>7. ASSUME NEW u \in Threads PROVE Placed(u)'
    <3>1. CASE u = t
      <4>1. /\ stack'[t] = Front(stack[t])
            /\ phase'[t] = IF L = 1 THEN "ended" ELSE "running"
            /\ t \in unwound => older'[t] = Smaller(older[t], L - 1)
        BY <2>1 DEF TypeOK
      <4>2. /\ L - 1 \in Nat /\ L - 1 <= L /\ L \in Nat /\ Len(stack'[t]) = L - 1
            /\ \A i \in 1 .. L - 1 : stack'[t][i] = stack[t][i]
        BY <2>3, <4>1
      <4>3. phase'[t] = "running" => stack'[t] # <<>>
        <5>1. L # 1 => Len(stack'[t]) # 0
          BY <4>2
        <5> QED
          BY <4>1, <5>1
      <4>4. phase'[t] \notin {"calling", "entered"}
        BY <4>1
      <4>5. t \in unwound' => older'[t] <= L - 1
        BY <2>1, <2>4, <4>1
      <4> QED
        BY <1>2, <3>1, <4>2, <4>3, <4>4, <4>5, PlacedCut
    <3>2. CASE u # t
      <4>1. stack'[u] = stack[u] /\ phase'[u] = phase[u] /\ older'[u] = older[u]
        BY <2>1, <3>2 DEF TypeOK
      <4> QED
        BY <1>2, <2>1, <4>1, PlacedStays
    <3> QED
      BY <3>1, <3>2
  <2> QED
    BY <2>5, <2>6, <2>7 DEF RealInv
<1>7. ASSUME NEW t \in Threads, NEW depth \in 1 .. StackWords, Unwind(t, depth)
      PROVE  TypeOK' /\ RealInv'
  <2> DEFINE L == Len(stack[t])
  <2>1. /\ depth \in 1 .. L - 1
        /\ stack' = [stack EXCEPT ![t] = SubSeq(@, 1, depth)]
        /\ unwound' = unwound \cup {t}
        /\ older' = [older EXCEPT ![t] = Smaller(@, depth)]
        /\ phase[t] = "running"
        /\ UNCHANGED <<phase, callee, entries, invMap, RBPstack, invstack>>
    BY <1>7 DEF Unwind, Running, toolVars
  <2>2. stack[t] \in Seq(Frame)
    BY DEF TypeOK
  <2>3. /\ SubSeq(stack[t], 1, depth) \in Seq(Frame)
        /\ Len(SubSeq(stack[t], 1, depth)) = depth /\ L \in Nat
        /\ \A i \in 1 .. depth : SubSeq(stack[t], 1, depth)[i] = stack[t][i]
    BY <2>1, <2>2, CutFacts
  <2>4. /\ Smaller(older[t], depth) \in 0 .. StackWords
        /\ Smaller(older[t], depth) <= depth
    <3>1. older[t] \in 0 .. StackWords
      BY DEF TypeOK
    <3>2. older[t] \in Int /\ depth \in Int
      BY <3>1
    <3>3. /\ Smaller(older[t], depth) \in {older[t], depth}
          /\ Smaller(older[t], depth) <= depth
      BY <3>2, SmallerFacts
    <3> QED
      BY <1>1, <3>1, <3>3
  <2>5. TypeOK'
    BY <2>1, <2>3, <2>4 DEF TypeOK
  <2>6. Counted'
    BY <2>1 DEF RealInv, Counted
  <2>7. ASSUME NEW u \in Threads PROVE Placed(u)'
    <3>1. CASE u = t
      <4>1. stack'[t] = SubSeq(stack[t], 1, depth) /\ older'[t] = Smaller(older[t], depth)
        BY <2>1 DEF TypeOK
      <4>2. /\ depth \in Nat /\ depth <= L /\ Len(stack'[t]) = depth
            /\ \A i \in 1 .. depth : stack'[t][i] = stack[t][i]
        BY <2>1, <2>3, <4>1
      <4>3. stack'[t] # <<>>
        <5>1. Len(stack'[t]) # 0
          BY <4>2
        <5> QED
          BY <5>1
      <4>4. phase'[t] \notin {"calling", "entered"}
        BY <2>1
      <4> QED
        BY <1>2, <2>3, <2>4, <3>1, <4>1, <4>2, <4>3, <4>4, PlacedCut
    <3>2. CASE u # t
      <4>1. /\ stack'[u] = stack[u] /\ older'[u] = older[u]
            /\ u \in unwound' => u \in unwound
        BY <2>1, <3>2 DEF TypeOK
      <4> QED
        BY <1>2, <2>1, <4>1, PlacedStays
    <3> QED
      BY <3>1, <3>2
  <2> QED
    BY <2>5, <2>6, <2>7 DEF RealInv
<1>8. ASSUME UNCHANGED <<realVars, toolVars>>
      PROVE  TypeOK' /\ RealInv'
  <2>1. UNCHANGED <<stack, phase, callee, entries, unwound, older, invMap, RBPstack, invstack>>
    BY <1>8 DEF realVars, toolVars
  <2>2. TypeOK' /\ Counted'
    BY <2>1 DEF TypeOK, RealInv, Counted
  <2>3. \A u \in Threads : Placed(u)'
    BY <1>2, <2>1, PlacedStays
  <2> QED
    BY <2>2, <2>3 DEF RealInv
<1>9. ASSUME NEW t \in Threads, NEW u \in Threads, NEW d \in 1 .. StackWords,
             NEW k \in 1 .. StackWords, dataman(t, u, d, k)
      PROVE  TypeOK' /\ RealInv'
  BY <1>8, <1>9 DEF dataman
<1>10. CASE UNCHANGED vars
  BY <1>8, <1>10 DEF vars
<1> QED
  BY <1>3, <1>4, <1>5, <1>6, <1>7, <1>9, <1>10 DEF Next

\* Type correctness, for any threads, functions and frame sizes.
THEOREM TypeCorrect == Spec => []TypeOK
  BY InitTyped, NextTyped, PTL DEF Spec
-----------------------------------------------------------------------------
(* What the tool keeps *)

\* Every live frame of t is in invstack, and the frames after it there are below
\* its locals: those it called, and those that exceptions left of such.
Embedded(t) ==
    LET s == invstack[t]
    IN  /\ \A i \in 1 .. Len(s) : Within(s[i], t)
        /\ \A d \in 1 .. Len(stack[t]) : \E i \in 1 .. Len(s) :
              /\ s[i] = stack[t][d]
              /\ \A j \in i + 1 .. Len(s) : s[j].rbp < Floor(stack[t][d])

\* Every live frame is in RBPstack.
Recorded ==
    \A t \in Threads : \A d \in 1 .. Len(stack[t]) :
        /\ stack[t][d].rbp \in DOMAIN RBPstack
        /\ RBPstack[stack[t][d].rbp] = stack[t][d]

\* What is in RBPstack is on the stack of its thread.
Owned ==
    \A b \in DOMAIN RBPstack :
        /\ RBPstack[b].tid \in Threads
        /\ Bottom(RBPstack[b].tid) <= b /\ b < Base(RBPstack[b].tid)

\* It is of a live frame, unless its thread left one by an exception.
Exact ==
    \A t \in Threads \ unwound : \A b \in DOMAIN RBPstack :
        RBPstack[b].tid = t => \E d \in 1 .. Len(stack[t]) : b = stack[t][d].rbp

\* What RBPstack has of t is of frame d or of one before it, or lies below.
Clear(t, d) ==
    \A b \in DOMAIN RBPstack : RBPstack[b].tid = t =>
        \/ \E c \in 1 .. d : b = stack[t][c].rbp
        \/ b < Floor(stack[t][d])

\* So it is for the frames that are older than the exceptions of their thread.
Tidy ==
    \A t \in Threads : \A d \in 1 .. Len(stack[t]) :
        t \notin unwound \/ d <= older[t] => Clear(t, d)

ToolInv ==
    /\ InvstackTrue
    /\ \A t \in Threads : Embedded(t)
    /\ Recorded /\ Owned /\ Exact /\ Tidy

\* A word is on the stack of one thread.
LEMMA StacksApart ==
    ASSUME NEW t \in Threads, NEW u \in Threads, NEW x \in Int,
           Bottom(t) <= x, x < Base(t), Bottom(u) <= x, x < Base(u)
    PROVE  t = u
<1>1. t \in Int /\ u \in Int
  BY FrameTraceAssumption DEF Threads
<1>2. /\ Bottom(t) \in Nat /\ Base(t) \in Nat /\ Bottom(u) \in Nat /\ Base(u) \in Nat
      /\ t < u => Base(t) <= Bottom(u)
      /\ u < t => Base(u) <= Bottom(t)
  BY RegionFacts
<1>3. ~(t < u) /\ ~(u < t)
  BY <1>2
<1> QED
  BY <1>1, <1>3

\* The facts of thread t's live frames.
LEMMA LiveFacts ==
    ASSUME TypeOK, RealInv, NEW t \in Threads
    PROVE  /\ stack[t] \in Seq(Frame) /\ Len(stack[t]) \in Nat
           /\ \A d \in 1 .. Len(stack[t]) :
                 /\ Within(stack[t][d], t) /\ stack[t][d].tid = t
                 /\ stack[t][d].rbp \in Nat /\ Floor(stack[t][d]) \in Nat
                 /\ Floor(stack[t][d]) <= stack[t][d].rbp
                 /\ Bottom(t) <= Floor(stack[t][d]) /\ stack[t][d].rbp < Base(t)
                 /\ \A c \in 1 .. d - 1 :
                       /\ stack[t][d].rbp < Floor(stack[t][c])
                       /\ stack[t][d].rbp < stack[t][c].rbp
<1>1. stack[t] \in Seq(Frame) /\ Len(stack[t]) \in Nat /\ Placed(t)
  BY DEF TypeOK, RealInv
<1>2. ASSUME NEW d \in 1 .. Len(stack[t])
      PROVE  /\ Within(stack[t][d], t) /\ stack[t][d].tid = t
             /\ stack[t][d].rbp \in Nat /\ Floor(stack[t][d]) \in Nat
             /\ Floor(stack[t][d]) <= stack[t][d].rbp
             /\ Bottom(t) <= Floor(stack[t][d]) /\ stack[t][d].rbp < Base(t)
  <2>1. Within(stack[t][d], t)
    BY <1>1 DEF Placed
  <2> QED
    BY <2>1, WithinFacts DEF Within
<1>3. ASSUME NEW d \in 1 .. Len(stack[t]), NEW c \in 1 .. d - 1
      PROVE  stack[t][d].rbp < Floor(stack[t][c]) /\ stack[t][d].rbp < stack[t][c].rbp
  <2>1. c \in 1 .. Len(stack[t])
    BY <1>1
  <2>2. stack[t][d].rbp < Floor(stack[t][c])
    BY <1>1 DEF Placed
  <2> QED
    BY <1>2, <2>1, <2>2
<1> QED
  BY <1>1, <1>2, <1>3

\* The last frame the tool has is the one the thread is in, or lies below it.
LEMMA LastFacts ==
    ASSUME TypeOK, RealInv, ToolInv, NEW t \in Threads, stack[t] # <<>>
    PROVE  LET s == invstack[t]
               n == Len(s)
               L == Len(stack[t])
           IN  /\ n \in Nat \ {0} /\ s # <<>> /\ Last(s) = s[n]
               /\ L \in Nat \ {0} /\ Top(t) = stack[t][L]
               /\ Within(s[n], t)
               /\ s[n].rbp \in Nat
               /\ s[n] = stack[t][L] \/ s[n].rbp < Floor(stack[t][L])
<1> DEFINE s == invstack[t]
           n == Len(s)
           L == Len(stack[t])
<1>1. L \in Nat \ {0} /\ Last(stack[t]) = stack[t][L] /\ L \in 1 .. L
  <2>1. stack[t] \in Seq(Frame)
    BY DEF TypeOK
  <2>2. L \in Nat \ {0} /\ Last(stack[t]) = stack[t][L]
    BY <2>1, FrontFacts
  <2> QED
    BY <2>2
<1>2. Embedded(t) /\ s \in Seq(Frame) /\ n \in Nat
  BY DEF ToolInv, TypeOK
<1>3. PICK i \in 1 .. n :
        s[i] = stack[t][L] /\ \A j \in i + 1 .. n : s[j].rbp < Floor(stack[t][L])
  BY <1>1, <1>2 DEF Embedded
<1>4. n \in Nat \ {0} /\ n \in 1 .. n
  BY <1>2, <1>3
<1>5. s # <<>> /\ Last(s) = s[n]
  BY <1>2, <1>4 DEF Last
<1>6. Within(s[n], t)
  BY <1>2, <1>4 DEF Embedded
<1>7. s[n].rbp \in Nat
  BY <1>6, WithinFacts
<1>8. i = n \/ n \in i + 1 .. n
  BY <1>4
<1> QED
  BY <1>1, <1>3, <1>4, <1>5, <1>6, <1>7, <1>8 DEF Top

LEMMA InitTool == Init => ToolInv
<1> SUFFICES ASSUME Init PROVE ToolInv
  OBVIOUS
<1>1. \A t \in Threads : stack[t] = <<>> /\ invstack[t] = <<>>
  BY DEF Init
<1>2. Len(<<>>) = 0
  BY EmptySeq
<1>3. DOMAIN RBPstack = {}
  BY DEF Init, EmptyMap
<1>4. ASSUME NEW t \in Threads PROVE Embedded(t)
  BY <1>1, <1>2 DEF Embedded
<1>5. Recorded /\ Owned /\ Exact /\ InvstackTrue /\ Tidy
  BY <1>1, <1>2, <1>3 DEF Recorded, Owned, Exact, InvstackTrue, Tidy
<1> QED
  BY <1>4, <1>5 DEF ToolInv

\* Within and Floor say nothing of the state.
LEMMA PlacesStay == \A f, t : Within(f, t)' = Within(f, t) /\ Floor(f)' = Floor(f)
                              /\ Bottom(t)' = Bottom(t) /\ Base(t)' = Base(t)
  BY DEF Within, Frame, Floor, Bottom, Base

\* A thread whose frames stay, in both.
LEMMA EmbeddedStays ==
    ASSUME NEW t \in Threads, Embedded(t), stack'[t] = stack[t], invstack'[t] = invstack[t]
    PROVE  Embedded(t)'
  BY PlacesStay DEF Embedded

\* A new frame, in RBPstack.
LEMMA PushRecorded ==
    ASSUME TypeOK, RealInv, ToolInv, NEW t \in Threads, updateRBP(t)
    PROVE  Recorded' /\ Owned' /\ Exact' /\ Tidy'
<1> DEFINE L == Len(stack[t])
           f == fnlog(t, callee[t], entries[t][callee[t]], NextRbp(t))
           b == f.rbp
<1>1. /\ b = NextRbp(t) /\ f \in Frame /\ Within(f, t)
      /\ stack' = [stack EXCEPT ![t] = Append(@, f)]
      /\ RBPstack' = Insert(RBPstack, b, f)
      /\ unwound' = unwound /\ older' = older
  BY PushFacts
<1> HIDE DEF f
<1>2. /\ Len(stack'[t]) = L + 1 /\ stack'[t][L + 1] = f /\ L \in Nat
      /\ \A i \in 1 .. L : stack'[t][i] = stack[t][i]
      /\ \A u \in Threads \ {t} : stack'[u] = stack[u]
  <2>1. stack[t] \in Seq(Frame) /\ stack'[t] = Append(stack[t], f)
    BY <1>1 DEF TypeOK
  <2>2. \A u \in Threads \ {t} : stack'[u] = stack[u]
    BY <1>1 DEF TypeOK
  <2> QED
    BY <1>1, <2>1, <2>2, AppendFacts
<1>3. /\ f.tid = t /\ b \in Nat /\ Floor(f) \in Nat /\ Floor(f) <= b
      /\ Bottom(t) <= b /\ b < Base(t)
  <2>1. f.tid = t
    BY <1>1 DEF Within
  <2>2. /\ b \in Nat /\ Floor(f) \in Nat /\ Floor(f) <= b
        /\ Bottom(t) <= Floor(f) /\ b < Base(t)
    BY <1>1, WithinFacts
  <2>3. Bottom(t) \in Nat
    BY RegionFacts
  <2> QED
    BY <2>1, <2>2, <2>3
<1>4. \A d \in 1 .. L : b < Floor(stack[t][d])
  BY <1>1, NextRbpFacts
<1>5. /\ DOMAIN RBPstack' = DOMAIN RBPstack \cup {b}
      /\ RBPstack'[b] = f
      /\ \A x \in DOMAIN RBPstack : x # b => RBPstack'[x] = RBPstack[x]
  BY <1>1 DEF Insert
<1> HIDE DEF b
<1>6. ASSUME NEW u \in Threads, NEW e \in 1 .. Len(stack'[u])
      PROVE  /\ stack'[u][e].rbp \in DOMAIN RBPstack'
             /\ RBPstack'[stack'[u][e].rbp] = stack'[u][e]
  <2>1. CASE u = t /\ e = L + 1
    BY <1>2, <1>5, <2>1 DEF b
  <2>2. CASE ~(u = t /\ e = L + 1)
    <3>1. e \in 1 .. Len(stack[u]) /\ stack'[u][e] = stack[u][e]
      BY <1>2, <2>2
    <3>2. stack[u][e].rbp # b
      <4>1. /\ stack[u][e].rbp \in Nat /\ Floor(stack[u][e]) \in Nat
            /\ Floor(stack[u][e]) <= stack[u][e].rbp
            /\ Bottom(u) <= Floor(stack[u][e]) /\ stack[u][e].rbp < Base(u)
            /\ Bottom(u) \in Nat
        BY <3>1, LiveFacts, RegionFacts
      <4>2. CASE u = t
        BY <1>3, <1>4, <3>1, <4>1, <4>2
      <4>3. CASE u # t
        <5>1. Bottom(u) <= stack[u][e].rbp /\ stack[u][e].rbp \in Int
          BY <4>1
        <5> QED
          BY <1>3, <4>1, <4>3, <5>1, StacksApart
      <4> QED
        BY <4>2, <4>3
    <3>3. stack[u][e].rbp \in DOMAIN RBPstack /\ RBPstack[stack[u][e].rbp] = stack[u][e]
      BY <3>1 DEF ToolInv, Recorded
    <3> QED
      BY <1>5, <3>1, <3>2, <3>3
  <2> QED
    BY <2>1, <2>2
<1>7. ASSUME NEW x \in DOMAIN RBPstack'
      PROVE  /\ RBPstack'[x].tid \in Threads
             /\ Bottom(RBPstack'[x].tid) <= x /\ x < Base(RBPstack'[x].tid)
  <2>1. CASE x = b
    BY <1>3, <1>5, <2>1
  <2>2. CASE x # b
    BY <1>5, <2>2 DEF ToolInv, Owned
  <2> QED
    BY <2>1, <2>2
<1>8. ASSUME NEW u \in Threads \ unwound, NEW x \in DOMAIN RBPstack', RBPstack'[x].tid = u
      PROVE  \E e \in 1 .. Len(stack'[u]) : x = stack'[u][e].rbp
  <2>1. CASE x = b
    <3>1. u = t /\ L + 1 \in 1 .. Len(stack'[t])
      BY <1>2, <1>3, <1>5, <1>8, <2>1
    <3> QED
      BY <1>2, <2>1, <3>1 DEF b
  <2>2. CASE x # b
    <3>1. PICK e \in 1 .. Len(stack[u]) : x = stack[u][e].rbp
      BY <1>5, <1>8, <2>2 DEF ToolInv, Exact
    <3>2. e \in 1 .. Len(stack'[u]) /\ stack'[u][e] = stack[u][e]
      BY <1>2
    <3> QED
      BY <3>1, <3>2
  <2> QED
    BY <2>1, <2>2
<1>9. ASSUME NEW u \in Threads, NEW d \in 1 .. Len(stack'[u]), u \notin unwound \/ d <= older[u],
             NEW x \in DOMAIN RBPstack', RBPstack'[x].tid = u
      PROVE  \/ \E c \in 1 .. d : x = stack'[u][c].rbp
             \/ x < Floor(stack'[u][d])
  <2>1. CASE u = t /\ d = L + 1
    <3>1. t \notin unwound
      <4>1. t \in unwound => older[t] <= L /\ older[t] \in Int
        BY FrameTraceAssumption DEF RealInv, Placed, TypeOK
      <4> QED
        BY <1>2, <1>9, <2>1, <4>1
    <3>2. PICK e \in 1 .. Len(stack'[u]) : x = stack'[u][e].rbp
      BY <1>8, <1>9, <2>1, <3>1
    <3> QED
      BY <1>2, <2>1, <3>2
  <2>2. CASE ~(u = t /\ d = L + 1)
    <3>1. /\ d \in 1 .. Len(stack[u]) /\ stack'[u][d] = stack[u][d] /\ d \in Int
          /\ \A c \in 1 .. d : stack'[u][c] = stack[u][c]
      <4>1. CASE u = t
        <5>1. d \in 1 .. L
          BY <1>2, <2>2, <4>1
        <5>2. \A c \in 1 .. d : c \in 1 .. L
          BY <1>2, <5>1
        <5> QED
          BY <1>2, <4>1, <5>1, <5>2
      <4>2. CASE u # t
        BY <1>2, <4>2
      <4> QED
        BY <4>1, <4>2
    <3>2. CASE x = b
      <4>1. u = t
        BY <1>3, <1>5, <1>9, <3>2
      <4> QED
        BY <1>4, <3>1, <3>2, <4>1
    <3>3. CASE x # b
      <4>1. x \in DOMAIN RBPstack /\ RBPstack[x].tid = u
        BY <1>5, <1>9, <3>3
      <4>2. Clear(u, d)
        BY <1>9, <3>1 DEF ToolInv, Tidy
      <4> QED
        BY <3>1, <4>1, <4>2 DEF Clear
    <3> QED
      BY <3>2, <3>3
  <2> QED
    BY <2>1, <2>2
<1>10. Recorded'
  BY <1>6 DEF Recorded
<1>11. Owned'
  BY <1>7, PlacesStay DEF Owned
<1>12. Exact'
  BY <1>1, <1>8 DEF Exact
<1>13. Tidy'
  BY <1>1, <1>9, PlacesStay DEF Tidy, Clear
<1> QED
  BY <1>10, <1>11, <1>12, <1>13

\* A new frame, in invstack.
LEMMA PushEmbedded ==
    ASSUME TypeOK, RealInv, ToolInv, NEW t \in Threads, updateRBP(t)
    PROVE  InvstackTrue' /\ \A u \in Threads : Embedded(u)'
<1> DEFINE L == Len(stack[t])
           s == invstack[t]
           n == Len(s)
           f == fnlog(t, callee[t], entries[t][callee[t]], NextRbp(t))
<1>1. /\ f.rbp = NextRbp(t) /\ f \in Frame /\ Within(f, t)
      /\ stack' = [stack EXCEPT ![t] = Append(@, f)]
      /\ invstack' = [invstack EXCEPT ![t] = Append(@, f)]
      /\ unwound' = unwound
  BY PushFacts
<1> HIDE DEF f
<1>2. /\ stack[t] \in Seq(Frame) /\ stack'[t] = Append(stack[t], f)
      /\ s \in Seq(Frame) /\ invstack'[t] = Append(s, f)
      /\ \A u \in Threads \ {t} : stack'[u] = stack[u] /\ invstack'[u] = invstack[u]
  BY <1>1 DEF TypeOK
<1>3. InvstackTrue'
  <2> SUFFICES ASSUME NEW u \in Threads \ unwound PROVE invstack'[u] = stack'[u]
    BY <1>1 DEF InvstackTrue
  <2>1. invstack[u] = stack[u]
    BY DEF ToolInv, InvstackTrue
  <2> QED
    BY <1>2, <2>1
<1>4. /\ L \in Nat /\ Len(stack'[t]) = L + 1 /\ stack'[t][L + 1] = f
      /\ \A i \in 1 .. L : stack'[t][i] = stack[t][i]
  BY <1>1, <1>2, AppendFacts
<1>5. /\ n \in Nat /\ Len(invstack'[t]) = n + 1 /\ invstack'[t][n + 1] = f
      /\ \A i \in 1 .. n : invstack'[t][i] = s[i]
  BY <1>1, <1>2, AppendFacts
<1>6. Embedded(t)
  BY DEF ToolInv
<1>7. \A d \in 1 .. L : f.rbp < Floor(stack[t][d])
  BY <1>1, NextRbpFacts
<1> DEFINE w == invstack'[t]
<1>8. \A i \in 1 .. n + 1 : Within(w[i], t)
  <2>1. \A i \in 1 .. n + 1 : i = n + 1 \/ i \in 1 .. n
    BY <1>5
  <2>2. \A i \in 1 .. n : Within(s[i], t)
    BY <1>6 DEF Embedded
  <2> QED
    BY <1>1, <1>5, <2>1, <2>2
<1>9. ASSUME NEW d \in 1 .. L + 1
      PROVE  \E i \in 1 .. n + 1 :
                 /\ w[i] = stack'[t][d]
                 /\ \A j \in i + 1 .. n + 1 : w[j].rbp < Floor(stack'[t][d])
  <2>1. CASE d = L + 1
    <3>1. n + 1 \in 1 .. n + 1 /\ n + 1 + 1 .. n + 1 = {}
      BY <1>5
    <3> QED
      BY <1>4, <1>5, <2>1, <3>1
  <2>2. CASE d # L + 1
    <3>1. d \in 1 .. L
      BY <1>4, <2>2
    <3>2. PICK i \in 1 .. n :
            s[i] = stack[t][d] /\ \A j \in i + 1 .. n : s[j].rbp < Floor(stack[t][d])
      BY <1>6, <3>1 DEF Embedded
    <3>3. ASSUME NEW j \in i + 1 .. n + 1 PROVE w[j].rbp < Floor(stack[t][d])
      <4>1. j = n + 1 \/ (j \in i + 1 .. n /\ j \in 1 .. n)
        BY <1>5
      <4> QED
        BY <1>5, <1>7, <3>1, <3>2, <4>1
    <3>4. i \in 1 .. n + 1
      BY <1>5
    <3> QED
      BY <1>4, <1>5, <3>1, <3>2, <3>3, <3>4
  <2> QED
    BY <2>1, <2>2
<1>10. Embedded(t)'
  BY <1>4, <1>5, <1>8, <1>9, PlacesStay DEF Embedded
<1>11. ASSUME NEW u \in Threads, u # t PROVE Embedded(u)'
  <2>1. stack'[u] = stack[u] /\ invstack'[u] = invstack[u]
    BY <1>2, <1>11
  <2> QED
    BY <2>1, EmbeddedStays DEF ToolInv
<1> QED
  BY <1>3, <1>10, <1>11

\* A return takes a frame from RBPstack that is not live after it.
LEMMA PopRecorded ==
    ASSUME TypeOK, RealInv, ToolInv, NEW t \in Threads, retP(t)
    PROVE  Recorded' /\ Owned' /\ Exact' /\ Tidy'
<1> DEFINE L == Len(stack[t])
           s == invstack[t]
           n == Len(s)
           b == Last(s).rbp
<1>1. /\ stack[t] # <<>> /\ s # <<>>
      /\ stack' = [stack EXCEPT ![t] = Front(@)]
      /\ RBPstack' = Erase(RBPstack, b)
      /\ unwound' = unwound
      /\ older' = IF t \in unwound THEN [older EXCEPT ![t] = Smaller(@, L - 1)] ELSE older
  BY PopFacts
<1>2. /\ L \in Nat \ {0} /\ Len(stack'[t]) = L - 1
      /\ \A i \in 1 .. L - 1 : stack'[t][i] = stack[t][i]
      /\ \A u \in Threads \ {t} : stack'[u] = stack[u]
  <2>1. stack[t] \in Seq(Frame) /\ stack'[t] = Front(stack[t])
    BY <1>1 DEF TypeOK
  <2>2. \A u \in Threads \ {t} : stack'[u] = stack[u]
    BY <1>1 DEF TypeOK
  <2> QED
    BY <1>1, <2>1, <2>2, FrontFacts
<1>3. /\ Last(s) = s[n] /\ Within(s[n], t) /\ b \in Nat
      /\ s[n] = stack[t][L] \/ b < Floor(stack[t][L])
  BY <1>1, LastFacts
<1>4. b < Base(t) /\ Bottom(t) <= b
  <2>1. /\ Bottom(t) <= Floor(s[n]) /\ Floor(s[n]) <= s[n].rbp /\ s[n].rbp < Base(t)
        /\ Floor(s[n]) \in Nat /\ Bottom(t) \in Nat
    BY <1>3, WithinFacts, RegionFacts
  <2> QED
    BY <1>3, <2>1
<1>5. \A d \in 1 .. L - 1 : b < stack[t][d].rbp
  <2> SUFFICES ASSUME NEW d \in 1 .. L - 1 PROVE b < stack[t][d].rbp
    OBVIOUS
  <2>1. L \in 1 .. L /\ d \in 1 .. L
    BY <1>2
  <2>2. /\ stack[t][L].rbp < stack[t][d].rbp /\ stack[t][d].rbp \in Nat
        /\ stack[t][L].rbp \in Nat /\ Floor(stack[t][L]) <= stack[t][L].rbp
        /\ Floor(stack[t][L]) \in Nat
    BY <2>1, LiveFacts
  <2>3. s[n] = stack[t][L] => b = stack[t][L].rbp
    BY <1>3
  <2>4. b \in Nat /\ (b = stack[t][L].rbp \/ b < Floor(stack[t][L]))
    BY <1>3, <2>3
  <2> HIDE DEF b
  <2> QED
    BY <2>2, <2>4
<1>6. /\ DOMAIN RBPstack' = DOMAIN RBPstack \ {b}
      /\ \A x \in DOMAIN RBPstack : x # b => RBPstack'[x] = RBPstack[x]
  BY <1>1 DEF Erase
<1>7. t \notin unwound => b = stack[t][L].rbp
  <2>1. t \notin unwound => s = stack[t]
    BY DEF ToolInv, InvstackTrue
  <2> QED
    BY <1>3, <2>1
<1> HIDE DEF b, n, s
<1>8. ASSUME NEW u \in Threads, NEW e \in 1 .. Len(stack'[u])
      PROVE  e \in 1 .. Len(stack[u]) /\ stack'[u][e] = stack[u][e] /\ stack[u][e].rbp # b
  <2>1. e \in 1 .. Len(stack[u]) /\ stack'[u][e] = stack[u][e]
    BY <1>2
  <2>2. CASE u = t
    <3>1. e \in 1 .. L - 1
      BY <1>2, <2>2
    <3>2. b < stack[t][e].rbp /\ stack[t][e].rbp \in Nat
      BY <1>5, <2>1, <2>2, <3>1, LiveFacts
    <3> QED
      BY <1>3, <2>1, <2>2, <3>2
  <2>3. CASE u # t
    <3>1. /\ Bottom(u) <= Floor(stack[u][e]) /\ Floor(stack[u][e]) <= stack[u][e].rbp
          /\ stack[u][e].rbp < Base(u) /\ stack[u][e].rbp \in Nat
          /\ Floor(stack[u][e]) \in Nat /\ Bottom(u) \in Nat
      BY <2>1, LiveFacts, RegionFacts
    <3>2. Bottom(u) <= stack[u][e].rbp /\ stack[u][e].rbp \in Int
      BY <3>1
    <3> QED
      BY <1>3, <1>4, <2>1, <2>3, <3>1, <3>2, StacksApart
  <2> QED
    BY <2>2, <2>3
<1>9. Recorded'
  <2> SUFFICES ASSUME NEW u \in Threads, NEW e \in 1 .. Len(stack'[u])
               PROVE  /\ stack'[u][e].rbp \in DOMAIN RBPstack'
                      /\ RBPstack'[stack'[u][e].rbp] = stack'[u][e]
    BY DEF Recorded
  <2>1. e \in 1 .. Len(stack[u]) /\ stack'[u][e] = stack[u][e] /\ stack[u][e].rbp # b
    BY <1>8
  <2>2. stack[u][e].rbp \in DOMAIN RBPstack /\ RBPstack[stack[u][e].rbp] = stack[u][e]
    BY <2>1 DEF ToolInv, Recorded
  <2> QED
    BY <1>6, <2>1, <2>2
<1>10. Owned'
  BY <1>6, PlacesStay DEF ToolInv, Owned
<1>11. ASSUME NEW u \in Threads \ unwound, NEW x \in DOMAIN RBPstack', RBPstack'[x].tid = u
       PROVE  \E e \in 1 .. Len(stack'[u]) : x = stack'[u][e].rbp
  <2>1. x \in DOMAIN RBPstack /\ x # b /\ RBPstack[x].tid = u
    BY <1>6, <1>11
  <2>2. PICK e \in 1 .. Len(stack[u]) : x = stack[u][e].rbp
    BY <2>1 DEF ToolInv, Exact
  <2>3. CASE u = t
    <3>1. e # L
      BY <1>7, <2>1, <2>2, <2>3
    <3>2. e \in 1 .. L - 1
      BY <1>2, <2>3, <3>1
    <3> QED
      BY <1>2, <2>2, <2>3, <3>2
  <2>4. CASE u # t
    BY <1>2, <2>2, <2>4
  <2> QED
    BY <2>3, <2>4
<1>12. Exact'
  BY <1>1, <1>11 DEF Exact
<1>13. ASSUME NEW u \in Threads, NEW d \in 1 .. Len(stack'[u]),
              u \notin unwound \/ d <= older'[u],
              NEW x \in DOMAIN RBPstack', RBPstack'[x].tid = u
       PROVE  \/ \E c \in 1 .. d : x = stack'[u][c].rbp
              \/ x < Floor(stack'[u][d])
  <2>1. x \in DOMAIN RBPstack /\ RBPstack[x].tid = u
    BY <1>6, <1>13
  <2>2. /\ d \in 1 .. Len(stack[u]) /\ stack'[u][d] = stack[u][d] /\ d \in Int
        /\ \A c \in 1 .. d : c \in 1 .. Len(stack'[u])
    <3>1. Len(stack'[u]) \in Int
      BY <1>2, LiveFacts
    <3> QED
      BY <1>8, <3>1
  <2>3. \A c \in 1 .. d : stack'[u][c] = stack[u][c]
    BY <1>8, <2>2
  <2>4. u \notin unwound \/ d <= older[u]
    <3>1. CASE u \in unwound /\ u = t
      <4>1. older'[t] = Smaller(older[t], L - 1) /\ older[t] \in Int /\ L - 1 \in Int
        BY <1>1, <1>2, <3>1, FrameTraceAssumption DEF TypeOK
      <4>2. older'[t] \in {older[t], L - 1} /\ older'[t] <= older[t]
        BY <4>1, SmallerFacts
      <4>3. older'[t] \in Int
        BY <4>1, <4>2
      <4> QED
        BY <1>13, <2>2, <3>1, <4>1, <4>2, <4>3
    <3>2. CASE u # t
      <4>1. older'[u] = older[u]
        BY <1>1, <3>2 DEF TypeOK
      <4> QED
        BY <1>13, <4>1
    <3> QED
      BY <3>1, <3>2
  <2>5. Clear(u, d)
    BY <2>2, <2>4 DEF ToolInv, Tidy
  <2> QED
    BY <2>1, <2>2, <2>3, <2>5 DEF Clear
<1>14. Tidy'
  BY <1>1, <1>13, PlacesStay DEF Tidy, Clear
<1> QED
  BY <1>9, <1>10, <1>12, <1>14

\* A return takes a frame from invstack that is not live after it.
LEMMA PopEmbedded ==
    ASSUME TypeOK, RealInv, ToolInv, NEW t \in Threads, retP(t)
    PROVE  InvstackTrue' /\ \A u \in Threads : Embedded(u)'
<1> DEFINE L == Len(stack[t])
           s == invstack[t]
           n == Len(s)
           w == invstack'[t]
<1>1. /\ stack[t] # <<>> /\ s # <<>>
      /\ stack' = [stack EXCEPT ![t] = Front(@)]
      /\ invstack' = [invstack EXCEPT ![t] = Front(@)]
      /\ unwound' = unwound
  BY PopFacts
<1>2. /\ stack[t] \in Seq(Frame) /\ stack'[t] = Front(stack[t])
      /\ s \in Seq(Frame) /\ w = Front(s)
      /\ \A u \in Threads \ {t} : stack'[u] = stack[u] /\ invstack'[u] = invstack[u]
  BY <1>1 DEF TypeOK
<1>3. InvstackTrue'
  <2> SUFFICES ASSUME NEW u \in Threads \ unwound PROVE invstack'[u] = stack'[u]
    BY <1>1 DEF InvstackTrue
  <2>1. invstack[u] = stack[u]
    BY DEF ToolInv, InvstackTrue
  <2> QED
    BY <1>2, <2>1
<1>4. /\ L \in Nat \ {0} /\ Len(stack'[t]) = L - 1
      /\ \A i \in 1 .. L - 1 : stack'[t][i] = stack[t][i]
  <2>1. stack[t] # <<>> /\ stack[t] \in Seq(Frame) /\ stack'[t] = Front(stack[t])
    BY <1>1, <1>2
  <2>2. /\ L \in Nat \ {0} /\ Len(Front(stack[t])) = L - 1
        /\ \A i \in 1 .. L - 1 : Front(stack[t])[i] = stack[t][i]
    BY <2>1, FrontFacts
  <2> QED
    BY <2>1, <2>2
<1>5. /\ n \in Nat \ {0} /\ Len(w) = n - 1
      /\ \A i \in 1 .. n - 1 : w[i] = s[i]
  <2>1. s # <<>> /\ s \in Seq(Frame) /\ w = Front(s)
    BY <1>1, <1>2
  <2>2. /\ n \in Nat \ {0} /\ Len(Front(s)) = n - 1
        /\ \A i \in 1 .. n - 1 : Front(s)[i] = s[i]
    BY <2>1, FrontFacts
  <2> QED
    BY <2>1, <2>2
<1>6. s[n].rbp \in Nat /\ (s[n] = stack[t][L] \/ s[n].rbp < Floor(stack[t][L]))
  BY <1>1, LastFacts
<1>7. Embedded(t)
  BY DEF ToolInv
<1> HIDE DEF w
<1>8. \A i \in 1 .. n - 1 : Within(w[i], t)
  <2>1. \A i \in 1 .. n - 1 : i \in 1 .. n
    BY <1>5
  <2> QED
    BY <1>5, <1>7, <2>1 DEF Embedded
<1>9. ASSUME NEW d \in 1 .. L - 1
      PROVE  \E i \in 1 .. n - 1 :
                 /\ w[i] = stack'[t][d]
                 /\ \A j \in i + 1 .. n - 1 : w[j].rbp < Floor(stack'[t][d])
  <2>1. d \in 1 .. L /\ L \in 1 .. L /\ d \in 1 .. L - 1
    BY <1>4
  <2>2. PICK i \in 1 .. n :
          s[i] = stack[t][d] /\ \A j \in i + 1 .. n : s[j].rbp < Floor(stack[t][d])
    BY <1>7, <2>1 DEF Embedded
  <2>3. i # n
    <3>1. /\ stack[t][L].rbp < stack[t][d].rbp /\ stack[t][d].rbp \in Nat
          /\ stack[t][L].rbp \in Nat /\ Floor(stack[t][L]) <= stack[t][L].rbp
          /\ Floor(stack[t][L]) \in Nat
      BY <2>1, LiveFacts
    <3>2. s[n] # stack[t][d]
      BY <1>6, <3>1
    <3> QED
      BY <2>2, <3>2
  <2>4. i \in 1 .. n - 1 /\ \A j \in i + 1 .. n - 1 : j \in i + 1 .. n /\ j \in 1 .. n - 1
    BY <1>5, <2>3
  <2>5. w[i] = stack'[t][d] /\ stack'[t][d] = stack[t][d]
    BY <1>4, <1>5, <2>2, <2>4
  <2>6. \A j \in i + 1 .. n - 1 : w[j].rbp < Floor(stack'[t][d])
    BY <1>5, <2>2, <2>4, <2>5
  <2> QED
    BY <2>4, <2>5, <2>6
<1>10. Embedded(t)'
  BY <1>4, <1>5, <1>8, <1>9, PlacesStay DEF Embedded, w
<1>11. ASSUME NEW u \in Threads, u # t PROVE Embedded(u)'
  <2>1. stack'[u] = stack[u] /\ invstack'[u] = invstack[u]
    BY <1>2, <1>11
  <2> QED
    BY <2>1, EmbeddedStays DEF ToolInv
<1> QED
  BY <1>3, <1>10, <1>11

\* An exception leaves fewer frames live, and the tool's frames as they were.
LEMMA UnwindTool ==
    ASSUME TypeOK, RealInv, ToolInv, NEW t \in Threads, NEW depth, Unwind(t, depth)
    PROVE  ToolInv'
<1> DEFINE L == Len(stack[t])
<1>1. /\ depth \in 1 .. L - 1
      /\ stack' = [stack EXCEPT ![t] = SubSeq(@, 1, depth)]
      /\ unwound' = unwound \cup {t}
      /\ older' = [older EXCEPT ![t] = Smaller(@, depth)]
      /\ RBPstack' = RBPstack /\ invstack' = invstack
  BY DEF Unwind, toolVars
<1>2. /\ stack[t] \in Seq(Frame) /\ stack'[t] = SubSeq(stack[t], 1, depth)
      /\ \A u \in Threads \ {t} : stack'[u] = stack[u] /\ older'[u] = older[u]
      /\ older'[t] = Smaller(older[t], depth)
  BY <1>1 DEF TypeOK
<1>3. /\ L \in Nat /\ Len(stack'[t]) = depth
      /\ \A i \in 1 .. depth : i \in 1 .. L /\ stack'[t][i] = stack[t][i]
  BY <1>1, <1>2, CutFacts
<1>4. ASSUME NEW u \in Threads, NEW d \in 1 .. Len(stack'[u])
      PROVE  /\ d \in 1 .. Len(stack[u])
             /\ \A c \in 1 .. d : stack'[u][c] = stack[u][c]
             /\ stack'[u][d] = stack[u][d] /\ d \in Int
  <2>1. CASE u = t
    <3>1. d \in 1 .. depth /\ \A c \in 1 .. d : c \in 1 .. depth
      BY <1>1, <1>3, <2>1
    <3> QED
      BY <1>3, <2>1, <3>1
  <2>2. CASE u # t
    BY <1>2, <2>2
  <2> QED
    BY <2>1, <2>2
<1>5. InvstackTrue'
  BY <1>1, <1>2 DEF ToolInv, InvstackTrue
<1>6. ASSUME NEW u \in Threads PROVE Embedded(u)'
  <2>1. Embedded(u) /\ invstack'[u] = invstack[u]
    BY <1>1 DEF ToolInv
  <2>2. \A d \in 1 .. Len(stack'[u]) :
            d \in 1 .. Len(stack[u]) /\ stack'[u][d] = stack[u][d]
    BY <1>4
  <2> DEFINE r == invstack[u]
  <2>3. \A d \in 1 .. Len(stack'[u]) : \E i \in 1 .. Len(r) :
           /\ r[i] = stack'[u][d]
           /\ \A j \in i + 1 .. Len(r) : r[j].rbp < Floor(stack'[u][d])
    <3> SUFFICES ASSUME NEW d \in 1 .. Len(stack'[u])
                 PROVE  \E i \in 1 .. Len(r) :
                           /\ r[i] = stack'[u][d]
                           /\ \A j \in i + 1 .. Len(r) : r[j].rbp < Floor(stack'[u][d])
      OBVIOUS
    <3>1. d \in 1 .. Len(stack[u]) /\ stack'[u][d] = stack[u][d]
      BY <2>2
    <3>2. PICK i \in 1 .. Len(r) :
            /\ r[i] = stack[u][d]
            /\ \A j \in i + 1 .. Len(r) : r[j].rbp < Floor(stack[u][d])
      BY <2>1, <3>1 DEF Embedded
    <3> QED
      BY <3>1, <3>2
  <2>4. \A i \in 1 .. Len(r) : Within(r[i], u)
    BY <2>1 DEF Embedded
  <2> HIDE DEF r
  <2>5. invstack'[u] = r
    BY <2>1 DEF r
  <2> QED
    BY <2>3, <2>4, <2>5, PlacesStay DEF Embedded
<1>7. Recorded'
  BY <1>1, <1>4 DEF ToolInv, Recorded
<1>8. Owned'
  BY <1>1, PlacesStay DEF ToolInv, Owned
<1>9. Exact'
  BY <1>1, <1>2 DEF ToolInv, Exact
<1>10. ASSUME NEW u \in Threads, NEW d \in 1 .. Len(stack'[u]),
              u \notin unwound' \/ d <= older'[u],
              NEW x \in DOMAIN RBPstack, RBPstack[x].tid = u
       PROVE  \/ \E c \in 1 .. d : x = stack'[u][c].rbp
              \/ x < Floor(stack'[u][d])
  <2>1. u \notin unwound \/ d <= older[u]
    <3>1. CASE u = t
      <4>1. older[t] \in Int /\ depth \in Int
        <5>1. older[t] \in 0 .. StackWords /\ StackWords \in Nat
          BY FrameTraceAssumption DEF TypeOK
        <5> QED
          BY <1>1, <1>3, <5>1
      <4>2. older'[t] \in {older[t], depth} /\ older'[t] <= older[t]
        BY <1>2, <4>1, SmallerFacts
      <4>3. d <= older'[t] /\ d \in Int /\ older'[t] \in Int
        BY <1>1, <1>4, <1>10, <3>1, <4>1, <4>2
      <4> QED
        BY <3>1, <4>1, <4>2, <4>3
    <3>2. CASE u # t
      BY <1>1, <1>2, <1>10, <3>2
    <3> QED
      BY <3>1, <3>2
  <2>2. d \in 1 .. Len(stack[u])
    BY <1>4
  <2>3. Clear(u, d)
    BY <2>1, <2>2 DEF ToolInv, Tidy
  <2> QED
    BY <1>4, <1>10, <2>3 DEF Clear
<1>11. Tidy'
  BY <1>1, <1>10, PlacesStay DEF Tidy, Clear
<1> QED
  BY <1>5, <1>6, <1>7, <1>8, <1>9, <1>11 DEF ToolInv

LEMMA NextTool == TypeOK /\ RealInv /\ ToolInv /\ [Next]_vars => ToolInv'
<1> SUFFICES ASSUME TypeOK, RealInv, ToolInv, [Next]_vars PROVE ToolInv'
  OBVIOUS
<1>1. ASSUME UNCHANGED <<stack, RBPstack, invstack, unwound, older>> PROVE ToolInv'
  <2>1. \A t \in Threads : Embedded(t)'
    BY <1>1, EmbeddedStays DEF ToolInv
  <2>2. InvstackTrue' /\ Recorded' /\ Exact'
    BY <1>1 DEF ToolInv, InvstackTrue, Recorded, Exact
  <2>3. Owned' /\ Tidy'
    BY <1>1, PlacesStay DEF ToolInv, Owned, Tidy, Clear
  <2> QED
    BY <2>1, <2>2, <2>3 DEF ToolInv
<1>2. ASSUME NEW t \in Threads, NEW g \in Functions, callP(t, g) PROVE ToolInv'
  BY <1>1, <1>2 DEF callP, toolVars
<1>3. ASSUME NEW t \in Threads, invP(t) PROVE ToolInv'
  BY <1>1, <1>3 DEF invP
<1>4. ASSUME NEW t \in Threads, updateRBP(t) PROVE ToolInv'
  BY <1>4, PushRecorded, PushEmbedded DEF ToolInv
<1>5. ASSUME NEW t \in Threads, retP(t) PROVE ToolInv'
  BY <1>5, PopRecorded, PopEmbedded DEF ToolInv
<1>6. ASSUME NEW t \in Threads, NEW depth \in 1 .. StackWords, Unwind(t, depth) PROVE ToolInv'
  BY <1>6, UnwindTool
<1>7. ASSUME NEW t \in Threads, NEW u \in Threads, NEW d \in 1 .. StackWords,
             NEW k \in 1 .. StackWords, dataman(t, u, d, k)
      PROVE  ToolInv'
  BY <1>1, <1>7 DEF dataman, realVars, toolVars
<1>8. CASE UNCHANGED vars
  BY <1>1, <1>8 DEF vars, realVars, toolVars
<1> QED
  BY <1>2, <1>3, <1>4, <1>5, <1>6, <1>7, <1>8 DEF Next

\* The three invariants hold together.
THEOREM FramesInvariant == Spec => [](TypeOK /\ RealInv /\ ToolInv)
  BY InitTyped, InitTool, NextTyped, NextTool, PTL DEF Spec

\* For any threads and functions: until a thread leaves frames by an exception,
\* the frames the tool has for it are the frames it has, whatever the others do.
THEOREM InvstackIsTrue == Spec => []InvstackTrue
<1>1. ToolInv => InvstackTrue
  BY DEF ToolInv
<1> QED
  BY <1>1, FramesInvariant, PTL

\* retP and dataman call back() on an invstack that is not empty, after
\* exceptions too.
THEOREM BackIsDefined == Spec => [](\A t \in Threads : Running(t) => invstack[t] # <<>>)
<1>1. TypeOK /\ RealInv /\ ToolInv => \A t \in Threads : Running(t) => invstack[t] # <<>>
  <2> SUFFICES ASSUME TypeOK, RealInv, ToolInv, NEW t \in Threads, Running(t)
               PROVE  invstack[t] # <<>>
    OBVIOUS
  <2>1. stack[t] # <<>>
    BY DEF Running, RealInv, Placed
  <2> QED
    BY <2>1, LastFacts
<1> QED
  BY <1>1, FramesInvariant, PTL

\* Until then its frames in RBPstack, which all threads share, are those it has.
THEOREM RBPstackIsTrue == Spec => []RBPstackTrue
<1>1. TypeOK /\ RealInv /\ ToolInv => RBPstackTrue
  <2> SUFFICES ASSUME TypeOK, RealInv, ToolInv, NEW t \in Threads \ unwound
               PROVE  {b \in DOMAIN RBPstack : RBPstack[b].tid = t}
                        = {stack[t][d].rbp : d \in DOMAIN stack[t]}
    BY DEF RBPstackTrue
  <2>1. DOMAIN stack[t] = 1 .. Len(stack[t])
    BY DEF TypeOK
  <2>2. \A d \in DOMAIN stack[t] :
            stack[t][d].rbp \in DOMAIN RBPstack /\ RBPstack[stack[t][d].rbp].tid = t
    BY <2>1, LiveFacts DEF ToolInv, Recorded
  <2>3. \A b \in DOMAIN RBPstack :
            RBPstack[b].tid = t => \E d \in DOMAIN stack[t] : b = stack[t][d].rbp
    BY <2>1 DEF ToolInv, Exact
  <2> QED
    BY <2>2, <2>3
<1> QED
  BY <1>1, FramesInvariant, PTL
-----------------------------------------------------------------------------
(* Accesses *)

\* In locals of one word each, a word is found if it is one of them.
LEMMA LookupFacts ==
    ASSUME NEW n \in Nat, NEW a \in Nat
    PROVE  lookup([offset \in 1 .. n |-> [size |-> 1]], a) # NoKey <=> a \in 1 .. n
<1> DEFINE m == [offset \in 1 .. n |-> [size |-> 1]]
           B == Below(m, a)
<1>1. DOMAIN m = 1 .. n /\ \A x \in 1 .. n : m[x].size = 1
  OBVIOUS
<1> HIDE DEF m
<1>2. B = {x \in 1 .. n : x <= a}
  BY <1>1 DEF Below
<1> HIDE DEF B
<1>3. CASE B = {}
  <2>1. lookup(m, a) = NoKey
    BY <1>3 DEF lookup, B
  <2>2. a \notin 1 .. n
    BY <1>2, <1>3
  <2> QED
    BY <2>1, <2>2 DEF m
<1>4. CASE B # {}
  <2> DEFINE q == IF a <= n THEN a ELSE n
             k == FloorKey(m, a)
  <2>1. q \in B /\ q \in 1 .. n /\ \A y \in B : y <= q /\ y \in Int
    BY <1>2, <1>4
  <2>2. k \in B /\ \A y \in B : y <= k
    BY <2>1 DEF FloorKey, B
  <2>3. k = q
    <3>1. q <= k /\ k <= q /\ k \in Int /\ q \in Int
      BY <2>1, <2>2
    <3> HIDE DEF q, k
    <3> QED
      BY <3>1
  <2>4. Unsigned(m[k].size) = 1
    BY <1>1, <2>1, <2>3 DEF Unsigned
  <2>5. lookup(m, a) = IF 1 > a - k THEN k ELSE NoKey
    BY <1>4, <2>4 DEF lookup, B
  <2>6. 1 > a - q <=> a \in 1 .. n
    BY <2>1
  <2>7. q # NoKey
    BY <2>1 DEF NoKey
  <2> HIDE DEF q, k
  <2> QED
    BY <2>3, <2>5, <2>6, <2>7 DEF m
<1> QED
  BY <1>3, <1>4

\* A word is found in a frame if it is one of its locals.
LEMMA FoundFacts ==
    ASSUME NEW t \in Threads, NEW f, Within(f, t),
           NEW addr \in Nat, addr + StackWords < Word
    PROVE  Found(f, addr) <=> Floor(f) <= addr /\ addr < f.rbp
<1> DEFINE n == FrameSize[f.fname]
           a == Unsigned(f.rbp - addr)
<1>1. /\ f.rbp \in Nat /\ n \in Nat /\ Floor(f) = f.rbp - n /\ Floor(f) \in Nat
      /\ Bottom(t) <= Floor(f) /\ Floor(f) >= 1 /\ f.rbp < Base(t)
  BY WithinFacts
<1>2. /\ StackWords \in Nat /\ Word \in Nat /\ Bottom(t) \in Nat
      /\ Base(t) = Bottom(t) + StackWords
  BY RegionFacts
<1>3. n <= StackWords
  BY <1>1, <1>2
<1>4. f # NoFrame
  <2>1. NoFrame.rbp = 0
    BY DEF NoFrame, fnlog
  <2> QED
    BY <1>1, <2>1
<1> HIDE DEF n
<1>5. CASE addr <= f.rbp
  <2>1. a = f.rbp - addr /\ a \in Nat
    BY <1>1, <1>5 DEF Unsigned
  <2>2. a \in 1 .. n <=> Floor(f) <= addr /\ addr < f.rbp
    BY <1>1, <1>5, <2>1
  <2>3. lookup(funcLocalMap(f.fname), a) # NoKey <=> a \in 1 .. n
    BY <1>1, <2>1, LookupFacts DEF funcLocalMap, n
  <2> QED
    BY <1>4, <2>2, <2>3 DEF Found
<1>6. CASE addr > f.rbp
  <2>1. a = f.rbp - addr + Word
    BY <1>1, <1>6 DEF Unsigned
  <2>2. a \in Nat /\ a > n
    BY <1>1, <1>2, <1>3, <2>1
  <2>3. lookup(funcLocalMap(f.fname), a) # NoKey <=> a \in 1 .. n
    BY <1>1, <2>2, LookupFacts DEF funcLocalMap, n
  <2>4. ~(a \in 1 .. n) /\ ~(addr < f.rbp)
    BY <1>1, <1>6, <2>2
  <2> QED
    BY <2>3, <2>4 DEF Found
<1> QED
  BY <1>1, <1>5, <1>6

\* Above a local of a frame with nothing left over it there is no nearer frame.
LEMMA FrameOfClear ==
    ASSUME TypeOK, RealInv, ToolInv, NEW u \in Threads, NEW d \in 1 .. Len(stack[u]),
           Clear(u, d), NEW addr \in Nat,
           Floor(stack[u][d]) <= addr, addr < stack[u][d].rbp
    PROVE  FrameOf(addr) = stack[u][d]
<1> DEFINE e == stack[u][d]
           A == Above(RBPstack, addr)
<1>1. /\ e.rbp \in DOMAIN RBPstack /\ RBPstack[e.rbp] = e
  BY DEF ToolInv, Recorded
<1>2. /\ e.rbp \in Nat /\ Floor(e) \in Nat /\ Bottom(u) <= Floor(e) /\ e.rbp < Base(u)
      /\ \A c \in 1 .. d - 1 : e.rbp < stack[u][c].rbp
      /\ d \in Int
  <2>1. Len(stack[u]) \in Nat
    BY LiveFacts
  <2> QED
    BY <2>1, LiveFacts
<1>3. \A x \in DOMAIN RBPstack : x \in Int
  BY FrameTraceAssumption DEF TypeOK
<1>4. e.rbp \in A
  BY <1>1 DEF Above
<1>5. ASSUME NEW y \in A PROVE y \in Int /\ e.rbp <= y
  <2> DEFINE v == RBPstack[y].tid
  <2>1. y \in DOMAIN RBPstack /\ addr < y /\ y \in Int
    BY <1>3 DEF Above
  <2>2. v \in Threads /\ Bottom(v) <= y /\ y < Base(v)
    BY <2>1 DEF ToolInv, Owned
  <2>3. CASE v = u
    <3>1. CASE \E c \in 1 .. d : y = stack[u][c].rbp
      <4>1. PICK c \in 1 .. d : y = stack[u][c].rbp
        BY <3>1
      <4>2. c = d \/ c \in 1 .. d - 1
        BY <1>2
      <4>3. c \in 1 .. d - 1 => e.rbp < y
        BY <1>2, <4>1
      <4> QED
        BY <1>2, <2>1, <4>1, <4>2, <4>3
    <3>2. CASE y < Floor(e)
      BY <1>2, <2>1, <3>2
    <3> QED
      BY <2>1, <2>3, <3>1, <3>2 DEF Clear
  <2>4. CASE v # u
    <3> HIDE DEF v, e
    <3>1. v \in Int /\ u \in Int
      BY <2>2, FrameTraceAssumption DEF Threads
    <3>2. /\ v < u => Base(v) <= Bottom(u)
          /\ u < v => Base(u) <= Bottom(v)
          /\ Base(v) \in Int /\ Bottom(v) \in Int /\ Base(u) \in Int /\ Bottom(u) \in Int
      <4>1. Base(v) = Bottom(v) + StackWords /\ Bottom(v) \in Nat /\ StackWords \in Nat
        BY <2>2, RegionFacts
      <4>2. Base(u) = Bottom(u) + StackWords /\ Bottom(u) \in Nat
        BY RegionFacts
      <4>3. (v < u => Base(v) <= Bottom(u)) /\ (u < v => Base(u) <= Bottom(v))
        BY <2>2, RegionFacts
      <4> QED
        BY <4>1, <4>2, <4>3
    <3>3. CASE v < u
      BY <1>2, <2>1, <2>2, <3>2, <3>3 DEF e
    <3>4. CASE u < v
      BY <1>2, <2>1, <2>2, <3>2, <3>4
    <3> QED
      BY <2>4, <3>1, <3>3, <3>4
  <2> QED
    BY <2>3, <2>4
<1> HIDE DEF e, A
<1>6. /\ CeilKey(RBPstack, addr) \in A
      /\ \A y \in A : CeilKey(RBPstack, addr) <= y
  BY <1>4, <1>5 DEF CeilKey, A
<1>7. CeilKey(RBPstack, addr) = e.rbp
  <2>1. /\ CeilKey(RBPstack, addr) <= e.rbp /\ e.rbp <= CeilKey(RBPstack, addr)
        /\ CeilKey(RBPstack, addr) \in Int
    BY <1>4, <1>5, <1>6
  <2> QED
    BY <1>2, <2>1
<1> QED
  BY <1>1, <1>4, <1>7 DEF FrameOf, A, e

\* A local of a live frame is in the last frame the tool has only if that is it.
LEMMA OwnFacts ==
    ASSUME TypeOK, RealInv, ToolInv, NEW t \in Threads, stack[t] # <<>>,
           NEW u \in Threads, NEW d \in 1 .. Len(stack[u]), NEW addr \in Nat,
           Floor(stack[u][d]) <= addr, addr < stack[u][d].rbp,
           Floor(Last(invstack[t])) <= addr, addr < Last(invstack[t]).rbp
    PROVE  u = t /\ d = Len(stack[t]) /\ Last(invstack[t]) = stack[u][d]
<1> DEFINE e == stack[u][d]
           L == Len(stack[t])
           o == Last(invstack[t])
<1>1. /\ L \in Nat \ {0} /\ L \in 1 .. L /\ Within(o, t)
      /\ o = stack[t][L] \/ o.rbp < Floor(stack[t][L])
  BY LastFacts
<1>2. /\ o.rbp \in Nat /\ Floor(o) \in Nat /\ Bottom(t) <= Floor(o) /\ o.rbp < Base(t)
  BY <1>1, WithinFacts
<1>3. /\ e.rbp \in Nat /\ Floor(e) \in Nat /\ Bottom(u) <= Floor(e) /\ e.rbp < Base(u)
  BY LiveFacts
<1> HIDE DEF o
<1>4. u = t
  <2>1. /\ Bottom(t) \in Nat /\ Base(t) \in Nat /\ Bottom(u) \in Nat /\ Base(u) \in Nat
    BY RegionFacts
  <2>2. Bottom(t) <= addr /\ addr < Base(t) /\ Bottom(u) <= addr /\ addr < Base(u)
    BY <1>2, <1>3, <2>1 DEF o
  <2> QED
    BY <2>2, StacksApart
<1>5. /\ stack[t][L].rbp \in Nat /\ Floor(stack[t][L]) \in Nat
      /\ Floor(stack[t][L]) <= stack[t][L].rbp
      /\ d < L => stack[t][L].rbp < Floor(e)
  <2>1. d \in Int
    BY <1>1, <1>4
  <2>2. d < L => d \in 1 .. L - 1
    BY <1>1, <2>1
  <2> QED
    BY <1>1, <1>4, <2>2, LiveFacts
<1>6. d = L
  <2>1. addr < o.rbp
    BY DEF o
  <2>2. ~(d < L)
    <3>1. CASE o = stack[t][L]
      BY <1>2, <1>3, <1>5, <2>1, <3>1
    <3>2. CASE o.rbp < Floor(stack[t][L])
      BY <1>2, <1>3, <1>5, <2>1, <3>2
    <3> QED
      BY <1>1, <3>1, <3>2
  <2> QED
    BY <1>1, <1>4, <2>2
<1>7. o = stack[t][L]
  <2>1. addr < o.rbp /\ Floor(stack[t][L]) <= addr
    BY <1>4, <1>6 DEF o
  <2> QED
    BY <1>1, <1>2, <1>5, <2>1
<1> QED
  BY <1>4, <1>6, <1>7 DEF o

\* What is printed of an access: LOCAL only for the frame the thread is in, and
\* always for it if it left none by an exception; and the frame that is meant, if
\* that is older than the exceptions of its thread.
LEMMA DatamanFacts ==
    ASSUME TypeOK, RealInv, ToolInv, NEW t \in Threads, NEW u \in Threads,
           NEW d, NEW k, dataman(t, u, d, k)
    PROVE  LET e == stack[u][d]
               own == u = t /\ d = Len(stack[t])
               old == u \notin unwound \/ d <= older[u]
           IN  /\ line'.event \in {"ACCESS", "MISSED"} /\ line'.tid = t
               /\ old => line'.event = "ACCESS" /\ line'.owner = e
               /\ line'.VARCLASS = "LOCAL" => own /\ line'.owner = e
               /\ t \notin unwound /\ own => line'.VARCLASS = "LOCAL"
               /\ meant' = Meant(e, own, old)
<1> DEFINE e == stack[u][d]
           addr == e.rbp - k
           o == Last(invstack[t])
           i == invMap[Top(t).fname][t]
           own == u = t /\ d = Len(stack[t])
           old == u \notin unwound \/ d <= older[u]
<1>1. /\ Running(t) /\ d \in DOMAIN stack[u] /\ k \in DOMAIN funcLocalMap(e.fname)
      /\ line' = IF Found(o, addr) THEN Line("ACCESS", t, i, "LOCAL", o)
                 ELSE IF Found(FrameOf(addr), addr)
                 THEN Line("ACCESS", t, i, "NONLOCAL", FrameOf(addr))
                 ELSE Line("MISSED", t, i, "", NoFrame)
      /\ meant' = Meant(e, own, old)
  BY DEF dataman
<1>2. d \in 1 .. Len(stack[u]) /\ stack[t] # <<>>
  <2>1. DOMAIN stack[u] = 1 .. Len(stack[u])
    BY DEF TypeOK
  <2>2. stack[t] # <<>>
    BY <1>1 DEF Running, RealInv, Placed
  <2> QED
    BY <1>1, <2>1, <2>2
<1>3. Within(e, u) /\ Within(o, t)
  BY <1>2, LiveFacts, LastFacts
<1>4. addr \in Nat /\ Floor(e) <= addr /\ addr < e.rbp /\ addr + StackWords < Word
  <2>1. /\ e.rbp \in Nat /\ FrameSize[e.fname] \in Nat
        /\ Floor(e) \in Nat /\ Floor(e) = e.rbp - FrameSize[e.fname]
        /\ e.rbp + StackWords < Word
    BY <1>3, WithinFacts
  <2>2. k \in 1 .. FrameSize[e.fname]
    BY <1>1 DEF funcLocalMap
  <2>3. Word \in Nat /\ StackWords \in Nat
    BY FrameTraceAssumption
  <2> QED
    BY <2>1, <2>2, <2>3
<1>5. Found(e, addr)
  BY <1>3, <1>4, FoundFacts
<1>6. ASSUME Found(o, addr) PROVE own /\ o = e
  <2>1. Floor(o) <= addr /\ addr < o.rbp
    BY <1>3, <1>4, <1>6, FoundFacts
  <2> QED
    BY <1>2, <1>4, <2>1, OwnFacts
<1>7. ASSUME t \notin unwound, own PROVE Found(o, addr)
  <2>1. o = e
    BY <1>7 DEF ToolInv, InvstackTrue, Last
  <2> QED
    BY <1>5, <2>1
<1>8. ASSUME old PROVE FrameOf(addr) = e
  <2>1. Clear(u, d)
    BY <1>2, <1>8 DEF ToolInv, Tidy
  <2> QED
    BY <1>2, <1>4, <2>1, FrameOfClear
<1> HIDE DEF e, o, i, own, old, addr
<1>9. CASE Found(o, addr)
  <2>1. line' = Line("ACCESS", t, i, "LOCAL", e) /\ own
    BY <1>1, <1>6, <1>9
  <2>2. /\ line'.event = "ACCESS" /\ line'.tid = t /\ line'.owner = e
        /\ line'.VARCLASS = "LOCAL"
    BY <2>1 DEF Line
  <2> QED
    BY <1>1, <2>1, <2>2 DEF e, own, old
<1>10. CASE ~Found(o, addr)
  <2>1. ~(t \notin unwound /\ own)
    BY <1>7, <1>10
  <2>2. CASE Found(FrameOf(addr), addr)
    <3>1. line' = Line("ACCESS", t, i, "NONLOCAL", FrameOf(addr))
      BY <1>1, <1>10, <2>2
    <3>2. /\ line'.event = "ACCESS" /\ line'.tid = t /\ line'.owner = FrameOf(addr)
          /\ line'.VARCLASS = "NONLOCAL"
      BY <3>1 DEF Line
    <3> QED
      BY <1>1, <1>8, <2>1, <3>2 DEF e, own, old
  <2>3. CASE ~Found(FrameOf(addr), addr)
    <3>1. line' = Line("MISSED", t, i, "", NoFrame)
      BY <1>1, <1>10, <2>3
    <3>2. line'.event = "MISSED" /\ line'.tid = t /\ line'.VARCLASS = ""
      BY <3>1 DEF Line
    <3>3. ~old
      BY <1>5, <1>8, <2>3
    <3> QED
      BY <1>1, <2>1, <3>2, <3>3 DEF e, own, old
  <2> QED
    BY <2>2, <2>3
<1> QED
  BY <1>9, <1>10

AccessInv == AccessAttributed /\ LocalMeansOwn

LEMMA NextAccess == TypeOK /\ RealInv /\ ToolInv /\ AccessInv /\ [Next]_vars => AccessInv'
<1> SUFFICES ASSUME TypeOK, RealInv, ToolInv, AccessInv, [Next]_vars PROVE AccessInv'
  OBVIOUS
<1>1. ASSUME UNCHANGED <<line, meant>>, unwound \subseteq unwound' PROVE AccessInv'
  BY <1>1 DEF AccessInv, AccessAttributed, LocalMeansOwn
<1>2. ASSUME NEW t \in Threads, NEW g \in Functions, callP(t, g) PROVE AccessInv'
  <2>1. line'.event = "CALL"
    BY <1>2 DEF callP, Line
  <2> QED
    BY <2>1 DEF AccessInv, AccessAttributed, LocalMeansOwn
<1>3. ASSUME NEW t \in Threads, invP(t) \/ updateRBP(t) \/ retP(t) PROVE AccessInv'
  BY <1>1, <1>3 DEF invP, updateRBP, retP, outVars
<1>4. ASSUME NEW t \in Threads, NEW depth \in 1 .. StackWords, Unwind(t, depth) PROVE AccessInv'
  BY <1>1, <1>4 DEF Unwind, outVars
<1>5. ASSUME NEW t \in Threads, NEW u \in Threads, NEW d \in 1 .. StackWords,
             NEW k \in 1 .. StackWords, dataman(t, u, d, k)
      PROVE  AccessInv'
  <2> DEFINE e == stack[u][d]
             own == u = t /\ d = Len(stack[t])
             old == u \notin unwound \/ d <= older[u]
  <2>1. /\ line'.event \in {"ACCESS", "MISSED"} /\ line'.tid = t
        /\ old => line'.event = "ACCESS" /\ line'.owner = e
        /\ line'.VARCLASS = "LOCAL" => own /\ line'.owner = e
        /\ t \notin unwound /\ own => line'.VARCLASS = "LOCAL"
        /\ meant' = Meant(e, own, old)
    BY <1>5, DatamanFacts
  <2>2. meant'.frame = e /\ meant'.own = own /\ meant'.old = old
    BY <2>1 DEF Meant
  <2>3. unwound' = unwound
    BY <1>5 DEF dataman, realVars
  <2> HIDE DEF e, own, old
  <2>4. AccessAttributed'
    BY <2>1, <2>2 DEF AccessAttributed
  <2>5. LocalMeansOwn'
    BY <2>1, <2>2, <2>3 DEF LocalMeansOwn
  <2> QED
    BY <2>4, <2>5 DEF AccessInv
<1>6. CASE UNCHANGED vars
  BY <1>1, <1>6 DEF vars, realVars, outVars
<1> QED
  BY <1>2, <1>3, <1>4, <1>5, <1>6 DEF Next

LEMMA AccessInvariant == Spec => []AccessInv
<1>1. Init => AccessInv
  <2>1. Init => line = Line("START", 0, 0, "", NoFrame) /\ meant = Meant(NoFrame, FALSE, FALSE)
    BY DEF Init
  <2>2. Line("START", 0, 0, "", NoFrame).event = "START"
    BY DEF Line
  <2> QED
    BY <2>1, <2>2 DEF AccessInv, AccessAttributed, LocalMeansOwn
<1> QED
  BY <1>1, NextAccess, FramesInvariant, PTL DEF Spec

\* For any sizes of frames: an access to a local of a live frame, of any thread, is
\* printed and attributed to that frame if the frame is older than every exception
\* of its thread; one printed as LOCAL is attributed so whatever exceptions left in
\* invstack and RBPstack.
THEOREM AccessesAreAttributed == Spec => []AccessAttributed
<1>1. AccessInv => AccessAttributed
  BY DEF AccessInv
<1> QED
  BY <1>1, AccessInvariant, PTL

\* LOCAL is an access to the frame of the accessing function and no other, after
\* exceptions too; such an access is LOCAL until the thread has left a frame so.
THEOREM LocalIsOwn == Spec => []LocalMeansOwn
<1>1. AccessInv => LocalMeansOwn
  BY DEF AccessInv
<1> QED
  BY <1>1, AccessInvariant, PTL
-----------------------------------------------------------------------------
(* Invocations *)

\* Sets of functions that call only each other.
Closed(S) == \A g \in S : Calls[g] \subseteq S

\* What a frame's function may call, in any number of calls, has the functions
\* of all frames after it and the one being called.
Descends(t) ==
    /\ \A d \in 1 .. Len(stack[t]) : stack[t][d].fname \in Functions
    /\ \A d \in 1 .. Len(stack[t]), S \in SUBSET Functions :
        Closed(S) /\ Calls[stack[t][d].fname] \subseteq S =>
            /\ \A e \in d + 1 .. Len(stack[t]) : stack[t][e].fname \in S
            /\ phase[t] \in {"calling", "entered"} => callee[t] \in S

\* The count of a function that is not recursive is that of its frame.
Current(t) ==
    \A d \in 1 .. Len(stack[t]) :
        NotRecursive(stack[t][d].fname) =>
            invMap[stack[t][d].fname][t] = stack[t][d].invNo

CallInv == \A t \in Threads : Descends(t) /\ Current(t)

\* A thread whose stack is cut calls nothing.
LEMMA CutCalls ==
    ASSUME CallInv, NEW t \in Threads, NEW n \in Nat, n <= Len(stack[t]), Len(stack[t]) \in Nat,
           Len(stack'[t]) = n, \A i \in 1 .. n : stack'[t][i] = stack[t][i],
           phase'[t] \notin {"calling", "entered"}, invMap' = invMap
    PROVE  Descends(t)' /\ Current(t)'
<1>1. \A i \in 1 .. n : i \in 1 .. Len(stack[t])
  OBVIOUS
<1>2. Descends(t) /\ Current(t)
  BY DEF CallInv
<1>3. Current(t)'
  BY <1>1, <1>2 DEF Current, NotRecursive
<1>4. ASSUME NEW d \in 1 .. n, NEW S \in SUBSET Functions, Closed(S),
             Calls[stack'[t][d].fname] \subseteq S, NEW e \in d + 1 .. n
      PROVE  stack'[t][e].fname \in S
  <2>1. d \in 1 .. Len(stack[t]) /\ e \in d + 1 .. Len(stack[t]) /\ e \in 1 .. n
    OBVIOUS
  <2> QED
    BY <1>2, <1>4, <2>1 DEF Descends
<1>5. \A d \in 1 .. n : stack'[t][d].fname \in Functions
  BY <1>1, <1>2 DEF Descends
<1> QED
  BY <1>3, <1>4, <1>5 DEF Descends, Closed

LEMMA PushCalls ==
    ASSUME TypeOK, RealInv, CallInv, NEW t \in Threads, updateRBP(t)
    PROVE  Descends(t)' /\ Current(t)'
<1> DEFINE L == Len(stack[t])
           f == fnlog(t, callee[t], entries[t][callee[t]], NextRbp(t))
<1>1. /\ f \in Frame /\ stack' = [stack EXCEPT ![t] = Append(@, f)]
      /\ phase[t] = "entered" /\ phase' = [phase EXCEPT ![t] = "running"]
      /\ invMap' = invMap
  BY PushFacts
<1>2. f.fname = callee[t] /\ f.invNo = entries[t][callee[t]] /\ callee[t] \in Functions
  BY DEF fnlog, TypeOK
<1> HIDE DEF f
<1>3. /\ L \in Nat /\ Len(stack'[t]) = L + 1 /\ stack'[t][L + 1] = f
      /\ \A i \in 1 .. L : stack'[t][i] = stack[t][i]
  <2>1. stack[t] \in Seq(Frame) /\ stack'[t] = Append(stack[t], f)
    BY <1>1 DEF TypeOK
  <2> QED
    BY <1>1, <2>1, AppendFacts
<1>4. Descends(t) /\ Current(t) /\ phase'[t] = "running"
  BY <1>1 DEF CallInv, TypeOK
<1>5. \A d \in 1 .. L + 1 : d \in 1 .. L \/ d = L + 1
  BY <1>3
<1>6. \A d \in 1 .. L + 1 : stack'[t][d].fname \in Functions
  BY <1>2, <1>3, <1>4, <1>5 DEF Descends
<1>7. ASSUME NEW d \in 1 .. L + 1, NEW S \in SUBSET Functions, Closed(S),
             Calls[stack'[t][d].fname] \subseteq S, NEW e \in d + 1 .. L + 1
      PROVE  stack'[t][e].fname \in S
  <2>1. d \in 1 .. L /\ (e \in d + 1 .. L \/ e = L + 1)
    BY <1>3
  <2>2. /\ \A x \in d + 1 .. L : stack[t][x].fname \in S
        /\ callee[t] \in S
    BY <1>1, <1>3, <1>4, <1>7, <2>1 DEF Descends
  <2>3. \A x \in d + 1 .. L : x \in 1 .. L
    BY <1>3, <2>1
  <2> QED
    BY <1>2, <1>3, <2>1, <2>2, <2>3
<1>8. ASSUME NEW d \in 1 .. L + 1, NotRecursive(stack'[t][d].fname)
      PROVE  invMap[stack'[t][d].fname][t] = stack'[t][d].invNo
  <2>1. CASE d = L + 1
    BY <1>2, <1>3, <2>1 DEF RealInv, Counted
  <2>2. CASE d \in 1 .. L
    BY <1>3, <1>4, <1>8, <2>2 DEF Current
  <2> QED
    BY <1>5, <2>1, <2>2
<1>9. Descends(t)'
  BY <1>3, <1>4, <1>6, <1>7 DEF Descends, Closed
<1>10. Current(t)'
  BY <1>1, <1>3, <1>8 DEF Current, NotRecursive
<1> QED
  BY <1>9, <1>10

LEMMA CallCalls ==
    ASSUME TypeOK, RealInv, CallInv, NEW t \in Threads, NEW g \in Functions, callP(t, g)
    PROVE  Descends(t)' /\ Current(t)'
<1> DEFINE L == Len(stack[t])
<1>1. /\ stack' = stack /\ invMap' = invMap /\ phase[t] = "running"
      /\ callee' = [callee EXCEPT ![t] = g]
      /\ g \in Calls[Last(stack[t]).fname]
  BY DEF callP, toolVars, Running, Top
<1>2. callee'[t] = g /\ Descends(t) /\ Current(t)
  BY <1>1 DEF CallInv, TypeOK
<1>3. L \in Nat \ {0} /\ Last(stack[t]) = stack[t][L]
  <2>1. stack[t] \in Seq(Frame) /\ stack[t] # <<>>
    BY <1>1 DEF TypeOK, RealInv, Placed
  <2> QED
    BY <2>1, FrontFacts
<1>4. ASSUME NEW d \in 1 .. L, NEW S \in SUBSET Functions, Closed(S),
             Calls[stack[t][d].fname] \subseteq S
      PROVE  (\A e \in d + 1 .. L : stack[t][e].fname \in S) /\ g \in S
  <2>1. \A e \in d + 1 .. L : stack[t][e].fname \in S
    BY <1>2, <1>4 DEF Descends
  <2>2. CASE d = L
    BY <1>1, <1>3, <1>4, <2>1, <2>2
  <2>3. CASE d # L
    <3>1. L \in d + 1 .. L
      BY <1>3, <2>3
    <3> QED
      BY <1>1, <1>3, <1>4, <2>1, <3>1 DEF Closed
  <2> QED
    BY <2>2, <2>3, <2>1
<1> QED
  BY <1>1, <1>2, <1>4 DEF Descends, Current, NotRecursive, Closed

LEMMA EnterCalls ==
    ASSUME TypeOK, RealInv, CallInv, NEW t \in Threads, invP(t), NEW u \in Threads
    PROVE  Descends(u)' /\ Current(u)'
<1>1. /\ stack' = stack /\ callee' = callee
      /\ invMap' = [invMap EXCEPT ![callee[t]][t] = @ + 1]
      /\ phase[t] = "calling" /\ phase' = [phase EXCEPT ![t] = "entered"]
  BY DEF invP
<1>2. Descends(u) /\ Current(u)
  BY DEF CallInv
<1>3. Descends(u)'
  <2>1. phase'[u] \in {"calling", "entered"} => phase[u] \in {"calling", "entered"}
    BY <1>1 DEF TypeOK
  <2> QED
    BY <1>1, <1>2, <2>1 DEF Descends, Closed
<1>4. ASSUME NEW d \in 1 .. Len(stack[u]), NotRecursive(stack[u][d].fname)
      PROVE  invMap'[stack[u][d].fname][u] = invMap[stack[u][d].fname][u]
  <2> DEFINE f == stack[u][d].fname
  <2>1. f \in Functions /\ callee[t] \in Functions
    BY <1>2 DEF Descends, TypeOK
  <2>2. CASE u # t
    BY <1>1, <2>1, <2>2 DEF TypeOK
  <2>3. CASE u = t
    <3>1. PICK S \in SUBSET (Functions \ {f}) : Calls[f] \subseteq S /\ Closed(S)
      BY <1>4 DEF NotRecursive, Closed
    <3>2. callee[t] \in S
      BY <1>1, <1>2, <2>3, <3>1 DEF Descends
    <3>3. callee[t] # f
      BY <3>1, <3>2
    <3> QED
      BY <1>1, <2>1, <3>3 DEF TypeOK
  <2> QED
    BY <2>2, <2>3
<1>5. Current(u)'
  BY <1>1, <1>2, <1>4 DEF Current, NotRecursive
<1> QED
  BY <1>3, <1>5

LEMMA NextCalls == TypeOK /\ RealInv /\ CallInv /\ [Next]_vars => CallInv'
<1> SUFFICES ASSUME TypeOK, RealInv, CallInv, [Next]_vars PROVE CallInv'
  OBVIOUS
<1>1. ASSUME NEW u \in Threads, stack'[u] = stack[u], phase'[u] = phase[u],
             callee'[u] = callee[u], invMap' = invMap
      PROVE  Descends(u)' /\ Current(u)'
  <2>1. Descends(u) /\ Current(u)
    BY DEF CallInv
  <2> QED
    BY <1>1, <2>1 DEF Descends, Current, Closed, NotRecursive
<1>2. ASSUME NEW t \in Threads, NEW g \in Functions, callP(t, g) PROVE CallInv'
  <2>1. \A u \in Threads \ {t} : Descends(u)' /\ Current(u)'
    BY <1>1, <1>2 DEF callP, toolVars, TypeOK
  <2> QED
    BY <1>2, <2>1, CallCalls DEF CallInv
<1>3. ASSUME NEW t \in Threads, invP(t) PROVE CallInv'
  BY <1>3, EnterCalls DEF CallInv
<1>4. ASSUME NEW t \in Threads, updateRBP(t) PROVE CallInv'
  <2>1. \A u \in Threads \ {t} : Descends(u)' /\ Current(u)'
    BY <1>1, <1>4 DEF updateRBP, Push, TypeOK
  <2> QED
    BY <1>4, <2>1, PushCalls DEF CallInv
<1>5. ASSUME NEW t \in Threads, retP(t) PROVE CallInv'
  <2>1. \A u \in Threads \ {t} : Descends(u)' /\ Current(u)'
    BY <1>1, <1>5 DEF retP, Leave, TypeOK
  <2>2. /\ stack[t] # <<>> /\ stack' = [stack EXCEPT ![t] = Front(@)]
        /\ phase' = [phase EXCEPT ![t] = IF Len(stack[t]) = 1 THEN "ended" ELSE "running"]
        /\ invMap' = invMap
    BY <1>5, PopFacts
  <2>3. stack[t] \in Seq(Frame) /\ stack'[t] = Front(stack[t])
        /\ phase'[t] \notin {"calling", "entered"}
    BY <2>2 DEF TypeOK
  <2>4. /\ Len(stack[t]) \in Nat \ {0} /\ Len(stack'[t]) = Len(stack[t]) - 1
        /\ \A i \in 1 .. Len(stack[t]) - 1 : stack'[t][i] = stack[t][i]
    <3>1. /\ Len(stack[t]) \in Nat \ {0} /\ Len(Front(stack[t])) = Len(stack[t]) - 1
          /\ \A i \in 1 .. Len(stack[t]) - 1 : Front(stack[t])[i] = stack[t][i]
      BY <2>2, <2>3, FrontFacts
    <3> QED
      BY <2>3, <3>1
  <2>5. Len(stack[t]) - 1 \in Nat /\ Len(stack[t]) - 1 <= Len(stack[t])
    BY <2>4
  <2>6. Descends(t)' /\ Current(t)'
    BY <2>2, <2>3, <2>4, <2>5, CutCalls
  <2> QED
    BY <2>1, <2>6 DEF CallInv
<1>6. ASSUME NEW t \in Threads, NEW depth \in 1 .. StackWords, Unwind(t, depth) PROVE CallInv'
  <2>1. \A u \in Threads \ {t} : Descends(u)' /\ Current(u)'
    BY <1>1, <1>6 DEF Unwind, toolVars, TypeOK
  <2>2. /\ depth \in 1 .. Len(stack[t]) - 1 /\ stack[t] \in Seq(Frame)
        /\ stack'[t] = SubSeq(stack[t], 1, depth)
        /\ phase'[t] \notin {"calling", "entered"} /\ invMap' = invMap
    BY <1>6 DEF Unwind, Running, toolVars, TypeOK
  <2>3. /\ Len(stack[t]) \in Nat /\ Len(stack'[t]) = depth
        /\ \A i \in 1 .. depth : stack'[t][i] = stack[t][i]
    BY <2>2, CutFacts
  <2>4. depth \in Nat /\ depth <= Len(stack[t])
    BY <2>2, <2>3
  <2>5. Descends(t)' /\ Current(t)'
    BY <2>2, <2>3, <2>4, CutCalls
  <2> QED
    BY <2>1, <2>5 DEF CallInv
<1>7. ASSUME NEW t \in Threads, NEW u \in Threads, NEW d \in 1 .. StackWords,
             NEW k \in 1 .. StackWords, dataman(t, u, d, k)
      PROVE  CallInv'
  BY <1>1, <1>7 DEF dataman, realVars, toolVars, CallInv
<1>8. CASE UNCHANGED vars
  BY <1>1, <1>8 DEF vars, realVars, toolVars, CallInv
<1> QED
  BY <1>2, <1>3, <1>4, <1>5, <1>6, <1>7, <1>8 DEF Next

\* For any call graph: while a function that no chain of calls leads back to is
\* running, the INVNO of its lines is the invocation that runs.
THEOREM InvNoIsCurrent == Spec => []InvNoCurrent
<1>1. Init => CallInv
  <2> SUFFICES ASSUME Init, NEW t \in Threads PROVE Descends(t) /\ Current(t)
    BY DEF CallInv
  <2>1. stack[t] = <<>>
    BY DEF Init
  <2>2. Len(stack[t]) = 0
    BY <2>1, EmptySeq
  <2> QED
    BY <2>2 DEF Descends, Current
<1>2. TypeOK /\ RealInv /\ CallInv => InvNoCurrent
  <2> SUFFICES ASSUME TypeOK, RealInv, CallInv, NEW t \in Threads,
                      Running(t), NotRecursive(Top(t).fname)
               PROVE  invMap[Top(t).fname][t] = Top(t).invNo
    BY DEF InvNoCurrent
  <2>1. stack[t] \in Seq(Frame) /\ stack[t] # <<>>
    BY DEF TypeOK, Running, RealInv, Placed
  <2>2. Len(stack[t]) \in Nat \ {0} /\ Top(t) = stack[t][Len(stack[t])]
    BY <2>1, FrontFacts DEF Top
  <2>3. Len(stack[t]) \in 1 .. Len(stack[t])
    BY <2>2
  <2> QED
    BY <2>2, <2>3 DEF CallInv, Current
<1> QED
  BY <1>1, <1>2, NextCalls, FramesInvariant, PTL DEF Spec
=============================================================================
