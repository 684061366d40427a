-------------------------- MODULE TraceStampsProofs --------------------------
(***************************************************************************)
(* What holds of the dump however the handlers of any number of threads    *)
(* race, and what holds of it until two of them overlap.                   *)
(***************************************************************************)
EXTENDS TraceStamps, SequenceTheorems, TLAPS

\* An element appended to a sequence of S keeps it a sequence of S, in which
\* the old elements stay where they were.
LEMMA AppendFacts ==
    ASSUME NEW S, NEW s \in Seq(S), NEW e \in S
    PROVE  /\ Append(s, e) \in Seq(S)
           /\ Len(Append(s, e)) = Len(s) + 1
           /\ DOMAIN Append(s, e) = 1 .. Len(s) + 1
           /\ \A i \in 1 .. Len(s) : Append(s, e)[i] = s[i]
           /\ Append(s, e)[Len(s) + 1] = e
           /\ DOMAIN s = 1 .. Len(s)
           /\ Len(s) \in Nat
  BY AppendProperties

FragmentType == [tid : Threads, part : Parts, eol : BOOLEAN]

EventType == [tid : Threads, kind : Kinds, id : Nat]

\* A statement of a handler leaves a well-formed fragment.
LEMMA FragmentTyped ==
    ASSUME NEW t \in Threads, NEW part \in Parts, NEW eol \in BOOLEAN
    PROVE  Fragment(t, part, eol) \in FragmentType
  BY Zenon DEF Fragment, FragmentType

\* What a handler prints and stores always has its type.
THEOREM TypeCorrect == Spec => []TypeOK
<1>1. Init => TypeOK
  <2> SUFFICES ASSUME Init PROVE TypeOK
    OBVIOUS
  <2>1. outp \in Seq(FragmentType) /\ log \in Seq(EventType)
    BY EmptySeq DEF Init
  <2>2. closed \in BOOLEAN
    BY DEF Init
  <2> QED
    BY <2>1, <2>2 DEF Init, TypeOK, Kinds, FragmentType, EventType
<1>2. TypeOK /\ [Next]_vars => TypeOK'
  <2> SUFFICES ASSUME TypeOK, [Next]_vars PROVE TypeOK'
    OBVIOUS
  <2>1. ASSUME NEW t \in Threads, NEW k \in Kinds, PrintHead(t, k) PROVE TypeOK'
    <3>1. Fragment(t, "head", FALSE) \in FragmentType
      BY FragmentTyped DEF Parts
    <3>2. outp' \in Seq(FragmentType)
      BY <2>1, <3>1, AppendFacts DEF PrintHead, Goto, TypeOK, FragmentType
    <3> QED
      BY <2>1, <3>2 DEF PrintHead, Goto, TypeOK, FragmentType
  <2>2. ASSUME NEW t \in Threads, LoadStamp(t) PROVE TypeOK'
    BY <2>2 DEF LoadStamp, Goto, TypeOK
  <2>3. ASSUME NEW t \in Threads, StoreStamp(t) PROVE TypeOK'
    <3>1. reg[t] + 1 \in Nat
      BY DEF TypeOK
    <3> QED
      BY <2>3, <3>1 DEF StoreStamp, StoreValue, Goto, TypeOK
  <2>4. ASSUME NEW t \in Threads, PrintStamp(t) PROVE TypeOK'
    <3>0. "id" \in Parts /\ (kind[t] \in StampLast) \in BOOLEAN
      BY DEF Parts
    <3>1. Fragment(t, "id", kind[t] \in StampLast) \in FragmentType
      BY <3>0, FragmentTyped, Zenon
    <3>2. outp' \in Seq(FragmentType)
      BY <2>4, <3>1, AppendFacts DEF PrintStamp, PrintNumber, Goto, TypeOK, FragmentType
    <3>3. [tid |-> t, kind |-> kind[t], id |-> reg[t] + 1] \in EventType
      BY DEF TypeOK, EventType
    <3>4. log' \in Seq(EventType)
      BY <2>4, <3>3, AppendFacts DEF PrintStamp, PrintNumber, Goto, TypeOK, EventType
    <3> QED
      BY <2>4, <3>2, <3>4 DEF PrintStamp, PrintNumber, Goto, TypeOK, FragmentType, EventType
  <2>5. ASSUME NEW t \in Threads, PrintTail(t) PROVE TypeOK'
    <3>1. Fragment(t, "tail", TRUE) \in FragmentType
      BY FragmentTyped DEF Parts
    <3>2. outp' \in Seq(FragmentType)
      BY <2>5, <3>1, AppendFacts DEF PrintTail, Goto, TypeOK, FragmentType
    <3> QED
      BY <2>5, <3>2 DEF PrintTail, Goto, TypeOK, FragmentType
  <2>6. ASSUME NEW t \in Threads, Fini(t) PROVE TypeOK'
    BY <2>6 DEF Fini, TypeOK
  <2>7. CASE UNCHANGED vars
    BY <2>7 DEF vars, TypeOK
  <2> QED
    BY <2>1, <2>2, <2>3, <2>4, <2>5, <2>6, <2>7
       DEF Next, dataman, callP, lock_func_bf, unlock_func, Kinds
<1> QED
  BY <1>1, <1>2, PTL DEF Spec

-----------------------------------------------------------------------------
(* Any number of threads *)

\* The strengthening of NoGaps: the counter, and each value a thread has
\* loaded from it, was stored before; a thread about to print its number has
\* stored it.
NoGapsInv ==
    /\ NoGaps
    /\ timeStamp = 0 \/ timeStamp \in stored
    /\ \A t \in Threads : reg[t] = 0 \/ reg[t] \in stored
    /\ \A t \in Threads : pc[t] = "id" => reg[t] + 1 \in stored

\* However many threads race on timeStamp, the numbers in the dump were issued
\* without a gap.
THEOREM NumbersHaveNoGaps == Spec => []NoGaps
<1>1. Init => NoGapsInv
  BY DEF Init, NoGapsInv, NoGaps
<1>2. TypeOK /\ NoGapsInv /\ [Next]_vars => NoGapsInv'
  <2> SUFFICES ASSUME TypeOK, NoGapsInv, [Next]_vars PROVE NoGapsInv'
    OBVIOUS
  <2>1. ASSUME NEW t \in Threads, NEW k \in Kinds, PrintHead(t, k) PROVE NoGapsInv'
    BY <2>1 DEF PrintHead, Goto, NoGapsInv, NoGaps, TypeOK
  <2>2. ASSUME NEW t \in Threads, LoadStamp(t) PROVE NoGapsInv'
    BY <2>2 DEF LoadStamp, Goto, NoGapsInv, NoGaps, TypeOK
  <2>3. ASSUME NEW t \in Threads, StoreStamp(t) PROVE NoGapsInv'
    <3>1. reg[t] \in Nat
      BY DEF TypeOK
    <3>2. \A n \in stored' : n = 1 \/ n - 1 \in stored'
      BY <2>3, <3>1 DEF StoreStamp, StoreValue, Goto, NoGapsInv, NoGaps, TypeOK
    <3> QED
      BY <2>3, <3>1, <3>2 DEF StoreStamp, StoreValue, Goto, NoGapsInv, NoGaps, TypeOK
  <2>4. ASSUME NEW t \in Threads, PrintStamp(t) PROVE NoGapsInv'
    <3> DEFINE e == [tid |-> t, kind |-> kind[t], id |-> reg[t] + 1]
    <3>1. e \in EventType
      BY DEF TypeOK, EventType
    <3>2. log \in Seq(EventType)
      BY DEF TypeOK, EventType
    <3>3. log' = Append(log, e)
      BY <2>4 DEF PrintStamp, PrintNumber
    <3>4. e.id \in stored
      BY <2>4 DEF PrintStamp, PrintNumber, Goto, NoGapsInv
    <3> HIDE DEF e
    <3>5. \A i \in DOMAIN log' : log'[i].id \in stored
      <4>1. \A i \in 1 .. Len(log) : log'[i].id \in stored
        <5> TAKE i \in 1 .. Len(log)
        <5>1. log'[i] = log[i] /\ i \in DOMAIN log
          BY <3>1, <3>2, <3>3, AppendFacts
        <5> QED
          BY <5>1 DEF NoGapsInv, NoGaps
      <4>2. log'[Len(log) + 1].id \in stored
        BY <3>1, <3>2, <3>3, <3>4, AppendFacts
      <4>3. DOMAIN log' = 1 .. Len(log) + 1 /\ Len(log) \in Nat
        BY <3>1, <3>2, <3>3, AppendFacts
      <4> QED
        BY <4>1, <4>2, <4>3
    <3> QED
      BY <2>4, <3>5 DEF PrintStamp, PrintNumber, Goto, NoGapsInv, NoGaps, TypeOK
  <2>5. ASSUME NEW t \in Threads, PrintTail(t) PROVE NoGapsInv'
    BY <2>5 DEF PrintTail, Goto, NoGapsInv, NoGaps, TypeOK
  <2>6. ASSUME NEW t \in Threads, Fini(t) PROVE NoGapsInv'
    BY <2>6 DEF Fini, NoGapsInv, NoGaps
  <2>7. CASE UNCHANGED vars
    BY <2>7 DEF vars, NoGapsInv, NoGaps
  <2> QED
    BY <2>1, <2>2, <2>3, <2>4, <2>5, <2>6, <2>7
       DEF Next, dataman, callP, lock_func_bf, unlock_func, Kinds
<1>3. NoGapsInv => NoGaps
  BY DEF NoGapsInv
<1> QED
  BY <1>1, <1>2, <1>3, TypeCorrect, PTL DEF Spec
-----------------------------------------------------------------------------
(* Until two handlers overlap *)

\* One handler at a time, and the counter is the length of the log, but for the
\* step in which a thread has stored a number and not printed it yet.
SerialInv ==
    ~overlap =>
        /\ \A t, u \in Threads : pc[t] # "run" /\ pc[u] # "run" => t = u
        /\ (\A t \in Threads : pc[t] # "id") => timeStamp = Len(log)
        /\ \A t \in Threads :
              /\ pc[t] = "store" => reg[t] = timeStamp
              /\ pc[t] = "id" => reg[t] = Len(log) /\ timeStamp = Len(log) + 1
        /\ closed => \A t \in Threads : pc[t] = "run"

\* SerialInv holds of every program.
LEMMA SerialInvariant == Spec => []SerialInv
<1>1. Init => SerialInv
  BY DEF Init, SerialInv
<1>2. TypeOK /\ SerialInv /\ [Next]_vars => SerialInv'
  <2> SUFFICES ASSUME TypeOK, SerialInv, [Next]_vars PROVE SerialInv'
    OBVIOUS
  <2>0. /\ pc \in [Threads -> {"run", "load", "store", "id", "tail"}]
        /\ reg \in [Threads -> Nat]
        /\ timeStamp \in Nat
        /\ log \in Seq(EventType)
        /\ Len(log) \in Nat
    BY LenProperties DEF TypeOK, EventType
  <2>1. ASSUME NEW t \in Threads, NEW k \in Kinds, PrintHead(t, k) PROVE SerialInv'
    BY <2>0, <2>1 DEF PrintHead, Goto, Busy, SerialInv
  <2>2. ASSUME NEW t \in Threads, LoadStamp(t) PROVE SerialInv'
    BY <2>0, <2>2 DEF LoadStamp, Goto, SerialInv
  <2>3. ASSUME NEW t \in Threads, StoreStamp(t) PROVE SerialInv'
    BY <2>0, <2>3 DEF StoreStamp, StoreValue, Goto, SerialInv
  <2>4. ASSUME NEW t \in Threads, PrintStamp(t) PROVE SerialInv'
    <3> DEFINE e == [tid |-> t, kind |-> kind[t], id |-> reg[t] + 1]
    <3>1. e \in EventType
      BY <2>0 DEF TypeOK, EventType
    <3>2. log' = Append(log, e)
      BY <2>4 DEF PrintStamp, PrintNumber
    <3> HIDE DEF e
    <3>3. Len(log') = Len(log) + 1
      BY <2>0, <3>1, <3>2, AppendFacts
    <3> QED
      BY <2>0, <2>4, <3>3 DEF PrintStamp, PrintNumber, Goto, SerialInv
  <2>5. ASSUME NEW t \in Threads, PrintTail(t) PROVE SerialInv'
    BY <2>0, <2>5 DEF PrintTail, Goto, SerialInv
  <2>6. ASSUME NEW t \in Threads, Fini(t) PROVE SerialInv'
    BY <2>0, <2>6 DEF Fini, Busy, SerialInv
  <2>7. CASE UNCHANGED vars
    BY <2>7 DEF vars, SerialInv
  <2> QED
    BY <2>1, <2>2, <2>3, <2>4, <2>5, <2>6, <2>7
       DEF Next, dataman, callP, lock_func_bf, unlock_func, Kinds
<1> QED
  BY <1>1, <1>2, TypeCorrect, PTL DEF Spec

\* Only PrintStamp appends to the log, and overlap is never reset.
LEMMA OtherSteps ==
    ASSUME [Next]_vars
    PROVE  /\ overlap => overlap'
           /\ \/ UNCHANGED log
              \/ \E t \in Threads : PrintStamp(t)
<1>1. ASSUME NEW t \in Threads, NEW k \in Kinds, PrintHead(t, k)
      PROVE  (overlap => overlap') /\ UNCHANGED log
  BY <1>1 DEF PrintHead
<1>2. ASSUME NEW t \in Threads, LoadStamp(t) \/ StoreStamp(t) \/ PrintTail(t)
      PROVE  (overlap => overlap') /\ UNCHANGED log
  <2>1. CASE LoadStamp(t)
    BY <2>1 DEF LoadStamp
  <2>2. CASE StoreStamp(t)
    BY <2>2 DEF StoreStamp, StoreValue
  <2>3. CASE PrintTail(t)
    BY <2>3 DEF PrintTail
  <2> QED
    BY <1>2, <2>1, <2>2, <2>3
<1>4. ASSUME NEW t \in Threads, Fini(t)
      PROVE  (overlap => overlap') /\ UNCHANGED log
  BY <1>4 DEF Fini
<1>3. ASSUME NEW t \in Threads, PrintStamp(t)
      PROVE  overlap => overlap'
  BY <1>3 DEF PrintStamp, PrintNumber
<1> QED
  BY <1>1, <1>2, <1>3, <1>4
     DEF Next, vars, dataman, callP, lock_func_bf, unlock_func, Kinds

\* Until two handlers overlap the dump is the log of EventLog, whatever the
\* number of threads: each event carries its place in the dump as its number.
THEOREM SerialUntilOverlap == Spec => SerialLog
<1>1. Init => Serial!Init
  BY DEF Init, Serial!Init
<1>2. TypeOK /\ SerialInv /\ [Next]_vars => [~overlap' => Serial!Next]_log
  <2> SUFFICES ASSUME TypeOK, SerialInv, [Next]_vars, ~overlap', ~UNCHANGED log
               PROVE  Serial!Next
    OBVIOUS
  <2>1. ~overlap
    BY OtherSteps
  <2>2. PICK t \in Threads : PrintStamp(t)
    BY OtherSteps
  <2>3. log' = Append(log, [tid |-> t, kind |-> kind[t], id |-> Len(log) + 1])
    BY <2>1, <2>2 DEF PrintStamp, PrintNumber, Goto, SerialInv
  <2>4. kind[t] \in Kinds
    BY DEF TypeOK
  <2> QED
    BY <2>3, <2>4 DEF Serial!Next, Serial!Emit
<1> QED
  BY <1>1, <1>2, TypeCorrect, SerialInvariant, PTL DEF Spec, SerialLog

\* A program with one thread has no overlap, and its dump implements EventLog.
THEOREM OneThreadSerial ==
    ASSUME NEW t, Threads = {t}
    PROVE  Spec => Serial!Spec
<1>1. Init => ~overlap
  BY DEF Init
<1>2. ~overlap /\ [Next]_vars => ~overlap'
  BY DEF Next, vars, dataman, callP, lock_func_bf, unlock_func, PrintHead,
     LoadStamp, StoreStamp, StoreValue, PrintStamp, PrintNumber, PrintTail,
     Fini, Busy
<1>3. Spec => []~overlap
  BY <1>1, <1>2, PTL DEF Spec
<1>4. ~overlap' /\ [~overlap' => Serial!Next]_log => [Serial!Next]_log
  OBVIOUS
<1> QED
  BY <1>3, <1>4, SerialUntilOverlap, PTL DEF SerialLog, Serial!Spec

\* The lines of o: what LinesWhole says of outp.
Whole(o) ==
    \A i \in DOMAIN o :
        LET first == i = 1 \/ o[i - 1].eol
        IN  /\ first <=> o[i].part = "head"
            /\ ~first => o[i].tid = o[i - 1].tid

\* Whether o ends at the end of a line.
AtLineEnd(o) == o = <<>> \/ o[Len(o)].eol

\* A fragment that begins a line after a whole one, or goes on with the line of
\* its thread, leaves the lines whole.
LEMMA AppendWhole ==
    ASSUME NEW o \in Seq(FragmentType), NEW e \in FragmentType, Whole(o),
           \/ AtLineEnd(o) /\ e.part = "head"
           \/ ~AtLineEnd(o) /\ e.part # "head" /\ e.tid = o[Len(o)].tid
    PROVE  /\ Whole(Append(o, e))
           /\ AtLineEnd(Append(o, e)) <=> e.eol
           /\ Append(o, e)[Len(Append(o, e))] = e
<1> DEFINE a == Append(o, e)
<1>1. /\ DOMAIN a = 1 .. Len(o) + 1 /\ DOMAIN o = 1 .. Len(o)
      /\ Len(o) \in Nat /\ Len(a) = Len(o) + 1
      /\ \A i \in 1 .. Len(o) : a[i] = o[i]
      /\ a[Len(o) + 1] = e
  BY AppendFacts
<1>2. o = <<>> <=> Len(o) = 0
  BY EmptySeq
<1>3. a # <<>>
  BY <1>1, EmptySeq
<1> HIDE DEF a
<1>4. ASSUME NEW i \in 1 .. Len(o)
      PROVE  LET first == i = 1 \/ a[i - 1].eol
             IN  /\ first <=> a[i].part = "head"
                 /\ ~first => a[i].tid = a[i - 1].tid
  <2>1. a[i] = o[i] /\ (i # 1 => a[i - 1] = o[i - 1])
    BY <1>1
  <2> QED
    BY <1>1, <2>1 DEF Whole
<1>5. LET i == Len(o) + 1
          first == i = 1 \/ a[i - 1].eol
      IN  /\ first <=> a[i].part = "head"
          /\ ~first => a[i].tid = a[i - 1].tid
  <2>1. Len(o) # 0 => a[Len(o)] = o[Len(o)] /\ Len(o) + 1 # 1
    BY <1>1
  <2>2. Len(o) + 1 - 1 = Len(o)
    BY <1>1
  <2> QED
    BY <1>1, <1>2, <2>1, <2>2 DEF AtLineEnd
<1>6. Whole(a)
  BY <1>1, <1>4, <1>5 DEF Whole
<1>7. AtLineEnd(a) <=> e.eol
  BY <1>1, <1>3 DEF AtLineEnd
<1> QED
  BY <1>1, <1>6, <1>7 DEF a

\* The strengthening of LinesWhole: the file is at the end of a line unless a
\* thread is in a handler, and then the open line is that thread's.
LinesInv ==
    ~overlap =>
        /\ Whole(outp)
        /\ (\A t \in Threads : pc[t] = "run") => AtLineEnd(outp)
        /\ \A t \in Threads :
              pc[t] # "run" => ~AtLineEnd(outp) /\ outp[Len(outp)].tid = t

\* LinesInv holds of every program.
LEMMA LinesInvariant == Spec => []LinesInv
<1>1. Init => LinesInv
  BY EmptySeq DEF Init, LinesInv, Whole, AtLineEnd
<1>2. TypeOK /\ SerialInv /\ LinesInv /\ [Next]_vars => LinesInv'
  <2> SUFFICES ASSUME TypeOK, SerialInv, LinesInv, [Next]_vars, ~overlap'
               PROVE  LinesInv'
    BY DEF LinesInv
  <2>0. ~overlap
    BY OtherSteps
  <2>1. /\ Whole(outp)
        /\ (\A t \in Threads : pc[t] = "run") => AtLineEnd(outp)
        /\ \A t \in Threads :
              pc[t] # "run" => ~AtLineEnd(outp) /\ outp[Len(outp)].tid = t
        /\ \A t, u \in Threads : pc[t] # "run" /\ pc[u] # "run" => t = u
        /\ pc \in [Threads -> {"run", "load", "store", "id", "tail"}]
    BY <2>0 DEF LinesInv, SerialInv, TypeOK
  <2>2. outp \in Seq(FragmentType)
    BY DEF TypeOK, FragmentType
  <2>3. ASSUME NEW t \in Threads, NEW k \in Kinds, PrintHead(t, k) PROVE LinesInv'
    <3> DEFINE e == Fragment(t, "head", FALSE)
    <3>1. e \in FragmentType /\ e.part = "head" /\ e.tid = t /\ ~e.eol
      BY FragmentTyped DEF Parts, Fragment
    <3>2. outp' = Append(outp, e) /\ pc' = [pc EXCEPT ![t] = "load"] /\ pc[t] = "run"
      BY <2>3 DEF PrintHead, Goto
    <3>3. \A u \in Threads : pc[u] = "run"
      BY <2>3, <3>2 DEF PrintHead, Busy
    <3>4. AtLineEnd(outp)
      BY <2>1, <3>3
    <3> HIDE DEF e
    <3>5. Whole(outp') /\ ~AtLineEnd(outp') /\ outp'[Len(outp')] = e
      BY <2>1, <2>2, <3>1, <3>2, <3>4, AppendWhole
    <3> QED
      BY <2>1, <3>1, <3>2, <3>3, <3>5 DEF LinesInv, Whole, AtLineEnd
  <2>4. ASSUME NEW t \in Threads, NEW to \in {"run", "tail"}, NEW e \in FragmentType,
               e.tid = t, e.part # "head", e.eol <=> to = "run",
               pc[t] # "run", pc' = [pc EXCEPT ![t] = to], outp' = Append(outp, e)
        PROVE  LinesInv'
    <3>1. ~AtLineEnd(outp) /\ outp[Len(outp)].tid = t
      BY <2>1, <2>4
    <3>2. Whole(outp') /\ (AtLineEnd(outp') <=> e.eol) /\ outp'[Len(outp')] = e
      BY <2>1, <2>2, <2>4, <3>1, AppendWhole
    <3>3. \A u \in Threads : u # t => pc'[u] = "run"
      BY <2>1, <2>4
    <3>4. pc'[t] = to
      BY <2>1, <2>4
    <3> QED
      BY <2>4, <3>2, <3>3, <3>4 DEF LinesInv, Whole, AtLineEnd
  <2>5. ASSUME NEW t \in Threads, PrintStamp(t) PROVE LinesInv'
    <3> DEFINE last == kind[t] \in StampLast
               e == Fragment(t, "id", last)
    <3>1. last \in BOOLEAN /\ "id" \in Parts
      BY DEF Parts
    <3>2. e \in FragmentType
      BY <3>1, FragmentTyped, Zenon
    <3>3. e.tid = t /\ e.part # "head" /\ (e.eol <=> last)
      BY DEF Fragment
    <3>4. /\ pc[t] # "run" /\ outp' = Append(outp, e)
          /\ pc' = [pc EXCEPT ![t] = IF last THEN "run" ELSE "tail"]
      BY <2>5 DEF PrintStamp, PrintNumber, Goto
    <3> HIDE DEF e, last
    <3> QED
      BY <2>4, <3>2, <3>3, <3>4
  <2>6. ASSUME NEW t \in Threads, PrintTail(t) PROVE LinesInv'
    <3> DEFINE e == Fragment(t, "tail", TRUE)
    <3>1. e \in FragmentType /\ e.tid = t /\ e.part # "head" /\ e.eol
      BY FragmentTyped DEF Parts, Fragment
    <3>2. pc[t] # "run" /\ outp' = Append(outp, e) /\ pc' = [pc EXCEPT ![t] = "run"]
      BY <2>6 DEF PrintTail, Goto
    <3> HIDE DEF e
    <3> QED
      BY <2>4, <3>1, <3>2
  <2>7. ASSUME NEW t \in Threads, NEW to \in {"store", "id"},
               pc[t] # "run", pc' = [pc EXCEPT ![t] = to], UNCHANGED outp
        PROVE  LinesInv'
    BY <2>1, <2>7 DEF LinesInv, Whole, AtLineEnd
  <2>8. CASE UNCHANGED <<pc, outp>>
    BY <2>1, <2>8 DEF LinesInv, Whole, AtLineEnd
  <2>9. ASSUME NEW t \in Threads, LoadStamp(t) \/ StoreStamp(t) PROVE LinesInv'
    BY <2>7, <2>9 DEF LoadStamp, StoreStamp, StoreValue, Goto
  <2>10. ASSUME NEW t \in Threads, Fini(t) PROVE LinesInv'
    BY <2>8, <2>10 DEF Fini
  <2> QED
    BY <2>3, <2>5, <2>6, <2>8, <2>9, <2>10
       DEF Next, vars, dataman, callP, lock_func_bf, unlock_func, Kinds
<1> QED
  BY <1>1, <1>2, TypeCorrect, SerialInvariant, PTL DEF Spec

\* Lines are the work of one handler until two handlers overlap.
THEOREM LinesAreWhole == Spec => []LinesWhole
<1>1. LinesInv => LinesWhole
  BY DEF LinesInv, LinesWhole, Whole
<1> QED
  BY <1>1, LinesInvariant, PTL

\* A file closed in a program whose handlers never overlapped, with each other or
\* with its exit, is complete.
THEOREM DumpIsComplete == Spec => []DumpComplete
<1>1. SerialInv /\ LinesInv => DumpComplete
  BY DEF SerialInv, LinesInv, DumpComplete, AtLineEnd
<1> QED
  BY <1>1, SerialInvariant, LinesInvariant, PTL

\* The numbers of a serial log identify its events: what UniqueIds says holds
\* until two handlers overlap.
THEOREM UniqueUntilOverlap == Spec => [](~overlap => UniqueIds)
<1> DEFINE Numbered == ~overlap => \A i \in 1 .. Len(log) : log[i].id = i
<1>1. Init => Numbered
  BY DEF Init
<1>2. TypeOK /\ SerialInv /\ Numbered /\ [Next]_vars => Numbered'
  <2> SUFFICES ASSUME TypeOK, SerialInv, Numbered, [Next]_vars, ~overlap'
               PROVE  Numbered'
    OBVIOUS
  <2>0. ~overlap
    BY OtherSteps
  <2>1. ASSUME NEW t \in Threads, PrintStamp(t) PROVE Numbered'
    <3> DEFINE e == [tid |-> t, kind |-> kind[t], id |-> reg[t] + 1]
    <3>1. e \in EventType /\ log \in Seq(EventType)
      BY <2>1 DEF TypeOK, EventType
    <3>2. log' = Append(log, e)
      BY <2>1 DEF PrintStamp, PrintNumber
    <3>3. e.id = Len(log) + 1
      BY <2>0, <2>1 DEF PrintStamp, PrintNumber, Goto, SerialInv
    <3> HIDE DEF e
    <3>4. Len(log') = Len(log) + 1 /\ Len(log) \in Nat
      BY <3>1, <3>2, AppendFacts
    <3>5. \A i \in 1 .. Len(log) : log'[i] = log[i]
      BY <3>1, <3>2, AppendFacts
    <3>6. log'[Len(log) + 1] = e
      BY <3>1, <3>2, AppendFacts
    <3> QED
      BY <2>0, <3>3, <3>4, <3>5, <3>6
  <2>2. CASE UNCHANGED log
    BY <2>0, <2>2
  <2> QED
    BY <2>1, <2>2, OtherSteps
<1>3. TypeOK /\ Numbered => (~overlap => UniqueIds)
  <2> SUFFICES ASSUME TypeOK, Numbered, ~overlap PROVE UniqueIds
    OBVIOUS
  <2>1. \A i \in 1 .. Len(log) : log[i].id = i
    OBVIOUS
  <2>2. DOMAIN log = 1 .. Len(log)
    BY DEF TypeOK
  <2> QED
    BY <2>1, <2>2 DEF UniqueIds
<1> QED
  BY <1>1, <1>2, <1>3, TypeCorrect, SerialInvariant, PTL DEF Spec
=============================================================================
