-------------------------------- MODULE Pass2 --------------------------------
(***************************************************************************)
(* PIN/Work/pass2.py: the dump, a line at a time, becomes dynamic.xml, in  *)
(* which the accesses between two other events are one IO element.  The    *)
(* dump is the work of threads that call, return, lock and unlock; a line  *)
(* is read as soon as it is written, which is what reading the file later  *)
(* amounts to.                                                             *)
(***************************************************************************)
EXTENDS Naturals, Sequences, FiniteSets, SequencesExt

CONSTANTS
    Threads, Locks, Vars, Functions,
    Recursive,      \* the functions that a chain of calls may lead back to
    MaxLines        \* bound on the lines of the dump

ASSUME Pass2Assumption ==
    /\ Recursive \subseteq Functions
    /\ MaxLines \in Nat

VARIABLES
    frames,     \* per thread, the invocations it is in, the last one running
    invoked,    \* invMap: per thread and function, the invocations so far
    held,       \* per thread, the locks listed with its accesses
    trace,      \* the dump
    phase,      \* "reading", "done", or "failed" on an exception
    ctxt,       \* the context of the open paragraph, or NoCtxt
    para,       \* its accesses
    out         \* the elements written to dynamic.xml

progVars == <<frames, invoked, held>>
vars == <<progVars, trace, phase, ctxt, para, out>>

-----------------------------------------------------------------------------
(* Lines of the dump *)

\* The line of an access: its INVNO is how often the running function was called
\* until now.  "inv" is a history of the invocation that runs, and "locks" of the
\* locks whose number is in SYNCS.
Access(t, tag, class, v) ==
    LET f == Last(frames[t])
    IN  [tag |-> tag, THREADID |-> t, FUNCNAME |-> f.fn, INVNO |-> invoked[t][f.fn],
         inv |-> f.no, VARCLASS |-> class, VARID |-> v, locks |-> held[t], id |-> Len(trace) + 1]

Other(tag, t) == [tag |-> tag, THREADID |-> t, id |-> Len(trace) + 1]

IsAccess(e) == e.tag \in {"READ", "WRITE"}

NoCtxt == <<>>

\* Fault: the thread is not part of the context.
Ctxt_NoThread(e) == <<e.FUNCNAME, e.INVNO, Cardinality(e.locks)>>

\* The context of an access; of its locks only the number is in the SYNCS attribute.
Ctxt(e) == <<e.THREADID, e.FUNCNAME, e.INVNO, Cardinality(e.locks)>>

-----------------------------------------------------------------------------
(* process_para *)

IsLocal(e) == e.VARCLASS = "LOCAL"

LocalVars(p) == {p[i].VARID : i \in {j \in DOMAIN p : IsLocal(p[j])}}

Count(p, tag, v) ==
    Cardinality({i \in DOMAIN p : IsLocal(p[i]) /\ p[i].VARID = v /\ p[i].tag = tag})

\* Fault: the counters of a variable start at its first access.
process_para_CountFromZero(p, c) ==
    [tag |-> "IO", ctxt |-> c, of |-> p,
     nonlocal |-> Restrict(p, {i \in DOMAIN p : ~IsLocal(p[i])}),
     local |-> [v \in LocalVars(p) |->
                  [WRITE |-> Count(Tail(p), "WRITE", v), READ |-> Count(Tail(p), "READ", v)]]]

\* The accesses that are not LOCAL, each at its place, then for each local variable
\* how often it was written and read.  "of" is a history of the accesses.
process_para(p, c) ==
    [tag |-> "IO", ctxt |-> c, of |-> p,
     nonlocal |-> Restrict(p, {i \in DOMAIN p : ~IsLocal(p[i])}),
     local |-> [v \in LocalVars(p) |->
                  [WRITE |-> Count(p, "WRITE", v), READ |-> Count(p, "READ", v)]]]

\* What is written before the next element that is not an access.
Flushed == IF ctxt = NoCtxt THEN out ELSE Append(out, process_para(para, ctxt))

\* An access opens a paragraph or joins the open one, if its context is the
\* paragraph's; there is no else.
ReadAccess(e) ==
    LET c == IF ctxt = NoCtxt THEN Ctxt(e) ELSE ctxt
    IN  /\ ctxt' = c
        /\ para' = IF c = Ctxt(e) THEN Append(para, e) ELSE para
        /\ UNCHANGED out

\* Fault: the event is written before the paragraph it ends.
ReadOther_EventFirst(e) ==
    /\ out' = IF ctxt = NoCtxt THEN Append(out, e)
              ELSE Append(Append(out, e), process_para(para, ctxt))
    /\ para' = IF ctxt = NoCtxt THEN para ELSE <<>>
    /\ ctxt' = NoCtxt

\* Fault: the paragraph is not emptied.
ReadOther_KeepPara(e) ==
    /\ out' = Append(Flushed, e)
    /\ ctxt' = NoCtxt
    /\ UNCHANGED para

\* Any other event ends the paragraph and is written after it.
ReadOther(e) ==
    /\ out' = Append(Flushed, e)
    /\ para' = IF ctxt = NoCtxt THEN para ELSE <<>>
    /\ ctxt' = NoCtxt

-----------------------------------------------------------------------------
Init ==
    /\ frames = [t \in Threads |-> <<>>]
    /\ invoked = [t \in Threads |-> [f \in Functions |-> 0]]
    /\ held = [t \in Threads |-> {}]
    /\ trace = <<>>
    /\ phase = "reading"
    /\ ctxt = NoCtxt
    /\ para = <<>>
    /\ out = <<>>

WriteLine(e) ==
    /\ phase = "reading"
    /\ Len(trace) < MaxLines
    /\ trace' = Append(trace, e)

PrintAccess(t, tag, class, v) ==
    LET e == Access(t, tag, class, v)
    IN  /\ frames[t] # <<>>
        /\ WriteLine(e)
        /\ ReadAccess(e)
        /\ UNCHANGED <<progVars, phase>>

\* Thread t is in function f.
Active(t, f) == \E i \in DOMAIN frames[t] : frames[t][i].fn = f

PrintCall(t, f) ==
    /\ Active(t, f) => f \in Recursive
    /\ WriteLine(Other("CALL", t))
    /\ ReadOther(Other("CALL", t))
    /\ invoked' = [invoked EXCEPT ![t][f] = @ + 1]
    /\ frames' = [frames EXCEPT ![t] = Append(@, [fn |-> f, no |-> invoked'[t][f]])]
    /\ UNCHANGED <<held, phase>>

\* A return prints no line, and leaves the number of calls as it is.
Return(t) ==
    /\ phase = "reading"
    /\ frames[t] # <<>>
    /\ frames' = [frames EXCEPT ![t] = Front(@)]
    /\ UNCHANGED <<invoked, held, trace, phase, ctxt, para, out>>

PrintLock(t, l) ==
    /\ l \notin held[t]
    /\ WriteLine(Other("LOCK", t))
    /\ ReadOther(Other("LOCK", t))
    /\ held' = [held EXCEPT ![t] = @ \cup {l}]
    /\ UNCHANGED <<frames, invoked, phase>>

PrintUnlock(t, l) ==
    /\ l \in held[t]
    /\ WriteLine(Other("UNLOCK", t))
    /\ ReadOther(Other("UNLOCK", t))
    /\ held' = [held EXCEPT ![t] = @ \ {l}]
    /\ UNCHANGED <<frames, invoked, phase>>

\* A semaphore the thread did not wait on: the type of the lock is empty, the words of the line do not pair up, and
\* to_xml raises: what was written so far is all there will be.
PrintUntypedUnlock(t) ==
    /\ held[t] # Locks
    /\ WriteLine(Other("UNLOCK", t))
    /\ phase' = "failed"
    /\ UNCHANGED <<progVars, ctxt, para, out>>

\* Fault: the last paragraph is forgotten.
EndOfTrace_NoFlush ==
    /\ phase = "reading"
    /\ phase' = "done"
    /\ UNCHANGED <<progVars, trace, ctxt, para, out>>

\* The end of the dump ends the last paragraph.
EndOfTrace ==
    /\ phase = "reading"
    /\ out' = Flushed
    /\ phase' = "done"
    /\ UNCHANGED <<progVars, trace, ctxt, para>>

Next ==
    \/ \E t \in Threads :
          \/ \E tag \in {"READ", "WRITE"}, class \in {"LOCAL", "GLOBAL"}, v \in Vars :
                PrintAccess(t, tag, class, v)
          \/ \E f \in Functions : PrintCall(t, f)
          \/ Return(t)
          \/ \E l \in Locks : PrintLock(t, l) \/ PrintUnlock(t, l)
          \/ PrintUntypedUnlock(t)
    \/ EndOfTrace

Spec == Init /\ [][Next]_vars
-----------------------------------------------------------------------------
(* Properties *)

\* Every variable has its type.
TypeOK ==
    /\ frames \in [Threads -> Seq([fn : Functions, no : 0 .. MaxLines])]
    /\ invoked \in [Threads -> [Functions -> 0 .. MaxLines]]
    /\ held \in [Threads -> SUBSET Locks]
    /\ phase \in {"reading", "done", "failed"}
    /\ \A i \in DOMAIN para : IsAccess(para[i])
    /\ (ctxt = NoCtxt) = (para = <<>>)

Groups == {i \in DOMAIN out : out[i].tag = "IO"}

\* The accesses of an IO element were made by the thread and the function it names,
\* with the same locks, though its context has only their number: a thread cannot
\* exchange one lock for another without an event that ends the paragraph.  They were
\* made by the invocation it names, unless the function is recursive: then INVNO is
\* that of the innermost call, and those of its callers join it.
GroupsPure ==
    \A i \in Groups : \A j, k \in DOMAIN out[i].of :
        LET a == out[i].of[j]
            b == out[i].of[k]
        IN  /\ a.THREADID = out[i].ctxt[1] /\ a.FUNCNAME = out[i].ctxt[2]
            /\ a.FUNCNAME \notin Recursive => a.inv = out[i].ctxt[3]
            /\ a.locks = b.locks

\* What stands in dynamic.xml for an element: the accesses of its paragraph, in
\* their order, or the event; and all that is in it.
Part(i) == IF out[i].tag = "IO" THEN out[i].of ELSE <<out[i]>>
Contents == UNION {Range(Part(i)) : i \in DOMAIN out}

\* The events that are not accesses are all in dynamic.xml, and all it has is in the
\* order of the dump: no access is moved over an event or another access, and
\* nothing is there twice.
EventsInPlace ==
    /\ phase # "failed" => {e \in Contents : ~IsAccess(e)} = {e \in Range(trace) : ~IsAccess(e)}
    /\ \A i, j \in DOMAIN out : \A m \in DOMAIN Part(i), n \in DOMAIN Part(j) :
          i < j \/ (i = j /\ m < n) => Part(i)[m].id < Part(j)[n].id

\* The accesses counted in an element, one by one.
Counted(g) ==
    UNION {{<<v, tag, n>> : n \in 1 .. g.local[v][tag]} : v \in DOMAIN g.local, tag \in {"WRITE", "READ"}}

\* Each access of a paragraph is in its element once: listed, or counted.
GroupsConserve ==
    \A i \in Groups :
        /\ Cardinality(DOMAIN out[i].nonlocal) + Cardinality(Counted(out[i])) = Len(out[i].of)
        /\ \A j \in DOMAIN out[i].nonlocal : ~IsLocal(out[i].nonlocal[j])

\* Every access of the dump is in dynamic.xml when pass2.py is done (pass2.py,
\* process_para: "collect all local accesses").
AccessesKept ==
    phase = "done" => {e \in Contents : IsAccess(e)} = {e \in Range(trace) : IsAccess(e)}

\* No two accesses between the same events are of different threads or functions.
Uniform ==
    \A i \in 1 .. Len(trace) - 1 :
        IsAccess(trace[i]) /\ IsAccess(trace[i + 1]) =>
            /\ trace[i].THREADID = trace[i + 1].THREADID
            /\ trace[i].FUNCNAME = trace[i + 1].FUNCNAME

\* If the accesses between two events are all of one function in one thread, each of
\* them is in dynamic.xml when pass2.py is done, those of the last paragraph too.
UniformAccessesKept == Uniform => AccessesKept
=============================================================================
