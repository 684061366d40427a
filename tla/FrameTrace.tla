------------------------------ MODULE FrameTrace ------------------------------
(***************************************************************************)
(* How PIN/Work/memtracker.cpp follows the frames of the traced threads:   *)
(* invP counts an invocation, updateRBP records its frame when the         *)
(* prologue has moved rsp into rbp, retP forgets the last frame, and       *)
(* dataman attributes an access on the stack to the frame it falls in.     *)
(*                                                                         *)
(* The calling of functions is the program's, and external: a call graph   *)
(* says who may call whom, and each function has a number of words of      *)
(* locals below its rbp, each of them a variable.  A frame that was left   *)
(* by an exception stays in the maps, and may lie among the locals of a    *)
(* larger frame that comes later.  Handlers are atomic here; TraceStamps   *)
(* has their interleaving.                                                 *)
(***************************************************************************)
EXTENDS AddrLookup, Sequences, FiniteSets

CONSTANTS
    NThreads,       \* threads 0 .. NThreads - 1
    Calls,          \* function -> the functions it may call
    Start,          \* thread -> the function it starts in
    FrameSize,      \* function -> the words of its locals
    StackWords,     \* the words of the stack of a thread
    MaxInv          \* bound on the invocations of a function by a thread

Threads == 0 .. NThreads - 1
Functions == DOMAIN Calls

ASSUME FrameTraceAssumption ==
    /\ NThreads \in Nat \ {0}
    /\ MaxInv \in Nat
    /\ Calls \in [Functions -> SUBSET Functions]
    /\ Start \in [Threads -> Functions]
    /\ FrameSize \in [Functions -> Nat]
    /\ StackWords \in Nat
    /\ \A t \in Threads : FrameSize[Start[t]] + 2 <= StackWords
    /\ Word \in Nat
    /\ Word > (NThreads + 1) * StackWords

VARIABLES
    stack,      \* per thread, the frames it really has, the callers first
    phase,      \* per thread: "calling", "entered", "running", "ended"
    callee,     \* per thread, the function being called
    entries,    \* per thread and function, how often it was really entered
    unwound,    \* history: the threads that left frames by exceptions
    older,      \* history, per thread: how many of its frames are older than all of these
    invMap,     \* function -> thread -> invocations counted
    RBPstack,   \* rbp -> frame, of all threads
    invstack,   \* thread -> frames, the last one at the end
    line,           \* the last line printed
    meant           \* history: what the last access really was

realVars == <<stack, phase, callee, entries, unwound, older>>
toolVars == <<invMap, RBPstack, invstack>>
outVars == <<line, meant>>
vars == <<realVars, toolVars, outVars>>

-----------------------------------------------------------------------------
Last(s) == s[Len(s)]
Front(s) == SubSeq(s, 1, Len(s) - 1)

Smaller(m, n) == IF m <= n THEN m ELSE n

\* The frame fnlog describes.
fnlog(t, f, n, rbp) == [tid |-> t, fname |-> f, invNo |-> n, rbp |-> rbp]

\* The variables of a function.
funcLocalMap(f) == [offset \in 1 .. FrameSize[f] |-> [size |-> 1]]

NoFrame == fnlog(0, "", 0, 0)

Line(event, t, invno, class, owner) ==
    [event |-> event, tid |-> t, INVNO |-> invno, VARCLASS |-> class, owner |-> owner]

\* What an access really is: the frame it is to, whether the accessing thread is
\* executing in that frame, and whether the frame is older than every exception
\* of its thread.
Meant(frame, own, old) == [frame |-> frame, own |-> own, old |-> old]

Init ==
    /\ stack = [t \in Threads |-> <<>>]
    /\ phase = [t \in Threads |-> "calling"]
    /\ callee = [t \in Threads |-> Start[t]]
    /\ entries = [t \in Threads |-> [f \in Functions |-> 0]]
    /\ unwound = {}
    /\ older = [t \in Threads |-> StackWords]
    /\ invMap = [f \in Functions |-> [t \in Threads |-> 0]]
    /\ RBPstack = EmptyMap
    /\ invstack = [t \in Threads |-> <<>>]
    /\ line = Line("START", 0, 0, "", NoFrame)
    /\ meant = Meant(NoFrame, FALSE, FALSE)

Running(t) == phase[t] = "running"
Top(t) == Last(stack[t])

\* Stacks grow down; each thread has words of its own.  The locals of a frame are
\* below its rbp, the return address and the saved rbp above them.
Bottom(t) == t * StackWords + 1
Base(t) == Bottom(t) + StackWords
Floor(f) == f.rbp - FrameSize[f.fname]
Rsp(t) == IF stack[t] = <<>> THEN Base(t) ELSE Floor(Top(t))
NextRbp(t) == Rsp(t) - 2

-----------------------------------------------------------------------------
\* A call instruction: callP prints it with the caller's invocation count.
callP(t, g) ==
    /\ Running(t)
    /\ g \in Calls[Top(t).fname]
    /\ NextRbp(t) - FrameSize[g] >= Bottom(t)
    /\ callee' = [callee EXCEPT ![t] = g]
    /\ phase' = [phase EXCEPT ![t] = "calling"]
    /\ line' = Line("CALL", t, invMap[Top(t).fname][t], "", NoFrame)
    /\ UNCHANGED <<stack, entries, unwound, older, toolVars, meant>>

\* Fault: invocations of all threads are counted together.
invP_Shared(t) ==
    /\ phase[t] = "calling"
    /\ entries[t][callee[t]] < MaxInv
    /\ invMap' = [invMap EXCEPT ![callee[t]] = [u \in Threads |-> @[t] + 1]]
    /\ entries' = [entries EXCEPT ![t][callee[t]] = @ + 1]
    /\ phase' = [phase EXCEPT ![t] = "entered"]
    /\ UNCHANGED <<stack, callee, unwound, older, RBPstack, invstack, outVars>>

\* The entry of a routine: its invocation is counted before its prologue runs.
invP(t) ==
    /\ phase[t] = "calling"
    /\ entries[t][callee[t]] < MaxInv
    /\ invMap' = [invMap EXCEPT ![callee[t]][t] = @ + 1]
    /\ entries' = [entries EXCEPT ![t][callee[t]] = @ + 1]
    /\ phase' = [phase EXCEPT ![t] = "entered"]
    /\ UNCHANGED <<stack, callee, unwound, older, RBPstack, invstack, outVars>>

\* What the prologue makes of the real stack.
Push(t) ==
    stack' = [stack EXCEPT ![t] =
                 Append(@, fnlog(t, callee[t], entries[t][callee[t]], NextRbp(t)))]

\* Fault: the frame is recorded before the invocation it belongs to.
updateRBP_StaleCount(t) ==
    LET rbp == NextRbp(t)
        f == fnlog(t, callee[t], invMap[callee[t]][t] - 1, rbp)
    IN  /\ phase[t] = "entered"
        /\ Push(t)
        /\ RBPstack' = Insert(RBPstack, rbp, f)
        /\ invstack' = [invstack EXCEPT ![t] = Append(@, f)]
        /\ phase' = [phase EXCEPT ![t] = "running"]
        /\ UNCHANGED <<callee, entries, unwound, older, invMap, outVars>>

\* After mov rbp, rsp.
updateRBP(t) ==
    LET rbp == NextRbp(t)
        f == fnlog(t, callee[t], invMap[callee[t]][t], rbp)
    IN  /\ phase[t] = "entered"
        /\ Push(t)
        /\ RBPstack' = Insert(RBPstack, rbp, f)
        /\ invstack' = [invstack EXCEPT ![t] = Append(@, f)]
        /\ phase' = [phase EXCEPT ![t] = "running"]
        /\ UNCHANGED <<callee, entries, unwound, older, invMap, outVars>>

\* What the ret makes of it; the last one of a thread ends it.
Leave(t) ==
    /\ stack' = [stack EXCEPT ![t] = Front(@)]
    /\ phase' = [phase EXCEPT ![t] = IF Len(stack[t]) = 1 THEN "ended" ELSE "running"]
    /\ older' = IF t \in unwound
                THEN [older EXCEPT ![t] = Smaller(@, Len(stack[t]) - 1)]
                ELSE older

\* Fault: the frame stays in RBPstack.
retP_KeepRbp(t) ==
    /\ Running(t)
    /\ invstack[t] # <<>>
    /\ invstack' = [invstack EXCEPT ![t] = Front(@)]
    /\ Leave(t)
    /\ UNCHANGED <<callee, entries, unwound, invMap, RBPstack, outVars>>

\* Fault: the frame stays in invstack.
retP_KeepInv(t) ==
    /\ Running(t)
    /\ invstack[t] # <<>>
    /\ RBPstack' = Erase(RBPstack, Last(invstack[t]).rbp)
    /\ Leave(t)
    /\ UNCHANGED <<callee, entries, unwound, invMap, invstack, outVars>>

\* A ret instruction.  back() of an empty invstack is undefined, and no behaviour
\* of the model gets there.
retP(t) ==
    /\ Running(t)
    /\ invstack[t] # <<>>
    /\ RBPstack' = Erase(RBPstack, Last(invstack[t]).rbp)
    /\ invstack' = [invstack EXCEPT ![t] = Front(@)]
    /\ Leave(t)
    /\ UNCHANGED <<callee, entries, unwound, invMap, outVars>>

\* An exception or a longjmp takes a thread back to a frame further up; the
\* frames between run no ret.
Unwind(t, depth) ==
    /\ Running(t)
    /\ depth \in 1 .. Len(stack[t]) - 1
    /\ stack' = [stack EXCEPT ![t] = SubSeq(@, 1, depth)]
    /\ unwound' = unwound \cup {t}
    /\ older' = [older EXCEPT ![t] = Smaller(@, depth)]
    /\ UNCHANGED <<phase, callee, entries, toolVars, outVars>>

\* Fault: the frame below the address is taken for the one above it.
FrameOf_Below(memOp) ==
    IF Below(RBPstack, memOp) = {} THEN NoFrame ELSE RBPstack[FloorKey(RBPstack, memOp)]

\* The frame with the least rbp above the address.
FrameOf(memOp) ==
    IF Above(RBPstack, memOp) = {} THEN NoFrame ELSE RBPstack[CeilKey(RBPstack, memOp)]

Found(f, memOp) ==
    f # NoFrame /\ lookup(funcLocalMap(f.fname), Unsigned(f.rbp - memOp)) # NoKey

\* An access to word k of the locals of frame d of thread u, through a pointer if
\* the frame is not the accessing one's own.
dataman(t, u, d, k) ==
    LET memOp == stack[u][d].rbp - k
        own == Last(invstack[t])
        other == FrameOf(memOp)
        invno == invMap[Top(t).fname][t]
    IN  /\ Running(t)
        /\ d \in DOMAIN stack[u]
        /\ k \in DOMAIN funcLocalMap(stack[u][d].fname)
        /\ invstack[t] # <<>>
        /\ line' = IF Found(own, memOp)
                   THEN Line("ACCESS", t, invno, "LOCAL", own)
                   ELSE IF Found(other, memOp)
                   THEN Line("ACCESS", t, invno, "NONLOCAL", other)
                   ELSE Line("MISSED", t, invno, "", NoFrame)
        /\ meant' = Meant(stack[u][d], u = t /\ d = Len(stack[t]),
                          u \notin unwound \/ d <= older[u])
        /\ UNCHANGED <<realVars, toolVars>>

Next == \E t \in Threads :
    \/ \E g \in Functions : callP(t, g)
    \/ invP(t)
    \/ updateRBP(t)
    \/ retP(t)
    \/ \E depth \in 1 .. StackWords : Unwind(t, depth)
    \/ \E u \in Threads, d, k \in 1 .. StackWords : dataman(t, u, d, k)

Spec == Init /\ [][Next]_vars
-----------------------------------------------------------------------------
(* Properties *)

Frame == [tid : Threads, fname : Functions \cup {""}, invNo : 0 .. MaxInv, rbp : 0 .. Word - 1]

\* Every variable has its type.
TypeOK ==
    /\ stack \in [Threads -> Seq(Frame)]
    /\ phase \in [Threads -> {"calling", "entered", "running", "ended"}]
    /\ callee \in [Threads -> Functions]
    /\ entries \in [Threads -> [Functions -> 0 .. MaxInv]]
    /\ older \in [Threads -> 0 .. StackWords]
    /\ invMap \in [Functions -> [Threads -> 0 .. MaxInv]]
    /\ DOMAIN RBPstack \subseteq 0 .. Word - 1
    /\ \A b \in DOMAIN RBPstack : RBPstack[b] \in Frame
    /\ invstack \in [Threads -> Seq(Frame)]

\* Until a thread leaves frames by an exception, the frames the tool has for it
\* are the frames it has, with the invocation each belongs to (fnlog), whatever
\* the other threads do.
InvstackTrue == \A t \in Threads \ unwound : invstack[t] = stack[t]

\* RBPstack, which all threads share, has of each thread without an exception
\* the frames it is in and no other: none outlives its function.
RBPstackTrue ==
    \A t \in Threads \ unwound :
        {b \in DOMAIN RBPstack : RBPstack[b].tid = t} =
            {stack[t][d].rbp : d \in DOMAIN stack[t]}

\* An access to a variable of any live frame of any thread is printed and attributed
\* to that frame, the variable of this invocation of this function by this thread,
\* if the frame is older than the exceptions of its thread: what these left in the
\* maps lies below it.  One printed as LOCAL is attributed so whatever was left.
AccessAttributed ==
    /\ meant.old => line.event # "MISSED"
    /\ line.event = "ACCESS" /\ (meant.old \/ line.VARCLASS = "LOCAL") =>
          line.owner = meant.frame

\* LOCAL is an access to the accessing function's own frame and no other, even with
\* the frames of exceptions in the maps; and an access to the own frame is LOCAL
\* until the thread has left a frame so (PIN/Work/memtracker.cpp, dataman).
LocalMeansOwn ==
    line.event = "ACCESS" =>
        /\ line.VARCLASS = "LOCAL" => meant.own
        /\ meant.own /\ line.tid \notin unwound => line.VARCLASS = "LOCAL"

\* No chain of calls leads from f back to it.
NotRecursive(f) ==
    \E S \in SUBSET (Functions \ {f}) :
        Calls[f] \subseteq S /\ \A g \in S : Calls[g] \subseteq S

\* The INVNO of a line is the invocation that executes it, in every function
\* that is not recursive, so pass2.py groups the accesses of one invocation
\* (PIN/Work/memtracker.cpp, invMap).
InvNoCurrent == \A t \in Threads :
    Running(t) /\ NotRecursive(Top(t).fname) => invMap[Top(t).fname][t] = Top(t).invNo
=============================================================================
