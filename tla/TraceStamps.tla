----------------------------- MODULE TraceStamps -----------------------------
(***************************************************************************)
(* How the handlers of PIN/Work/memtracker.cpp write the dump.  Pin calls  *)
(* the handlers of different application threads concurrently and          *)
(* memtracker takes no lock around outp and timeStamp, so a handler is a   *)
(* sequence of steps: print the beginning of the line, load timeStamp,     *)
(* store it incremented, print the number, end the line.                   *)
(*                                                                         *)
(* The races on the stream and on the counter are undefined behaviour; the *)
(* model takes the mildest outcome a build produces, in which every "<<"   *)
(* is atomic and "++" is a load and a store.                               *)
(***************************************************************************)
EXTENDS Naturals, Sequences, FiniteSets

CONSTANTS
    Threads,    \* Pin thread ids of the traced program
    MaxEvents   \* bound on the events of a behaviour

ASSUME MaxEventsAssumption == MaxEvents \in Nat

VARIABLES
    pc,         \* where each thread is in its handler
    kind,       \* the event type each thread is printing
    reg,        \* the value of timeStamp a thread has loaded
    timeStamp,  \* the global event counter
    outp,       \* the fragments in the dump file, in file order
    closed,     \* Fini has closed the file
    log,        \* history: the numbered events, in file order
    stored,     \* history: every value ever stored in timeStamp
    overlap     \* history: two handlers have been active at once

vars == <<pc, kind, reg, timeStamp, outp, closed, log, stored, overlap>>

Kinds == {"READ", "WRITE", "CALL", "LOCK", "UNLOCK"}

Parts == {"head", "id", "tail"}

\* What one "<<" chain leaves in the file; a fragment that ends its line
\* carries the newline.
Fragment(t, part, eol) == [tid |-> t, part |-> part, eol |-> eol]

\* The kinds whose number is the last thing on the line.
StampLast == {"LOCK", "UNLOCK"}

\* Events begun so far, numbered or not.
Started == Len(log) + Cardinality({t \in Threads : pc[t] \in {"load", "store", "id"}})

\* Some thread other than t is in a handler.
Busy(t) == \E u \in Threads \ {t} : pc[u] # "run"

Init ==
    /\ pc = [t \in Threads |-> "run"]
    /\ kind = [t \in Threads |-> "CALL"]
    /\ reg = [t \in Threads |-> 0]
    /\ timeStamp = 0
    /\ outp = <<>>
    /\ closed = FALSE
    /\ log = <<>>
    /\ stored = {}
    /\ overlap = FALSE

-----------------------------------------------------------------------------
\* A thread goes from one statement of its handler to another.
Goto(t, from, to) ==
    /\ ~closed
    /\ pc[t] = from
    /\ pc' = [pc EXCEPT ![t] = to]

\* The statements of a handler before "id": event type, thread, names, locks.
PrintHead(t, k) ==
    /\ Goto(t, "run", "load")
    /\ Started < MaxEvents
    /\ kind' = [kind EXCEPT ![t] = k]
    /\ outp' = Append(outp, Fragment(t, "head", FALSE))
    /\ overlap' = (overlap \/ Busy(t))
    /\ UNCHANGED <<reg, timeStamp, closed, log, stored>>

dataman(t) == \E k \in {"READ", "WRITE"} : PrintHead(t, k)
callP(t) == PrintHead(t, "CALL")
lock_func_bf(t) == PrintHead(t, "LOCK")
unlock_func(t) == PrintHead(t, "UNLOCK")

\* Fault: --timeStamp.
LoadStampDecremented(t) ==
    /\ Goto(t, "load", "store")
    /\ reg' = [reg EXCEPT ![t] = timeStamp - 2]
    /\ UNCHANGED <<kind, timeStamp, outp, closed, log, stored, overlap>>

\* ++timeStamp, first half.
LoadStamp(t) ==
    /\ Goto(t, "load", "store")
    /\ reg' = [reg EXCEPT ![t] = timeStamp]
    /\ UNCHANGED <<kind, timeStamp, outp, closed, log, stored, overlap>>

StoreValue(t, n) ==
    /\ Goto(t, "store", "id")
    /\ timeStamp' = n
    /\ stored' = stored \cup {n}
    /\ UNCHANGED <<kind, reg, outp, closed, log, overlap>>

\* Fault: the counter advances by two.
StoreStampTwice(t) == StoreValue(t, reg[t] + 2)

\* ++timeStamp, second half.
StoreStamp(t) == StoreValue(t, reg[t] + 1)

PrintNumber(t, n, eol) ==
    /\ Goto(t, "id", IF kind[t] \in StampLast THEN "run" ELSE "tail")
    /\ outp' = Append(outp, Fragment(t, "id", eol))
    /\ log' = Append(log, [tid |-> t, kind |-> kind[t], id |-> n])
    /\ UNCHANGED <<kind, reg, timeStamp, closed, stored, overlap>>

\* Fault: timeStamp++, the value before the increment is printed.
PrintStampEarlier(t) == PrintNumber(t, reg[t], kind[t] \in StampLast)

\* Fault: the newline after the number of a LOCK or UNLOCK is forgotten.
PrintStampNoNewline(t) == PrintNumber(t, reg[t] + 1, FALSE)

\* " id " << ++timeStamp: the value printed is the one this thread computed.
PrintStamp(t) == PrintNumber(t, reg[t] + 1, kind[t] \in StampLast)

\* "INVNO " << ... << "\n" of dataman and callP.
PrintTail(t) ==
    /\ Goto(t, "tail", "run")
    /\ outp' = Append(outp, Fragment(t, "tail", TRUE))
    /\ UNCHANGED <<kind, reg, timeStamp, closed, log, stored, overlap>>

\* Fault: the file is closed from a handler.
FiniUnguarded(t) ==
    /\ ~closed
    /\ closed' = TRUE
    /\ overlap' = (overlap \/ Busy(t))
    /\ UNCHANGED <<pc, kind, reg, timeStamp, outp, log, stored>>

\* The program exits from the code of a thread that is in no handler.
Fini(t) ==
    /\ ~closed
    /\ pc[t] = "run"
    /\ closed' = TRUE
    /\ overlap' = (overlap \/ Busy(t))
    /\ UNCHANGED <<pc, kind, reg, timeStamp, outp, log, stored>>

Next ==
    \E t \in Threads :
        \/ dataman(t)
        \/ callP(t)
        \/ lock_func_bf(t)
        \/ unlock_func(t)
        \/ LoadStamp(t)
        \/ StoreStamp(t)
        \/ PrintStamp(t)
        \/ PrintTail(t)
        \/ Fini(t)

Spec == Init /\ [][Next]_vars
-----------------------------------------------------------------------------
(* Properties *)

\* Every variable has its type.
TypeOK ==
    /\ pc \in [Threads -> {"run", "load", "store", "id", "tail"}]
    /\ kind \in [Threads -> Kinds]
    /\ reg \in [Threads -> Nat]
    /\ timeStamp \in Nat
    /\ outp \in Seq([tid : Threads, part : Parts, eol : BOOLEAN])
    /\ closed \in BOOLEAN
    /\ log \in Seq([tid : Threads, kind : Kinds, id : Nat])
    /\ stored \in SUBSET Nat
    /\ overlap \in BOOLEAN

\* However the handlers race on timeStamp, no number is skipped and no event
\* carries a number that was not issued: the counter may fall back and issue
\* a number again, it never runs ahead of the events.
NoGaps ==
    /\ \A n \in stored : n = 1 \/ n - 1 \in stored
    /\ \A i \in DOMAIN log : log[i].id \in stored

\* Thread and number identify an event (PIN/README.md, THREADID, EVENTSEQ).
\* Does not survive handlers that overlap.
UniqueIds ==
    \A i, j \in DOMAIN log :
        i # j => <<log[i].tid, log[i].id>> # <<log[j].tid, log[j].id>>

\* As long as no two handlers have overlapped, every line of the dump starts
\* with an event's first statement and is the work of one handler, as pass2.py
\* needs to cut it into key:value pairs.
LinesWhole ==
    ~overlap =>
        \A i \in DOMAIN outp :
            LET first == i = 1 \/ outp[i - 1].eol
            IN  /\ first <=> outp[i].part = "head"
                /\ ~first => outp[i].tid = outp[i - 1].tid

\* The file Fini closes ends inside a line only if another thread was in a
\* handler, then or before.
DumpComplete ==
    closed /\ ~overlap => outp = <<>> \/ outp[Len(outp)].eol

\* The abstract trace.
Serial == INSTANCE EventLog

\* Until two handlers overlap, every event is appended whole and numbered by
\* its place: the dump is the log of EventLog, however many threads there are.
SerialLog == Serial!Init /\ [][~overlap' => Serial!Next]_log
=============================================================================
