------------------------------ MODULE EventLog ------------------------------
(***************************************************************************)
(* What PIN/README.md promises of a trace: the events are listed in the    *)
(* order of their sequence numbers and the numbers identify them.  One     *)
(* step appends one whole event, stamped with its place in the log.        *)
(***************************************************************************)
EXTENDS Naturals, Sequences

CONSTANTS Threads, Kinds

VARIABLE log

Init == log = <<>>

Emit(t, k) ==
    log' = Append(log, [tid |-> t, kind |-> k, id |-> Len(log) + 1])

Next == \E t \in Threads, k \in Kinds : Emit(t, k)

Spec == Init /\ [][Next]_log
=============================================================================
