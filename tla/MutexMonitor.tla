----------------------------- MODULE MutexMonitor -----------------------------
(***************************************************************************)
(* What the lock sets of a trace should look like to its reader: the sets  *)
(* of a monitor in which a mutex is with at most one thread at a time.     *)
(***************************************************************************)
CONSTANTS Threads, Mutexes

VARIABLE held

Init == held = [t \in Threads |-> {}]

Acquire(t, m) ==
    /\ \A u \in Threads : m \notin held[u]
    /\ held' = [held EXCEPT ![t] = @ \cup {m}]

Release(t, m) ==
    /\ m \in held[t]
    /\ held' = [held EXCEPT ![t] = @ \ {m}]

Next == \E t \in Threads, m \in Mutexes : Acquire(t, m) \/ Release(t, m)

Spec == Init /\ [][Next]_held
=============================================================================
