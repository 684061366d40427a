------------------------------ MODULE LockTrace ------------------------------
(***************************************************************************)
(* The lock bookkeeping of PIN/Work/memtracker.cpp: Routine hooks the lock *)
(* and unlock routines by symbol name, the hooks keep in syncs the locks   *)
(* each thread is credited with, and dataman prints them with an access.   *)
(*                                                                         *)
(* A hook runs before the routine it is placed on (IPOINT_BEFORE): a lock  *)
(* is entered in syncs before it is acquired and leaves it before it is    *)
(* released.  A thread is in user code, inside an acquiring routine, or    *)
(* inside a releasing one; libpthread itself is external.                  *)
(***************************************************************************)
EXTENDS StdMap, FiniteSets

CONSTANTS
    Threads,
    Mutexes, Semaphores, RWLocks,   \* addresses of the lock objects
    Tried,                          \* the mutexes pthread_mutex_trylock is called for
    MaxTokens                       \* bound on the count of a semaphore

Locks == Mutexes \cup Semaphores \cup RWLocks

ASSUME LocksAssumption ==
    /\ Mutexes \cap Semaphores = {}
    /\ Mutexes \cap RWLocks = {}
    /\ Semaphores \cap RWLocks = {}
ASSUME TriedAssumption == Tried \subseteq Mutexes
ASSUME MaxTokensAssumption == MaxTokens \in Nat

VARIABLES
    pc,         \* where each thread is: "user", "acquiring", "releasing"
    want,       \* the routine and the lock a thread is in a call of
    holders,    \* the threads that hold a mutex or a reader/writer lock
    writing,    \* the reader/writer locks held for writing
    tokens,     \* the count of each semaphore
    syncs,      \* thread -> lock address -> lock type
    line        \* the last line printed to the dump

toolVars == <<syncs, line>>
appVars == <<pc, want, holders, writing, tokens>>
vars == <<appVars, toolVars>>

-----------------------------------------------------------------------------
(* Routine: the hooks placed on the routines of the image *)

LockTypes == {"MUTEX", "SEMAPHONE", "READLOCK", "WRITELOCK"}

\* The name printed for a lock: unlocks[0] makes an empty name.
Unnamed == ""

LockHook == [r \in {"pthread_mutex_lock@plt", "sem_wait",
                    "__pthread_rwlock_rdlock", "__pthread_rwlock_wrlock"} |->
                CASE r = "pthread_mutex_lock@plt"  -> "MUTEX"
                  [] r = "sem_wait"                -> "SEMAPHONE"
                  [] r = "__pthread_rwlock_rdlock" -> "READLOCK"
                  [] r = "__pthread_rwlock_wrlock" -> "WRITELOCK"]

\* Fault: the unlock of a mutex is hooked under a name no image has.
UnlockHooksMissing == {"pthread_mutex_unlock", "thread_rwlock_unlock", "sem_post"}

UnlockHooks == {"pthread_mutex_unlock@plt", "thread_rwlock_unlock", "sem_post"}

\* libpthread's symbols for what a program does with a lock.
AcquireCalls == {<<"pthread_mutex_lock@plt", m>> : m \in Mutexes}
           \cup {<<"pthread_mutex_trylock@plt", m>> : m \in Tried}
           \cup {<<"sem_wait", s>> : s \in Semaphores}
           \cup {<<r, l>> : r \in {"__pthread_rwlock_rdlock",
                                   "__pthread_rwlock_wrlock"}, l \in RWLocks}
ReleaseCalls == {<<"pthread_mutex_unlock@plt", m>> : m \in Mutexes}
           \cup {<<"sem_post", s>> : s \in Semaphores}
           \cup {<<"__pthread_rwlock_unlock", l>> : l \in RWLocks}

-----------------------------------------------------------------------------
(* The hooks *)

\* Locks a thread is credited with.
Credited(t) == IF t \in DOMAIN syncs THEN DOMAIN syncs[t] ELSE {}

Line(t, event, type, locks) ==
    [tid |-> t, event |-> event, type |-> type, locks |-> locks]

\* Fault: the keys of the two maps are swapped.
lock_func_bf_Swapped(t, l, type) ==
    /\ syncs' = Insert(syncs, l, Insert(At(syncs, l, EmptyMap), t, type))
    /\ line' = Line(t, "LOCK", type, {l})

lock_func_bf(t, l, type) ==
    /\ syncs' = Insert(syncs, t, Insert(At(syncs, t, EmptyMap), l, type))
    /\ line' = Line(t, "LOCK", type, {l})

\* Fault: the whole entry of the thread goes with any lock.
unlock_func_EraseAll(t, l) ==
    LET mine == At(syncs, t, EmptyMap)
    IN  /\ line' = Line(t, "UNLOCK", At(mine, l, Unnamed), {l})
        /\ syncs' = Erase(syncs, t)

\* Fault: the lock is erased before its type is printed.
unlock_func_EraseFirst(t, l) ==
    LET left == Erase(At(syncs, t, EmptyMap), l)
    IN  /\ line' = Line(t, "UNLOCK", At(left, l, Unnamed), {l})
        /\ syncs' = IF DOMAIN left = {} THEN Erase(syncs, t)
                    ELSE Insert(syncs, t, left)

\* syncs[tid][addr] makes the entry it looks up; the thread's entry goes with
\* its last lock.
unlock_func(t, l) ==
    LET mine == At(syncs, t, EmptyMap)
        left == Erase(mine, l)
    IN  /\ line' = Line(t, "UNLOCK", At(mine, l, Unnamed), {l})
        /\ syncs' = IF DOMAIN left = {} THEN Erase(syncs, t)
                    ELSE Insert(syncs, t, left)

-----------------------------------------------------------------------------
(* The threads of the program *)

NoCall == <<"", "">>

Init ==
    /\ pc = [t \in Threads |-> "user"]
    /\ want = [t \in Threads |-> NoCall]
    /\ holders = [l \in Mutexes \cup RWLocks |-> {}]
    /\ writing = {}
    /\ tokens \in [Semaphores -> 0 .. MaxTokens]
    /\ syncs = EmptyMap
    /\ line = Line("none", "START", Unnamed, {})

\* A correct program neither relocks what it holds nor unlocks what it does
\* not hold; any thread may post a semaphore.
MayAcquire(t, l) == l \notin Semaphores => t \notin holders[l]
MayRelease(t, l) == IF l \in Semaphores THEN tokens[l] < MaxTokens
                                        ELSE t \in holders[l]

\* The call reaches the routine; the hook, if one was placed, runs first.
CallAcquire(t, call) ==
    /\ pc[t] = "user"
    /\ MayAcquire(t, call[2])
    /\ pc' = [pc EXCEPT ![t] = "acquiring"]
    /\ want' = [want EXCEPT ![t] = call]
    /\ IF call[1] \in DOMAIN LockHook
       THEN lock_func_bf(t, call[2], LockHook[call[1]])
       ELSE UNCHANGED toolVars
    /\ UNCHANGED <<holders, writing, tokens>>

CallRelease(t, call) ==
    /\ pc[t] = "user"
    /\ MayRelease(t, call[2])
    /\ pc' = [pc EXCEPT ![t] = "releasing"]
    /\ want' = [want EXCEPT ![t] = call]
    /\ IF call[1] \in UnlockHooks
       THEN unlock_func(t, call[2])
       ELSE UNCHANGED toolVars
    /\ UNCHANGED <<holders, writing, tokens>>

\* The routine returns with the lock.
AcquireMutex(t) ==
    /\ pc[t] = "acquiring"
    /\ want[t][2] \in Mutexes
    /\ holders[want[t][2]] = {}
    /\ holders' = [holders EXCEPT ![want[t][2]] = {t}]
    /\ pc' = [pc EXCEPT ![t] = "user"]
    /\ UNCHANGED <<want, writing, tokens, toolVars>>

\* pthread_mutex_trylock returns EBUSY.
TryLockFails(t) ==
    /\ pc[t] = "acquiring"
    /\ want[t][1] = "pthread_mutex_trylock@plt"
    /\ holders[want[t][2]] # {}
    /\ pc' = [pc EXCEPT ![t] = "user"]
    /\ UNCHANGED <<want, holders, writing, tokens, toolVars>>

AcquireRW(t) ==
    LET l == want[t][2]
        exclusive == want[t][1] = "__pthread_rwlock_wrlock"
    IN  /\ pc[t] = "acquiring"
        /\ l \in RWLocks \ writing
        /\ exclusive => holders[l] = {}
        /\ holders' = [holders EXCEPT ![l] = @ \cup {t}]
        /\ writing' = IF exclusive THEN writing \cup {l} ELSE writing
        /\ pc' = [pc EXCEPT ![t] = "user"]
        /\ UNCHANGED <<want, tokens, toolVars>>

TakeToken(t) ==
    LET s == want[t][2]
    IN  /\ pc[t] = "acquiring"
        /\ s \in Semaphores
        /\ tokens[s] > 0
        /\ tokens' = [tokens EXCEPT ![s] = @ - 1]
        /\ pc' = [pc EXCEPT ![t] = "user"]
        /\ UNCHANGED <<want, holders, writing, toolVars>>

\* The routine returns with the lock given up.
ReleaseHeld(t) ==
    LET l == want[t][2]
    IN  /\ pc[t] = "releasing"
        /\ l \in Mutexes \cup RWLocks
        /\ holders' = [holders EXCEPT ![l] = @ \ {t}]
        /\ writing' = writing \ {l}
        /\ pc' = [pc EXCEPT ![t] = "user"]
        /\ UNCHANGED <<want, tokens, toolVars>>

GiveToken(t) ==
    LET s == want[t][2]
    IN  /\ pc[t] = "releasing"
        /\ s \in Semaphores
        /\ tokens' = [tokens EXCEPT ![s] = IF @ < MaxTokens THEN @ + 1 ELSE @]
        /\ pc' = [pc EXCEPT ![t] = "user"]
        /\ UNCHANGED <<want, holders, writing, toolVars>>

\* pthread_cond_wait gives the mutex up and takes it again inside libpthread,
\* through none of the hooked symbols.
CondWait(t, m) ==
    /\ pc[t] = "user"
    /\ t \in holders[m]
    /\ holders' = [holders EXCEPT ![m] = @ \ {t}]
    /\ pc' = [pc EXCEPT ![t] = "acquiring"]
    /\ want' = [want EXCEPT ![t] = <<"pthread_mutex_lock@plt", m>>]
    /\ UNCHANGED <<writing, tokens, toolVars>>

\* An access in user code: the SYNCS field lists the entry of the thread.
dataman(t) ==
    /\ pc[t] = "user"
    /\ line' = Line(t, "ACCESS", Unnamed, Credited(t))
    /\ UNCHANGED <<appVars, syncs>>

Next == \E t \in Threads :
    \/ \E call \in AcquireCalls : CallAcquire(t, call)
    \/ \E call \in ReleaseCalls : CallRelease(t, call)
    \/ AcquireMutex(t)
    \/ TryLockFails(t)
    \/ AcquireRW(t)
    \/ TakeToken(t)
    \/ ReleaseHeld(t)
    \/ GiveToken(t)
    \/ \E m \in Mutexes : CondWait(t, m)
    \/ dataman(t)

Spec == Init /\ [][Next]_vars
-----------------------------------------------------------------------------
(* Properties *)

Routines == {c[1] : c \in AcquireCalls \cup ReleaseCalls} \cup {""}

\* Every variable has its type; a thread's entry in syncs is a map from lock
\* addresses to types, and goes with the last of them, so that an access without
\* locks is printed ASYNC.
TypeOK ==
    /\ pc \in [Threads -> {"user", "acquiring", "releasing"}]
    /\ want \in [Threads -> Routines \X (Locks \cup {""})]
    /\ holders \in [Mutexes \cup RWLocks -> SUBSET Threads]
    /\ writing \in SUBSET RWLocks
    /\ tokens \in [Semaphores -> 0 .. MaxTokens]
    /\ DOMAIN syncs \subseteq Threads
    /\ \A t \in DOMAIN syncs : syncs[t] \in UNION {[S -> LockTypes] : S \in (SUBSET Locks) \ {{}}}
    /\ line.locks \subseteq Locks
    /\ line.type \in LockTypes \cup {Unnamed}

\* The locks of a kind that t really holds.
Holds(t, kind) == {l \in kind : t \in holders[l]}

\* While a thread runs its own code, the mutexes dataman lists for it are among
\* those it holds, and only one that trylock may have taken is missing: the hooks
\* run early, but only while the thread is inside libpthread, and a wait on a
\* condition variable gives the mutex back.
MutexSyncsTruthful ==
    \A t \in Threads : pc[t] = "user" =>
        /\ Credited(t) \cap Mutexes \subseteq Holds(t, Mutexes)
        /\ Holds(t, Mutexes \ Tried) \subseteq Credited(t)

\* No access line claims for two threads at once a mutex both would hold.
MutexSyncsDisjoint ==
    \A t, u \in Threads :
        t # u /\ pc[t] = "user" /\ pc[u] = "user" =>
            Credited(t) \cap Credited(u) \cap Mutexes = {}

\* The UNLOCK line of a mutex names its type, unless trylock may have taken it;
\* pass2.py splits the line into key:value pairs and has no other way to read it.
UnlockTyped ==
    line.event = "UNLOCK" /\ line.locks \subseteq Mutexes \ Tried => line.type # Unnamed

\* The mutexes each thread is credited with, but for one it is still acquiring; a
\* line does not say where its thread is, but pc does.
HeldInTrace ==
    [t \in Threads |->
        IF pc[t] = "acquiring" THEN (Credited(t) \cap Mutexes) \ {want[t][2]}
                               ELSE Credited(t) \cap Mutexes]

\* So the lock sets behave as those of a monitor, whatever the hooks run ahead:
\* abstract specification MutexMonitor.
Monitor == INSTANCE MutexMonitor WITH held <- HeldInTrace
MonitorSpec == Monitor!Spec
=============================================================================
