--------------------------- MODULE LockTraceProofs ---------------------------
(***************************************************************************)
(* A thread is listed with mutexes it holds, and with all of them but      *)
(* those that trylock may have taken, for any number of threads and locks  *)
(* of every kind.                                                          *)
(***************************************************************************)
EXTENDS LockTrace, TLAPS

-----------------------------------------------------------------------------
(* What the hooks do to the locks credited *)

\* The locks credited to t are the keys of the entry the hooks work on.
LEMMA CreditedIsEntry ==
    ASSUME NEW t
    PROVE  DOMAIN At(syncs, t, EmptyMap) = Credited(t)
<1>1. CASE t \in DOMAIN syncs
  BY <1>1 DEF At, Credited
<1>2. CASE t \notin DOMAIN syncs
  <2>1. DOMAIN EmptyMap = {}
    BY DEF EmptyMap
  <2> QED
    BY <1>2, <2>1 DEF At, Credited
<1> QED
  BY <1>1, <1>2

\* lock_func_bf credits one lock to its own thread.
LEMMA LockHookCredits ==
    ASSUME NEW t, NEW l, NEW type, lock_func_bf(t, l, type)
    PROVE  /\ Credited(t)' = Credited(t) \cup {l}
           /\ \A u : u # t => Credited(u)' = Credited(u)
<1> DEFINE mine == Insert(At(syncs, t, EmptyMap), l, type)
<1>1. syncs' = Insert(syncs, t, mine)
  BY DEF lock_func_bf
<1>2. DOMAIN mine = Credited(t) \cup {l}
  BY CreditedIsEntry DEF Insert
<1> HIDE DEF mine
<1>3. Credited(t)' = Credited(t) \cup {l}
  <2>1. t \in DOMAIN syncs' /\ syncs'[t] = mine
    BY <1>1 DEF Insert
  <2>2. Credited(t)' = DOMAIN syncs'[t]
    BY <2>1 DEF Credited
  <2> QED
    BY <1>2, <2>1, <2>2
<1>4. ASSUME NEW u, u # t PROVE Credited(u)' = Credited(u)
  <2>1. /\ u \in DOMAIN syncs' <=> u \in DOMAIN syncs
        /\ u \in DOMAIN syncs => syncs'[u] = syncs[u]
    BY <1>1, <1>4 DEF Insert
  <2> QED
    BY <2>1 DEF Credited
<1> QED
  BY <1>3, <1>4

\* unlock_func takes one lock from its own thread.
LEMMA UnlockHookCredits ==
    ASSUME NEW t, NEW l, unlock_func(t, l)
    PROVE  /\ Credited(t)' = Credited(t) \ {l}
           /\ \A u : u # t => Credited(u)' = Credited(u)
<1> DEFINE left == Erase(At(syncs, t, EmptyMap), l)
<1>1. syncs' = IF DOMAIN left = {} THEN Erase(syncs, t) ELSE Insert(syncs, t, left)
  BY DEF unlock_func
<1>2. DOMAIN left = Credited(t) \ {l}
  BY CreditedIsEntry DEF Erase
<1> HIDE DEF left
<1>3. Credited(t)' = Credited(t) \ {l}
  <2>1. CASE DOMAIN left = {}
    <3>1. t \notin DOMAIN syncs'
      BY <1>1, <2>1 DEF Erase
    <3>2. Credited(t)' = {}
      BY <3>1 DEF Credited
    <3> QED
      BY <1>2, <2>1, <3>2
  <2>2. CASE DOMAIN left # {}
    <3>1. t \in DOMAIN syncs' /\ syncs'[t] = left
      BY <1>1, <2>2 DEF Insert
    <3>2. Credited(t)' = DOMAIN syncs'[t]
      BY <3>1 DEF Credited
    <3> QED
      BY <1>2, <3>1, <3>2
  <2> QED
    BY <2>1, <2>2
<1>4. ASSUME NEW u, u # t PROVE Credited(u)' = Credited(u)
  <2>1. CASE DOMAIN left = {}
    <3>1. /\ u \in DOMAIN syncs' <=> u \in DOMAIN syncs
          /\ u \in DOMAIN syncs => syncs'[u] = syncs[u]
      BY <1>1, <1>4, <2>1 DEF Erase
    <3> QED
      BY <3>1 DEF Credited
  <2>2. CASE DOMAIN left # {}
    <3>1. /\ u \in DOMAIN syncs' <=> u \in DOMAIN syncs
          /\ u \in DOMAIN syncs => syncs'[u] = syncs[u]
      BY <1>1, <1>4, <2>2 DEF Insert
    <3> QED
      BY <3>1 DEF Credited
  <2> QED
    BY <2>1, <2>2
<1> QED
  BY <1>3, <1>4

-----------------------------------------------------------------------------
(* The inductive invariant *)

\* The calls a thread can be in.
CallsOK ==
    /\ pc \in [Threads -> {"user", "acquiring", "releasing"}]
    /\ want \in [Threads -> Routines \X (Locks \cup {""})]
    /\ holders \in [Mutexes \cup RWLocks -> SUBSET Threads]
    /\ \A t \in Threads :
          /\ pc[t] = "acquiring" => want[t] \in AcquireCalls
          /\ pc[t] = "releasing" => want[t] \in ReleaseCalls

\* Of m the entry of t says what is so, unless trylock may have taken it.
Shows(t, m) ==
    /\ m \in Credited(t) => t \in holders[m]
    /\ t \in holders[m] /\ m \notin Tried => m \in Credited(t)

\* The entry of a thread is right but for the lock of the call it is in, where
\* it runs ahead.
CreditOf(t, m) ==
    /\ pc[t] = "user" \/ want[t][2] # m => Shows(t, m)
    /\ pc[t] = "acquiring" /\ want[t][2] = m =>
          /\ t \notin holders[m]
          /\ want[t][1] = "pthread_mutex_trylock@plt" => m \notin Credited(t)
          /\ m \notin Tried => m \in Credited(t)
    /\ pc[t] = "releasing" /\ want[t][2] = m => m \notin Credited(t)

\* And a mutex has one holder.
CreditInv ==
    /\ \A m \in Mutexes : \A t, u \in holders[m] : t = u
    /\ \A t \in Threads, m \in Mutexes : CreditOf(t, m)

\* A call takes or gives a lock of the kind its routine is for.
LEMMA AcquireCallTypes ==
    ASSUME NEW c \in AcquireCalls
    PROVE  /\ c \in Routines \X Locks
           /\ c[2] \in Mutexes =>
                 \/ c[1] = "pthread_mutex_lock@plt"
                 \/ c[1] = "pthread_mutex_trylock@plt" /\ c[2] \in Tried
           /\ c[1] = "pthread_mutex_trylock@plt" => c[2] \in Mutexes
<1>1. c[1] \in Routines
  BY DEF Routines
<1>2. CASE c \in {<<"pthread_mutex_lock@plt", m>> : m \in Mutexes}
  BY <1>1, <1>2 DEF Locks
<1>3. CASE c \in {<<"pthread_mutex_trylock@plt", m>> : m \in Tried}
  BY <1>1, <1>3, TriedAssumption DEF Locks
<1>4. CASE c \in {<<"sem_wait", s>> : s \in Semaphores}
  BY <1>1, <1>4, LocksAssumption DEF Locks
<1>5. CASE c \in {<<r, l>> : r \in {"__pthread_rwlock_rdlock",
                                    "__pthread_rwlock_wrlock"}, l \in RWLocks}
  BY <1>1, <1>5, LocksAssumption DEF Locks
<1> QED
  BY <1>2, <1>3, <1>4, <1>5 DEF AcquireCalls

\* The same of the calls that give a lock up.
LEMMA ReleaseCallTypes ==
    ASSUME NEW c \in ReleaseCalls
    PROVE  /\ c \in Routines \X Locks
           /\ c[2] \in Mutexes => c[1] = "pthread_mutex_unlock@plt"
<1>1. c[1] \in Routines
  BY DEF Routines
<1>2. CASE c \in {<<"pthread_mutex_unlock@plt", m>> : m \in Mutexes}
  BY <1>1, <1>2 DEF Locks
<1>3. CASE c \in {<<"sem_post", s>> : s \in Semaphores}
  BY <1>1, <1>3, LocksAssumption DEF Locks
<1>4. CASE c \in {<<"__pthread_rwlock_unlock", l>> : l \in RWLocks}
  BY <1>1, <1>4, LocksAssumption DEF Locks
<1> QED
  BY <1>2, <1>3, <1>4 DEF ReleaseCalls

\* The hooks are placed on the routines that take and give mutexes, but trylock.
LEMMA MutexHooks ==
    /\ "pthread_mutex_lock@plt" \in DOMAIN LockHook
    /\ "pthread_mutex_trylock@plt" \notin DOMAIN LockHook
    /\ "pthread_mutex_unlock@plt" \in UnlockHooks
    /\ "" \in Routines
  BY DEF LockHook, UnlockHooks, Routines

\* Where a thread is and what it is calling fit together.
LEMMA CallsInvariant == Spec => []CallsOK
<1>1. Init => CallsOK
  <2> SUFFICES ASSUME Init PROVE CallsOK
    OBVIOUS
  <2>1. NoCall \in Routines \X (Locks \cup {""})
    BY MutexHooks DEF NoCall
  <2>2. want \in [Threads -> Routines \X (Locks \cup {""})]
    BY <2>1 DEF Init
  <2>3. \A t \in Threads : pc[t] = "user"
    BY DEF Init
  <2>4. pc \in [Threads -> {"user", "acquiring", "releasing"}]
    BY DEF Init
  <2>5. holders \in [Mutexes \cup RWLocks -> SUBSET Threads]
    BY DEF Init
  <2> QED
    BY <2>2, <2>3, <2>4, <2>5 DEF CallsOK
<1>2. CallsOK /\ [Next]_vars => CallsOK'
  <2> SUFFICES ASSUME CallsOK, [Next]_vars PROVE CallsOK'
    OBVIOUS
  <2>1. ASSUME NEW t \in Threads, NEW c \in AcquireCalls, CallAcquire(t, c) PROVE CallsOK'
    <3>1. c \in Routines \X Locks
      BY AcquireCallTypes
    <3> QED
      BY <2>1, <3>1 DEF CallAcquire, CallsOK
  <2>2. ASSUME NEW t \in Threads, NEW c \in ReleaseCalls, CallRelease(t, c) PROVE CallsOK'
    <3>1. c \in Routines \X Locks
      BY ReleaseCallTypes
    <3> QED
      BY <2>2, <3>1 DEF CallRelease, CallsOK
  <2>3. ASSUME NEW t \in Threads, AcquireMutex(t) PROVE CallsOK'
    BY <2>3 DEF AcquireMutex, CallsOK
  <2>4. ASSUME NEW t \in Threads, TryLockFails(t) PROVE CallsOK'
    BY <2>4 DEF TryLockFails, CallsOK
  <2>5. ASSUME NEW t \in Threads, AcquireRW(t) PROVE CallsOK'
    BY <2>5 DEF AcquireRW, CallsOK
  <2>6. ASSUME NEW t \in Threads, TakeToken(t) PROVE CallsOK'
    BY <2>6 DEF TakeToken, CallsOK
  <2>7. ASSUME NEW t \in Threads, ReleaseHeld(t) PROVE CallsOK'
    BY <2>7 DEF ReleaseHeld, CallsOK
  <2>8. ASSUME NEW t \in Threads, GiveToken(t) PROVE CallsOK'
    BY <2>8 DEF GiveToken, CallsOK
  <2>9. ASSUME NEW t \in Threads, NEW m \in Mutexes, CondWait(t, m) PROVE CallsOK'
    <3>1. <<"pthread_mutex_lock@plt", m>> \in AcquireCalls
      BY DEF AcquireCalls
    <3>2. <<"pthread_mutex_lock@plt", m>> \in Routines \X Locks
      BY <3>1, AcquireCallTypes
    <3> QED
      BY <2>9, <3>1, <3>2 DEF CondWait, CallsOK
  <2>10. ASSUME NEW t \in Threads, dataman(t) PROVE CallsOK'
    BY <2>10 DEF dataman, appVars, CallsOK
  <2>11. CASE UNCHANGED vars
    BY <2>11 DEF vars, appVars, CallsOK
  <2> QED
    BY <2>1, <2>2, <2>3, <2>4, <2>5, <2>6, <2>7, <2>8, <2>9, <2>10, <2>11 DEF Next
<1> QED
  BY <1>1, <1>2, PTL DEF Spec
\* CreditInv is inductive.
LEMMA CreditInvariant == Spec => []CreditInv
<1>1. Init => CreditInv
  BY DEF Init, CreditInv, CreditOf, Shows, Credited, EmptyMap
<1>2. CallsOK /\ CreditInv /\ [Next]_vars => CreditInv'
  <2> SUFFICES ASSUME CallsOK, CreditInv, [Next]_vars PROVE CreditInv'
    OBVIOUS
  <2>0. UNCHANGED syncs => \A u \in Threads : Credited(u)' = Credited(u)
    BY DEF Credited
  <2>1. ASSUME NEW t \in Threads, NEW c \in AcquireCalls, CallAcquire(t, c)
        PROVE  CreditInv'
    <3>1. /\ pc[t] = "user" /\ pc'[t] = "acquiring" /\ want'[t] = c
          /\ \A u \in Threads \ {t} : pc'[u] = pc[u] /\ want'[u] = want[u]
          /\ holders' = holders
      BY <2>1 DEF CallAcquire, CallsOK
    <3>2. c[2] \in Mutexes => t \notin holders[c[2]]
      BY <2>1, LocksAssumption DEF CallAcquire, MayAcquire
    <3>3. CASE c[1] \in DOMAIN LockHook
      <4>1. /\ Credited(t)' = Credited(t) \cup {c[2]}
            /\ \A u \in Threads \ {t} : Credited(u)' = Credited(u)
        BY <2>1, <3>3, LockHookCredits DEF CallAcquire
      <4>2. c[1] # "pthread_mutex_trylock@plt"
        BY <3>3, MutexHooks
      <4> QED
        BY <3>1, <3>2, <4>1, <4>2 DEF CreditInv, CreditOf, Shows
    <3>4. CASE c[1] \notin DOMAIN LockHook
      <4>1. \A u \in Threads : Credited(u)' = Credited(u)
        BY <2>0, <2>1, <3>4 DEF CallAcquire, toolVars
      <4>2. c[2] \in Mutexes => c[2] \in Tried /\ c[2] \notin Credited(t)
        <5>1. ASSUME c[2] \in Mutexes PROVE c[2] \in Tried
          BY <3>4, <5>1, AcquireCallTypes, MutexHooks
        <5>2. ASSUME c[2] \in Mutexes PROVE Shows(t, c[2])
          BY <3>1, <5>2 DEF CreditInv, CreditOf
        <5> QED
          BY <3>2, <5>1, <5>2 DEF Shows
      <4> QED
        BY <3>1, <3>2, <4>1, <4>2 DEF CreditInv, CreditOf, Shows
    <3> QED
      BY <3>3, <3>4
  <2>2. ASSUME NEW t \in Threads, NEW c \in ReleaseCalls, CallRelease(t, c)
        PROVE  CreditInv'
    <3>1. /\ pc[t] = "user" /\ pc'[t] = "releasing" /\ want'[t] = c
          /\ \A u \in Threads \ {t} : pc'[u] = pc[u] /\ want'[u] = want[u]
          /\ holders' = holders
      BY <2>2 DEF CallRelease, CallsOK
    <3>2. CASE c[1] \in UnlockHooks
      <4>1. /\ Credited(t)' = Credited(t) \ {c[2]}
            /\ \A u \in Threads \ {t} : Credited(u)' = Credited(u)
        BY <2>2, <3>2, UnlockHookCredits DEF CallRelease
      <4> QED
        BY <3>1, <4>1 DEF CreditInv, CreditOf, Shows
    <3>3. CASE c[1] \notin UnlockHooks
      <4>1. \A u \in Threads : Credited(u)' = Credited(u)
        BY <2>0, <2>2, <3>3 DEF CallRelease, toolVars
      <4>2. c[2] \notin Mutexes
        BY <3>3, ReleaseCallTypes, MutexHooks
      <4> QED
        BY <3>1, <4>1, <4>2 DEF CreditInv, CreditOf, Shows
    <3> QED
      BY <3>2, <3>3
  <2>3. ASSUME NEW t \in Threads, AcquireMutex(t) PROVE CreditInv'
    <3> DEFINE m == want[t][2]
    <3>1. /\ m \in Mutexes /\ holders[m] = {} /\ pc[t] = "acquiring" /\ pc'[t] = "user"
          /\ \A u \in Threads \ {t} : pc'[u] = pc[u]
          /\ want' = want
          /\ \A u \in Threads : Credited(u)' = Credited(u)
      BY <2>0, <2>3 DEF AcquireMutex, toolVars, CallsOK
    <3>2. /\ holders'[m] = {t}
          /\ \A l \in Mutexes \ {m} : holders'[l] = holders[l]
      BY <2>3, <3>1 DEF AcquireMutex, CallsOK
    <3>3. \A l \in Mutexes : \A u, v \in holders'[l] : u = v
      BY <3>2 DEF CreditInv
    <3>4. m = want[t][2]
      OBVIOUS
    <3> HIDE DEF m
    <3> QED
      BY <3>1, <3>2, <3>3, <3>4 DEF CreditInv, CreditOf, Shows
  <2>4. ASSUME NEW t \in Threads, TryLockFails(t) PROVE CreditInv'
    <3>1. /\ pc[t] = "acquiring" /\ pc'[t] = "user"
          /\ want[t][1] = "pthread_mutex_trylock@plt"
          /\ \A u \in Threads \ {t} : pc'[u] = pc[u]
          /\ want' = want /\ holders' = holders
          /\ \A u \in Threads : Credited(u)' = Credited(u)
      BY <2>0, <2>4 DEF TryLockFails, toolVars, CallsOK
    <3> QED
      BY <3>1 DEF CreditInv, CreditOf, Shows
  <2>5. ASSUME NEW t \in Threads, AcquireRW(t) PROVE CreditInv'
    <3>1. /\ want[t][2] \in RWLocks /\ want[t][2] \notin Mutexes
          /\ pc[t] = "acquiring" /\ pc'[t] = "user"
          /\ \A u \in Threads \ {t} : pc'[u] = pc[u]
          /\ want' = want
          /\ \A u \in Threads : Credited(u)' = Credited(u)
      BY <2>0, <2>5, LocksAssumption DEF AcquireRW, toolVars, CallsOK
    <3>2. \A l \in Mutexes : holders'[l] = holders[l]
      BY <2>5, <3>1 DEF AcquireRW, CallsOK
    <3> QED
      BY <3>1, <3>2 DEF CreditInv, CreditOf, Shows
  <2>6. ASSUME NEW t \in Threads, TakeToken(t) PROVE CreditInv'
    <3>1. /\ want[t][2] \notin Mutexes
          /\ pc[t] = "acquiring" /\ pc'[t] = "user"
          /\ \A u \in Threads \ {t} : pc'[u] = pc[u]
          /\ want' = want /\ holders' = holders
          /\ \A u \in Threads : Credited(u)' = Credited(u)
      BY <2>0, <2>6, LocksAssumption DEF TakeToken, toolVars, CallsOK
    <3> QED
      BY <3>1 DEF CreditInv, CreditOf, Shows
  <2>7. ASSUME NEW t \in Threads, ReleaseHeld(t) PROVE CreditInv'
    <3> DEFINE l == want[t][2]
    <3>1. /\ pc[t] = "releasing" /\ pc'[t] = "user"
          /\ \A u \in Threads \ {t} : pc'[u] = pc[u]
          /\ want' = want
          /\ \A u \in Threads : Credited(u)' = Credited(u)
      BY <2>0, <2>7 DEF ReleaseHeld, toolVars, CallsOK
    <3>2. \A k \in Mutexes : holders'[k] = IF k = l THEN holders[k] \ {t} ELSE holders[k]
      BY <2>7 DEF ReleaseHeld, CallsOK
    <3>3. \A k \in Mutexes : \A u, v \in holders'[k] : u = v
      BY <3>2 DEF CreditInv
    <3> QED
      <4> SUFFICES ASSUME NEW u \in Threads, NEW k \in Mutexes PROVE CreditOf(u, k)'
        BY <3>3 DEF CreditInv
      <4>1. CreditOf(u, k)
        BY DEF CreditInv
      <4>2. CASE u = t /\ k = l
        BY <3>1, <3>2, <4>1, <4>2 DEF CreditOf, Shows
      <4>3. CASE u = t /\ k # l
        BY <3>1, <3>2, <4>1, <4>3 DEF CreditOf, Shows
      <4>4. CASE u # t
        <5>1. u \in holders'[k] <=> u \in holders[k]
          BY <3>2, <4>4
        <5> QED
          BY <3>1, <4>1, <4>4, <5>1 DEF CreditOf, Shows
      <4> QED
        BY <4>2, <4>3, <4>4
  <2>8. ASSUME NEW t \in Threads, GiveToken(t) PROVE CreditInv'
    <3>1. /\ want[t][2] \notin Mutexes
          /\ pc[t] = "releasing" /\ pc'[t] = "user"
          /\ \A u \in Threads \ {t} : pc'[u] = pc[u]
          /\ want' = want /\ holders' = holders
          /\ \A u \in Threads : Credited(u)' = Credited(u)
      BY <2>0, <2>8, LocksAssumption DEF GiveToken, toolVars, CallsOK
    <3> QED
      BY <3>1 DEF CreditInv, CreditOf, Shows
  <2>9. ASSUME NEW t \in Threads, NEW m \in Mutexes, CondWait(t, m) PROVE CreditInv'
    <3>1. /\ pc[t] = "user" /\ pc'[t] = "acquiring"
          /\ want'[t][1] = "pthread_mutex_lock@plt" /\ want'[t][2] = m
          /\ \A u \in Threads \ {t} : pc'[u] = pc[u] /\ want'[u] = want[u]
          /\ \A u \in Threads : Credited(u)' = Credited(u)
          /\ t \in holders[m]
      BY <2>0, <2>9 DEF CondWait, toolVars, CallsOK
    <3>2. \A k \in Mutexes : holders'[k] = IF k = m THEN holders[k] \ {t} ELSE holders[k]
      BY <2>9 DEF CondWait, CallsOK
    <3>3. \A k \in Mutexes : \A u, v \in holders'[k] : u = v
      BY <3>2 DEF CreditInv
    <3> QED
      <4> SUFFICES ASSUME NEW u \in Threads, NEW k \in Mutexes PROVE CreditOf(u, k)'
        BY <3>3 DEF CreditInv
      <4>1. CreditOf(u, k)
        BY DEF CreditInv
      <4>2. CASE u = t /\ k = m
        <5>1. t \notin holders'[m]
          BY <3>2
        <5>2. m \notin Tried => m \in Credited(t)'
          BY <3>1, <4>1, <4>2 DEF CreditOf, Shows
        <5> QED
          BY <3>1, <4>2, <5>1, <5>2 DEF CreditOf
      <4>3. CASE u = t /\ k # m
        <5>1. Shows(t, k)'
          BY <3>1, <3>2, <4>1, <4>3 DEF CreditOf, Shows
        <5> QED
          BY <3>1, <4>3, <5>1 DEF CreditOf
      <4>4. CASE u # t
        <5>1. u \in holders'[k] <=> u \in holders[k]
          BY <3>2, <4>4
        <5> QED
          BY <3>1, <4>1, <4>4, <5>1 DEF CreditOf, Shows
      <4> QED
        BY <4>2, <4>3, <4>4
  <2>10. ASSUME NEW t \in Threads, dataman(t) PROVE CreditInv'
    <3>1. /\ pc' = pc /\ want' = want /\ holders' = holders
          /\ \A u \in Threads : Credited(u)' = Credited(u)
      BY <2>0, <2>10 DEF dataman, appVars
    <3> QED
      BY <3>1 DEF CreditInv, CreditOf, Shows
  <2>11. CASE UNCHANGED vars
    <3>1. /\ pc' = pc /\ want' = want /\ holders' = holders
          /\ \A u \in Threads : Credited(u)' = Credited(u)
      BY <2>0, <2>11 DEF vars, appVars, toolVars
    <3> QED
      BY <3>1 DEF CreditInv, CreditOf, Shows
  <2> QED
    BY <2>1, <2>2, <2>3, <2>4, <2>5, <2>6, <2>7, <2>8, <2>9, <2>10, <2>11 DEF Next
<1> QED
  BY <1>1, <1>2, CallsInvariant, PTL DEF Spec

-----------------------------------------------------------------------------
(* The entries of syncs *)

\* What a thread's entry is: a type for each lock of some, at least one.
Entries == UNION {[S -> LockTypes] : S \in (SUBSET Locks) \ {{}}}

EntriesOK ==
    /\ DOMAIN syncs \subseteq Threads
    /\ \A t \in DOMAIN syncs : syncs[t] \in Entries

\* The line printed has locks, and the type of one.
LineOK == line.locks \subseteq Locks /\ line.type \in LockTypes \cup {Unnamed}

\* A map from locks to their types is an entry, unless it is empty.
LEMMA EntryFacts ==
    /\ \A S \in SUBSET Locks : \A e \in [S -> LockTypes] : S # {} => e \in Entries
    /\ \A e \in Entries : /\ DOMAIN e \subseteq Locks /\ DOMAIN e # {}
                          /\ \A l \in DOMAIN e : e[l] \in LockTypes
  BY DEF Entries

\* The entry that the hooks work on, which is empty for a thread without locks.
LEMMA EntryOfThread ==
    ASSUME EntriesOK, NEW t \in Threads
    PROVE  /\ DOMAIN At(syncs, t, EmptyMap) \subseteq Locks
           /\ \A l \in DOMAIN At(syncs, t, EmptyMap) : At(syncs, t, EmptyMap)[l] \in LockTypes
<1>1. CASE t \in DOMAIN syncs
  BY <1>1, EntryFacts DEF EntriesOK, At
<1>2. CASE t \notin DOMAIN syncs
  BY <1>2 DEF At, EmptyMap
<1> QED
  BY <1>1, <1>2

\* lock_func_bf leaves entries of syncs, and prints a line with the type of the lock.
LEMMA LockHookTyped ==
    ASSUME EntriesOK, NEW t \in Threads, NEW l \in Locks, NEW type \in LockTypes,
           lock_func_bf(t, l, type)
    PROVE  EntriesOK' /\ LineOK'
<1> DEFINE e == At(syncs, t, EmptyMap)
           mine == Insert(e, l, type)
<1>1. DOMAIN e \subseteq Locks /\ \A k \in DOMAIN e : e[k] \in LockTypes
  BY EntryOfThread
<1> HIDE DEF e
<1>2. mine \in Entries
  <2>1. mine \in [DOMAIN e \cup {l} -> LockTypes]
    BY <1>1 DEF Insert
  <2> QED
    BY <1>1, <2>1, EntryFacts
<1>3. syncs' = Insert(syncs, t, mine)
  BY DEF lock_func_bf, e
<1> HIDE DEF mine
<1>4. EntriesOK'
  BY <1>2, <1>3 DEF EntriesOK, Insert
<1>5. LineOK'
  BY DEF lock_func_bf, Line, LineOK
<1> QED
  BY <1>4, <1>5

\* unlock_func leaves entries of syncs too, and the line has the type of the lock if
\* the thread was credited with it.
LEMMA UnlockHookTyped ==
    ASSUME EntriesOK, NEW t \in Threads, NEW l \in Locks, unlock_func(t, l)
    PROVE  /\ EntriesOK' /\ LineOK'
           /\ line'.locks = {l}
           /\ l \in Credited(t) => line'.type \in LockTypes
<1> DEFINE e == At(syncs, t, EmptyMap)
           left == Erase(e, l)
<1>1. DOMAIN e \subseteq Locks /\ \A k \in DOMAIN e : e[k] \in LockTypes
  BY EntryOfThread
<1>2. DOMAIN e = Credited(t)
  BY CreditedIsEntry
<1>3. /\ syncs' = IF DOMAIN left = {} THEN Erase(syncs, t) ELSE Insert(syncs, t, left)
      /\ line' = Line(t, "UNLOCK", At(e, l, Unnamed), {l})
  BY DEF unlock_func
<1> HIDE DEF e
<1>4. DOMAIN left # {} => left \in Entries
  <2>1. DOMAIN left \subseteq Locks /\ left \in [DOMAIN left -> LockTypes]
    BY <1>1 DEF Erase
  <2> QED
    BY <2>1, EntryFacts
<1> HIDE DEF left
<1>5. EntriesOK'
  <2>1. CASE DOMAIN left = {}
    BY <1>3, <2>1 DEF EntriesOK, Erase
  <2>2. CASE DOMAIN left # {}
    BY <1>3, <1>4, <2>2 DEF EntriesOK, Insert
  <2> QED
    BY <2>1, <2>2
<1>6. line'.locks = {l} /\ line'.type = At(e, l, Unnamed)
  BY <1>3 DEF Line
<1>7. /\ l \in DOMAIN e => At(e, l, Unnamed) \in LockTypes
      /\ l \notin DOMAIN e => At(e, l, Unnamed) = Unnamed
  BY <1>1 DEF At
<1> QED
  BY <1>2, <1>5, <1>6, <1>7 DEF LineOK

\* The lock objects that no hook keeps: those of libpthread.
LibOK == writing \in SUBSET RWLocks /\ tokens \in [Semaphores -> 0 .. MaxTokens]

TypesInv == EntriesOK /\ LineOK /\ LibOK /\ UnlockTyped

\* TypesInv is inductive: a mutex that is given up is one its thread is credited with,
\* unless it was tried.
LEMMA TypesInvariant == Spec => []TypesInv
<1>1. Init => TypesInv
  <2> SUFFICES ASSUME Init PROVE TypesInv
    OBVIOUS
  <2>1. line = Line("none", "START", Unnamed, {})
    BY DEF Init
  <2>2. LineOK /\ UnlockTyped
    BY <2>1 DEF LineOK, UnlockTyped, Line
  <2>3. EntriesOK /\ LibOK
    BY DEF Init, EntriesOK, LibOK, EmptyMap
  <2> QED
    BY <2>2, <2>3 DEF TypesInv
<1>2. CallsOK /\ CreditInv /\ TypesInv /\ [Next]_vars => TypesInv'
  <2> SUFFICES ASSUME CallsOK, CreditInv, TypesInv, [Next]_vars PROVE TypesInv'
    OBVIOUS
  <2> USE DEF TypesInv
  <2>0. UNCHANGED toolVars => EntriesOK' /\ LineOK' /\ UnlockTyped'
    BY DEF toolVars, EntriesOK, LineOK, UnlockTyped
  <2>1. ASSUME NEW t \in Threads, NEW c \in AcquireCalls, CallAcquire(t, c) PROVE TypesInv'
    <3>1. LibOK'
      BY <2>1 DEF CallAcquire, LibOK
    <3>2. CASE c[1] \in DOMAIN LockHook
      <4>1. LockHook[c[1]] \in LockTypes /\ c[2] \in Locks
        BY <3>2, AcquireCallTypes DEF LockHook, LockTypes
      <4>2. lock_func_bf(t, c[2], LockHook[c[1]])
        BY <2>1, <3>2 DEF CallAcquire
      <4>3. EntriesOK' /\ LineOK'
        BY <4>1, <4>2, LockHookTyped
      <4>4. UnlockTyped'
        BY <4>2 DEF lock_func_bf, Line, UnlockTyped
      <4> QED
        BY <3>1, <4>3, <4>4
    <3>3. CASE c[1] \notin DOMAIN LockHook
      BY <2>0, <2>1, <3>1, <3>3 DEF CallAcquire
    <3> QED
      BY <3>2, <3>3
  <2>2. ASSUME NEW t \in Threads, NEW c \in ReleaseCalls, CallRelease(t, c) PROVE TypesInv'
    <3>1. LibOK'
      BY <2>2 DEF CallRelease, LibOK
    <3>2. CASE c[1] \in UnlockHooks
      <4>1. unlock_func(t, c[2]) /\ c[2] \in Locks
        BY <2>2, <3>2, ReleaseCallTypes DEF CallRelease
      <4>2. /\ EntriesOK' /\ LineOK' /\ line'.locks = {c[2]}
            /\ c[2] \in Credited(t) => line'.type \in LockTypes
        BY <4>1, UnlockHookTyped
      <4>3. c[2] \in Mutexes \ Tried => c[2] \in Credited(t)
        <5> SUFFICES ASSUME c[2] \in Mutexes, c[2] \notin Tried
                     PROVE  c[2] \in Credited(t)
          OBVIOUS
        <5>1. pc[t] = "user" /\ t \in holders[c[2]]
          BY <2>2, LocksAssumption DEF CallRelease, MayRelease
        <5> QED
          BY <5>1 DEF CreditInv, CreditOf, Shows
      <4>4. UnlockTyped'
        BY <4>2, <4>3 DEF UnlockTyped, LockTypes, Unnamed
      <4> QED
        BY <3>1, <4>2, <4>4
    <3>3. CASE c[1] \notin UnlockHooks
      BY <2>0, <2>2, <3>1, <3>3 DEF CallRelease
    <3> QED
      BY <3>2, <3>3
  <2>3. ASSUME NEW t \in Threads, AcquireMutex(t) PROVE TypesInv'
    BY <2>0, <2>3 DEF AcquireMutex, LibOK
  <2>4. ASSUME NEW t \in Threads, TryLockFails(t) PROVE TypesInv'
    BY <2>0, <2>4 DEF TryLockFails, LibOK
  <2>5. ASSUME NEW t \in Threads, AcquireRW(t) PROVE TypesInv'
    BY <2>0, <2>5 DEF AcquireRW, LibOK
  <2>6. ASSUME NEW t \in Threads, TakeToken(t) PROVE TypesInv'
    <3>1. tokens' \in [Semaphores -> 0 .. MaxTokens]
      BY <2>6, MaxTokensAssumption DEF TakeToken, LibOK
    <3> QED
      BY <2>0, <2>6, <3>1 DEF TakeToken, LibOK
  <2>7. ASSUME NEW t \in Threads, ReleaseHeld(t) PROVE TypesInv'
    BY <2>0, <2>7 DEF ReleaseHeld, LibOK
  <2>8. ASSUME NEW t \in Threads, GiveToken(t) PROVE TypesInv'
    <3>1. tokens' \in [Semaphores -> 0 .. MaxTokens]
      BY <2>8, MaxTokensAssumption DEF GiveToken, LibOK
    <3> QED
      BY <2>0, <2>8, <3>1 DEF GiveToken, LibOK
  <2>9. ASSUME NEW t \in Threads, NEW m \in Mutexes, CondWait(t, m) PROVE TypesInv'
    BY <2>0, <2>9 DEF CondWait, LibOK
  <2>10. ASSUME NEW t \in Threads, dataman(t) PROVE TypesInv'
    <3>1. EntriesOK' /\ LibOK'
      BY <2>10 DEF dataman, appVars, EntriesOK, LibOK
    <3>2. Credited(t) \subseteq Locks
      BY EntryFacts DEF EntriesOK, Credited
    <3>3. LineOK' /\ UnlockTyped'
      BY <2>10, <3>2 DEF dataman, Line, LineOK, UnlockTyped
    <3> QED
      BY <3>1, <3>3
  <2>11. CASE UNCHANGED vars
    BY <2>0, <2>11 DEF vars, appVars, LibOK
  <2> QED
    BY <2>1, <2>2, <2>3, <2>4, <2>5, <2>6, <2>7, <2>8, <2>9, <2>10, <2>11 DEF Next
<1> QED
  BY <1>1, <1>2, CallsInvariant, CreditInvariant, PTL DEF Spec

-----------------------------------------------------------------------------
(* The theorems *)

\* Type correctness for any threads and locks; an entry of syncs is never left empty.
THEOREM TypeCorrect == Spec => []TypeOK
<1>1. CallsOK /\ TypesInv => TypeOK
  BY DEF CallsOK, TypesInv, EntriesOK, Entries, LineOK, LibOK, TypeOK
<1> QED
  BY <1>1, CallsInvariant, TypesInvariant, PTL

\* An UNLOCK of a mutex that was not tried names its type (unlock_func), which is
\* what pass2.py needs to read the line.
THEOREM UnlocksAreTyped == Spec => []UnlockTyped
<1>1. TypesInv => UnlockTyped
  BY DEF TypesInv
<1> QED
  BY <1>1, TypesInvariant, PTL

\* The mutexes listed with an access are mutexes its thread holds, and none is
\* missing but one that trylock may have taken (dataman, the SYNCS field).
THEOREM MutexSyncsAreHeld == Spec => []MutexSyncsTruthful
<1>1. CreditInv => MutexSyncsTruthful
  BY TriedAssumption DEF CreditInv, CreditOf, Shows, MutexSyncsTruthful, Holds
<1> QED
  BY <1>1, CreditInvariant, PTL

\* Two threads in their own code are never both listed with the same mutex,
\* tried or not (dataman, the SYNCS field).
THEOREM MutexSyncsAreDisjoint == Spec => []MutexSyncsDisjoint
<1>1. CreditInv => MutexSyncsDisjoint
  BY DEF CreditInv, CreditOf, Shows, MutexSyncsDisjoint
<1> QED
  BY <1>1, CreditInvariant, PTL

-----------------------------------------------------------------------------
(* Refinement *)

\* The mutexes the trace shows t with.
Shown(t) == HeldInTrace[t]

\* A mutex that is shown is held, and is not the one the thread is calling for.
LEMMA ShownFacts ==
    ASSUME CallsOK, CreditInv, NEW t \in Threads, NEW m \in Mutexes
    PROVE  /\ m \in Shown(t) <=>
                 m \in Credited(t) /\ (pc[t] = "acquiring" => want[t][2] # m)
           /\ m \in Shown(t) => t \in holders[m]
<1>1. m \in Shown(t) <=> m \in Credited(t) /\ (pc[t] = "acquiring" => want[t][2] # m)
  BY DEF Shown, HeldInTrace
<1>2. m \in Shown(t) => t \in holders[m]
  BY <1>1 DEF CallsOK, CreditInv, CreditOf, Shows
<1> QED
  BY <1>1, <1>2

\* The lock sets of the trace are those of a monitor: a mutex enters a set when
\* no other set has it and leaves the set it is in (MutexMonitor).
THEOREM TraceIsMonitor == Spec => MonitorSpec
<1>1. Init => Monitor!Init
  BY DEF Init, Monitor!Init, HeldInTrace, Credited, EmptyMap
<1>2. /\ CallsOK /\ CreditInv
      /\ CallsOK' /\ CreditInv'
      /\ [Next]_vars
      => [Monitor!Next]_HeldInTrace
  <2> SUFFICES ASSUME CallsOK, CreditInv, CallsOK', CreditInv', [Next]_vars
               PROVE  [Monitor!Next]_HeldInTrace
    OBVIOUS
  <2>0. UNCHANGED syncs => \A u \in Threads : Credited(u)' = Credited(u)
    BY DEF Credited
  <2>a. /\ HeldInTrace = [u \in Threads |-> Shown(u)]
        /\ HeldInTrace' = [u \in Threads |-> Shown(u)']
        /\ \A u \in Threads : Shown(u) \subseteq Mutexes /\ Shown(u)' \subseteq Mutexes
    BY DEF Shown, HeldInTrace
  <2>b. ASSUME NEW u \in Threads, NEW m \in Mutexes
        PROVE  /\ m \in Shown(u) <=>
                     m \in Credited(u) /\ (pc[u] = "acquiring" => want[u][2] # m)
               /\ m \in Shown(u) => u \in holders[m]
               /\ m \in Shown(u)' <=>
                     m \in Credited(u)' /\ (pc'[u] = "acquiring" => want'[u][2] # m)
    <3>1. /\ m \in Shown(u) <=>
                m \in Credited(u) /\ (pc[u] = "acquiring" => want[u][2] # m)
          /\ m \in Shown(u) => u \in holders[m]
      BY ShownFacts
    <3>2. m \in Shown(u)' <=>
             m \in Credited(u)' /\ (pc'[u] = "acquiring" => want'[u][2] # m)
      BY DEF Shown, HeldInTrace
    <3> QED
      BY <3>1, <3>2
  <2>1. ASSUME \A u \in Threads : Shown(u)' = Shown(u) PROVE [Monitor!Next]_HeldInTrace
    BY <2>a, <2>1
  <2>2. ASSUME NEW t \in Threads, NEW m \in Mutexes,
               \A u \in Threads : m \notin Shown(u),
               Shown(t)' = Shown(t) \cup {m},
               \A u \in Threads \ {t} : Shown(u)' = Shown(u)
        PROVE  [Monitor!Next]_HeldInTrace
    <3>1. Monitor!Acquire(t, m)
      BY <2>a, <2>2 DEF Monitor!Acquire
    <3> QED
      BY <3>1 DEF Monitor!Next
  <2>3. ASSUME NEW t \in Threads, NEW m \in Mutexes,
               Shown(t)' = Shown(t) \ {m},
               \A u \in Threads \ {t} : Shown(u)' = Shown(u)
        PROVE  [Monitor!Next]_HeldInTrace
    <3>1. CASE m \in Shown(t)
      <4>1. Monitor!Release(t, m)
        BY <2>a, <2>3, <3>1 DEF Monitor!Release
      <4> QED
        BY <4>1 DEF Monitor!Next
    <3>2. CASE m \notin Shown(t)
      BY <2>1, <2>3, <3>2
    <3> QED
      BY <3>1, <3>2
  <2>4. ASSUME NEW t \in Threads, NEW c \in AcquireCalls, CallAcquire(t, c)
        PROVE  [Monitor!Next]_HeldInTrace
    <3>1. /\ pc[t] = "user" /\ pc'[t] = "acquiring" /\ want'[t] = c
          /\ \A u \in Threads \ {t} : pc'[u] = pc[u] /\ want'[u] = want[u]
      BY <2>4 DEF CallAcquire, CallsOK
    <3>2. c[2] \in Mutexes => c[2] \notin Shown(t)
      BY <2>4, <2>b, LocksAssumption DEF CallAcquire, MayAcquire
    <3>3. /\ Credited(t)' \ {c[2]} = Credited(t) \ {c[2]}
          /\ \A u \in Threads \ {t} : Credited(u)' = Credited(u)
      <4>1. CASE c[1] \in DOMAIN LockHook
        BY <2>4, <4>1, LockHookCredits DEF CallAcquire
      <4>2. CASE c[1] \notin DOMAIN LockHook
        BY <2>0, <2>4, <4>2 DEF CallAcquire, toolVars
      <4> QED
        BY <4>1, <4>2
    <3>4. \A u \in Threads : \A m \in Mutexes : m \in Shown(u)' <=> m \in Shown(u)
      BY <2>b, <3>1, <3>2, <3>3
    <3> QED
      BY <2>1, <2>a, <3>4
  <2>5. ASSUME NEW t \in Threads, NEW c \in ReleaseCalls, CallRelease(t, c)
        PROVE  [Monitor!Next]_HeldInTrace
    <3>1. /\ pc[t] = "user" /\ pc'[t] = "releasing"
          /\ \A u \in Threads \ {t} : pc'[u] = pc[u] /\ want'[u] = want[u]
      BY <2>5 DEF CallRelease, CallsOK
    <3>2. /\ c[2] \in Mutexes => Credited(t)' = Credited(t) \ {c[2]}
          /\ c[2] \notin Mutexes => Credited(t)' \cap Mutexes = Credited(t) \cap Mutexes
          /\ \A u \in Threads \ {t} : Credited(u)' = Credited(u)
      <4>1. CASE c[1] \in UnlockHooks
        BY <2>5, <4>1, UnlockHookCredits DEF CallRelease
      <4>2. CASE c[1] \notin UnlockHooks
        <5>1. c[2] \notin Mutexes
          BY <4>2, ReleaseCallTypes, MutexHooks
        <5> QED
          BY <2>0, <2>5, <4>2, <5>1 DEF CallRelease, toolVars
      <4> QED
        BY <4>1, <4>2
    <3>3. \A u \in Threads \ {t} : Shown(u)' = Shown(u)
      <4>1. \A u \in Threads \ {t} : \A m \in Mutexes : m \in Shown(u)' <=> m \in Shown(u)
        BY <2>b, <3>1, <3>2
      <4> QED
        BY <2>a, <4>1
    <3>4. CASE c[2] \in Mutexes
      <4>1. Shown(t)' = Shown(t) \ {c[2]}
        <5>1. \A m \in Mutexes : m \in Shown(t)' <=> m \in Shown(t) /\ m # c[2]
          BY <2>b, <3>1, <3>2, <3>4
        <5> QED
          BY <2>a, <5>1
      <4> QED
        BY <2>3, <3>3, <3>4, <4>1
    <3>5. CASE c[2] \notin Mutexes
      <4>1. Shown(t)' = Shown(t)
        <5>1. \A m \in Mutexes : m \in Shown(t)' <=> m \in Shown(t)
          BY <2>b, <3>1, <3>2, <3>5
        <5> QED
          BY <2>a, <5>1
      <4> QED
        BY <2>1, <3>3, <4>1
    <3> QED
      BY <3>4, <3>5
  <2>6. ASSUME NEW t \in Threads, AcquireMutex(t) PROVE [Monitor!Next]_HeldInTrace
    <3> DEFINE m == want[t][2]
    <3>1. /\ m \in Mutexes /\ holders[m] = {} /\ pc[t] = "acquiring" /\ pc'[t] = "user"
          /\ \A u \in Threads \ {t} : pc'[u] = pc[u]
          /\ want' = want
          /\ \A u \in Threads : Credited(u)' = Credited(u)
      BY <2>0, <2>6 DEF AcquireMutex, toolVars, CallsOK
    <3>2. m = want[t][2]
      OBVIOUS
    <3> HIDE DEF m
    <3>3. \A u \in Threads : m \notin Shown(u)
      BY <2>b, <3>1
    <3>4. \A u \in Threads \ {t} : Shown(u)' = Shown(u)
      <4>1. \A u \in Threads \ {t} : \A k \in Mutexes : k \in Shown(u)' <=> k \in Shown(u)
        BY <2>b, <3>1
      <4> QED
        BY <2>a, <4>1
    <3>5. CASE m \in Credited(t)
      <4>1. Shown(t)' = Shown(t) \cup {m}
        BY <2>a, <2>b, <3>1, <3>2, <3>5
      <4> QED
        BY <2>2, <3>1, <3>3, <3>4, <4>1
    <3>6. CASE m \notin Credited(t)
      <4>1. Shown(t)' = Shown(t)
        BY <2>a, <2>b, <3>1, <3>2, <3>6
      <4> QED
        BY <2>1, <3>4, <4>1
    <3> QED
      BY <3>5, <3>6
  <2>7. ASSUME NEW t \in Threads, TryLockFails(t) PROVE [Monitor!Next]_HeldInTrace
    <3>1. /\ pc[t] = "acquiring" /\ pc'[t] = "user"
          /\ want[t][1] = "pthread_mutex_trylock@plt"
          /\ \A u \in Threads \ {t} : pc'[u] = pc[u]
          /\ want' = want
          /\ \A u \in Threads : Credited(u)' = Credited(u)
      BY <2>0, <2>7 DEF TryLockFails, toolVars, CallsOK
    <3>2. want[t][2] \in Mutexes => want[t][2] \notin Credited(t)
      BY <3>1 DEF CreditInv, CreditOf
    <3>3. \A u \in Threads : \A m \in Mutexes : m \in Shown(u)' <=> m \in Shown(u)
      BY <2>b, <3>1, <3>2
    <3> QED
      BY <2>1, <2>a, <3>3
  <2>8. ASSUME NEW t \in Threads, pc[t] \in {"acquiring", "releasing"}, pc'[t] = "user",
               want[t][2] \notin Mutexes \/ pc[t] = "releasing",
               \A u \in Threads \ {t} : pc'[u] = pc[u],
               want' = want, syncs' = syncs
        PROVE  [Monitor!Next]_HeldInTrace
    <3>1. \A u \in Threads : \A m \in Mutexes : m \in Shown(u)' <=> m \in Shown(u)
      BY <2>0, <2>8, <2>b
    <3> QED
      BY <2>1, <2>a, <3>1
  <2>9. ASSUME NEW t \in Threads, AcquireRW(t) PROVE [Monitor!Next]_HeldInTrace
    BY <2>8, <2>9, LocksAssumption DEF AcquireRW, toolVars, CallsOK
  <2>10. ASSUME NEW t \in Threads, TakeToken(t) PROVE [Monitor!Next]_HeldInTrace
    BY <2>8, <2>10, LocksAssumption DEF TakeToken, toolVars, CallsOK
  <2>11. ASSUME NEW t \in Threads, ReleaseHeld(t) PROVE [Monitor!Next]_HeldInTrace
    BY <2>8, <2>11 DEF ReleaseHeld, toolVars, CallsOK
  <2>12. ASSUME NEW t \in Threads, GiveToken(t) PROVE [Monitor!Next]_HeldInTrace
    BY <2>8, <2>12, LocksAssumption DEF GiveToken, toolVars, CallsOK
  <2>13. ASSUME NEW t \in Threads, NEW m \in Mutexes, CondWait(t, m)
         PROVE  [Monitor!Next]_HeldInTrace
    <3>1. /\ pc[t] = "user" /\ pc'[t] = "acquiring" /\ want'[t][2] = m
          /\ \A u \in Threads \ {t} : pc'[u] = pc[u] /\ want'[u] = want[u]
          /\ \A u \in Threads : Credited(u)' = Credited(u)
      <4>1. /\ pc[t] = "user" /\ pc'[t] = "acquiring" /\ want'[t][2] = m
            /\ \A u \in Threads \ {t} : pc'[u] = pc[u] /\ want'[u] = want[u]
        BY <2>13 DEF CondWait, CallsOK
      <4>2. UNCHANGED syncs
        BY <2>13 DEF CondWait, toolVars
      <4> QED
        BY <2>0, <4>1, <4>2
    <3>2. Shown(t)' = Shown(t) \ {m}
      <4>1. \A k \in Mutexes : k \in Shown(t)' <=> k \in Shown(t) /\ k # m
        BY <2>b, <3>1
      <4> QED
        BY <2>a, <4>1
    <3>3. \A u \in Threads \ {t} : Shown(u)' = Shown(u)
      BY <2>a, <2>b, <3>1
    <3> QED
      BY <2>3, <3>2, <3>3
  <2>14. ASSUME NEW t \in Threads, dataman(t) PROVE [Monitor!Next]_HeldInTrace
    BY <2>0, <2>1, <2>a, <2>b, <2>14 DEF dataman, appVars
  <2>15. CASE UNCHANGED vars
    BY <2>0, <2>1, <2>a, <2>b, <2>15 DEF vars, appVars, toolVars
  <2> QED
    BY <2>4, <2>5, <2>6, <2>7, <2>9, <2>10, <2>11, <2>12, <2>13, <2>14, <2>15 DEF Next
<1> QED
  BY <1>1, <1>2, CallsInvariant, CreditInvariant, PTL DEF Spec, MonitorSpec, Monitor!Spec
=============================================================================
