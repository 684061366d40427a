\* Every kind of lock and routine: a mutex, one that is also tried, a semaphore
\* and a reader/writer lock.
SPECIFICATION Spec
CONSTANTS
    Threads = {t1, t2}
    Mutexes = {m1, m2}
    Semaphores = {s1}
    RWLocks = {l1}
    Tried = {m2}
    MaxTokens = 1
INVARIANTS
    TypeOK
    MutexSyncsTruthful
    UnlockTyped
PROPERTIES
    MonitorSpec
\* The traced program may end, or deadlock.
CHECK_DEADLOCK FALSE
