\* Two threads, returns and untyped unlocks.
SPECIFICATION Spec
CONSTANTS
    Threads = {t1, t2}
    Locks = {l1, l2}
    Vars = {x}
    Functions = {f, g}
    Recursive = {g}
    MaxLines = 5
SYMMETRY Symmetry
INVARIANTS
    TypeOK
    EventsInPlace
    GroupsConserve
    GroupsPure
    
\* pass2.py ends.
CHECK_DEADLOCK FALSE
