\* One thread whose functions return.
SPECIFICATION Spec
CONSTANTS
    Threads = {t1}
    Locks = {l1}
    Vars = {x}
    Functions = {f, g}
    Recursive = {g}
    MaxLines = 4
INVARIANTS
    AccessesKept
\* pass2.py ends.
CHECK_DEADLOCK FALSE
