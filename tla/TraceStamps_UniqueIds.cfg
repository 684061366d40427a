\* Two traced threads: UniqueIds does not survive the race.
SPECIFICATION Spec
CONSTANTS
    Threads = {t1, t2}
    MaxEvents = 4
INVARIANTS
    UniqueIds
CHECK_DEADLOCK FALSE
