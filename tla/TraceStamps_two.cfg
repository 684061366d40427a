\* Two traced threads, whose handlers may overlap or not.
SPECIFICATION Spec
CONSTANTS
    Threads = {t1, t2}
    MaxEvents = 3
SYMMETRY Symmetry
INVARIANTS
    TypeOK
    NoGaps
    LinesWhole
    DumpComplete
PROPERTIES
    SerialLog
\* The traced program ends.
CHECK_DEADLOCK FALSE
