\* Any two functions of three units, on one line or on two.
SPECIFICATION FairSpec
CONSTANTS
    FunctionNames = {"f", "g"}
    Units = {u1, u2, u3}
    Lineless = {u3}
    Lines = {1, 2}
    Bodies <- MCBodies
    MaxFunctions = 2
    Unnamed = Unnamed
    NoLocation = NoLocation
INVARIANTS
    TypeOK
    EntriesTrue
    RowsComplete
PROPERTIES
    InitEnds
\* The scripts and the loops of init end.
CHECK_DEADLOCK FALSE
