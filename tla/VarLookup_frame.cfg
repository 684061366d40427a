\* Globals, locals and parameters on the stack.
SPECIFICATION Spec
CONSTANTS
    Word <- MCWord
    Misread <- MCMisread
    GlobalArea <- MCGlobals
    Rbp <- MCRbp
    LocalArea <- MCLocals
    ParamArea <- MCParams
    Sizes <- MCSizes
    MaxObjects = 3
INVARIANTS
    TypeOK
    ReadGlobalsResolved
    NoFalseGlobal
    LocalStartResolved
\* The loader ends.
CHECK_DEADLOCK FALSE
