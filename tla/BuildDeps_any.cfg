\* Objects and libraries anywhere on the link line.
SPECIFICATION DepsSpec
CONSTANTS
    Objects <- MCObjects
    Archives <- MCArchives
    Exe <- MCExe
    Top <- MCTop
    ExeDir <- MCTop
    ArchiveDir <- MCLib
    Operands <- AnyOrder
    NoTarget = NoTarget
INVARIANTS
    DepsTypeOK
    ApartSourcesComplete
    GraphComplete
\* The scripts end.
CHECK_DEADLOCK FALSE
