\* Two libraries next to each other as well.
SPECIFICATION DepsSpec
CONSTANTS
    Objects <- MCObjects
    Archives <- MCArchives
    Exe <- MCExe
    Top <- MCTop
    ExeDir <- MCTop
    ArchiveDir <- MCLib
    Operands <- AnyOrder
    NoTarget = NoTarget
INVARIANTS
    SourcesComplete
\* The scripts end.
CHECK_DEADLOCK FALSE
