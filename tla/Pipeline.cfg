\* Two builds and two examinations of two executables, any step failing.
SPECIFICATION Spec
CONSTANTS
    Exes = {e1, e2}
    MaxBuilds = 2
    MaxRuns = 2
    None = None
INVARIANTS
    TypeOK
    CombinedUsable
    BuildFresh
    ServedFresh
    OldTraceSameExe
\* The user may stop working.
CHECK_DEADLOCK FALSE
