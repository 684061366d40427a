\* Two threads, recursion, exceptions.
SPECIFICATION Spec
CONSTANTS
    Word = 64
    NThreads = 2
    Calls <- MCCalls
    Start <- MCStart
    FrameSize <- MCFrameSize
    StackWords = 13
    MaxInv = 2
INVARIANTS
    TypeOK
    InvstackTrue
    RBPstackTrue
    AccessAttributed
    LocalMeansOwn
    InvNoCurrent
\* The traced program ends.
CHECK_DEADLOCK FALSE
