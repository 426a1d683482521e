\* a body larger than the pipe, which the child may leave unread
SPECIFICATION FairSpec
CONSTANTS
    Body = 4
    PipeCap = 3
    ReadSize = 2
    MaxOut = 6
INVARIANTS
    TypeOK
    OutputInOrder
    NothingRunsOn
    TimeoutForgetsPid
PROPERTIES
    KeepsContract
    EveryRunEnds
