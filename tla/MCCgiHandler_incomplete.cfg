\* no body, output of two reads
SPECIFICATION Spec
CONSTANTS
    Body = 0
    PipeCap = 2
    ReadSize = 1
    MaxOut = 2
INVARIANT OutputComplete
