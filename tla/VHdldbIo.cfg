\* An access to I/O.
SPECIFICATION Spec
CONSTANTS
    Blocks <- OneBlock
    Accesses <- WithIo
    GPRN = 1
    Longest = 2
    Value = {0, 1}
    Uninit = {FALSE}
PROPERTIES MemoryIsFlat
CHECK_DEADLOCK FALSE
