\* Registers and memory of main's shadow and of its copy, accesses inside of the block.
SPECIFICATION Spec
CONSTANTS
    Blocks <- OneBlock
    Accesses <- Inside
    GPRN = 1
    Longest = 2
    Value = {0, 1}
    Uninit = {FALSE}
INVARIANTS NoOverrun
PROPERTIES MemoryIsFlat
CHECK_DEADLOCK FALSE
