\* An access across the end of the block.
SPECIFICATION Spec
CONSTANTS
    Blocks <- OneBlock
    Accesses <- AtEnd
    GPRN = 1
    Longest = 2
    Value = {0, 1}
    Uninit = {FALSE}
INVARIANTS NoOverrun
CHECK_DEADLOCK FALSE
