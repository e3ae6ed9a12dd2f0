\* g after a register has been updated.
SPECIFICATION Spec
CONSTANTS
    Blocks <- OneBlock
    Accesses <- Inside
    GPRN = 1
    Longest = 2
    Value = {0, 1}
    Uninit = {FALSE}
INVARIANTS RegistersShown
CHECK_DEADLOCK FALSE
