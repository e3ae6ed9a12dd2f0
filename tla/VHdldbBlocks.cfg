\* An address map with two blocks.
SPECIFICATION Spec
CONSTANTS
    Blocks <- TwoBlocks
    Accesses <- InBoth
    GPRN = 1
    Longest = 2
    Value = {0, 1}
    Uninit = {FALSE}
PROPERTIES MemoryIsFlat
CHECK_DEADLOCK FALSE
