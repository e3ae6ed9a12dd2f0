\* A step after the debugger wrote the PC.
SPECIFICATION Spec
CONSTANTS
    GPRN = 2
    CSRN = 0
    Word = {0, 1, 2}
    Byte = {0, 1, 2}
    X = X
    Mapped = {0, 1}
    Ram = {0, 1}
    Ebreak <- EbreakSet
    Insn <- FewInsn
    ResetAdr = 0
    DutGpr0 <- ZeroGpr
    DutMem0 <- ImageMem
    Blobs <- DataBlobs
    RegVals = {2}
    Points = {}
    UserSignals = {}
    MaxTrace = 2
PROPERTY PcFollowsTrace
CHECK_DEADLOCK FALSE
