\* A store of two bytes to I/O, read back.
SPECIFICATION ViewSpec
CONSTANTS
    GPRN = 2
    CSRN = 0
    Word = {0, 1, 2, 3}
    Byte = {0, 1, 2}
    X = X
    Mapped = {0, 1}
    Ram = {0, 1}
    Ebreak <- NoEbreak
    Insn <- WideInsn
    ResetAdr = 0
    DutGpr0 <- ZeroGpr
    DutMem0 <- ImageMem
    Blobs = {}
    RegVals = {}
    Points = {}
    UserSignals = {}
    MaxTrace = 2
INVARIANTS IoReadsBack
CHECK_DEADLOCK FALSE
