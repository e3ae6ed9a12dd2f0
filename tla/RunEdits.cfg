\* Debugger writes of registers and memory before the start and in the history.
SPECIFICATION Spec
CONSTANTS
    GPRN = 2
    CSRN = 0
    Word = {0, 1, 2}
    Byte = {0, 1, 2}
    X = X
    Mapped = {0, 1}
    Ram = {0, 1}
    Ebreak <- EbreakSet
    Insn <- FewInsn
    ResetAdr = 0
    DutGpr0 <- ZeroGpr
    DutMem0 <- ImageMem
    Blobs <- DataBlobs
    RegVals = {2}
    Points = {}
    UserSignals = {}
    MaxTrace = 2
INVARIANTS EdgeExact GprNeverWrong
CHECK_DEADLOCK FALSE
