\* Reads from both sources, with resets, debugger writes and reverse execution.
SPECIFICATION ViewSpec
CONSTANTS
    GPRN = 2
    CSRN = 0
    Word = {0, 1, 2, 3}
    Byte = {0, 1, 2}
    X = X
    Mapped = {0, 1}
    Ram = {0, 1, 2}
    Ebreak <- NoEbreak
    Insn <- ByteInsn
    ResetAdr = 0
    DutGpr0 <- ZeroGpr
    DutMem0 <- ImageMem
    Blobs <- LoadBlobs
    RegVals = {}
    Points = {}
    UserSignals = {}
    MaxTrace = 3
INVARIANTS ReadsAgree IoReadsBack
CHECK_DEADLOCK FALSE
