\* Stepping back over an instruction that overwrote a known value.
SPECIFICATION Spec
CONSTANTS
    GPRN = 2
    CSRN = 0
    Word = {0, 1, 2}
    Byte = {0, 1, 2}
    X = X
    Mapped = {0, 1}
    Ram = {0, 1}
    Ebreak <- EbreakSet
    Insn <- DataInsn
    ResetAdr = 0
    DutGpr0 <- ZeroGpr
    DutMem0 <- ImageMem
    Blobs = {}
    RegVals = {}
    Points = {}
    UserSignals = {}
    MaxTrace = 3
INVARIANT RevertRestores
CHECK_DEADLOCK FALSE
