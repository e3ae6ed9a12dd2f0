\* A run over a load from a watched address.
SPECIFICATION Spec
CONSTANTS
    GPRN = 1
    CSRN = 0
    Word = {0, 1, 2}
    Byte = {0, 1}
    X = X
    Mapped = {0, 1}
    Ram = {0, 1}
    Ebreak <- EbreakSet
    Insn <- PointInsn
    ResetAdr = 0
    DutGpr0 <- ZeroGpr
    DutMem0 <- ImageMem
    Blobs = {}
    RegVals = {}
    Points <- RunPoints
    UserSignals = {"SIGHUP"}
    MaxTrace = 2
PROPERTY ReadWatchStops
CHECK_DEADLOCK FALSE
