\* A step from a breakpoint to an instruction without one.
SPECIFICATION Spec
CONSTANTS
    GPRN = 1
    CSRN = 0
    Word = {0, 1, 2}
    Byte = {0, 1}
    X = X
    Mapped = {0, 1}
    Ram = {0, 1}
    Ebreak <- EbreakSet
    Insn <- PointInsn
    ResetAdr = 0
    DutGpr0 <- ZeroGpr
    DutMem0 <- ImageMem
    Blobs = {}
    RegVals = {}
    Points <- RunPoints
    UserSignals = {"SIGHUP"}
    MaxTrace = 2
PROPERTY ReasonIsCurrent
CHECK_DEADLOCK FALSE
