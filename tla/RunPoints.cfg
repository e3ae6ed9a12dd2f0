\* Breakpoints, watchpoints, interrupts and signals in forward and reverse runs.
SPECIFICATION Spec
CONSTANTS
    GPRN = 1
    CSRN = 0
    Word = {0, 1, 2}
    Byte = {0, 1}
    X = X
    Mapped = {0, 1}
    Ram = {0, 1}
    Ebreak <- EbreakSet
    Insn <- PointInsn
    ResetAdr = 0
    DutGpr0 <- ZeroGpr
    DutMem0 <- ImageMem
    Blobs = {}
    RegVals = {}
    Points <- RunPoints
    UserSignals = {"SIGHUP"}
    MaxTrace = 3
PROPERTIES NeverRunsPastPoint RunsAdvance ReverseContinueTerminates ReplayCatchesUp
CHECK_DEADLOCK FALSE
