\* QEnableErrorStrings in acknowledge mode.
SPECIFICATION Spec
CONSTANTS
    Commands = {"query", "errstr"}
    MaxCmds = 2
    MaxInterrupts = 0
    Faults = {}
INVARIANTS AckModesAgree
CHECK_DEADLOCK FALSE
