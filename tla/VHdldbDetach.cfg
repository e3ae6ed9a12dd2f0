\* A new client after a session without acknowledges.
SPECIFICATION Spec
CONSTANTS
    Commands = {"query", "noack", "detach"}
    MaxCmds = 3
    MaxInterrupts = 0
    Faults = {}
    Uninit = {FALSE}
INVARIANTS AckModesAgree
CHECK_DEADLOCK FALSE
