\* A client that closes the connection without D.
SPECIFICATION Spec
CONSTANTS
    Commands = {"query"}
    MaxCmds = 1
    MaxInterrupts = 0
    Faults = {"hangup"}
    Uninit = {FALSE}
PROPERTIES ReacceptsAlways
CHECK_DEADLOCK FALSE
