\* A client that closes the connection without D.
SPECIFICATION Spec
CONSTANTS
    Commands = {"query", "detach"}
    MaxCmds = 2
    MaxInterrupts = 0
    Faults = {"hangup"}
PROPERTIES ReacceptsAlways
CHECK_DEADLOCK FALSE
