\* Ctrl-C in the mode without acknowledge.
SPECIFICATION Spec
CONSTANTS
    Commands = {"query", "noack", "cont"}
    MaxCmds = 3
    MaxInterrupts = 1
    Faults = {}
PROPERTIES Answered
CHECK_DEADLOCK FALSE
