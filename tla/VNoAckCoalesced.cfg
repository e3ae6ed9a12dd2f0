\* Ctrl-C that arrives together with the continue packet.
SPECIFICATION Spec
CONSTANTS
    Commands = {"noack", "cont"}
    MaxCmds = 2
    MaxInterrupts = 1
    Faults = {}
PROPERTIES InterruptAnswered
CHECK_DEADLOCK FALSE
