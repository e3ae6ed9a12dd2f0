\* Inserting a breakpoint.
SPECIFICATION Spec
CONSTANTS
    Commands = {"query", "point"}
    MaxCmds = 2
    MaxInterrupts = 0
    Faults = {}
PROPERTIES Answered
CHECK_DEADLOCK FALSE
