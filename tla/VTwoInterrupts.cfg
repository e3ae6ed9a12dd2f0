\* Acknowledge mode: the user presses Ctrl-C twice during one run.
SPECIFICATION Spec
CONSTANTS
    Commands = {"query", "cont"}
    MaxCmds = 2
    MaxInterrupts = 2
    Faults = {}
PROPERTIES Answered
CHECK_DEADLOCK FALSE
