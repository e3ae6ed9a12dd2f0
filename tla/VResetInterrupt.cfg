\* Ctrl-C while the CPU is held in reset.
SPECIFICATION Spec
CONSTANTS
    Commands = {"assert", "cont"}
    MaxCmds = 2
    MaxInterrupts = 1
    Faults = {}
PROPERTIES InterruptAnswered
CHECK_DEADLOCK FALSE
