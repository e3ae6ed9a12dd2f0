\* Reading one register.
SPECIFICATION Spec
CONSTANTS
    Commands = {"query", "readone"}
    MaxCmds = 2
    MaxInterrupts = 0
    Faults = {}
    Uninit = {FALSE}
INVARIANTS SurvivesAll
CHECK_DEADLOCK FALSE
