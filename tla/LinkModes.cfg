\* Both acknowledge modes: resets, detach, kill, a client that hangs up; no Ctrl-C.
SPECIFICATION Spec
CONSTANTS
    Commands = {"query", "noack", "cont", "assert", "release", "detach", "kill"}
    MaxCmds = 6
    MaxInterrupts = 0
    Faults = {"hangup"}
INVARIANTS ReplyPairing AckModesAgree AckComes
PROPERTIES StreamDrains Answered Reaccepts
CHECK_DEADLOCK FALSE
