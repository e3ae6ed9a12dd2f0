\* Acknowledge mode: one Ctrl-C at any time of a run, detach, reconnect, a client that hangs up.
SPECIFICATION Spec
CONSTANTS
    Commands = {"query", "step", "cont", "back", "detach"}
    MaxCmds = 8
    MaxInterrupts = 1
    Faults = {"hangup"}
INVARIANTS TypeOK ReplyPairing RequestNotLost
PROPERTIES StreamDrains Answered InterruptAnswered ImplementsService
CHECK_DEADLOCK FALSE
