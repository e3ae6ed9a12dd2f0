\* All commands in both acknowledge modes, with interrupts, damage, hang-ups and reconnects.
SPECIFICATION Spec
CONSTANTS
    Commands = {"signal", "thread", "query", "monitor", "supported", "feature", "noack", "errstr",
                "extra", "verbose", "vcont", "access", "outside", "readone", "short", "point",
                "extended", "other", "step", "cont", "back", "reset", "detach", "kill"}
    MaxCmds = 5
    MaxInterrupts = 1
    Faults = {"damage", "hangup"}
    Uninit = {FALSE}
INVARIANTS TypeOK ReplyPairing AckComes Survives RequestNotLost
PROPERTIES Answered Reaccepts ImplementsService
CHECK_DEADLOCK FALSE
