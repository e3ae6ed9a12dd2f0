\* A damaged continue: executed, refused with "-", sent again, and handled once more
\* by the poll of its own run.
SPECIFICATION Spec
CONSTANTS
    Commands = {"cont"}
    MaxCmds = 2
    MaxInterrupts = 0
    Faults = {"damage"}
INVARIANTS ReplyPairing
CHECK_DEADLOCK FALSE
