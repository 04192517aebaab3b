\* from_cmd when a pid is taken again by a new process during the call.
CONSTANTS
    Incarnations <- MCIncarnations
    SelfInc <- MCSelf
    Cmds <- MCCmds
    PidReuse = TRUE
INIT Init
NEXT Next
INVARIANT FoundIsTarget
\* from_cmd returns: its final states have no successor.
CHECK_DEADLOCK FALSE
