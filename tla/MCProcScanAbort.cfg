\* from_cmd when an unrelated process exits during the scan.
CONSTANTS
    Incarnations <- MCIncarnations
    SelfInc <- MCSelf
    Cmds <- MCCmds
    PidReuse = FALSE
INIT Init
NEXT Next
INVARIANT FindsUniqueTarget
\* from_cmd returns: its final states have no successor.
CHECK_DEADLOCK FALSE
