\* from_cmd against processes that start and exit during the scan; pids are not reused.
CONSTANTS
    Incarnations <- MCIncarnations
    SelfInc <- MCSelf
    Cmds <- MCCmds
    PidReuse = FALSE
INIT Init
NEXT Next
INVARIANT TypeOK
INVARIANT LiveTargetNotMissed
INVARIANT TooManyOnlyIfTwo
\* from_cmd returns: its final states have no successor.
CHECK_DEADLOCK FALSE
