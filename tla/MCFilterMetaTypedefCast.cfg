\* A cast of a pointer-sized integer reached through typedefs.
CONSTANTS
    Types <- MCTypes
    Filters <- TypedefCast
    PtrSize = 8
INIT Init
NEXT Next
PROPERTY CompilesAsSpecified
\* from_string returns: a finished compilation has no next step.
CHECK_DEADLOCK FALSE
