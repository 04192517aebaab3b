\* A filter that compiles to more than META_OPS_MAX ops.
CONSTANTS
    Types <- MCTypes
    Filters <- TooManyOps
    PtrSize = 8
INIT Init
NEXT Next
PROPERTY CompilesAsSpecified
\* from_string returns: a finished compilation has no next step.
CHECK_DEADLOCK FALSE
