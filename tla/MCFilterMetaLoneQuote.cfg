\* A lone quote as the right-hand side.
CONSTANTS
    Types <- MCTypes
    Filters <- LoneQuote
    PtrSize = 8
INIT Init
NEXT Next
PROPERTY CompilesAsSpecified
\* from_string returns: a finished compilation has no next step.
CHECK_DEADLOCK FALSE
