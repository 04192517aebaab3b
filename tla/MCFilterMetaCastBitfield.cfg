\* A cast of a pointer-sized bitfield, then a member without bitfield data.
CONSTANTS
    Types <- MCTypes
    Filters <- CastBitfield
    PtrSize = 8
INIT Init
NEXT Next
PROPERTY CompilesAsSpecified
\* from_string returns: a finished compilation has no next step.
CHECK_DEADLOCK FALSE
