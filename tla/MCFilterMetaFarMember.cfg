\* A member more than 8 KiB into a struct behind a pointer.
CONSTANTS
    Types <- MCTypes
    Filters <- FarMember
    PtrSize = 8
INIT Init
NEXT Next
PROPERTY CompilesAsSpecified
\* from_string returns: a finished compilation has no next step.
CHECK_DEADLOCK FALSE
