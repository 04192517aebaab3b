\* The compiler against its specification over the kernel-like BTF fixture.
CONSTANTS
    Types <- MCTypes
    Filters <- CompileFilters
    PtrSize = 8
INIT Init
NEXT Next
INVARIANT TypeOK
PROPERTY CompilesAsSpecified
INVARIANT RepositoryTestsHold
\* from_string returns: a finished compilation has no next step.
CHECK_DEADLOCK FALSE
