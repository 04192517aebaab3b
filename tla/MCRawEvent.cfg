\* build_raw_event over every sequence of up to three small sections.
CONSTANTS
    Capacity = 16
    Inputs <- MCInputs
INIT Init
NEXT Next
INVARIANT EventDecodes
\* build_raw_event returns (or panics): its final states have no successor.
CHECK_DEADLOCK FALSE
