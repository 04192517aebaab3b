\* The print loop over a file of three records, with up to two Timeouts.
CONSTANTS
    FileLen = 3
    MaxTimeouts = 2
SPECIFICATION Spec
INVARIANT TypeOK
INVARIANT AtMostOneAfterSignal
INVARIANT CleanEofPrintsAll
PROPERTY Terminates
\* run() returns: its final states have no successor.
CHECK_DEADLOCK FALSE
