SPECIFICATION FairSpec
CONSTANTS
    Impls = {"rs", "cc", "c", "zig", "ex"}
    Streams <- MCStreams
    Cap = 5
    MaxReplies = 7
INVARIANTS
    TypeOK
    RepliesInOrder
PROPERTIES
    PatientClientServed
    PipelinedServed
    HandlerReturns
\* A connection ends.
CHECK_DEADLOCK FALSE
