SPECIFICATION FairSpec
CONSTANTS
    Impls = {"rs", "cc", "zig"}
    Scripts <- MCScripts
    MaxOut = 4
INVARIANTS
    TypeOK
    InStep
PROPERTIES
    FramesAnswered
    HandlerReturns
\* A connection ends.
CHECK_DEADLOCK FALSE
