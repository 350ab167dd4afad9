SPECIFICATION FairSpec
CONSTANTS
    Impls = {"rs1", "rs2"}
    Scripts <- MCScripts
    Caps = {2, 4}
INVARIANTS
    TypeOK
    RepliesInStep
PROPERTIES
    PipelinedAnswered
    HandlerReturns
\* A connection ends.
CHECK_DEADLOCK FALSE
