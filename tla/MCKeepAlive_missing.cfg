SPECIFICATION Spec
CONSTANTS
    Impls = {"rs"}
    Streams <- MCMissing
    Cap = 5
    MaxReplies = 4
INVARIANTS
    OneReplyPerRequest
CHECK_DEADLOCK FALSE
