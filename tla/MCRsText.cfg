SPECIFICATION Spec
CONSTANTS
    Inputs <- MCInputs
    Vectors <- MCVectors
INVARIANTS
    ParametersRead
    AcceptKeyRight
\* A call returns.
CHECK_DEADLOCK FALSE
