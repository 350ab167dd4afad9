SPECIFICATION Spec
CONSTANTS
    None = None
    Conns = {c1, c2, c3}
    Rooms = {r1}
    MaxSent = 2
    Window = 1
SYMMETRY MCSymmetry
INVARIANTS
    RoomsExact
    ObjectsApart
PROPERTIES
    PromiseKept
\* The sessions end, or the process crashes.
CHECK_DEADLOCK FALSE
