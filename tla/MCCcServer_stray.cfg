SPECIFICATION Spec
CONSTANTS
    c1 = c1
    c2 = c2
    c3 = c3
    w1 = w1
    w2 = w2
    r1 = r1
    r2 = r2
    none = none
    Clients = {c1, c2, c3}
    Workers = {w1, w2}
    Fds = {1, 2}
    Rooms = {r1, r2}
    Wants <- MCWants
    Says <- MCSays
    MaxSent = 2
    Window = 1
    None = none
SYMMETRY MCSymmetry
INVARIANTS
    BroadcastStaysInRoom
CHECK_DEADLOCK FALSE
