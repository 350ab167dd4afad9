SPECIFICATION FairSpec
CONSTANTS
    c1 = c1
    c2 = c2
    c3 = c3
    w1 = w1
    w2 = w2
    r1 = r1
    r2 = r2
    none = none
    Clients = {c1, c2}
    Workers = {w1, w2}
    Fds = {1, 2}
    Rooms = {r1}
    Wants <- MCWantsOne
    Says <- MCSaysAll
    MaxSent = 2
    Window = 1
    None = none
INVARIANTS
    AgreedOrder
PROPERTIES
    RoomsKeepMoving
    SessionEnds
CHECK_DEADLOCK FALSE
