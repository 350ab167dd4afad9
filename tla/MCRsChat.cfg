SPECIFICATION FairSpec
CONSTANTS
    c1 = c1
    c2 = c2
    c3 = c3
    r1 = r1
    None = None
    Progs = {"main", "main2"}
    Conns = {c1, c2, c3}
    Rooms = {r1}
    Addr <- MCAddr
    Says <- MCSays
    MaxSent = 1
    Window = 1
INVARIANTS
    TypeOK
    RoomsExact
    TextsWhole
PROPERTIES
    Refinement
    SessionEnds
CHECK_DEADLOCK FALSE
