SPECIFICATION Spec
CONSTANTS
    None = None
    c1 = c1
    c2 = c2
    c3 = c3
    c4 = c4
    ann = ann
    bob = bob
    cyd = cyd
    math = math
    art = art
    Conn = {c1, c2}
    Id = {ann, bob}
    Unit = {math}
    IdOf <- RoomIdOf
    UnitOf <- RoomUnitOf
    KindOf <- RoomKindOf
    Cap = 1
    MaxFrames <- RoomFrames
    Kinds = {"register", "ordinary"}
    Tos <- RoomTos
    Events <- RoomEvents
INVARIANTS
    ClientsAreActive
CHECK_DEADLOCK FALSE
