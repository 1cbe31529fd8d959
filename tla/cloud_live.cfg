SPECIFICATION FairSpec
CONSTANTS
    None = None
    c1 = c1
    c2 = c2
    c3 = c3
    c4 = c4
    ann = ann
    bob = bob
    cyd = cyd
    math = math
    art = art
    Conn = {c1, c2}
    Id = {ann, bob}
    Unit = {math}
    IdOf <- RoomIdOf
    UnitOf <- RoomUnitOf
    KindOf <- LiveKindOf
    Cap = 1
    MaxFrames <- LiveFrames
    Kinds = {"register", "ordinary"}
    Tos <- LiveTos
    Events <- LiveEvents
PROPERTIES
    BroadcastEnds
    EvictedIsDisconnected
    ReadPumpEnds
    SilentIsEvicted
CHECK_DEADLOCK FALSE
