SPECIFICATION Spec
CONSTANTS
    None = None
    c1 = c1
    c2 = c2
    c3 = c3
    c4 = c4
    ann = ann
    bob = bob
    cyd = cyd
    math = math
    art = art
    Conn = {c1, c2, c3, c4}
    Id = {ann, bob, cyd}
    Unit = {math, art}
    IdOf <- ReloginIdOf
    UnitOf <- ReloginUnitOf
    KindOf <- ReloginKindOf
    Cap = 1
    MaxFrames <- ReloginFrames
    Kinds = {"register", "ordinary"}
    Tos <- ReloginTos
    Events <- ReloginEvents
INVARIANTS
    ForcedLogin
CHECK_DEADLOCK FALSE
