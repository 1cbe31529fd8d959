SPECIFICATION FairSpec
CONSTANTS
    None = None
    ann = ann
    bob = bob
    Uid = {ann, bob}
    Teacher = {ann}
    Length = 2
    Pages = 4
    MaxStrokes <- SmallStrokes
    MaxFailures = 1
    MaxDeletes = 1
INVARIANTS
    TypeOK
    ReplayInOrder
    RepeatsAreBounded
PROPERTIES
    ShortRunsAreComplete
    OffsetCatchesUp
CHECK_DEADLOCK FALSE
