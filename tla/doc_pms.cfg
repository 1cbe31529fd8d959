SPECIFICATION Spec
CONSTANTS
    None = None
    ann = ann
    bob = bob
    Uid = {ann, bob}
    Teacher = {ann}
    Length = 2
    Pages = 4
    MaxStrokes <- PagedStrokes
    MaxFailures = 0
    MaxDeletes = 0
INVARIANT PassedIsSaved
CHECK_DEADLOCK FALSE
