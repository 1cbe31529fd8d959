SPECIFICATION FairSpec
CONSTANTS
    Nil = Nil
    ann = ann
    x = x
    Uid = {ann}
    Sid = {x}
    Logs = 3
    Contents <- SmallContents
    Rosters <- SmallRosters
    InCap = 1
    OutCap = 1
    Batch = 2
    Attempts = 2
INVARIANTS
    TypeOK
    AllAccounted
    PipelineInOrder
    CommittedIsPrefix
    CountedPerAttempt
    NilOnlyInShutdown
    CountersAgree
PROPERTIES
    StopEndsAll
    LogsAreCounted
CHECK_DEADLOCK FALSE
