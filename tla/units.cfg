SPECIFICATION FairSpec
CONSTANTS
    None = None
    NotMap = NotMap
    NoMod = NoMod
    c1 = c1
    c2 = c2
    c3 = c3
    j1 = j1
    j2 = j2
    m = m
    a = a
    b = b
    f = f
    g = g
    ann = ann
    bob = bob
    tv = tv
    math = math
    art = art
    Conn = {c1, c2, c3, j1, j2}
    JobConn = {j1, j2}
    Mod = {m}
    Name = {a, b}
    Field = {f, g}
    Plans <- AllPlans
    Reports <- AllReports
    Instances <- AllInstances
    MaxScene = 4
    MaxFailures = 1
    RunScenes = {1}
    MaxStarts = 2
    MayBreak = TRUE
    Limit = 2
    FirstIds = {0, 3}
    MaxChanges = 1
    Terminal = {ann, bob, tv}
    LocalDevice = {tv}
    Unit = {math, art}
    Caller = {math, art}
    Keyspaces <- AllKeyspaces
    PageSize = 3
    MaxTokens = 3
    MaxLapses = 1
    MaxSwitches = 1
INVARIANTS
    TypeOK
    CurrentSceneIsOpen
    PassedScenesWereEnded
    HistoryGivesStatus
    JobEndsItsScene
    ChatPagesAreExact
    ListingIsFaithful
    ListsAreCleared
PROPERTIES
    SceneFallsBackOnlyLate
    OnlyExpiredAreEnded
    MonitoredIsEnded
    ProgramEnds
CHECK_DEADLOCK FALSE
