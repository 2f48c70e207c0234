\* one lane of each kind, two requests; one termination or crash anywhere, or one lease taken
\* from a living lane
CONSTANTS
    Matches = {m1}
    PrepareLanes = {p1}
    ParseLanes = {q1}
    ArchiveLanes = {a1}
    Clients = {c1}
    NoLane = NoLane
    NoMatch = NoMatch
    OnApp = FALSE
    Aging = {}
    Inherited = {}
    AttemptCap = 4
    MaxNetwork = 1
    MaxMetadata = 1
    MaxArchive = 2
    MaxRequests = 2
    MaxDeletes = 0
    MaxStops = 1
    MaxStalls = 1
    MaxLosses = 0
SPECIFICATION Spec
INVARIANTS
    TypeOK
    LeaseInv
    SealedReplayIntact
    AwaitingParseHasReplay
    CompletedIsAvailable
    BackupOwed
PROPERTIES
    RequestsKept
CONSTRAINT OneStop
CHECK_DEADLOCK FALSE
