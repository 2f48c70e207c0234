\* violated: a lane that lost its lease truncates the sealed file
CONSTANTS
    Matches = {m1}
    PrepareLanes = {p1, p2}
    ParseLanes = {q1}
    ArchiveLanes = {a1}
    Clients = {c1}
    NoLane = NoLane
    NoMatch = NoMatch
    OnApp = FALSE
    Aging = {}
    Inherited = {}
    AttemptCap = 4
    MaxNetwork = 2
    MaxMetadata = 2
    MaxArchive = 2
    MaxRequests = 1
    MaxDeletes = 0
    MaxStops = 0
    MaxStalls = 1
    MaxLosses = 0
SPECIFICATION Spec
INVARIANTS
    SealedReplayIntact
CHECK_DEADLOCK FALSE
