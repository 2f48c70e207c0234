\* violated: a download upgraded while it is found in the archive
CONSTANTS
    Matches = {m1}
    PrepareLanes = {p1}
    ParseLanes = {q1}
    ArchiveLanes = {a1}
    Clients = {c1}
    NoLane = NoLane
    NoMatch = NoMatch
    OnApp = FALSE
    Aging = {}
    Inherited = {m1}
    AttemptCap = 4
    MaxNetwork = 1
    MaxMetadata = 2
    MaxArchive = 2
    MaxRequests = 2
    MaxDeletes = 0
    MaxStops = 0
    MaxStalls = 0
    MaxLosses = 0
SPECIFICATION Spec
INVARIANTS
    AwaitingParseHasReplay
CHECK_DEADLOCK FALSE
