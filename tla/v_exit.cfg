\* violated: a lost connection ends the service with exit code 0
CONSTANTS
    Matches = {m1}
    PrepareLanes = {p1}
    ParseLanes = {q1}
    ArchiveLanes = {a1}
    Clients = {c1}
    NoLane = NoLane
    NoMatch = NoMatch
    OnApp = FALSE
    Aging = {}
    Inherited = {}
    AttemptCap = 4
    MaxNetwork = 1
    MaxMetadata = 1
    MaxArchive = 1
    MaxRequests = 1
    MaxDeletes = 0
    MaxStops = 1
    MaxStalls = 0
    MaxLosses = 0
SPECIFICATION FairSpec
PROPERTIES
    AlwaysComesBack
CHECK_DEADLOCK FALSE
