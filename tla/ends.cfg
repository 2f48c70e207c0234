\* fair lanes, recovery, clock and restarts after a failure, an API without the spool's disk; two
\* terminations, crashes or lost connections
CONSTANTS
    Matches = {m1}
    PrepareLanes = {p1}
    ParseLanes = {q1}
    ArchiveLanes = {a1}
    Clients = {c1}
    NoLane = NoLane
    NoMatch = NoMatch
    OnApp = TRUE
    Aging = {}
    Inherited = {}
    AttemptCap = 4
    MaxNetwork = 1
    MaxMetadata = 1
    MaxArchive = 2
    MaxRequests = 1
    MaxDeletes = 0
    MaxStops = 2
    MaxStalls = 0
    MaxLosses = 0
SPECIFICATION FairSpec
PROPERTIES
    BackupsEnd
    RequestsEnd
CHECK_DEADLOCK FALSE
