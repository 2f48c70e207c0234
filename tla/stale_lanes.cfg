\* two prepare lanes, two requests of which one may be aged, and an unconfirmed upload of the
\* one-shot worker; one lease taken from a living lane, one spool file lost, or one deletion
CONSTANTS
    Matches = {m1}
    PrepareLanes = {p1, p2}
    ParseLanes = {q1}
    ArchiveLanes = {a1}
    Clients = {c1}
    NoLane = NoLane
    NoMatch = NoMatch
    OnApp = FALSE
    Aging = {m1}
    Inherited = {m1}
    AttemptCap = 4
    MaxNetwork = 1
    MaxMetadata = 1
    MaxArchive = 1
    MaxRequests = 2
    MaxDeletes = 1
    MaxStops = 0
    MaxStalls = 1
    MaxLosses = 1
SPECIFICATION Spec
INVARIANTS
    AnalysisDelivered
PROPERTIES
    StaleLaneWritesNothing
SYMMETRY Symmetry
CONSTRAINT OneFault
CHECK_DEADLOCK FALSE
