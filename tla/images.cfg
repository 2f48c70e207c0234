\* two entries, two matches with a replay to parse, two image workers and a parse worker
CONSTANTS
    Entry = {e1, e2}
    Dota = {d1, d2}
    Object = {o1, o2, o3}
    ImageWorker = {i1, i2}
    ParseWorker = {p1}
    Caller = {c1, c2}
    Nobody = Nobody
    None = None
    LocalReplay = {}
    MaxImageAttempts = 2
    MaxParseAttempts = 1
    MaxPolls = 1
    MaxCalls = 2
    MaxFaults = 1
SPECIFICATION Spec
SYMMETRY Symmetry
INVARIANTS
    TypeOK
    ImagesStored
PROPERTIES
    ImagesAreLeased
    ParsesAreLeased
CHECK_DEADLOCK FALSE
