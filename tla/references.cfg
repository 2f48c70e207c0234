\* two months, a version of the earlier policy, two overlapping ticks, one rebuild, handlers that die while a provider answers
CONSTANTS
    Months = 2
    Version = {v0, v1, v2, v3}
    Tick = {t1, t2}
    Analysis = {a1}
    None = None
    MetaTasks = 1
    Batches = 2
    Lacking = {2}
    Legacy = {v0}
    MaxRebuilds = 1
SPECIFICATION FairSpec
INVARIANTS
    TypeOK
    OneOfEach
    CountedOnce
    PublishedIsComplete
PROPERTIES
    FallbackKept
    HistoryKept
    ReferencesEnd
CHECK_DEADLOCK FALSE
