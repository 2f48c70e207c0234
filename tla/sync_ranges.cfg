\* two workers and one job: a range of two batches, a match of another mode that is listed
\* late, an entry linked by hand, and ticks that outlive their locks
CONSTANTS
    User = {u1}
    Worker = {w1, w2}
    Job = {j1}
    Nobody = Nobody
    m1 = m1
    m2 = m2
    m3 = m3
    Match = {m1, m2}
    Late = {m2}
    ByHand = {m1}
    Day = {1}
    OtherMode = {m2}
    Dismissed = {}
    MaxAttempts = 2
    MaxRetries = 2
    BatchSize = 1
    DayLimit = 7
    Enabled = FALSE
    DayOf <- MCDayOf
SPECIFICATION FairSpec
INVARIANTS
    TypeOK
    CompletedRangeVisited
PROPERTIES
    CompleteDaysImported
    JobsEnd
CHECK_DEADLOCK FALSE
