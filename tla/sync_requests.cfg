\* two workers, a refresh and requests for one account, whose ranges are empty
CONSTANTS
    User = {u1}
    Worker = {w1, w2}
    Job = {j1, j2}
    Nobody = Nobody
    m1 = m1
    m2 = m2
    m3 = m3
    Match = {}
    Late = {}
    ByHand = {}
    Day = {1}
    OtherMode = {}
    Dismissed = {}
    MaxAttempts = 2
    MaxRetries = 2
    BatchSize = 1
    DayLimit = 7
    Enabled = TRUE
    DayOf <- MCDayOf
SPECIFICATION FairSpec
PROPERTIES
    JobsAreLeased
    RequestIsAtomic
    CursorMovesWithJob
    RequestsAnswered
CHECK_DEADLOCK FALSE
