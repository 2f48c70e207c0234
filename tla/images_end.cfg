\* one worker of each kind and fair ticks; retries of submissions and polls
CONSTANTS
    Entry = {e1}
    Dota = {d1}
    Object = {o1, o2}
    ImageWorker = {i1}
    ParseWorker = {p1}
    Caller = {c1}
    Nobody = Nobody
    None = None
    LocalReplay = {}
    MaxImageAttempts = 2
    MaxParseAttempts = 2
    MaxPolls = 2
    MaxCalls = 2
    MaxFaults = 1
SPECIFICATION FairSpec
PROPERTIES
    ParsesEnd
    ImagesEnd
CHECK_DEADLOCK FALSE
