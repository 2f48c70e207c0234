\* two downloads and calls, and one event: a new page, a start of the application,
\* a deletion, a file of the Dota client, or a dialog that holds the native lock
CONSTANTS
    Match = {m1, m2}
    NoMatch = NoMatch
    Folder = {f1, f2}
    NoFolder = NoFolder
    MaxRows = 2
    MaxRequests = 2
    MaxEvents = 1
SPECIFICATION FairSpec
INVARIANTS
    TypeOK
    CompletedIsPlayable
PROPERTIES
    AcceptedKept
    FilesKept
    DownloadsEnd
CHECK_DEADLOCK FALSE
