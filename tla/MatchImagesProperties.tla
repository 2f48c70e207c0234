----------------------- MODULE MatchImagesProperties -----------------------
(* What the way from a linked match to its images must keep. *)
EXTENDS MatchImages

\* Rows, workers and calls hold values their columns and the code allow, and
\* no two matches of a user's journal are linked to one match of the provider.
TypeOK ==
    /\ link \in [Entry -> Dota \cup {None}]
    /\ \A e \in Entry : link[e] # None => ~Duplicate(e, link[e])
    /\ stored \in [Dota -> Payload \cup {"none"}]
    /\ provider \in [Dota -> {"unparsed", "asked", "parsed"}]
    /\ image \in [Entry -> ImageRow]
    /\ parse \in [Entry -> ParseRow]
    /\ shown \in [Entry -> Object \cup {None}]
    /\ object \in [Object -> Dota \cup {None}]
    /\ worker \in [Worker -> WorkerState]
    /\ call \in [Caller -> CallState]
    /\ spent \in [calls : 0..MaxCalls, faults : 0..MaxFaults]
    /\ enabled \in BOOLEAN
    /\ unanswered \in SUBSET Entry

\* The images an entry shows are in the object store: a worker that fails,
\* dies or has lost its lease takes away its own upload at most, and the
\* previous version goes only after the rows name the new one (media/service.ts).
\* The exception is a commit whose answer is lost: publishGeneratedMatchImages
\* then deletes what the rows show, and the entry shows nothing until its
\* images are replaced again.
ImagesStored == \A e \in Entry :
    shown[e] # None /\ e \notin unanswered => object[shown[e]] # None

\* A worker holds the row that names it and that it works on.
Holds(row, e) == \E w \in Worker : worker[w].entry = e /\ Leases(row, w)

ImageQueue == INSTANCE LeaseQueue WITH
    Job <- Entry, Worker <- ImageWorker,
    status <- [e \in Entry |-> image[e].status],
    holder <- [e \in Entry |-> IF Holds(image[e], e) THEN image[e].lockedAt ELSE Nobody],
    work <- [w \in ImageWorker |-> worker[w].entry]

ParseQueue == INSTANCE LeaseQueue WITH
    Job <- Entry, Worker <- ParseWorker,
    status <- [e \in Entry |-> parse[e].status],
    holder <- [e \in Entry |-> IF Holds(parse[e], e) THEN parse[e].lockedAt ELSE Nobody],
    work <- [w \in ParseWorker |-> worker[w].entry]

\* match_image_jobs is a lease queue: whoever lost a job writes neither its
\* outcome nor its delay, and saving the match again never takes a job away
\* from the worker that renders it (saveOpenDotaMatch).
ImagesAreLeased == ImageQueue!Spec

\* opendota_parse_jobs is a lease queue, even though a request writes over a
\* row that has been claimed since it was read: the worker then finds its
\* lease gone, and its outcome is lost, not mixed up with the new job's.
ParsesAreLeased == ParseQueue!Spec

\* Where the parse ticks are enabled every parse job ends: submissions and polls
\* are counted, and both limits end it.  What is not counted is a tick that dies
\* before it has written: this is about a worker that dies finitely often.
ParsesEnd == \A e \in Entry :
    enabled /\ parse[e].status \in Active ~> parse[e].status \notin Active

\* The entry's match waits for a parse that no tick serves (the default).
WaitsForNobody(e) ==
    ~enabled /\ link[e] # None /\ ~Ready(link[e]) /\ parse[e].status \in Active

\* Every image job ends, although one that waits for a parse does not use up its
\* attempts (deferMatchImageJobUntilReplayParsed).  This rests on the parse
\* job's end: where parse ticks are disabled the image job may wait for ever.
ImagesEnd == \A e \in Entry :
    image[e].status \in Active ~> image[e].status \notin Active \/ WaitsForNobody(e)
=============================================================================
