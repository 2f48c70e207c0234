----------------------------- MODULE MatchImages -----------------------------
(***************************************************************************)
(* From a linked match to its pictures.  A journal entry is linked to a    *)
(* match of the provider; OpenDota parses the match's replay when it is    *)
(* asked to (table opendota_parse_jobs, served by parse workers), and the  *)
(* parsed match is rendered and published as images (match_image_jobs,     *)
(* image workers, object store).  Ticks may overlap, outlive their leases  *)
(* and die between two statements; meanwhile users link entries again.     *)
(*                                                                         *)
(* The three images of a match are one object here.  Of the provider's     *)
(* answer only matters whether the replay is parsed in it.                 *)
(***************************************************************************)
EXTENDS Naturals, FiniteSets

CONSTANTS
    Entry,              \* matches of one user's journal
    Dota,               \* matches of the provider
    Object,             \* keys of the object store
    ImageWorker, ParseWorker,
    Caller,             \* users and administrators calling the API
    Nobody, None,
    LocalReplay,        \* matches whose replay the replay pipeline has parsed
    MaxImageAttempts,   \* MATCH_IMAGE_MAX_ATTEMPTS
    MaxParseAttempts,   \* OPENDOTA_PARSE_MAX_ATTEMPTS
    MaxPolls,           \* OPENDOTA_PARSE_MAX_POLL_ATTEMPTS
    \* Bounds on how often the environment acts
    MaxCalls,           \* calls of the API
    MaxFaults           \* crashes, leases that living workers outlive, lost answers

Worker == ImageWorker \cup ParseWorker

ASSUME ImagesAssumption ==
    /\ ImageWorker \cap ParseWorker = {}
    /\ Nobody \notin Worker \cup Entry /\ None \notin Dota \cup Object
    /\ LocalReplay \subseteq Dota
    /\ {MaxImageAttempts, MaxParseAttempts, MaxPolls} \subseteq Nat \ {0}
    /\ {MaxCalls, MaxFaults} \subseteq Nat

VARIABLES
    link,       \* journal_matches.dotaMatchId
    stored,     \* dota_matches.rawData: not there, without or with the replay
    provider,   \* the replay at OpenDota: not parsed, asked for, parsed
    image,      \* match_image_jobs
    parse,      \* opendota_parse_jobs
    shown,      \* match_images of each entry
    object,     \* object store: the match an object shows
    worker,     \* what each worker is doing
    call,       \* what each caller asked for, between the call's statements
    spent,      \* calls and faults so far
    enabled,    \* OPENDOTA_PARSE_ENABLED: whether parse ticks do anything
    \* Auxiliary, read by no action: entries whose images were committed in an
    \* answer that the worker never got
    unanswered

vars == <<link, stored, provider, image, parse, shown, object, worker, call, spent,
          enabled, unanswered>>
rows == <<image, parse>>
pictures == <<shown, object, unanswered>>

-----------------------------------------------------------------------------
Active == {"pending", "processing"}
Payload == {"basic", "parsed"}

ImageRow == [status : {"none", "pending", "processing", "completed", "failed"},
             attempts : Nat, lockedAt : Worker \cup {Nobody}, stale : BOOLEAN]

\* asked: the provider's job is known (provider_job_id).
ParseRow == [status : {"none", "pending", "processing", "completed", "failed"},
             attempts : Nat, lockedAt : Worker \cup {Nobody}, stale : BOOLEAN,
             dota : Dota \cup {None}, asked : BOOLEAN, polls : Nat]

ImageStep == {"source", "state", "defer", "notReady", "render", "upload",
              "progress", "replace", "clean", "complete"}
ParseStep == {"source", "submit", "mark", "fetch", "wait", "save", "complete"}

\* failing: the attempt failed; final and counted say how.
WorkerState == [step : {"idle", "failing"} \cup ImageStep \cup ParseStep,
                entry : Entry \cup {Nobody}, dota : Dota \cup {None},
                row : ImageRow \cup ParseRow, object : Object \cup {None},
                previous : Object \cup {None}, final : BOOLEAN, counted : BOOLEAN]

CallState == [kind : {"none", "link", "reprocess", "images", "request"},
              entry : Entry \cup {Nobody}, dota : Dota \cup {None}, payload : Payload]

NoImage == [status |-> "none", attempts |-> 0, lockedAt |-> Nobody, stale |-> FALSE]
NoParse == [status |-> "none", attempts |-> 0, lockedAt |-> Nobody, stale |-> FALSE,
            dota |-> None, asked |-> FALSE, polls |-> 0]
Idle == [step |-> "idle", entry |-> Nobody, dota |-> None, row |-> NoImage,
         object |-> None, previous |-> None, final |-> FALSE, counted |-> FALSE]
NoCall == [kind |-> "none", entry |-> Nobody, dota |-> None, payload |-> "basic"]

\* Entries start without a match (manual) or imported without a replay.
Init ==
    /\ link \in [Entry -> Dota \cup {None}]
    /\ \A e, f \in Entry : link[e] = link[f] => e = f \/ link[e] = None
    /\ stored = [d \in Dota |-> IF \E e \in Entry : link[e] = d THEN "basic" ELSE "none"]
    /\ provider = [d \in Dota |-> "unparsed"]
    /\ image = [e \in Entry |-> NoImage]
    /\ parse = [e \in Entry |-> NoParse]
    /\ shown = [e \in Entry |-> None]
    /\ object = [o \in Object |-> None]
    /\ worker = [w \in Worker |-> Idle]
    /\ call = [c \in Caller |-> NoCall]
    /\ spent = [calls |-> 0, faults |-> 0]
    /\ enabled \in BOOLEAN
    /\ unanswered = {}

Spend(what, most) == spent[what] < most /\ spent' = [spent EXCEPT ![what] = @ + 1]

\* An answer of the provider about a match.
Answer(d) == IF provider[d] = "parsed" THEN "parsed" ELSE "basic"

-----------------------------------------------------------------------------
(* saveOpenDotaMatch: one transaction that links, stores and queues. *)

Duplicate(e, d) == \E f \in Entry \ {e} : link[f] = d

Queued(row) ==
    IF row.status = "processing" THEN row ELSE [NoImage EXCEPT !.status = "pending"]

SaveMatch(e, d, payload, queueImages) ==
    /\ link' = [link EXCEPT ![e] = d]
    /\ stored' = [stored EXCEPT ![d] = payload]
    /\ image' = IF queueImages /\ payload = "parsed"
                THEN [image EXCEPT ![e] = Queued(@)] ELSE image

-----------------------------------------------------------------------------
(* Calls of the API: link an entry, process it again, ask for its parse. *)

Asks(c, kind, e, d, payload) ==
    call' = [call EXCEPT ![c] = [kind |-> kind, entry |-> e, dota |-> d, payload |-> payload]]

\* syncJournalMatchFromOpenDota and reprocessRecentUserMatches fetch first ...
CallFetches(c) ==
    /\ call[c].kind = "none"
    /\ Spend("calls", MaxCalls)
    /\ \E e \in Entry, d \in Dota :
        \/ Asks(c, "link", e, d, Answer(d))
        \/ link[e] = d /\ Asks(c, "reprocess", e, d, Answer(d))
    /\ UNCHANGED <<link, stored, provider, rows, pictures, worker, enabled>>

\* Mutant: nothing stops a match that another entry has.
CallSavesUnchecked(c) ==
    /\ call[c].kind \in {"link", "reprocess"}
    /\ call' = [call EXCEPT ![c] = NoCall]
    /\ SaveMatch(call[c].entry, call[c].dota, call[c].payload, call[c].kind = "link")
    /\ UNCHANGED <<provider, parse, pictures, worker, spent, enabled>>

\* ... and save later, if another entry has not taken the match meanwhile.
CallSaves(c) ==
    /\ call[c].kind \in {"link", "reprocess"}
    /\ call' = [call EXCEPT ![c] = NoCall]
    /\ IF Duplicate(call[c].entry, call[c].dota)
       THEN UNCHANGED <<link, stored, image>>
       ELSE SaveMatch(call[c].entry, call[c].dota, call[c].payload, call[c].kind = "link")
    /\ UNCHANGED <<provider, parse, pictures, worker, spent, enabled>>

\* requestOpenDotaAnalysis, which reads the state of the match ...
Ready(d) == stored[d] = "parsed" \/ d \in LocalReplay

QueueImages(e) ==
    image' = [image EXCEPT ![e] = IF @.status \in {"none", "failed"}
                                  THEN [NoImage EXCEPT !.status = "pending"] ELSE @]

RequestReads(c) == \E e \in Entry :
    /\ call[c].kind = "none" /\ link[e] # None
    /\ Spend("calls", MaxCalls)
    /\ \/ stored[link[e]] = "parsed" /\ Asks(c, "images", e, link[e], "basic")
       \/ /\ ~Ready(link[e]) /\ parse[e].status \notin Active
          /\ Asks(c, "request", e, link[e], "basic")
    /\ UNCHANGED <<link, stored, provider, rows, pictures, worker, enabled>>

\* ... and then queues the images of a match that is parsed already ...
RequestQueues(c) ==
    /\ call[c].kind = "images"
    /\ QueueImages(call[c].entry)
    /\ call' = [call EXCEPT ![c] = NoCall]
    /\ UNCHANGED <<link, stored, provider, parse, pictures, worker, spent, enabled>>

\* ... or writes a job over whatever is there; its match stays the old one.
RequestWrites(c) ==
    /\ call[c].kind = "request"
    /\ parse' = [parse EXCEPT ![call[c].entry] =
            [NoParse EXCEPT !.status = "pending",
                !.dota = IF parse[call[c].entry].status = "none"
                         THEN call[c].dota ELSE parse[call[c].entry].dota]]
    /\ call' = [call EXCEPT ![c] = NoCall]
    /\ UNCHANGED <<link, stored, provider, image, pictures, worker, spent, enabled>>

Call(c) == CallFetches(c) \/ CallSaves(c) \/ RequestReads(c) \/ RequestQueues(c)
           \/ RequestWrites(c)

-----------------------------------------------------------------------------
(* What the workers of both queues do alike. *)

EntryOf(w) == worker[w].entry
Go(w, step) == worker' = [worker EXCEPT ![w].step = step]
Rest(w) == worker' = [worker EXCEPT ![w] = Idle]

Fails(w, final, counted) ==
    worker' = [worker EXCEPT ![w].step = "failing", ![w].final = final,
                             ![w].counted = counted]

Stale(row) == row.status = "processing" /\ row.stale
Unlocked(row, status) == [row EXCEPT !.status = status, !.lockedAt = Nobody,
                                     !.stale = FALSE]
Locked(row, w) == [row EXCEPT !.status = "processing", !.lockedAt = w, !.stale = FALSE]

\* Mutant: a processing row passes for the worker's own.
LeasesAny(row, w) == row.status = "processing"

Leases(row, w) == row.status = "processing" /\ row.lockedAt = w

HasImage(w) == Leases(image[EntryOf(w)], w)
HasParse(w) == Leases(parse[EntryOf(w)], w)

\* A statement that ends the attempt, if the lease is still there.
EndImage(w, row) ==
    IF HasImage(w) THEN image' = [image EXCEPT ![EntryOf(w)] = row] /\ Rest(w)
                   ELSE UNCHANGED image /\ Fails(w, FALSE, FALSE)

\* Mutant: the row is updated by its id alone.
EndAnyParse(w, row, counted) == parse' = [parse EXCEPT ![EntryOf(w)] = row] /\ Rest(w)

EndParse(w, row, counted) ==
    IF HasParse(w) THEN parse' = [parse EXCEPT ![EntryOf(w)] = row] /\ Rest(w)
                   ELSE UNCHANGED parse /\ Fails(w, FALSE, counted)

-----------------------------------------------------------------------------
(* Image worker: runMatchImageJobTick and publishGeneratedMatchImages. *)

RecoverImages ==
    /\ \E e \in Entry : Stale(image[e])
    /\ image' = [e \in Entry |->
            IF ~Stale(image[e]) THEN image[e]
            ELSE Unlocked(image[e], IF image[e].attempts >= MaxImageAttempts
                                    THEN "failed" ELSE "pending")]
    /\ UNCHANGED <<link, stored, provider, parse, pictures, worker, call, spent, enabled>>

ClaimImage(w) == \E e \in Entry :
    /\ worker[w].step = "idle" /\ image[e].status = "pending"
    /\ LET row == [Locked(image[e], w) EXCEPT !.attempts = @ + 1]
       IN /\ image' = [image EXCEPT ![e] = row]
          /\ worker' = [worker EXCEPT ![w] =
                [Idle EXCEPT !.step = "source", !.entry = e, !.row = row]]
    /\ UNCHANGED <<link, stored, provider, parse, pictures, call, spent, enabled>>

ImageSource(w) ==
    /\ worker[w].step = "source"
    /\ LET d == link[EntryOf(w)] IN
        IF d = None THEN Fails(w, TRUE, FALSE)
        ELSE worker' = [worker EXCEPT ![w].dota = d, ![w].step =
                            IF stored[d] = "parsed" THEN "render" ELSE "state"]
    /\ UNCHANGED <<link, stored, provider, rows, pictures, call, spent, enabled>>

\* getOpenDotaAnalysisState: a second statement, which reads everything anew.
ImageState(w) ==
    /\ worker[w].step = "state"
    /\ LET e == EntryOf(w)
       IN Go(w, IF ~Ready(link[e]) /\ parse[e].status \in Active
                THEN "defer" ELSE "notReady")
    /\ UNCHANGED <<link, stored, provider, rows, pictures, call, spent, enabled>>

Deferred(row) == [Unlocked(row, "pending") EXCEPT !.attempts = IF @ = 0 THEN 0 ELSE @ - 1]

ImageDefer(w) ==
    /\ worker[w].step = "defer"
    /\ EndImage(w, Deferred(image[EntryOf(w)]))
    /\ UNCHANGED <<link, stored, provider, parse, pictures, call, spent, enabled>>

\* Mutant: a job waits for a parse that nobody has asked for.
NotReadyWaits(row) == Deferred(row)

NotReady(row) == Unlocked(row, "failed")

ImageNotReady(w) ==
    /\ worker[w].step = "notReady"
    /\ EndImage(w, NotReady(image[EntryOf(w)]))
    /\ UNCHANGED <<link, stored, provider, parse, pictures, call, spent, enabled>>

\* Rendering writes its progress, and stops when the lease is gone.
ImageRender(w) ==
    /\ worker[w].step = "render"
    /\ \/ HasImage(w) /\ Go(w, "upload")
       \/ \E final \in BOOLEAN : (HasImage(w) \/ ~final) /\ Fails(w, final, FALSE)
    /\ UNCHANGED <<link, stored, provider, rows, pictures, call, spent, enabled>>

\* A key is never used twice.
Fresh(o) ==
    /\ object[o] = None
    /\ \A e \in Entry : shown[e] # o
    /\ \A w \in Worker : o \notin {worker[w].object, worker[w].previous}

ImageUpload(w) ==
    /\ worker[w].step = "upload"
    /\ \/ \E o \in Object :
            /\ Fresh(o)
            /\ object' = [object EXCEPT ![o] = worker[w].dota]
            /\ worker' = [worker EXCEPT ![w].object = o, ![w].step = "progress"]
       \/ Fails(w, FALSE, FALSE) /\ UNCHANGED object
    /\ UNCHANGED <<link, stored, provider, rows, shown, unanswered, call, spent, enabled>>

\* bestEffortDelete: an object that cannot be deleted stays.
Delete(o) == object' \in {object, [object EXCEPT ![o] = None]}

\* The progress of an upload is written under the lease; without it, and when
\* the rows cannot be replaced, the new object is taken away again.
ImageProgress(w) ==
    /\ worker[w].step = "progress"
    /\ IF HasImage(w) THEN Go(w, "replace") /\ UNCHANGED object
                      ELSE Delete(worker[w].object) /\ Fails(w, FALSE, FALSE)
    /\ UNCHANGED <<link, stored, provider, rows, shown, unanswered, call, spent, enabled>>

\* Mutant: the images that are replaced are deleted before the new rows exist.
ReplaceDeletesFirst(w) ==
    /\ worker[w].step = "replace"
    /\ LET e == EntryOf(w) IN
        \/ /\ shown' = [shown EXCEPT ![e] = worker[w].object]
           /\ worker' = [worker EXCEPT ![w].previous = shown[e], ![w].step = "clean"]
           /\ UNCHANGED object
        \/ /\ object' = [o \in Object |-> IF o = shown[e] THEN None ELSE object[o]]
           /\ Fails(w, FALSE, FALSE) /\ UNCHANGED shown
    /\ UNCHANGED <<link, stored, provider, rows, unanswered, call, spent, enabled>>

\* The rows are replaced, or they are not and the upload is taken away again.
\* An error may also come after the commit, when the connection breaks: the
\* upload is taken away all the same, although the rows show it now.
ImageReplace(w) ==
    /\ worker[w].step = "replace"
    /\ LET e == EntryOf(w)
           committed == shown' = [shown EXCEPT ![e] = worker[w].object] IN
        \/ /\ committed
           /\ worker' = [worker EXCEPT ![w].previous = shown[e], ![w].step = "clean"]
           /\ unanswered' = unanswered \ {e}
           /\ UNCHANGED <<object, spent>>
        \/ /\ Delete(worker[w].object) /\ Fails(w, FALSE, FALSE)
           /\ UNCHANGED <<shown, unanswered, spent>>
        \/ /\ committed
           /\ Delete(worker[w].object) /\ Fails(w, FALSE, FALSE)
           /\ unanswered' = unanswered \cup {e}
           /\ Spend("faults", MaxFaults)
    /\ UNCHANGED <<link, stored, provider, rows, call, enabled>>

ImageClean(w) ==
    /\ worker[w].step = "clean"
    /\ IF worker[w].previous = None THEN UNCHANGED object ELSE Delete(worker[w].previous)
    /\ worker' = [worker EXCEPT ![w].previous = None, ![w].step = "complete"]
    /\ UNCHANGED <<link, stored, provider, rows, shown, unanswered, call, spent, enabled>>

ImageComplete(w) ==
    /\ worker[w].step = "complete"
    /\ EndImage(w, Unlocked(image[EntryOf(w)], "completed"))
    /\ UNCHANGED <<link, stored, provider, parse, pictures, call, spent, enabled>>

ImageFails(w) ==
    /\ worker[w].step = "failing"
    /\ LET e == EntryOf(w)
           over == worker[w].final \/ worker[w].row.attempts >= MaxImageAttempts
       IN image' = IF HasImage(w)
                   THEN [image EXCEPT ![e] = Unlocked(@, IF over THEN "failed" ELSE "pending")]
                   ELSE image
    /\ Rest(w)
    /\ UNCHANGED <<link, stored, provider, parse, pictures, call, spent, enabled>>

ImageServe(w) ==
    \/ ImageSource(w) \/ ImageState(w) \/ ImageDefer(w) \/ ImageNotReady(w)
    \/ ImageRender(w) \/ ImageUpload(w) \/ ImageProgress(w) \/ ImageReplace(w)
    \/ ImageClean(w) \/ ImageComplete(w) \/ ImageFails(w)

-----------------------------------------------------------------------------
(* Parse worker: runOpenDotaParseTick, which does nothing unless it is enabled. *)

RecoverParses ==
    /\ enabled
    /\ \E e \in Entry : Stale(parse[e])
    /\ parse' = [e \in Entry |->
            IF ~Stale(parse[e]) THEN parse[e]
            ELSE Unlocked(parse[e], IF parse[e].attempts >= MaxParseAttempts
                                    THEN "failed" ELSE "pending")]
    /\ UNCHANGED <<link, stored, provider, image, pictures, worker, call, spent, enabled>>

ClaimParse(w) == \E e \in Entry :
    /\ enabled
    /\ worker[w].step = "idle" /\ parse[e].status = "pending"
    /\ parse' = [parse EXCEPT ![e] = Locked(@, w)]
    /\ worker' = [worker EXCEPT ![w] = [Idle EXCEPT !.step = "source", !.entry = e,
                        !.dota = parse[e].dota, !.row = Locked(parse[e], w)]]
    /\ UNCHANGED <<link, stored, provider, image, pictures, call, spent, enabled>>

\* An entry linked to another match fails its old job.
ParseSource(w) ==
    /\ worker[w].step = "source"
    /\ IF link[EntryOf(w)] # worker[w].dota THEN Fails(w, TRUE, FALSE)
       ELSE Go(w, IF worker[w].row.asked THEN "fetch" ELSE "submit")
    /\ UNCHANGED <<link, stored, provider, rows, pictures, call, spent, enabled>>

\* A replay too old to be asked for fails for good, an exhausted quota without
\* a count.
ParseRefused(w) ==
    /\ worker[w].step = "source"
    /\ link[EntryOf(w)] = worker[w].dota /\ ~worker[w].row.asked
    /\ \E final \in BOOLEAN : Fails(w, final, FALSE)
    /\ UNCHANGED <<link, stored, provider, rows, pictures, call, spent, enabled>>

\* The request may reach the provider though its answer is an error.
ParseSubmit(w) ==
    /\ worker[w].step = "submit"
    /\ LET d == worker[w].dota
           reached == [provider EXCEPT ![d] = IF @ = "unparsed" THEN "asked" ELSE @]
       IN \/ provider' = reached /\ Go(w, "mark")
          \/ provider' \in {provider, reached} /\ \E final \in BOOLEAN : Fails(w, final, TRUE)
    /\ UNCHANGED <<link, stored, rows, pictures, call, spent, enabled>>

ParseMark(w) ==
    /\ worker[w].step = "mark"
    /\ EndParse(w, [Unlocked(parse[EntryOf(w)], "pending")
                        EXCEPT !.asked = TRUE, !.attempts = @ + 1], TRUE)
    /\ UNCHANGED <<link, stored, provider, image, pictures, call, spent, enabled>>

TimedOut(w) == worker[w].row.polls + 1 >= MaxPolls

ParseFetch(w) ==
    /\ worker[w].step = "fetch"
    /\ CASE Answer(worker[w].dota) = "parsed" -> Go(w, "save")
         [] TimedOut(w) -> Fails(w, TRUE, FALSE)
         [] OTHER -> Go(w, "wait")
    /\ UNCHANGED <<link, stored, provider, rows, pictures, call, spent, enabled>>

\* The quota, the provider, or a match without the player.
ParseFetchFails(w) ==
    /\ worker[w].step = "fetch"
    /\ \E final \in BOOLEAN : Fails(w, final, FALSE)
    /\ UNCHANGED <<link, stored, provider, rows, pictures, call, spent, enabled>>

\* Mutant: a poll that finds nothing is not counted.
PolledUncounted(row) == Unlocked(row, "pending")

Polled(row) == [Unlocked(row, "pending") EXCEPT !.polls = @ + 1]

ParseWait(w) ==
    /\ worker[w].step = "wait"
    /\ EndParse(w, Polled(parse[EntryOf(w)]), FALSE)
    /\ UNCHANGED <<link, stored, provider, image, pictures, call, spent, enabled>>

ParseSave(w) ==
    /\ worker[w].step = "save"
    /\ IF Duplicate(EntryOf(w), worker[w].dota)
       THEN Fails(w, TRUE, FALSE) /\ UNCHANGED <<link, stored, image>>
       ELSE SaveMatch(EntryOf(w), worker[w].dota, "parsed", TRUE) /\ Go(w, "complete")
    /\ UNCHANGED <<provider, parse, pictures, call, spent, enabled>>

ParseComplete(w) ==
    /\ worker[w].step = "complete"
    /\ EndParse(w, Unlocked(parse[EntryOf(w)], "completed"), FALSE)
    /\ UNCHANGED <<link, stored, provider, image, pictures, call, spent, enabled>>

\* failOrRetryOpenDotaParseJob; only submissions are counted.
ParseFails(w) ==
    /\ worker[w].step = "failing"
    /\ LET e == EntryOf(w)
           one == IF worker[w].counted THEN 1 ELSE 0
           over == \/ worker[w].final
                   \/ worker[w].row.attempts + one >= MaxParseAttempts
                   \/ worker[w].row.polls >= MaxPolls
           row == [Unlocked(parse[e], IF over THEN "failed" ELSE "pending")
                     EXCEPT !.attempts = @ + one]
       IN parse' = IF HasParse(w) THEN [parse EXCEPT ![e] = row] ELSE parse
    /\ Rest(w)
    /\ UNCHANGED <<link, stored, provider, image, pictures, call, spent, enabled>>

ParseServe(w) ==
    \/ ParseSource(w) \/ ParseRefused(w) \/ ParseSubmit(w) \/ ParseMark(w)
    \/ ParseFetch(w) \/ ParseFetchFails(w) \/ ParseWait(w) \/ ParseSave(w)
    \/ ParseComplete(w) \/ ParseFails(w)

-----------------------------------------------------------------------------
(* The environment, and the specification. *)

Parses(d) ==
    /\ provider[d] # "parsed"
    /\ provider' = [provider EXCEPT ![d] = "parsed"]
    /\ UNCHANGED <<link, stored, rows, pictures, worker, call, spent, enabled>>

Crash(w) ==
    /\ worker[w].step # "idle"
    /\ Spend("faults", MaxFaults)
    /\ Rest(w)
    /\ UNCHANGED <<link, stored, provider, rows, pictures, call, enabled>>

\* locked_at is too old: the worker is gone, or it outlives its lease.
Abandoned(row, e) == \A w \in Worker : ~(Leases(row, w) /\ worker[w].entry = e)

Expires(table, e) ==
    /\ table[e].status = "processing" /\ ~table[e].stale
    /\ IF Abandoned(table[e], e) THEN UNCHANGED spent ELSE Spend("faults", MaxFaults)

GoesStale(e) ==
    /\ \/ Expires(image, e) /\ image' = [image EXCEPT ![e].stale = TRUE] /\ UNCHANGED parse
       \/ Expires(parse, e) /\ parse' = [parse EXCEPT ![e].stale = TRUE] /\ UNCHANGED image
    /\ UNCHANGED <<link, stored, provider, pictures, worker, call, enabled>>

Serve(w) == IF w \in ImageWorker THEN ImageServe(w) ELSE ParseServe(w)
Claim(w) == IF w \in ImageWorker THEN ClaimImage(w) ELSE ClaimParse(w)

Next ==
    \/ \E w \in ImageWorker : ImageServe(w) \/ ClaimImage(w)
    \/ \E w \in ParseWorker : ParseServe(w) \/ ClaimParse(w)
    \/ RecoverImages \/ RecoverParses
    \/ \E c \in Caller : Call(c)
    \/ \E e \in Entry : GoesStale(e)
    \/ \E d \in Dota : Parses(d)
    \/ \E w \in Worker : Crash(w)

Spec == Init /\ [][Next]_vars

\* Timers start the ticks again and again, those of the parses where they are
\* enabled, and every statement returns.  The
\* quota lets a parse pass in the end, and a provider that is asked again and
\* again answers: neither refusal is counted, so without this a parse could be
\* put off for ever.
Fairness ==
    /\ \A w \in Worker : WF_vars(Serve(w)) /\ WF_vars(Claim(w))
    /\ \A w \in ParseWorker : SF_vars(ParseSource(w)) /\ SF_vars(ParseFetch(w))
    /\ WF_vars(RecoverImages) /\ WF_vars(RecoverParses)
    /\ \A e \in Entry : WF_vars(GoesStale(e))

FairSpec == Spec /\ Fairness
=============================================================================
