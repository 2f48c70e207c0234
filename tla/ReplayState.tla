----------------------------- MODULE ReplayState -----------------------------
(***************************************************************************)
(* The state of the replay pipeline: the two job tables, the match's       *)
(* stored analysis, the spool directory, the object store, the lanes of    *)
(* the worker service, and the API calls between their statements.         *)
(***************************************************************************)
EXTENDS ReplayPolicy

CONSTANTS
    Matches,                                \* Dota matches with a summary
    PrepareLanes, ParseLanes, ArchiveLanes, \* lanes of the worker service
    Clients,                                \* concurrent replay requests
    NoLane, NoMatch,
    OnApp,          \* the API runs on the app node, without the spool's disk
    Aging,          \* matches that may be past REPLAY_REQUEST_MAX_AGE_DAYS
    Inherited,      \* matches the one-shot worker left behind, see Init
    AttemptCap,     \* least(attempts+1, 32767)
    \* Bounds on how often the environment acts
    MaxRequests,    \* replay requests
    MaxDeletes,     \* archive deletions by the administrator
    MaxStops,       \* terminations, crashes and dropped connections of the service
    MaxStalls,      \* heartbeats that stay away although their lane lives
    MaxLosses       \* spool files lost or damaged on the disk

Foreground == PrepareLanes \cup ParseLanes
Lanes == Foreground \cup ArchiveLanes
Budgets == {"requests", "deletes", "stops", "stalls", "losses"}

ASSUME LanesAssumption ==
    /\ NoLane \notin Lanes
    /\ NoMatch \notin Matches
    /\ PrepareLanes \cap ParseLanes = {}
    /\ Foreground \cap ArchiveLanes = {}

ASSUME BoundsAssumption ==
    /\ OnApp \in BOOLEAN
    /\ AttemptCap \in Nat
    /\ \A b \in {MaxRequests, MaxDeletes, MaxStops, MaxStalls, MaxLosses} : b \in Nat

VARIABLES
    job,        \* local_replay_jobs, by match
    arch,       \* replay_archive_jobs, by match
    parsed,     \* dota_matches.local_replay_data is complete
    meta,       \* dota_matches.raw_data holds a replay descriptor
    file,       \* the spool file
    object,     \* the object store's copy of the replay
    lane,       \* what each lane of the service is doing
    client,     \* replay requests between their statements
    admin,      \* the archive page's delete between its statements
    service,    \* the worker process and its systemd unit
    cooling,    \* metadata-provider cooldown
    circuit,    \* archive-storage circuit is open
    spent       \* how often the environment has acted

vars == <<job, arch, parsed, meta, file, object, lane, client, admin,
          service, cooling, circuit, spent>>

-----------------------------------------------------------------------------
Statuses == {"none", "pending", "processing", "completed", "failed"}

\* The contents a digest tells apart: the replay, or bytes two lanes mixed.
Contents == {"good", "bad"}

\* A file that is not whole: one transfer's part of the replay, or a part that
\* two lanes have written to and that may turn out as either.
Unfinished == {"partial", "torn"}

\* The process at work; its lanes end their task, after an abort from within
\* ("draining"), after a lane threw ("failing") or after SIGTERM ("stopping").
\* Restart=on-failure brings back a unit that is "down", not one that exited
\* with code 0 ("exited") nor one that was stopped.
Services == {"up", "draining", "failing", "stopping", "down", "exited", "stopped"}

\* "working" stands for the phases between a prepare lane's claim and its end,
\* "queued" for queued and retry_wait, which the claims treat alike.
JobRow == [status   : Statuses,
           intent   : Intents,
           phase    : {"queued", "working", "awaiting_parse", "parsing", "done"},
           attempts : Nat,
           error    : ErrorClass,
           late     : BOOLEAN,                      \* retry deadline passed
           lease    : Foreground \cup {NoLane},     \* locked_at
           seal     : Contents \cup {"none"},       \* spool_complete, spool_sha256
           key      : BOOLEAN,                      \* archive_key is set
           archive  : {"active", "missing", "deleted"}]

ArchRow == [status   : Statuses,
            attempts : Nat,
            lease    : ArchiveLanes \cup {NoLane}]

Steps == {"idle", "read", "head", "mark", "verify", "discard", "cooldown", "fetch",
          "reserve", "restore", "download", "open", "write", "seal", "handoff",
          "finish", "prepared", "import", "fail",
          "backup", "look", "upload", "record", "confirm", "activate", "settle", "stop"}

\* `row` is the row the lane keeps in memory; parsed, meta and archived are
\* what it has learnt since; fault is what the running step raised.
LaneState == [step     : Steps,
              match    : Matches \cup {NoMatch},
              row      : JobRow,
              tries    : Nat,                       \* archive task.attempts
              parsed   : BOOLEAN,
              meta     : BOOLEAN,
              archived : BOOLEAN,
              fault    : Faults]

ClientState == [step   : {"idle", "head", "missing", "upsert", "open", "hash", "unseal"},
                match  : Matches \cup {NoMatch},
                intent : Intents,
                fresh  : BOOLEAN,                   \* passes the age check
                seal   : Contents \cup {"none"},    \* of the row read for a delivery
                opened : Contents \cup {"none"}]    \* the file when it was opened

NoRow == [status |-> "none", intent |-> "download", phase |-> "done", attempts |-> 0,
          error |-> "none", late |-> FALSE, lease |-> NoLane, seal |-> "none",
          key |-> FALSE, archive |-> "missing"]

\* A row of the one-shot worker: the upload was stored (onUploaded recorded its
\* key) but never confirmed, the retries ran out, cleanSpool took the file.
InheritedRow == [NoRow EXCEPT !.status = "failed", !.error = "other", !.key = TRUE]

Idle == [step |-> "idle", match |-> NoMatch, row |-> NoRow, tries |-> 0, parsed |-> FALSE,
         meta |-> FALSE, archived |-> FALSE, fault |-> "network"]

Resting == [step |-> "idle", match |-> NoMatch, intent |-> "download", fresh |-> FALSE,
            seal |-> "none", opened |-> "none"]

NoDeletion == [step |-> "idle", match |-> NoMatch, folder |-> {}]

TypeOK ==
    /\ job \in [Matches -> JobRow]
    /\ arch \in [Matches -> ArchRow]
    /\ parsed \in [Matches -> BOOLEAN]
    /\ meta \in [Matches -> BOOLEAN]
    /\ file \in [Matches -> Contents \cup Unfinished \cup {"absent"}]
    /\ object \in [Matches -> Contents \cup {"none"}]
    /\ lane \in [Lanes -> LaneState]
    /\ client \in [Clients -> ClientState]
    /\ admin \in [step : {"idle", "list", "delete", "mark"},
                 match : Matches \cup {NoMatch}, folder : SUBSET Matches]
    /\ service \in Services
    /\ cooling \in BOOLEAN
    /\ circuit \in BOOLEAN
    /\ spent \in [Budgets -> Nat]

Init ==
    /\ job = [m \in Matches |-> IF m \in Inherited THEN InheritedRow ELSE NoRow]
    /\ arch = [m \in Matches |-> [status |-> "none", attempts |-> 0, lease |-> NoLane]]
    /\ parsed = [m \in Matches |-> FALSE]
    /\ meta \in [Matches -> BOOLEAN]
    /\ file = [m \in Matches |-> "absent"]
    /\ object = [m \in Matches |-> IF m \in Inherited THEN "good" ELSE "none"]
    /\ lane = [l \in Lanes |-> Idle]
    /\ client = [c \in Clients |-> Resting]
    /\ admin = NoDeletion
    /\ service = "up"
    /\ cooling = FALSE
    /\ circuit = FALSE
    /\ spent = [b \in Budgets |-> 0]

-----------------------------------------------------------------------------
Spend(what, limit) ==
    /\ spent[what] < limit
    /\ spent' = [spent EXCEPT ![what] = @ + 1]

\* verifyCheckpoint: the file is there and has the recorded size and digest.
Matching(m, seal) == seal # "none" /\ file[m] = seal

SetJob(m, row) == job' = [job EXCEPT ![m] = row]
SetArch(m, row) == arch' = [arch EXCEPT ![m] = row]

At(l, step) == lane[l].step = step
Goto(l, step) == lane' = [lane EXCEPT ![l].step = step]
Raise(l, fault) == lane' = [lane EXCEPT ![l].step = "fail", ![l].fault = fault]
Release(l) == lane' = [lane EXCEPT ![l] = Idle]

\* abort.abort(): no lane claims again, and the process ends with code 0 unless
\* a lane throws.
Abort == service' = IF service = "up" THEN "draining" ELSE service

\* An error leaves a lane's loop: the others are aborted, the process will end
\* with code 1.
Throw == service' = IF service \in {"up", "draining"} THEN "failing" ELSE service
=============================================================================
