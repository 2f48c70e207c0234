------------------------------ MODULE ReplayApi ------------------------------
(***************************************************************************)
(* The API's side of the pipeline: replay requests (job-repository.ts),    *)
(* the delivery of a local file (local-file.ts) and the deletion of an     *)
(* archived replay by the administrator (admin/replay-archive/route.ts).   *)
(***************************************************************************)
EXTENDS ReplayState

apiOnly == <<arch, parsed, meta, lane, service, cooling, circuit>>

Rest(c) == client' = [client EXCEPT ![c] = Resting]

\* localReplayFile looks at the recorded size only; on the app node never.
HasLocal(m) == ~OnApp /\ job[m].seal # "none" /\ file[m] \in Contents
HasComputeCheckpoint(m) == OnApp /\ job[m].seal # "none"
Listed(m) == job[m].key /\ job[m].archive = "active"

-----------------------------------------------------------------------------
(* requestReplayByDotaId.  "ready" and "expired" answers change nothing. *)

RequestRead(c, m, intent, aged) ==
    LET fresh == ~aged \/ HasLocal(m) \/ HasComputeCheckpoint(m) IN
    /\ aged => m \in Aging
    /\ client[c].step = "idle"
    /\ ~(intent = "analysis" /\ parsed[m])
    /\ ~(intent = "download" /\ HasLocal(m))
    /\ Listed(m) \/ fresh
    /\ Spend("requests", MaxRequests)
    /\ client' = [client EXCEPT ![c] = [Resting EXCEPT
                     !.step = IF Listed(m) THEN "head" ELSE "upsert",
                     !.match = m, !.intent = intent, !.fresh = fresh]]
    /\ UNCHANGED <<apiOnly, job, file, object, admin>>

\* getReplayArchive reads the row again and asks the store.
RequestHead(c) ==
    LET m == client[c].match
        onwards == IF client[c].fresh
                   THEN client' = [client EXCEPT ![c].step = "upsert"] ELSE Rest(c)
    IN  /\ client[c].step = "head"
        /\ \/ ~Listed(m) /\ onwards
           \/ Listed(m) /\ object[m] = "none" /\ client' = [client EXCEPT ![c].step = "missing"]
           \/ /\ Listed(m) /\ object[m] # "none"
              /\ IF client[c].intent = "download"
                 THEN Rest(c) ELSE client' = [client EXCEPT ![c].step = "upsert"]
           \/ Listed(m) /\ Rest(c)                  \* the store does not answer
        /\ UNCHANGED <<apiOnly, job, file, object, admin, spent>>

RequestMarkMissing(c) ==
    LET m == client[c].match IN
    /\ client[c].step = "missing"
    /\ job' = IF Listed(m) THEN [job EXCEPT ![m].archive = "missing"] ELSE job
    /\ IF client[c].fresh THEN client' = [client EXCEPT ![c].step = "upsert"] ELSE Rest(c)
    /\ UNCHANGED <<apiOnly, file, object, admin, spent>>

Waiting(status) == status \in {"pending", "processing"}

\* Mutant: a request that arrives during the processing takes the lease away.
UpsertDropsLease(row, intent) ==
    LET open == Waiting(row.status) IN
    [row EXCEPT
        !.intent   = IF open /\ @ = "analysis" THEN @ ELSE intent,
        !.status   = IF @ = "processing" THEN @ ELSE "pending",
        !.phase    = IF row.status = "processing" THEN @ ELSE "queued",
        !.attempts = IF open THEN @ ELSE 0,
        !.late     = open /\ @,
        !.lease    = NoLane,
        !.error    = "none"]

\* A waiting analysis is never turned back into a download, and a request to
\* a waiting job keeps its attempts, its deadline and its lease.
UpsertRow(row, intent) ==
    LET open == Waiting(row.status) IN
    [row EXCEPT
        !.intent   = IF open /\ @ = "analysis" THEN @ ELSE intent,
        !.status   = IF @ = "processing" THEN @ ELSE "pending",
        !.phase    = IF row.status = "processing" THEN @ ELSE "queued",
        !.attempts = IF open THEN @ ELSE 0,
        !.late     = open /\ @,
        !.lease    = IF row.status = "processing" THEN @ ELSE NoLane,
        !.error    = "none"]

RequestUpsert(c) ==
    LET m == client[c].match
        upgrades == job[m].intent = "download" /\ client[c].intent = "analysis"
    IN  /\ client[c].step = "upsert"
        /\ job' = IF ~Waiting(job[m].status) \/ upgrades
                  THEN [job EXCEPT ![m] = UpsertRow(@, client[c].intent)] ELSE job
        /\ Rest(c)
        /\ UNCHANGED <<apiOnly, file, object, admin, spent>>

RequestStep(c) == RequestHead(c) \/ RequestMarkMissing(c) \/ RequestUpsert(c)

-----------------------------------------------------------------------------
(* GET of the replay's file: localReplayFile with verify, between whose steps
   the lanes go on.  The open descriptor is hashed: its digest is that of the
   file it was opened on or of what a lane has written since.  Without a usable
   file the route asks for the archive like a request with nothing to queue. *)

AskArchive(c) == [client[c] EXCEPT !.step = "head", !.fresh = FALSE,
                                   !.seal = "none", !.opened = "none"]

ServeRow(c, m) ==
    /\ client[c].step = "idle"
    /\ ~OnApp
    /\ job[m].seal # "none"
    /\ Spend("requests", MaxRequests)
    /\ client' = [client EXCEPT ![c] = [Resting EXCEPT
                     !.step = "open", !.match = m, !.seal = job[m].seal]]
    /\ UNCHANGED <<apiOnly, job, file, object, admin>>

\* lstat, open and the size: a file that is not whole is not the recorded one.
ServeOpen(c) ==
    LET m == client[c].match IN
    /\ client[c].step = "open"
    /\ client' = [client EXCEPT ![c] =
         IF file[m] \in Contents THEN [@ EXCEPT !.step = "hash", !.opened = file[m]]
                                 ELSE AskArchive(c)]
    /\ UNCHANGED <<apiOnly, job, file, object, admin, spent>>

\* Mutant: the digests are compared the wrong way round.
ServeHashInverted(c) ==
    /\ client[c].step = "hash"
    /\ \E digest \in {client[c].opened, file[client[c].match]} :
         client' = [client EXCEPT ![c] = IF digest # client[c].seal THEN Resting
                                         ELSE [@ EXCEPT !.step = "unseal"]]
    /\ UNCHANGED <<apiOnly, job, file, object, admin, spent>>

ServeHash(c) ==
    /\ client[c].step = "hash"
    /\ \E digest \in {client[c].opened, file[client[c].match]} :
         client' = [client EXCEPT ![c] = IF digest = client[c].seal THEN Resting
                                         ELSE [@ EXCEPT !.step = "unseal"]]
    /\ UNCHANGED <<apiOnly, job, file, object, admin, spent>>

\* WHERE spool_name=... AND spool_sha256=...: the row that was read.
ServeUnseal(c) ==
    LET m == client[c].match IN
    /\ client[c].step = "unseal"
    /\ job' = IF job[m].seal = client[c].seal THEN [job EXCEPT ![m].seal = "none"] ELSE job
    /\ client' = [client EXCEPT ![c] = AskArchive(c)]
    /\ UNCHANGED <<apiOnly, file, object, admin, spent>>

ServeStep(c) ==
    \/ \E m \in Matches : ServeRow(c, m)
    \/ ServeOpen(c) \/ ServeHash(c) \/ ServeUnseal(c)

-----------------------------------------------------------------------------
(* POST of the archive page: one key of the listing, or a folder whose objects
   are then taken one by one (eight side by side in the code). *)

Busy(m) == job[m].key /\ job[m].status = "processing"

AdminList(folder) ==
    /\ admin.step = "idle"
    /\ ~\E m \in folder : Busy(m)
    /\ Spend("deletes", MaxDeletes)
    /\ admin' = [NoDeletion EXCEPT !.step = "list", !.folder = folder]
    /\ UNCHANGED <<apiOnly, job, file, object, client>>

AdminCheck(m) ==
    /\ \/ admin.step = "idle" /\ Spend("deletes", MaxDeletes)
       \/ admin.step = "list" /\ m \in admin.folder /\ UNCHANGED spent
    /\ object[m] # "none"
    /\ ~Busy(m)
    /\ admin' = [admin EXCEPT !.step = "delete", !.match = m]
    /\ UNCHANGED <<apiOnly, job, file, object, client>>

AdminDelete ==
    /\ admin.step = "delete"
    /\ object' = [object EXCEPT ![admin.match] = "none"]
    /\ admin' = [admin EXCEPT !.step = "mark"]
    /\ UNCHANGED <<apiOnly, job, file, client, spent>>

AdminMark ==
    LET m == admin.match IN
    /\ admin.step = "mark"
    /\ job' = IF job[m].key THEN [job EXCEPT ![m].archive = "deleted"] ELSE job
    /\ admin' = IF admin.folder = {} THEN NoDeletion
                ELSE [admin EXCEPT !.step = "list", !.match = NoMatch]
    /\ UNCHANGED <<apiOnly, file, object, client, spent>>

\* The listing is empty: every row with a key of the folder is marked.
AdminSweep ==
    /\ admin.step = "list"
    /\ \A m \in admin.folder : object[m] = "none"
    /\ job' = [m \in Matches |->
         IF m \in admin.folder /\ job[m].key THEN [job[m] EXCEPT !.archive = "deleted"] ELSE job[m]]
    /\ admin' = NoDeletion
    /\ UNCHANGED <<apiOnly, file, object, client, spent>>

\* The request ends early: a replay of the folder is busy by now, or the store
\* or the database fails, the deletion done or not.
AdminFails ==
    /\ admin.step # "idle"
    /\ admin' = NoDeletion
    /\ UNCHANGED <<apiOnly, job, file, object, client, spent>>

AdminStep ==
    \/ \E folder \in SUBSET Matches \ {{}} : AdminList(folder)
    \/ \E m \in Matches : AdminCheck(m)
    \/ AdminDelete \/ AdminMark \/ AdminSweep \/ AdminFails
=============================================================================
