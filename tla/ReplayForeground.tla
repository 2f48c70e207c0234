-------------------------- MODULE ReplayForeground --------------------------
(***************************************************************************)
(* The prepare and parse lanes (run-pipeline.mjs foreground, run-queue.mjs *)
(* handle, parsePrepared, finishForeground, failJob).  Every action is one *)
(* SQL statement, one operation on the spool file or one remote call, with *)
(* the local computation around it: the lanes interleave where they await. *)
(***************************************************************************)
EXTENDS ReplayState

foregroundOnly == <<arch, client, admin, circuit, spent>>

\* The lease check of every updateJob.
Holds(l) ==
    /\ job[lane[l].match].status = "processing"
    /\ job[lane[l].match].lease = l

\* Mutant: any lease will do.
UpdateJobAnyLease(l, row) ==
    job[lane[l].match].status = "processing" /\ SetJob(lane[l].match, row)

\* A statement of updateJob: it changes the row only for the lease's holder.
UpdateJob(l, row) == Holds(l) /\ SetJob(lane[l].match, row)

-----------------------------------------------------------------------------
\* claimLane.  A lane claims only between two tasks, so its name serves as the
\* lease token locked_at.
TakeJob(l, m, phase, attempts, step) ==
    LET row == [job[m] EXCEPT !.status = "processing", !.phase = phase,
                              !.attempts = attempts, !.lease = l]
    IN  /\ service = "up"
        /\ At(l, "idle")
        /\ job[m].status = "pending"
        /\ SetJob(m, row)
        /\ lane' = [lane EXCEPT ![l] = [Idle EXCEPT !.step = step, !.match = m, !.row = row]]
        /\ UNCHANGED <<foregroundOnly, parsed, meta, file, object, service, cooling>>

ClaimPrepare(l, m) ==
    /\ job[m].phase # "awaiting_parse"
    /\ ~job[m].late
    /\ TakeJob(l, m, "working",
               IF job[m].attempts < AttemptCap THEN job[m].attempts + 1 ELSE AttemptCap, "read")

ClaimParse(l, m) ==
    /\ job[m].phase = "awaiting_parse"
    /\ TakeJob(l, m, "parsing", job[m].attempts, "prepared")

-----------------------------------------------------------------------------
(* handle, for a prepare lane *)

ReadMatch(l) ==
    LET row == lane[l].row IN
    /\ At(l, "read")
    /\ lane' = [lane EXCEPT
         ![l].parsed = parsed[lane[l].match],
         ![l].meta = meta[lane[l].match],
         ![l].archived = row.seal # "none" /\ row.archive = "active" /\ row.key,
         ![l].step = IF row.key /\ row.archive # "deleted" /\ row.seal = "none"
                     THEN "head" ELSE "verify"]
    /\ UNCHANGED <<foregroundOnly, job, parsed, meta, file, object, service, cooling>>

\* Only a 404 means that the object is missing; any other answer is a fault.
HeadArchive(l) ==
    LET exists == object[lane[l].match] # "none" IN
    /\ At(l, "head")
    /\ \/ lane' = [lane EXCEPT
            ![l].archived = exists,
            ![l].step = IF exists /\ lane[l].row.archive = "active" THEN "verify" ELSE "mark"]
       \/ Raise(l, "network")
    /\ UNCHANGED <<foregroundOnly, job, parsed, meta, file, object, service, cooling>>

MarkArchive(l) ==
    /\ At(l, "mark")
    /\ UpdateJob(l, [job[lane[l].match] EXCEPT
         !.archive = IF lane[l].archived THEN "active" ELSE "missing"])
    /\ Goto(l, "verify")
    /\ UNCHANGED <<foregroundOnly, parsed, meta, file, object, service, cooling>>

PlanOf(l, valid) ==
    processingPlan(lane[l].archived, lane[l].parsed, lane[l].row.intent, valid)

\* Where handle goes once it knows whether the saved file is usable.
NextAfterVerify(l, valid) ==
    CASE PlanOf(l, valid) = "complete" -> "finish"
      [] PlanOf(l, valid) = "use-checkpoint" -> "handoff"
      [] PlanOf(l, valid) = "download" /\ ~lane[l].meta -> "cooldown"
      [] OTHER -> "reserve"

VerifySpool(l) ==
    LET m == lane[l].match
        valid == Matching(m, lane[l].row.seal)
        broken == lane[l].row.seal # "none" /\ file[m] # "absent" /\ ~valid
    IN  /\ At(l, "verify")
        /\ file' = IF broken THEN [file EXCEPT ![m] = "absent"] ELSE file
        /\ Goto(l, IF broken THEN "discard" ELSE NextAfterVerify(l, valid))
        /\ UNCHANGED <<foregroundOnly, job, parsed, meta, object, service, cooling>>

DiscardSpool(l) ==
    /\ At(l, "discard")
    /\ UpdateJob(l, [job[lane[l].match] EXCEPT !.seal = "none"])
    /\ lane' = [lane EXCEPT ![l].row.seal = "none", ![l].step = NextAfterVerify(l, FALSE)]
    /\ UNCHANGED <<foregroundOnly, parsed, meta, file, object, service, cooling>>

\* A check that meets the provider's cooldown gives its attempt back.
CheckCooldown(l) ==
    LET refunded(n) == IF n = 0 THEN 0 ELSE n - 1 IN
    /\ At(l, "cooldown")
    /\ Holds(l)
    /\ \/ /\ cooling
          /\ UpdateJob(l, [job[lane[l].match] EXCEPT !.attempts = refunded(@)])
          /\ lane' = [lane EXCEPT ![l].row.attempts = refunded(@),
                                  ![l].step = "fail", ![l].fault = "cooldown"]
       \/ /\ ~cooling
          /\ Goto(l, "fetch")
          /\ UNCHANGED job
    /\ UNCHANGED <<foregroundOnly, parsed, meta, file, object, service, cooling>>

FetchMetadata(l) ==
    /\ At(l, "fetch")
    /\ \/ /\ meta' = [meta EXCEPT ![lane[l].match] = TRUE]
          /\ Goto(l, "reserve")
       \/ /\ \E fault \in Faults \ {"cooldown"} : Raise(l, fault)
          /\ UNCHANGED meta
    /\ UNCHANGED <<foregroundOnly, job, parsed, file, object, service, cooling>>

\* A spool name for the match and a reservation for the transfer.
Reserve(l) ==
    /\ At(l, "reserve")
    /\ Holds(l)
    /\ \/ Goto(l, IF PlanOf(l, FALSE) = "restore-archive" THEN "restore" ELSE "download")
       \/ Raise(l, "network")
    /\ UNCHANGED <<foregroundOnly, job, parsed, meta, file, object, service, cooling>>

\* retrieveReplay and the rename onto the spool file.
RestoreArchive(l) ==
    LET m == lane[l].match IN
    /\ At(l, "restore")
    /\ \/ /\ object[m] # "none"
          /\ file' = [file EXCEPT ![m] = object[m]]
          /\ Goto(l, "seal")
       \/ Raise(l, "network") /\ UNCHANGED file
    /\ UNCHANGED <<foregroundOnly, job, parsed, meta, object, service, cooling>>

\* Another lane has the match's file open for its own transfer.
Shared(l) == \E k \in PrepareLanes \ {l} : At(k, "write") /\ lane[k].match = lane[l].match

\* downloadResilient, its three attempts taken as one.  What lies in the file
\* is resumed or, when it is already full, truncated; no lease is checked.
BeginDownload(l) ==
    LET m == lane[l].match IN
    /\ At(l, "download")
    /\ file' = CASE file[m] # "absent" /\ Shared(l) -> [file EXCEPT ![m] = "torn"]
                 [] file[m] \in Contents /\ ~Shared(l) -> [file EXCEPT ![m] = "partial"]
                 [] OTHER -> file
    /\ Goto(l, "open")
    /\ UNCHANGED <<foregroundOnly, job, parsed, meta, object, service, cooling>>

\* The response replaces what lies in the file or is appended to it.
OpenTransfer(l) ==
    LET m == lane[l].match
        opened == CASE Shared(l) -> {"torn"}
                    [] ~Shared(l) /\ file[m] = "torn" -> Unfinished
                    [] OTHER -> {"partial"}
    IN
    /\ At(l, "open")
    /\ \/ /\ UpdateJob(l, [job[m] EXCEPT !.seal = "none"])
          /\ \E part \in opened : file' = [file EXCEPT ![m] = part]
          /\ lane' = [lane EXCEPT ![l].row.seal = "none", ![l].step = "write"]
       \/ /\ \E fault \in {"network", "fatal"} : Raise(l, fault)
          /\ UNCHANGED <<job, file>>
    /\ UNCHANGED <<foregroundOnly, parsed, meta, object, service, cooling>>

\* The transfer into the open file.  What two lanes have written to, at whatever
\* moments, may turn out as the replay or not; a lane without the lease stops at
\* its next progress report, having written or not.
WriteReplay(l) ==
    LET m == lane[l].match
        body == IF file[m] = "partial" THEN {"good"} ELSE Contents
    IN  /\ At(l, "write")
        /\ \/ /\ Holds(l) /\ file[m] # "absent"
              /\ \E content \in body : file' = [file EXCEPT ![m] = content]
              /\ Goto(l, "seal")
              /\ UNCHANGED service
           \/ /\ Holds(l)
              /\ file' \in {file} \cup
                   (IF file[m] \in Contents THEN {[file EXCEPT ![m] = "torn"]} ELSE {})
              /\ \E fault \in {"network", "fatal"} : Raise(l, fault)
              /\ UNCHANGED service
           \/ /\ ~Holds(l)
              /\ file' \in {file} \cup
                   (IF file[m] \in Contents THEN {[file EXCEPT ![m] = "bad"]} ELSE {})
              /\ Release(l)
              /\ Throw
        /\ UNCHANGED <<foregroundOnly, job, parsed, meta, object, cooling>>

\* The file's digest is taken and the checkpoint recorded as complete.
Seal(l) ==
    LET m == lane[l].match IN
    /\ At(l, "seal")
    /\ \/ /\ file[m] \in Contents
          /\ UpdateJob(l, [job[m] EXCEPT !.seal = file[m]])
          /\ lane' = [lane EXCEPT ![l].row.seal = file[m], ![l].step = "handoff"]
       \/ /\ file[m] \notin Contents
          /\ Raise(l, "network")
          /\ UNCHANGED job
    /\ UNCHANGED <<foregroundOnly, parsed, meta, file, object, service, cooling>>

\* The upsert of the archive job: not fenced, and nothing while one is open.
EnqueueArchive(l) ==
    LET m == lane[l].match IN
    /\ At(l, "handoff")
    /\ arch' = IF ~lane[l].archived /\ arch[m].status \in {"none", "completed", "failed"}
               THEN [arch EXCEPT ![m] = [status |-> "pending", attempts |-> 0, lease |-> NoLane]]
               ELSE arch
    /\ Goto(l, "finish")
    /\ UNCHANGED <<job, parsed, meta, file, object, client, admin, service,
                   cooling, circuit, spent>>

\* Mutant: the upgrade of a running download is overlooked.
ToParseAsClaimed(l) == lane[l].row.intent = "analysis" /\ ~lane[l].parsed

\* An analysis still to be made goes to the parse lane.  finishForeground also
\* sends there a download that a request turned into an analysis meanwhile.
ToParse(l) ==
    IF lane[l].row.intent = "analysis"
    THEN ~lane[l].parsed
    ELSE job[lane[l].match].intent = "analysis"

Finish(l) ==
    LET ended == [job[lane[l].match] EXCEPT !.error = "none", !.lease = NoLane]
    IN  /\ At(l, "finish")
        /\ UpdateJob(l, IF ToParse(l)
                        THEN [ended EXCEPT !.status = "pending", !.phase = "awaiting_parse"]
                        ELSE [ended EXCEPT !.status = "completed", !.phase = "done"])
        /\ Release(l)
        /\ UNCHANGED <<foregroundOnly, parsed, meta, file, object, service, cooling>>

-----------------------------------------------------------------------------
(* parsePrepared, for a parse lane *)

VerifyPrepared(l) ==
    LET m == lane[l].match
        valid == Matching(m, lane[l].row.seal)
    IN  /\ At(l, "prepared")
        /\ \/ ~valid /\ Raise(l, "fatal")
           \/ /\ valid /\ parsed[m]
              /\ lane' = [lane EXCEPT ![l].parsed = TRUE, ![l].step = "finish"]
           \/ /\ valid /\ ~parsed[m]
              /\ Holds(l)
              /\ Goto(l, "import")
        /\ UNCHANGED <<foregroundOnly, job, parsed, meta, file, object, service, cooling>>

\* Mutant: the importer's exit code is not looked at.
ImportUnchecked(l) ==
    LET m == lane[l].match IN
    /\ At(l, "import")
    /\ \E stored \in {FALSE} \cup (IF file[m] = "good" THEN {TRUE} ELSE {}) :
        parsed' = [parsed EXCEPT ![m] = @ \/ stored]
    /\ lane' = [lane EXCEPT ![l].parsed = TRUE, ![l].step = "finish"]
    /\ UNCHANGED <<foregroundOnly, job, meta, file, object, service, cooling>>

\* The importer is a child process with a connection of its own: it may store
\* the analysis and still be reported as failed, or be killed by the abort.
Import(l) ==
    LET m == lane[l].match IN
    /\ At(l, "import")
    /\ \E stored \in {FALSE} \cup (IF file[m] = "good" THEN {TRUE} ELSE {}) :
        /\ parsed' = [parsed EXCEPT ![m] = @ \/ stored]
        /\ \/ /\ stored
              /\ lane' = [lane EXCEPT ![l].parsed = TRUE, ![l].step = "finish"]
           \/ \E fault \in {"network", "fatal"} : Raise(l, fault)
    /\ UNCHANGED <<foregroundOnly, job, meta, file, object, service, cooling>>

-----------------------------------------------------------------------------
\* failJob
Fail(l) ==
    LET m == lane[l].match
        fault == lane[l].fault
    IN  /\ At(l, "fail")
        /\ \E status \in retryDecision(fault, lane[l].row.attempts, job[m].late) :
             UpdateJob(l, [job[m] EXCEPT !.status = status, !.lease = NoLane,
                                         !.phase = IF status = "failed" THEN "done" ELSE "queued",
                                         !.error = ErrorOf(fault)])
        /\ cooling' = (cooling \/ fault = "limited")
        /\ Release(l)
        /\ UNCHANGED <<foregroundOnly, parsed, meta, file, object, service>>

\* Steps at which a lane updates its row.  Without the lease the update throws,
\* the update in failJob throws again, and the lane takes the service down.
FencedSteps == {"mark", "discard", "cooldown", "reserve", "open", "seal", "finish",
                "prepared", "fail"}

LeaseLost(l) ==
    /\ lane[l].step \in FencedSteps
    /\ ~Holds(l)
    /\ cooling' = (cooling \/ (At(l, "fail") /\ lane[l].fault = "limited"))
    /\ Release(l)
    /\ Throw
    /\ UNCHANGED <<foregroundOnly, job, parsed, meta, file, object>>

\* The heartbeat finds the lease lost before the lane does.
HeartbeatLost(l) ==
    /\ ~At(l, "idle")
    /\ ~Holds(l)
    /\ service = "up"
    /\ Abort
    /\ UNCHANGED <<foregroundOnly, job, parsed, meta, file, object, lane, cooling>>

-----------------------------------------------------------------------------
PrepareStep(l) ==
    \/ ReadMatch(l) \/ HeadArchive(l) \/ MarkArchive(l) \/ VerifySpool(l)
    \/ DiscardSpool(l) \/ CheckCooldown(l) \/ FetchMetadata(l) \/ Reserve(l)
    \/ RestoreArchive(l) \/ BeginDownload(l) \/ OpenTransfer(l) \/ WriteReplay(l)
    \/ Seal(l) \/ EnqueueArchive(l)

ParseStep(l) == VerifyPrepared(l) \/ Import(l)

ForegroundStep(l) == PrepareStep(l) \/ ParseStep(l) \/ Finish(l) \/ Fail(l) \/ LeaseLost(l)
=============================================================================
