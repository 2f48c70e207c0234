---------------------------- MODULE ReplayBackup ----------------------------
(***************************************************************************)
(* The archive lanes (run-pipeline.mjs claimArchive and archiveCheckpoint):*)
(* a sealed replay is copied to the object store under a lease of its own, *)
(* whatever becomes of the foreground job.                                 *)
(***************************************************************************)
EXTENDS ReplayState

backupOnly == <<parsed, meta, file, client, admin, cooling, spent>>

HoldsArchive(l) ==
    /\ arch[lane[l].match].status = "processing"
    /\ arch[lane[l].match].lease = l

\* A statement of archiveCheckpoint's update.
UpdateArch(l, row) == HoldsArchive(l) /\ SetArch(lane[l].match, row)

Stop(l, fault) == lane' = [lane EXCEPT ![l].step = "stop", ![l].fault = fault]

\* WHERE spool_name=$4 AND spool_sha256=$5: the checkpoint is still the one read.
SameCheckpoint(l) == job[lane[l].match].seal = lane[l].row.seal

\* Mutant: the attempt is not counted in the row.
ClaimUncounted(l, m) ==
    /\ service = "up"
    /\ At(l, "idle")
    /\ arch[m].status = "pending"
    /\ job[m].seal # "none"
    /\ ~circuit
    /\ SetArch(m, [arch[m] EXCEPT !.status = "processing", !.lease = l])
    /\ lane' = [lane EXCEPT ![l] = [Idle EXCEPT !.step = "backup", !.match = m,
                                                !.tries = arch[m].attempts]]
    /\ UNCHANGED <<backupOnly, job, object, service, circuit>>

ClaimArchive(l, m) ==
    LET row == [status |-> "processing", attempts |-> arch[m].attempts + 1, lease |-> l] IN
    /\ service = "up"
    /\ At(l, "idle")
    /\ arch[m].status = "pending"
    /\ job[m].seal # "none"
    /\ ~circuit
    /\ SetArch(m, row)
    /\ lane' = [lane EXCEPT ![l] = [Idle EXCEPT !.step = "backup", !.match = m,
                                                !.tries = row.attempts]]
    /\ UNCHANGED <<backupOnly, job, object, service, circuit>>

\* The key comes from the descriptor, or is the one recorded before.
ReadCheckpoint(l) ==
    LET m == lane[l].match
        row == job[m]
    IN  /\ At(l, "backup")
        /\ IF Matching(m, row.seal) /\ (meta[m] \/ row.key)
           THEN lane' = [lane EXCEPT ![l].row = row,
                                     ![l].step = IF row.key THEN "look" ELSE "upload"]
           ELSE Stop(l, "fatal")
        /\ UNCHANGED <<backupOnly, job, arch, object, service, circuit>>

\* An object under the recorded key is used again if its digest is the file's.
HeadUploaded(l) ==
    LET stored == object[lane[l].match] IN
    /\ At(l, "look")
    /\ \/ stored = "none" /\ Goto(l, "upload")
       \/ stored = lane[l].row.seal /\ Goto(l, "activate")
       \/ Stop(l, "network")
    /\ UNCHANGED <<backupOnly, job, arch, object, service, circuit>>

\* uploadReplay stores whatever the file holds by then.
Upload(l) ==
    LET m == lane[l].match IN
    /\ At(l, "upload")
    /\ \/ /\ file[m] # "absent"
          /\ object' = [object EXCEPT ![m] = IF file[m] = "good" THEN "good" ELSE "bad"]
          /\ Goto(l, "record")
       \/ Stop(l, "network") /\ UNCHANGED object
    /\ UNCHANGED <<backupOnly, job, arch, service, circuit>>

\* onUploaded
RecordKey(l) ==
    LET m == lane[l].match IN
    /\ At(l, "record")
    /\ job' = IF SameCheckpoint(l) THEN [job EXCEPT ![m].key = TRUE] ELSE job
    /\ Goto(l, "confirm")
    /\ UNCHANGED <<backupOnly, arch, object, service, circuit>>

\* The HEAD that confirms the upload.
VerifyUpload(l) ==
    /\ At(l, "confirm")
    /\ \/ object[lane[l].match] # "none" /\ Goto(l, "activate")
       \/ Stop(l, "network")
    /\ UNCHANGED <<backupOnly, job, arch, object, service, circuit>>

\* Mutant: the status is not set.
ActivateKeyOnly(l) ==
    LET m == lane[l].match IN
    /\ At(l, "activate")
    /\ job' = IF SameCheckpoint(l) THEN [job EXCEPT ![m].key = TRUE] ELSE job
    /\ Goto(l, "settle")
    /\ UNCHANGED <<backupOnly, arch, object, service, circuit>>

\* Bound to the checkpoint, not to the lease.
Activate(l) ==
    LET m == lane[l].match IN
    /\ At(l, "activate")
    /\ job' = IF SameCheckpoint(l)
              THEN [job EXCEPT ![m].key = TRUE, ![m].archive = "active"] ELSE job
    /\ Goto(l, "settle")
    /\ UNCHANGED <<backupOnly, arch, object, service, circuit>>

ArchiveDone(l) ==
    /\ At(l, "settle")
    /\ UpdateArch(l, [arch[lane[l].match] EXCEPT !.status = "completed", !.lease = NoLane])
    /\ circuit' = FALSE
    /\ Release(l)
    /\ UNCHANGED <<backupOnly, job, object, service>>

\* The catch of archiveCheckpoint: an unusable checkpoint or the last attempt
\* stops the task, anything else opens the storage circuit and waits.
ArchiveFail(l) ==
    LET terminal == lane[l].fault = "fatal" \/ lane[l].tries >= MaxArchive IN
    /\ At(l, "stop")
    /\ UpdateArch(l, [arch[lane[l].match] EXCEPT
         !.status = IF terminal THEN "failed" ELSE "pending", !.lease = NoLane])
    /\ circuit' = (circuit \/ ~terminal)
    /\ Release(l)
    /\ UNCHANGED <<backupOnly, job, object, service>>

ArchiveLeaseLost(l) ==
    /\ lane[l].step \in {"settle", "stop"}
    /\ ~HoldsArchive(l)
    /\ Release(l)
    /\ Throw
    /\ UNCHANGED <<backupOnly, job, arch, object, circuit>>

ArchiveHeartbeatLost(l) ==
    /\ ~At(l, "idle")
    /\ ~HoldsArchive(l)
    /\ service = "up"
    /\ Abort
    /\ UNCHANGED <<backupOnly, job, arch, object, lane, circuit>>

BackupStep(l) ==
    \/ ReadCheckpoint(l) \/ HeadUploaded(l) \/ Upload(l) \/ RecordKey(l)
    \/ VerifyUpload(l) \/ Activate(l) \/ ArchiveDone(l) \/ ArchiveFail(l)
    \/ ArchiveLeaseLost(l)
=============================================================================
