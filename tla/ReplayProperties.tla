-------------------------- MODULE ReplayProperties --------------------------
(***************************************************************************)
(* What makes the replay pipeline correct.                                 *)
(***************************************************************************)
EXTENDS ReplayPipeline

-----------------------------------------------------------------------------
(* Leases *)

\* A row is processing exactly while it carries a lease: a lease left behind on
\* another status would let a stale lane write, a processing row without one
\* could be written by nobody (claimLane, updateJob, failJob, recoverLeases,
\* the request's upsert and archiveCheckpoint keep status and locked_at in step).
LeaseInv ==
    \A m \in Matches :
        /\ job[m].status = "processing" <=> job[m].lease # NoLane
        /\ arch[m].status = "processing" <=> arch[m].lease # NoLane

\* The lease comparison in every update keeps the result of an old worker out
\* of the tables: a lane at work whose lease was recovered changes no job row,
\* an archive lane without its lease no archive row.
StaleLaneWritesNothing ==
    [][/\ \A l \in Foreground :
             ~At(l, "idle") /\ ~Holds(l) /\ lane'[l] # lane[l] => job' = job
       /\ \A l \in ArchiveLanes :
             ~At(l, "idle") /\ ~HoldsArchive(l) /\ lane'[l] # lane[l] => arch' = arch]_vars

-----------------------------------------------------------------------------
(* Requests *)

\* A job that ends as completed with the intent analysis has its analysis
\* stored, also when the intent was raised while a download was running
\* (finishForeground's CASE, handle's plan, parsePrepared).
AnalysisDelivered ==
    \A m \in Matches :
        job[m].status = "completed" /\ job[m].intent = "analysis" => parsed[m]

\* The job table implements the requests people make: rows wait, are served or
\* given up, an open analysis never becomes a download, none is closed without
\* its analysis, whatever lanes, restarts and further requests do.
RequestState(row) ==
    CASE row.status = "none" -> "none"
      [] Waiting(row.status) -> "open"
      [] row.status = "completed" -> "delivered"
      [] OTHER -> "failed"

Request == INSTANCE ReplayRequest WITH
    state <- [m \in Matches |-> RequestState(job[m])],
    want <- [m \in Matches |-> job[m].intent],
    analysed <- parsed

RequestsKept == Request!Spec

\* The unit ended for good without a failure: an operator stopped it, or a lost
\* connection aborted it (main() then returns and the process exits with code 0).
StaysInactive == <>[](service \in {"exited", "stopped"})

\* Every request ends, unless the unit ended without a failure and is not
\* started again: it is completed or failed, also across crashes, restarts after
\* a failure, operators' starts, provider cooldowns and failing storage.
RequestsEnd ==
    \/ StaysInactive
    \/ \A m \in Matches :
          Waiting(job[m].status) ~> job[m].status \in {"completed", "failed"}

-----------------------------------------------------------------------------
(* The replay itself *)

\* A checkpoint marked complete is the replay: the sealed file is on the disk,
\* whole, and not a mixture of two lanes' bytes (downloadResilient, the rename
\* after a restore, the removal of a broken file).
SealedReplayIntact ==
    \A m \in Matches : job[m].seal # "none" => job[m].seal = "good" /\ file[m] = "good"

\* A job waiting for the parse lane has its replay ready on the disk.
AwaitingParseHasReplay ==
    \A m \in Matches :
        job[m].status = "pending" /\ job[m].phase = "awaiting_parse" => Matching(m, job[m].seal)

\* A completed job can be downloaded: its replay is sealed in the spool, or
\* active in the archive and stored there, unless the administrator deleted files.
CompletedIsAvailable ==
    \A m \in Matches :
        job[m].status = "completed" =>
            \/ Matching(m, job[m].seal)
            \/ job[m].key /\ job[m].archive = "active" /\ object[m] # "none"
            \/ spent["deletes"] > 0

\* A completed job whose sealed replay is in no archive still has a backup
\* task for it, or one that was given up; none is forgotten between the
\* foreground's upsert and the archive lane's end.
BackupOwed ==
    \A m \in Matches :
        /\ job[m].status = "completed"
        /\ job[m].seal # "none"
        /\ job[m].archive = "missing"
        => arch[m].status \in {"pending", "processing", "failed"}

\* Every backup task ends, whatever the store answers and the service survives,
\* unless the unit ended without a failure and is not started again.
BackupsEnd ==
    \/ StaysInactive
    \/ \A m \in Matches :
          Waiting(arch[m].status) ~> arch[m].status \in {"completed", "failed"}

\* "The replay service must always be active; do not start its timer"
\* (docs/replay-pipeline-tasks.fa.md:102): unless an operator stops it, it is
\* active again after whatever interrupts it.
AlwaysComesBack ==
    \/ <>(service \in {"stopping", "stopped"})
    \/ service # "up" ~> service = "up"
=============================================================================
