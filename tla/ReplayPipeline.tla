--------------------------- MODULE ReplayPipeline ---------------------------
(***************************************************************************)
(* The replay pipeline composed: the lanes of the worker service, the      *)
(* recovery of abandoned leases, the API, the administrator, and the       *)
(* environment (clock, disk, process and systemd).                         *)
(***************************************************************************)
EXTENDS ReplayForeground, ReplayBackup, ReplayApi

-----------------------------------------------------------------------------
(* recoverLeases, run at the start of the service and by its prepare lanes.
   A stale heartbeat belongs to a lane that is gone, or to one whose own
   statements have hung for two minutes: a stall. *)

recoveryOnly == <<parsed, meta, file, object, lane, client, admin, service, cooling, circuit>>

Abandoned(l, m) == lane[l].match # m

PhaseByIntent(row) == IF row.intent = "analysis" THEN "awaiting_parse" ELSE "queued"   \* mutant

PhaseAfterLease(row) ==
    IF row.phase = "parsing" /\ row.seal # "none" THEN "awaiting_parse" ELSE "queued"

RecoverJob(m) ==
    /\ service = "up"
    /\ job[m].status = "processing"
    /\ IF Abandoned(job[m].lease, m) THEN UNCHANGED spent ELSE Spend("stalls", MaxStalls)
    /\ SetJob(m, [job[m] EXCEPT
         !.status = "pending", !.lease = NoLane, !.error = "other",
         !.phase = PhaseAfterLease(job[m])])
    /\ UNCHANGED <<recoveryOnly, arch>>

RecoverArchive(m) ==
    /\ service = "up"
    /\ arch[m].status = "processing"
    /\ IF Abandoned(arch[m].lease, m) THEN UNCHANGED spent ELSE Spend("stalls", MaxStalls)
    /\ SetArch(m, [arch[m] EXCEPT !.status = "pending", !.lease = NoLane])
    /\ UNCHANGED <<recoveryOnly, job>>

ExpiredAtLimit(row) ==      \* mutant: both conditions are asked for
    row.late /\ row.attempts >= AttemptLimit(row.error = "metadata")

Expired(row) == row.late \/ row.attempts >= AttemptLimit(row.error = "metadata")

ExpireRequest(m) ==
    /\ service = "up"
    /\ job[m].status = "pending"
    /\ job[m].phase # "awaiting_parse"
    /\ Expired(job[m])
    /\ SetJob(m, [job[m] EXCEPT !.status = "failed", !.phase = "done",
                                !.error = IF @ = "metadata" THEN @ ELSE "other"])
    /\ UNCHANGED <<recoveryOnly, arch, spent>>

ExpireArchive(m) ==
    /\ service = "up"
    /\ arch[m].status = "pending"
    /\ arch[m].attempts >= MaxArchive
    /\ SetArch(m, [arch[m] EXCEPT !.status = "failed", !.lease = NoLane])
    /\ UNCHANGED <<recoveryOnly, job, spent>>

Recovery(m) == RecoverJob(m) \/ RecoverArchive(m) \/ ExpireRequest(m) \/ ExpireArchive(m)

-----------------------------------------------------------------------------
(* The environment *)

tables == <<job, arch, parsed, meta, object, client, admin>>

WindowCloses(m) ==
    /\ Waiting(job[m].status)
    /\ ~job[m].late
    /\ job' = [job EXCEPT ![m].late = TRUE]
    /\ UNCHANGED <<arch, parsed, meta, file, object, lane, client, admin, service,
                   cooling, circuit, spent>>

CooldownEnds ==
    /\ cooling
    /\ cooling' = FALSE
    /\ UNCHANGED <<tables, file, lane, service, circuit, spent>>

CircuitCloses ==
    /\ circuit
    /\ circuit' = FALSE
    /\ UNCHANGED <<tables, file, lane, service, cooling, spent>>

LoseFile(m) ==
    /\ file[m] \in Contents
    /\ Spend("losses", MaxLosses)
    /\ \E left \in {"absent", "bad"} \ {file[m]} : file' = [file EXCEPT ![m] = left]
    /\ UNCHANGED <<tables, lane, service, cooling, circuit>>

\* SIGTERM of an operator: every lane ends its task and claims no other.
Terminate ==
    /\ service \in {"up", "draining", "failing"}
    /\ Spend("stops", MaxStops)
    /\ service' = "stopping"
    /\ UNCHANGED <<tables, file, lane, cooling, circuit>>

\* The connection that owns the advisory lock, or an idle lane's, reports an
\* error, or a lane's heartbeat statement fails.
Disconnect ==
    /\ service = "up"
    /\ Spend("stops", MaxStops)
    /\ Abort
    /\ UNCHANGED <<tables, file, lane, cooling, circuit>>

\* The process dies, and the importer with it; rows and files stay.
Crash ==
    /\ service \in {"up", "draining", "failing", "stopping"}
    /\ Spend("stops", MaxStops)
    /\ service' = IF service = "stopping" THEN "stopped" ELSE "down"
    /\ lane' = [l \in Lanes |-> Idle]
    /\ UNCHANGED <<tables, file, cooling, circuit>>

Exit ==
    /\ \A l \in Lanes : At(l, "idle")
    /\ \/ service = "draining" /\ service' = "exited"
       \/ service = "failing" /\ service' = "down"
       \/ service = "stopping" /\ service' = "stopped"
    /\ UNCHANGED <<tables, file, lane, cooling, circuit, spent>>

\* systemd, five seconds after an exit with another code than 0.
Restart ==
    /\ service = "down"
    /\ service' = "up"
    /\ UNCHANGED <<tables, file, lane, cooling, circuit, spent>>

\* systemctl start, whenever an operator thinks of it.
Start ==
    /\ service \in {"exited", "stopped"}
    /\ service' = "up"
    /\ UNCHANGED <<tables, file, lane, cooling, circuit, spent>>

Environment ==
    \/ \E m \in Matches : WindowCloses(m) \/ LoseFile(m)
    \/ CooldownEnds \/ CircuitCloses
    \/ Terminate \/ Disconnect \/ Crash \/ Exit \/ Restart \/ Start

-----------------------------------------------------------------------------
Worker ==
    \/ \E l \in PrepareLanes : PrepareStep(l) \/ \E m \in Matches : ClaimPrepare(l, m)
    \/ \E l \in ParseLanes : ParseStep(l) \/ \E m \in Matches : ClaimParse(l, m)
    \/ \E l \in Foreground : Finish(l) \/ Fail(l) \/ LeaseLost(l) \/ HeartbeatLost(l)
    \/ \E l \in ArchiveLanes :
          BackupStep(l) \/ ArchiveHeartbeatLost(l) \/ \E m \in Matches : ClaimArchive(l, m)

Api ==
    \/ \E c \in Clients :
          RequestStep(c) \/ ServeStep(c)
          \/ \E m \in Matches, i \in Intents, aged \in BOOLEAN : RequestRead(c, m, i, aged)
    \/ AdminStep

Next == Worker \/ (\E m \in Matches : Recovery(m)) \/ Api \/ Environment

Spec == Init /\ [][Next]_vars

\* Lanes run and poll every 1.5 seconds, prepare lanes recover every minute,
\* systemd restarts a failed unit, clocks run.  Nobody has to ask for anything,
\* and nobody has to start a unit that has ended without a failure.
Fairness ==
    /\ \A l \in PrepareLanes : WF_vars(PrepareStep(l))
    /\ \A l \in ParseLanes : WF_vars(ParseStep(l))
    /\ \A l \in Foreground : WF_vars(Finish(l) \/ Fail(l) \/ LeaseLost(l))
    /\ \A l \in ArchiveLanes : WF_vars(BackupStep(l))
    /\ \A m \in Matches :
         /\ WF_vars(\E l \in PrepareLanes : ClaimPrepare(l, m))
         /\ WF_vars(\E l \in ParseLanes : ClaimParse(l, m))
         /\ WF_vars(\E l \in ArchiveLanes : ClaimArchive(l, m))
         /\ WF_vars(Recovery(m))
         /\ WF_vars(WindowCloses(m))
    /\ WF_vars(Exit) /\ WF_vars(Restart) /\ WF_vars(CooldownEnds) /\ WF_vars(CircuitCloses)

FairSpec == Spec /\ Fairness
=============================================================================
