------------------------- MODULE ReplayRequestProofs -------------------------
(***************************************************************************)
(* Leases and requests: what any step may do to a row of the job table,    *)
(* and what follows from it for every number of matches, lanes, clients,   *)
(* restarts and stalls.                                                    *)
(***************************************************************************)
EXTENDS ReplayTypeProofs

-----------------------------------------------------------------------------
(* The moves of a row: every step of the system makes one at most, or keeps *)
(* the books of several rows. *)

SameRequest(r, s) == s.status = r.status /\ s.intent = r.intent
Bookkept(r, s) == SameRequest(r, s) /\ s.lease = r.lease
Claimed(r, s) ==
    /\ r.status = "pending" /\ s.status = "processing"
    /\ s.intent = r.intent /\ s.lease \in Foreground
Returned(r, s) ==
    /\ r.status = "processing" /\ s.status \in {"pending", "failed"}
    /\ s.intent = r.intent /\ s.lease = NoLane
GivenUp(r, s) ==
    /\ r.status = "pending" /\ s.status = "failed"
    /\ s.intent = r.intent /\ s.lease = r.lease
Delivered(m, r, s) ==
    /\ r.status = "processing" /\ s.status = "completed"
    /\ s.intent = r.intent /\ s.lease = NoLane
    /\ r.intent = "analysis" => parsed[m]
Asked(r, s) == ~Waiting(r.status) /\ s.status = "pending" /\ s.lease = NoLane
Upgraded(r, s) ==
    /\ Waiting(r.status) /\ s.status = r.status /\ s.intent = "analysis"
    /\ s.lease = IF r.status = "processing" THEN r.lease ELSE NoLane

RowMove(m, r, s) ==
    \/ Bookkept(r, s) \/ Claimed(r, s) \/ Returned(r, s) \/ GivenUp(r, s)
    \/ Delivered(m, r, s) \/ Asked(r, s) \/ Upgraded(r, s)

JobMove ==
    \/ UNCHANGED job
    \/ UNCHANGED parsed /\ \A m \in Matches : Bookkept(job[m], job'[m])
    \/ /\ UNCHANGED parsed
       /\ \E m \in Matches :
             /\ \A n \in Matches \ {m} : job'[n] = job[n]
             /\ RowMove(m, job[m], job'[m])

\* What a lane believes to be parsed is.
LearntInv ==
    \A l \in Lanes : lane[l].parsed => lane[l].match \in Matches /\ parsed[lane[l].match]

\* At the start no lane believes anything parsed.
LEMMA InitLearnt == Init => LearntInv
  BY DEF Init, LearntInv, Idle

\* The analysis, once stored, stays.
ParsedStays == \A m \in Matches : parsed[m] => parsed'[m]

LaneLearns(l) ==
    lane'[l].parsed =>
        \/ lane[l].parsed /\ lane'[l].match = lane[l].match
        \/ lane'[l].match \in Matches /\ parsed'[lane'[l].match]

\* The usual ends of a step teach a lane nothing.
LEMMA LaneStepLearns ==
  ASSUME TypeInv, NEW l \in Lanes, NEW k \in Lanes
  PROVE  /\ UNCHANGED lane => LaneLearns(k)
         /\ \A step : Goto(l, step) => LaneLearns(k)
         /\ \A fault : Raise(l, fault) \/ Stop(l, fault) => LaneLearns(k)
         /\ Release(l) => LaneLearns(k)
<1>1. lane \in [Lanes -> LaneState] /\ lane[k] \in LaneState
  BY DEF TypeInv, LanesTyped
<1>2. UNCHANGED lane => LaneLearns(k)
  BY DEF LaneLearns
<1>3. ASSUME NEW step, Goto(l, step) PROVE LaneLearns(k)
  BY <1>1, <1>3 DEF Goto, LaneLearns, LaneState
<1>4. ASSUME NEW fault, Raise(l, fault) \/ Stop(l, fault) PROVE LaneLearns(k)
  BY <1>1, <1>4 DEF Raise, Stop, LaneLearns, LaneState
<1>5. Release(l) => LaneLearns(k)
  BY <1>1 DEF Release, LaneLearns, LaneState, Idle
<1> QED
  BY <1>2, <1>3, <1>4, <1>5

\* A prepare lane learns that a match is parsed by reading it, or not at all.
LEMMA PrepareLearns ==
  ASSUME TypeInv, NEW l \in PrepareLanes, PrepareStep(l), NEW k \in Lanes
  PROVE  UNCHANGED parsed /\ LaneLearns(k)
<1>1. l \in Lanes
  BY DEF Lanes, Foreground
<1>2. lane \in [Lanes -> LaneState] /\ lane[l] \in LaneState
  BY <1>1 DEF TypeInv, LanesTyped
<1>3. UNCHANGED parsed
  BY DEF PrepareStep, ReadMatch, HeadArchive, MarkArchive, VerifySpool, DiscardSpool,
         CheckCooldown, FetchMetadata, Reserve, RestoreArchive, BeginDownload, OpenTransfer,
         WriteReplay, Seal, EnqueueArchive
<1>4. CASE \/ MarkArchive(l) \/ VerifySpool(l) \/ FetchMetadata(l) \/ Reserve(l)
           \/ RestoreArchive(l) \/ BeginDownload(l) \/ WriteReplay(l) \/ EnqueueArchive(l)
  BY <1>1, <1>4, LaneStepLearns DEF MarkArchive, VerifySpool, FetchMetadata, Reserve,
     RestoreArchive, BeginDownload, WriteReplay, EnqueueArchive
<1>5. CASE ReadMatch(l)
  <2>1. lane[l].match \in Matches
    BY <1>1, <1>5 DEF ReadMatch, At, TypeInv, LanesTyped
  <2> QED
    BY <1>2, <1>5, <2>1 DEF ReadMatch, LaneLearns, LaneState
<1>6. ASSUME HeadArchive(l) \/ DiscardSpool(l) \/ OpenTransfer(l) \/ Seal(l)
      PROVE  LaneLearns(k)
  <2>1. \A fault : Raise(l, fault) => LaneLearns(k)
    BY <1>1, LaneStepLearns
  <2>2. CASE HeadArchive(l)
    BY <1>2, <2>1, <2>2 DEF HeadArchive, LaneLearns, LaneState
  <2>5. CASE DiscardSpool(l)
    BY <1>2, <2>5 DEF DiscardSpool, LaneLearns, LaneState
  <2>3. CASE OpenTransfer(l)
    BY <1>2, <2>1, <2>3 DEF OpenTransfer, LaneLearns, LaneState
  <2>4. CASE Seal(l)
    BY <1>2, <2>1, <2>4 DEF Seal, LaneLearns, LaneState
  <2> QED
    BY <1>6, <2>2, <2>3, <2>4, <2>5
<1>7. CASE CheckCooldown(l)
  <2>1. CASE cooling
    BY <1>2, <1>3, <1>7, <2>1 DEF CheckCooldown, LaneLearns, LaneState
  <2>2. CASE ~cooling
    BY <1>1, <1>3, <1>7, <2>2, LaneStepLearns DEF CheckCooldown
  <2> QED
    BY <2>1, <2>2
<1> QED
  BY <1>3, <1>4, <1>5, <1>6, <1>7 DEF PrepareStep

\* A parse lane learns it from the match or from its own importer.
LEMMA ParseLearns ==
  ASSUME TypeInv, NEW l \in ParseLanes, ParseStep(l), NEW k \in Lanes
  PROVE  ParsedStays /\ LaneLearns(k)
<1> USE DEF LaneLearns, LaneState
<1>1. l \in Lanes
  BY DEF Lanes, Foreground
<1>2. lane \in [Lanes -> LaneState] /\ parsed \in [Matches -> BOOLEAN]
  BY DEF TypeInv, LanesTyped, StoresTyped
<1>3. lane[l] \in LaneState /\ lane[k] \in LaneState /\ lane[l].match \in Matches
  BY <1>1, <1>2 DEF ParseStep, VerifyPrepared, Import, At, TypeInv, LanesTyped
<1>4. CASE VerifyPrepared(l)
  BY <1>2, <1>3, <1>4 DEF VerifyPrepared, Goto, Raise, ParsedStays
<1>5. CASE Import(l)
  <2> DEFINE m == lane[l].match
  <2>1. PICK stored \in BOOLEAN :
          /\ parsed' = [parsed EXCEPT ![m] = @ \/ stored]
          /\ \/ stored /\ lane' = [lane EXCEPT ![l].parsed = TRUE, ![l].step = "finish"]
             \/ \E fault : Raise(l, fault)
    BY <1>5 DEF Import
  <2>2. ParsedStays /\ (stored => parsed'[m])
    BY <1>2, <1>3, <2>1 DEF ParsedStays
  <2>3. LaneLearns(k)
    BY <1>2, <1>3, <2>1, <2>2 DEF Raise
  <2> QED
    BY <2>2, <2>3
<1> QED
  BY <1>4, <1>5 DEF ParseStep

\* Claims, the ends of tasks and the archive lanes teach a lane nothing.
LEMMA OtherWorkerLearns ==
  ASSUME TypeInv, NEW k \in Lanes,
         \/ \E l \in Foreground : \/ Finish(l) \/ Fail(l) \/ LeaseLost(l) \/ HeartbeatLost(l)
                                  \/ \E m \in Matches : ClaimPrepare(l, m) \/ ClaimParse(l, m)
         \/ \E l \in ArchiveLanes : \/ BackupStep(l) \/ ArchiveHeartbeatLost(l)
                                    \/ \E m \in Matches : ClaimArchive(l, m)
  PROVE  UNCHANGED parsed /\ LaneLearns(k)
<1>1. lane \in [Lanes -> LaneState] /\ lane[k] \in LaneState
  BY DEF TypeInv, LanesTyped
<1>2. CASE \E l \in Foreground : Finish(l) \/ Fail(l) \/ LeaseLost(l) \/ HeartbeatLost(l)
  <2>1. PICK l \in Foreground : Finish(l) \/ Fail(l) \/ LeaseLost(l) \/ HeartbeatLost(l)
    BY <1>2
  <2>2. l \in Lanes
    BY DEF Lanes
  <2> QED
    BY <2>1, <2>2, LaneStepLearns DEF Finish, Fail, LeaseLost, HeartbeatLost
<1>3. CASE \E l \in Foreground, m \in Matches : ClaimPrepare(l, m) \/ ClaimParse(l, m)
  <2>1. PICK l \in Foreground, m \in Matches :
          \E phase, attempts, step : TakeJob(l, m, phase, attempts, step)
    BY <1>3 DEF ClaimPrepare, ClaimParse
  <2>2. LaneLearns(k)
    BY <1>1, <2>1 DEF TakeJob, LaneLearns, LaneState, Idle
  <2> QED
    BY <2>1, <2>2 DEF TakeJob
<1>4. CASE \E l \in ArchiveLanes, m \in Matches : ClaimArchive(l, m)
  <2>1. PICK l \in ArchiveLanes, m \in Matches : ClaimArchive(l, m)
    BY <1>4
  <2>2. LaneLearns(k)
    BY <1>1, <2>1 DEF ClaimArchive, LaneLearns, LaneState, Idle
  <2> QED
    BY <2>1, <2>2 DEF ClaimArchive, backupOnly
<1>5. CASE \E l \in ArchiveLanes : BackupStep(l) \/ ArchiveHeartbeatLost(l)
  <2>1. PICK l \in ArchiveLanes : BackupStep(l) \/ ArchiveHeartbeatLost(l)
    BY <1>5
  <2>2. l \in Lanes
    BY DEF Lanes
  <2>3. UNCHANGED parsed
    BY <2>1 DEF backupOnly, BackupStep, ReadCheckpoint, HeadUploaded, Upload, RecordKey,
       VerifyUpload, Activate, ArchiveDone, ArchiveFail, ArchiveLeaseLost, ArchiveHeartbeatLost
  <2>4. CASE ReadCheckpoint(l)
    BY <1>1, <2>2, <2>3, <2>4, LaneStepLearns DEF ReadCheckpoint, LaneLearns, LaneState
  <2>5. CASE ~ReadCheckpoint(l)
    BY <2>1, <2>2, <2>3, <2>5, LaneStepLearns
    DEF BackupStep, HeadUploaded, Upload, RecordKey, VerifyUpload, Activate, ArchiveDone,
        ArchiveFail, ArchiveLeaseLost, ArchiveHeartbeatLost
  <2> QED
    BY <2>4, <2>5
<1> QED
  BY <1>2, <1>3, <1>4, <1>5

\* No other step touches a lane, but for the crash, which empties them all.
LEMMA OutsideLearns ==
  ASSUME TypeInv, (\E m \in Matches : Recovery(m)) \/ Api \/ Environment
  PROVE  UNCHANGED parsed /\ \A k \in Lanes : LaneLearns(k)
<1>1. /\ UNCHANGED parsed
      /\ UNCHANGED lane \/ lane' = [l \in Lanes |-> Idle]
  <2>1. CASE \E m \in Matches : Recovery(m)
    BY <2>1 DEF Recovery, RecoverJob, RecoverArchive, ExpireRequest, ExpireArchive, recoveryOnly
  <2>2. CASE Api
    BY <2>2 DEF Api, RequestStep, RequestRead, RequestHead, RequestMarkMissing, RequestUpsert,
                ServeStep, ServeRow, ServeOpen,
         ServeHash, ServeUnseal, AdminStep, AdminList, AdminCheck, AdminDelete, AdminMark,
         AdminSweep, AdminFails, apiOnly
  <2>3. CASE Environment
    BY <2>3 DEF Environment, WindowCloses, LoseFile, CooldownEnds, CircuitCloses, Terminate,
                Disconnect, Crash, Exit, Restart, Start, tables
  <2> QED
    BY <2>1, <2>2, <2>3
<1> QED
  BY <1>1 DEF LaneLearns, Idle

\* Every step: analyses stay, and lanes learn only of those that exist.
LEMMA NextLearns == TypeInv /\ [Next]_vars => ParsedStays /\ \A k \in Lanes : LaneLearns(k)
<1> SUFFICES ASSUME TypeInv, [Next]_vars PROVE ParsedStays /\ \A k \in Lanes : LaneLearns(k)
  OBVIOUS
<1>1. UNCHANGED parsed => ParsedStays
  BY DEF ParsedStays
<1>2. CASE Worker
  <2>1. PrepareLanes \subseteq Foreground /\ ParseLanes \subseteq Foreground
    BY DEF Foreground
  <2>2. ASSUME NEW k \in Lanes PROVE ParsedStays /\ LaneLearns(k)
    BY <1>1, <1>2, <2>1, PrepareLearns, ParseLearns, OtherWorkerLearns DEF Worker
  <2>3. \E k \in Lanes : TRUE
    BY <1>2, <2>1 DEF Worker, Lanes
  <2> QED
    BY <2>2, <2>3
<1>3. CASE (\E m \in Matches : Recovery(m)) \/ Api \/ Environment
  BY <1>1, <1>3, OutsideLearns
<1>4. CASE UNCHANGED vars
  BY <1>1, <1>4 DEF vars, LaneLearns
<1> QED
  BY <1>2, <1>3, <1>4 DEF Next

\* A lane takes for parsed only what is.
LEMMA NextLearnt == TypeInv /\ LearntInv /\ [Next]_vars => LearntInv'
  BY NextLearns DEF LearntInv, LaneLearns, ParsedStays

-----------------------------------------------------------------------------
(* Every step makes such a move. *)

\* An edit of one row is a move of the table if it is a move of the row.
LEMMA RowEdit ==
  ASSUME TypeInv, NEW m \in Matches, NEW s, SetJob(m, s), UNCHANGED parsed,
         RowMove(m, job[m], s)
  PROVE  JobMove
<1>1. job'[m] = s /\ \A n \in Matches \ {m} : job'[n] = job[n]
  BY DEF SetJob, TypeInv, JobsTyped
<1> QED
  BY <1>1 DEF JobMove

\* A claim takes a pending row, for what it is pending for.
LEMMA ClaimMove ==
  ASSUME TypeInv, NEW l \in Foreground, NEW m \in Matches,
         ClaimPrepare(l, m) \/ ClaimParse(l, m)
  PROVE  JobMove
<1>1. PICK phase, attempts, step : TakeJob(l, m, phase, attempts, step)
  BY DEF ClaimPrepare, ClaimParse
<1> DEFINE s == [job[m] EXCEPT !.status = "processing", !.phase = phase,
                               !.attempts = attempts, !.lease = l]
<1>2. job[m] \in JobRow
  BY DEF TypeInv, JobsTyped
<1>3. Claimed(job[m], s)
  BY <1>1, <1>2 DEF TakeJob, Claimed, JobRow
<1> QED
  BY <1>1, <1>3, RowEdit DEF TakeJob, RowMove

\* What a prepare lane writes before its task ends is bookkeeping.
LEMMA PrepareMove ==
  ASSUME TypeInv, NEW l \in PrepareLanes, PrepareStep(l)
  PROVE  JobMove
<1> DEFINE m == lane[l].match
<1>1. l \in Lanes /\ m \in Matches /\ job[m] \in JobRow
  BY DEF Lanes, Foreground, PrepareStep, ReadMatch, HeadArchive, MarkArchive, VerifySpool,
         DiscardSpool, CheckCooldown, FetchMetadata, Reserve, RestoreArchive, BeginDownload,
         OpenTransfer, WriteReplay, Seal, EnqueueArchive, At, TypeInv, LanesTyped, JobsTyped
<1>2. \A s : Bookkept(job[m], s) /\ SetJob(m, s) /\ UNCHANGED parsed => JobMove
  BY <1>1, RowEdit DEF RowMove
<1>3. \A a : Bookkept(job[m], [job[m] EXCEPT !.archive = a])
  BY <1>1 DEF Bookkept, SameRequest, JobRow
<1>4. \A a : Bookkept(job[m], [job[m] EXCEPT !.seal = a])
  BY <1>1 DEF Bookkept, SameRequest, JobRow
<1>5. \A a : Bookkept(job[m], [job[m] EXCEPT !.attempts = a])
  BY <1>1 DEF Bookkept, SameRequest, JobRow
<1>6. CASE MarkArchive(l)
  BY <1>2, <1>3, <1>6 DEF MarkArchive, UpdateJob
<1>7. CASE DiscardSpool(l) \/ OpenTransfer(l) \/ Seal(l)
  BY <1>2, <1>4, <1>7 DEF DiscardSpool, OpenTransfer, Seal, UpdateJob, JobMove
<1>8. CASE CheckCooldown(l)
  BY <1>2, <1>5, <1>8 DEF CheckCooldown, UpdateJob, JobMove
<1>9. CASE \/ ReadMatch(l) \/ HeadArchive(l) \/ VerifySpool(l) \/ FetchMetadata(l)
           \/ Reserve(l) \/ RestoreArchive(l) \/ BeginDownload(l) \/ WriteReplay(l)
           \/ EnqueueArchive(l)
  BY <1>9 DEF ReadMatch, HeadArchive, VerifySpool, FetchMetadata, Reserve, RestoreArchive,
              BeginDownload, WriteReplay, EnqueueArchive, JobMove
<1> QED
  BY <1>6, <1>7, <1>8, <1>9 DEF PrepareStep

\* A task ends as delivered only with the analysis that was asked for: the
\* lane looks at the intent it claimed and, for a download, at the row's.
LEMMA TaskEndMove ==
  ASSUME TypeInv, LearntInv, NEW l \in Foreground,
         Finish(l) \/ Fail(l) \/ LeaseLost(l) \/ HeartbeatLost(l)
  PROVE  JobMove
<1> DEFINE m == lane[l].match
<1>1. l \in Lanes
  BY DEF Lanes
<1>2. ASSUME Finish(l) \/ Fail(l)
      PROVE  m \in Matches /\ job[m] \in JobRow /\ lane[l] \in LaneState
  BY <1>1, <1>2 DEF Finish, Fail, At, TypeInv, LanesTyped, JobsTyped
<1>3. CASE Finish(l)
  <2> DEFINE ended == [job[m] EXCEPT !.error = "none", !.lease = NoLane]
             queued == [ended EXCEPT !.status = "pending", !.phase = "awaiting_parse"]
             done == [ended EXCEPT !.status = "completed", !.phase = "done"]
  <2>1. job[m].status = "processing" /\ UNCHANGED parsed
    BY <1>3 DEF Finish, UpdateJob, Holds
  <2>2. CASE ToParse(l)
    <3>1. Returned(job[m], queued)
      BY <1>2, <1>3, <2>1 DEF Returned, JobRow
    <3>2. SetJob(m, queued)
      BY <1>3, <2>2 DEF Finish, UpdateJob
    <3> QED
      BY <1>2, <1>3, <2>1, <3>1, <3>2, RowEdit DEF RowMove
  <2>3. CASE ~ToParse(l)
    <3>1. job[m].intent = "analysis" => parsed[m]
      BY <1>1, <2>3 DEF ToParse, LearntInv
    <3>2. Delivered(m, job[m], done)
      BY <1>2, <1>3, <2>1, <3>1 DEF Delivered, JobRow
    <3>3. SetJob(m, done)
      BY <1>3, <2>3 DEF Finish, UpdateJob
    <3> QED
      BY <1>2, <1>3, <2>1, <3>2, <3>3, RowEdit DEF RowMove
  <2> QED
    BY <2>2, <2>3
<1>4. CASE Fail(l)
  <2> DEFINE failed(status) ==
               [job[m] EXCEPT !.status = status, !.lease = NoLane,
                              !.phase = IF status = "failed" THEN "done" ELSE "queued",
                              !.error = ErrorOf(lane[l].fault)]
  <2>1. PICK status \in {"pending", "failed"} : SetJob(m, failed(status))
    BY <1>4 DEF Fail, UpdateJob, retryDecision
  <2>2. Returned(job[m], failed(status))
    BY <1>2, <1>4 DEF Fail, UpdateJob, Holds, Returned, JobRow
  <2> QED
    BY <1>2, <1>4, <2>1, <2>2, RowEdit DEF Fail, RowMove
<1>5. CASE LeaseLost(l) \/ HeartbeatLost(l)
  BY <1>5 DEF LeaseLost, HeartbeatLost, JobMove
<1> QED
  BY <1>3, <1>4, <1>5

\* A parse lane writes nothing before its task ends.
LEMMA ParseMove ==
  ASSUME NEW l \in ParseLanes, ParseStep(l)
  PROVE  JobMove
  BY DEF ParseStep, VerifyPrepared, Import, JobMove

\* An archive lane only records where the object is.
LEMMA BackupMove ==
  ASSUME TypeInv, NEW l \in ArchiveLanes,
         \/ BackupStep(l) \/ ArchiveHeartbeatLost(l)
         \/ \E m \in Matches : ClaimArchive(l, m)
  PROVE  JobMove
<1> DEFINE m == lane[l].match
<1>1. CASE RecordKey(l) \/ Activate(l)
  <2>1. m \in Matches /\ job[m] \in JobRow
    BY <1>1 DEF Lanes, RecordKey, Activate, At, TypeInv, LanesTyped, JobsTyped
  <2>2. /\ Bookkept(job[m], [job[m] EXCEPT !.key = TRUE])
        /\ Bookkept(job[m], [job[m] EXCEPT !.key = TRUE, !.archive = "active"])
    BY <2>1 DEF Bookkept, SameRequest, JobRow
  <2>3. UNCHANGED parsed
    BY <1>1 DEF RecordKey, Activate, backupOnly
  <2>4. \/ UNCHANGED job
        \/ SetJob(m, [job[m] EXCEPT !.key = TRUE])
        \/ SetJob(m, [job[m] EXCEPT !.key = TRUE, !.archive = "active"])
    BY <1>1 DEF RecordKey, Activate, SetJob
  <2> QED
    BY <2>1, <2>2, <2>3, <2>4, RowEdit DEF RowMove, JobMove
<1>2. CASE ~(RecordKey(l) \/ Activate(l))
  BY <1>2 DEF BackupStep, ClaimArchive, ReadCheckpoint, HeadUploaded, Upload, VerifyUpload,
              ArchiveDone, ArchiveFail, ArchiveLeaseLost, ArchiveHeartbeatLost, JobMove
<1> QED
  BY <1>1, <1>2

\* The upsert of a request opens the row, or raises what an open row is for.
LEMMA UpsertMove ==
  ASSUME NEW m \in Matches, NEW row \in JobRow, NEW intent,
         ~Waiting(row.status) \/ (row.intent = "download" /\ intent = "analysis")
  PROVE  RowMove(m, row, UpsertRow(row, intent))
<1> DEFINE new == UpsertRow(row, intent)
<1>1. CASE ~Waiting(row.status)
  <2>1. new.status = "pending" /\ new.lease = NoLane
    BY <1>1 DEF UpsertRow, Waiting, JobRow
  <2> QED
    BY <1>1, <2>1 DEF RowMove, Asked
<1>2. CASE Waiting(row.status)
  <2>1. row.intent = "download" /\ intent = "analysis"
    BY <1>2
  <2>2. /\ new.intent = "analysis"
        /\ new.status = row.status
        /\ new.lease = IF row.status = "processing" THEN row.lease ELSE NoLane
    BY <1>2, <2>1 DEF UpsertRow, Waiting, JobRow
  <2> QED
    BY <1>2, <2>2 DEF RowMove, Upgraded
<1> QED
  BY <1>1, <1>2

\* The API opens rows, raises their intent, or keeps books.
LEMMA ApiMove ==
  ASSUME TypeInv, Api
  PROVE  JobMove
<1>1. UNCHANGED parsed
  BY DEF Api, RequestStep, RequestRead, RequestHead, RequestMarkMissing, RequestUpsert,
         ServeStep, ServeRow, ServeOpen,
         ServeHash, ServeUnseal, AdminStep, AdminList, AdminCheck, AdminDelete, AdminMark,
         AdminSweep, AdminFails, apiOnly
<1>2. ASSUME NEW c \in Clients, RequestUpsert(c) PROVE JobMove
  <2> DEFINE m == client[c].match
  <2>1. m \in Matches /\ job[m] \in JobRow
    BY <1>2 DEF RequestUpsert, TypeInv, ClientsTyped, JobsTyped
  <2>2. CASE UNCHANGED job
    BY <2>2 DEF JobMove
  <2>3. CASE job' # job
    <3>1. SetJob(m, UpsertRow(job[m], client[c].intent))
      BY <1>2, <2>3 DEF RequestUpsert, SetJob
    <3>2. \/ ~Waiting(job[m].status)
          \/ job[m].intent = "download" /\ client[c].intent = "analysis"
      BY <1>2, <2>3 DEF RequestUpsert
    <3> QED
      BY <1>1, <2>1, <3>1, <3>2, UpsertMove, RowEdit
  <2> QED
    BY <2>2, <2>3
<1>3. ASSUME NEW m \in Matches, NEW a, SetJob(m, [job[m] EXCEPT !.archive = a]) PROVE JobMove
  BY <1>1, <1>3, RowEdit DEF RowMove, Bookkept, SameRequest, TypeInv, JobsTyped, JobRow
<1>4. ASSUME NEW c \in Clients, RequestMarkMissing(c) PROVE JobMove
  BY <1>3, <1>4 DEF RequestMarkMissing, SetJob, JobMove, TypeInv, ClientsTyped
<1>5. CASE AdminMark
  BY <1>3, <1>5 DEF AdminMark, SetJob, JobMove, TypeInv, AdminTyped
<1>6. ASSUME NEW c \in Clients, ServeUnseal(c) PROVE JobMove
  <2> DEFINE m == client[c].match
  <2>1. m \in Matches
    BY <1>6 DEF ServeUnseal, TypeInv, ClientsTyped
  <2>2. Bookkept(job[m], [job[m] EXCEPT !.seal = "none"])
    BY <2>1 DEF Bookkept, SameRequest, TypeInv, JobsTyped, JobRow
  <2>3. UNCHANGED job \/ SetJob(m, [job[m] EXCEPT !.seal = "none"])
    BY <1>6 DEF ServeUnseal, SetJob
  <2> QED
    BY <1>1, <2>1, <2>2, <2>3, RowEdit DEF JobMove, RowMove
<1>8. CASE AdminSweep
  <2>1. \A m \in Matches : Bookkept(job[m], job'[m])
    BY <1>8 DEF AdminSweep, Bookkept, SameRequest, TypeInv, JobsTyped, JobRow
  <2> QED
    BY <1>1, <2>1 DEF JobMove
<1>9. CASE \/ \E c \in Clients : ServeOpen(c) \/ ServeHash(c) \/ \E m \in Matches : ServeRow(c, m)
           \/ AdminFails \/ \E folder : AdminList(folder)
  BY <1>9 DEF ServeOpen, ServeHash, ServeRow, AdminFails, AdminList, JobMove
<1>7. CASE \/ \E c \in Clients : RequestHead(c)
           \/ \E c \in Clients, m \in Matches, i \in Intents, aged \in BOOLEAN :
                 RequestRead(c, m, i, aged)
           \/ AdminDelete \/ \E m \in Matches : AdminCheck(m)
  BY <1>7 DEF RequestHead, RequestRead, AdminDelete, AdminCheck, JobMove
<1> QED
  BY <1>2, <1>4, <1>5, <1>6, <1>7, <1>8, <1>9 DEF Api, RequestStep, ServeStep, AdminStep

\* The recovery returns rows at work and gives up waiting ones.
LEMMA RecoveryMove ==
  ASSUME TypeInv, NEW m \in Matches, Recovery(m)
  PROVE  JobMove
<1>1. job[m] \in JobRow /\ UNCHANGED parsed
  BY DEF TypeInv, JobsTyped, Recovery, RecoverJob, RecoverArchive, ExpireRequest,
         ExpireArchive, recoveryOnly
<1>2. CASE RecoverJob(m)
  <2> DEFINE s == [job[m] EXCEPT !.status = "pending", !.lease = NoLane, !.error = "other",
                                 !.phase = PhaseAfterLease(job[m])]
  <2>1. Returned(job[m], s) /\ SetJob(m, s)
    BY <1>1, <1>2 DEF RecoverJob, Returned, JobRow
  <2> QED
    BY <1>1, <2>1, RowEdit DEF RowMove
<1>3. CASE ExpireRequest(m)
  <2> DEFINE s == [job[m] EXCEPT !.status = "failed", !.phase = "done",
                                 !.error = IF @ = "metadata" THEN @ ELSE "other"]
  <2>1. GivenUp(job[m], s) /\ SetJob(m, s)
    BY <1>1, <1>3 DEF ExpireRequest, GivenUp, JobRow
  <2> QED
    BY <1>1, <2>1, RowEdit DEF RowMove
<1>4. CASE RecoverArchive(m) \/ ExpireArchive(m)
  BY <1>4 DEF RecoverArchive, ExpireArchive, JobMove
<1> QED
  BY <1>2, <1>3, <1>4 DEF Recovery

\* The environment only lets the window of a row close.
LEMMA EnvironmentMove ==
  ASSUME TypeInv, Environment
  PROVE  JobMove
<1>1. ASSUME NEW m \in Matches, WindowCloses(m) PROVE JobMove
  <2>1. Bookkept(job[m], [job[m] EXCEPT !.late = TRUE])
    BY DEF Bookkept, SameRequest, TypeInv, JobsTyped, JobRow
  <2> QED
    BY <1>1, <2>1, RowEdit DEF WindowCloses, SetJob, RowMove
<1> QED
  BY <1>1 DEF Environment, LoseFile, CooldownEnds, CircuitCloses, Terminate, Disconnect, Crash, Exit, Restart, Start,
              tables, JobMove

\* Every step of the system, of any actor, makes such a move.
LEMMA NextMove == TypeInv /\ LearntInv /\ [Next]_vars => JobMove
<1> SUFFICES ASSUME TypeInv, LearntInv, [Next]_vars PROVE JobMove
  OBVIOUS
<1>1. CASE Worker
  <2>1. PrepareLanes \subseteq Foreground /\ ParseLanes \subseteq Foreground
    BY DEF Foreground
  <2> QED
    BY <1>1, <2>1, ClaimMove, PrepareMove, ParseMove, TaskEndMove, BackupMove DEF Worker
<1>2. CASE (\E m \in Matches : Recovery(m)) \/ Api \/ Environment
  BY <1>2, RecoveryMove, ApiMove, EnvironmentMove
<1>3. CASE UNCHANGED vars
  BY <1>3 DEF vars, JobMove
<1> QED
  BY <1>1, <1>2, <1>3 DEF Next

-----------------------------------------------------------------------------
(* The inductive invariant and its theorems *)

RequestInv == TypeInv /\ LearntInv

\* The invariant the theorems of this module rest on.
LEMMA RequestInvariance == Spec => []RequestInv
<1>1. Init => RequestInv
  BY InitTyped, InitLearnt DEF RequestInv
<1>2. RequestInv /\ [Next]_vars => RequestInv'
  BY NextTyped, NextLearnt DEF RequestInv
<1> QED
  BY <1>1, <1>2, PTL DEF Spec

\* Backup rows keep status and lease in step.
TaskMove == \A m \in Matches :
    arch'[m] = arch[m] \/ (arch'[m].status = "processing" <=> arch'[m].lease # NoLane)

\* Every step writes backup rows whose status and lease agree.
LEMMA NextTaskMove == TypeInv /\ [Next]_vars => TaskMove
<1> SUFFICES ASSUME TypeInv, [Next]_vars PROVE TaskMove
  OBVIOUS
<1>1. arch \in [Matches -> ArchRow] /\ NoLane \notin ArchiveLanes
  BY LanesAssumption DEF TypeInv, BackupsTyped, Lanes
<1>2. ASSUME NEW n, NEW row, SetArch(n, row), row.status = "processing" <=> row.lease # NoLane
      PROVE  TaskMove
  BY <1>1, <1>2 DEF SetArch, TaskMove
<1>3. UNCHANGED arch => TaskMove
  BY DEF TaskMove
<1>4. ASSUME NEW n \in Matches, NEW status \in {"pending", "completed", "failed"},
             SetArch(n, [arch[n] EXCEPT !.status = status, !.lease = NoLane])
      PROVE  TaskMove
  BY <1>1, <1>2, <1>4 DEF ArchRow
<1>5. CASE \E l \in PrepareLanes : EnqueueArchive(l)
  BY <1>1, <1>5 DEF EnqueueArchive, TaskMove
<1>6. CASE \E l \in ArchiveLanes, m \in Matches : ClaimArchive(l, m)
  BY <1>1, <1>2, <1>6 DEF ClaimArchive
<1>7. CASE \E l \in ArchiveLanes : ArchiveDone(l) \/ ArchiveFail(l)
  BY <1>4, <1>7 DEF ArchiveDone, ArchiveFail, UpdateArch, At, TypeInv, LanesTyped, Lanes
<1>8. CASE \E m \in Matches : RecoverArchive(m) \/ ExpireArchive(m)
  <2>1. PICK m \in Matches : RecoverArchive(m) \/ ExpireArchive(m)
    BY <1>8
  <2>2. CASE RecoverArchive(m)
    BY <1>4, <2>2 DEF RecoverArchive
  <2>3. CASE ExpireArchive(m)
    BY <1>4, <2>3 DEF ExpireArchive
  <2> QED
    BY <2>1, <2>2, <2>3
<1>9. CASE \E l \in PrepareLanes : PrepareStep(l) /\ ~EnqueueArchive(l)
  BY <1>3, <1>9 DEF PrepareStep, ReadMatch, HeadArchive, MarkArchive, VerifySpool,
     DiscardSpool, CheckCooldown, FetchMetadata, Reserve, RestoreArchive, BeginDownload,
     OpenTransfer, WriteReplay, Seal, foregroundOnly
<1>10. CASE \/ \E l \in PrepareLanes, m \in Matches : ClaimPrepare(l, m)
            \/ \E l \in ParseLanes, m \in Matches : ClaimParse(l, m)
            \/ \E l \in ParseLanes : ParseStep(l)
            \/ \E l \in Foreground : Finish(l) \/ Fail(l) \/ LeaseLost(l) \/ HeartbeatLost(l)
  BY <1>3, <1>10 DEF ClaimPrepare, ClaimParse, TakeJob, ParseStep, VerifyPrepared, Import,
     Finish, Fail, LeaseLost, HeartbeatLost, foregroundOnly
<1>11. CASE \E l \in ArchiveLanes :
              (BackupStep(l) /\ ~ArchiveDone(l) /\ ~ArchiveFail(l)) \/ ArchiveHeartbeatLost(l)
  BY <1>3, <1>11 DEF BackupStep, ReadCheckpoint, HeadUploaded, Upload, RecordKey,
     VerifyUpload, Activate, ArchiveLeaseLost, ArchiveHeartbeatLost
<1>12. CASE (\E m \in Matches : RecoverJob(m) \/ ExpireRequest(m)) \/ Api \/ Environment
  BY <1>3, <1>12 DEF RecoverJob, ExpireRequest, Api, RequestStep, RequestRead, RequestHead,
     RequestMarkMissing, RequestUpsert, ServeStep, ServeRow, ServeOpen,
         ServeHash, ServeUnseal, AdminStep, AdminList, AdminCheck, AdminDelete, AdminMark,
         AdminSweep, AdminFails, apiOnly, Environment, WindowCloses, LoseFile, CooldownEnds, CircuitCloses,
     Terminate, Disconnect, Crash, Exit, Restart, Start, tables
<1>13. CASE UNCHANGED vars
  BY <1>3, <1>13 DEF vars
<1> QED
  BY <1>5, <1>6, <1>7, <1>8, <1>9, <1>10, <1>11, <1>12, <1>13 DEF Next, Worker, Recovery

\* Status and lease are kept in step by every statement of every actor: no
\* lease is left on a row that waits or has ended, none is missing at work.
THEOREM LeasesInStep == Spec => []LeaseInv
<1>1. Init => LeaseInv
  BY DEF Init, LeaseInv, InheritedRow, NoRow
<1>2. RequestInv /\ LeaseInv /\ [Next]_vars => LeaseInv'
  <2> SUFFICES ASSUME RequestInv, LeaseInv, [Next]_vars, NEW m \in Matches
               PROVE  /\ job'[m].status = "processing" <=> job'[m].lease # NoLane
                      /\ arch'[m].status = "processing" <=> arch'[m].lease # NoLane
    BY DEF LeaseInv
  <2>1. TaskMove /\ JobMove
    BY NextTaskMove, NextMove DEF RequestInv
  <2>2. arch'[m].status = "processing" <=> arch'[m].lease # NoLane
    BY <2>1 DEF TaskMove, LeaseInv
  <2>3. job[m].status = "processing" <=> job[m].lease # NoLane
    BY DEF LeaseInv
  <2>4. job'[m] = job[m] \/ RowMove(m, job[m], job'[m])
    BY <2>1 DEF JobMove, RowMove
  <2>5. NoLane \notin Foreground
    BY LanesAssumption DEF Lanes
  <2>6. job'[m].status = "processing" <=> job'[m].lease # NoLane
    BY <2>3, <2>4, <2>5 DEF RowMove, Bookkept, SameRequest, Claimed, Returned, GivenUp,
       Delivered, Asked, Upgraded, Waiting
  <2> QED
    BY <2>2, <2>6
<1> QED
  BY <1>1, <1>2, RequestInvariance, PTL DEF Spec

\* A job that ends as a completed analysis has its analysis stored, whatever
\* lanes hold it one after another and whenever its intent was raised.
THEOREM AnalysisIsDelivered == Spec => []AnalysisDelivered
<1>1. Init => AnalysisDelivered
  BY DEF Init, AnalysisDelivered, InheritedRow, NoRow
<1>2. RequestInv /\ AnalysisDelivered /\ [Next]_vars => AnalysisDelivered'
  <2> SUFFICES ASSUME RequestInv, AnalysisDelivered, [Next]_vars, NEW m \in Matches,
                      job'[m].status = "completed", job'[m].intent = "analysis"
               PROVE  parsed'[m]
    BY DEF AnalysisDelivered
  <2>1. JobMove
    BY NextMove DEF RequestInv
  <2>2. ParsedStays
    BY NextLearns DEF RequestInv
  <2>3. CASE UNCHANGED job
    BY <2>2, <2>3 DEF AnalysisDelivered, ParsedStays
  <2>4. CASE job' # job
    <3>1. job'[m] = job[m] \/ RowMove(m, job[m], job'[m])
      BY <2>1 DEF JobMove, RowMove
    <3>2. parsed[m]
      BY <3>1 DEF AnalysisDelivered, RowMove, Bookkept, SameRequest, Claimed, Returned,
         GivenUp, Delivered, Asked, Upgraded, Waiting
    <3> QED
      BY <2>2, <3>2 DEF ParsedStays
  <2> QED
    BY <2>3, <2>4
<1> QED
  BY <1>1, <1>2, RequestInvariance, PTL DEF Spec

-----------------------------------------------------------------------------
(* Stale lanes *)

OnlyLane(k) == \A l \in Lanes \ {k} : lane'[l] = lane[l]

\* A step of one lane leaves the others where they are.
LEMMA StepsAlone ==
  ASSUME LanesTyped, NEW k \in Lanes
  PROVE  /\ UNCHANGED lane => OnlyLane(k)
         /\ \A step : Goto(k, step) => OnlyLane(k)
         /\ \A fault : Raise(k, fault) \/ Stop(k, fault) => OnlyLane(k)
         /\ Release(k) => OnlyLane(k)
         /\ \A new : lane' = [lane EXCEPT ![k] = new] => OnlyLane(k)
  BY DEF LanesTyped, Goto, Raise, Stop, Release, OnlyLane

\* A foreground lane at work writes the job table only under its lease.
LEMMA ForegroundFenced ==
  ASSUME TypeInv, NEW k \in Foreground,
         \/ k \in PrepareLanes /\ PrepareStep(k)
         \/ k \in ParseLanes /\ ParseStep(k)
         \/ Finish(k) \/ Fail(k) \/ LeaseLost(k) \/ HeartbeatLost(k)
  PROVE  (UNCHANGED job \/ Holds(k)) /\ OnlyLane(k)
<1> USE DEF UpdateJob
<1>1. k \in Lanes /\ lane \in [Lanes -> LaneState]
  BY DEF Lanes, TypeInv, LanesTyped
<1>2. /\ UNCHANGED lane => OnlyLane(k)
      /\ \A step : Goto(k, step) => OnlyLane(k)
      /\ \A fault : Raise(k, fault) => OnlyLane(k)
      /\ Release(k) => OnlyLane(k)
  BY <1>1, StepsAlone DEF TypeInv
<1>3. CASE PrepareStep(k)
  <2>1. CASE ReadMatch(k) \/ HeadArchive(k)
    BY <1>1, <1>2, <2>1 DEF ReadMatch, HeadArchive, OnlyLane
  <2>2. CASE MarkArchive(k) \/ VerifySpool(k) \/ DiscardSpool(k)
    BY <1>1, <1>2, <2>2 DEF MarkArchive, VerifySpool, DiscardSpool, OnlyLane
  <2>3. CASE CheckCooldown(k) \/ FetchMetadata(k) \/ Reserve(k)
    BY <1>1, <1>2, <2>3 DEF CheckCooldown, FetchMetadata, Reserve, OnlyLane
  <2>4. CASE RestoreArchive(k) \/ BeginDownload(k) \/ OpenTransfer(k)
    BY <1>1, <1>2, <2>4 DEF RestoreArchive, BeginDownload, OpenTransfer, OnlyLane
  <2>5. CASE WriteReplay(k) \/ Seal(k) \/ EnqueueArchive(k)
    BY <1>1, <1>2, <2>5 DEF WriteReplay, Seal, EnqueueArchive, OnlyLane
  <2> QED
    BY <1>3, <2>1, <2>2, <2>3, <2>4, <2>5 DEF PrepareStep
<1>4. CASE ParseStep(k)
  BY <1>1, <1>2, <1>4 DEF ParseStep, VerifyPrepared, Import, OnlyLane
<1>5. CASE Finish(k) \/ Fail(k) \/ LeaseLost(k) \/ HeartbeatLost(k)
  BY <1>2, <1>5 DEF Finish, Fail, LeaseLost, HeartbeatLost
<1> QED
  BY <1>3, <1>4, <1>5

\* An archive lane at work writes the archive table only under its lease.
LEMMA BackupFenced ==
  ASSUME TypeInv, NEW k \in ArchiveLanes, BackupStep(k) \/ ArchiveHeartbeatLost(k)
  PROVE  (UNCHANGED arch \/ HoldsArchive(k)) /\ OnlyLane(k)
<1> USE DEF UpdateArch
<1>1. k \in Lanes /\ lane \in [Lanes -> LaneState]
  BY DEF Lanes, TypeInv, LanesTyped
<1>2. /\ UNCHANGED lane => OnlyLane(k)
      /\ \A step : Goto(k, step) => OnlyLane(k)
      /\ \A fault : Stop(k, fault) => OnlyLane(k)
      /\ Release(k) => OnlyLane(k)
  BY <1>1, StepsAlone DEF TypeInv
<1>3. CASE ReadCheckpoint(k)
  BY <1>1, <1>2, <1>3 DEF ReadCheckpoint, OnlyLane
<1>4. CASE HeadUploaded(k) \/ Upload(k) \/ RecordKey(k) \/ VerifyUpload(k) \/ Activate(k)
  BY <1>2, <1>4 DEF HeadUploaded, Upload, RecordKey, VerifyUpload, Activate
<1>5. CASE ArchiveDone(k) \/ ArchiveFail(k) \/ ArchiveLeaseLost(k) \/ ArchiveHeartbeatLost(k)
  BY <1>2, <1>5 DEF ArchiveDone, ArchiveFail, ArchiveLeaseLost, ArchiveHeartbeatLost
<1> QED
  BY <1>3, <1>4, <1>5 DEF BackupStep

\* The fence of every update, for any number of lanes and stalls: a lane whose
\* lease was recovered under it changes no row of its table.
THEOREM StaleLanesAreFenced == Spec => StaleLaneWritesNothing
<1> DEFINE Fenced ==
      /\ \A l \in Foreground :
           ~At(l, "idle") /\ ~Holds(l) /\ lane'[l] # lane[l] => job' = job
      /\ \A l \in ArchiveLanes :
           ~At(l, "idle") /\ ~HoldsArchive(l) /\ lane'[l] # lane[l] => arch' = arch
<1>1. TypeInv /\ [Next]_vars => [Fenced]_vars
  <2> SUFFICES ASSUME TypeInv, Next PROVE Fenced
    OBVIOUS
  <2>1. Foreground \cap ArchiveLanes = {} /\ Lanes = Foreground \cup ArchiveLanes
    BY LanesAssumption DEF Lanes
  <2>2. PrepareLanes \subseteq Foreground /\ ParseLanes \subseteq Foreground
    BY DEF Foreground
  <2>3. ASSUME NEW k \in Foreground, OnlyLane(k), UNCHANGED job \/ Holds(k) PROVE Fenced
    BY <2>1, <2>3 DEF OnlyLane
  <2>4. ASSUME NEW k \in ArchiveLanes, OnlyLane(k), UNCHANGED arch \/ HoldsArchive(k)
        PROVE  Fenced
    BY <2>1, <2>4 DEF OnlyLane
  <2>5. ASSUME NEW k \in Lanes, OnlyLane(k), At(k, "idle") PROVE Fenced
    BY <2>1, <2>5 DEF OnlyLane
  <2>6. CASE Worker
    <3>1. ASSUME NEW k \in Foreground, NEW m \in Matches,
                 ClaimPrepare(k, m) \/ ClaimParse(k, m)
          PROVE  Fenced
      <4>1. OnlyLane(k) /\ At(k, "idle")
        BY <2>1, <3>1, StepsAlone DEF ClaimPrepare, ClaimParse, TakeJob, TypeInv
      <4> QED
        BY <2>1, <2>5, <4>1
    <3>2. ASSUME NEW k \in ArchiveLanes, NEW m \in Matches, ClaimArchive(k, m) PROVE Fenced
      <4>1. OnlyLane(k) /\ At(k, "idle")
        BY <2>1, <3>2, StepsAlone DEF ClaimArchive, TypeInv
      <4> QED
        BY <2>1, <2>5, <4>1
    <3> QED
      BY <2>2, <2>3, <2>4, <2>6, <3>1, <3>2, ForegroundFenced, BackupFenced DEF Worker
  <2>7. CASE (\E m \in Matches : Recovery(m)) \/ Api
    <3>1. UNCHANGED lane
      BY <2>7 DEF Recovery, RecoverJob, RecoverArchive, ExpireRequest, ExpireArchive,
         recoveryOnly, Api, RequestStep, RequestRead, RequestHead, RequestMarkMissing,
         RequestUpsert, ServeStep, ServeRow, ServeOpen,
         ServeHash, ServeUnseal, AdminStep, AdminList, AdminCheck, AdminDelete, AdminMark,
         AdminSweep, AdminFails, apiOnly
    <3> QED
      BY <3>1
  <2>8. CASE Environment
    <3>1. UNCHANGED lane \/ UNCHANGED <<job, arch>>
      BY <2>8 DEF Environment, WindowCloses, LoseFile, CooldownEnds, CircuitCloses, Terminate,
         Disconnect, Crash, Exit, Restart, Start, tables
    <3> QED
      BY <3>1
  <2> QED
    BY <2>6, <2>7, <2>8 DEF Next
<1> QED
  BY <1>1, TypeInvariance, PTL DEF Spec, StaleLaneWritesNothing

-----------------------------------------------------------------------------
(* The job table implements the requests people make. *)

stateBar == [m \in Matches |-> RequestState(job[m])]
wantBar == [m \in Matches |-> job[m].intent]

\* A move of one row changes one request.
LEMMA OneRequest ==
  ASSUME JobsTyped, NEW m \in Matches, \A n \in Matches \ {m} : job'[n] = job[n]
  PROVE  /\ stateBar' = [stateBar EXCEPT ![m] = RequestState(job'[m])]
         /\ wantBar' = [wantBar EXCEPT ![m] = job'[m].intent]
         /\ stateBar[m] = RequestState(job[m])
         /\ wantBar[m] = job[m].intent
  BY DEF stateBar, wantBar

\* A move of a row is a step of its request, or none.
LEMMA MoveRefines ==
  ASSUME RequestInv, RequestInv', JobMove, job' # job
  PROVE  Request!Next \/ UNCHANGED <<stateBar, wantBar, parsed>>
<1>1. UNCHANGED parsed
  BY DEF JobMove
<1>0. ASSUME \A n \in Matches : Bookkept(job[n], job'[n])
      PROVE  UNCHANGED <<stateBar, wantBar, parsed>>
  BY <1>0, <1>1 DEF Bookkept, SameRequest, RequestState, stateBar, wantBar
<1> SUFFICES ASSUME ~\A n \in Matches : Bookkept(job[n], job'[n])
             PROVE  Request!Next \/ UNCHANGED <<stateBar, wantBar, parsed>>
  BY <1>0
<1>2. PICK m \in Matches :
        /\ \A n \in Matches \ {m} : job'[n] = job[n]
        /\ RowMove(m, job[m], job'[m])
  BY DEF JobMove
<1> DEFINE r == job[m]
           s == job'[m]
<1>3. /\ stateBar' = [stateBar EXCEPT ![m] = RequestState(s)]
      /\ wantBar' = [wantBar EXCEPT ![m] = s.intent]
      /\ stateBar[m] = RequestState(r)
      /\ wantBar[m] = r.intent
  BY <1>2, OneRequest DEF RequestInv, TypeInv
<1>4. r \in JobRow /\ s \in JobRow
  BY DEF RequestInv, TypeInv, JobsTyped
<1>5. ASSUME RequestState(s) = RequestState(r), s.intent = r.intent
      PROVE  UNCHANGED <<stateBar, wantBar, parsed>>
  BY <1>1, <1>3, <1>5 DEF stateBar, wantBar
<1>6. CASE Bookkept(r, s)
  BY <1>5, <1>6 DEF Bookkept, SameRequest, RequestState
<1>7. CASE Claimed(r, s)
  BY <1>5, <1>7 DEF Claimed, RequestState, Waiting
<1>8. CASE Returned(r, s) \/ GivenUp(r, s)
  <2>1. CASE s.status = "pending"
    <3>1. RequestState(r) = "open" /\ RequestState(s) = "open" /\ s.intent = r.intent
      BY <1>8, <2>1 DEF Returned, GivenUp, RequestState, Waiting
    <3> QED
      BY <1>5, <3>1
  <2>2. CASE s.status = "failed"
    <3>1. RequestState(r) = "open" /\ RequestState(s) = "failed" /\ s.intent = r.intent
      BY <1>8, <2>2 DEF Returned, GivenUp, RequestState, Waiting
    <3>2. wantBar' = wantBar
      BY <1>3, <3>1 DEF wantBar
    <3>3. Request!GiveUp(m)
      BY <1>1, <1>3, <3>1, <3>2 DEF Request!GiveUp, stateBar, wantBar
    <3> QED
      BY <3>3 DEF Request!Next
  <2> QED
    BY <1>8, <2>1, <2>2 DEF Returned, GivenUp
<1>9. CASE Delivered(m, r, s)
  <2>1. RequestState(r) = "open" /\ RequestState(s) = "delivered" /\ s.intent = r.intent
    BY <1>9 DEF Delivered, RequestState, Waiting
  <2>2. wantBar' = wantBar
    BY <1>3, <2>1 DEF wantBar
  <2>3. Request!Deliver(m)
    BY <1>1, <1>3, <1>9, <2>1, <2>2 DEF Request!Deliver, stateBar, wantBar, Delivered
  <2> QED
    BY <2>3 DEF Request!Next
<1>10. CASE Asked(r, s)
  <2>1. RequestState(r) # "open" /\ RequestState(s) = "open"
    BY <1>10 DEF Asked, RequestState, Waiting
  <2>2. PICK i \in Intents : i = s.intent
    BY <1>4 DEF JobRow
  <2>3. Request!Ask(m, i)
    BY <1>1, <1>3, <2>1, <2>2 DEF Request!Ask, stateBar, wantBar
  <2> QED
    BY <2>3 DEF Request!Next
<1>11. CASE Upgraded(r, s)
  <2>1. RequestState(r) = "open" /\ RequestState(s) = "open" /\ s.intent = "analysis"
    BY <1>11 DEF Upgraded, RequestState, Waiting
  <2>2. stateBar' = stateBar
    BY <1>3, <2>1 DEF stateBar
  <2>3. Request!Upgrade(m)
    BY <1>1, <1>3, <2>1, <2>2 DEF Request!Upgrade, stateBar, wantBar
  <2> QED
    BY <2>3 DEF Request!Next
<1> QED
  BY <1>2, <1>6, <1>7, <1>8, <1>9, <1>10, <1>11 DEF RowMove

\* Only the importer stores an analysis, and it takes none away.
LEMMA NextAnalyses ==
  ASSUME TypeInv, [Next]_vars
  PROVE  \/ UNCHANGED parsed
         \/ \E m \in Matches : parsed' = [parsed EXCEPT ![m] = TRUE]
<1>1. ASSUME NEW l \in ParseLanes, Import(l)
      PROVE  \/ UNCHANGED parsed
             \/ \E m \in Matches : parsed' = [parsed EXCEPT ![m] = TRUE]
  <2> DEFINE m == lane[l].match
  <2>1. m \in Matches /\ parsed \in [Matches -> BOOLEAN]
    BY <1>1 DEF Import, At, TypeInv, LanesTyped, StoresTyped, Lanes, Foreground
  <2>2. PICK stored \in BOOLEAN : parsed' = [parsed EXCEPT ![m] = @ \/ stored]
    BY <1>1 DEF Import
  <2>3. CASE stored
    BY <2>1, <2>2, <2>3
  <2>4. CASE ~stored
    BY <2>1, <2>2, <2>4
  <2> QED
    BY <2>3, <2>4
<1>2. ASSUME NEW l \in ParseLanes, VerifyPrepared(l) PROVE UNCHANGED parsed
  BY <1>2 DEF VerifyPrepared
<1>3. CASE Worker
  <2>1. PrepareLanes \subseteq Foreground /\ ParseLanes \subseteq Foreground
    BY DEF Foreground
  <2>2. ASSUME NEW k \in Lanes, ~\E l \in ParseLanes : ParseStep(l) PROVE UNCHANGED parsed
    BY <1>3, <2>1, <2>2, PrepareLearns, OtherWorkerLearns DEF Worker
  <2>3. \E k \in Lanes : TRUE
    BY <1>3, <2>1 DEF Worker, Lanes
  <2> QED
    BY <1>1, <1>2, <2>2, <2>3 DEF ParseStep
<1>4. CASE (\E m \in Matches : Recovery(m)) \/ Api \/ Environment
  BY <1>4, OutsideLearns
<1>5. CASE UNCHANGED vars
  BY <1>5 DEF vars
<1> QED
  BY <1>3, <1>4, <1>5 DEF Next

\* The pipeline implements the promise of ReplayRequest: each of its steps is
\* one step of a request or none, so no request is dropped, none is turned
\* into less while it is open, and none is delivered without its analysis,
\* whatever lanes, restarts, stalls, deletions and damaged files do.
THEOREM PipelineKeepsRequests == Spec => RequestsKept
<1>1. Init => Request!Init
  BY DEF Init, Request!Init, RequestState, Waiting, InheritedRow, NoRow
<1>2. RequestInv /\ RequestInv' /\ [Next]_vars => [Request!Next]_<<stateBar, wantBar, parsed>>
  <2> SUFFICES ASSUME RequestInv, RequestInv', [Next]_vars
               PROVE  Request!Next \/ UNCHANGED <<stateBar, wantBar, parsed>>
    OBVIOUS
  <2>1. CASE UNCHANGED job
    <3>1. UNCHANGED <<stateBar, wantBar>>
      BY <2>1 DEF stateBar, wantBar
    <3>2. CASE UNCHANGED parsed
      BY <3>1, <3>2
    <3>3. ASSUME NEW m \in Matches, parsed' = [parsed EXCEPT ![m] = TRUE]
          PROVE  Request!Next
      <4>1. Request!Analyse(m)
        BY <3>1, <3>3 DEF Request!Analyse, stateBar, wantBar
      <4> QED
        BY <4>1 DEF Request!Next
    <3> QED
      BY <3>2, <3>3, NextAnalyses DEF RequestInv
  <2>2. CASE job' # job
    BY <2>2, NextMove, MoveRefines DEF RequestInv
  <2> QED
    BY <2>1, <2>2
<1>3. RequestInv /\ RequestInv' /\ [Next]_vars => [Request!Next]_Request!promise
  BY <1>2 DEF Request!promise, stateBar, wantBar
<1> QED
  BY <1>1, <1>3, RequestInvariance, PTL DEF Spec, RequestsKept, Request!Spec
=============================================================================
