-------------------------- MODULE ReplayTypeProofs --------------------------
(***************************************************************************)
(* Type correctness of the replay pipeline, for every number of matches,   *)
(* lanes and clients and for every value of the limits.                    *)
(***************************************************************************)
EXTENDS ReplayProperties, TLAPS

-----------------------------------------------------------------------------
(* The inductive invariant: TypeOK, and whoever is at work has a match.     *)
(* Without the second part a step would read a row outside of the tables.   *)

JobsTyped == job \in [Matches -> JobRow]
BackupsTyped == arch \in [Matches -> ArchRow]
LanesTyped ==
    /\ lane \in [Lanes -> LaneState]
    /\ \A l \in Lanes : At(l, "idle") \/ lane[l].match \in Matches
ClientsTyped ==
    /\ client \in [Clients -> ClientState]
    /\ \A c \in Clients : client[c].step = "idle" \/ client[c].match \in Matches
AdminTyped ==
    /\ admin \in [step : {"idle", "list", "delete", "mark"},
                 match : Matches \cup {NoMatch}, folder : SUBSET Matches]
    /\ admin.step \in {"idle", "list"} \/ admin.match \in Matches
StoresTyped ==
    /\ parsed \in [Matches -> BOOLEAN]
    /\ meta \in [Matches -> BOOLEAN]
    /\ file \in [Matches -> Contents \cup Unfinished \cup {"absent"}]
    /\ object \in [Matches -> Contents \cup {"none"}]
SwitchesTyped ==
    /\ service \in Services
    /\ cooling \in BOOLEAN
    /\ circuit \in BOOLEAN
    /\ spent \in [Budgets -> Nat]

TypeInv ==
    /\ JobsTyped /\ BackupsTyped /\ LanesTyped /\ ClientsTyped /\ AdminTyped
    /\ StoresTyped /\ SwitchesTyped

\* The strengthened invariant gives the one the runs check.
LEMMA TypeInvGivesTypeOK == TypeInv => TypeOK
  BY DEF TypeInv, TypeOK, JobsTyped, BackupsTyped, LanesTyped, ClientsTyped, AdminTyped,
         StoresTyped, SwitchesTyped

-----------------------------------------------------------------------------
(* Rows and lanes *)

\* The rows the tables and the lanes start with.
LEMMA RowTypes == NoRow \in JobRow /\ InheritedRow \in JobRow /\ Idle \in LaneState
  BY DEF NoRow, InheritedRow, Idle, JobRow, LaneState, Statuses, Intents, ErrorClass,
         Contents, Faults, Steps

\* The program starts with typed state.
LEMMA InitTyped == Init => TypeInv
<1> SUFFICES ASSUME Init PROVE TypeInv
  OBVIOUS
<1>1. JobsTyped
  BY RowTypes DEF Init, JobsTyped
<1>2. BackupsTyped
  BY DEF Init, BackupsTyped, ArchRow, Statuses
<1>3. LanesTyped
  BY RowTypes DEF Init, LanesTyped, At, Idle
<1>4. ClientsTyped
  BY DEF Init, ClientsTyped, Resting, ClientState, Intents
<1>5. StoresTyped
  BY DEF Init, StoresTyped, Contents
<1>6. AdminTyped /\ SwitchesTyped
  BY DEF Init, AdminTyped, NoDeletion, SwitchesTyped, Services
<1> QED
  BY <1>1, <1>2, <1>3, <1>4, <1>5, <1>6 DEF TypeInv

\* Writing a typed row keeps the tables typed.
LEMMA SetJobTyped ==
  ASSUME JobsTyped, NEW m, NEW row \in JobRow, SetJob(m, row)
  PROVE  JobsTyped'
  BY DEF JobsTyped, SetJob

\* The same for the backup tasks.
LEMMA SetArchTyped ==
  ASSUME BackupsTyped, NEW m, NEW row \in ArchRow, SetArch(m, row)
  PROVE  BackupsTyped'
  BY DEF BackupsTyped, SetArch

\* A lane that goes from one typed state to another keeps the lanes typed.
LEMMA LaneEditTyped ==
  ASSUME LanesTyped, NEW l \in Lanes, NEW new \in LaneState,
         new.step = "idle" \/ new.match \in Matches,
         lane' = [lane EXCEPT ![l] = new]
  PROVE  LanesTyped'
  BY DEF LanesTyped, At

\* A lane at work has a match and a typed state.
LEMMA AtWork ==
  ASSUME LanesTyped, NEW l \in Lanes, NEW step, step # "idle", At(l, step)
  PROVE  lane[l] \in LaneState /\ lane[l].match \in Matches
  BY DEF LanesTyped, At

\* The three ways in which most steps of a lane end.
LEMMA GotoTyped ==
  ASSUME LanesTyped, NEW l \in Lanes, ~At(l, "idle"), NEW step \in Steps, Goto(l, step)
  PROVE  LanesTyped'
<1> DEFINE new == [lane[l] EXCEPT !.step = step]
<1>1. lane[l] \in LaneState /\ lane[l].match \in Matches
  BY DEF LanesTyped
<1>2. new \in LaneState /\ new.match \in Matches
  BY <1>1 DEF LaneState
<1>3. lane' = [lane EXCEPT ![l] = new]
  BY DEF Goto
<1> QED
  BY <1>2, <1>3, LaneEditTyped

\* A step may end with a fault.
LEMMA RaiseTyped ==
  ASSUME LanesTyped, NEW l \in Lanes, ~At(l, "idle"), NEW fault \in Faults,
         Raise(l, fault) \/ Stop(l, fault)
  PROVE  LanesTyped'
<1> DEFINE new(step) == [lane[l] EXCEPT !.step = step, !.fault = fault]
<1>1. lane[l] \in LaneState /\ lane[l].match \in Matches
  BY DEF LanesTyped
<1>2. \A step \in Steps : new(step) \in LaneState /\ new(step).match \in Matches
  BY <1>1 DEF LaneState
<1>3. \/ lane' = [lane EXCEPT ![l] = new("fail")]
      \/ lane' = [lane EXCEPT ![l] = new("stop")]
  BY DEF Raise, Stop
<1>4. "fail" \in Steps /\ "stop" \in Steps
  BY DEF Steps
<1> QED
  BY <1>2, <1>3, <1>4, LaneEditTyped

\* The end of a task leaves the lane idle.
LEMMA ReleaseTyped ==
  ASSUME LanesTyped, NEW l \in Lanes, Release(l)
  PROVE  LanesTyped'
  BY RowTypes, LaneEditTyped DEF Release, Idle

\* The environment's budgets stay natural numbers.
LEMMA SpendTyped ==
  ASSUME SwitchesTyped, NEW what \in Budgets, NEW limit, Spend(what, limit)
  PROVE  spent' \in [Budgets -> Nat]
  BY DEF SwitchesTyped, Spend

\* The service stays in one of its states when a lane aborts it or throws.
LEMMA AbortTyped == ASSUME SwitchesTyped, Abort \/ Throw PROVE service' \in Services
  BY DEF SwitchesTyped, Abort, Throw, Services

\* What a step leaves alone stays typed.
LEMMA Untouched ==
  ASSUME TypeInv
  PROVE  /\ UNCHANGED job => JobsTyped'
         /\ UNCHANGED arch => BackupsTyped'
         /\ UNCHANGED lane => LanesTyped'
         /\ UNCHANGED client => ClientsTyped'
         /\ UNCHANGED admin => AdminTyped'
         /\ UNCHANGED <<parsed, meta, file, object>> => StoresTyped'
         /\ UNCHANGED <<service, cooling, circuit, spent>> => SwitchesTyped'
  BY DEF TypeInv, JobsTyped, BackupsTyped, LanesTyped, ClientsTyped, AdminTyped,
         StoresTyped, SwitchesTyped, At

-----------------------------------------------------------------------------
(* The foreground lanes *)

\* A claim copies the row it writes into the lane.
LEMMA TakeJobTyped ==
  ASSUME TypeInv, NEW l \in Foreground, NEW m \in Matches,
         NEW phase \in {"working", "parsing"}, NEW attempts \in Nat,
         NEW step \in {"read", "prepared"},
         TakeJob(l, m, phase, attempts, step)
  PROVE  TypeInv'
<1> DEFINE row == [job[m] EXCEPT !.status = "processing", !.phase = phase,
                                 !.attempts = attempts, !.lease = l]
           new == [Idle EXCEPT !.step = step, !.match = m, !.row = row]
<1>1. job[m] \in JobRow
  BY DEF TypeInv, JobsTyped
<1>2. row \in JobRow
  BY <1>1 DEF JobRow, Statuses
<1>3. JobsTyped'
  BY <1>2, SetJobTyped DEF TypeInv, TakeJob
<1>4. new \in LaneState /\ new.match \in Matches
  BY <1>2, RowTypes DEF LaneState, Steps
<1>5. l \in Lanes /\ lane' = [lane EXCEPT ![l] = new]
  BY DEF Lanes, TakeJob
<1>6. LanesTyped'
  BY <1>4, <1>5, LaneEditTyped DEF TypeInv
<1> QED
  BY <1>3, <1>6 DEF TakeJob, foregroundOnly, TypeInv, BackupsTyped, ClientsTyped, AdminTyped,
                    StoresTyped, SwitchesTyped

\* Both claims of the job table, with the attempt the first one counts.
LEMMA ClaimTyped ==
  ASSUME TypeInv, NEW l \in Foreground, NEW m \in Matches,
         ClaimPrepare(l, m) \/ ClaimParse(l, m)
  PROVE  TypeInv'
<1> DEFINE counted == IF job[m].attempts < AttemptCap THEN job[m].attempts + 1 ELSE AttemptCap
<1>1. job[m].attempts \in Nat
  BY DEF TypeInv, JobsTyped, JobRow
<1>2. counted \in Nat
  BY <1>1, BoundsAssumption
<1>3. CASE ClaimPrepare(l, m)
  <2> HIDE DEF counted
  <2>1. TakeJob(l, m, "working", counted, "read")
    BY <1>3 DEF ClaimPrepare, counted
  <2> QED
    BY <2>1, <1>2, TakeJobTyped
<1>4. CASE ClaimParse(l, m)
  <2>1. TakeJob(l, m, "parsing", job[m].attempts, "prepared")
    BY <1>4 DEF ClaimParse
  <2> QED
    BY <2>1, <1>1, TakeJobTyped
<1> QED
  BY <1>3, <1>4

\* A file of the spool gets one of the contents a file may have.
LEMMA SetFileTyped ==
  ASSUME StoresTyped, NEW m, NEW content \in Contents \cup Unfinished \cup {"absent"},
         file' = [file EXCEPT ![m] = content], UNCHANGED <<parsed, meta, object>>
  PROVE  StoresTyped'
  BY DEF StoresTyped

\* Every step of a prepare lane.
LEMMA PrepareStepTyped ==
  ASSUME TypeInv, NEW l \in PrepareLanes, PrepareStep(l)
  PROVE  TypeInv'
<1> DEFINE m == lane[l].match
<1>1. l \in Lanes
  BY DEF Lanes, Foreground
<1>2. ~At(l, "idle")
  BY DEF PrepareStep, ReadMatch, HeadArchive, MarkArchive, VerifySpool, DiscardSpool,
         CheckCooldown, FetchMetadata, Reserve, RestoreArchive, BeginDownload, OpenTransfer,
         WriteReplay, Seal, EnqueueArchive, At
<1>3. lane[l] \in LaneState /\ m \in Matches /\ job[m] \in JobRow /\ arch[m] \in ArchRow
  BY <1>1, <1>2 DEF TypeInv, LanesTyped, JobsTyped, BackupsTyped
<1>4. /\ file[m] \in Contents \cup Unfinished \cup {"absent"}
      /\ object[m] \in Contents \cup {"none"}
      /\ parsed[m] \in BOOLEAN
      /\ meta[m] \in BOOLEAN
  BY <1>3 DEF TypeInv, StoresTyped
<1>5. \A valid : NextAfterVerify(l, valid) \in Steps
  BY DEF NextAfterVerify, Steps
<1>6. \A step \in Steps : Goto(l, step) => LanesTyped'
  BY <1>1, <1>2, GotoTyped DEF TypeInv
<1>7. \A fault \in Faults : Raise(l, fault) => LanesTyped'
  BY <1>1, <1>2, RaiseTyped DEF TypeInv
<1>8. \A new \in LaneState : new.match = m /\ lane' = [lane EXCEPT ![l] = new] => LanesTyped'
  BY <1>1, <1>3, LaneEditTyped DEF TypeInv
<1>9. \A row \in JobRow : SetJob(m, row) => JobsTyped'
  BY SetJobTyped DEF TypeInv
<1>10. CASE ReadMatch(l)
  <2> DEFINE row == lane[l].row
             new == [lane[l] EXCEPT
                       !.parsed = parsed[m], !.meta = meta[m],
                       !.archived = row.seal # "none" /\ row.archive = "active" /\ row.key,
                       !.step = IF row.key /\ row.archive # "deleted" /\ row.seal = "none"
                                THEN "head" ELSE "verify"]
  <2>1. new \in LaneState /\ new.match = m
    BY <1>3, <1>4 DEF LaneState, Steps
  <2>2. lane' = [lane EXCEPT ![l] = new]
    BY <1>10 DEF ReadMatch
  <2> QED
    BY <2>1, <2>2, <1>8, <1>10, Untouched DEF ReadMatch, foregroundOnly, TypeInv
<1>11. CASE HeadArchive(l)
  <2> DEFINE exists == object[m] # "none"
             new == [lane[l] EXCEPT
                       !.archived = exists,
                       !.step = IF exists /\ lane[l].row.archive = "active"
                                THEN "verify" ELSE "mark"]
  <2>1. new \in LaneState /\ new.match = m
    BY <1>3 DEF LaneState, Steps
  <2>2. lane' = [lane EXCEPT ![l] = new] \/ Raise(l, "network")
    BY <1>11 DEF HeadArchive
  <2> QED
    BY <2>1, <2>2, <1>7, <1>8, <1>11, Untouched DEF HeadArchive, foregroundOnly, TypeInv, Faults
<1>12. CASE MarkArchive(l)
  <2>1. JobsTyped'
    BY <1>3, <1>9, <1>12 DEF MarkArchive, UpdateJob, JobRow
  <2>2. LanesTyped'
    BY <1>6, <1>12 DEF MarkArchive, Steps
  <2> QED
    BY <2>1, <2>2, <1>12, Untouched DEF MarkArchive, foregroundOnly, TypeInv
<1>13. CASE VerifySpool(l)
  <2>1. StoresTyped'
    BY <1>13 DEF VerifySpool, TypeInv, StoresTyped
  <2>2. LanesTyped'
    BY <1>5, <1>6, <1>13 DEF VerifySpool, Steps
  <2> QED
    BY <2>1, <2>2, <1>13, Untouched DEF VerifySpool, foregroundOnly, TypeInv
<1>14. CASE DiscardSpool(l)
  <2> DEFINE newRow == [lane[l].row EXCEPT !.seal = "none"]
             new == [lane[l] EXCEPT !.row = newRow, !.step = NextAfterVerify(l, FALSE)]
  <2>1. new \in LaneState /\ new.match = m
    <3>1. newRow \in JobRow
      BY <1>3 DEF LaneState, JobRow
    <3> HIDE DEF newRow
    <3> QED
      BY <1>3, <1>5, <3>1 DEF LaneState
  <2>2. lane' = [lane EXCEPT ![l] = new]
    BY <1>14 DEF DiscardSpool
  <2>3. JobsTyped'
    BY <1>3, <1>9, <1>14 DEF DiscardSpool, UpdateJob, JobRow
  <2> QED
    BY <2>1, <2>2, <2>3, <1>8, <1>14, Untouched DEF DiscardSpool, foregroundOnly, TypeInv
<1>15. CASE CheckCooldown(l)
  <2> DEFINE refunded(n) == IF n = 0 THEN 0 ELSE n - 1
             newRow == [lane[l].row EXCEPT !.attempts = refunded(@)]
             new == [lane[l] EXCEPT !.row = newRow, !.step = "fail", !.fault = "cooldown"]
  <2>1. /\ job[m].attempts \in Nat
        /\ lane[l].row \in JobRow
        /\ lane[l].row.attempts \in Nat
    BY <1>3 DEF JobRow, LaneState
  <2>2. refunded(job[m].attempts) \in Nat /\ refunded(lane[l].row.attempts) \in Nat
    BY <2>1
  <2>3. new \in LaneState /\ new.match = m
    <3>1. newRow \in JobRow
      BY <2>1, <2>2 DEF JobRow
    <3> HIDE DEF newRow
    <3> QED
      BY <1>3, <3>1 DEF LaneState, Steps, Faults
  <2>4. [job[m] EXCEPT !.attempts = refunded(@)] \in JobRow
    BY <1>3, <2>2 DEF JobRow
  <2>5. CASE cooling
    <3>1. SetJob(m, [job[m] EXCEPT !.attempts = refunded(@)])
      BY <1>15, <2>5 DEF CheckCooldown, UpdateJob
    <3>2. lane' = [lane EXCEPT ![l] = new]
      BY <1>15, <2>5 DEF CheckCooldown
    <3> QED
      BY <3>1, <3>2, <2>3, <2>4, <1>8, <1>9, <1>15, Untouched
      DEF CheckCooldown, foregroundOnly, TypeInv
  <2>6. CASE ~cooling
    BY <2>6, <1>6, <1>15, Untouched DEF CheckCooldown, foregroundOnly, TypeInv, Steps
  <2> QED
    BY <2>5, <2>6
<1>16. CASE FetchMetadata(l)
  <2>1. LanesTyped'
    BY <1>6, <1>7, <1>16 DEF FetchMetadata, Steps
  <2>2. StoresTyped'
    BY <1>16 DEF FetchMetadata, TypeInv, StoresTyped
  <2> QED
    BY <2>1, <2>2, <1>16, Untouched DEF FetchMetadata, foregroundOnly, TypeInv
<1>17. CASE Reserve(l)
  <2>1. LanesTyped'
    BY <1>6, <1>7, <1>17 DEF Reserve, Steps, Faults
  <2> QED
    BY <2>1, <1>17, Untouched DEF Reserve, foregroundOnly, TypeInv
<1>18. CASE RestoreArchive(l)
  <2>1. LanesTyped'
    BY <1>6, <1>7, <1>18 DEF RestoreArchive, Steps, Faults
  <2>2. StoresTyped'
    BY <1>4, <1>18 DEF RestoreArchive, TypeInv, StoresTyped
  <2> QED
    BY <2>1, <2>2, <1>18, Untouched DEF RestoreArchive, foregroundOnly, TypeInv
<1>19. CASE BeginDownload(l)
  <2>1. LanesTyped'
    BY <1>6, <1>19 DEF BeginDownload, Steps
  <2>2. StoresTyped'
    BY <1>19 DEF BeginDownload, TypeInv, StoresTyped, Unfinished
  <2> QED
    BY <2>1, <2>2, <1>19, Untouched DEF BeginDownload, foregroundOnly, TypeInv
<1>20. CASE OpenTransfer(l)
  <2> DEFINE newRow == [lane[l].row EXCEPT !.seal = "none"]
             new == [lane[l] EXCEPT !.row = newRow, !.step = "write"]
  <2>1. new \in LaneState /\ new.match = m
    <3>1. newRow \in JobRow
      BY <1>3 DEF LaneState, JobRow
    <3> HIDE DEF newRow
    <3> QED
      BY <1>3, <3>1 DEF LaneState, Steps
  <2>2. lane' = [lane EXCEPT ![l] = new] \/ \E fault \in Faults : Raise(l, fault)
    BY <1>20 DEF OpenTransfer, Faults
  <2>3. [job[m] EXCEPT !.seal = "none"] \in JobRow
    BY <1>3 DEF JobRow
  <2>4. JobsTyped'
    BY <2>3, <1>9, <1>20, Untouched DEF OpenTransfer, UpdateJob
  <2>5. StoresTyped'
    BY <1>20 DEF OpenTransfer, TypeInv, StoresTyped, Unfinished
  <2> QED
    BY <2>1, <2>2, <2>4, <2>5, <1>7, <1>8, <1>20, Untouched
    DEF OpenTransfer, foregroundOnly, TypeInv
<1>21. CASE WriteReplay(l)
  <2>1. LanesTyped'
    BY <1>1, <1>6, <1>7, <1>21, ReleaseTyped DEF WriteReplay, Steps, Faults, TypeInv
  <2>2. \/ file' = file
        \/ \E content \in Contents \cup Unfinished : file' = [file EXCEPT ![m] = content]
    BY <1>21 DEF WriteReplay, Contents, Unfinished
  <2>3. StoresTyped'
    BY <2>2, <1>21, SetFileTyped, Untouched DEF WriteReplay, TypeInv
  <2>4. SwitchesTyped'
    BY <1>21, AbortTyped DEF WriteReplay, foregroundOnly, TypeInv, SwitchesTyped
  <2> QED
    BY <2>1, <2>3, <2>4, <1>21, Untouched DEF WriteReplay, foregroundOnly, TypeInv
<1>22. CASE Seal(l)
  <2> DEFINE newRow == [lane[l].row EXCEPT !.seal = file[m]]
             new == [lane[l] EXCEPT !.row = newRow, !.step = "handoff"]
  <2>1. CASE file[m] \in Contents
    <3>1. new \in LaneState /\ new.match = m
      <4>1. newRow \in JobRow
        BY <1>3, <2>1 DEF LaneState, JobRow
      <4> HIDE DEF newRow
      <4> QED
        BY <1>3, <4>1 DEF LaneState, Steps
    <3>2. [job[m] EXCEPT !.seal = file[m]] \in JobRow
      BY <1>3, <2>1 DEF JobRow
    <3>3. lane' = [lane EXCEPT ![l] = new] /\ SetJob(m, [job[m] EXCEPT !.seal = file[m]])
      BY <2>1, <1>22 DEF Seal, UpdateJob
    <3> QED
      BY <3>1, <3>2, <3>3, <1>8, <1>9, <1>22, Untouched DEF Seal, foregroundOnly, TypeInv
  <2>2. CASE file[m] \notin Contents
    BY <2>2, <1>7, <1>22, Untouched DEF Seal, foregroundOnly, TypeInv, Faults
  <2> QED
    BY <2>1, <2>2
<1>23. CASE EnqueueArchive(l)
  <2>1. LanesTyped'
    BY <1>6, <1>23 DEF EnqueueArchive, Steps
  <2>2. [status |-> "pending", attempts |-> 0, lease |-> NoLane] \in ArchRow
    BY DEF ArchRow, Statuses
  <2>3. BackupsTyped'
    BY <2>2, <1>23 DEF EnqueueArchive, TypeInv, BackupsTyped
  <2> QED
    BY <2>1, <2>3, <1>23, Untouched DEF EnqueueArchive, TypeInv
<1> QED
  BY <1>10, <1>11, <1>12, <1>13, <1>14, <1>15, <1>16, <1>17, <1>18, <1>19, <1>20, <1>21,
     <1>22, <1>23 DEF PrepareStep

\* Every step of a parse lane.
LEMMA ParseStepTyped ==
  ASSUME TypeInv, NEW l \in ParseLanes, ParseStep(l)
  PROVE  TypeInv'
<1> DEFINE m == lane[l].match
           new(step) == [lane[l] EXCEPT !.parsed = TRUE, !.step = step]
<1>1. l \in Lanes
  BY DEF Lanes, Foreground
<1>2. ~At(l, "idle")
  BY DEF ParseStep, VerifyPrepared, Import, At
<1>3. lane[l] \in LaneState /\ m \in Matches
  BY <1>1, <1>2 DEF TypeInv, LanesTyped
<1>4. \A step \in Steps : Goto(l, step) => LanesTyped'
  BY <1>1, <1>2, GotoTyped DEF TypeInv
<1>5. \A fault \in Faults : Raise(l, fault) => LanesTyped'
  BY <1>1, <1>2, RaiseTyped DEF TypeInv
<1>6. new("finish") \in LaneState /\ new("finish").match = m
  BY <1>3 DEF LaneState, Steps
<1>7. lane' = [lane EXCEPT ![l] = new("finish")] => LanesTyped'
  BY <1>1, <1>3, <1>6, LaneEditTyped DEF TypeInv
<1>8. CASE VerifyPrepared(l)
  <2>1. LanesTyped'
    BY <1>4, <1>5, <1>7, <1>8 DEF VerifyPrepared, Steps, Faults
  <2> QED
    BY <2>1, <1>8, Untouched DEF VerifyPrepared, foregroundOnly, TypeInv
<1>9. CASE Import(l)
  <2>1. LanesTyped'
    BY <1>5, <1>7, <1>9 DEF Import, Faults
  <2>2. StoresTyped'
    BY <1>9 DEF Import, TypeInv, StoresTyped
  <2> QED
    BY <2>1, <2>2, <1>9, Untouched DEF Import, foregroundOnly, TypeInv
<1> QED
  BY <1>8, <1>9 DEF ParseStep

\* The steps that end a task of a foreground lane, one way or another.
LEMMA TaskEndTyped ==
  ASSUME TypeInv, NEW l \in Foreground,
         Finish(l) \/ Fail(l) \/ LeaseLost(l) \/ HeartbeatLost(l)
  PROVE  TypeInv'
<1> DEFINE m == lane[l].match
<1>1. l \in Lanes
  BY DEF Lanes
<1>2. Release(l) => LanesTyped'
  BY <1>1, ReleaseTyped DEF TypeInv
<1>3. CASE Finish(l)
  <2>1. job[m] \in JobRow
    BY <1>1, <1>3 DEF Finish, At, TypeInv, LanesTyped, JobsTyped
  <2> DEFINE ended == [job[m] EXCEPT !.error = "none", !.lease = NoLane]
             queued == [ended EXCEPT !.status = "pending", !.phase = "awaiting_parse"]
             done == [ended EXCEPT !.status = "completed", !.phase = "done"]
  <2>2. ended \in JobRow
    BY <2>1 DEF JobRow, ErrorClass
  <2>3. queued \in JobRow /\ done \in JobRow
    BY <2>2 DEF JobRow, Statuses
  <2>4. SetJob(m, queued) \/ SetJob(m, done)
    BY <1>3 DEF Finish, UpdateJob
  <2>5. JobsTyped'
    BY <2>3, <2>4, SetJobTyped DEF TypeInv
  <2> QED
    BY <2>5, <1>2, <1>3, Untouched DEF Finish, foregroundOnly, TypeInv
<1>4. CASE Fail(l)
  <2>1. job[m] \in JobRow
    BY <1>1, <1>4 DEF Fail, At, TypeInv, LanesTyped, JobsTyped
  <2> DEFINE failed(status) ==
               [job[m] EXCEPT !.status = status, !.lease = NoLane,
                              !.phase = IF status = "failed" THEN "done" ELSE "queued",
                              !.error = ErrorOf(lane[l].fault)]
  <2>2. ErrorOf(lane[l].fault) \in ErrorClass
    BY DEF ErrorOf, ErrorClass
  <2>3. ASSUME NEW status \in {"pending", "failed"} PROVE failed(status) \in JobRow
    <3>1. CASE status = "pending"
      BY <3>1, <2>1, <2>2 DEF JobRow, Statuses
    <3>2. CASE status = "failed"
      BY <3>2, <2>1, <2>2 DEF JobRow, Statuses
    <3> QED
      BY <3>1, <3>2
  <2>4. \E status \in {"pending", "failed"} : SetJob(m, failed(status))
    BY <1>4 DEF Fail, UpdateJob, retryDecision
  <2>5. JobsTyped'
    BY <2>3, <2>4, SetJobTyped DEF TypeInv
  <2>6. SwitchesTyped'
    BY <1>4 DEF Fail, foregroundOnly, TypeInv, SwitchesTyped
  <2> QED
    BY <2>5, <2>6, <1>2, <1>4, Untouched DEF Fail, foregroundOnly, TypeInv
<1>5. CASE LeaseLost(l)
  <2>1. SwitchesTyped'
    BY <1>5, AbortTyped DEF LeaseLost, foregroundOnly, TypeInv, SwitchesTyped
  <2> QED
    BY <2>1, <1>2, <1>5, Untouched DEF LeaseLost, foregroundOnly, TypeInv
<1>6. CASE HeartbeatLost(l)
  <2>1. SwitchesTyped'
    BY <1>6, AbortTyped DEF HeartbeatLost, foregroundOnly, TypeInv, SwitchesTyped
  <2> QED
    BY <2>1, <1>6, Untouched DEF HeartbeatLost, foregroundOnly, TypeInv
<1> QED
  BY <1>3, <1>4, <1>5, <1>6

-----------------------------------------------------------------------------
(* The archive lanes *)

\* The claim of a backup task counts its attempt.
LEMMA ClaimArchiveTyped ==
  ASSUME TypeInv, NEW l \in ArchiveLanes, NEW m \in Matches, ClaimArchive(l, m)
  PROVE  TypeInv'
<1> DEFINE row == [status |-> "processing", attempts |-> arch[m].attempts + 1, lease |-> l]
           new == [Idle EXCEPT !.step = "backup", !.match = m, !.tries = row.attempts]
<1>1. arch[m].attempts + 1 \in Nat
  BY DEF TypeInv, BackupsTyped, ArchRow
<1>2. row \in ArchRow
  BY <1>1 DEF ArchRow, Statuses
<1>3. new \in LaneState /\ new.match \in Matches
  BY <1>1, RowTypes DEF LaneState, Steps
<1>4. l \in Lanes /\ SetArch(m, row) /\ lane' = [lane EXCEPT ![l] = new]
  BY DEF Lanes, ClaimArchive
<1>5. BackupsTyped'
  BY <1>2, <1>4, SetArchTyped DEF TypeInv
<1>6. LanesTyped'
  BY <1>3, <1>4, LaneEditTyped DEF TypeInv
<1> QED
  BY <1>5, <1>6, Untouched DEF ClaimArchive, backupOnly, TypeInv

\* Every other step of an archive lane.
LEMMA BackupStepTyped ==
  ASSUME TypeInv, NEW l \in ArchiveLanes, BackupStep(l) \/ ArchiveHeartbeatLost(l)
  PROVE  TypeInv'
<1> DEFINE m == lane[l].match
<1>1. l \in Lanes
  BY DEF Lanes
<1>2. ~At(l, "idle")
  BY DEF BackupStep, ReadCheckpoint, HeadUploaded, Upload, RecordKey, VerifyUpload, Activate,
         ArchiveDone, ArchiveFail, ArchiveLeaseLost, ArchiveHeartbeatLost, At
<1>3. lane[l] \in LaneState /\ m \in Matches /\ job[m] \in JobRow /\ arch[m] \in ArchRow
  BY <1>1, <1>2 DEF TypeInv, LanesTyped, JobsTyped, BackupsTyped
<1>4. \A step \in Steps : Goto(l, step) => LanesTyped'
  BY <1>1, <1>2, GotoTyped DEF TypeInv
<1>5. \A fault \in Faults : Stop(l, fault) => LanesTyped'
  BY <1>1, <1>2, RaiseTyped DEF TypeInv
<1>6. Release(l) => LanesTyped'
  BY <1>1, ReleaseTyped DEF TypeInv
<1>7. CASE ReadCheckpoint(l)
  <2> DEFINE new(step) == [lane[l] EXCEPT !.row = job[m], !.step = step]
  <2>1. \A step \in Steps : new(step) \in LaneState /\ new(step).match = m
    BY <1>3 DEF LaneState
  <2>2. \/ Stop(l, "fatal")
        \/ \E step \in {"look", "upload"} : lane' = [lane EXCEPT ![l] = new(step)]
    BY <1>7 DEF ReadCheckpoint
  <2>3. LanesTyped'
    BY <2>1, <2>2, <1>1, <1>3, <1>5, LaneEditTyped DEF TypeInv, Steps, Faults
  <2> QED
    BY <2>3, <1>7, Untouched DEF ReadCheckpoint, backupOnly, TypeInv
<1>8. CASE HeadUploaded(l)
  BY <1>4, <1>5, <1>8, Untouched DEF HeadUploaded, backupOnly, TypeInv, Steps, Faults
<1>9. CASE Upload(l)
  <2>1. LanesTyped'
    BY <1>4, <1>5, <1>9 DEF Upload, Steps, Faults
  <2>2. StoresTyped'
    BY <1>9 DEF Upload, backupOnly, TypeInv, StoresTyped, Contents
  <2> QED
    BY <2>1, <2>2, <1>9, Untouched DEF Upload, backupOnly, TypeInv
<1>10. CASE RecordKey(l)
  <2>1. [job[m] EXCEPT !.key = TRUE] \in JobRow
    BY <1>3 DEF JobRow
  <2>2. job' = job \/ SetJob(m, [job[m] EXCEPT !.key = TRUE])
    BY <1>10 DEF RecordKey, SetJob
  <2>3. JobsTyped'
    BY <2>1, <2>2, SetJobTyped, Untouched DEF TypeInv
  <2> QED
    BY <2>3, <1>4, <1>10, Untouched DEF RecordKey, backupOnly, TypeInv, Steps
<1>11. CASE VerifyUpload(l)
  BY <1>4, <1>5, <1>11, Untouched DEF VerifyUpload, backupOnly, TypeInv, Steps, Faults
<1>12. CASE Activate(l)
  <2>1. [job[m] EXCEPT !.key = TRUE, !.archive = "active"] \in JobRow
    BY <1>3 DEF JobRow
  <2>2. job' = job \/ SetJob(m, [job[m] EXCEPT !.key = TRUE, !.archive = "active"])
    BY <1>12 DEF Activate, SetJob
  <2>3. JobsTyped'
    BY <2>1, <2>2, SetJobTyped, Untouched DEF TypeInv
  <2> QED
    BY <2>3, <1>4, <1>12, Untouched DEF Activate, backupOnly, TypeInv, Steps
<1>13. CASE ArchiveDone(l)
  <2>1. BackupsTyped'
    BY <1>3, <1>13, SetArchTyped DEF ArchiveDone, UpdateArch, TypeInv, ArchRow, Statuses
  <2>2. SwitchesTyped'
    BY <1>13 DEF ArchiveDone, backupOnly, TypeInv, SwitchesTyped
  <2> QED
    BY <2>1, <2>2, <1>6, <1>13, Untouched DEF ArchiveDone, backupOnly, TypeInv, StoresTyped
<1>14. CASE ArchiveFail(l)
  <2> DEFINE row(status) == [arch[m] EXCEPT !.status = status, !.lease = NoLane]
  <2>1. row("failed") \in ArchRow /\ row("pending") \in ArchRow
    BY <1>3 DEF ArchRow, Statuses
  <2>2. SetArch(m, row("failed")) \/ SetArch(m, row("pending"))
    BY <1>14 DEF ArchiveFail, UpdateArch
  <2>3. BackupsTyped'
    BY <2>1, <2>2, SetArchTyped DEF TypeInv
  <2>4. SwitchesTyped'
    BY <1>14 DEF ArchiveFail, backupOnly, TypeInv, SwitchesTyped
  <2> QED
    BY <2>3, <2>4, <1>6, <1>14, Untouched DEF ArchiveFail, backupOnly, TypeInv
<1>15. CASE ArchiveLeaseLost(l)
  <2>1. SwitchesTyped'
    BY <1>15, AbortTyped DEF ArchiveLeaseLost, backupOnly, TypeInv, SwitchesTyped
  <2> QED
    BY <2>1, <1>6, <1>15, Untouched DEF ArchiveLeaseLost, backupOnly, TypeInv
<1>16. CASE ArchiveHeartbeatLost(l)
  <2>1. SwitchesTyped'
    BY <1>16, AbortTyped DEF ArchiveHeartbeatLost, backupOnly, TypeInv, SwitchesTyped
  <2> QED
    BY <2>1, <1>16, Untouched DEF ArchiveHeartbeatLost, backupOnly, TypeInv
<1> QED
  BY <1>7, <1>8, <1>9, <1>10, <1>11, <1>12, <1>13, <1>14, <1>15, <1>16 DEF BackupStep

-----------------------------------------------------------------------------
(* The API *)

\* The upsert of a request writes a row.
LEMMA UpsertTyped ==
  ASSUME NEW row \in JobRow, NEW intent \in Intents
  PROVE  UpsertRow(row, intent) \in JobRow
<1> DEFINE open == Waiting(row.status)
           busy == row.status = "processing"
           newIntent == IF open /\ row.intent = "analysis" THEN row.intent ELSE intent
           newStatus == IF busy THEN row.status ELSE "pending"
           newPhase == IF busy THEN row.phase ELSE "queued"
           newAttempts == IF open THEN row.attempts ELSE 0
           newLate == open /\ row.late
           newLease == IF busy THEN row.lease ELSE NoLane
           new == [row EXCEPT !.intent = newIntent, !.status = newStatus, !.phase = newPhase,
                              !.attempts = newAttempts, !.late = newLate, !.lease = newLease,
                              !.error = "none"]
<1>1. newIntent \in Intents /\ newStatus \in Statuses /\ newAttempts \in Nat
  BY DEF JobRow, Statuses
<1>2. newPhase \in {"queued", "working", "awaiting_parse", "parsing", "done"}
  BY DEF JobRow
<1>3. newLease \in Foreground \cup {NoLane} /\ newLate \in BOOLEAN
  BY DEF JobRow
<1>4. UpsertRow(row, intent) = new
  BY DEF UpsertRow
<1>5. new \in JobRow
  <2> HIDE DEF newIntent, newStatus, newPhase, newAttempts, newLate, newLease
  <2> QED
    BY <1>1, <1>2, <1>3 DEF JobRow, ErrorClass
<1> QED
  BY <1>4, <1>5

\* A request that goes from one typed state to another keeps them typed.
LEMMA ClientEditTyped ==
  ASSUME ClientsTyped, NEW c \in Clients, NEW new \in ClientState,
         new.step = "idle" \/ new.match \in Matches,
         client' = [client EXCEPT ![c] = new]
  PROVE  ClientsTyped'
  BY DEF ClientsTyped

\* Every statement of a replay request.
LEMMA RequestTyped ==
  ASSUME TypeInv, NEW c \in Clients,
         RequestStep(c) \/ \E m \in Matches, i \in Intents, aged \in BOOLEAN :
                              RequestRead(c, m, i, aged)
  PROVE  TypeInv'
<1> DEFINE m == client[c].match
           new(step) == [client[c] EXCEPT !.step = step]
<1>1. Rest(c) => ClientsTyped'
  <2>1. Resting \in ClientState /\ Resting.step = "idle"
    BY DEF Resting, ClientState, Intents
  <2> QED
    BY <2>1, ClientEditTyped DEF Rest, TypeInv
<1>2. CASE \E n \in Matches, i \in Intents, aged \in BOOLEAN : RequestRead(c, n, i, aged)
  <2>1. PICK n \in Matches, i \in Intents, aged \in BOOLEAN : RequestRead(c, n, i, aged)
    BY <1>2
  <2> DEFINE fresh == ~aged \/ HasLocal(n) \/ HasComputeCheckpoint(n)
             asked == [Resting EXCEPT !.step = IF Listed(n) THEN "head" ELSE "upsert",
                                      !.match = n, !.intent = i, !.fresh = fresh]
  <2>2. fresh \in BOOLEAN
    OBVIOUS
  <2>3. asked \in ClientState /\ asked.match \in Matches
    BY <2>2 DEF ClientState, Resting
  <2>4. client' = [client EXCEPT ![c] = asked]
    BY <2>1 DEF RequestRead
  <2>5. ClientsTyped'
    BY <2>3, <2>4, ClientEditTyped DEF TypeInv
  <2>6. SwitchesTyped'
    <3>1. spent' \in [Budgets -> Nat]
      BY <2>1, SpendTyped DEF RequestRead, TypeInv, Budgets
    <3> QED
      BY <2>1, <3>1 DEF RequestRead, apiOnly, TypeInv, SwitchesTyped
  <2> QED
    BY <2>1, <2>5, <2>6, Untouched DEF RequestRead, apiOnly, TypeInv
<1>3. CASE RequestStep(c)
  <2>1. client[c] \in ClientState /\ m \in Matches /\ job[m] \in JobRow
    BY <1>3 DEF RequestStep, RequestHead, RequestMarkMissing, RequestUpsert, TypeInv,
                ClientsTyped, JobsTyped
  <2>2. ASSUME NEW step \in {"missing", "upsert"}, client' = [client EXCEPT ![c] = new(step)]
        PROVE  ClientsTyped'
    <3>1. new(step) \in ClientState /\ new(step).match \in Matches
      BY <2>1 DEF ClientState
    <3> QED
      BY <3>1, <2>2, ClientEditTyped DEF TypeInv
  <2>3. CASE RequestHead(c)
    BY <2>2, <2>3, <1>1, Untouched DEF RequestHead, apiOnly, TypeInv
  <2>4. CASE RequestMarkMissing(c)
    <3>1. ClientsTyped'
      BY <2>2, <2>4, <1>1 DEF RequestMarkMissing
    <3>2. [job[m] EXCEPT !.archive = "missing"] \in JobRow
      BY <2>1 DEF JobRow
    <3>3. job' = job \/ SetJob(m, [job[m] EXCEPT !.archive = "missing"])
      BY <2>4 DEF RequestMarkMissing, SetJob
    <3>4. JobsTyped'
      BY <3>2, <3>3, SetJobTyped, Untouched DEF TypeInv
    <3> QED
      BY <3>1, <3>4, <2>4, Untouched DEF RequestMarkMissing, apiOnly, TypeInv
  <2>5. CASE RequestUpsert(c)
    <3>1. UpsertRow(job[m], client[c].intent) \in JobRow
      BY <2>1, UpsertTyped DEF ClientState
    <3>2. job' = job \/ SetJob(m, UpsertRow(job[m], client[c].intent))
      BY <2>5 DEF RequestUpsert, SetJob
    <3>3. JobsTyped'
      BY <3>1, <3>2, SetJobTyped, Untouched DEF TypeInv
    <3> QED
      BY <3>3, <1>1, <2>5, Untouched DEF RequestUpsert, apiOnly, TypeInv
  <2> QED
    BY <1>3, <2>3, <2>4, <2>5 DEF RequestStep
<1> QED
  BY <1>2, <1>3

\* The delivery of a local file.
LEMMA ServeTyped ==
  ASSUME TypeInv, NEW c \in Clients, ServeStep(c)
  PROVE  TypeInv'
<1> DEFINE m == client[c].match
<1>1. Resting \in ClientState
  BY DEF Resting, ClientState, Intents
<1>2. ASSUME NEW n \in Matches, ServeRow(c, n) PROVE TypeInv'
  <2> DEFINE reading == [Resting EXCEPT !.step = "open", !.match = n, !.seal = job[n].seal]
  <2>1. job[n].seal \in Contents \cup {"none"}
    BY DEF TypeInv, JobsTyped, JobRow
  <2>2. reading \in ClientState /\ reading.match \in Matches
    BY <2>1 DEF Resting, ClientState, Intents
  <2>3. ClientsTyped'
    BY <1>2, <2>2, ClientEditTyped DEF ServeRow, TypeInv
  <2>4. spent' \in [Budgets -> Nat]
    BY <1>2, SpendTyped DEF ServeRow, TypeInv, Budgets
  <2>5. SwitchesTyped'
    BY <1>2, <2>4 DEF ServeRow, apiOnly, TypeInv, SwitchesTyped
  <2> QED
    BY <1>2, <2>3, <2>5, Untouched DEF ServeRow, apiOnly, TypeInv
<1>3. CASE ServeOpen(c) \/ ServeHash(c) \/ ServeUnseal(c)
  <2>1. client[c] \in ClientState /\ m \in Matches
    BY <1>3 DEF ServeOpen, ServeHash, ServeUnseal, TypeInv, ClientsTyped
  <2>2. AskArchive(c) \in ClientState /\ AskArchive(c).match \in Matches
    BY <2>1 DEF AskArchive, ClientState
  <2>3. CASE ServeOpen(c)
    <3> DEFINE hashing == [client[c] EXCEPT !.step = "hash", !.opened = file[m]]
    <3>1. file[m] \in Contents => hashing \in ClientState /\ hashing.match \in Matches
      BY <2>1 DEF ClientState
    <3>2. ClientsTyped'
      BY <2>2, <2>3, <3>1, ClientEditTyped DEF ServeOpen, TypeInv
    <3> QED
      BY <2>3, <3>2, Untouched DEF ServeOpen, apiOnly, TypeInv
  <2>4. CASE ServeHash(c)
    <3> DEFINE wrong == [client[c] EXCEPT !.step = "unseal"]
    <3>1. wrong \in ClientState /\ wrong.match \in Matches
      BY <2>1 DEF ClientState
    <3>2. client' = [client EXCEPT ![c] = Resting] \/ client' = [client EXCEPT ![c] = wrong]
      BY <2>4 DEF ServeHash
    <3>3. Resting.step = "idle"
      BY DEF Resting
    <3>4. ClientsTyped'
      BY <1>1, <3>1, <3>2, <3>3, ClientEditTyped DEF TypeInv
    <3> QED
      BY <2>4, <3>4, Untouched DEF ServeHash, apiOnly, TypeInv
  <2>5. CASE ServeUnseal(c)
    <3>1. [job[m] EXCEPT !.seal = "none"] \in JobRow
      BY <2>1 DEF TypeInv, JobsTyped, JobRow
    <3>2. job' = job \/ SetJob(m, [job[m] EXCEPT !.seal = "none"])
      BY <2>5 DEF ServeUnseal, SetJob
    <3>3. JobsTyped'
      BY <3>1, <3>2, SetJobTyped, Untouched DEF TypeInv
    <3>4. ClientsTyped'
      BY <2>2, <2>5, ClientEditTyped DEF ServeUnseal, TypeInv
    <3> QED
      BY <2>5, <3>3, <3>4, Untouched DEF ServeUnseal, apiOnly, TypeInv
  <2> QED
    BY <1>3, <2>3, <2>4, <2>5
<1> QED
  BY <1>2, <1>3 DEF ServeStep

\* Every statement of the archive page's delete.
LEMMA AdminTypedStep ==
  ASSUME TypeInv, AdminStep
  PROVE  TypeInv'
<1>1. CASE \E m \in Matches : AdminCheck(m)
  <2>1. AdminTyped'
    BY <1>1 DEF AdminCheck, TypeInv, AdminTyped
  <2>2. spent' \in [Budgets -> Nat]
    BY <1>1, SpendTyped DEF AdminCheck, TypeInv, SwitchesTyped, Budgets
  <2>3. SwitchesTyped'
    BY <2>2, <1>1 DEF AdminCheck, apiOnly, TypeInv, SwitchesTyped
  <2> QED
    BY <2>1, <2>3, <1>1, Untouched DEF AdminCheck, apiOnly, TypeInv
<1>4. CASE \E folder \in SUBSET Matches \ {{}} : AdminList(folder)
  <2>1. AdminTyped'
    BY <1>4 DEF AdminList, NoDeletion, AdminTyped
  <2>2. spent' \in [Budgets -> Nat]
    BY <1>4, SpendTyped DEF AdminList, TypeInv, Budgets
  <2>3. SwitchesTyped'
    BY <2>2, <1>4 DEF AdminList, apiOnly, TypeInv, SwitchesTyped
  <2> QED
    BY <2>1, <2>3, <1>4, Untouched DEF AdminList, apiOnly, TypeInv
<1>5. CASE AdminSweep
  <2>1. \A m \in Matches : job[m] \in JobRow /\ [job[m] EXCEPT !.archive = "deleted"] \in JobRow
    BY DEF TypeInv, JobsTyped, JobRow
  <2>2. JobsTyped'
    BY <2>1, <1>5 DEF AdminSweep, JobsTyped
  <2>3. AdminTyped'
    BY <1>5 DEF AdminSweep, NoDeletion, AdminTyped
  <2> QED
    BY <2>2, <2>3, <1>5, Untouched DEF AdminSweep, apiOnly, TypeInv
<1>6. CASE AdminFails
  <2>1. AdminTyped'
    BY <1>6 DEF AdminFails, NoDeletion, AdminTyped
  <2> QED
    BY <2>1, <1>6, Untouched DEF AdminFails, apiOnly, TypeInv
<1>2. CASE AdminDelete
  <2>1. AdminTyped' /\ StoresTyped'
    BY <1>2 DEF AdminDelete, apiOnly, TypeInv, AdminTyped, StoresTyped
  <2> QED
    BY <2>1, <1>2, Untouched DEF AdminDelete, apiOnly, TypeInv
<1>3. CASE AdminMark
  <2> DEFINE m == admin.match
  <2>1. [job[m] EXCEPT !.archive = "deleted"] \in JobRow
    BY <1>3 DEF AdminMark, TypeInv, AdminTyped, JobsTyped, JobRow
  <2>2. job' = job \/ SetJob(m, [job[m] EXCEPT !.archive = "deleted"])
    BY <1>3 DEF AdminMark, SetJob
  <2>3. JobsTyped'
    BY <2>1, <2>2, SetJobTyped, Untouched DEF TypeInv
  <2>4. AdminTyped'
    BY <1>3 DEF AdminMark, NoDeletion, TypeInv, AdminTyped
  <2> QED
    BY <2>3, <2>4, <1>3, Untouched DEF AdminMark, apiOnly, TypeInv
<1> QED
  BY <1>1, <1>2, <1>3, <1>4, <1>5, <1>6 DEF AdminStep

-----------------------------------------------------------------------------
(* Recovery and environment *)

\* Every statement of the recovery.
LEMMA RecoveryTyped ==
  ASSUME TypeInv, NEW m \in Matches, Recovery(m)
  PROVE  TypeInv'
<1>1. job[m] \in JobRow /\ arch[m] \in ArchRow
  BY DEF TypeInv, JobsTyped, BackupsTyped
<1>2. CASE RecoverJob(m)
  <2> DEFINE row == [job[m] EXCEPT !.status = "pending", !.lease = NoLane, !.error = "other",
                                   !.phase = PhaseAfterLease(job[m])]
  <2>1. PhaseAfterLease(job[m]) \in {"awaiting_parse", "queued"}
    BY DEF PhaseAfterLease
  <2>2. row \in JobRow
    BY <1>1, <2>1 DEF JobRow, Statuses, ErrorClass
  <2>3. JobsTyped'
    BY <2>2, <1>2, SetJobTyped DEF RecoverJob, TypeInv
  <2>4. SwitchesTyped'
    <3>1. spent' \in [Budgets -> Nat]
      BY <1>2, SpendTyped DEF RecoverJob, TypeInv, Budgets, SwitchesTyped
    <3> QED
      BY <1>2, <3>1 DEF RecoverJob, recoveryOnly, TypeInv, SwitchesTyped
  <2> QED
    BY <2>3, <2>4, <1>2, Untouched DEF RecoverJob, recoveryOnly, TypeInv
<1>3. CASE RecoverArchive(m)
  <2> DEFINE row == [arch[m] EXCEPT !.status = "pending", !.lease = NoLane]
  <2>1. row \in ArchRow
    BY <1>1 DEF ArchRow, Statuses
  <2>2. BackupsTyped'
    BY <2>1, <1>3, SetArchTyped DEF RecoverArchive, TypeInv
  <2>3. SwitchesTyped'
    <3>1. spent' \in [Budgets -> Nat]
      BY <1>3, SpendTyped DEF RecoverArchive, TypeInv, Budgets, SwitchesTyped
    <3> QED
      BY <1>3, <3>1 DEF RecoverArchive, recoveryOnly, TypeInv, SwitchesTyped
  <2> QED
    BY <2>2, <2>3, <1>3, Untouched DEF RecoverArchive, recoveryOnly, TypeInv
<1>4. CASE ExpireRequest(m)
  <2> DEFINE row == [job[m] EXCEPT !.status = "failed", !.phase = "done",
                                   !.error = IF @ = "metadata" THEN @ ELSE "other"]
  <2>1. (IF job[m].error = "metadata" THEN job[m].error ELSE "other") \in ErrorClass
    BY DEF ErrorClass
  <2>2. row \in JobRow
    BY <1>1, <2>1 DEF JobRow, Statuses
  <2>3. JobsTyped'
    BY <2>2, <1>4, SetJobTyped DEF ExpireRequest, TypeInv
  <2> QED
    BY <2>3, <1>4, Untouched DEF ExpireRequest, recoveryOnly, TypeInv
<1>5. CASE ExpireArchive(m)
  <2> DEFINE row == [arch[m] EXCEPT !.status = "failed", !.lease = NoLane]
  <2>1. row \in ArchRow
    BY <1>1 DEF ArchRow, Statuses
  <2>2. BackupsTyped'
    BY <2>1, <1>5, SetArchTyped DEF ExpireArchive, TypeInv
  <2> QED
    BY <2>2, <1>5, Untouched DEF ExpireArchive, recoveryOnly, TypeInv
<1> QED
  BY <1>2, <1>3, <1>4, <1>5 DEF Recovery

\* Clock, disk, process and systemd.
LEMMA EnvironmentTyped ==
  ASSUME TypeInv, Environment
  PROVE  TypeInv'
<1>1. ASSUME NEW m \in Matches, WindowCloses(m) PROVE TypeInv'
  <2>1. [job[m] EXCEPT !.late = TRUE] \in JobRow
    BY DEF TypeInv, JobsTyped, JobRow
  <2>2. JobsTyped'
    BY <2>1, <1>1, SetJobTyped DEF WindowCloses, SetJob, TypeInv
  <2> QED
    BY <2>2, <1>1, Untouched DEF WindowCloses, TypeInv
<1>2. ASSUME NEW m \in Matches, LoseFile(m) PROVE TypeInv'
  <2>1. StoresTyped'
    BY <1>2 DEF LoseFile, tables, TypeInv, StoresTyped, Contents
  <2>2. spent' \in [Budgets -> Nat]
    BY <1>2, SpendTyped DEF LoseFile, TypeInv, Budgets
  <2>3. SwitchesTyped'
    BY <2>2, <1>2 DEF LoseFile, TypeInv, SwitchesTyped
  <2> QED
    BY <2>1, <2>3, <1>2, Untouched DEF LoseFile, tables, TypeInv
<1>3. CASE Terminate \/ Disconnect \/ Crash
  <2>1. LanesTyped'
    <3>1. lane' = lane \/ lane' = [l \in Lanes |-> Idle]
      BY <1>3 DEF Terminate, Disconnect, Crash, tables
    <3>2. lane' = lane => LanesTyped'
      BY Untouched
    <3>3. lane' = [l \in Lanes |-> Idle] => LanesTyped'
      BY RowTypes DEF LanesTyped, At, Idle
    <3> QED
      BY <3>1, <3>2, <3>3
  <2>2. spent' \in [Budgets -> Nat]
    BY <1>3, SpendTyped DEF Terminate, Disconnect, Crash, TypeInv, Budgets
  <2>3. SwitchesTyped'
    BY <2>2, <1>3, AbortTyped
    DEF Terminate, Disconnect, Crash, TypeInv, SwitchesTyped, Services
  <2> QED
    BY <2>1, <2>3, <1>3, Untouched DEF Terminate, Disconnect, Crash, tables, TypeInv
<1>4. CASE CooldownEnds \/ CircuitCloses \/ Exit \/ Restart \/ Start
  <2>1. SwitchesTyped'
    BY <1>4 DEF CooldownEnds, CircuitCloses, Exit, Restart, Start, TypeInv, SwitchesTyped,
                Services
  <2> QED
    BY <2>1, <1>4, Untouched
    DEF CooldownEnds, CircuitCloses, Exit, Restart, Start, tables, TypeInv
<1> QED
  BY <1>1, <1>2, <1>3, <1>4 DEF Environment

-----------------------------------------------------------------------------
(* The theorem *)

\* Every step of a lane.
LEMMA WorkerTyped ==
  ASSUME TypeInv, Worker
  PROVE  TypeInv'
<1>1. PrepareLanes \subseteq Foreground /\ ParseLanes \subseteq Foreground
  BY DEF Foreground
<1> QED
  BY <1>1, ClaimTyped, PrepareStepTyped, ParseStepTyped, TaskEndTyped, ClaimArchiveTyped,
     BackupStepTyped DEF Worker

\* Every step keeps the state typed.
LEMMA NextTyped == TypeInv /\ [Next]_vars => TypeInv'
<1> SUFFICES ASSUME TypeInv, [Next]_vars PROVE TypeInv'
  OBVIOUS
<1>1. CASE Next
  BY <1>1, WorkerTyped, RecoveryTyped, RequestTyped, ServeTyped, AdminTypedStep,
     EnvironmentTyped DEF Next, Api
<1>2. CASE UNCHANGED vars
  BY <1>2, Untouched DEF vars, TypeInv
<1> QED
  BY <1>1, <1>2

\* The inductive invariant holds in every reachable state.
THEOREM TypeInvariance == Spec => []TypeInv
  BY InitTyped, NextTyped, PTL DEF Spec

\* Every reachable state has the types the program's tables and objects have:
\* also the rows that the lanes copy, edit and write back across the steps of
\* others, after any number of restarts, stalls and deletions.
THEOREM TypeCorrect == Spec => []TypeOK
  BY TypeInvariance, TypeInvGivesTypeOK, PTL
=============================================================================
