------------------------------ MODULE MatchSync ------------------------------
(***************************************************************************)
(* Match synchronisation: the scheduled refresh of every account and the   *)
(* date ranges users ask for, both served from the table sync_jobs by      *)
(* ticks that several processes run at once (sync daemon, timers, the      *)
(* internal route).  A tick recovers stale jobs, serves one batch of a     *)
(* manual range, enqueues due accounts and serves a scheduled job.         *)
(*                                                                         *)
(* Transactions that hold row locks over several statements are modelled   *)
(* with their locks, because they take them in different orders.           *)
(* A worker's lease (locked_at) is modelled by the worker who took it: two *)
(* claims of one row are minutes apart, so their times differ, and a       *)
(* worker serves one job at a time.                                        *)
(***************************************************************************)
EXTENDS Naturals, FiniteSets

CONSTANTS
    User, Worker, Job, Nobody,
    Match,              \* matches of the provider
    Late,               \* matches it lists only later, not yet played perhaps
    ByHand,             \* matches the journal's owner links entries to
    Day, DayOf,         \* journal days, numbered, and the day of each match
    OtherMode,          \* matches outside a request for selected game modes
    Dismissed,          \* matches the owner has dismissed
    MaxAttempts,        \* SCHEDULED_SYNC_MAX_ATTEMPTS
    MaxRetries,         \* 30, claims of a manual job between two batches
    BatchSize,          \* 5, matches of a batch
    DayLimit,           \* 7, days a manual range may mark as complete
    Enabled             \* SCHEDULED_SYNC_ENABLED

ASSUME SyncAssumption ==
    /\ Day \subseteq Nat /\ Day # {}
    /\ DayOf \in [Match -> Day]
    /\ {OtherMode, Dismissed, Late, ByHand} \subseteq SUBSET Match
    /\ Nobody \notin Worker \cup Job \cup User
    /\ IsFiniteSet(Match) /\ Enabled \in BOOLEAN
    /\ {MaxAttempts, MaxRetries, BatchSize, DayLimit} \subseteq Nat \ {0}

VARIABLES
    job,        \* sync_jobs
    user,       \* users: sync cursor, cooldown, and the row lock of a request
    journal,    \* matches in each journal
    complete,   \* journal days marked complete by a sync
    request,    \* enqueueManualRangeSync between its statements
    worker,     \* what each tick is doing
    listed,     \* matches the provider lists by now
    moved       \* matches whose entry the owner has linked to another one

vars == <<job, user, journal, complete, request, worker, listed, moved>>
outside == <<listed, moved>>

-----------------------------------------------------------------------------
\* "inserting" is a row of an uncommitted insert: invisible, but in the index.
Active == {"pending", "processing"}
Ended == {"completed", "failed"}
RowStatus == {"none", "inserting"} \cup Active \cup Ended

Range == [from : Day, to : Day, all : BOOLEAN]
AnyRange == CHOOSE r \in Range : TRUE
DaysOf(r) == {d \in Day : r.from <= d /\ d <= r.to}

JobRow == [status    : RowStatus,
           kind      : {"manual", "scheduled"},
           user      : User \cup {Nobody},
           range     : Range,                   \* manual_request
           attempts  : Nat,
           lockedAt  : Worker \cup {Nobody},
           stale     : BOOLEAN,                 \* locked_at is too long ago
           txn       : Worker \cup {Nobody},    \* transaction that locks the row
           attempted : SUBSET Match,            \* manual_attempted
           failed    : SUBSET Match,            \* manual_result.failed
           known     : SUBSET Match]   \* auxiliary: listed when it was asked for

\* due: last_scheduled_sync_at is unset or an interval ago.
UserRow == [due : BOOLEAN, cooling : BOOLEAN, locked : BOOLEAN]

RequestState == [step : {"idle", "locked", "waiting"}, range : Range]

\* Between jobs a tick remembers nothing, and other ticks may be at any of its
\* statements: an idle worker takes them in any order.
TickStep == {"idle", "recovering", "fetch", "import", "mark", "save", "catch",
             "enqueuing", "finish", "finishing", "fail", "failing"}

TickState == [step      : TickStep,
              job       : Job \cup {Nobody},
              attempts  : Nat,
              attempted : SUBSET Match,
              failed    : SUBSET Match,
              todo      : SUBSET Match,         \* rest of the batch
              deferred  : BOOLEAN,              \* matches left for later batches
              error     : {"none", "transient", "unexpected"}]

NoJob == [status |-> "none", kind |-> "scheduled", user |-> Nobody,
          range |-> AnyRange, attempts |-> 0, lockedAt |-> Nobody,
          stale |-> FALSE, txn |-> Nobody, attempted |-> {}, failed |-> {}, known |-> {}]

At(step) == [step |-> step, job |-> Nobody, attempts |-> 0, attempted |-> {},
             failed |-> {}, todo |-> {}, deferred |-> FALSE, error |-> "none"]

Init ==
    /\ job = [j \in Job |-> NoJob]
    /\ user = [u \in User |-> [due |-> TRUE, cooling |-> FALSE, locked |-> FALSE]]
    /\ journal = [u \in User |-> {}]
    /\ complete = [u \in User |-> {}]
    /\ request = [u \in User |-> [step |-> "idle", range |-> AnyRange]]
    /\ worker = [w \in Worker |-> At("idle")]
    /\ listed = Match \ Late
    /\ moved = [u \in User |-> {}]

NewJob(kind, u, r, status, txn) ==
    [NoJob EXCEPT !.status = status, !.kind = kind, !.user = u,
                  !.range = r, !.txn = txn, !.known = listed]

\* sync_jobs_one_active_per_user_uidx, seen by everyone and by the index.
ActiveOf(u) == {j \in Job : job[j].user = u /\ job[j].status \in Active}
IndexedOf(u) ==
    {j \in Job : job[j].user = u /\ job[j].status \in Active \cup {"inserting"}}
Free(j) == job[j].txn = Nobody
Unused(j) == job[j].status = "none"
Full == \A j \in Job : ~Unused(j)      \* bound: no room for another job

-----------------------------------------------------------------------------
(* A manual request: one transaction that begins by locking the account. *)

RequestBegins(u, r) ==
    /\ request[u].step = "idle"
    /\ ~Full
    /\ r.from <= r.to
    /\ request' = [request EXCEPT ![u] = [step |-> "locked", range |-> r]]
    /\ user' = [user EXCEPT ![u].locked = TRUE]
    /\ UNCHANGED <<job, journal, complete, worker, outside>>

RequestOver(u) == request' = [request EXCEPT ![u] = [step |-> "idle", range |-> AnyRange]]

\* Mutant: the refusal keeps the account's cooldown.
RefusedKeepsCooldown(u) ==
    /\ RequestOver(u)
    /\ user' = [user EXCEPT ![u].locked = FALSE, ![u].cooling = TRUE]
    /\ UNCHANGED job

\* Mutant: the transaction of a refused request stays open.
RefusedKeepsLock(u) == RequestOver(u) /\ UNCHANGED <<user, job>>

RequestRefused(u) ==
    /\ RequestOver(u)
    /\ user' = [user EXCEPT ![u].locked = FALSE]
    /\ UNCHANGED job

\* Supersede a waiting refresh, claim the cooldown, insert the job.
Superseded(j) == [job[j] EXCEPT !.status = "failed", !.lockedAt = Nobody]

RequestCommits(u) == \E new \in Job :
    /\ Unused(new)
    /\ job' = [j \in Job |->
                CASE j = new -> NewJob("manual", u, request[u].range, "pending", Nobody)
                  [] j \in ActiveOf(u) -> Superseded(j)
                  [] OTHER -> job[j]]
    /\ user' = [user EXCEPT ![u].locked = FALSE, ![u].cooling = TRUE]
    /\ RequestOver(u)

\* The select skips locked rows, so a job another transaction is ending does
\* not refuse the request: the insert then waits for that transaction.
MayYield(j) == job[j].kind = "scheduled" /\ job[j].status = "pending"

RequestDecides(u) ==
    /\ request[u].step = "locked"
    /\ LET seen == {j \in ActiveOf(u) : Free(j)}
           refused == user[u].cooling \/ Full \/ \E j \in seen : ~MayYield(j)
       IN \/ refused /\ RequestRefused(u)
          \/ ~refused /\ IndexedOf(u) = seen /\ RequestCommits(u)
          \/ /\ ~refused /\ IndexedOf(u) # seen
             /\ request' = [request EXCEPT ![u].step = "waiting"]
             /\ UNCHANGED <<job, user>>
    /\ UNCHANGED <<journal, complete, worker, outside>>

RequestResumes(u) ==
    /\ request[u].step = "waiting"
    /\ \A j \in IndexedOf(u) : Free(j)
    /\ IF IndexedOf(u) = {} /\ ~Full THEN RequestCommits(u) ELSE RequestRefused(u)
    /\ UNCHANGED <<journal, complete, worker, outside>>

\* The database ends a deadlock, or the API process dies: a rollback.
RequestAborted(u) ==
    /\ request[u].step # "idle"
    /\ RequestRefused(u)
    /\ UNCHANGED <<journal, complete, worker, outside>>

-----------------------------------------------------------------------------
(* Recovery at the start of a tick. *)

Goto(w, step) == worker' = [worker EXCEPT ![w] = At(step)]
Stay(w, step) == worker' = [worker EXCEPT ![w].step = step]

IsStale(j, kind) ==
    job[j].kind = kind /\ job[j].status = "processing" /\ job[j].stale

\* Mutant: a job put back is counted afresh.
RequeuedAfresh(j) == [job[j] EXCEPT !.status = "pending", !.lockedAt = Nobody,
                                    !.stale = FALSE, !.txn = Nobody, !.attempts = 0]

Requeued(j) == [job[j] EXCEPT !.status = "pending", !.lockedAt = Nobody,
                              !.stale = FALSE, !.txn = Nobody]
Failed(j) == [job[j] EXCEPT !.status = "failed", !.lockedAt = Nobody,
                            !.stale = FALSE, !.txn = Nobody]
Spent(j) == job[j].attempts >= MaxAttempts

RecoverScheduled(w) ==
    /\ worker[w].step = "idle"
    /\ LET stale == {j \in Job : IsStale(j, "scheduled") /\ Free(j)}
       IN /\ stale # {}
          /\ IF \E j \in stale : Spent(j)
             THEN /\ job' = [j \in Job |-> IF j \in stale
                                           THEN [job[j] EXCEPT !.txn = w] ELSE job[j]]
                  /\ Goto(w, "recovering")
             ELSE /\ job' = [j \in Job |-> IF j \in stale THEN Requeued(j) ELSE job[j]]
                  /\ UNCHANGED worker
    /\ UNCHANGED <<user, journal, complete, request, outside>>

\* The failed jobs' accounts are updated too, once their rows are unlocked.
LockedBy(w) == {j \in Job : job[j].txn = w}
MoveCursors(users) ==
    /\ \A u \in users : ~user[u].locked
    /\ user' = [u \in User |-> IF u \in users THEN [user[u] EXCEPT !.due = FALSE]
                                              ELSE user[u]]

RecoverCommits(w) ==
    /\ worker[w].step = "recovering"
    /\ MoveCursors({job[j].user : j \in {k \in LockedBy(w) : Spent(k)}})
    /\ job' = [j \in Job |-> IF j \notin LockedBy(w) THEN job[j]
                             ELSE IF Spent(j) THEN Failed(j) ELSE Requeued(j)]
    /\ Goto(w, "idle")
    /\ UNCHANGED <<journal, complete, request, outside>>

-----------------------------------------------------------------------------
(* The manual part of a tick. *)

Claimed(j, w) == [job[j] EXCEPT !.status = "processing", !.lockedAt = w,
                                !.stale = FALSE, !.attempts = @ + 1]

\* The worker keeps the attempts of the row: a manual claim returns the count
\* before it was raised, a scheduled claim the count after.
Take(w, j, attempts) ==
    worker' = [worker EXCEPT ![w] =
                [At("fetch") EXCEPT !.job = j, !.attempts = attempts,
                                    !.attempted = job[j].attempted,
                                    !.failed = job[j].failed]]

Claimable(j, kind) == job[j].kind = kind /\ job[j].status = "pending" /\ Free(j)

RecoverManual(j) == IF job[j].attempts < MaxRetries THEN Requeued(j) ELSE Failed(j)

\* The two recovery statements, which no transaction makes one with the claim.
ManualRecovers(w) ==
    /\ worker[w].step = "idle"
    /\ \E j \in Job : IsStale(j, "manual")
    /\ job' = [j \in Job |-> IF IsStale(j, "manual") THEN RecoverManual(j) ELSE job[j]]
    /\ UNCHANGED <<user, journal, complete, request, worker, outside>>

ManualClaims(w) == \E j \in Job :
    /\ worker[w].step = "idle"
    /\ Claimable(j, "manual")
    /\ job' = [job EXCEPT ![j] = Claimed(j, w)]
    /\ Take(w, j, job[j].attempts)
    /\ UNCHANGED <<user, journal, complete, request, outside>>

-----------------------------------------------------------------------------
(* discoverRecentMatches, for both kinds of job. *)

IsManual(w) == job[worker[w].job].kind = "manual"
RangeOf(w) == job[worker[w].job].range
UserOf(w) == job[worker[w].job].user

\* Linking an entry to a match takes the match's dismissal away.
DismissedBy(u) == Dismissed \ moved[u]
Settled(u) == journal[u] \cup DismissedBy(u)
Wanted(r) == {m \in Match : DayOf[m] \in DaysOf(r) /\ (r.all \/ m \notin OtherMode)}

\* What the history shows of a range: of the matches listed by now, all that
\* are wanted; and one whose mode the feed leaves out is shown whatever the
\* request selects.  A refresh takes those after its cursor, which is left open.
Listings(w) ==
    IF IsManual(w)
    THEN {(Wanted(RangeOf(w)) \cup more) \cap listed : more \in
            SUBSET {m \in OtherMode : DayOf[m] \in DaysOf(RangeOf(w))}}
    ELSE SUBSET listed

\* Of an attempt that has thrown, or is over, only the job is still read.
Attempt(w) == [At("idle") EXCEPT !.job = worker[w].job, !.attempts = worker[w].attempts]

Throw(w, error) ==
    worker' = [worker EXCEPT ![w] =
        [Attempt(w) EXCEPT !.error = error,
                           !.step = IF IsManual(w) THEN "catch" ELSE "fail"]]

Fetch(w) ==
    /\ worker[w].step = "fetch"
    /\ \/ \E shown \in Listings(w) :
            LET eligible == (shown \ Settled(UserOf(w))) \ worker[w].attempted
            IN \E batch \in SUBSET eligible :
                /\ Cardinality(batch) <= BatchSize
                /\ batch = eligible \/ Cardinality(batch) = BatchSize
                /\ worker' = [worker EXCEPT ![w].step = "import", ![w].todo = batch,
                                            ![w].deferred = batch # eligible]
       \/ \E error \in {"transient", "unexpected"} : Throw(w, error)
    /\ UNCHANGED <<job, user, journal, complete, request, outside>>

\* The full match is fetched: not of a selected mode, saved unless it has
\* been imported or dismissed meanwhile, refused for good, or a failure that
\* ends the batch.
Import(w) ==
    /\ worker[w].step = "import"
    /\ \/ \E m \in worker[w].todo :
            LET tried == [worker[w] EXCEPT !.todo = @ \ {m}, !.attempted = @ \cup {m}]
                skipped == IsManual(w) /\ ~RangeOf(w).all /\ m \in OtherMode
            IN \/ /\ worker' = [worker EXCEPT ![w] = tried]
                  /\ journal' = [journal EXCEPT ![UserOf(w)] =
                        IF skipped \/ m \in DismissedBy(UserOf(w)) THEN @ ELSE @ \cup {m}]
               \/ /\ worker' = [worker EXCEPT ![w] =
                        [tried EXCEPT !.failed = @ \cup {m}]]
                  /\ UNCHANGED journal
               \/ /\ \E error \in {"transient", "unexpected"} : Throw(w, error)
                  /\ UNCHANGED journal
       \/ /\ worker[w].todo = {}
          /\ IF IsManual(w)
             THEN Stay(w, "mark")
             ELSE worker' = [worker EXCEPT ![w] = [Attempt(w) EXCEPT !.step = "finish"]]
          /\ UNCHANGED journal
    /\ UNCHANGED <<job, user, complete, request, outside>>

-----------------------------------------------------------------------------
(* How a manual batch ends. *)

\* Mutant: matches that failed do not keep the range from being complete.
MarksWithFailures(w) == ~worker[w].deferred /\ RangeOf(w).all

MayMark(w) ==
    /\ ~worker[w].deferred
    /\ worker[w].failed = {}
    /\ RangeOf(w).all

Marked(r) == {d \in DaysOf(r) : d < r.from + DayLimit}

\* markJournalRangeCompleted comes before the row is saved, lease or no lease.
Mark(w) ==
    /\ worker[w].step = "mark"
    /\ complete' = [complete EXCEPT ![UserOf(w)] =
                        IF MayMark(w) THEN @ \cup Marked(RangeOf(w)) ELSE @]
    /\ Stay(w, "save")
    /\ UNCHANGED <<job, user, journal, request, outside>>

\* Mutant: any processing row passes for the worker's own.
HasAnyLease(w) == job[worker[w].job].status = "processing"

HasLease(w) ==
    LET j == worker[w].job IN job[j].status = "processing" /\ job[j].lockedAt = w

\* Mutant: only the failures of the last batch are stored.
SavedForgetsFailures(w) ==
    [job[worker[w].job] EXCEPT
        !.status = IF worker[w].deferred THEN "pending" ELSE "completed",
        !.lockedAt = Nobody, !.stale = FALSE, !.attempts = 0,
        !.attempted = worker[w].attempted, !.failed = worker[w].failed \ @]

Saved(w) ==
    [job[worker[w].job] EXCEPT
        !.status = IF worker[w].deferred THEN "pending" ELSE "completed",
        !.lockedAt = Nobody, !.stale = FALSE, !.attempts = 0,
        !.attempted = worker[w].attempted, !.failed = worker[w].failed]

Save(w) ==
    /\ worker[w].step = "save"
    /\ IF HasLease(w)
       THEN job' = [job EXCEPT ![worker[w].job] = Saved(w)] /\ Goto(w, "idle")
       ELSE UNCHANGED job /\ Throw(w, "unexpected")
    /\ UNCHANGED <<user, journal, complete, request, outside>>

CanRetry(w) == worker[w].error = "transient" /\ worker[w].attempts + 1 < MaxRetries

Catch(w) ==
    /\ worker[w].step = "catch"
    /\ job' = IF HasLease(w)
              THEN [job EXCEPT ![worker[w].job] =
                        IF CanRetry(w) THEN Requeued(worker[w].job)
                                       ELSE Failed(worker[w].job)]
              ELSE job
    /\ Goto(w, "idle")
    /\ UNCHANGED <<user, journal, complete, request, outside>>

-----------------------------------------------------------------------------
(* The scheduled part of a tick. *)

\* Accounts that are due and have no active job; enqueuers wait for each other.
EnqueueInserts(w) ==
    /\ Enabled
    /\ worker[w].step = "idle"
    /\ \A v \in Worker : worker[v].step # "enqueuing"
    /\ \E users \in SUBSET {u \in User : user[u].due /\ IndexedOf(u) = {}} :
        \E rows \in [users -> {j \in Job : Unused(j)}] :
            /\ users # {}
            /\ \A u, v \in users : rows[u] = rows[v] => u = v
            /\ job' = [j \in Job |->
                        IF \E u \in users : rows[u] = j
                        THEN NewJob("scheduled", CHOOSE u \in users : rows[u] = j,
                                    AnyRange, "inserting", w)
                        ELSE job[j]]
    /\ Goto(w, "enqueuing")
    /\ UNCHANGED <<user, journal, complete, request, outside>>

\* The foreign key makes the insert wait for accounts a request has locked.
EnqueueCommits(w) ==
    /\ worker[w].step = "enqueuing"
    /\ \A j \in LockedBy(w) : ~user[job[j].user].locked
    /\ job' = [j \in Job |-> IF j \in LockedBy(w)
                              THEN [job[j] EXCEPT !.status = "pending", !.txn = Nobody]
                              ELSE job[j]]
    /\ Goto(w, "idle")
    /\ UNCHANGED <<user, journal, complete, request, outside>>

ScheduledClaims(w) == \E j \in Job :
    /\ Enabled
    /\ worker[w].step = "idle"
    /\ Claimable(j, "scheduled")
    /\ job' = [job EXCEPT ![j] = Claimed(j, w)]
    /\ Take(w, j, job[j].attempts + 1)
    /\ UNCHANGED <<user, journal, complete, request, outside>>

\* completeScheduledSyncJob and the final failure: the row, then the account.
LockRow(w, step) ==
    /\ job' = [job EXCEPT ![worker[w].job].txn = w]
    /\ Stay(w, step)

\* Mutant: the row is completed without a look at the lease.
FinishAnyRow(w) ==
    /\ worker[w].step = "finish"
    /\ Free(worker[w].job)
    /\ LockRow(w, "finishing")
    /\ UNCHANGED <<user, journal, complete, request, outside>>

FinishRow(w) ==
    /\ worker[w].step = "finish"
    /\ Free(worker[w].job)
    /\ IF HasLease(w) THEN LockRow(w, "finishing")
                      ELSE UNCHANGED job /\ Throw(w, "unexpected")
    /\ UNCHANGED <<user, journal, complete, request, outside>>

FinishCommits(w) ==
    /\ worker[w].step = "finishing"
    /\ MoveCursors({UserOf(w)})
    /\ job' = [job EXCEPT ![worker[w].job] =
                [@ EXCEPT !.status = "completed", !.lockedAt = Nobody,
                          !.stale = FALSE, !.txn = Nobody]]
    /\ Goto(w, "idle")
    /\ UNCHANGED <<journal, complete, request, outside>>

FailRow(w) ==
    /\ worker[w].step = "fail"
    /\ Free(worker[w].job)
    /\ CASE ~HasLease(w) -> UNCHANGED job /\ Goto(w, "idle")
         [] HasLease(w) /\ worker[w].attempts >= MaxAttempts -> LockRow(w, "failing")
         [] OTHER -> job' = [job EXCEPT ![worker[w].job] = Requeued(worker[w].job)]
                     /\ Goto(w, "idle")
    /\ UNCHANGED <<user, journal, complete, request, outside>>

FailCommits(w) ==
    /\ worker[w].step = "failing"
    /\ MoveCursors({UserOf(w)})
    /\ job' = [job EXCEPT ![worker[w].job] = Failed(worker[w].job)]
    /\ Goto(w, "idle")
    /\ UNCHANGED <<journal, complete, request, outside>>

-----------------------------------------------------------------------------
(* Rollbacks, time, and the specification. *)

\* Mutant: a connection that breaks leaves its transaction open.
LeftOpen(w) == [j \in Job |-> IF job[j].txn = w THEN job[j] ELSE job[j]]

RolledBack(w) ==
    [j \in Job |-> IF job[j].txn # w THEN job[j]
                   ELSE IF job[j].status = "inserting" THEN NoJob
                   ELSE [job[j] EXCEPT !.txn = Nobody]]

\* The request waits for a row of a transaction that waits for its account.
Deadlock(u, w) ==
    /\ request[u].step = "waiting"
    /\ \E j \in LockedBy(w) :
        job[j].user = u /\ (worker[w].step = "recovering" => Spent(j))

\* The database makes one of the two its victim.
DeadlockVictim(w) ==
    /\ \E u \in User : Deadlock(u, w)
    /\ job' = RolledBack(w)
    /\ IF worker[w].step = "finishing" THEN Throw(w, "unexpected") ELSE Goto(w, "idle")
    /\ UNCHANGED <<user, journal, complete, request, outside>>

\* A process dies; between jobs that is the same as a tick that ends early.
Crash(w) ==
    /\ worker[w].job # Nobody \/ worker[w].step \in {"recovering", "enqueuing"}
    /\ job' = RolledBack(w)
    /\ Goto(w, "idle")
    /\ UNCHANGED <<user, journal, complete, request, outside>>

GoesStale(j) ==
    /\ job[j].status = "processing" /\ ~job[j].stale
    /\ job' = [job EXCEPT ![j].stale = TRUE]
    /\ UNCHANGED <<user, journal, complete, request, worker, outside>>

BecomesDue(u) ==
    /\ user' = [user EXCEPT ![u].due = TRUE]
    /\ UNCHANGED <<job, journal, complete, request, worker, outside>>

CooldownOver(u) ==
    /\ user' = [user EXCEPT ![u].cooling = FALSE]
    /\ UNCHANGED <<job, journal, complete, request, worker, outside>>

\* saveOpenDotaMatch, called by the owner: an entry is linked to a match that no
\* other entry has, and perhaps it was linked to another one before.
Links(u) == \E m \in (ByHand \cap listed) \ journal[u], old \in SUBSET journal[u] :
    /\ Cardinality(old) <= 1
    /\ journal' = [journal EXCEPT ![u] = (@ \ old) \cup {m}]
    /\ moved' = [moved EXCEPT ![u] = @ \cup old]
    /\ UNCHANGED <<job, user, complete, request, worker, listed>>

ProviderLists(m) ==
    /\ m \notin listed
    /\ listed' = listed \cup {m}
    /\ UNCHANGED <<job, user, journal, complete, request, worker, moved>>

\* The statements that serve a job, and those that look for one.
Serve(w) ==
    \/ RecoverCommits(w) \/ Fetch(w) \/ Import(w) \/ Mark(w) \/ Save(w) \/ Catch(w)
    \/ EnqueueCommits(w)
    \/ FinishRow(w) \/ FinishCommits(w) \/ FailRow(w) \/ FailCommits(w)

Claim(w) == ManualClaims(w) \/ ScheduledClaims(w)
Recover(w) == RecoverScheduled(w) \/ ManualRecovers(w)

RequestStepOf(u) == RequestDecides(u) \/ RequestResumes(u)

Next ==
    \/ \E w \in Worker : Serve(w) \/ Claim(w) \/ Recover(w) \/ EnqueueInserts(w)
                        \/ DeadlockVictim(w) \/ Crash(w)
    \/ \E u \in User :
        \/ \E r \in Range : RequestBegins(u, r)
        \/ RequestStepOf(u) \/ RequestAborted(u)
        \/ BecomesDue(u) \/ CooldownOver(u) \/ Links(u)
    \/ \E j \in Job : GoesStale(j)
    \/ \E m \in Match : ProviderLists(m)

Spec == Init /\ [][Next]_vars

\* Ticks are started again and again, statements return, and PostgreSQL breaks
\* deadlocks.  It grants a row lock in the order of the requests for it, so a
\* statement that waits for one is not overtaken for ever.  Nobody has to ask,
\* and nothing stops a process from dying.
Fairness ==
    /\ \A w \in Worker : SF_vars(Serve(w)) /\ WF_vars(DeadlockVictim(w))
                        /\ WF_vars(Claim(w)) /\ WF_vars(Recover(w))
    /\ \A u \in User : SF_vars(RequestStepOf(u))
    /\ \A j \in Job : WF_vars(GoesStale(j))

FairSpec == Spec /\ Fairness
=============================================================================
