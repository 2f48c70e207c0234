--------------------------- MODULE MatchSyncProofs ---------------------------
(***************************************************************************)
(* Safety of match synchronisation for every number of accounts, ticks,    *)
(* jobs, matches and days, and that its table is a lease queue.            *)
(***************************************************************************)
EXTENDS MatchSyncProperties, TLAPS

-----------------------------------------------------------------------------
(* The inductive invariant *)

Serving == {"fetch", "import", "mark", "save", "catch", "finish", "finishing", "fail", "failing"}
Locking == {"recovering", "enqueuing", "finishing", "failing"}

\* A tick serves a job whose row stays, of the kind its step is for, and
\* between the two statements that end a refresh it has the job's lease and lock.
WorkerHolds(w) ==
    /\ worker[w].step \in Serving <=> worker[w].job \in Job
    /\ worker[w].job \in Job => job[worker[w].job].status \notin {"none", "inserting"}
    /\ worker[w].step \in {"mark", "save", "catch"} => IsManual(w)
    /\ worker[w].step \in {"finish", "finishing", "fail", "failing"} => ~IsManual(w)
    /\ worker[w].step \in {"finishing", "failing"} =>
          HasLease(w) /\ job[worker[w].job].txn = w

\* A row is locked by a tick inside a transaction, which is about that row.
LockHolds(j) ==
    job[j].txn # Nobody =>
        LET tick == worker[job[j].txn] IN
        /\ job[j].kind = "scheduled"
        /\ tick.step \in Locking
        /\ tick.step = "enqueuing" <=> job[j].status = "inserting"
        /\ tick.step # "enqueuing" => job[j].status = "processing"
        /\ tick.step \in {"finishing", "failing"} => tick.job = j

\* Of the matches a range has tried, each is accounted for, reported as failed,
\* or of a mode the request left out.
Visited(attempted, failed, u, r) ==
    attempted \subseteq Accounted(u) \cup failed \cup (IF r.all THEN {} ELSE OtherMode)

\* A row that is there has an account, and keeps what its range has tried.
RowHolds(j) ==
    /\ job[j].status # "none" => job[j].user \in User
    /\ job[j].kind = "manual" =>
          /\ job[j].status # "none"
          /\ Visited(job[j].attempted, job[j].failed, job[j].user, job[j].range)
          /\ job[j].status = "completed" =>
                Wanted(job[j].range) \cap job[j].known
                   \subseteq Accounted(job[j].user) \cup job[j].failed
    /\ job[j].status = "inserting" => job[j].txn # Nobody
    /\ job[j].known \subseteq listed

KnownTo(w) == job[worker[w].job].known

\* What a tick knows of its range: what it tried is visited, and unless some
\* matches are left for later batches, the rest of the batch is all that was
\* listed when the range was asked for.
BatchHolds(w) ==
    worker[w].step \in {"fetch", "import", "mark", "save"} /\ IsManual(w) =>
        /\ Visited(worker[w].attempted, worker[w].failed, UserOf(w), RangeOf(w))
        /\ worker[w].step # "fetch" /\ ~worker[w].deferred =>
              Wanted(RangeOf(w)) \cap KnownTo(w) \subseteq
                 Accounted(UserOf(w)) \cup worker[w].attempted \cup worker[w].todo
        /\ worker[w].step \in {"mark", "save"} => worker[w].todo = {}

\* A request that waits for the index has found no cooldown.
RequestHolds(u) == request[u].step = "waiting" => ~user[u].cooling

IInv ==
    /\ TypeOK
    /\ \A j \in Job : LockHolds(j) /\ RowHolds(j)
    /\ \A w \in Worker : WorkerHolds(w) /\ BatchHolds(w)
    /\ \A u \in User : RequestHolds(u)

-----------------------------------------------------------------------------
(* Rows *)

LEMMA RangeThere == AnyRange \in Range
<1>1. PICK d \in Day : TRUE
  BY SyncAssumption
<1>2. [from |-> d, to |-> d, all |-> TRUE] \in Range
  BY DEF Range
<1> QED
  BY <1>2 DEF AnyRange

LEMMA NobodyElse == Nobody \notin Worker /\ Nobody \notin Job /\ Nobody \notin User
  BY SyncAssumption

\* What a step of the tick w, or of nobody's, may do to a row.
Ages(j) == job[j].status = "processing" /\ job'[j] = [job[j] EXCEPT !.stale = TRUE]
Claims(j, w) ==
    /\ w \in Worker /\ worker[w].job = Nobody /\ worker'[w].job = j
    /\ job[j].status = "pending" /\ Free(j) /\ job'[j] = Claimed(j, w)
Returns(j, w) ==
    /\ job[j].status = "processing" /\ job[j].txn \in {Nobody, w}
    /\ job'[j] = Requeued(j) \/ job'[j] = Failed(j)
Locks(j, w) ==
    /\ w \in Worker /\ job[j].status = "processing" /\ job[j].kind = "scheduled" /\ Free(j)
    /\ job'[j] = [job[j] EXCEPT !.txn = w]
Inserts(j, w) ==
    /\ w \in Worker /\ Unused(j)
    /\ \E u \in User : job'[j] = NewJob("scheduled", u, AnyRange, "inserting", w)
Commits(j, w) ==
    /\ w \in Worker /\ job[j].status = "inserting" /\ job[j].txn = w
    /\ job'[j] = [job[j] EXCEPT !.status = "pending", !.txn = Nobody]
Unlocks(j, w) ==
    /\ w \in Worker /\ job[j].txn = w
    /\ job'[j] = IF job[j].status = "inserting" THEN NoJob ELSE [job[j] EXCEPT !.txn = Nobody]
Yields(j) == MayYield(j) /\ Free(j) /\ job'[j] = Superseded(j)
Requested(j) ==
    /\ Unused(j)
    /\ \E u \in User, r \in Range : job'[j] = NewJob("manual", u, r, "pending", Nobody)
Saves(j, w) ==
    /\ w \in Worker /\ worker[w].step = "save" /\ worker[w].job = j /\ HasLease(w)
    /\ worker'[w].job = Nobody /\ job'[j] = Saved(w)
Completes(j, w) ==
    /\ w \in Worker /\ worker[w].job = j /\ HasLease(w) /\ worker'[w].job = Nobody
    /\ job[j].status = "processing" /\ job[j].kind = "scheduled" /\ job[j].txn = w
    /\ job'[j] = [job[j] EXCEPT !.status = "completed", !.lockedAt = Nobody,
                                !.stale = FALSE, !.txn = Nobody]

Moves(j, w) ==
    \/ job'[j] = job[j]
    \/ Ages(j) \/ Claims(j, w) \/ Returns(j, w) \/ Locks(j, w) \/ Inserts(j, w)
    \/ Commits(j, w) \/ Unlocks(j, w) \/ Yields(j) \/ Requested(j) \/ Saves(j, w)
    \/ Completes(j, w)

\* What each of them keeps: whose row it is, what its range has tried, and the
\* rows that other ticks have locked.
RowSafe(j, w) ==
    /\ job'[j] \in JobRow
    /\ job[j].status \notin {"none", "inserting"} =>
          /\ job'[j].status \notin {"none", "inserting"}
          /\ job'[j].kind = job[j].kind /\ job'[j].user = job[j].user
          /\ job'[j].range = job[j].range /\ job'[j].known = job[j].known
    /\ job'[j].known \subseteq listed
    /\ job[j].txn \notin {Nobody, w} =>
          /\ job'[j].status = job[j].status /\ job'[j].kind = job[j].kind
          /\ job'[j].lockedAt = job[j].lockedAt /\ job'[j].txn = job[j].txn
    /\ job'[j].txn \in {job[j].txn, Nobody, w}
    /\ job'[j].status # "none" => job'[j].user \in User
    /\ job'[j].status = "inserting" => job'[j].txn # Nobody
    /\ job'[j].kind = "manual" =>
          /\ job'[j].status # "none"
          /\ Visited(job'[j].attempted, job'[j].failed, job'[j].user, job'[j].range)
          /\ job'[j].status = "completed" =>
                Wanted(job'[j].range) \cap job'[j].known
                   \subseteq Accounted(job'[j].user) \cup job'[j].failed

\* A new row.
LEMMA NewJobRow ==
  ASSUME NEW kind \in {"manual", "scheduled"}, NEW u \in User \cup {Nobody}, NEW r \in Range,
         NEW status \in RowStatus, NEW txn \in Worker \cup {Nobody}, listed \subseteq Match
  PROVE  /\ NewJob(kind, u, r, status, txn) \in JobRow
         /\ NewJob(kind, u, r, status, txn).kind = kind
         /\ NewJob(kind, u, r, status, txn).user = u
         /\ NewJob(kind, u, r, status, txn).range = r
         /\ NewJob(kind, u, r, status, txn).status = status
         /\ NewJob(kind, u, r, status, txn).txn = txn
         /\ NewJob(kind, u, r, status, txn).attempted = {}
         /\ NewJob(kind, u, r, status, txn).failed = {}
         /\ NewJob(kind, u, r, status, txn).known = listed
<1>1. NoJob \in JobRow /\ NoJob.attempted = {} /\ NoJob.failed = {}
  BY RangeThere DEF NoJob, JobRow, RowStatus
<1> QED
  BY <1>1 DEF NewJob, JobRow

LEMMA MovesSafe ==
  ASSUME IInv, NEW w \in Worker \cup {Nobody}, NEW j \in Job, Moves(j, w)
  PROVE  RowSafe(j, w)
<1> DEFINE q == job[j]
<1>1. q \in JobRow /\ RowHolds(j) /\ LockHolds(j) /\ listed \subseteq Match
  BY DEF IInv, TypeOK
<1>2. Nobody \notin Worker
  BY NobodyElse
<1>3. CASE job'[j] = job[j]
  BY <1>1, <1>3 DEF RowSafe, RowHolds
<1>4. CASE Ages(j)
  BY <1>1, <1>4 DEF Ages, RowSafe, RowHolds, JobRow
<1>5. CASE Claims(j, w)
  <2>1. q.status = "pending" /\ q.txn = Nobody /\ w \in Worker
        /\ job'[j] = [q EXCEPT !.status = "processing", !.lockedAt = w,
                               !.stale = FALSE, !.attempts = q.attempts + 1]
    BY <1>5 DEF Claims, Claimed, Free
  <2>2. q.attempts + 1 \in Nat
    BY <1>1 DEF JobRow
  <2>3. /\ job'[j] \in JobRow /\ job'[j].kind = q.kind /\ job'[j].user = q.user
        /\ job'[j].range = q.range /\ job'[j].txn = q.txn
        /\ job'[j].attempted = q.attempted /\ job'[j].failed = q.failed
        /\ job'[j].known = q.known /\ job'[j].status = "processing"
    BY <1>1, <2>1, <2>2 DEF JobRow, RowStatus, Active
  <2> QED
    BY <1>1, <2>1, <2>3 DEF RowSafe, RowHolds
<1>6. CASE Returns(j, w)
  BY <1>1, <1>6 DEF Returns, Requeued, Failed, RowSafe, RowHolds, JobRow, RowStatus, Active, Ended
<1>7. CASE Locks(j, w)
  BY <1>1, <1>2, <1>7 DEF Locks, Free, RowSafe, RowHolds, JobRow
<1>8. CASE Inserts(j, w)
  <2>1. PICK u \in User : job'[j] = NewJob("scheduled", u, AnyRange, "inserting", w)
    BY <1>8 DEF Inserts
  <2>2. /\ job'[j] \in JobRow /\ job'[j].kind = "scheduled" /\ job'[j].user = u
        /\ job'[j].status = "inserting" /\ job'[j].txn = w /\ job'[j].known = listed
    BY <1>1, <2>1, <1>8, RangeThere, NewJobRow DEF Inserts, RowStatus
  <2>3. q.status = "none" /\ q.txn = Nobody /\ w # Nobody
    BY <1>1, <1>2, <1>8 DEF Inserts, Unused, LockHolds
  <2> QED
    BY <2>2, <2>3 DEF RowSafe
<1>9. CASE Commits(j, w)
  BY <1>1, <1>2, <1>9 DEF Commits, RowSafe, RowHolds, LockHolds, JobRow, RowStatus, Active
<1>10. CASE Unlocks(j, w)
  <2>1. NoJob \in JobRow /\ NoJob.status = "none" /\ NoJob.kind = "scheduled" /\ NoJob.txn = Nobody
        /\ NoJob.known = {}
    BY RangeThere DEF NoJob, JobRow, RowStatus
  <2>2. CASE q.status = "inserting"
    BY <1>1, <1>2, <1>10, <2>1, <2>2 DEF Unlocks, RowSafe
  <2>3. CASE q.status # "inserting"
    BY <1>1, <1>2, <1>10, <2>3 DEF Unlocks, RowSafe, RowHolds, JobRow
  <2> QED
    BY <2>2, <2>3
<1>11. CASE Yields(j)
  BY <1>1, <1>11 DEF Yields, MayYield, Free, Superseded, RowSafe, RowHolds, JobRow, RowStatus, Ended
<1>12. CASE Requested(j)
  <2>1. PICK u \in User, r \in Range : job'[j] = NewJob("manual", u, r, "pending", Nobody)
    BY <1>12 DEF Requested
  <2>2. /\ job'[j] \in JobRow /\ job'[j].user = u /\ job'[j].attempted = {}
        /\ job'[j].status = "pending" /\ job'[j].txn = Nobody /\ job'[j].known = listed
    <3>1. "pending" \in RowStatus /\ "manual" \in {"manual", "scheduled"}
          /\ u \in User \cup {Nobody} /\ Nobody \in Worker \cup {Nobody}
      BY DEF RowStatus, Active
    <3> QED
      BY <1>1, <2>1, <3>1, NewJobRow
  <2>3. q.status = "none" /\ q.txn = Nobody
    BY <1>1, <1>12 DEF Requested, Unused, LockHolds
  <2> QED
    BY <2>2, <2>3 DEF RowSafe, Visited
<1>13. CASE Saves(j, w)
  <2> DEFINE t == worker[w]
  <2>1. t \in TickState /\ WorkerHolds(w) /\ BatchHolds(w)
    BY <1>13 DEF Saves, IInv, TypeOK
  <2>2. /\ q.kind = "manual" /\ q.status = "processing"
        /\ t.step = "save" /\ t.job = j /\ UserOf(w) = q.user /\ RangeOf(w) = q.range
    BY <1>13, <2>1 DEF Saves, WorkerHolds, IsManual, HasLease, UserOf, RangeOf
  <2>3. /\ Visited(t.attempted, t.failed, q.user, q.range)
        /\ ~t.deferred => Wanted(q.range) \cap q.known
                              \subseteq Accounted(q.user) \cup t.attempted
    BY <2>1, <2>2 DEF BatchHolds, IsManual, KnownTo
  <2>4. ~t.deferred => Wanted(q.range) \cap q.known \subseteq Accounted(q.user) \cup t.failed
    BY <2>3 DEF Visited, Wanted
  <2>5. /\ t.attempted \in SUBSET Match /\ t.failed \in SUBSET Match /\ t.deferred \in BOOLEAN
    BY <2>1 DEF TickState
  <2>6. /\ job'[j] = [q EXCEPT !.status = IF t.deferred THEN "pending" ELSE "completed",
                               !.lockedAt = Nobody, !.stale = FALSE, !.attempts = 0,
                               !.attempted = t.attempted, !.failed = t.failed]
    BY <1>13, <2>2 DEF Saves, Saved
  <2> HIDE DEF t
  <2>7. /\ job'[j] \in JobRow /\ job'[j].kind = q.kind /\ job'[j].user = q.user
        /\ job'[j].range = q.range /\ job'[j].txn = q.txn /\ job'[j].known = q.known
        /\ job'[j].attempted = t.attempted /\ job'[j].failed = t.failed
        /\ job'[j].status = IF t.deferred THEN "pending" ELSE "completed"
    <3>1. PICK s \in RowStatus : s = IF t.deferred THEN "pending" ELSE "completed"
      BY DEF RowStatus, Active, Ended
    <3>2. PICK tried \in SUBSET Match, failed \in SUBSET Match :
             tried = t.attempted /\ failed = t.failed
      BY <2>5
    <3>3. PICK old \in JobRow : old = q
      BY <1>1
    <3>4. PICK row : row = job'[j]
      OBVIOUS
    <3>5. row = [old EXCEPT !.status = s, !.lockedAt = Nobody, !.stale = FALSE,
                   !.attempts = 0, !.attempted = tried, !.failed = failed]
      BY <2>6, <3>1, <3>2, <3>3, <3>4, Zenon
    <3>6. /\ row \in JobRow /\ row.kind = old.kind /\ row.user = old.user
          /\ row.range = old.range /\ row.txn = old.txn /\ row.known = old.known
          /\ row.status = s
          /\ row.attempted = tried /\ row.failed = failed
      BY <3>5 DEF JobRow
    <3> QED
      BY <3>1, <3>2, <3>3, <3>4, <3>6
  <2>8. q.txn = Nobody
    BY <1>1, <2>2 DEF LockHolds
  <2> QED
    BY <1>1, <2>2, <2>3, <2>4, <2>5, <2>7, <2>8 DEF RowSafe, RowHolds
<1>14. CASE Completes(j, w)
  BY <1>1, <1>14 DEF Completes, RowSafe, RowHolds, JobRow, RowStatus, Ended
<1> QED
  BY <1>3, <1>4, <1>5, <1>6, <1>7, <1>8, <1>9, <1>10, <1>11, <1>12, <1>13, <1>14 DEF Moves

-----------------------------------------------------------------------------
(* Steps *)

\* What is accounted for stays so, and the provider's list grows.
Books ==
    /\ journal' \in [User -> SUBSET Match]
    /\ moved' \in [User -> SUBSET Match]
    /\ listed \subseteq listed' /\ listed' \subseteq Match
    /\ \A u \in User : Accounted(u) \subseteq Accounted(u)'

\* Steps that import nothing, and those that do.
LEMMA BooksSame ==
  ASSUME IInv, journal' = journal, outside' = outside
  PROVE  Books
  BY DEF IInv, TypeOK, Books, outside, Accounted, Settled, DismissedBy

LEMMA BooksGrow ==
  ASSUME IInv, outside' = outside, journal' \in [User -> SUBSET Match],
         \A u \in User : journal[u] \subseteq journal'[u]
  PROVE  Books
  BY DEF IInv, TypeOK, Books, outside, Accounted, Settled, DismissedBy

\* A step of the tick w, or of nobody's, as the rows and the other ticks see it.
Framed(w) ==
    /\ job' = [j \in Job |-> job'[j]]
    /\ \A j \in Job : Moves(j, w)
    /\ worker' \in [Worker -> TickState]
    /\ \A v \in Worker \ {w} : worker'[v] = worker[v]
    /\ Books
    /\ w \in Worker => \/ worker'[w].job \in {worker[w].job, Nobody}
                      \/ \E j \in Job : Claims(j, w)

\* Accounts, requests and the days marked complete.
AccountsHold ==
    /\ user \in [User -> UserRow]
    /\ complete \in [User -> SUBSET Day]
    /\ request \in [User -> RequestState]
    /\ \A u \in User : user[u].locked <=> request[u].step # "idle"
    /\ \A u \in User : RequestHolds(u)

\* What is left of the invariant after such a step is about its own tick, the
\* rows it has locked, and the accounts.
LEMMA FrameKeeps ==
  ASSUME IInv, NEW w \in Worker \cup {Nobody}, Framed(w),
         w \in Worker => WorkerHolds(w)' /\ BatchHolds(w)',
         \A j \in Job : w \in Worker /\ job'[j].txn = w => LockHolds(j)',
         AccountsHold'
  PROVE  IInv'
<1>1. \A j \in Job : RowSafe(j, w)
  BY MovesSafe DEF Framed
<1>2. /\ \A u \in User : Accounted(u) \subseteq Accounted(u)'
      /\ listed \subseteq listed'
  BY DEF Framed, Books
<1>3. TypeOK'
  <2>1. job' \in [Job -> JobRow]
    BY <1>1 DEF Framed, RowSafe
  <2> QED
    BY <2>1 DEF Framed, Books, AccountsHold, TypeOK
<1>4. ASSUME NEW j \in Job  PROVE RowHolds(j)'
  <2>1. job'[j].kind = "manual" => job'[j].user \in User
    BY <1>1 DEF RowSafe
  <2>2. ASSUME job'[j].kind = "manual"
        PROVE  Visited(job[j].attempted, job[j].failed, job[j].user, job[j].range)'
    <3>1. Visited(job'[j].attempted, job'[j].failed, job'[j].user, job'[j].range)
      BY <1>1, <2>2 DEF RowSafe
    <3> QED
      BY <1>2, <2>1, <2>2, <3>1 DEF Visited, Accounted, Settled, DismissedBy
  <2>3. ASSUME job'[j].kind = "manual", job'[j].status = "completed"
        PROVE  (Wanted(job[j].range) \cap job[j].known
                  \subseteq Accounted(job[j].user) \cup job[j].failed)'
    BY <1>1, <1>2, <2>1, <2>3 DEF RowSafe, Accounted, Settled, DismissedBy, Wanted
  <2>4. job'[j].known \subseteq listed'
    BY <1>1, <1>2 DEF RowSafe
  <2> QED
    BY <1>1, <2>2, <2>3, <2>4 DEF RowSafe, RowHolds
<1>5. ASSUME NEW j \in Job  PROVE LockHolds(j)'
  <2> DEFINE v == job'[j].txn
  <2>1. v \in Worker \cup {Nobody}
    BY <1>3 DEF TypeOK, JobRow
  <2>2. CASE v \notin {Nobody, w}
    <3>1. job[j].txn = v /\ v \in Worker \ {w}
      BY <1>1, <2>1, <2>2 DEF RowSafe
    <3>2. /\ job'[j].status = job[j].status /\ job'[j].kind = job[j].kind
          /\ worker'[v] = worker[v]
      BY <1>1, <2>2, <3>1 DEF RowSafe, Framed
    <3>3. LockHolds(j)
      BY DEF IInv
    <3> QED
      BY <2>2, <3>1, <3>2, <3>3 DEF LockHolds
  <2>3. CASE v = w /\ w \in Worker
    BY <2>3
  <2>4. CASE v = Nobody
    BY <2>4 DEF LockHolds
  <2> QED
    BY <2>1, <2>2, <2>3, <2>4
<1>6. ASSUME NEW v \in Worker  PROVE WorkerHolds(v)' /\ BatchHolds(v)'
  <2>1. CASE v = w
    BY <2>1
  <2>2. CASE v # w
    <3>1. worker'[v] = worker[v]
      BY <2>2 DEF Framed
    <3>2. WorkerHolds(v) /\ BatchHolds(v) /\ Nobody \notin Worker
      BY NobodyElse DEF IInv
    <3>3. CASE worker[v].job \notin Job
      BY <3>1, <3>2, <3>3 DEF WorkerHolds, BatchHolds, Serving
    <3>4. CASE worker[v].job \in Job
      <4> DEFINE k == worker[v].job
      <4>1. job[k].status \notin {"none", "inserting"}
        BY <3>2, <3>4 DEF WorkerHolds
      <4>2. /\ job'[k].status \notin {"none", "inserting"}
            /\ job'[k].kind = job[k].kind /\ job'[k].user = job[k].user
            /\ job'[k].range = job[k].range /\ job'[k].known = job[k].known
        BY <1>1, <3>4, <4>1 DEF RowSafe
      <4>3. job[k].txn = v => /\ job'[k].status = job[k].status
                              /\ job'[k].lockedAt = job[k].lockedAt
                              /\ job'[k].txn = v
        BY <1>1, <2>2, <3>2, <3>4 DEF RowSafe
      <4>4. WorkerHolds(v)'
        BY <3>1, <3>2, <3>4, <4>2, <4>3 DEF WorkerHolds, IsManual, HasLease
      <4>5. BatchHolds(v)'
        <5>1. PICK u \in User : u = job'[k].user
          BY <1>1, <3>4, <4>2 DEF RowSafe
        <5>2. /\ IsManual(v)' <=> IsManual(v)
              /\ UserOf(v)' = u /\ UserOf(v) = u /\ RangeOf(v)' = RangeOf(v)
              /\ KnownTo(v)' = KnownTo(v)
          BY <3>1, <4>2, <5>1 DEF IsManual, UserOf, RangeOf, KnownTo
        <5>3. Accounted(u) \subseteq Accounted(u)'
          BY <1>2
        <5> QED
          BY <3>1, <3>2, <5>2, <5>3 DEF BatchHolds, Visited, Accounted, Settled, DismissedBy, Wanted
      <4> QED
        BY <4>4, <4>5
    <3> QED
      BY <3>3, <3>4
  <2> QED
    BY <2>1, <2>2
<1> QED
  BY <1>3, <1>4, <1>5, <1>6 DEF IInv, AccountsHold

-----------------------------------------------------------------------------
(* What the actions have in common *)

LEMMA NoLocks ==
  ASSUME IInv, NEW w \in Worker, worker[w].step \notin Locking
  PROVE  \A j \in Job : job[j].txn # w
  BY NobodyElse DEF IInv, LockHolds

\* A tick that leaves its job behind.
LEMMA GotoHolds ==
  ASSUME IInv, NEW w \in Worker, NEW step \in {"idle", "recovering", "enqueuing"},
         Goto(w, step)
  PROVE  /\ worker' \in [Worker -> TickState]
         /\ \A v \in Worker \ {w} : worker'[v] = worker[v]
         /\ worker'[w].step = step /\ worker'[w].job = Nobody
         /\ WorkerHolds(w)' /\ BatchHolds(w)'
<1>1. At(step) \in TickState /\ At(step).step = step /\ At(step).job = Nobody
  BY DEF At, TickState, TickStep
<1>2. worker \in [Worker -> TickState] /\ worker' = [worker EXCEPT ![w] = At(step)]
  BY DEF IInv, TypeOK, Goto
<1>3. worker'[w] = At(step) /\ worker' \in [Worker -> TickState]
  BY <1>1, <1>2
<1>4. WorkerHolds(w)' /\ BatchHolds(w)'
  BY <1>1, <1>3, NobodyElse DEF WorkerHolds, BatchHolds, Serving
<1> QED
  BY <1>1, <1>2, <1>3, <1>4

\* A tick whose attempt at its job has thrown.
LEMMA ThrowHolds ==
  ASSUME IInv, NEW w \in Worker, NEW error \in {"transient", "unexpected"},
         Throw(w, error), worker[w].job \in Job,
         job'[worker[w].job].status \notin {"none", "inserting"},
         job'[worker[w].job].kind = job[worker[w].job].kind
  PROVE  /\ worker' \in [Worker -> TickState]
         /\ \A v \in Worker \ {w} : worker'[v] = worker[v]
         /\ worker'[w].step \in {"catch", "fail"} /\ worker'[w].job = worker[w].job
         /\ WorkerHolds(w)' /\ BatchHolds(w)'
<1> DEFINE t == worker[w]
           s == IF IsManual(w) THEN "catch" ELSE "fail"
<1>1. worker \in [Worker -> TickState] /\ t \in TickState
  BY DEF IInv, TypeOK
<1>2. /\ At("idle") \in TickState
      /\ worker' = [worker EXCEPT ![w] =
            [[At("idle") EXCEPT !.job = t.job, !.attempts = t.attempts]
                EXCEPT !.error = error, !.step = s]]
  BY DEF Throw, Attempt, At, TickState, TickStep
<1>3. /\ worker'[w] \in TickState /\ worker'[w].step = s /\ worker'[w].job = t.job
  <2>1. /\ t.job \in Job \cup {Nobody} /\ t.attempts \in Nat /\ s \in TickStep
    BY <1>1 DEF TickState, TickStep
  <2>2. PICK k \in Job \cup {Nobody}, n \in Nat, x \in TickStep :
           k = t.job /\ n = t.attempts /\ x = s
    BY <2>1
  <2>3. worker'[w] = [[At("idle") EXCEPT !.job = k, !.attempts = n] EXCEPT !.error = error, !.step = x]
    <3>1. worker'[w] = [[At("idle") EXCEPT !.job = t.job, !.attempts = t.attempts]
                          EXCEPT !.error = error, !.step = s]
      BY <1>1, <1>2, Zenon
    <3> HIDE DEF t, s
    <3> QED
      BY <2>2, <3>1, Zenon
  <2>4. PICK new : new = worker'[w]
    OBVIOUS
  <2> PICK start \in TickState : start = At("idle")
    BY <1>2
  <2>5. new = [[start EXCEPT !.job = k, !.attempts = n] EXCEPT !.error = error, !.step = x]
    BY <2>3, <2>4, Zenon
  <2>6. new \in TickState /\ new.step = x /\ new.job = k
    BY <2>5 DEF TickState
  <2> QED
    BY <2>2, <2>4, <2>6
<1>4. worker' \in [Worker -> TickState] /\ \A v \in Worker \ {w} : worker'[v] = worker[v]
  BY <1>1, <1>2, <1>3
<1>5. WorkerHolds(w)' /\ BatchHolds(w)'
  BY <1>3 DEF WorkerHolds, BatchHolds, Serving, IsManual
<1> QED
  BY <1>3, <1>4, <1>5

\* A tick that claims a job takes what the row remembers of its range.
LEMMA TakeHolds ==
  ASSUME IInv, NEW w \in Worker, NEW j \in Job, NEW attempts \in Nat,
         worker[w].step = "idle", job[j].status = "pending", Free(j),
         job' = [job EXCEPT ![j] = Claimed(j, w)], Take(w, j, attempts),
         journal' = journal, outside' = outside
  PROVE  Framed(w) /\ WorkerHolds(w)' /\ BatchHolds(w)' /\ job'[j].txn = Nobody
<1> DEFINE q == job[j]
<1>1. /\ worker \in [Worker -> TickState] /\ job \in [Job -> JobRow] /\ q \in JobRow
      /\ RowHolds(j) /\ WorkerHolds(w) /\ journal \in [User -> SUBSET Match]
  BY DEF IInv, TypeOK
<1>2. worker[w].job = Nobody
  BY <1>1 DEF WorkerHolds, Serving, TickState
<1>3. /\ worker'[w] \in TickState /\ worker'[w].step = "fetch" /\ worker'[w].job = j
      /\ worker'[w].attempted = q.attempted /\ worker'[w].failed = q.failed
  <2>1. PICK tried \in SUBSET Match, failed \in SUBSET Match :
           tried = q.attempted /\ failed = q.failed
    BY <1>1 DEF JobRow
  <2>2. At("fetch") \in TickState /\ At("fetch").step = "fetch"
    BY DEF At, TickState, TickStep
  <2>3. PICK start \in TickState : start = At("fetch") /\ start.step = "fetch"
    BY <2>2
  <2>4. worker'[w] = [start EXCEPT !.job = j, !.attempts = attempts,
                              !.attempted = tried, !.failed = failed]
    BY <1>1, <2>1, <2>3, Zenon DEF Take
  <2>5. PICK new : new = worker'[w]
    OBVIOUS
  <2>6. /\ new \in TickState /\ new.step = "fetch" /\ new.job = j
        /\ new.attempted = tried /\ new.failed = failed
    BY <2>3, <2>4, <2>5 DEF TickState
  <2> QED
    BY <2>1, <2>5, <2>6
<1>4. worker' \in [Worker -> TickState] /\ \A v \in Worker \ {w} : worker'[v] = worker[v]
  BY <1>1, <1>3 DEF Take
<1>5. Claims(j, w) /\ \A k \in Job \ {j} : job'[k] = job[k]
  BY <1>1, <1>2, <1>3 DEF Claims
<1>6. Framed(w)
  BY <1>1, <1>4, <1>5, BooksSame DEF Framed, Moves
<1>7. /\ job'[j].status = "processing" /\ job'[j].kind = q.kind /\ job'[j].txn = Nobody
      /\ job'[j].user = q.user /\ job'[j].range = q.range
  BY <1>1 DEF Claimed, JobRow, Free
<1>8. WorkerHolds(w)'
  BY <1>3, <1>7 DEF WorkerHolds, Serving
<1>9. ASSUME IsManual(w)'
      PROVE  Visited(worker[w].attempted, worker[w].failed, UserOf(w), RangeOf(w))'
  <2>1. /\ UserOf(w)' = q.user /\ RangeOf(w)' = q.range /\ q.kind = "manual" /\ q.user \in User
    BY <1>1, <1>3, <1>7, <1>9 DEF IsManual, UserOf, RangeOf, RowHolds
  <2>2. Visited(q.attempted, q.failed, q.user, q.range)
    BY <1>1, <2>1 DEF RowHolds
  <2> QED
    BY <1>3, <1>6, <2>1, <2>2 DEF Framed, Books, Visited, Accounted, Settled, DismissedBy
<1>10. BatchHolds(w)'
  BY <1>3, <1>9 DEF BatchHolds
<1> QED
  BY <1>6, <1>7, <1>8, <1>10

\* Steps that touch no account but for its cursor.
LEMMA AccountsKept ==
  ASSUME IInv, user' \in [User -> UserRow], UNCHANGED <<complete, request>>,
         \A u \in User : user'[u].locked = user[u].locked /\ user'[u].cooling = user[u].cooling
  PROVE  AccountsHold'
  BY DEF IInv, TypeOK, AccountsHold, RequestHolds

LEMMA CursorsMove ==
  ASSUME IInv, NEW users, MoveCursors(users)
  PROVE  /\ user' \in [User -> UserRow]
         /\ \A u \in User : user'[u].locked = user[u].locked
                         /\ user'[u].cooling = user[u].cooling
<1>1. user \in [User -> UserRow]
  BY DEF IInv, TypeOK
<1>2. ASSUME NEW u \in User
      PROVE  /\ user'[u] \in UserRow
             /\ user'[u].locked = user[u].locked /\ user'[u].cooling = user[u].cooling
  BY <1>1, <1>2 DEF MoveCursors, UserRow
<1>3. user' = [u \in User |-> user'[u]]
  BY DEF MoveCursors
<1> QED
  BY <1>2, <1>3

-----------------------------------------------------------------------------
(* One lemma per action of a tick *)

LEMMA RecoverScheduledKeeps ==
  ASSUME IInv, NEW w \in Worker, RecoverScheduled(w)
  PROVE  (Framed(w) \/ Framed(Nobody)) /\ IInv'
<1> DEFINE stale == {j \in Job : IsStale(j, "scheduled") /\ Free(j)}
<1>1. /\ job \in [Job -> JobRow] /\ journal \in [User -> SUBSET Match]
      /\ worker \in [Worker -> TickState]
  BY DEF IInv, TypeOK
<1>2. \A j \in stale : job[j].kind = "scheduled" /\ job[j].status = "processing" /\ Free(j)
  BY DEF IsStale
<1>3. AccountsHold'
  BY AccountsKept DEF RecoverScheduled, IInv, TypeOK
<1>4. CASE \E j \in stale : Spent(j)
  <2>1. /\ job' = [j \in Job |-> IF j \in stale THEN [job[j] EXCEPT !.txn = w] ELSE job[j]]
        /\ Goto(w, "recovering") /\ worker[w].step = "idle"
        /\ UNCHANGED <<journal, outside>>
    BY <1>4 DEF RecoverScheduled
  <2>2. \A j \in Job : IF j \in stale THEN Locks(j, w) ELSE job'[j] = job[j]
    BY <1>2, <2>1 DEF Locks
  <2>3. Framed(w)
    BY <1>1, <2>1, <2>2, GotoHolds, BooksSame DEF Framed, Moves
  <2>4. ASSUME NEW j \in Job, job'[j].txn = w  PROVE LockHolds(j)'
    <3>1. j \in stale
      BY <2>1, <2>2, <2>4, NoLocks DEF Locking
    <3>2. job'[j].status = "processing" /\ job'[j].kind = "scheduled"
      BY <1>1, <1>2, <2>1, <3>1 DEF JobRow
    <3>3. worker'[w].step = "recovering"
      BY <2>1, GotoHolds
    <3> QED
      BY <2>4, <3>2, <3>3 DEF LockHolds, Locking
  <2> QED
    BY <1>3, <2>1, <2>3, <2>4, GotoHolds, FrameKeeps
<1>5. CASE ~\E j \in stale : Spent(j)
  <2>1. /\ job' = [j \in Job |-> IF j \in stale THEN Requeued(j) ELSE job[j]]
        /\ UNCHANGED <<worker, journal, outside>>
    BY <1>5 DEF RecoverScheduled
  <2>2. \A j \in Job : IF j \in stale THEN Returns(j, Nobody) ELSE job'[j] = job[j]
    BY <1>2, <2>1 DEF Returns, Free
  <2>3. Framed(Nobody)
    BY <1>1, <2>1, <2>2, NobodyElse, BooksSame DEF Framed, Moves
  <2> QED
    BY <1>3, <2>3, NobodyElse, FrameKeeps
<1> QED
  BY <1>4, <1>5

LEMMA RecoverCommitsKeeps ==
  ASSUME IInv, NEW w \in Worker, RecoverCommits(w)
  PROVE  Framed(w) /\ IInv'
<1>1. /\ job \in [Job -> JobRow] /\ journal \in [User -> SUBSET Match]
  BY DEF IInv, TypeOK
<1>2. /\ worker[w].step = "recovering" /\ Goto(w, "idle")
      /\ job' = [j \in Job |-> IF j \notin LockedBy(w) THEN job[j]
                               ELSE IF Spent(j) THEN Failed(j) ELSE Requeued(j)]
      /\ UNCHANGED <<journal, complete, request, outside>>
  BY DEF RecoverCommits
<1>3. \A j \in LockedBy(w) : job[j].status = "processing" /\ job[j].txn = w
  BY <1>2, NobodyElse DEF IInv, LockHolds, LockedBy
<1>4. \A j \in Job : IF j \in LockedBy(w) THEN Returns(j, w) ELSE job'[j] = job[j]
  BY <1>2, <1>3 DEF Returns
<1>5. Framed(w)
  BY <1>1, <1>2, <1>4, GotoHolds, BooksSame DEF Framed, Moves
<1>6. \A j \in Job : job'[j].txn # w
  <2>1. ASSUME NEW j \in LockedBy(w)  PROVE job'[j].txn = Nobody
    <3>1. j \in Job /\ job[j] \in JobRow
      BY <1>1 DEF LockedBy
    <3>2. Failed(j).txn = Nobody /\ Requeued(j).txn = Nobody
      BY <3>1 DEF Failed, Requeued, JobRow
    <3> QED
      BY <1>2, <3>1, <3>2
  <2> QED
    BY <1>2, <2>1, NobodyElse DEF LockedBy
<1>7. AccountsHold'
  BY <1>2, CursorsMove, AccountsKept DEF RecoverCommits
<1> QED
  BY <1>2, <1>5, <1>6, <1>7, GotoHolds, FrameKeeps

LEMMA ManualRecoversKeeps ==
  ASSUME IInv, NEW w \in Worker, ManualRecovers(w)
  PROVE  Framed(Nobody) /\ IInv'
<1>1. /\ job \in [Job -> JobRow] /\ journal \in [User -> SUBSET Match]
      /\ worker \in [Worker -> TickState]
  BY DEF IInv, TypeOK
<1>2. /\ job' = [j \in Job |-> IF IsStale(j, "manual") THEN RecoverManual(j) ELSE job[j]]
      /\ UNCHANGED <<user, journal, complete, request, worker, outside>>
  BY DEF ManualRecovers
<1>3. \A j \in Job : IsStale(j, "manual") => job[j].status = "processing" /\ job[j].txn = Nobody
  BY DEF IInv, LockHolds, IsStale
<1>4. \A j \in Job : IF IsStale(j, "manual") THEN Returns(j, Nobody) ELSE job'[j] = job[j]
  BY <1>2, <1>3 DEF Returns, RecoverManual
<1>5. Framed(Nobody)
  BY <1>1, <1>2, <1>4, NobodyElse, BooksSame DEF Framed, Moves
<1>6. AccountsHold'
  BY <1>2, AccountsKept DEF IInv, TypeOK
<1> QED
  BY <1>5, <1>6, NobodyElse, FrameKeeps

LEMMA ClaimKeeps ==
  ASSUME IInv, NEW w \in Worker, Claim(w)
  PROVE  Framed(w) /\ IInv'
<1>1. PICK j \in Job, n \in Nat :
         /\ worker[w].step = "idle" /\ job[j].status = "pending" /\ Free(j)
         /\ job' = [job EXCEPT ![j] = Claimed(j, w)] /\ Take(w, j, n)
         /\ UNCHANGED <<user, journal, complete, request, outside>>
  <2>1. CASE ManualClaims(w)
    BY <2>1 DEF ManualClaims, Claimable, IInv, TypeOK, JobRow
  <2>2. CASE ScheduledClaims(w)
    <3>1. PICK j \in Job : /\ worker[w].step = "idle" /\ Claimable(j, "scheduled")
                           /\ job' = [job EXCEPT ![j] = Claimed(j, w)]
                           /\ Take(w, j, job[j].attempts + 1)
                           /\ UNCHANGED <<user, journal, complete, request, outside>>
      BY <2>2 DEF ScheduledClaims
    <3>2. job[j].attempts + 1 \in Nat
      BY DEF IInv, TypeOK, JobRow
    <3> QED
      BY <3>1, <3>2 DEF Claimable
  <2> QED
    BY <2>1, <2>2 DEF Claim
<1>2. Framed(w) /\ WorkerHolds(w)' /\ BatchHolds(w)' /\ job'[j].txn = Nobody
  BY <1>1, TakeHolds
<1>3. \A k \in Job : job'[k].txn # w
  BY <1>1, <1>2, NoLocks, NobodyElse DEF Locking, IInv, TypeOK
<1>4. AccountsHold'
  BY <1>1, AccountsKept DEF IInv, TypeOK
<1> QED
  BY <1>2, <1>3, <1>4, FrameKeeps

\* The job of a tick that serves one.
LEMMA ServedJob ==
  ASSUME IInv, NEW w \in Worker, worker[w].step \in Serving
  PROVE  /\ worker[w].job \in Job /\ worker[w] \in TickState
         /\ job[worker[w].job] \in JobRow
         /\ job[worker[w].job].status \notin {"none", "inserting"}
         /\ UserOf(w) \in User /\ RangeOf(w) \in Range
<1>1. worker[w] \in TickState /\ WorkerHolds(w) /\ job \in [Job -> JobRow]
  BY DEF IInv, TypeOK
<1>2. worker[w].job \in Job /\ job[worker[w].job].status \notin {"none", "inserting"}
  BY <1>1 DEF WorkerHolds
<1>3. job[worker[w].job] \in JobRow /\ RowHolds(worker[w].job)
  BY <1>1, <1>2 DEF IInv
<1>4. RangeOf(w) \in Range
  BY <1>3 DEF RangeOf, JobRow
<1> QED
  BY <1>1, <1>2, <1>3, <1>4 DEF RowHolds, UserOf

\* A step of a tick that leaves every row as it is.
LEMMA RowsStay ==
  ASSUME IInv, NEW w \in Worker, UNCHANGED job, worker[w].step \notin Locking,
         worker' \in [Worker -> TickState],
         \A v \in Worker \ {w} : worker'[v] = worker[v],
         worker'[w].job \in {worker[w].job, Nobody},
         Books, WorkerHolds(w)', BatchHolds(w)', AccountsHold'
  PROVE  Framed(w) /\ IInv'
<1>1. job \in [Job -> JobRow]
  BY DEF IInv, TypeOK
<1>2. Framed(w)
  BY <1>1 DEF Framed, Moves
<1>3. \A j \in Job : job'[j].txn # w
  BY NoLocks
<1> QED
  BY <1>2, <1>3, FrameKeeps

\* A tick that throws and leaves every row as it is.
LEMMA ThrowKeeps ==
  ASSUME IInv, NEW w \in Worker, NEW error \in {"transient", "unexpected"},
         Throw(w, error), worker[w].step \in Serving \ Locking,
         UNCHANGED <<job, user, journal, complete, request, outside>>
  PROVE  Framed(w) /\ IInv'
<1>1. /\ job'[worker[w].job].status \notin {"none", "inserting"}
      /\ job'[worker[w].job].kind = job[worker[w].job].kind /\ worker[w].job \in Job
  BY ServedJob
<1>2. AccountsHold'
  BY AccountsKept DEF IInv, TypeOK
<1>3. /\ worker' \in [Worker -> TickState]
      /\ \A v \in Worker \ {w} : worker'[v] = worker[v]
      /\ worker'[w].job = worker[w].job /\ WorkerHolds(w)' /\ BatchHolds(w)'
  BY <1>1, ThrowHolds
<1> QED
  BY <1>2, <1>3, BooksSame, RowsStay

LEMMA FetchKeeps ==
  ASSUME IInv, NEW w \in Worker, Fetch(w)
  PROVE  Framed(w) /\ IInv'
<1> DEFINE t == worker[w]
<1>1. /\ t.step = "fetch" /\ UNCHANGED <<job, user, journal, complete, request, outside>>
  BY DEF Fetch
<1>2. /\ worker \in [Worker -> TickState] /\ listed \subseteq Match
      /\ WorkerHolds(w) /\ BatchHolds(w)
  BY DEF IInv, TypeOK
<1>3. /\ t.job \in Job /\ t \in TickState /\ job[t.job].status \notin {"none", "inserting"}
  BY <1>1, ServedJob DEF Serving
<1>4. CASE \E error \in {"transient", "unexpected"} : Throw(w, error)
  BY <1>1, <1>4, ThrowKeeps DEF Serving, Locking
<1>5. CASE \E shown \in Listings(w) :
            LET eligible == (shown \ Settled(UserOf(w))) \ t.attempted
            IN \E batch \in SUBSET eligible :
                /\ batch = eligible \/ Cardinality(batch) = BatchSize
                /\ worker' = [worker EXCEPT ![w].step = "import", ![w].todo = batch,
                                            ![w].deferred = batch # eligible]
  <2>0. \A shown \in Listings(w) : shown \subseteq Match
    BY <1>2 DEF Listings
  <2>1. PICK shown \in Listings(w), batch \in SUBSET Match :
          LET eligible == (shown \ Settled(UserOf(w))) \ t.attempted
          IN /\ batch \subseteq eligible
             /\ worker' = [worker EXCEPT ![w].step = "import", ![w].todo = batch,
                                         ![w].deferred = batch # eligible]
    BY <1>5, <2>0
  <2>2. IsManual(w) => Wanted(RangeOf(w)) \cap KnownTo(w) \subseteq shown
    <3>1. KnownTo(w) \subseteq listed
      BY <1>3 DEF IInv, RowHolds, KnownTo
    <3>2. IsManual(w) => Wanted(RangeOf(w)) \cap listed \subseteq shown
      BY DEF Listings
    <3> QED
      BY <3>1, <3>2
  <2>3. PICK left \in BOOLEAN :
          left <=> batch # (shown \ Settled(UserOf(w))) \ t.attempted
    OBVIOUS
  <2>4. worker' = [worker EXCEPT ![w].step = "import", ![w].todo = batch, ![w].deferred = left]
    <3>1. left = (batch # (shown \ Settled(UserOf(w))) \ t.attempted)
      BY <2>3
    <3> QED
      BY <2>1, <3>1, Zenon
  <2>5. batch \in SUBSET Match
    BY <2>1
  <2>6. /\ worker' \in [Worker -> TickState]
        /\ \A v \in Worker \ {w} : worker'[v] = worker[v]
        /\ worker'[w].step = "import" /\ worker'[w].job = t.job
        /\ worker'[w].todo = batch /\ worker'[w].deferred = left
        /\ worker'[w].attempted = t.attempted /\ worker'[w].failed = t.failed
    BY <1>2, <1>3, <2>4, <2>5 DEF TickState, TickStep
  <2>7. WorkerHolds(w)'
    BY <1>1, <1>3, <2>6 DEF WorkerHolds, Serving
  <2>8. BatchHolds(w)'
    <3>1. /\ (IsManual(w)' <=> IsManual(w)) /\ RangeOf(w)' = RangeOf(w)
          /\ UserOf(w)' = UserOf(w) /\ KnownTo(w)' = KnownTo(w)
          /\ Accounted(UserOf(w))' = Accounted(UserOf(w))
      BY <1>1, <2>6 DEF IsManual, RangeOf, UserOf, KnownTo, outside,
         Accounted, Settled, DismissedBy
    <3>2. ASSUME IsManual(w)
          PROVE  Visited(t.attempted, t.failed, UserOf(w), RangeOf(w))
      BY <1>1, <1>2, <3>2 DEF BatchHolds
    <3>3. ASSUME IsManual(w), ~left
          PROVE  Wanted(RangeOf(w)) \cap KnownTo(w)
                    \subseteq Accounted(UserOf(w)) \cup t.attempted \cup batch
      BY <2>2, <2>3, <3>3 DEF Accounted
    <3> QED
      BY <1>1, <2>6, <3>1, <3>2, <3>3 DEF BatchHolds, Visited, Wanted
  <2>9. AccountsHold'
    BY <1>1, AccountsKept DEF IInv, TypeOK
  <2> QED
    BY <1>1, <1>2, <2>6, <2>7, <2>8, <2>9, BooksSame, RowsStay DEF Locking
<1> QED
  BY <1>4, <1>5 DEF Fetch

LEMMA MarkKeeps ==
  ASSUME IInv, NEW w \in Worker, Mark(w)
  PROVE  Framed(w) /\ IInv'
<1> DEFINE t == worker[w]
           r == RangeOf(w)
           u == UserOf(w)
<1>1. /\ t.step = "mark" /\ UNCHANGED <<job, user, journal, request, outside>>
      /\ worker' = [worker EXCEPT ![w].step = "save"]
      /\ complete' = [complete EXCEPT ![u] = IF MayMark(w) THEN @ \cup Marked(r) ELSE @]
  BY DEF Mark, Stay
<1>2. /\ worker \in [Worker -> TickState] /\ journal \in [User -> SUBSET Match]
      /\ complete \in [User -> SUBSET Day] /\ WorkerHolds(w) /\ BatchHolds(w)
  BY DEF IInv, TypeOK
<1>3. /\ t.job \in Job /\ t \in TickState /\ job[t.job].status \notin {"none", "inserting"}
      /\ u \in User /\ r \in Range
  BY <1>1, ServedJob DEF Serving
<1>4. /\ worker' \in [Worker -> TickState]
      /\ \A v \in Worker \ {w} : worker'[v] = worker[v]
      /\ worker'[w] = [t EXCEPT !.step = "save"]
      /\ worker'[w].step = "save" /\ worker'[w].job = t.job
      /\ worker'[w].todo = t.todo /\ worker'[w].deferred = t.deferred
      /\ worker'[w].attempted = t.attempted /\ worker'[w].failed = t.failed
  BY <1>1, <1>2, <1>3 DEF TickState, TickStep
<1>5. /\ IsManual(w) /\ (IsManual(w)' <=> IsManual(w))
      /\ RangeOf(w)' = r /\ UserOf(w)' = u /\ KnownTo(w)' = KnownTo(w)
      /\ Accounted(UserOf(w))' = Accounted(u)
  BY <1>1, <1>2, <1>4 DEF WorkerHolds, IsManual, RangeOf, UserOf, KnownTo, outside,
     Accounted, Settled, DismissedBy
<1>6. WorkerHolds(w)' /\ BatchHolds(w)'
  BY <1>1, <1>2, <1>3, <1>4, <1>5 DEF WorkerHolds, BatchHolds, Serving, Visited, Wanted
<1>7. complete' \in [User -> SUBSET Day]
  BY <1>1, <1>2, <1>3 DEF Marked, DaysOf
<1>8. AccountsHold'
  BY <1>1, <1>7 DEF AccountsHold, IInv, TypeOK, RequestHolds
<1> QED
  BY <1>1, <1>2, <1>4, <1>6, <1>8, BooksSame, RowsStay DEF Locking

\* A tick marks the days of its range only when each of their matches that was
\* listed when the range was asked for is accounted for.
LEMMA MarkedIsAccounted ==
  ASSUME IInv, NEW w \in Worker, Mark(w),
         NEW u \in User, NEW d \in complete'[u] \ complete[u]
  PROVE  /\ worker[w].step = "mark" /\ worker'[w].step = "save"
         /\ UserOf(w) = u /\ d \in DaysOf(RangeOf(w))
         /\ \A m \in KnownTo(w) : DayOf[m] = d => m \in Accounted(u)
<1> DEFINE r == RangeOf(w)
<1>1. /\ worker[w].step = "mark" /\ worker' = [worker EXCEPT ![w].step = "save"]
      /\ complete' = [complete EXCEPT ![UserOf(w)] =
                        IF MayMark(w) THEN @ \cup Marked(r) ELSE @]
  BY DEF Mark, Stay
<1>2. /\ worker[w] \in TickState /\ worker \in [Worker -> TickState]
      /\ complete \in [User -> SUBSET Day] /\ WorkerHolds(w) /\ BatchHolds(w)
  BY DEF IInv, TypeOK
<1>3. UserOf(w) \in User /\ KnownTo(w) \subseteq Match /\ IsManual(w)
  BY <1>1, <1>2, ServedJob DEF Serving, KnownTo, JobRow, WorkerHolds
<1>4. UserOf(w) = u /\ MayMark(w) /\ d \in DaysOf(r)
  BY <1>1, <1>2, <1>3 DEF Marked
<1>5. Wanted(r) \cap KnownTo(w) \subseteq Accounted(u)
  BY <1>1, <1>2, <1>3, <1>4 DEF MayMark, BatchHolds, Visited
<1>6. \A m \in KnownTo(w) : DayOf[m] = d => m \in Wanted(r)
  BY <1>3, <1>4 DEF MayMark, Wanted
<1>7. worker'[w].step = "save"
  BY <1>1, <1>2 DEF TickState
<1> QED
  BY <1>1, <1>4, <1>5, <1>6, <1>7

\* One match of the batch has been tried.
LEMMA TriedKeeps ==
  ASSUME IInv, NEW w \in Worker, NEW m \in worker[w].todo, NEW failed \in SUBSET Match,
         worker[w].step = "import", UNCHANGED <<job, user, complete, request>>, Books,
         worker[w].failed \subseteq failed,
         worker' = [worker EXCEPT ![w] = [worker[w] EXCEPT
                        !.todo = @ \ {m}, !.attempted = @ \cup {m}, !.failed = failed]],
         \/ m \in Accounted(UserOf(w))' \/ m \in failed
         \/ IsManual(w) => ~RangeOf(w).all /\ m \in OtherMode
  PROVE  Framed(w) /\ IInv'
<1> DEFINE t == worker[w]
           u == UserOf(w)
           r == RangeOf(w)
<1>1. /\ worker \in [Worker -> TickState] /\ WorkerHolds(w) /\ BatchHolds(w)
  BY DEF IInv, TypeOK
<1>2. /\ t.job \in Job /\ t \in TickState /\ job[t.job].status \notin {"none", "inserting"}
      /\ u \in User /\ r \in Range
  BY ServedJob DEF Serving
<1>3. /\ worker' \in [Worker -> TickState] /\ \A v \in Worker \ {w} : worker'[v] = worker[v]
      /\ worker'[w].step = "import" /\ worker'[w].job = t.job
      /\ worker'[w].todo = t.todo \ {m} /\ worker'[w].deferred = t.deferred
      /\ worker'[w].attempted = t.attempted \cup {m} /\ worker'[w].failed = failed
  <2>1. PICK todo \in SUBSET Match, attempted \in SUBSET Match :
           todo = t.todo \ {m} /\ attempted = t.attempted \cup {m}
    BY <1>2 DEF TickState
  <2>2. worker'[w] = [t EXCEPT !.todo = todo, !.attempted = attempted, !.failed = failed]
    BY <1>1, <2>1
  <2>3. PICK old \in TickState : old = t
    BY <1>2
  <2>4. PICK new : new = worker'[w]
    OBVIOUS
  <2>5. new = [old EXCEPT !.todo = todo, !.attempted = attempted, !.failed = failed]
    BY <2>2, <2>3, <2>4, Zenon
  <2>6. /\ new \in TickState /\ new.step = old.step /\ new.job = old.job
        /\ new.todo = todo /\ new.deferred = old.deferred
        /\ new.attempted = attempted /\ new.failed = failed
    BY <2>5 DEF TickState
  <2>7. /\ worker' = [worker EXCEPT ![w] = new]
    BY <1>1, <2>4, Zenon
  <2> QED
    BY <1>1, <2>1, <2>3, <2>4, <2>6, <2>7
<1>4. WorkerHolds(w)'
  BY <1>2, <1>3 DEF WorkerHolds, Serving
<1>5. BatchHolds(w)'
  <2>1. /\ (IsManual(w)' <=> IsManual(w)) /\ RangeOf(w)' = r /\ UserOf(w)' = u
        /\ KnownTo(w)' = KnownTo(w)
    BY <1>3 DEF IsManual, RangeOf, UserOf, KnownTo
  <2>2. SUFFICES ASSUME IsManual(w)
                 PROVE  /\ Visited(t.attempted \cup {m}, failed, u, r)'
                        /\ ~t.deferred => Wanted(r) \cap KnownTo(w) \subseteq
                              Accounted(u)' \cup (t.attempted \cup {m}) \cup (t.todo \ {m})
    BY <1>3, <2>1 DEF BatchHolds, Visited, Accounted, Settled, DismissedBy, Wanted
  <2>3. Accounted(u) \subseteq Accounted(u)'
    BY <1>2, <2>1 DEF Books, Accounted, Settled, DismissedBy
  <2>4. /\ Visited(t.attempted, t.failed, u, r)
        /\ ~t.deferred => Wanted(r) \cap KnownTo(w)
                              \subseteq Accounted(u) \cup t.attempted \cup t.todo
    BY <1>1, <2>2 DEF BatchHolds
  <2>5. Visited(t.attempted \cup {m}, failed, u, r)'
    BY <2>1, <2>2, <2>3, <2>4 DEF Visited, Accounted, Settled, DismissedBy
  <2> QED
    BY <2>3, <2>4, <2>5
<1>6. AccountsHold'
  BY AccountsKept DEF IInv, TypeOK
<1> QED
  BY <1>3, <1>4, <1>5, <1>6, RowsStay DEF Locking

LEMMA ImportKeeps ==
  ASSUME IInv, NEW w \in Worker, Import(w)
  PROVE  Framed(w) /\ IInv'
<1> DEFINE t == worker[w]
           u == UserOf(w)
           r == RangeOf(w)
           Skipped(m) == IsManual(w) /\ ~r.all /\ m \in OtherMode
<1>1. /\ t.step = "import" /\ UNCHANGED <<job, user, complete, request, outside>>
  BY DEF Import
<1>2. /\ worker \in [Worker -> TickState] /\ journal \in [User -> SUBSET Match]
      /\ WorkerHolds(w) /\ BatchHolds(w)
  BY DEF IInv, TypeOK
<1>3. /\ t.job \in Job /\ t \in TickState /\ job[t.job].status \notin {"none", "inserting"}
      /\ u \in User /\ r \in Range
  BY <1>1, ServedJob DEF Serving
<1>4. t.todo \subseteq Match /\ t.failed \in SUBSET Match
  BY <1>3 DEF TickState
<1>5. ASSUME NEW m \in t.todo,
             worker' = [worker EXCEPT ![w] =
                [t EXCEPT !.todo = @ \ {m}, !.attempted = @ \cup {m}]],
             journal' = [journal EXCEPT ![u] =
                IF Skipped(m) \/ m \in DismissedBy(u) THEN @ ELSE @ \cup {m}]
      PROVE  Framed(w) /\ IInv'
  <2>1. /\ journal' \in [User -> SUBSET Match]
        /\ \A v \in User : journal[v] \subseteq journal'[v]
        /\ Books
    BY <1>1, <1>2, <1>3, <1>4, <1>5, BooksGrow
  <2>2. Skipped(m) \/ m \in Accounted(u)'
    <3>1. UserOf(w)' = u
      BY <1>1, <1>2, <1>3, <1>5 DEF UserOf, TickState
    <3>2. Skipped(m) \/ m \in journal'[u] \/ m \in DismissedBy(u)
      BY <1>2, <1>3, <1>5
    <3> QED
      BY <1>1, <3>1, <3>2 DEF outside, Accounted, Settled, DismissedBy
  <2>3. worker' = [worker EXCEPT ![w] =
            [t EXCEPT !.todo = @ \ {m}, !.attempted = @ \cup {m}, !.failed = t.failed]]
    <3>1. PICK old, todo, attempted, failed :
             /\ old \in TickState /\ old = t /\ failed = t.failed
             /\ todo = t.todo \ {m} /\ attempted = t.attempted \cup {m}
      BY <1>3
    <3>2. [old EXCEPT !.todo = todo, !.attempted = attempted, !.failed = failed]
            = [old EXCEPT !.todo = todo, !.attempted = attempted]
      BY <3>1 DEF TickState
    <3> QED
      BY <1>5, <3>1, <3>2, Zenon
  <2> QED
    BY <1>1, <1>4, <2>1, <2>2, <2>3, TriedKeeps
<1>6. ASSUME NEW m \in t.todo, UNCHANGED journal,
             worker' = [worker EXCEPT ![w] =
                [[t EXCEPT !.todo = @ \ {m}, !.attempted = @ \cup {m}]
                    EXCEPT !.failed = @ \cup {m}]]
      PROVE  Framed(w) /\ IInv'
  <2> PICK failed \in SUBSET Match : failed = t.failed \cup {m}
    BY <1>4
  <2>1. worker' = [worker EXCEPT ![w] =
            [t EXCEPT !.todo = @ \ {m}, !.attempted = @ \cup {m}, !.failed = failed]]
    <3>1. PICK old, todo, attempted, new :
             /\ old \in TickState /\ old = t /\ new = failed
             /\ todo = t.todo \ {m} /\ attempted = t.attempted \cup {m}
      BY <1>3
    <3>2. [old EXCEPT !.todo = todo, !.attempted = attempted].failed = t.failed
      BY <3>1 DEF TickState
    <3>3. worker' = [worker EXCEPT ![w] =
            [[old EXCEPT !.todo = todo, !.attempted = attempted] EXCEPT !.failed = new]]
      BY <1>6, <3>1, <3>2, Zenon
    <3> QED
      BY <3>1, <3>3, Zenon
  <2> QED
    <3>1. m \in failed /\ t.failed \subseteq failed
      OBVIOUS
    <3>2. Books
      BY <1>1, <1>6, BooksSame
    <3> QED
      BY <1>1, <2>1, <3>1, <3>2, TriedKeeps
<1>7. ASSUME NEW error \in {"transient", "unexpected"}, Throw(w, error), UNCHANGED journal
      PROVE  Framed(w) /\ IInv'
  BY <1>1, <1>7, ThrowKeeps DEF Serving, Locking
<1>8. ASSUME t.todo = {}, UNCHANGED journal,
             IF IsManual(w)
             THEN Stay(w, "mark")
             ELSE worker' = [worker EXCEPT ![w] = [Attempt(w) EXCEPT !.step = "finish"]]
      PROVE  Framed(w) /\ IInv'
  <2>1. AccountsHold'
    BY <1>1, <1>8, AccountsKept DEF IInv, TypeOK
  <2>2. CASE IsManual(w)
    <3>1. /\ worker' \in [Worker -> TickState]
          /\ \A v \in Worker \ {w} : worker'[v] = worker[v]
          /\ worker'[w].step = "mark" /\ worker'[w].job = t.job
          /\ worker'[w].todo = t.todo /\ worker'[w].deferred = t.deferred
          /\ worker'[w].attempted = t.attempted /\ worker'[w].failed = t.failed
      BY <1>2, <1>3, <1>8, <2>2 DEF Stay, TickState, TickStep
    <3>2. /\ IsManual(w)' /\ RangeOf(w)' = r /\ UserOf(w)' = u /\ KnownTo(w)' = KnownTo(w)
          /\ Accounted(UserOf(w))' = Accounted(u)
      BY <1>1, <1>8, <2>2, <3>1 DEF IsManual, RangeOf, UserOf, KnownTo, outside,
         Accounted, Settled, DismissedBy
    <3>3. WorkerHolds(w)' /\ BatchHolds(w)'
      BY <1>1, <1>2, <1>3, <1>8, <2>2, <3>1, <3>2
         DEF WorkerHolds, BatchHolds, Serving, Visited, Wanted
    <3> QED
      BY <1>1, <1>2, <1>8, <2>1, <3>1, <3>3, BooksSame, RowsStay DEF Locking
  <2>3. CASE ~IsManual(w)
    <3>1. /\ worker'[w] \in TickState /\ worker'[w].step = "finish"
          /\ worker'[w].job = t.job
      <4>1. At("idle") \in TickState
        BY DEF At, TickState, TickStep
      <4>2. PICK start \in TickState, k \in Job \cup {Nobody}, n \in Nat :
               start = At("idle") /\ k = t.job /\ n = t.attempts
        BY <1>3, <4>1 DEF TickState
      <4>3. worker'[w] = [[start EXCEPT !.job = k, !.attempts = n] EXCEPT !.step = "finish"]
        BY <1>2, <1>8, <2>3, <4>2, Zenon DEF Attempt
      <4>4. PICK new : new = worker'[w]
        OBVIOUS
      <4>5. new \in TickState /\ new.step = "finish" /\ new.job = k
        BY <4>3, <4>4 DEF TickState, TickStep
      <4> QED
        BY <4>2, <4>4, <4>5
    <3>2. /\ worker' \in [Worker -> TickState]
          /\ \A v \in Worker \ {w} : worker'[v] = worker[v]
      BY <1>2, <1>8, <2>3, <3>1
    <3>3. WorkerHolds(w)' /\ BatchHolds(w)'
      BY <1>1, <1>3, <2>3, <3>1 DEF WorkerHolds, BatchHolds, Serving, IsManual
    <3> QED
      BY <1>1, <1>2, <1>8, <2>1, <3>1, <3>2, <3>3, BooksSame, RowsStay DEF Locking
  <2> QED
    BY <2>2, <2>3
<1> QED
  BY <1>5, <1>6, <1>7, <1>8 DEF Import

\* A tick that is done with its job, whose row it may have moved.
LEMMA OwnRowMoves ==
  ASSUME IInv, NEW w \in Worker, worker[w].step \in Serving,
         job' = job \/ \E row : job' = [job EXCEPT ![worker[w].job] = row],
         Moves(worker[w].job, w), job'[worker[w].job].txn # w,
         Goto(w, "idle"), UNCHANGED <<journal, outside>>, AccountsHold'
  PROVE  Framed(w) /\ IInv'
<1> DEFINE k == worker[w].job
<1>1. /\ job \in [Job -> JobRow] /\ journal \in [User -> SUBSET Match] /\ k \in Job
  BY ServedJob DEF IInv, TypeOK
<1>2. /\ job' = [j \in Job |-> job'[j]]
      /\ \A j \in Job \ {k} : job'[j] = job[j]
  BY <1>1
<1>3. \A j \in Job : Moves(j, w)
  BY <1>2 DEF Moves
<1>4. Framed(w)
  BY <1>1, <1>2, <1>3, GotoHolds, BooksSame DEF Framed
<1>5. \A j \in Job \ {k} : job[j].txn # w
  BY NobodyElse DEF IInv, LockHolds, Locking, Serving
<1>6. \A j \in Job : job'[j].txn # w
  BY <1>2, <1>5
<1> QED
  BY <1>4, <1>6, GotoHolds, FrameKeeps

LEMMA SaveKeeps ==
  ASSUME IInv, NEW w \in Worker, Save(w)
  PROVE  Framed(w) /\ IInv'
<1> DEFINE k == worker[w].job
<1>1. worker[w].step = "save" /\ UNCHANGED <<user, journal, complete, request, outside>>
  BY DEF Save
<1>2. /\ k \in Job /\ job \in [Job -> JobRow] /\ job[k] \in JobRow
  BY <1>1, ServedJob DEF Serving, IInv, TypeOK
<1>3. CASE HasLease(w)
  <2>1. job' = [job EXCEPT ![k] = Saved(w)] /\ Goto(w, "idle")
    BY <1>3 DEF Save
  <2>2. job'[k] = Saved(w)
    BY <1>2, <2>1
  <2>3. Moves(k, w)
    BY <1>1, <1>3, <2>1, <2>2, GotoHolds DEF Moves, Saves
  <2>4. job'[k].txn # w
    <3>1. job[k].txn # w
      BY <1>1, <1>2, NoLocks DEF Locking
    <3>2. \E row, s, a, f :
             /\ row \in JobRow /\ row = job[k]
             /\ Saved(w) = [row EXCEPT !.status = s, !.lockedAt = Nobody,
                !.stale = FALSE, !.attempts = 0, !.attempted = a, !.failed = f]
      BY <1>2, Zenon DEF Saved
    <3>3. Saved(w).txn = job[k].txn
      BY <3>2 DEF JobRow
    <3> QED
      BY <2>2, <3>1, <3>3
  <2>5. AccountsHold'
    BY <1>1, AccountsKept DEF IInv, TypeOK
  <2> QED
    BY <1>1, <2>1, <2>3, <2>4, <2>5, OwnRowMoves DEF Serving
<1>4. CASE ~HasLease(w)
  <2>1. UNCHANGED job /\ Throw(w, "unexpected")
    BY <1>4 DEF Save
  <2> QED
    BY <1>1, <2>1, ThrowKeeps DEF Serving, Locking
<1> QED
  BY <1>3, <1>4

LEMMA CatchKeeps ==
  ASSUME IInv, NEW w \in Worker, Catch(w)
  PROVE  Framed(w) /\ IInv'
<1> DEFINE k == worker[w].job
<1>1. /\ worker[w].step = "catch" /\ UNCHANGED <<user, journal, complete, request, outside>>
      /\ Goto(w, "idle")
  BY DEF Catch
<1>2. /\ k \in Job /\ job \in [Job -> JobRow] /\ job[k] \in JobRow
  BY <1>1, ServedJob DEF Serving, IInv, TypeOK
<1>3. job[k].txn # w
  BY <1>1, <1>2, NoLocks DEF Locking
<1>4. AccountsHold'
  BY <1>1, AccountsKept DEF IInv, TypeOK
<1>5. CASE HasLease(w)
  <2>1. PICK row : row \in {Requeued(k), Failed(k)} /\ job' = [job EXCEPT ![k] = row]
    BY <1>5 DEF Catch
  <2>2. job'[k] = row
    BY <1>2, <2>1
  <2>3. row.txn = Nobody
    BY <1>2, <2>1 DEF Requeued, Failed, JobRow
  <2>4. job[k].txn = Nobody /\ job[k].status = "processing"
    <3>1. IsManual(w) /\ LockHolds(k)
      BY <1>1, <1>2 DEF IInv, WorkerHolds
    <3> QED
      BY <1>5, <3>1 DEF LockHolds, IsManual, HasLease
  <2>5. Moves(k, w)
    BY <2>1, <2>2, <2>4 DEF Moves, Returns
  <2> QED
    BY <1>1, <1>4, <2>1, <2>2, <2>3, <2>5, NobodyElse, OwnRowMoves DEF Serving
<1>6. CASE ~HasLease(w)
  <2>1. job' = job
    BY <1>6 DEF Catch
  <2> QED
    BY <1>1, <1>3, <1>4, <2>1, OwnRowMoves DEF Serving, Moves
<1> QED
  BY <1>5, <1>6

LEMMA EnqueueInsertsKeeps ==
  ASSUME IInv, NEW w \in Worker, EnqueueInserts(w)
  PROVE  Framed(w) /\ IInv'
<1>1. /\ worker[w].step = "idle" /\ Goto(w, "enqueuing")
      /\ UNCHANGED <<user, journal, complete, request, outside>>
  BY DEF EnqueueInserts
<1>2. /\ job \in [Job -> JobRow] /\ listed \subseteq Match
  BY DEF IInv, TypeOK
<1>3. PICK users, rows :
         /\ users \subseteq User
         /\ rows \in [users -> {j \in Job : Unused(j)}]
         /\ job' = [j \in Job |->
                    IF \E u \in users : rows[u] = j
                    THEN NewJob("scheduled", CHOOSE u \in users : rows[u] = j,
                                AnyRange, "inserting", w)
                    ELSE job[j]]
  BY DEF EnqueueInserts
<1>4. ASSUME NEW j \in Job, NEW u \in users, rows[u] = j
      PROVE  /\ Inserts(j, w)
             /\ job'[j].kind = "scheduled" /\ job'[j].status = "inserting"
  <2>1. Unused(j)
    BY <1>3, <1>4
  <2>2. PICK v \in User : job'[j] = NewJob("scheduled", v, AnyRange, "inserting", w)
    <3>1. (CHOOSE v \in users : rows[v] = j) \in User
      BY <1>3, <1>4
    <3> QED
      BY <1>3, <1>4, <3>1
  <2>3. "inserting" \in RowStatus
    BY DEF RowStatus
  <2> QED
    BY <1>2, <2>1, <2>2, <2>3, NewJobRow, RangeThere DEF Inserts
<1>5. \A j \in Job : (~\E u \in users : rows[u] = j) => job'[j] = job[j]
  BY <1>3
<1>6. Framed(w)
  BY <1>1, <1>2, <1>3, <1>4, <1>5, GotoHolds, BooksSame DEF Framed, Moves
<1>7. ASSUME NEW j \in Job, job'[j].txn = w  PROVE LockHolds(j)'
  <2>1. \E u \in users : rows[u] = j
    BY <1>1, <1>5, <1>7, NoLocks DEF Locking
  <2>2. job'[j].kind = "scheduled" /\ job'[j].status = "inserting"
    BY <1>4, <2>1
  <2>3. worker'[w].step = "enqueuing"
    BY <1>1, GotoHolds
  <2> QED
    BY <1>7, <2>2, <2>3 DEF LockHolds, Locking
<1>8. AccountsHold'
  BY <1>1, AccountsKept DEF IInv, TypeOK
<1> QED
  BY <1>1, <1>6, <1>7, <1>8, GotoHolds, FrameKeeps

LEMMA EnqueueCommitsKeeps ==
  ASSUME IInv, NEW w \in Worker, EnqueueCommits(w)
  PROVE  Framed(w) /\ IInv'
<1>1. /\ worker[w].step = "enqueuing" /\ Goto(w, "idle")
      /\ job' = [j \in Job |-> IF j \in LockedBy(w)
                               THEN [job[j] EXCEPT !.status = "pending", !.txn = Nobody]
                               ELSE job[j]]
      /\ UNCHANGED <<user, journal, complete, request, outside>>
  BY DEF EnqueueCommits
<1>2. /\ job \in [Job -> JobRow] /\ journal \in [User -> SUBSET Match]
  BY DEF IInv, TypeOK
<1>3. \A j \in LockedBy(w) : j \in Job /\ job[j].status = "inserting" /\ job[j].txn = w
  BY <1>1, NobodyElse DEF IInv, LockHolds, LockedBy
<1>4. \A j \in Job : IF j \in LockedBy(w) THEN Commits(j, w) ELSE job'[j] = job[j]
  BY <1>1, <1>3 DEF Commits
<1>5. Framed(w)
  BY <1>1, <1>2, <1>4, GotoHolds, BooksSame DEF Framed, Moves
<1>6. \A j \in Job : job'[j].txn # w
  <2>1. ASSUME NEW j \in LockedBy(w)  PROVE job'[j].txn = Nobody
    BY <1>1, <1>2, <1>3 DEF JobRow
  <2> QED
    BY <1>4, <2>1, NobodyElse DEF LockedBy
<1>7. AccountsHold'
  BY <1>1, AccountsKept DEF IInv, TypeOK
<1> QED
  BY <1>1, <1>5, <1>6, <1>7, GotoHolds, FrameKeeps

LEMMA LockRowKeeps ==
  ASSUME IInv, NEW w \in Worker, NEW step \in {"finishing", "failing"},
         worker[w].step \in {"finish", "fail"}, Free(worker[w].job), HasLease(w),
         LockRow(w, step), UNCHANGED <<user, journal, complete, request, outside>>
  PROVE  Framed(w) /\ IInv'
<1> DEFINE k == worker[w].job
<1>1. /\ k \in Job /\ job \in [Job -> JobRow] /\ job[k] \in JobRow
      /\ journal \in [User -> SUBSET Match] /\ worker \in [Worker -> TickState]
      /\ worker[w] \in TickState /\ WorkerHolds(w)
  BY ServedJob DEF Serving, IInv, TypeOK
<1>2. job[k].status = "processing" /\ job[k].lockedAt = w /\ job[k].kind = "scheduled"
  BY <1>1 DEF HasLease, WorkerHolds, IsManual, JobRow
<1>3. /\ job' = [job EXCEPT ![k].txn = w]
      /\ worker' = [worker EXCEPT ![w].step = step]
  BY DEF LockRow, Stay
<1>4. /\ job'[k] = [job[k] EXCEPT !.txn = w] /\ job'[k].txn = w
      /\ job'[k].status = "processing" /\ job'[k].kind = "scheduled"
      /\ job'[k].lockedAt = w /\ \A j \in Job \ {k} : job'[j] = job[j]
  BY <1>1, <1>2, <1>3 DEF JobRow
<1>5. /\ worker' \in [Worker -> TickState]
      /\ \A v \in Worker \ {w} : worker'[v] = worker[v]
      /\ worker'[w].step = step /\ worker'[w].job = k
  BY <1>1, <1>3 DEF TickState, TickStep
<1>6. Locks(k, w)
  BY <1>2, <1>4 DEF Locks
<1>7. Framed(w)
  BY <1>1, <1>3, <1>4, <1>5, <1>6, BooksSame DEF Framed, Moves
<1>8. WorkerHolds(w)' /\ BatchHolds(w)'
  BY <1>1, <1>4, <1>5 DEF WorkerHolds, BatchHolds, Serving, IsManual, HasLease
<1>9. ASSUME NEW j \in Job, job'[j].txn = w  PROVE LockHolds(j)'
  <2>1. j = k
    BY <1>4, <1>9, NoLocks DEF Locking
  <2> QED
    BY <1>4, <1>5, <2>1 DEF LockHolds, Locking
<1>10. AccountsHold'
  BY AccountsKept DEF IInv, TypeOK
<1> QED
  BY <1>7, <1>8, <1>9, <1>10, FrameKeeps

LEMMA FinishRowKeeps ==
  ASSUME IInv, NEW w \in Worker, FinishRow(w)
  PROVE  Framed(w) /\ IInv'
<1>1. /\ worker[w].step = "finish" /\ Free(worker[w].job)
      /\ UNCHANGED <<user, journal, complete, request, outside>>
  BY DEF FinishRow
<1>2. CASE HasLease(w)
  BY <1>1, <1>2, LockRowKeeps DEF FinishRow
<1>3. CASE ~HasLease(w)
  BY <1>1, <1>3, ThrowKeeps DEF FinishRow, Serving, Locking
<1> QED
  BY <1>2, <1>3

LEMMA FailRowKeeps ==
  ASSUME IInv, NEW w \in Worker, FailRow(w)
  PROVE  Framed(w) /\ IInv'
<1> DEFINE k == worker[w].job
<1>1. /\ worker[w].step = "fail" /\ Free(k)
      /\ UNCHANGED <<user, journal, complete, request, outside>>
  BY DEF FailRow
<1>2. /\ k \in Job /\ job \in [Job -> JobRow] /\ job[k] \in JobRow
  BY <1>1, ServedJob DEF Serving, IInv, TypeOK
<1>3. AccountsHold'
  BY <1>1, AccountsKept DEF IInv, TypeOK
<1>4. CASE ~HasLease(w)
  <2>1. UNCHANGED job /\ Goto(w, "idle")
    BY <1>4 DEF FailRow
  <2> QED
    BY <1>1, <1>2, <1>3, <2>1, NoLocks, OwnRowMoves DEF Serving, Locking, Moves
<1>5. CASE HasLease(w) /\ worker[w].attempts >= MaxAttempts
  <2>1. LockRow(w, "failing")
    BY <1>5 DEF FailRow
  <2> QED
    BY <1>1, <1>5, <2>1, LockRowKeeps
<1>6. CASE HasLease(w) /\ ~(worker[w].attempts >= MaxAttempts)
  <2>1. job' = [job EXCEPT ![k] = Requeued(k)] /\ Goto(w, "idle")
    BY <1>6 DEF FailRow
  <2>2. job'[k] = Requeued(k)
    BY <1>2, <2>1
  <2>3. job'[k].txn = Nobody
    BY <1>2, <2>2 DEF Requeued, JobRow
  <2>4. Moves(k, w)
    BY <1>1, <1>6, <2>2 DEF Moves, Returns, HasLease, Free
  <2> QED
    BY <1>1, <1>3, <2>1, <2>3, <2>4, NobodyElse, OwnRowMoves DEF Serving
<1> QED
  BY <1>4, <1>5, <1>6

\* The second statement of a refresh that ends.
LEMMA EndingTick ==
  ASSUME IInv, NEW w \in Worker, worker[w].step \in {"finishing", "failing"}
  PROVE  /\ worker[w].job \in Job /\ job[worker[w].job] \in JobRow /\ HasLease(w)
         /\ job[worker[w].job].status = "processing" /\ job[worker[w].job].txn = w
         /\ job[worker[w].job].kind = "scheduled"
<1>1. WorkerHolds(w) /\ worker[w].job \in Job /\ job[worker[w].job] \in JobRow
  BY ServedJob DEF IInv, Serving
<1> QED
  BY <1>1 DEF WorkerHolds, IsManual, HasLease, JobRow

LEMMA FinishCommitsKeeps ==
  ASSUME IInv, NEW w \in Worker, FinishCommits(w)
  PROVE  Framed(w) /\ IInv'
<1> DEFINE k == worker[w].job
<1>1. /\ worker[w].step = "finishing" /\ MoveCursors({UserOf(w)}) /\ Goto(w, "idle")
      /\ job' = [job EXCEPT ![k] = [@ EXCEPT !.status = "completed", !.lockedAt = Nobody,
                                             !.stale = FALSE, !.txn = Nobody]]
      /\ UNCHANGED <<journal, complete, request, outside>>
  BY DEF FinishCommits
<1>2. job \in [Job -> JobRow]
  BY DEF IInv, TypeOK
<1>3. /\ k \in Job /\ job[k] \in JobRow /\ HasLease(w) /\ job[k].status = "processing"
      /\ job[k].txn = w /\ job[k].kind = "scheduled"
  BY <1>1, EndingTick
<1>4. /\ job'[k] = [job[k] EXCEPT !.status = "completed", !.lockedAt = Nobody,
                                  !.stale = FALSE, !.txn = Nobody]
      /\ job'[k].txn = Nobody
  BY <1>1, <1>2, <1>3 DEF JobRow
<1>5. Moves(k, w)
  BY <1>1, <1>3, <1>4, GotoHolds DEF Moves, Completes
<1>6. AccountsHold'
  BY <1>1, CursorsMove, AccountsKept
<1> QED
  BY <1>1, <1>4, <1>5, <1>6, NobodyElse, OwnRowMoves DEF Serving

LEMMA FailCommitsKeeps ==
  ASSUME IInv, NEW w \in Worker, FailCommits(w)
  PROVE  Framed(w) /\ IInv'
<1> DEFINE k == worker[w].job
<1>1. /\ worker[w].step = "failing" /\ MoveCursors({UserOf(w)}) /\ Goto(w, "idle")
      /\ job' = [job EXCEPT ![k] = Failed(k)]
      /\ UNCHANGED <<journal, complete, request, outside>>
  BY DEF FailCommits
<1>2. job \in [Job -> JobRow]
  BY DEF IInv, TypeOK
<1>3. k \in Job /\ job[k] \in JobRow /\ job[k].status = "processing" /\ job[k].txn = w
  BY <1>1, EndingTick
<1>4. job'[k] = Failed(k)
  BY <1>1, <1>2, <1>3
<1>5. job'[k].txn = Nobody
  BY <1>3, <1>4 DEF Failed, JobRow
<1>6. Moves(k, w)
  BY <1>3, <1>4 DEF Moves, Returns
<1>7. AccountsHold'
  BY <1>1, CursorsMove, AccountsKept
<1> QED
  BY <1>1, <1>5, <1>6, <1>7, NobodyElse, OwnRowMoves DEF Serving

\* Whoever rolls back lets go of its rows.
LEMMA RollbackKeeps ==
  ASSUME IInv, NEW w \in Worker, job' = RolledBack(w),
         worker' \in [Worker -> TickState],
         \A v \in Worker \ {w} : worker'[v] = worker[v],
         worker'[w].job \in {worker[w].job, Nobody}, WorkerHolds(w)', BatchHolds(w)',
         UNCHANGED <<user, journal, complete, request, outside>>
  PROVE  Framed(w) /\ IInv'
<1>1. job \in [Job -> JobRow] /\ journal \in [User -> SUBSET Match]
  BY DEF IInv, TypeOK
<1>2. ASSUME NEW j \in Job
      PROVE  IF job[j].txn = w THEN Unlocks(j, w) ELSE job'[j] = job[j]
  BY DEF RolledBack, Unlocks
<1>3. Framed(w)
  BY <1>1, <1>2, BooksSame DEF Framed, Moves, RolledBack
<1>4. ASSUME NEW j \in Job  PROVE job'[j].txn # w
  <2>1. NoJob.txn = Nobody
    BY DEF NoJob
  <2>2. [job[j] EXCEPT !.txn = Nobody].txn = Nobody
    BY <1>1 DEF JobRow
  <2> QED
    BY <1>2, <2>1, <2>2, NobodyElse DEF Unlocks
<1>5. AccountsHold'
  BY AccountsKept DEF IInv, TypeOK
<1> QED
  BY <1>3, <1>4, <1>5, FrameKeeps

LEMMA CrashKeeps ==
  ASSUME IInv, NEW w \in Worker, Crash(w)
  PROVE  Framed(w) /\ IInv'
  BY GotoHolds, RollbackKeeps DEF Crash

LEMMA DeadlockVictimKeeps ==
  ASSUME IInv, NEW w \in Worker, DeadlockVictim(w)
  PROVE  Framed(w) /\ IInv'
<1>1. job' = RolledBack(w) /\ UNCHANGED <<user, journal, complete, request, outside>>
  BY DEF DeadlockVictim
<1>2. CASE worker[w].step = "finishing"
  <2> DEFINE k == worker[w].job
  <2>1. Throw(w, "unexpected")
    BY <1>2 DEF DeadlockVictim
  <2>2. k \in Job /\ job[k] \in JobRow /\ job[k].status = "processing" /\ job[k].txn = w
    BY <1>2, EndingTick
  <2>3. job'[k] = [job[k] EXCEPT !.txn = Nobody]
    BY <1>1, <2>2 DEF RolledBack
  <2>4. job'[k].status = "processing" /\ job'[k].kind = job[k].kind
    BY <2>2, <2>3 DEF JobRow
  <2> QED
    BY <1>1, <2>1, <2>2, <2>4, ThrowHolds, RollbackKeeps
<1>3. CASE worker[w].step # "finishing"
  BY <1>1, <1>3, GotoHolds, RollbackKeeps DEF DeadlockVictim
<1> QED
  BY <1>2, <1>3

-----------------------------------------------------------------------------
(* Requests, and what time does *)

\* Steps of no tick.
LEMMA NobodyKeeps ==
  ASSUME IInv, Books, UNCHANGED worker, job' = [j \in Job |-> job'[j]],
         \A j \in Job : Moves(j, Nobody), AccountsHold'
  PROVE  Framed(Nobody) /\ IInv'
<1>1. Framed(Nobody)
  BY NobodyElse DEF Framed, IInv, TypeOK
<1> QED
  BY <1>1, NobodyElse, FrameKeeps

\* Time leaves rows as they are.
LEMMA RowsAsTheyAre ==
  ASSUME IInv, UNCHANGED job
  PROVE  job' = [j \in Job |-> job'[j]] /\ \A j \in Job : Moves(j, Nobody)
  BY DEF IInv, TypeOK, Moves

LEMMA RefusedKeeps ==
  ASSUME IInv, NEW u \in User, RequestRefused(u), UNCHANGED <<journal, complete, worker, outside>>
  PROVE  Framed(Nobody) /\ IInv'
<1>1. /\ user \in [User -> UserRow] /\ request \in [User -> RequestState]
      /\ complete \in [User -> SUBSET Day]
      /\ \A v \in User : (user[v].locked <=> request[v].step # "idle") /\ RequestHolds(v)
  BY DEF IInv, TypeOK
<1>2. /\ request' = [request EXCEPT ![u] = [step |-> "idle", range |-> AnyRange]]
      /\ user' = [user EXCEPT ![u].locked = FALSE] /\ UNCHANGED job
  BY DEF RequestRefused, RequestOver
<1>3. /\ request' \in [User -> RequestState] /\ request'[u].step = "idle"
      /\ \A v \in User \ {u} : request'[v] = request[v]
  BY <1>1, <1>2, RangeThere DEF RequestState
<1>4. /\ user' \in [User -> UserRow] /\ user'[u].locked = FALSE
      /\ \A v \in User \ {u} : user'[v] = user[v]
  BY <1>1, <1>2 DEF UserRow
<1>5. AccountsHold'
  BY <1>1, <1>3, <1>4 DEF AccountsHold, RequestHolds
<1> QED
  BY <1>2, <1>5, RowsAsTheyAre, BooksSame, NobodyKeeps

\* What a request does that gets its job: it takes the cooldown, and the rows
\* it moves are its own, and refreshes that wait.
LEMMA CommitsKeeps ==
  ASSUME IInv, NEW u \in User, RequestCommits(u), request[u].step # "idle",
         \A j \in ActiveOf(u) : MayYield(j) /\ Free(j),
         UNCHANGED <<journal, complete, worker, outside>>
  PROVE  /\ Framed(Nobody) /\ IInv'
         /\ user'[u].cooling
         /\ \E j \in Job : job[j].status = "none" /\ job'[j].status = "pending"
         /\ \A j \in Job : job'[j] # job[j] => Unused(j) \/ MayYield(j)
<1>1. /\ user \in [User -> UserRow] /\ request \in [User -> RequestState]
      /\ complete \in [User -> SUBSET Day] /\ request[u].range \in Range
      /\ listed \subseteq Match
      /\ \A v \in User : (user[v].locked <=> request[v].step # "idle") /\ RequestHolds(v)
  BY DEF IInv, TypeOK, RequestState
<1>2. PICK new \in Job :
         /\ Unused(new)
         /\ job' = [j \in Job |->
                     CASE j = new -> NewJob("manual", u, request[u].range, "pending", Nobody)
                       [] j \in ActiveOf(u) -> Superseded(j)
                       [] OTHER -> job[j]]
         /\ user' = [user EXCEPT ![u].locked = FALSE, ![u].cooling = TRUE]
         /\ request' = [request EXCEPT ![u] = [step |-> "idle", range |-> AnyRange]]
  BY DEF RequestCommits, RequestOver
<1>3. /\ request' \in [User -> RequestState] /\ request'[u].step = "idle"
      /\ \A v \in User \ {u} : request'[v] = request[v]
  BY <1>1, <1>2, RangeThere DEF RequestState
<1>4. /\ user' \in [User -> UserRow] /\ user'[u].locked = FALSE /\ user'[u].cooling
      /\ \A v \in User \ {u} : user'[v] = user[v]
  BY <1>1, <1>2 DEF UserRow
<1>5. AccountsHold'
  BY <1>1, <1>3, <1>4 DEF AccountsHold, RequestHolds
<1>6. job'[new] = NewJob("manual", u, request[u].range, "pending", Nobody)
  BY <1>2 DEF Unused, ActiveOf, Active
<1>7. ASSUME NEW j \in Job \ {new}
      PROVE  IF j \in ActiveOf(u) THEN job'[j] = Superseded(j) ELSE job'[j] = job[j]
  BY <1>2
<1>8. \A j \in Job : IF j = new THEN Requested(j)
                     ELSE IF j \in ActiveOf(u) THEN Yields(j) ELSE job'[j] = job[j]
  BY <1>1, <1>2, <1>6, <1>7 DEF Requested, Yields
<1>9. job' = [j \in Job |-> job'[j]] /\ \A j \in Job : Moves(j, Nobody)
  BY <1>2, <1>8 DEF Moves
<1>10. job'[new].status = "pending"
  <2>1. "pending" \in RowStatus /\ "manual" \in {"manual", "scheduled"}
        /\ u \in User \cup {Nobody} /\ Nobody \in Worker \cup {Nobody}
    BY DEF RowStatus, Active
  <2> QED
    BY <1>1, <1>6, <2>1, NewJobRow
<1>11. \A j \in Job : job'[j] # job[j] => Unused(j) \/ MayYield(j)
  BY <1>2, <1>8
<1> QED
  BY <1>2, <1>4, <1>5, <1>9, <1>10, <1>11, BooksSame, NobodyKeeps DEF Unused

LEMMA RequestBeginsKeeps ==
  ASSUME IInv, NEW u \in User, NEW r \in Range, RequestBegins(u, r)
  PROVE  Framed(Nobody) /\ IInv'
<1>1. /\ user \in [User -> UserRow] /\ request \in [User -> RequestState]
      /\ complete \in [User -> SUBSET Day]
      /\ \A v \in User : (user[v].locked <=> request[v].step # "idle") /\ RequestHolds(v)
  BY DEF IInv, TypeOK
<1>2. /\ request' = [request EXCEPT ![u] = [step |-> "locked", range |-> r]]
      /\ user' = [user EXCEPT ![u].locked = TRUE] /\ UNCHANGED <<job, journal, complete, worker, outside>>
  BY DEF RequestBegins
<1>3. /\ request' \in [User -> RequestState] /\ request'[u].step = "locked"
      /\ \A v \in User \ {u} : request'[v] = request[v]
  BY <1>1, <1>2 DEF RequestState
<1>4. /\ user' \in [User -> UserRow] /\ user'[u].locked
      /\ \A v \in User \ {u} : user'[v] = user[v]
  BY <1>1, <1>2 DEF UserRow
<1>5. AccountsHold'
  BY <1>1, <1>2, <1>3, <1>4 DEF AccountsHold, RequestHolds
<1> QED
  BY <1>2, <1>5, RowsAsTheyAre, BooksSame, NobodyKeeps

LEMMA RequestDecidesKeeps ==
  ASSUME IInv, NEW u \in User, RequestDecides(u)
  PROVE  Framed(Nobody) /\ IInv'
<1> DEFINE seen == {j \in ActiveOf(u) : Free(j)}
           refused == user[u].cooling \/ Full \/ \E j \in seen : ~MayYield(j)
<1>1. request[u].step = "locked" /\ UNCHANGED <<journal, complete, worker, outside>>
  BY DEF RequestDecides
<1>2. CASE RequestRefused(u)
  BY <1>1, <1>2, RefusedKeeps
<1>3. CASE ~refused /\ IndexedOf(u) = seen /\ RequestCommits(u)
  <2>1. \A j \in ActiveOf(u) : MayYield(j) /\ Free(j)
    BY <1>3 DEF ActiveOf, IndexedOf
  <2> QED
    BY <1>1, <1>3, <2>1, CommitsKeeps
<1>4. CASE /\ ~refused
           /\ request' = [request EXCEPT ![u].step = "waiting"]
           /\ UNCHANGED <<job, user>>
  <2>1. /\ request \in [User -> RequestState] /\ user \in [User -> UserRow]
        /\ complete \in [User -> SUBSET Day]
        /\ \A v \in User : (user[v].locked <=> request[v].step # "idle") /\ RequestHolds(v)
    BY DEF IInv, TypeOK
  <2>2. /\ request' \in [User -> RequestState] /\ request'[u].step = "waiting"
        /\ \A v \in User \ {u} : request'[v] = request[v]
    BY <1>4, <2>1 DEF RequestState
  <2>3. AccountsHold'
    BY <1>1, <1>4, <2>1, <2>2 DEF AccountsHold, RequestHolds
  <2> QED
    BY <1>1, <1>4, <2>3, RowsAsTheyAre, BooksSame, NobodyKeeps
<1> QED
  BY <1>2, <1>3, <1>4 DEF RequestDecides

LEMMA RequestResumesKeeps ==
  ASSUME IInv, NEW u \in User, RequestResumes(u)
  PROVE  Framed(Nobody) /\ IInv'
<1>1. request[u].step = "waiting" /\ UNCHANGED <<journal, complete, worker, outside>>
  BY DEF RequestResumes
<1>2. CASE IndexedOf(u) = {} /\ RequestCommits(u)
  <2>1. ActiveOf(u) = {}
    BY <1>2 DEF ActiveOf, IndexedOf
  <2> QED
    BY <1>1, <1>2, <2>1, CommitsKeeps
<1>3. CASE RequestRefused(u)
  BY <1>1, <1>3, RefusedKeeps
<1> QED
  BY <1>2, <1>3 DEF RequestResumes

LEMMA GoesStaleKeeps ==
  ASSUME IInv, NEW j \in Job, GoesStale(j)
  PROVE  Framed(Nobody) /\ IInv'
<1>1. job \in [Job -> JobRow]
  BY DEF IInv, TypeOK
<1>2. /\ job[j].status = "processing" /\ job' = [job EXCEPT ![j].stale = TRUE]
      /\ UNCHANGED <<user, journal, complete, request, worker, outside>>
  BY DEF GoesStale
<1>3. \A k \in Job : IF k = j THEN Ages(k) ELSE job'[k] = job[k]
  BY <1>1, <1>2 DEF Ages
<1>4. job' = [k \in Job |-> job'[k]] /\ \A k \in Job : Moves(k, Nobody)
  BY <1>1, <1>2, <1>3 DEF Moves
<1>5. AccountsHold'
  BY <1>2, AccountsKept DEF IInv, TypeOK
<1> QED
  BY <1>2, <1>4, <1>5, BooksSame, NobodyKeeps

LEMMA BecomesDueKeeps ==
  ASSUME IInv, NEW u \in User, BecomesDue(u)
  PROVE  Framed(Nobody) /\ IInv'
<1>1. user \in [User -> UserRow]
  BY DEF IInv, TypeOK
<1>2. user' = [user EXCEPT ![u].due = TRUE]
      /\ UNCHANGED <<job, journal, complete, request, worker, outside>>
  BY DEF BecomesDue
<1>3. /\ user' \in [User -> UserRow]
      /\ \A v \in User : user'[v].locked = user[v].locked /\ user'[v].cooling = user[v].cooling
  BY <1>1, <1>2 DEF UserRow
<1>4. AccountsHold'
  BY <1>2, <1>3, AccountsKept
<1> QED
  BY <1>2, <1>4, RowsAsTheyAre, BooksSame, NobodyKeeps

LEMMA CooldownOverKeeps ==
  ASSUME IInv, NEW u \in User, CooldownOver(u)
  PROVE  Framed(Nobody) /\ IInv'
<1>1. /\ user \in [User -> UserRow] /\ request \in [User -> RequestState]
      /\ complete \in [User -> SUBSET Day]
      /\ \A v \in User : (user[v].locked <=> request[v].step # "idle") /\ RequestHolds(v)
  BY DEF IInv, TypeOK
<1>2. user' = [user EXCEPT ![u].cooling = FALSE]
      /\ UNCHANGED <<job, journal, complete, request, worker, outside>>
  BY DEF CooldownOver
<1>3. /\ user' \in [User -> UserRow]
      /\ \A v \in User : user'[v].locked = user[v].locked /\ (user'[v].cooling => user[v].cooling)
  BY <1>1, <1>2 DEF UserRow
<1>4. AccountsHold'
  BY <1>1, <1>2, <1>3 DEF AccountsHold, RequestHolds
<1> QED
  BY <1>2, <1>4, RowsAsTheyAre, BooksSame, NobodyKeeps

\* What an entry was linked to stays accounted for: it has been moved.
LEMMA LinksKeeps ==
  ASSUME IInv, NEW u \in User, Links(u)
  PROVE  Framed(Nobody) /\ IInv'
<1>1. /\ journal \in [User -> SUBSET Match] /\ moved \in [User -> SUBSET Match]
      /\ listed \subseteq Match
  BY DEF IInv, TypeOK
<1>2. PICK m \in listed, old \in SUBSET journal[u] :
         /\ journal' = [journal EXCEPT ![u] = (@ \ old) \cup {m}]
         /\ moved' = [moved EXCEPT ![u] = @ \cup old]
         /\ UNCHANGED <<job, user, complete, request, worker, listed>>
  BY DEF Links
<1>3. ASSUME NEW v \in User  PROVE Accounted(v) \subseteq Accounted(v)'
  BY <1>1, <1>2 DEF Accounted, Settled, DismissedBy
<1>4. Books
  BY <1>1, <1>2, <1>3 DEF Books
<1>5. AccountsHold'
  BY <1>2, AccountsKept DEF IInv, TypeOK
<1> QED
  BY <1>2, <1>4, <1>5, RowsAsTheyAre, NobodyKeeps

LEMMA ProviderListsKeeps ==
  ASSUME IInv, NEW m \in Match, ProviderLists(m)
  PROVE  Framed(Nobody) /\ IInv'
<1>1. /\ listed' = listed \cup {m}
      /\ UNCHANGED <<job, user, journal, complete, request, worker, moved>>
  BY DEF ProviderLists
<1>2. Books
  BY <1>1 DEF Books, IInv, TypeOK, Accounted, Settled, DismissedBy
<1>3. AccountsHold'
  BY <1>1, AccountsKept DEF IInv, TypeOK
<1> QED
  BY <1>1, <1>2, <1>3, RowsAsTheyAre, NobodyKeeps

-----------------------------------------------------------------------------
(* The theorems *)

LEMMA InitHolds == Init => IInv
<1> SUFFICES ASSUME Init PROVE IInv
  OBVIOUS
<1>1. /\ NoJob \in JobRow /\ NoJob.status = "none" /\ NoJob.kind = "scheduled"
      /\ NoJob.txn = Nobody /\ NoJob.known = {}
  BY RangeThere DEF NoJob, JobRow, RowStatus
<1>2. At("idle") \in TickState /\ At("idle").step = "idle" /\ At("idle").job = Nobody
  BY DEF At, TickState, TickStep
<1>3. TypeOK
  BY <1>1, <1>2, RangeThere, SyncAssumption DEF Init, TypeOK, UserRow, RequestState
<1>4. \A j \in Job : LockHolds(j) /\ RowHolds(j)
  BY <1>1 DEF Init, LockHolds, RowHolds
<1>5. \A w \in Worker : WorkerHolds(w) /\ BatchHolds(w)
  BY <1>2, NobodyElse DEF Init, WorkerHolds, BatchHolds, Serving
<1>6. \A u \in User : RequestHolds(u)
  BY DEF Init, RequestHolds
<1> QED
  BY <1>3, <1>4, <1>5, <1>6 DEF IInv

\* Whoever steps, rows move in one of the ways listed above.
LEMMA StepFramed ==
  ASSUME IInv, [Next]_vars
  PROVE  (\E w \in Worker \cup {Nobody} : Framed(w)) /\ IInv'
<1>1. CASE UNCHANGED vars
  <2>1. AccountsHold'
    BY <1>1, AccountsKept DEF vars, IInv, TypeOK
  <2> QED
    BY <1>1, <2>1, RowsAsTheyAre, BooksSame, NobodyKeeps DEF vars, outside
<1>2. ASSUME NEW w \in Worker, Serve(w)  PROVE Framed(w) /\ IInv'
  BY <1>2, RecoverCommitsKeeps, FetchKeeps, ImportKeeps, MarkKeeps, SaveKeeps, CatchKeeps,
     EnqueueCommitsKeeps, FinishRowKeeps, FinishCommitsKeeps, FailRowKeeps, FailCommitsKeeps
     DEF Serve
<1>3. ASSUME NEW w \in Worker,
             Claim(w) \/ Recover(w) \/ EnqueueInserts(w) \/ DeadlockVictim(w) \/ Crash(w)
      PROVE  (Framed(w) \/ Framed(Nobody)) /\ IInv'
  BY <1>3, ClaimKeeps, RecoverScheduledKeeps, ManualRecoversKeeps, EnqueueInsertsKeeps,
     DeadlockVictimKeeps, CrashKeeps DEF Recover
<1>4. ASSUME NEW u \in User,
             \/ \E r \in Range : RequestBegins(u, r)
             \/ RequestStepOf(u) \/ RequestAborted(u)
             \/ BecomesDue(u) \/ CooldownOver(u) \/ Links(u)
      PROVE  Framed(Nobody) /\ IInv'
  BY <1>4, RequestBeginsKeeps, RequestDecidesKeeps, RequestResumesKeeps, RefusedKeeps,
     BecomesDueKeeps, CooldownOverKeeps, LinksKeeps DEF RequestStepOf, RequestAborted
<1>5. ASSUME NEW j \in Job, GoesStale(j)  PROVE Framed(Nobody) /\ IInv'
  BY <1>5, GoesStaleKeeps
<1>6. ASSUME NEW m \in Match, ProviderLists(m)  PROVE Framed(Nobody) /\ IInv'
  BY <1>6, ProviderListsKeeps
<1> QED
  BY <1>1, <1>2, <1>3, <1>4, <1>5, <1>6 DEF Next

\* The invariant of every tick, request and recovery, whatever they interleave.
THEOREM Invariance == Spec => []IInv
<1>1. IInv /\ [Next]_vars => IInv'
  BY StepFramed
<1> QED
  BY <1>1, InitHolds, PTL DEF Spec

\* Rows, accounts, requests and ticks hold what their columns and the code
\* allow, and an account is locked exactly while its request is under way.
THEOREM TypeCorrect == Spec => []TypeOK
<1>1. IInv => TypeOK
  BY DEF IInv
<1> QED
  BY <1>1, Invariance, PTL

\* A completed range has imported, left to its owner or reported as failed each
\* match it asked for that the provider listed by then.
THEOREM RangesAreVisited == Spec => []CompletedRangeVisited
<1>1. IInv => CompletedRangeVisited
  BY DEF IInv, RowHolds, CompletedRangeVisited
<1> QED
  BY <1>1, Invariance, PTL

-----------------------------------------------------------------------------
(* What no step does *)

\* A day marked complete by one tick, with what it knew of the day's matches.
MarkedBy(w, u, d) ==
    /\ worker[w].step = "mark" /\ worker'[w].step = "save"
    /\ UserOf(w) = u /\ d \in DaysOf(RangeOf(w))
    /\ \A m \in job[worker[w].job].known : DayOf[m] = d => m \in Accounted(u)

\* A day is marked complete only with each of its matches accounted for that was
\* listed when the range was asked for, whichever ticks served its batches and
\* whoever holds its lease by then.  What the provider lists later is not
\* covered, and a match counts as accounted for when its entry was moved away.
THEOREM MarkedDaysAreImported == Spec => CompleteDaysImported
<1> DEFINE Justified == \A u \in User : \A d \in complete'[u] \ complete[u] :
                            \E w \in Worker : MarkedBy(w, u, d)
<1>1. ASSUME IInv, Next  PROVE Justified
  <2>1. ASSUME NEW w \in Worker, Mark(w)  PROVE Justified
    BY <1>1, <2>1, MarkedIsAccounted DEF MarkedBy, KnownTo
  <2>2. CASE UNCHANGED complete
    BY <2>2
  <2>3. (\E w \in Worker : Mark(w)) \/ UNCHANGED complete
    BY <1>1 DEF Next, Serve, RecoverCommits, Fetch, Import, Save, Catch, EnqueueCommits,
       FinishRow, FinishCommits, FailRow, FailCommits, Claim, ManualClaims,
       ScheduledClaims, Recover, RecoverScheduled, ManualRecovers, EnqueueInserts,
       DeadlockVictim, Crash, RequestBegins, RequestStepOf, RequestDecides,
       RequestResumes, RequestAborted, BecomesDue, CooldownOver, Links, GoesStale,
       ProviderLists
  <2> QED
    BY <2>1, <2>2, <2>3
<1>2. IInv /\ [Next]_vars => [Justified]_vars
  BY <1>1
<1> QED
  BY <1>2, Invariance, PTL DEF Spec, CompleteDaysImported, MarkedBy

\* A request that is over, with its job or without.
Atomic(u) ==
    request[u].step # "idle" /\ request'[u].step = "idle" =>
        IF \E j \in Job : job[j].status = "none" /\ job'[j].status = "pending"
        THEN /\ ~user[u].cooling /\ user'[u].cooling
             /\ \A j \in Job : job'[j] # job[j] => Unused(j) \/ MayYield(j)
        ELSE job' = job /\ user'[u].cooling = user[u].cooling

LEMMA RefusedIsAtomic ==
  ASSUME IInv, NEW u \in User, RequestRefused(u)
  PROVE  \A v \in User : Atomic(v)
<1>1. /\ user \in [User -> UserRow] /\ request \in [User -> RequestState]
      /\ UNCHANGED job /\ user' = [user EXCEPT ![u].locked = FALSE]
      /\ request' = [request EXCEPT ![u] = [step |-> "idle", range |-> AnyRange]]
  BY DEF IInv, TypeOK, RequestRefused, RequestOver
<1>2. user'[u].cooling = user[u].cooling
  BY <1>1 DEF UserRow
<1>3. \A v \in User \ {u} : request'[v] = request[v]
  BY <1>1
<1> QED
  BY <1>1, <1>2, <1>3 DEF Atomic

LEMMA CommitIsAtomic ==
  ASSUME IInv, NEW u \in User, RequestCommits(u), request[u].step # "idle",
         ~user[u].cooling, \A j \in ActiveOf(u) : MayYield(j) /\ Free(j),
         UNCHANGED <<journal, complete, worker, outside>>
  PROVE  \A v \in User : Atomic(v)
<1>1. request' = [request EXCEPT ![u] = [step |-> "idle", range |-> AnyRange]]
  BY DEF RequestCommits, RequestOver
<1>2. \A v \in User \ {u} : request'[v] = request[v]
  BY <1>1 DEF IInv, TypeOK
<1>3. Atomic(u)
  BY CommitsKeeps DEF Atomic
<1> QED
  BY <1>2, <1>3 DEF Atomic

LEMMA RequestStepIsAtomic ==
  ASSUME IInv, NEW u \in User, RequestStepOf(u) \/ RequestAborted(u)
  PROVE  \A v \in User : Atomic(v)
<1> DEFINE seen == {j \in ActiveOf(u) : Free(j)}
           refused == user[u].cooling \/ Full \/ \E j \in seen : ~MayYield(j)
<1>1. CASE RequestRefused(u)
  BY <1>1, RefusedIsAtomic
<1>2. CASE /\ request[u].step = "locked" /\ UNCHANGED <<journal, complete, worker, outside>>
           /\ ~refused /\ IndexedOf(u) = seen /\ RequestCommits(u)
  <2>1. ~user[u].cooling /\ \A j \in ActiveOf(u) : MayYield(j) /\ Free(j)
    BY <1>2 DEF ActiveOf, IndexedOf
  <2> QED
    BY <1>2, <2>1, CommitIsAtomic
<1>3. CASE request' = [request EXCEPT ![u].step = "waiting"]
  <2>1. \A v \in User : request'[v].step = "idle" => request'[v] = request[v]
    BY <1>3 DEF IInv, TypeOK, RequestState
  <2> QED
    BY <2>1 DEF Atomic
<1>4. CASE /\ request[u].step = "waiting" /\ UNCHANGED <<journal, complete, worker, outside>>
           /\ IndexedOf(u) = {} /\ RequestCommits(u)
  <2>1. ~user[u].cooling /\ ActiveOf(u) = {}
    BY <1>4 DEF IInv, RequestHolds, ActiveOf, IndexedOf
  <2> QED
    BY <1>4, <2>1, CommitIsAtomic
<1> QED
  BY <1>1, <1>2, <1>3, <1>4
     DEF RequestStepOf, RequestDecides, RequestResumes, RequestAborted

\* A request takes its cooldown and its place in the queue in one, or neither,
\* and supersedes nothing but refreshes that wait.
THEOREM RequestsAreAtomic == Spec => RequestIsAtomic
<1>1. ASSUME IInv, Next  PROVE \A u \in User : Atomic(u)
  <2>1. CASE UNCHANGED request
    BY <2>1 DEF Atomic
  <2>2. ASSUME NEW u \in User, RequestStepOf(u) \/ RequestAborted(u)
        PROVE  \A v \in User : Atomic(v)
    BY <1>1, <2>2, RequestStepIsAtomic
  <2>3. ASSUME NEW u \in User, NEW r \in Range, RequestBegins(u, r)
        PROVE  \A v \in User : Atomic(v)
    <3>1. \A v \in User : request'[v].step = "idle" => request'[v] = request[v]
      BY <1>1, <2>3 DEF RequestBegins, IInv, TypeOK
    <3> QED
      BY <3>1 DEF Atomic
  <2>4. ASSUME NEW w \in Worker,
               Serve(w) \/ Claim(w) \/ Recover(w) \/ EnqueueInserts(w)
                  \/ DeadlockVictim(w) \/ Crash(w)
        PROVE  UNCHANGED request
    BY <2>4 DEF Serve, RecoverCommits, Fetch, Import, Mark, Save, Catch, EnqueueCommits,
       FinishRow, FinishCommits, FailRow, FailCommits, Claim, ManualClaims,
       ScheduledClaims, Recover, RecoverScheduled, ManualRecovers, EnqueueInserts,
       DeadlockVictim, Crash
  <2>5. ASSUME NEW u \in User, BecomesDue(u) \/ CooldownOver(u) \/ Links(u)
        PROVE  UNCHANGED request
    BY <2>5 DEF BecomesDue, CooldownOver, Links
  <2>6. (\E j \in Job : GoesStale(j)) \/ (\E m \in Match : ProviderLists(m))
           => UNCHANGED request
    BY DEF GoesStale, ProviderLists
  <2> QED
    BY <1>1, <2>1, <2>2, <2>3, <2>4, <2>5, <2>6 DEF Next
<1>2. IInv /\ [Next]_vars => [\A u \in User : Atomic(u)]_vars
  BY <1>1
<1> QED
  BY <1>2, Invariance, PTL DEF Spec, RequestIsAtomic, Atomic

\* The end of an account's refresh.
Ends(u) == user[u].due /\ ~user'[u].due =>
    \E j \in Job : /\ job[j].user = u /\ job[j].kind = "scheduled"
                   /\ job[j].status = "processing"
                   /\ job'[j].status \in Ended

LEMMA ServeEnds ==
  ASSUME IInv, NEW w \in Worker, Serve(w)
  PROVE  \A u \in User : Ends(u)
<1>1. job \in [Job -> JobRow]
  BY DEF IInv, TypeOK
<1>2. CASE RecoverCommits(w)
  <2> DEFINE spent == {k \in LockedBy(w) : Spent(k)}
  <2>1. /\ worker[w].step = "recovering" /\ MoveCursors({job[j].user : j \in spent})
        /\ \A j \in spent : job'[j] = Failed(j)
    BY <1>2 DEF RecoverCommits, LockedBy
  <2>2. \A j \in spent : /\ j \in Job /\ job[j].kind = "scheduled"
                         /\ job[j].status = "processing"
    BY <2>1, NobodyElse DEF IInv, LockHolds, LockedBy
  <2>3. \A j \in spent : job'[j].status = "failed"
    BY <1>1, <2>1, <2>2 DEF Failed, JobRow
  <2>4. ASSUME NEW u \in User, user[u].due, ~user'[u].due
        PROVE  \E j \in spent : job[j].user = u
    BY <2>1, <2>4 DEF MoveCursors
  <2> QED
    BY <2>2, <2>3, <2>4 DEF Ends, Ended
<1>3. CASE FinishCommits(w) \/ FailCommits(w)
  <2> DEFINE k == worker[w].job
  <2>1. worker[w].step \in {"finishing", "failing"} /\ MoveCursors({UserOf(w)})
    BY <1>3 DEF FinishCommits, FailCommits
  <2>2. /\ k \in Job /\ job[k] \in JobRow /\ job[k].status = "processing"
        /\ job[k].kind = "scheduled"
    BY <2>1, EndingTick
  <2>3. \/ job'[k] = Failed(k)
        \/ job'[k] = [job[k] EXCEPT !.status = "completed", !.lockedAt = Nobody,
                                    !.stale = FALSE, !.txn = Nobody]
    BY <1>1, <1>3, <2>2 DEF FinishCommits, FailCommits
  <2>4. job'[k].status \in Ended
    BY <2>2, <2>3 DEF Failed, JobRow, Ended
  <2>5. ASSUME NEW u \in User, user[u].due, ~user'[u].due  PROVE job[k].user = u
    BY <2>1, <2>5 DEF MoveCursors, UserOf
  <2> QED
    BY <2>2, <2>4, <2>5 DEF Ends
<1>4. CASE UNCHANGED user
  BY <1>4 DEF Ends
<1> QED
  BY <1>2, <1>3, <1>4 DEF Serve, Fetch, Import, Mark, Save, Catch, EnqueueCommits,
     FinishRow, FailRow

\* An account looks refreshed only since a scheduled job of its own has ended.
THEOREM CursorsMoveWithJobs == Spec => CursorMovesWithJob
<1>1. ASSUME IInv, Next  PROVE \A u \in User : Ends(u)
  <2>1. CASE \A u \in User : user'[u].due = user[u].due \/ user'[u].due
    BY <2>1 DEF Ends
  <2>2. ASSUME NEW w \in Worker, Serve(w)  PROVE \A u \in User : Ends(u)
    BY <1>1, <2>2, ServeEnds
  <2>3. ASSUME NEW w \in Worker,
               Claim(w) \/ Recover(w) \/ EnqueueInserts(w) \/ DeadlockVictim(w) \/ Crash(w)
        PROVE  UNCHANGED user
    BY <2>3 DEF Claim, ManualClaims, ScheduledClaims, Recover, RecoverScheduled,
       ManualRecovers, EnqueueInserts, DeadlockVictim, Crash
  <2>4. ASSUME NEW u \in User,
               \/ \E r \in Range : RequestBegins(u, r)
               \/ RequestStepOf(u) \/ RequestAborted(u)
               \/ BecomesDue(u) \/ CooldownOver(u) \/ Links(u)
        PROVE  \A v \in User : user'[v].due = user[v].due \/ user'[v].due
    <3>1. user \in [User -> UserRow]
      BY <1>1 DEF IInv, TypeOK
    <3>2. \/ UNCHANGED user
          \/ \E b \in BOOLEAN : user' = [user EXCEPT ![u].locked = b]
          \/ user' = [user EXCEPT ![u].locked = FALSE, ![u].cooling = TRUE]
          \/ user' = [user EXCEPT ![u].due = TRUE]
          \/ user' = [user EXCEPT ![u].cooling = FALSE]
      BY <2>4 DEF RequestBegins, RequestStepOf, RequestDecides, RequestResumes,
         RequestCommits, RequestAborted, RequestRefused, BecomesDue, CooldownOver, Links
    <3> QED
      BY <3>1, <3>2 DEF UserRow
  <2>5. (\E j \in Job : GoesStale(j)) \/ (\E m \in Match : ProviderLists(m))
           => UNCHANGED user
    BY DEF GoesStale, ProviderLists
  <2> QED
    BY <1>1, <2>1, <2>2, <2>3, <2>4, <2>5 DEF Next
<1>2. IInv /\ [Next]_vars => [\A u \in User : Ends(u)]_vars
  BY <1>1
<1> QED
  BY <1>2, Invariance, PTL DEF Spec, CursorMovesWithJob, Ends

-----------------------------------------------------------------------------
(* The table is a lease queue *)

Mine(j, v) == worker[v].job = j /\ job[j].status = "processing" /\ job[j].lockedAt = v
Shown(j) == IF job[j].status = "inserting" THEN "none" ELSE job[j].status

LEMMA HolderIs ==
  ASSUME job \in [Job -> JobRow], NEW j \in Job
  PROVE  /\ Holder(j) \in Worker \cup {Nobody}
         /\ \A v \in Worker : Holder(j) = v <=> Mine(j, v)
<1>1. ASSUME NEW v \in Worker  PROVE worker[v].job = j /\ HasLease(v) <=> Mine(j, v)
  BY DEF HasLease, Mine
<1>2. CASE \E w \in Worker : Mine(j, w)
  <2>1. Holder(j) = job[j].lockedAt
    BY <1>1, <1>2 DEF Holder
  <2> QED
    BY <1>2, <2>1 DEF Mine
<1>3. CASE ~\E w \in Worker : Mine(j, w)
  <2>1. Holder(j) = Nobody
    BY <1>1, <1>3 DEF Holder
  <2> QED
    BY <1>3, <2>1, NobodyElse
<1> QED
  BY <1>2, <1>3

LEMMA HolderIsNext ==
  ASSUME job' \in [Job -> JobRow], NEW j \in Job
  PROVE  /\ Holder(j)' \in Worker \cup {Nobody}
         /\ \A v \in Worker : Holder(j)' = v <=> Mine(j, v)'
<1>1. ASSUME NEW v \in Worker  PROVE (worker[v].job = j /\ HasLease(v))' <=> Mine(j, v)'
  BY DEF HasLease, Mine
<1>2. CASE \E w \in Worker : Mine(j, w)'
  <2>1. Holder(j)' = job'[j].lockedAt
    BY <1>1, <1>2 DEF Holder
  <2> QED
    BY <1>2, <2>1 DEF Mine
<1>3. CASE ~\E w \in Worker : Mine(j, w)'
  <2>1. Holder(j)' = Nobody
    BY <1>1, <1>3 DEF Holder
  <2> QED
    BY <1>3, <2>1, NobodyElse
<1> QED
  BY <1>2, <1>3

\* A row that keeps its status and its lease keeps its holder, unless the
\* holder has turned away.
LEMMA KeptOrLost ==
  ASSUME IInv, IInv', NEW w \in Worker \cup {Nobody}, Framed(w), NEW j \in Job,
         job'[j].status = job[j].status, job'[j].lockedAt = job[j].lockedAt
  PROVE  \/ Holder(j)' = Holder(j)
         \/ \E v \in Worker : /\ job[j].status = "processing" /\ Holder(j) = v
                              /\ worker'[v].job = Nobody /\ Holder(j)' = Nobody
<1>1. job \in [Job -> JobRow] /\ job' \in [Job -> JobRow] /\ Nobody \notin Job
  BY NobodyElse DEF IInv, TypeOK
<1>2. \A v \in Worker \ {w} : Mine(j, v)' <=> Mine(j, v)
  BY DEF Framed, Mine
<1>3. ~Claims(j, w)
  <2>1. Claims(j, w) => job'[j].status = "processing" /\ job[j].status = "pending"
    BY <1>1 DEF Claims, Claimed, JobRow
  <2> QED
    BY <2>1
<1>4. ASSUME w \in Worker, Mine(j, w)'  PROVE Mine(j, w)
  BY <1>1, <1>3, <1>4 DEF Framed, Mine, Claims
<1>5. ASSUME w \in Worker, Mine(j, w), ~Mine(j, w)'  PROVE worker'[w].job = Nobody
  BY <1>1, <1>5 DEF Framed, Mine, Claims
<1>6. /\ Holder(j) \in Worker \cup {Nobody} /\ Holder(j)' \in Worker \cup {Nobody}
      /\ \A v \in Worker : (Holder(j) = v <=> Mine(j, v)) /\ (Holder(j)' = v <=> Mine(j, v)')
  BY <1>1, HolderIs, HolderIsNext
<1>7. CASE Holder(j)' \in Worker
  BY <1>2, <1>4, <1>6, <1>7
<1>8. CASE Holder(j)' = Nobody /\ Holder(j) # Nobody
  <2>1. PICK h \in Worker : h = Holder(j)
    BY <1>6, <1>8
  <2>2. Mine(j, h) /\ ~Mine(j, h)'
    BY <1>6, <1>8, <2>1, NobodyElse
  <2>3. h = w
    BY <1>2, <2>2
  <2> QED
    BY <1>5, <1>8, <2>1, <2>2, <2>3 DEF Mine
<1> QED
  BY <1>6, <1>7, <1>8

\* What one row does, as the queue sees it.
QueueRow(j) ==
    \/ Queue!Add(j) \/ Queue!Cancel(j) \/ Queue!Claim(j) \/ Queue!Lose(j)
    \/ Queue!Recover(j) \/ Queue!Finish(j) \/ Queue!Same(j)

LEMMA RowsAreQueued ==
  ASSUME IInv, IInv', NEW w \in Worker \cup {Nobody}, Framed(w), NEW j \in Job
  PROVE  QueueRow(j)
<1> DEFINE q == job[j]
           r == job'[j]
<1>1. /\ q \in JobRow /\ r \in JobRow /\ LockHolds(j) /\ Nobody \notin Worker
      /\ job \in [Job -> JobRow] /\ job' \in [Job -> JobRow] /\ listed \subseteq Match
  BY NobodyElse DEF IInv, TypeOK
<1>2. q.status # "processing" => Holder(j) = Nobody
  BY <1>1, HolderIs DEF Mine
<1>3. r.status # "processing" => Holder(j)' = Nobody
  BY <1>1, HolderIsNext DEF Mine
<1>4. \A s, v : Queue!Becomes(j, s, v) <=> Shown(j)' = s /\ Holder(j)' = v
  BY DEF Queue!Becomes, Shown
<1>4b. Queue!Same(j) <=> Shown(j)' = Shown(j) /\ Holder(j)' = Holder(j)
  BY DEF Queue!Same, Queue!Becomes, Shown
<1>5. CASE r.status = q.status /\ r.lockedAt = q.lockedAt
  <2>1. Shown(j)' = Shown(j)
    BY <1>5 DEF Shown
  <2>2. CASE Holder(j)' = Holder(j)
    BY <1>4b, <2>1, <2>2 DEF QueueRow
  <2>3. CASE \E v \in Worker : /\ q.status = "processing" /\ Holder(j) = v
                               /\ worker'[v].job = Nobody /\ Holder(j)' = Nobody
    BY <1>4, <2>1, <2>3 DEF QueueRow, Queue!Lose, Shown
  <2> QED
    BY <1>5, <2>2, <2>3, KeptOrLost
<1>6. CASE Claims(j, w)
  <2>1. r.status = "processing" /\ r.lockedAt = w /\ q.status = "pending"
    BY <1>1, <1>6 DEF Claims, Claimed, JobRow
  <2>2. Holder(j)' = w
    BY <1>1, <1>6, <2>1, HolderIsNext DEF Mine, Claims
  <2> QED
    BY <1>4, <1>6, <2>1, <2>2 DEF QueueRow, Queue!Claim, Shown, Claims
<1>7. CASE Returns(j, w)
  <2>1. q.status = "processing" /\ r.status \in {"pending", "failed"}
    BY <1>1, <1>7 DEF Returns, Requeued, Failed, JobRow
  <2> QED
    BY <1>3, <1>4, <2>1 DEF QueueRow, Queue!Recover, Shown
<1>8. CASE Inserts(j, w)
  <2>1. q.status = "none" /\ r.status = "inserting"
    BY <1>1, <1>8, NewJobRow, RangeThere DEF Inserts, Unused, RowStatus
  <2> QED
    BY <1>4b, <1>2, <1>3, <2>1 DEF QueueRow, Shown
<1>9. CASE Commits(j, w)
  <2>1. q.status = "inserting" /\ r.status = "pending"
    BY <1>1, <1>9 DEF Commits, JobRow
  <2> QED
    BY <1>3, <1>4, <2>1 DEF QueueRow, Queue!Add, Queue!Active, Shown
<1>10. CASE Unlocks(j, w) /\ q.status = "inserting"
  <2>1. r.status = "none"
    BY <1>10 DEF Unlocks, NoJob
  <2> QED
    BY <1>4b, <1>2, <1>3, <1>10, <2>1 DEF QueueRow, Shown
<1>11. CASE Yields(j)
  <2>1. q.status = "pending" /\ r.status = "failed"
    BY <1>1, <1>11 DEF Yields, MayYield, Superseded, JobRow
  <2> QED
    BY <1>3, <1>4, <2>1 DEF QueueRow, Queue!Cancel, Shown
<1>12. CASE Requested(j)
  <2>1. q.status = "none" /\ r.status = "pending"
    <3>1. "pending" \in RowStatus /\ "manual" \in {"manual", "scheduled"}
          /\ User \subseteq User \cup {Nobody} /\ Nobody \in Worker \cup {Nobody}
      BY DEF RowStatus, Active
    <3> QED
      BY <1>1, <1>12, <3>1, NewJobRow DEF Requested, Unused
  <2> QED
    BY <1>3, <1>4, <2>1 DEF QueueRow, Queue!Add, Queue!Active, Shown
<1>13. CASE Saves(j, w) \/ Completes(j, w)
  <2>1. /\ w \in Worker /\ worker[w].job = j /\ HasLease(w) /\ worker'[w].job = Nobody
    BY <1>13 DEF Saves, Completes
  <2>2. q.status = "processing" /\ Holder(j) = w
    BY <1>1, <2>1, HolderIs DEF HasLease, Mine
  <2>3. r.status \in {"pending", "completed"}
    <3>1. CASE Saves(j, w)
      <4>1. PICK left \in {"pending", "completed"} : \E a, f :
              r = [q EXCEPT !.status = left, !.lockedAt = Nobody, !.stale = FALSE,
                            !.attempts = 0, !.attempted = a, !.failed = f]
        <5>1. PICK left \in {"pending", "completed"} :
                 left = IF worker[w].deferred THEN "pending" ELSE "completed"
          OBVIOUS
        <5>2. r = [job[worker[w].job] EXCEPT !.status = left, !.lockedAt = Nobody,
                     !.stale = FALSE, !.attempts = 0,
                     !.attempted = worker[w].attempted, !.failed = worker[w].failed]
          BY <3>1, <5>1, Zenon DEF Saves, Saved
        <5>3. job[worker[w].job] = q
          BY <2>1
        <5>4. r = [q EXCEPT !.status = left, !.lockedAt = Nobody, !.stale = FALSE,
                     !.attempts = 0, !.attempted = worker[w].attempted,
                     !.failed = worker[w].failed]
          BY <5>2, <5>3, Zenon
        <5> QED
          BY <5>4, Zenon
      <4> QED
        BY <1>1, <4>1 DEF JobRow
    <3>2. CASE Completes(j, w)
      BY <1>1, <3>2 DEF Completes, JobRow
    <3> QED
      BY <1>13, <3>1, <3>2
  <2> QED
    BY <1>3, <1>4, <2>1, <2>2, <2>3 DEF QueueRow, Queue!Finish, Shown
<1>14. CASE Ages(j) \/ Locks(j, w) \/ (Unlocks(j, w) /\ q.status # "inserting")
  <2>1. r.status = q.status /\ r.lockedAt = q.lockedAt
    BY <1>1, <1>14 DEF Ages, Locks, Unlocks, JobRow
  <2> QED
    BY <1>5, <2>1
<1> QED
  BY <1>5, <1>6, <1>7, <1>8, <1>9, <1>10, <1>11, <1>12, <1>13, <1>14 DEF Framed, Moves

\* Every step of the ticks and requests is a step of the lease queue.
LEMMA StepsAreQueued ==
  ASSUME IInv, IInv', NEW w \in Worker \cup {Nobody}, Framed(w)
  PROVE  Queue!Next
<1>1. /\ job' \in [Job -> JobRow] /\ worker' \in [Worker -> TickState]
  BY DEF IInv, TypeOK
<1>2. \A j \in Job : job'[j].status \in RowStatus /\ Holder(j)' \in Worker \cup {Nobody}
  BY <1>1, HolderIsNext DEF JobRow
<1>3. \A v \in Worker : worker'[v].job \in Job \cup {Nobody}
  BY <1>1 DEF TickState
<1>4. ASSUME NEW v \in Worker  PROVE Queue!Works(v)
  <2>1. CASE worker'[v].job \in {worker[v].job, Nobody}
    BY <2>1 DEF Queue!Works
  <2>2. CASE v = w /\ \E j \in Job : Claims(j, w)
    <3>1. PICK j \in Job : Claims(j, w)
      BY <2>2
    <3>2. job'[j].status = "processing" /\ job'[j].lockedAt = w
      BY <3>1 DEF Claims, Claimed, IInv, TypeOK, JobRow
    <3>3. Holder(j)' = v
      BY <1>1, <2>2, <3>1, <3>2, HolderIsNext DEF Mine, Claims
    <3> QED
      BY <2>2, <3>1, <3>3 DEF Queue!Works, Claims
  <2> QED
    BY <2>1, <2>2 DEF Framed
<1>5. \A j \in Job : QueueRow(j)
  BY RowsAreQueued
<1>6. /\ [j \in Job |-> Shown(j)]' \in [Job -> Queue!QueueStatus]
      /\ [j \in Job |-> Holder(j)]' \in [Job -> Worker \cup {Nobody}]
      /\ [v \in Worker |-> worker[v].job]' \in [Worker -> Job \cup {Nobody}]
  BY <1>2, <1>3 DEF Shown, RowStatus, Active, Ended, Queue!QueueStatus, Queue!Active, Queue!Ended
<1> QED
  BY <1>4, <1>5, <1>6 DEF Queue!Next, QueueRow, Shown

\* The table of sync jobs implements the lease queue: a tick that lost its job
\* changes nothing, and only the holder of a job says how it ended.
THEOREM SyncJobsAreLeased == Spec => JobsAreLeased
<1>1. Init => Queue!Init
  <2> SUFFICES ASSUME Init PROVE Queue!Init
    OBVIOUS
  <2>1. \A w \in Worker : worker[w].job = Nobody
    BY DEF Init, At
  <2>2. \A j \in Job : job[j].status = "none"
    BY DEF Init, NoJob
  <2>3. \A j \in Job : Holder(j) = Nobody
    BY <2>1, NobodyElse DEF Holder
  <2> QED
    BY <2>1, <2>2, <2>3 DEF Queue!Init
<1>2. IInv /\ IInv' /\ [Next]_vars => [Queue!Next]_Queue!queue
  BY StepFramed, StepsAreQueued
<1> QED
  BY <1>1, <1>2, Invariance, PTL DEF Spec, JobsAreLeased, Queue!Spec
=============================================================================
