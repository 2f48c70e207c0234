------------------------- MODULE MatchSyncProperties -------------------------
(* What match synchronisation must keep, whatever the ticks interleave. *)
EXTENDS MatchSync

\* Every row, account, request and tick holds values its columns and the code
\* allow; an account is locked exactly while a request is between statements.
TypeOK ==
    /\ job \in [Job -> JobRow]
    /\ user \in [User -> UserRow]
    /\ journal \in [User -> SUBSET Match]
    /\ complete \in [User -> SUBSET Day]
    /\ request \in [User -> RequestState]
    /\ worker \in [Worker -> TickState]
    /\ listed \in SUBSET Match
    /\ moved \in [User -> SUBSET Match]
    /\ \A u \in User : user[u].locked <=> request[u].step # "idle"

\* sync_jobs as a lease queue: a worker holds the job whose row names it.
Holder(j) ==
    IF \E w \in Worker : worker[w].job = j /\ HasLease(w)
    THEN job[j].lockedAt ELSE Nobody

Queue == INSTANCE LeaseQueue WITH
    status <- [j \in Job |-> IF job[j].status = "inserting" THEN "none" ELSE job[j].status],
    holder <- [j \in Job |-> Holder(j)],
    work <- [w \in Worker |-> worker[w].job]

\* The table is a lease queue (repository.ts, manual-service.ts): a tick whose
\* job was recovered, or ended by another tick, changes no row of the queue,
\* and a superseding request never touches a job that is being processed.
JobsAreLeased == Queue!Spec

\* A match is accounted for: it has been imported or dismissed, unless the owner
\* has since linked its entry to another match.
Accounted(u) == Settled(u) \cup moved[u]

\* A day is marked complete only with each of its matches accounted for that the
\* provider listed when the range was asked for.  The mark is written before the
\* lease is checked, batches of one range are served by different ticks,
\* failures of earlier batches are only in the row, and other modes may be left
\* out.  (A match listed later is not covered: the day stays marked without it.)
CompleteDaysImported ==
    [][\A u \in User : \A d \in complete'[u] \ complete[u] : \E w \in Worker :
        /\ worker[w].step = "mark" /\ worker'[w].step = "save"
        /\ UserOf(w) = u /\ d \in DaysOf(RangeOf(w))
        /\ \A m \in job[worker[w].job].known : DayOf[m] = d => m \in Accounted(u)]_vars

\* A completed range has visited every match it asked for that was listed then:
\* accounted for or reported as failed, over all batches, retries and recovered
\* leases.
CompletedRangeVisited ==
    \A j \in Job :
        job[j].kind = "manual" /\ job[j].status = "completed" =>
            Wanted(job[j].range) \cap job[j].known
                \subseteq Accounted(job[j].user) \cup job[j].failed

\* A request takes its cooldown and its place in the queue together, and one
\* that is refused, deadlocked or cut off leaves neither.  It supersedes a refresh that
\* waits, never a job being processed, and only for the job that replaces it.
RequestIsAtomic ==
    [][\A u \in User :
        request[u].step # "idle" /\ request'[u].step = "idle" =>
            IF \E j \in Job : job[j].status = "none" /\ job'[j].status = "pending"
            THEN /\ ~user[u].cooling /\ user'[u].cooling
                 /\ \A j \in Job : job'[j] # job[j] => Unused(j) \/ MayYield(j)
            ELSE job' = job /\ user'[u].cooling = user[u].cooling]_vars

\* An account's sync cursor moves only with the end of its scheduled job, so a
\* tick that lost its job, or whose transaction rolled back, does not make the
\* account look refreshed.
CursorMovesWithJob ==
    [][\A u \in User : user[u].due /\ ~user'[u].due =>
        \E j \in Job : /\ job[j].user = u /\ job[j].kind = "scheduled"
                       /\ job[j].status = "processing"
                       /\ job'[j].status \in Ended]_vars

\* Every job ends, whatever crashes, outlives its lock or fails: claims are
\* counted, and the count restarts only when a batch got further.  (Requests that
\* lock the account each time a recovery is about to fail its job could hold
\* the recovery up for ever; they are assumed to stop.)
JobsEnd == (\A u \in User : <>[](request[u].step = "idle")) =>
    \A j \in Job : job[j].status \in Active ~> job[j].status \in Ended

\* Every request is answered, though it waits for rows of transactions that
\* wait for the account it has locked.
RequestsAnswered == \A u \in User : request[u].step # "idle" ~> request[u].step = "idle"
=============================================================================
