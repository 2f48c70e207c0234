----------------------------- MODULE LeaseQueue ------------------------------
(***************************************************************************)
(* What every job table of the backend promises its workers.  A job is     *)
(* claimed from "pending" by one worker, who holds it until it writes the  *)
(* outcome, dies, or is taken for dead.  Only the holder decides how a     *)
(* claimed job ends; whoever lost the job has no say in it any more.       *)
(* Several jobs may move in one step: a recovery is one statement.         *)
(***************************************************************************)
CONSTANTS Job, Worker, Nobody

VARIABLES
    status,     \* of each job, "none" while the row does not exist
    holder,     \* who works on it with a valid lease
    work        \* what each worker believes it is working on

queue == <<status, holder, work>>

Active == {"pending", "processing"}
Ended == {"completed", "failed"}
QueueStatus == Active \cup Ended \cup {"none"}

Init ==
    /\ status \in [Job -> {"none", "pending", "completed", "failed"}]
    /\ holder = [j \in Job |-> Nobody]
    /\ work = [w \in Worker |-> Nobody]

Becomes(j, s, w) == status'[j] = s /\ holder'[j] = w

Add(j) == status[j] \notin Active /\ Becomes(j, "pending", Nobody)

Cancel(j) == status[j] = "pending" /\ Becomes(j, "failed", Nobody)

Claim(j) == \E w \in Worker :
    /\ status[j] = "pending"
    /\ work[w] = Nobody /\ work'[w] = j
    /\ Becomes(j, "processing", w)

\* The holder dies or gives up without a word.
Lose(j) == \E w \in Worker :
    /\ status[j] = "processing"
    /\ holder[j] = w /\ work'[w] = Nobody
    /\ Becomes(j, "processing", Nobody)

\* The job has been processed for too long.
Recover(j) ==
    /\ status[j] = "processing"
    /\ \E s \in {"pending", "failed"} : Becomes(j, s, Nobody)

\* Its holder ends the job, or puts it back for another turn, and is done.
Finish(j) == \E w \in Worker :
    /\ status[j] = "processing"
    /\ holder[j] = w /\ work'[w] = Nobody
    /\ \E s \in {"pending", "completed", "failed"} : Becomes(j, s, Nobody)

Same(j) == Becomes(j, status[j], holder[j])

\* A worker turns to a job only by claiming it.
Works(w) == work'[w] \in {work[w], Nobody} \/ holder'[work'[w]] = w

Next ==
    /\ status' \in [Job -> QueueStatus]
    /\ holder' \in [Job -> Worker \cup {Nobody}]
    /\ work' \in [Worker -> Job \cup {Nobody}]
    /\ \A w \in Worker : Works(w)
    /\ \A j \in Job :
        \/ Add(j) \/ Cancel(j) \/ Claim(j) \/ Lose(j)
        \/ Recover(j) \/ Finish(j) \/ Same(j)

Spec == Init /\ [][Next]_queue
=============================================================================
