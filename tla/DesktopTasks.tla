---------------------------- MODULE DesktopTasks ----------------------------
(***************************************************************************)
(* The downloads of the desktop client: the task manager of the page       *)
(* (taskManager.ts), its copy in local storage, the native download of the *)
(* Tauri process (replay.rs, replay_download.rs), which outlives the page, *)
(* and what the server says of a replay.                                   *)
(*                                                                         *)
(* The page is single-threaded: a step is what runs between two awaits.    *)
(* Time is left out; a delay ends whenever it likes.                       *)
(***************************************************************************)
EXTENDS Naturals, FiniteSets

CONSTANTS
    Match, NoMatch,
    Folder, NoFolder,   \* the Dota installations of the computer
    MaxRows,        \* 30, the length of the list
    \* Bounds on how often the environment acts
    MaxRequests,    \* calls of download()
    MaxEvents       \* new pages, starts, deletions, files of the Dota client and
                    \* dialogs for the Dota folder, taken together

ASSUME DesktopAssumption ==
    /\ IsFiniteSet(Match)
    /\ NoMatch \notin Match
    /\ Folder # {} /\ NoFolder \notin Folder
    /\ MaxRows \in Nat \ {0}
    /\ MaxRequests \in Nat
    /\ MaxEvents \in Nat

VARIABLES
    row,        \* state.downloads of the page, by match
    stored,     \* its copy in local storage
    asked,      \* the calls of POST /api/replays/:id under way, by match
    poll,       \* tick() and transferNext()
    cooling,    \* matches before their nativeRetryAt
    promise,    \* the page's native call, while `transferring`
    native,     \* the holder of ReplayState.busy
    folder,     \* the installation chosen in replays.json
    file,       \* the replay folders of the installations
    elsewhere,  \* history: the matches for which no native call has ended well
                \* since another folder was chosen
    server,     \* what GET /api/replays/:id answers
    clock,      \* the latest requestedAt
    spent

page == <<row, stored, asked, poll, cooling, promise>>
disk == <<folder, file, elsewhere>>
vars == <<page, native, disk, server, clock, spent>>

Active == {"preparing", "transferring"}
Over == {"completed", "failed"}
Budgets == {"requests", "events"}

\* "ready" stands for an active archive entry, "hollow" for one whose object is
\* gone, and "failed" for what ends a row of the list: a failed job of a replay
\* that nobody has, or a failed archive task. "silent" is what neither ends a row
\* nor lets it start although nobody works on it: an entry marked as deleted or
\* missing, or a job that is over and has left its replay on the API host alone.
Answers == {"none", "working", "ready", "hollow", "failed", "silent"}
Results == {"ok", "refused", "pending", "error"}

Row == [status : {"none"} \cup Active \cup Over, stamp : Nat]
Captured == [match : Match, stamp : Nat, status : Active]
PollState == [step : {"idle", "tasks", "status", "answer"}, match : Match \cup {NoMatch},
              stamp : Nat, left : SUBSET Captured, fresh : BOOLEAN, said : Answers]
PromiseState == [step : {"none", "sent", "waiting"} \cup Results,
                 match : Match \cup {NoMatch}, stamp : Nat]
NativeState == [step : {"idle", "look", "ticket", "transfer", "persist", "dialog"},
                match : Match \cup {NoMatch}, heard : BOOLEAN, content : {"none", "good", "bad"}]

NoRow == [status |-> "none", stamp |-> 0]
Resting == [step |-> "idle", match |-> NoMatch, stamp |-> 0, left |-> {}, fresh |-> FALSE,
            said |-> "none"]
NoPromise == [step |-> "none", match |-> NoMatch, stamp |-> 0]
Free == [step |-> "idle", match |-> NoMatch, heard |-> FALSE, content |-> "none"]

TypeOK ==
    /\ row \in [Match -> Row]
    /\ stored \in [Match -> Row]
    /\ asked \in [Match -> Nat]
    /\ poll \in PollState
    /\ poll.step \in {"status", "answer"} => poll.match \in Match
    /\ cooling \subseteq Match
    /\ promise \in PromiseState
    /\ native \in NativeState
    /\ native.heard => promise.step = "waiting"
    /\ folder \in Folder \cup {NoFolder}
    /\ file \in [Folder -> [Match -> {"none", "good", "bad"}]]
    /\ elsewhere \subseteq Match
    /\ server \in [Match -> Answers]
    /\ clock \in Nat
    /\ spent \in [Budgets -> Nat]

Init ==
    /\ row = [m \in Match |-> NoRow]
    /\ stored = row
    /\ asked = [m \in Match |-> 0]
    /\ poll = Resting
    /\ cooling = {}
    /\ promise = NoPromise
    /\ native = Free
    /\ folder \in {NoFolder, CHOOSE f \in Folder : TRUE}   \* they are all alike
    /\ file = [f \in Folder |-> [m \in Match |-> "none"]]
    /\ elsewhere = {}
    /\ server \in [Match -> {"none", "ready"}]
    /\ clock = 0
    /\ spent = [b \in Budgets |-> 0]

Spend(what, limit) ==
    /\ spent[what] < limit
    /\ spent' = [spent EXCEPT ![what] = @ + 1]

-----------------------------------------------------------------------------
(* The list *)

\* Mutant: the list is kept in memory only.
PublishUnstored(rows) == row' = rows /\ UNCHANGED stored

\* publish(): the list goes to local storage, and every row is replaced by a
\* copy, so that whoever holds a row from before writes to a dead object.
Publish(rows) == row' = rows /\ stored' = rows

Listed(rows) == {m \in Match : rows[m].status # "none"}
Oldest(rows) == {m \in Listed(rows) : \A n \in Listed(rows) : rows[m].stamp <= rows[n].stamp}

\* slice(-30)
Shortened(rows) ==
    IF Cardinality(Listed(rows)) <= MaxRows THEN rows
    ELSE [m \in Match |-> IF m \in Oldest(rows) THEN NoRow ELSE rows[m]]

\* The constructor: an interrupted transfer is prepared again.
Restored == [m \in Match |->
    [status |-> IF stored[m].status \in Active THEN "preparing" ELSE stored[m].status,
     stamp |-> stored[m].stamp]]

Stale(p) == [p EXCEPT !.fresh = FALSE]

-----------------------------------------------------------------------------
(* download(matchId), dismiss(matchId) *)

\* The page offers a download only where a folder was chosen.
Download(m) ==
    /\ folder \in Folder
    /\ row[m].status \notin Active
    /\ Spend("requests", MaxRequests)
    /\ cooling' = cooling \ {m}
    /\ asked' = [asked EXCEPT ![m] = @ + 1]
    /\ UNCHANGED <<row, stored, poll, promise, native, disk, server, clock>>

\* What requestReplayByDotaId may leave: it queues a job unless one is queued, the
\* archive has the replay, or the API host has it, which is "ready" and all.
Requested(answer) ==
    CASE answer \in {"working", "ready"} -> {answer}
      [] answer = "none" -> {"working"}
      [] answer \in {"hollow", "failed", "silent"} -> {"working", answer}

Answered(m) ==
    /\ asked[m] > 0
    /\ asked' = [asked EXCEPT ![m] = @ - 1]

\* The server refuses, or its answer is lost.
CallFails(m) ==
    /\ Answered(m)
    /\ \E answer \in Requested(server[m]) \cup {server[m]} :
          server' = [server EXCEPT ![m] = answer]
    /\ UNCHANGED <<row, stored, poll, cooling, promise, native, disk, clock, spent>>

Accepted(m) ==
    LET new == [status |-> "preparing", stamp |-> clock + 1]
    IN /\ Answered(m)
       /\ clock' = clock + 1
       /\ Publish(Shortened([row EXCEPT ![m] = new]))
       /\ poll' = Stale(poll)
       /\ \E answer \in Requested(server[m]) : server' = [server EXCEPT ![m] = answer]
       /\ UNCHANGED <<cooling, promise, native, disk, spent>>

Dismiss(m) ==
    /\ row[m].status \in Over
    /\ Publish([row EXCEPT ![m] = NoRow])
    /\ poll' = Stale(poll)
    /\ UNCHANGED <<asked, cooling, promise, native, disk, server, clock, spent>>

\* A toast or a change of the sync job is published.
Republish ==
    /\ poll.fresh
    /\ Publish(row)
    /\ poll' = Stale(poll)
    /\ UNCHANGED <<asked, cooling, promise, native, disk, server, clock, spent>>

-----------------------------------------------------------------------------
(* tick(), transferNext(): `left` are the rows still to be visited, as they *)
(* were when the loop began; while `fresh` they are the rows of the list.   *)

MustSkip(q) == q.match \in cooling

\* A row that is `transferring` is passed over for 15 s after it was written to.
MaySkip(q) == MustSkip(q) \/ q.status = "transferring"

Visit(left, fresh) ==
    \/ \E q \in left :
          /\ ~MustSkip(q)
          /\ \A p \in left : p.stamp < q.stamp => MaySkip(p)
          /\ poll' = [step |-> "status", match |-> q.match, stamp |-> q.stamp,
                      left |-> {p \in left : p.stamp > q.stamp}, fresh |-> fresh,
                      said |-> "none"]
    \/ (\A p \in left : MaySkip(p)) /\ poll' = Resting

Tick ==
    /\ poll.step = "idle"
    /\ poll' = [poll EXCEPT !.step = "tasks"]
    /\ UNCHANGED <<row, stored, asked, cooling, promise, native, disk, server, clock, spent>>

Waiting == {[match |-> m, stamp |-> row[m].stamp, status |-> row[m].status] :
               m \in {n \in Match : row[n].status \in Active}}

TasksAnswered ==
    /\ poll.step = "tasks"
    /\ Publish(row)
    /\ IF promise.step = "none" THEN Visit(Waiting, TRUE) ELSE poll' = Resting
    /\ UNCHANGED <<asked, cooling, promise, native, disk, server, clock, spent>>

\* Offline, or aborted because the window is hidden.
PollFails ==
    /\ poll.step # "idle"
    /\ poll' = Resting
    /\ UNCHANGED <<row, stored, asked, cooling, promise, native, disk, server, clock, spent>>

StatusRead ==
    /\ poll.step = "status"
    /\ poll' = [poll EXCEPT !.step = "answer", !.said = server[poll.match]]
    /\ UNCHANGED <<row, stored, asked, cooling, promise, native, disk, server, clock, spent>>

StatusFails ==
    /\ poll.step = "status"
    /\ Visit(poll.left, poll.fresh)
    /\ UNCHANGED <<row, stored, asked, cooling, promise, native, disk, server, clock, spent>>

\* task.status = ...; this.publish()
Write(status) ==
    Publish(IF poll.fresh
            THEN [row EXCEPT ![poll.match].status = status]
            ELSE row)

HeardFailure ==
    /\ poll.said = "failed"
    /\ Write("failed")
    /\ Visit(poll.left, FALSE)
    /\ UNCHANGED <<asked, cooling, promise>>

HeardReady ==
    /\ poll.said \in {"ready", "hollow"}
    /\ Write("transferring")
    /\ promise' = [step |-> "sent", match |-> poll.match, stamp |-> poll.stamp]
    /\ poll' = Resting
    /\ UNCHANGED <<asked, cooling>>

HeardNothing ==
    /\ poll.said \in {"none", "working", "silent"}
    /\ Visit(poll.left, poll.fresh)
    /\ UNCHANGED <<row, stored, asked, cooling, promise>>

Heard ==
    /\ poll.step = "answer"
    /\ HeardFailure \/ HeardReady \/ HeardNothing
    /\ UNCHANGED <<native, disk, server, clock, spent>>

-----------------------------------------------------------------------------
(* download_replay in the Tauri process *)

Invoke ==
    /\ promise.step = "sent"
    /\ IF native.step = "idle"
       THEN /\ native' = [step |-> "look", match |-> promise.match, heard |-> TRUE,
                          content |-> "none"]
            /\ promise' = [promise EXCEPT !.step = "waiting"]
       ELSE /\ promise' = [promise EXCEPT !.step = "refused"]
            /\ UNCHANGED native
    /\ UNCHANGED <<row, stored, asked, poll, cooling, disk, server, clock, spent>>

\* The guard is dropped and the page, if it is still the one that asked, hears.
End(result) ==
    /\ native' = Free
    /\ promise' = IF native.heard THEN [promise EXCEPT !.step = result] ELSE promise
    /\ elsewhere' = IF result = "ok" THEN elsewhere \ {native.match} ELSE elsewhere

Goes(step) == native' = [native EXCEPT !.step = step] /\ UNCHANGED <<promise, elsewhere>>

\* The folder is looked up once; the guard keeps the dialog away until the end.
here == file[folder][native.match]

pageButPromise == <<row, stored, asked, poll, cooling>>

\* A file that is there already is taken for the replay by its header.
Look ==
    /\ native.step = "look"
    /\ \/ folder \in Folder /\ here = "good" /\ End("ok")
       \/ End("error")      \* a file without the header, or no usable folder
       \/ folder \in Folder /\ here = "none" /\ Goes("ticket")
    /\ UNCHANGED <<pageButPromise, folder, file, server, clock, spent>>

\* GET /api/replays/:id/download; the server looks for the object itself.
Ticket ==
    /\ native.step = "ticket"
    /\ \/ server[native.match] = "ready" /\ Goes("transfer") /\ UNCHANGED server
       \/ /\ server[native.match] # "ready"
          /\ server' = [server EXCEPT ![native.match] = IF @ = "hollow" THEN "silent" ELSE @]
          /\ End("pending")
       \/ End("error") /\ UNCHANGED server
    /\ UNCHANGED <<pageButPromise, folder, file, clock, spent>>

\* Mutant: size and hash are not compared.
Unverified(content) == TRUE

Verified(content) == content = "good"

Transfer ==
    /\ native.step = "transfer"
    /\ \/ \E content \in {"good", "bad"} :
             IF Verified(content)
             THEN native' = [native EXCEPT !.step = "persist", !.content = content]
                  /\ UNCHANGED <<promise, elsewhere>>
             ELSE End("error")
       \/ End("error")
    /\ UNCHANGED <<pageButPromise, folder, file, server, clock, spent>>

Placed == file' = [file EXCEPT ![folder][native.match] = native.content]

\* Mutant: persist instead of persist_noclobber.
PersistOver ==
    /\ native.step = "persist"
    /\ Placed
    /\ End("ok")
    /\ UNCHANGED <<pageButPromise, folder, server, clock, spent>>

\* persist_noclobber
Persist ==
    /\ native.step = "persist"
    /\ IF here = "none" THEN Placed /\ End("ok") ELSE UNCHANGED file /\ End("error")
    /\ UNCHANGED <<pageButPromise, folder, server, clock, spent>>

Progress ==
    /\ native.step = "transfer"
    /\ row[native.match].status \in Active
    /\ Publish([row EXCEPT ![native.match].status = "transferring"])
    /\ poll' = Stale(poll)
    /\ UNCHANGED <<asked, cooling, promise, native, disk, server, clock, spent>>

\* The row the call was made for, unless it was replaced or forgotten.
Current == {m \in Match : m = promise.match /\ row[m].status # "none"
                          /\ row[m].stamp = promise.stamp}

Outcome(result) == CASE result = "ok" -> "completed"
                     [] result \in {"refused", "pending"} -> "preparing"
                     [] result = "error" -> "failed"

\* Mutant: `transferring` is reset only where the row is found.
SettleFound ==
    /\ promise.step \in Results
    /\ Publish([m \in Match |->
                   IF m \in Current
                   THEN [row[m] EXCEPT !.status = Outcome(promise.step)]
                   ELSE row[m]])
    /\ cooling' = IF promise.step \in {"refused", "pending"} THEN cooling \cup Current
                  ELSE cooling
    /\ promise' = IF Current = {} THEN promise ELSE NoPromise
    /\ poll' = Stale(poll)
    /\ UNCHANGED <<asked, native, disk, server, clock, spent>>

\* then, catch and finally of the native call
Settle ==
    /\ promise.step \in Results
    /\ Publish([m \in Match |->
                   IF m \in Current
                   THEN [row[m] EXCEPT !.status = Outcome(promise.step)]
                   ELSE row[m]])
    /\ cooling' = IF promise.step \in {"refused", "pending"} THEN cooling \cup Current
                  ELSE cooling
    /\ promise' = NoPromise
    /\ poll' = Stale(poll)
    /\ UNCHANGED <<asked, native, disk, server, clock, spent>>

-----------------------------------------------------------------------------
(* Clocks, restarts, the folder, the server *)

Cooled(m) ==
    /\ m \in cooling
    /\ cooling' = cooling \ {m}
    /\ UNCHANGED <<row, stored, asked, poll, promise, native, disk, server, clock, spent>>

\* Another sign-in of the account, or a reload: the native download goes on.
NewPage ==
    /\ row' = Restored
    /\ asked' = [m \in Match |-> 0]
    /\ poll' = Resting
    /\ cooling' = {}
    /\ promise' = NoPromise
    /\ Spend("events", MaxEvents)
    /\ UNCHANGED <<stored, disk, server, clock>>

\* Mutant: without `generation` a page hears the answers meant for the one before.
ReloadHearing == NewPage /\ UNCHANGED native

Reload == NewPage /\ native' = [native EXCEPT !.heard = FALSE]

Restart == NewPage /\ native' = Free

Pick ==
    /\ native.step = "idle"
    /\ \A m \in Match : row[m].status \notin Active
    /\ Spend("events", MaxEvents)
    /\ native' = [Free EXCEPT !.step = "dialog"]
    /\ UNCHANGED <<page, disk, server, clock>>

\* The dialog is closed with nothing chosen, the choice is refused, or replays.json
\* is replaced: the rows of the list stay as they are.
Picked ==
    /\ native.step = "dialog"
    /\ native' = Free
    /\ \/ UNCHANGED <<folder, elsewhere>>
       \/ \E f \in Folder \ {folder} : folder' = f /\ elsewhere' = Match
    /\ UNCHANGED <<page, file, server, clock, spent>>

FileAppears(m) ==
    /\ Spend("events", MaxEvents)
    /\ \E f \in Folder, content \in {"good", "bad"} :
          /\ file[f][m] = "none"
          /\ file' = [file EXCEPT ![f][m] = content]
    /\ UNCHANGED <<page, native, folder, elsewhere, server, clock>>

ServerEnds(m) ==
    /\ server[m] = "working"
    /\ \E answer \in {"ready", "failed", "silent"} : server' = [server EXCEPT ![m] = answer]
    /\ UNCHANGED <<page, native, disk, clock, spent>>

\* The archive page deletes the object and then marks the entry.
Delete(m) ==
    /\ server[m] = "ready"
    /\ Spend("events", MaxEvents)
    /\ server' = [server EXCEPT ![m] = "hollow"]
    /\ UNCHANGED <<page, native, disk, clock>>

Mark(m) ==
    /\ server[m] = "hollow"
    /\ server' = [server EXCEPT ![m] = "silent"]
    /\ UNCHANGED <<page, native, disk, clock, spent>>

-----------------------------------------------------------------------------
Page ==
    \/ \E m \in Match : Download(m) \/ CallFails(m) \/ Accepted(m) \/ Dismiss(m) \/ Cooled(m)
    \/ Republish \/ Tick \/ TasksAnswered \/ PollFails \/ StatusRead \/ StatusFails \/ Heard
    \/ Invoke \/ Settle \/ Progress

Native == Look \/ Ticket \/ Transfer \/ Persist

Environment ==
    \/ Reload \/ Restart \/ Pick \/ Picked
    \/ \E m \in Match : FileAppears(m) \/ ServerEnds(m) \/ Delete(m) \/ Mark(m)

Next == Page \/ Native \/ Environment

Spec == Init /\ [][Next]_vars

PollStep == TasksAnswered \/ StatusRead \/ Heard \/ StatusFails \/ PollFails

\* Timers run; a request, the native process and the dialog come to an end; a poll
\* or a status request that is repeated gets through some day with no copy of the
\* list made meanwhile. Of the server's workers nothing is assumed.
Fairness ==
    /\ WF_vars(Tick) /\ WF_vars(PollStep)
    /\ WF_vars(Invoke) /\ WF_vars(Native) /\ WF_vars(Settle) /\ WF_vars(Picked)
    /\ \A m \in Match :
         /\ SF_vars((TasksAnswered \/ Heard) /\ poll'.match = m /\ poll'.fresh)
         /\ SF_vars(poll.match = m /\ poll.fresh /\ StatusRead)
         /\ SF_vars(poll.match = m /\ poll.fresh /\ Heard)
         /\ WF_vars(Cooled(m))

FairSpec == Spec /\ Fairness
=============================================================================
