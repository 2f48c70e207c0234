# Verification of Dota Notes

Dota Notes is a monorepo: a Windows desktop client, a mobile client, a website, an Express API
and background workers around one PostgreSQL database. This project models the parts in which
processes meet: the replay pipeline, the synchronisation of matches, the way from a match to its images, the
monthly reference, and the desktop client's downloads. TLC checks each on small instances; TLAPS proves what
matters most of each for instances of every size. All source paths are relative to `src/`; `replay-parser/`
stands for `apps/api/scripts/replay-parser/` and `lib/` for `apps/api/src/lib/`.

## 1. The system: inventory

The API on the application node answers users and writes jobs into the database. Workers on
the compute node claim jobs, call providers (OpenDota, STRATZ, Valve's replay servers, the ParsPack object
store) and write results. Nodes share the database, and nothing else: the spool of replay files is on the
compute node's disk only. The desktop client talks to the API and keeps its own list of downloads.

| Component | State it keeps | Operations | What is hard |
| --- | --- | --- | --- |
| Replay job policy (`replay-job-policy.mjs`) | none | retry decision, processing plan | limits that depend on the last error |
| Replay worker service (`run-pipeline.mjs`, `run-queue.mjs`) | `local_replay_jobs`, provider cooldown | claim, prepare, parse, end, fail, heartbeat, recover | lanes interleave, leases lost under living lanes, crashes between statements |
| Archive lane (`run-pipeline.mjs`, `replay-archive.mjs`) | `replay_archive_jobs`, object store, storage circuit | claim, upload, confirm, activate, fail | a second lease on the same match, partial failure |
| Transport and spool (`replay-transport.mjs`, `replay-spool.mjs`, `replay-pipeline-capacity.mjs`) | spool files, checkpoints, reservations | resume, write, seal, verify, reserve, clean | files changed outside the lease's fence |
| Replay requests and local delivery (`lib/replay/job-repository.ts`, `local-file.ts`) | rows of `local_replay_jobs` | request, look up the archive, serve a file | statements between which workers run |
| Archive page (`routes/admin/replay-archive/route.ts`) | objects, `archive_status` | delete by key or folder | check, delete and mark are three steps |
| Importer (`import-replay.mjs`) | `dota_matches.local_replay_data` | parse and store | commits on its own connection, without a lease |
| Match synchronisation (`lib/sync/`) | `sync_jobs`, cursors and cooldowns of `users`, complete journal days | enqueue due, claim, complete, reschedule, recover; ranges in batches; manual requests | jobs outlive their locks, transactions lock rows in different orders |
| Match images (`lib/match-image-job/`, `lib/media/`) | `match_image_jobs`, `match_images`, object store | claim, progress, defer, publish, clean up, complete | waits for a parse; three-step publication |
| OpenDota parse (`lib/opendota-parse/`) | `opendota_parse_jobs`, `dota_matches.rawData` | request, claim, submit, poll, save, recover | requests rewrite a job under its worker |
| Monthly reference (`lib/monthly-reference/`) | versions and their rows | tick, failure, rebuild, publish, select | ticks overlap and hold a version for minutes |
| Desktop tasks and connection (`apps/desktop/src/taskManager.ts`) | list of downloads, local storage | accept, poll, transfer, settle, restore | reloads, stale answers, replaced rows |
| Native download (`apps/desktop/src-tauri/src/replay.rs`, `replay_download.rs`) | lock, partial file, replay folder | look, ticket, transfer, verify, publish | outlives the page that asked for it |
| STRATZ enrichment (`lib/stratz/`) | enrichment jobs | enqueue, claim, save, retry | rate limits, expiry (the queue's tick has no caller at this commit) |
| OpenDota quotas (`lib/opendota/repository.ts`) | daily and minute counters | reserve, release, cursor | reservations that are not used |
| Password recovery, sessions (`lib/auth/`) | codes, challenges, sessions | enrol, challenge, verify, reset | one-time use, attempt limits |
| Analysis formulas (`lib/dota/`), UI | none | pure | |

### How the parts work

**Replay pipeline.** A user asks for a replay as a *download* or an *analysis*; the request upserts the match's row in
`local_replay_jobs`. One worker process (an advisory lock keeps it alone) runs prepare, parse and archive
*lanes*, each a loop over one database connection. A **prepare lane** claims a pending row by writing `locked_at`,
the lease; looks whether the archive or the spool has the file; otherwise waits for metadata, reserves space,
restores or downloads the file, *seals* it (size and SHA-256 in the row), upserts an archive task and ends the job
or, for an analysis, queues it as `awaiting_parse`. A **parse lane** claims such a row and runs the importer. An **archive lane**
claims an archive task under a lease of its own and uploads the sealed file. Every update of the row that is leased compares the lease; the archive's upsert, the activation and the writes to the spool do not.
Heartbeats keep it alive; `recoverLeases` returns rows whose heartbeat is two minutes old and gives up those whose window or
attempts are spent. A lane that misses its lease
at a statement throws, and the process ends with code 1; the unit has `Restart=on-failure` and comes back. A heartbeat that misses it first, or a lost connection, aborts all lanes, `main()` returns and the process ends with code 0:
then somebody has to start the unit (section 4, finding 3).

**Match synchronisation.** Several processes run ticks over `sync_jobs`. A tick recovers stale jobs, serves one batch of a manual range, enqueues
due accounts, and serves a scheduled job. A range request locks the account, looks at the job rows it can lock and takes over, inserts or refuses;
a range is served in batches by different ticks, the visited and failed matches being kept in the row, and ends by marking its journal days complete.

**Parse and images.** A journal entry is linked to a match of the provider. OpenDota parses the match's replay when it is asked to
(`opendota_parse_jobs`: submit, then poll); an image job (`match_image_jobs`) defers itself until the parse has ended, renders, uploads, replaces the shown rows and deletes the objects shown before.

**Monthly reference.** A timer's ticks collect a month's statistics, batch by batch, into a version, which is published once complete and retires the version before it.
The timer gives a tick up after five minutes while its handler goes on, so ticks overlap. Analyses select a published version and read its rows later.

**Desktop.** The page's task manager asks the server for a replay, polls until it is ready and hands the download to the Tauri process, which has one lock,
verifies what it transfers, and never replaces a file. The list is copied to local storage at every publication; a new page restores it and meets a native download that still runs. The user may choose another Dota folder meanwhile; the list is left as it is.

What makes it correct:

- a request is never dropped, never turned into less while open, never closed without its analysis, and ends;
- status and lease agree; who lost a replay job's lease changes no row of that table, nor who lost a backup's lease of the other (what is not compared with the lease is not covered: the archive's upsert, the activation, the spool); who lost a job of another queue undoes nothing of its new holder;
- a sealed file is the replay; a job that waits for its parse has it; a completed job can be downloaded; every sealed replay is archived or has a task that ends;
- journal days are marked complete only when the matches that the provider listed when the range was asked for were imported; an answered range was visited; requests and cursors move with their jobs;
- shown images exist, unless the answer to a commit was lost; image and parse jobs end; a month has one active and at most one building version, each batch counted once, published only when complete and never rewritten;
- an accepted download is not lost, is not called completed without its file (in the folder chosen then), replaces no file, and ends unless the server falls silent about it.

The hazards behind these, each at its line, are in `PROJECT.json`.

## 2. The modules

| Module | Models | Correspondence |
| --- | --- | --- |
| `ReplayPolicy` | `replay-job-policy.mjs` | `retryDecision`, `processingPlan`, limits, classes of errors |
| `ReplayState` | tables, disk, store, lanes in memory | `job`, `arch` are the two tables by match; `parsed`, `meta` columns of `dota_matches`; `file` the spool; `object` the store; `lane[l]` a lane's step, its in-memory row and what it learnt; `client`, `admin` API calls between two statements; `service` the process and its unit (up; draining or failing, on its way to exit code 0 or 1; stopping, for an operator; down, to be restarted; exited; stopped); `cooling`, `circuit` the provider cooldown and the storage circuit |
| `ReplayForeground` | prepare and parse lanes: `handle`, `parsePrepared`, `finishForeground`, `failJob` | one action per SQL statement, file operation or remote call with the computation around it |
| `ReplayBackup` | archive lanes: `claimArchive`, `archiveCheckpoint`, `uploadReplay` | same |
| `ReplayApi` | requests, archive page, delivery of the file: row, open, digest, unseal of a broken one | same |
| `ReplayPipeline` | composition, `recoverLeases`, clock, disk, termination, lost connection, crash, restart after a failure, an operator's start; `Spec`, `FairSpec` | |
| `ReplayRequest` | abstract promise: a match's request is none, open, delivered or failed | implemented by the job table, `RequestsKept` |
| `LeaseQueue` | abstract queue of leased jobs: claimed by one worker, who alone decides how the claim ends, unless it is recovered from him | implemented by `sync_jobs` (`JobsAreLeased`), `match_image_jobs` (`ImagesAreLeased`), `opendota_parse_jobs` (`ParsesAreLeased`) |
| `MatchSync` | `lib/sync/` | `job` is `sync_jobs`; `user` the account's cursor, cooldown and row lock; `journal` imported matches; `complete` journal days marked; `request` a range request between its statements; `worker` each tick; `listed` what the provider lists by now, `moved` the matches whose entry the owner linked to another. One action per statement; `txn` is the transaction that holds a row's lock |
| `MatchImages` | `lib/match-image-job/`, `lib/media/service.ts`, `lib/opendota-parse/` and the calls that link, reprocess and request | `link`, `stored`, `image`, `parse`, `shown` are the tables, `object` the store, `provider` what OpenDota has parsed, `worker` and `call` what runs between two statements, `enabled` is `OPENDOTA_PARSE_ENABLED`; `unanswered`, which no action reads, the entries whose images were committed in an answer that was lost |
| `MonthlyReference` | `lib/monthly-reference/service.ts`, the tick's route, the selection in `lib/dota/match-analysis-repository.ts` | `version` is the table with how often each batch went into its rows, `tick` what a handler holds, `analysis` the version selected, `calendar` the month and whether its weeks are settled |
| `DesktopTasks` | `taskManager.ts`, `replay.rs`, `replay_download.rs` | `row` and `stored` are the list and its copy, `asked` requests under way, `poll` the tick with its captured rows, `promise` the page's native call, `native` the lock's holder, `folder` the installation chosen, `file` the replay folder of each, `server` what the API answers; `elsewhere`, which no action reads, the matches not yet fetched since another folder was chosen |
| `*Properties` | all properties of the component of that name (`ReplayProperties`, `MatchSyncProperties`, `MatchImagesProperties`, `MonthlyReferenceProperties`, `DesktopTasksProperties`) | |
| `MC*` | the modules TLC runs | constants in the `.cfg` files |
| `ReplayTypeProofs`, `ReplayRequestProofs`, `ReplayDeliveryProofs`, `MatchSyncProofs`, `MatchImagesProofs`, `MonthlyReferenceProofs`, `DesktopTasksProofs` | theorems | section 5 |

An action's granularity is the code's: what happens between two awaits is one step, and anybody may run between two steps. A mutant
of a definition, named for the mistake it makes and marked as such in a comment, stands before that definition; nothing else uses it.

### Abstractions

Everywhere:

- **Time.** Delays are left out, so a retry may be immediate and a lock may become stale whenever its holder is slow enough: every order that the delays allow is a behaviour.
- **Lease token.** A worker claims only between two tasks and never holds two, so its name serves for `locked_at`.
- **Provider answers** are chosen freely from the classes of answers and faults the code distinguishes.

Replay pipeline:

- The 24-hour deadline and window, which every request sets together, are one flag `late`. A retry whose delay would end after
  the deadline fails at once; before the deadline both outcomes are possible.
- Heartbeats appear through their effect. `RecoverJob` may return a row whose lane is gone at any time; a row
  whose lane lives only as a *stall* (its statements hung for two minutes), and stalls are counted by `MaxStalls`.
- A file is absent, partial, good, or bad: bytes of two write streams that overlapped, or that the disk damaged. A digest tells good from bad, a size does not.
- A download's three attempts in one call are one; routes, ETags and offsets are left out. Capacity is a refusal that may always happen.
- The one-shot worker (`run-queue.mjs` `main`) and its `enqueue` command are not modelled; `InheritedRow` is a row it leaves behind, from which some
  runs start: stored, not confirmed, out of retries. The status `waiting_file`, which no code sets any more, is left out.
- The importer may store the analysis and still be reported as failed: it has its own connection.
- The object store's keys in the older format, and multipart uploads, are not distinguished. The archive page deletes the files of a folder eight at a time; here it deletes them one by one, in any order, and
  then marks the folder's rows with one statement.

The others:

- `MatchSync`: row locks are modelled because transactions take them in different orders; a statement that meets a locked row waits, or skips it where the code says `skip locked`. How far a scheduled refresh reads the feed is open: any of the matches listed by now. The matches of `Late` are listed only later, as those of a day that is not over; those of `ByHand` may take the place of another in the journal. An account asks only while the bounds leave room for its job.
- `MatchImages`: the three images of a match are one object, rendering is one step that succeeds or fails. Of the provider's answer only matters whether the replay is parsed in it. Age limit and quota are refusals that may happen at any claim.
- `MonthlyReference`: a batch's rows are one count of how often they were added; means and the pruning of small samples are left out.
- `DesktopTasks`: `requestedAt` strictly increases. A file with a valid header counts as the replay, as in the code; nobody deletes files from a folder. The server is *silent* when it answers what neither ends a row nor lets it start, although nobody works on the replay: an archive entry marked deleted or missing, or a finished job whose replay only the API host's spool has. Toasts, announcements and the connection state are left out, except that any request may fail.

## 3. The runs

Deadlock is not checked in any run: the bounds on requests and faults run out and the system may rest.
Actors of one kind are interchangeable.

| Run | Instance | Question |
| --- | --- | --- |
| `requests` | one lane of each kind, two requests; one termination, lost connection, crash or stall | Are rows, leases, spool and backup tasks consistent at every step, and is the abstract request implemented? |
| `stale_lanes` | two prepare lanes, two requests of which one may be aged, an unconfirmed upload of the one-shot worker; one stall, lost file or deletion | Does a lane whose lease was recovered change a row of the table it leased from? Is the analysis there when the job completes? |
| `ends` | `FairSpec`, API on the application node, one request, two terminations, lost connections or crashes | Does every request and every backup task end, unless the unit ended without a failure and nobody starts it? |
| `v_awaiting`, `v_spool`, `v_exit` | see section 4 | Findings: the code does not do what a document or comment says |
| `sync_ranges` | `FairSpec`, two ticks, one job, a range of two batches with a match of another mode that is listed late and an entry linked by hand; any number of crashes and outlived locks | Is what was listed when a range was asked for visited and imported when it is reported and its days are marked, and does the job end? |
| `sync_requests` | `FairSpec`, two ticks, two jobs, scheduled refreshes and requests of one account, no matches | Are requests atomic and answered although transactions lock rows in different orders, do cursors move with their jobs, is the table a lease queue? |
| `images` | two entries, two matches, three objects, two image workers, one parse worker, two callers, two calls; one crash, outlived lease or lost answer; parses enabled or not | Are both tables lease queues, and is a shown image deleted only by the worker whose commit was not answered? |
| `images_end` | `FairSpec`, one of each, retries of submissions and polls, parses enabled or not | Does every parse job end where parses are enabled, and every image job that does not wait for a parse nobody serves? |
| `references` | `FairSpec`, two months of which the second lacks coverage, four versions of which one of an earlier policy, two ticks, one rebuild, one analysis | Is what is published complete, single and unchanged, and is each month published in the end? |
| `desktop` | `FairSpec`, two matches, two requests, two Dota folders, and one new page, start, deletion, foreign file or dialog | Is an accepted download kept, completed only with its file, and ended? |

Why the bounds are enough to be interesting. `MaxNetwork`, `MaxMetadata`, `MaxArchive` (6, 12, 8 in the code) are 1 or 2: a first attempt, a retry, and an end by each limit, with the
two limits apart. One match has its own row, file, object and tasks, and matches share only lanes, cooldown, circuit and process, so one match meets all
interference that the bounds on actors allow. Two requests are needed for an upgrade of a download to an analysis while a lane serves it and for a request after a failure.
One stall is enough for two lanes on the same match; one stop is enough to cut any pair of steps apart. `requests` and `stale_lanes` take one fault per behaviour (`OneStop`, `OneFault`), which keeps them small; `ends` takes two stops, so that a unit that was restarted may end again.
One job is enough for a range, which nothing supersedes while it is active. Two batches are the least for which visited and failed matches must survive between ticks; two ticks the least for an outlived lock. Three objects for two entries let an upload run beside two shown images.
Two versions of a month and a third for a rebuild meet in `references`. In `desktop` the list is never full: with `MaxRows = 1` the newer of two requests pushes the older out of it by design (`slice(-30)`), so
`AcceptedKept` makes an exception of it; the theorems of section 5 hold for every length.
For every property that is proved the bounds do not matter, up to the conditions named in section 5.

### Fairness

- **Replay.** Weak fairness of each lane's own steps (statements time out after 10 s, transfers after their limits, so each ends one way or another);
  of the claims of each match (a lane polls every 1.5 s and the claim's order is by the owner's last dispatch); of recovery of each match (at the start and every minute, `run-pipeline.mjs:133`);
  of the closing of a match's window, the ends of the cooldown and of the circuit's pause (clocks); of the exit of a process whose lanes have ended, and of its restart **after a failure** (`dota2notes-replay.service:8`, `Restart=on-failure`).
  No timer is assumed: `docs/deployment-ubuntu.md:277-278` and `docs/replay-pipeline-tasks.fa.md:68,77,102` keep `dota2notes-replay.timer` off, so a unit that ended with code 0 may stay inactive for ever (`StaysInactive`), and `RequestsEnd` and `BackupsEnd` make an exception of it.
  A claim is fair per match and not per lane; that no user starves under a constant stream of other users' requests is a matter of the dispatch order, which is not modelled.
- **Synchronisation.** Ticks are started again and again (weak fairness of claims and recovery), statements return, PostgreSQL breaks deadlocks and grants a row's lock in the order of the requests for it: strong fairness of a tick's and a request's next statement. Locks of dead holders go stale. `JobsEnd` assumes that an account's requests do not go on for ever: each that locks the account just when a recovery is about to fail its job puts that recovery off.
- **Images.** Weak fairness of ticks, claims, recovery and staleness (a parse tick does nothing unless `OPENDOTA_PARSE_ENABLED`, which defaults to false: `ParsesEnd` is about where it is set, and `ImagesEnd` excepts a job that `WaitsForNobody`); strong fairness of the parse worker's quota check and poll, because neither a refusal of the quota nor an unfinished answer is counted: without it a parse could be put off for ever.
- **Monthly reference.** Weak fairness of ticks and of the retry hour; strong fairness that *some* tick saves a whole answer. `ReferencesEnd` speaks of months before the first that lacks coverage.
- **Desktop.** Timers run; requests, the native process and the dialog end. Of the server nothing is assumed: `DownloadsEnd` is about a server that does not work on the replay for ever, and excepts one that falls silent about it; a repeated poll or status request gets through some day with no copy of the list made meanwhile, and a row is not passed over for ever.

Nothing is assumed of users, administrators, terminations, crashes, stalls or losses, nor that any single remote call succeeds.

## 4. Findings

Each is a run that TLC must find violated, with the quoted line in `PROJECT.json`.

1. `v_awaiting`: a download found in the archive needs no spool file; an analysis request that upgrades it before it ends sends it to `awaiting_parse` all the same, and the
   parse lane fails it for good (`replay_checkpoint_invalid`).
2. `v_spool`: the truncation of a full spool file comes before the first lease check of the call; a lane that hung there destroys the file its successor sealed.

3. `v_exit`: the service is to be active always and its timer never started, but an error of the connection that holds the advisory lock, of an idle lane's connection or of a heartbeat
   ends the process with exit code 0, which `Restart=on-failure` does not bring back; the queues wait until somebody starts the unit.

Seen while modelling, without a run of their own:

- The archive page checks, deletes and marks in three steps; an activation or a HEAD in between leaves a deleted file marked active. (That `archive_status` says active of stored files only is therefore no property here.)
- A spool file lost while its backup task is pending: the task is claimed by nobody until a new request seals again (no run of `BackupsEnd` loses a file). A loss between the archive lane's last two steps can also leave a job that was sealed again with a completed task and no archive.
- An upgrade, and recovery itself, overwrites the error class by which `recoverLeases` picks the limit.
- An image job may fail with `opendota_analysis_not_ready` although its parse completed between the two reads of the tick; a relink may be reverted by a parse that saves later; an error after the commit in `lib/media/service.ts:116` deletes objects that are shown, and the entry shows nothing until its images are made again (the exception of `ImagesStored`).
- `OPENDOTA_PARSE_ENABLED` is false by default (`apps/api/src/lib/opendota-parse/config.ts:29`; `docs/backend.env.example:34` sets it), and `docs/deployment-ubuntu.md:277-278` keeps timers off: an image job whose match waits for a parse then takes its attempt back and defers for ever (the exception of `ImagesEnd`).
- After a stale lock two ticks may refresh one account at once (`apps/web/README.md:247-249` says otherwise); nothing is counted twice. The last failure of a scheduled refresh moves the cursor.
- A manual range of a month marks only its first seven days as complete. A range that includes today marks today complete while matches of today are still to be played, and nothing takes the mark back; so `CompleteDaysImported` speaks of what was listed when the range was asked for.
- A month whose coverage stays incomplete is built first every time and blocks the later ones; `recordMonthlyFailure` writes to whichever version is being built.
- A desktop row whose archived replay is deleted stays in preparation: no answer ends it. Neither does any where the API host still has the replay's file but neither archive nor queue has (`job-repository.ts:90,131-134`, `taskManager.ts:110-111`): the exception of `DownloadsEnd`.
- Rows of the desktop's list stay completed when another Dota folder is chosen, in which their replays are not (the exception of `CompletedIsPlayable`).

## 5. Proofs

Every safety property, action property and refinement that a passing run checks is also the subject of a theorem, for every number (finite or not, where the code does not count) of matches, lanes, accounts, ticks, versions
and entries, and for all limits and bounds. The assumptions are the named ones on the constants: `LimitsAssumption`, `LanesAssumption`, `BoundsAssumption`, `SyncAssumption`, `ImagesAssumption`, `Bounds`, `DesktopAssumption`; TLC evaluates them in every run.

### Replay: leases and requests (`ReplayTypeProofs`, `ReplayRequestProofs`)

| Theorem | States | Argument |
| --- | --- | --- |
| `TypeCorrect` | `[]TypeOK` | The inductive `TypeInv` adds that a lane, a client or the archive page at work has a match: without it a lane would copy a row from outside of the tables. One lemma per group of steps. |
| `LeasesInStep` | `[]LeaseInv` | Every step of every actor makes at most one *move* of one row (`NextMove`): bookkeeping, claim, return, give up, deliver, ask, upgrade. Each move keeps status and lease in step. |
| `AnalysisIsDelivered` | `[]AnalysisDelivered` | `LearntInv`: what a lane believes parsed is. A lane delivers from what it read earlier; `LearntInv` says that this is not stale. |
| `StaleLanesAreFenced` | `StaleLaneWritesNothing` | A step of a lane either leaves its table alone or has the lease, and changes no other lane. |
| `PipelineKeepsRequests` | `RequestsKept`, that is `Request!Spec` | Initial states map to initial states; every move of a row, and every import, is a step of `ReplayRequest` or none. |

### Replay: the file itself (`ReplayDeliveryProofs`)

| Theorem | States | While |
| --- | --- | --- |
| `SealedIsIntact` | `SealedReplayIntact` | `Undisturbed` |
| `AwaitingParseIsReady` | `AwaitingParseHasReplay` | `Undisturbed`, nothing inherited |
| `CompletedIsThere` | `CompletedIsAvailable` | `Undisturbed` |
| `BackupsAreOwed` | `BackupOwed` | `Undisturbed`, `NothingDeleted` |
| `ReplayIsDelivered` | all four, unconditionally, of every instance without losses, deletions and inherited rows that has no stalls or only one prepare lane | |

The invariant `ReplayInv` says, of each match, that only claimed rows have work (`LeasePhase`), a sealed file is whole (`SealWhole`), an active entry is stored (`ActiveStored`), a completed job has its replay (`DoneKept`)
and keys are of sealed replays (`KeySealed`); of each prepare lane what it has on disk, in the row and in the store at each of its steps (`PrepareInv`); and what parse lanes, archive lanes and API calls have learnt. `SealedReplayIntact` alone
is not inductive: between two statements the file changes and the row does not, so what a lane has done so far must be known. The argument: while it is undisturbed a prepare lane at work holds its lease, so a match has one writer;
the steps of that writer re-establish the invariant (`OwningStep`), and every other step *spares* the match: it leaves file, seal and store in a state in which everything that was known of them still is (`SparingStep`).

The conditions are what the code needs, and each is shown to be needed: a file lost on the disk breaks the first three properties at once; two prepare lanes after a stall mix their bytes (`v_spool`); an inherited archive entry has no seal (`v_awaiting`);
a deletion takes the archive's copy that made a backup unnecessary. Such a fault is never taken back in the model, so the theorems speak of behaviours up to their first one; what is left of a replay after one is neither proved nor checked.

### The other components

| Theorem | States | Argument |
| --- | --- | --- |
| `MatchSyncProofs`: `TypeCorrect`, `MarkedDaysAreImported`, `RangesAreVisited` | `TypeOK`, `CompleteDaysImported`, `CompletedRangeVisited`, of a provider whose list grows and an owner who links entries again: of the matches listed when the range was asked for (`known`) | What a tick remembers of a range (`BatchHolds`) and what the row remembers (`RowHolds`) together cover what was wanted; a tick without its lease may still mark days, so `BatchHolds` does not depend on the lease. |
| `RequestsAreAtomic`, `CursorsMoveWithJobs` | `RequestIsAtomic`, `CursorMovesWithJob` | `LockHolds`, `RequestHolds`: which rows a transaction has locked, and what it may assume of them. |
| `SyncJobsAreLeased` | `JobsAreLeased`, that is `LeaseQueue` | Every row moves in one of the listed ways (`Moves`), each a step of the abstract queue. |
| `MatchImagesProofs`: `TypeCorrect`, `ImagesAreStored` | `TypeOK`, `ImagesStored`, of entries whose last commit was answered | No two entries show one object (`ShownApart`); an upload is of an object nobody shows (`UploadHolds`), and the objects a worker will delete are shown no more (`PreviousHolds`). |
| `ImageJobsAreLeased`, `ParseJobsAreLeased` | `ImagesAreLeased`, `ParsesAreLeased` | Each table is locked by workers of its own (`OwnWorkers`), so every row moves in one of the listed ways (`Moved`) and every worker takes one of the listed turns (`Turns`): together a step of the abstract queue. |
| `MonthlyReferenceProofs`: `TypeCorrect`, `MonthHasOneOfEach`, `BatchesCountedOnce`, `AnalysesUseCompleteVersions` | `TypeOK`, `OneOfEach`, `CountedOnce`, `PublishedIsComplete` | These are inductive with `TicksHold`: the version a tick holds in memory still exists when the provider answers, and a cursor that was short of its end is compared before it moves. |
| `MonthKeepsFallback`, `HistoryUnwritten` | `FallbackKept`, `HistoryKept` | From the same invariant, action by action. |
| `DesktopTasksProofs`: `TypeCorrect`, `CompletedPlayable`, `NoFileReplaced`, `NoRequestForgotten` | `TypeOK`, `CompletedIsPlayable` in the folder chosen when the file was fetched, `FilesKept` in every folder, `AcceptedKept` | `PollHolds`, `NativeHolds`, `ListHolds`: what a poll captured and a native call was made for, by `requestedAt`, against the rows as they are now. |

In each module the invariant is a conjunction of named parts, every action has a lemma that says what it frames (`Framed`, `Kept`, `Spared`) and keeps, and the theorem's last step combines them with `PTL`. Each strengthened invariant was first checked by TLC
on the instances of the component's runs, or smaller ones like them.

### Only model-checked

- The eight liveness properties: `RequestsEnd`, `BackupsEnd`, `JobsEnd`, `RequestsAnswered`, `ParsesEnd`, `ImagesEnd`, `ReferencesEnd`, `DownloadsEnd` (and `AlwaysComesBack`, which is violated). Liveness under fairness, and `ENABLED`, are out of this prover's reach.
- Nothing is proved by induction over data, and no `RECURSIVE` operator is used.

## 6. Not modelled, and the plan

Not modelled because it would say little: user interface, mobile and web variants of the same API (`apps/web/lib` repeats `apps/api/src/lib`), analysis formulas (a reference would repeat them), deployment. Not yet modelled, in this order:

1. The spool: resume offsets and ETags, the reservation arithmetic and its cap (`run-pipeline` never cleans the spool), checkpoints across restarts; the transport's routes and circuits.
   Proof: reserved plus stored never exceed the cap.
2. The one-shot worker and `enqueue` beside the pipeline, as a second implementation of `ReplayRequest`.
3. OpenDota's quotas: reservations at their limits, windows reset by a late clock. STRATZ's queue as another `LeaseQueue`, once something calls its tick.
4. Password recovery: one-time codes, attempt limits, expiry.
5. Availability after one loss or deletion: a property that says what is left of a replay, checked, and proved from an invariant that says which of spool and archive still has the replay.

Two of the hazards in `PROJECT.json` have no property: an endless series of crashes by one replay (`run-queue.mjs:292`: the runs bound crashes) and the spool's cap (`replay-pipeline-capacity.mjs:18`: capacity is a refusal that may always happen). The hazard of a unit that ends without a failure
is shown by the violated run `v_exit`.
