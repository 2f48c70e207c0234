-------------------------- MODULE MonthlyReference ---------------------------
(***************************************************************************)
(* The monthly reference: versions of a month's statistics, collected      *)
(* batch by batch by a timer's ticks and published when they are complete  *)
(* (monthly-reference/service.ts, the tick's route, the administrator's    *)
(* and the operator's rebuild, the analysis that reads a version).         *)
(* The timer gives a tick up after five minutes while its handler goes on, *)
(* so ticks overlap.  One tick reads a version without the lock, asks the  *)
(* provider, and commits under the lock.                                   *)
(***************************************************************************)
EXTENDS Integers, FiniteSets

CONSTANTS
    Months,         \* the months of the calendar, 1 .. Months
    Version,        \* ids of version rows
    Tick,           \* handlers that may run at the same time
    Analysis,       \* match analyses
    None,
    MetaTasks,      \* metaTasks.length: a rank and a mode each
    Batches,        \* performanceJobs(month).length
    Lacking,        \* months whose statistics never cover every minute
    Legacy,         \* versions of an earlier source policy
    MaxRebuilds     \* bound: rebuilds asked for

Month == 1..Months

ASSUME Bounds ==
    /\ Months \in Nat \ {0} /\ MetaTasks \in Nat \ {0} /\ Batches \in Nat \ {0}
    /\ Lacking \subseteq Month
    /\ Legacy \subseteq Version /\ \A v, w \in Legacy : v = w
    /\ None \notin Version
    /\ MaxRebuilds \in Nat

VARIABLES
    version,        \* monthly_reference_versions with the rows of each version
    tick,           \* what each handler holds in memory
    analysis,       \* the version each analysis has selected
    calendar,       \* the previous month, and whether its weeks are settled
    rebuilds        \* asked for so far

vars == <<version, tick, analysis, calendar, rebuilds>>

Status == {"none", "building", "active", "retired", "failed"}

\* metaRows and performanceRows say how often each batch went into the rows.
VersionRow == [status : Status, month : Month, current : BOOLEAN,
               meta : 0..MetaTasks, performance : 0..Batches,
               waiting : BOOLEAN,                   \* pendingMetaRetryAt
               metaRows : [1..MetaTasks -> Nat],
               performanceRows : [1..Batches -> Nat]]

TickState == [step : {"idle", "meta", "metaFetch", "performance", "performanceFetch",
                      "record", "write"},
              id : Version \cup {None}, cursor : Nat]

Idle == [step |-> "idle", id |-> None, cursor |-> 0]

Fresh(m) == [status |-> "building", month |-> m, current |-> TRUE, meta |-> 0,
             performance |-> 0, waiting |-> FALSE,
             metaRows |-> [i \in 1..MetaTasks |-> 0],
             performanceRows |-> [i \in 1..Batches |-> 0]]

NoRow == [Fresh(1) EXCEPT !.status = "none"]

\* An earlier policy may have left a version of the first month, published or not.
Init ==
    /\ \E status \in [Legacy -> {"building", "active"}] :
        version = [v \in Version |->
            IF v \in Legacy THEN [Fresh(1) EXCEPT !.status = status[v], !.current = FALSE]
            ELSE NoRow]
    /\ tick = [t \in Tick |-> Idle]
    /\ analysis = [a \in Analysis |-> None]
    /\ calendar = [month |-> 1, settled |-> FALSE]
    /\ rebuilds = 0

-----------------------------------------------------------------------------
(* ensureMonthlyReference: one transaction under the advisory lock. *)

Is(v, status, m) == version[v].status = status /\ version[v].month = m
Known(status, m) == \E v \in Version : Is(v, status, m) /\ version[v].current

\* Ids are random: it is of no consequence which unused one a row gets.
Unused(v) == version[v].status = "none"
NewId == CHOOSE v \in Version : Unused(v)

\* Mutant: the builders that the new version replaces are left alone.
CreateBeside(m) ==
    /\ \E v \in Version : Unused(v)
    /\ version' = [version EXCEPT ![NewId] = Fresh(m)]

\* Mutant: the month starts from nothing.
CreateAfresh(m) ==
    /\ \E v \in Version : Unused(v)
    /\ version' = [v \in Version |->
          IF v = NewId THEN Fresh(m)
          ELSE IF Is(v, "building", m) \/ Is(v, "active", m)
               THEN [version[v] EXCEPT !.status = "failed"]
          ELSE version[v]]

\* A fresh version supersedes the builders of its month, whatever their policy.
Create(m) ==
    /\ \E v \in Version : Unused(v)
    /\ version' = [v \in Version |->
          IF v = NewId THEN Fresh(m)
          ELSE IF Is(v, "building", m) THEN [version[v] EXCEPT !.status = "failed"]
          ELSE version[v]]

EnsureReference(m) ==
    IF Known("building", m) \/ Known("active", m) THEN UNCHANGED version ELSE Create(m)

\* The tick's route begins with the previous month, once its weeks have settled.
Ensure(t) ==
    /\ tick[t].step = "idle"
    /\ IF calendar.settled THEN EnsureReference(calendar.month) ELSE UNCHANGED version
    /\ tick' = [tick EXCEPT ![t].step = "meta"]
    /\ UNCHANGED <<analysis, calendar, rebuilds>>

Settled(m) == m < calendar.month \/ (m = calendar.month /\ calendar.settled)

\* The administrator's button and the operator's script.
Rebuild(m) ==
    /\ Settled(m)
    /\ rebuilds < MaxRebuilds
    /\ rebuilds' = rebuilds + 1
    /\ Create(m)
    /\ UNCHANGED <<tick, analysis, calendar>>

-----------------------------------------------------------------------------
(* runMonthlyMetaTick *)

Building(v) == version[v].status = "building" /\ version[v].current

\* The oldest month first: buildingVersion reads without the lock.
Oldest(v) == Building(v) /\ \A w \in Version : Building(w) => version[v].month <= version[w].month

NothingBuilds == \A v \in Version : ~Building(v)

Goto(t, step) == tick' = [tick EXCEPT ![t] = [Idle EXCEPT !.step = step]]

Holding(t, v, step, cursor) == tick' = [tick EXCEPT ![t] = [step |-> step, id |-> v, cursor |-> cursor]]

\* Mutant: the end of the task list is not noticed.
Waits(v) == version[v].waiting

NothingToAsk(v) == version[v].meta = MetaTasks \/ version[v].waiting

ReadMeta(t) ==
    /\ tick[t].step = "meta"
    /\ \/ NothingBuilds /\ Goto(t, "performance")
       \/ \E v \in Version :
            /\ Oldest(v)
            /\ IF NothingToAsk(v)
               THEN Goto(t, "performance")
               ELSE Holding(t, v, "metaFetch", version[v].meta)
    /\ UNCHANGED <<version, analysis, calendar, rebuilds>>

\* Mutant: the status is not looked at again.
MetaCurrentCursor(t) == version[tick[t].id].meta = tick[t].cursor

\* Under the lock: the version still builds and nobody moved its cursor.
MetaCurrent(t) ==
    LET row == version[tick[t].id] IN row.status = "building" /\ row.meta = tick[t].cursor

\* The rows and the cursor are one transaction.
CountMeta(t) ==
    LET v == tick[t].id
        next == tick[t].cursor + 1
    IN  version' = [version EXCEPT ![v].metaRows[next] = @ + 1,
                                   ![v].meta = next,
                                   ![v].waiting = FALSE]

SaveMeta(t) ==
    /\ tick[t].step = "metaFetch"
    /\ IF MetaCurrent(t) THEN CountMeta(t) ELSE UNCHANGED version
    /\ Goto(t, "performance")
    /\ UNCHANGED <<analysis, calendar, rebuilds>>

\* The source has no rows yet for a week or a position: an hour's pause.
PostponeMeta(t) ==
    /\ tick[t].step = "metaFetch"
    /\ version' = IF MetaCurrent(t)
                  THEN [version EXCEPT ![tick[t].id].waiting = TRUE] ELSE version
    /\ Goto(t, "performance")
    /\ UNCHANGED <<analysis, calendar, rebuilds>>

-----------------------------------------------------------------------------
(* runMonthlyPerformanceTick *)

ReadPerformance(t) ==
    /\ tick[t].step = "performance"
    /\ \/ NothingBuilds /\ Goto(t, "idle")
       \/ \E v \in Version :
            /\ Oldest(v)
            /\ IF version[v].meta < MetaTasks \/ version[v].performance = Batches
               THEN Goto(t, "idle")
               ELSE Holding(t, v, "performanceFetch", version[v].performance)
    /\ UNCHANGED <<version, analysis, calendar, rebuilds>>

\* Mutant: whoever read the building version commits, wherever its cursor is.
PerformanceBuilding(t) == version[tick[t].id].status = "building"

PerformanceCurrent(t) ==
    LET row == version[tick[t].id] IN
    row.status = "building" /\ row.performance = tick[t].cursor

\* A batch is added to the rows of the batches before it.
Counted(row, batch) == [row EXCEPT !.performanceRows[batch] = @ + 1, !.performance = batch]

\* The last batch publishes its version and retires the month's old one.
Publish(v, batch) ==
    version' = [w \in Version |->
        IF w = v THEN [Counted(version[v], batch) EXCEPT !.status = "active"]
        ELSE IF Is(w, "active", version[v].month) THEN [version[w] EXCEPT !.status = "retired"]
        ELSE version[w]]

Count(v, batch) == version' = [version EXCEPT ![v] = Counted(@, batch)]

\* Mutant: published one batch too early.
LastButOne(t) == tick[t].cursor + 2 = Batches

\* Mutant: the cursor is compared before it has moved.
PastLast(t) == tick[t].cursor = Batches

LastBatch(t) == tick[t].cursor + 1 = Batches

\* The last batch checks the coverage; the exception rolls the batch back.
Covered(t) == LastBatch(t) => version[tick[t].id].month \notin Lacking

SavePerformance(t) ==
    LET v == tick[t].id
        batch == tick[t].cursor + 1
    IN  /\ tick[t].step = "performanceFetch"
        /\ IF ~PerformanceCurrent(t) THEN UNCHANGED version /\ Goto(t, "idle")
           ELSE IF ~Covered(t) THEN UNCHANGED version /\ Goto(t, "record")
           ELSE /\ IF LastBatch(t) THEN Publish(v, batch) ELSE Count(v, batch)
                /\ Goto(t, "idle")
        /\ UNCHANGED <<analysis, calendar, rebuilds>>

-----------------------------------------------------------------------------
(* The route's catch block: recordMonthlyFailure *)

\* The provider fails or returns nothing, or the transaction is rolled back.
Fails(t) ==
    /\ tick[t].step \in {"metaFetch", "performanceFetch"}
    /\ Goto(t, "record")
    /\ UNCHANGED <<version, analysis, calendar, rebuilds>>

\* The error goes to the version that builds by now.
ReadFailed(t) ==
    /\ tick[t].step = "record"
    /\ \/ NothingBuilds /\ Goto(t, "idle")
       \/ \E v \in Version : Oldest(v) /\ Holding(t, v, "write", version[v].meta)
    /\ UNCHANGED <<version, analysis, calendar, rebuilds>>

\* Its status is not checked; an error of the meta service ends a pause.
WriteFailure(t) ==
    /\ tick[t].step = "write"
    /\ version' = IF tick[t].cursor < MetaTasks
                  THEN [version EXCEPT ![tick[t].id].waiting = FALSE] ELSE version
    /\ Goto(t, "idle")
    /\ UNCHANGED <<analysis, calendar, rebuilds>>

Record(t) == ReadFailed(t) \/ WriteFailure(t)

-----------------------------------------------------------------------------
(* loadPerformanceReference: a version is selected, its rows are read later. *)

Eligible(v, m) == version[v].status = "active" /\ version[v].month \in {m, m - 1}

\* The month before the match, or while it has no version the one before.
Select(a, m) ==
    /\ analysis[a] = None
    /\ \E v \in Version :
        /\ Eligible(v, m)
        /\ \A w \in Version : Eligible(w, m) => version[w].month <= version[v].month
        /\ analysis' = [analysis EXCEPT ![a] = v]
    /\ UNCHANGED <<version, tick, calendar, rebuilds>>

Score(a) ==
    /\ analysis[a] # None
    /\ analysis' = [analysis EXCEPT ![a] = None]
    /\ UNCHANGED <<version, tick, calendar, rebuilds>>

-----------------------------------------------------------------------------
(* Time and failures *)

WeeksSettle ==
    /\ ~calendar.settled
    /\ calendar' = [calendar EXCEPT !.settled = TRUE]
    /\ UNCHANGED <<version, tick, analysis, rebuilds>>

MonthEnds ==
    /\ calendar.settled /\ calendar.month < Months
    /\ calendar' = [month |-> calendar.month + 1, settled |-> FALSE]
    /\ UNCHANGED <<version, tick, analysis, rebuilds>>

HourPasses(v) ==
    /\ version[v].waiting
    /\ version' = [version EXCEPT ![v].waiting = FALSE]
    /\ UNCHANGED <<tick, analysis, calendar, rebuilds>>

\* The API ends during the tick's long steps, or before its error is recorded.
Crash(t) ==
    /\ tick[t].step \in {"metaFetch", "performanceFetch", "write"}
    /\ Goto(t, "idle")
    /\ UNCHANGED <<version, analysis, calendar, rebuilds>>

Run(t) == Ensure(t) \/ ReadMeta(t) \/ ReadPerformance(t) \/ Record(t)
Answered(t) == SaveMeta(t) \/ PostponeMeta(t) \/ SavePerformance(t) \/ Fails(t)

Next ==
    \/ \E t \in Tick : Run(t) \/ Answered(t) \/ Crash(t)
    \/ \E m \in Month : Rebuild(m)
    \/ \E a \in Analysis : (\E m \in Month : Select(a, m)) \/ Score(a)
    \/ \E v \in Version : HourPasses(v)
    \/ WeeksSettle \/ MonthEnds

Spec == Init /\ [][Next]_vars

\* The timer starts a tick every minute and every statement returns.  Of the
\* answers of a provider that is asked again and again some are whole, and the
\* API lives to save them; which tick they go to is left open.
Fairness ==
    /\ \A t \in Tick : WF_vars(Run(t)) /\ WF_vars(Answered(t))
    /\ SF_vars(\E t \in Tick : SaveMeta(t) \/ SavePerformance(t))
    /\ \A v \in Version : WF_vars(HourPasses(v))

FairSpec == Spec /\ Fairness
=============================================================================
