------------------------ MODULE MonthlyReferenceProofs ------------------------
(***************************************************************************)
(* Safety of the monthly reference for every number of months, versions,   *)
(* ticks, analyses, tasks and batches.                                     *)
(***************************************************************************)
EXTENDS MonthlyReferenceProperties, TLAPS

-----------------------------------------------------------------------------
(* The inductive invariant *)

\* What a handler holds in memory stays true of its version while it waits for
\* the provider: the row exists, and a cursor that was short of its end is
\* compared before it moves.  Without it a commit could write anywhere.
Held(s) ==
    /\ s.step \in {"metaFetch", "performanceFetch", "write"} =>
        s.id \in Version /\ version[s.id].status # "none"
    /\ s.step = "metaFetch" => s.cursor < MetaTasks /\ version[s.id].current
    /\ s.step = "performanceFetch" =>
        s.cursor < Batches /\ version[s.id].meta = MetaTasks

TicksHold == \A t \in Tick : Held(tick[t])

IInv == TypeOK /\ OneOfEach /\ CountedOnce /\ PublishedIsComplete /\ TicksHold

\* The parts of it that are about versions alone.
VersionsTyped == version \in [Version -> VersionRow]
PublishedComplete ==
    \A v \in Version :
        version[v].current /\ version[v].status \in {"active", "retired"} => Complete(v)

\* What no step takes from a version that exists.
RowsKept ==
    \A v \in Version : version[v].status # "none" =>
        /\ version'[v].status # "none"
        /\ version'[v].current = version[v].current
        /\ version[v].meta = MetaTasks => version'[v].meta = MetaTasks
        /\ version[v].status \in {"active", "retired"} =>
              version'[v].status \in {"active", "retired"}

\* The two action properties, as relations between two states.
FallbackStep == \A m \in Month : Published(m) => Published(m)'
HistoryStep ==
    \A v \in Version : version[v].status \in {"active", "retired", "failed"} =>
        /\ Rows(v)' = Rows(v)
        /\ version'[v].status \notin {"none", "building"}

\* Everything a change of the versions must do.
SafeChange ==
    /\ VersionsTyped' /\ OneOfEach' /\ CountedOnce' /\ PublishedComplete'
    /\ RowsKept /\ FallbackStep /\ HistoryStep

-----------------------------------------------------------------------------
(* The changes of versions *)

\* A new row is of the table's type and builds from its first batch.
LEMMA FreshRow ==
  ASSUME NEW m \in Month
  PROVE  /\ Fresh(m) \in VersionRow
         /\ Fresh(m).status = "building" /\ Fresh(m).month = m
<1>1. 0 \in 0..MetaTasks /\ 0 \in 0..Batches
  BY Bounds
<1>2. /\ [i \in 1..MetaTasks |-> 0] \in [1..MetaTasks -> Nat]
      /\ [i \in 1..Batches |-> 0] \in [1..Batches -> Nat]
  OBVIOUS
<1> QED
  BY <1>1, <1>2 DEF Fresh, VersionRow, Status

\* The two updates of a row that have no name in the model.
Restated(r, s) == [r EXCEPT !.status = s]
MetaCounted(r, n) == [r EXCEPT !.metaRows[n] = @ + 1, !.meta = n, !.waiting = FALSE]

\* A new status changes nothing else of a row.
LEMMA StatusRow ==
  ASSUME NEW r \in VersionRow, NEW s \in Status
  PROVE  /\ Restated(r, s) \in VersionRow /\ Restated(r, s).status = s
         /\ Restated(r, s).month = r.month /\ Restated(r, s).current = r.current
         /\ Restated(r, s).meta = r.meta /\ Restated(r, s).performance = r.performance
         /\ Restated(r, s).metaRows = r.metaRows
         /\ Restated(r, s).performanceRows = r.performanceRows
  BY DEF VersionRow, Restated

\* A batch of the meta service moves the cursor and adds to one row.
LEMMA MetaRow ==
  ASSUME NEW r \in VersionRow, NEW n \in 1..MetaTasks
  PROVE  /\ MetaCounted(r, n) \in VersionRow /\ MetaCounted(r, n).status = r.status
         /\ MetaCounted(r, n).month = r.month /\ MetaCounted(r, n).current = r.current
         /\ MetaCounted(r, n).meta = n /\ MetaCounted(r, n).performance = r.performance
         /\ MetaCounted(r, n).performanceRows = r.performanceRows
         /\ \A i \in 1..MetaTasks :
               MetaCounted(r, n).metaRows[i] = r.metaRows[i] + (IF i = n THEN 1 ELSE 0)
<1> DEFINE q == MetaCounted(r, n)
           rows == [r.metaRows EXCEPT ![n] = @ + 1]
<1>1. rows \in [1..MetaTasks -> Nat] /\ n \in 0..MetaTasks
  BY Bounds DEF VersionRow
<1>2. q = [r EXCEPT !.metaRows = rows, !.meta = n, !.waiting = FALSE]
  BY Zenon DEF MetaCounted
<1>3. \A i \in 1..MetaTasks : rows[i] = r.metaRows[i] + (IF i = n THEN 1 ELSE 0)
  <2> DEFINE f == r.metaRows
  <2>1. f \in [1..MetaTasks -> Nat]
    BY DEF VersionRow
  <2> HIDE DEF f
  <2>2. ASSUME NEW i \in 1..MetaTasks
        PROVE  [f EXCEPT ![n] = @ + 1][i] = f[i] + (IF i = n THEN 1 ELSE 0)
    <3>1. f[i] \in Nat
      BY <2>1
    <3> QED
      BY <2>1, <3>1
  <2> QED
    BY <2>2 DEF f
<1> HIDE DEF rows, q
<1>4. /\ q \in VersionRow /\ q.status = r.status
      /\ q.month = r.month /\ q.current = r.current
      /\ q.meta = n /\ q.performance = r.performance
      /\ q.metaRows = rows /\ q.performanceRows = r.performanceRows
  BY <1>1, <1>2 DEF VersionRow
<1> QED
  BY <1>3, <1>4 DEF q

\* So does a batch of the performance service.
LEMMA PerformanceRow ==
  ASSUME NEW r \in VersionRow, NEW n \in 1..Batches
  PROVE  /\ Counted(r, n) \in VersionRow /\ Counted(r, n).status = r.status
         /\ Counted(r, n).month = r.month /\ Counted(r, n).current = r.current
         /\ Counted(r, n).meta = r.meta /\ Counted(r, n).performance = n
         /\ Counted(r, n).metaRows = r.metaRows
         /\ \A i \in 1..Batches :
               Counted(r, n).performanceRows[i] = r.performanceRows[i] + (IF i = n THEN 1 ELSE 0)
<1> DEFINE q == Counted(r, n)
           rows == [r.performanceRows EXCEPT ![n] = @ + 1]
<1>1. rows \in [1..Batches -> Nat] /\ n \in 0..Batches
  BY Bounds DEF VersionRow
<1>2. q = [r EXCEPT !.performanceRows = rows, !.performance = n]
  BY Zenon DEF Counted
<1>3. \A i \in 1..Batches : rows[i] = r.performanceRows[i] + (IF i = n THEN 1 ELSE 0)
  <2> DEFINE f == r.performanceRows
  <2>1. f \in [1..Batches -> Nat]
    BY DEF VersionRow
  <2> HIDE DEF f
  <2>2. ASSUME NEW i \in 1..Batches
        PROVE  [f EXCEPT ![n] = @ + 1][i] = f[i] + (IF i = n THEN 1 ELSE 0)
    <3>1. f[i] \in Nat
      BY <2>1
    <3> QED
      BY <2>1, <3>1
  <2> QED
    BY <2>2 DEF f
<1> HIDE DEF rows, q
<1>4. /\ q \in VersionRow /\ q.status = r.status
      /\ q.month = r.month /\ q.current = r.current
      /\ q.meta = r.meta /\ q.performance = n
      /\ q.performanceRows = rows /\ q.metaRows = r.metaRows
  BY <1>1, <1>2 DEF VersionRow
<1> QED
  BY <1>3, <1>4 DEF q

\* The id of a new row was not in use.
LEMMA NewIdUnused ==
  ASSUME \E v \in Version : Unused(v)
  PROVE  NewId \in Version /\ Unused(NewId)
  BY DEF NewId

\* Creating a version supersedes the builders of its month and nothing else.
LEMMA CreateSafe ==
  ASSUME IInv, NEW m \in Month, Create(m)
  PROVE  SafeChange
<1>1. NewId \in Version /\ version[NewId].status = "none"
  BY NewIdUnused DEF Create, Unused
<1>2. \A v \in Version : version[v] \in VersionRow
  BY DEF IInv, TypeOK
<1>3. version'[NewId] = Fresh(m)
  BY <1>1 DEF Create
<1>4. ASSUME NEW v \in Version, v # NewId
      PROVE  version'[v] = IF version[v].status = "building" /\ version[v].month = m
                           THEN Restated(version[v], "failed") ELSE version[v]
  BY <1>4 DEF Create, Is, Restated
<1>5. ASSUME NEW v \in Version, v # NewId
      PROVE  /\ version'[v] \in VersionRow
             /\ version'[v].status = IF version[v].status = "building" /\ version[v].month = m
                                     THEN "failed" ELSE version[v].status
             /\ version'[v].month = version[v].month /\ version'[v].current = version[v].current
             /\ version'[v].meta = version[v].meta
             /\ version'[v].performance = version[v].performance
             /\ version'[v].metaRows = version[v].metaRows
             /\ version'[v].performanceRows = version[v].performanceRows
  BY <1>2, <1>4, <1>5, StatusRow DEF Status
<1>6. /\ version'[NewId] \in VersionRow
      /\ version'[NewId].status = "building" /\ version'[NewId].month = m
      /\ version'[NewId].meta = 0 /\ version'[NewId].performance = 0
      /\ \A i \in 1..MetaTasks : version'[NewId].metaRows[i] = 0
      /\ \A i \in 1..Batches : version'[NewId].performanceRows[i] = 0
  <2>1. Fresh(m) \in VersionRow
    BY FreshRow
  <2> QED
    BY <1>3, <2>1 DEF Fresh
<1>7. VersionsTyped'
  BY <1>5, <1>6 DEF VersionsTyped, Create
<1>8. OneOfEach'
  BY <1>5, <1>6 DEF IInv, OneOfEach
<1>9. CountedOnce'
  BY <1>5, <1>6 DEF IInv, CountedOnce
<1>10. PublishedComplete'
  BY <1>5, <1>6 DEF IInv, PublishedIsComplete, PublishedComplete, Complete
<1>11. RowsKept /\ HistoryStep
  BY <1>1, <1>5 DEF RowsKept, HistoryStep, Rows
<1>12. FallbackStep
  BY <1>1, <1>5 DEF FallbackStep, Published, Is
<1> QED
  BY <1>7, <1>8, <1>9, <1>10, <1>11, <1>12 DEF SafeChange

\* The pause of a version is its own affair.
LEMMA PauseSafe ==
  ASSUME IInv, NEW v \in Version, NEW b \in BOOLEAN,
         version' = [version EXCEPT ![v].waiting = b]
  PROVE  SafeChange
<1>1. \A w \in Version : version[w] \in VersionRow
  BY DEF IInv, TypeOK
<1>2. \A w \in Version : version'[w] = IF w = v THEN [version[v] EXCEPT !.waiting = b] ELSE version[w]
  BY DEF IInv, TypeOK
<1>3. \A w \in Version :
        /\ version'[w] \in VersionRow
        /\ version'[w].status = version[w].status /\ version'[w].month = version[w].month
        /\ version'[w].current = version[w].current
        /\ version'[w].meta = version[w].meta /\ version'[w].performance = version[w].performance
        /\ version'[w].metaRows = version[w].metaRows
        /\ version'[w].performanceRows = version[w].performanceRows
  BY <1>1, <1>2 DEF VersionRow
<1>4. VersionsTyped'
  BY <1>3 DEF VersionsTyped, IInv, TypeOK
<1>5. OneOfEach' /\ CountedOnce' /\ PublishedComplete'
  BY <1>3 DEF IInv, OneOfEach, CountedOnce, PublishedIsComplete, PublishedComplete, Complete
<1>6. RowsKept /\ FallbackStep /\ HistoryStep
  BY <1>3 DEF RowsKept, FallbackStep, HistoryStep, Published, Is, Rows
<1> QED
  BY <1>4, <1>5, <1>6 DEF SafeChange

\* A commit of the meta service counts the batch its cursor was at, once.
LEMMA CountMetaSafe ==
  ASSUME IInv, NEW t \in Tick, tick[t].step = "metaFetch", MetaCurrent(t), CountMeta(t)
  PROVE  SafeChange
<1> DEFINE v == tick[t].id
           n == tick[t].cursor + 1
<1>1. /\ v \in Version /\ version[v].status = "building"
      /\ version[v].meta = tick[t].cursor /\ tick[t].cursor < MetaTasks
  BY DEF IInv, TicksHold, Held, MetaCurrent
<1>2. version[v] \in VersionRow /\ version[v].meta \in Nat /\ tick[t].cursor \in Nat
  BY <1>1, Bounds DEF IInv, TypeOK, VersionRow, TickState
<1>3. n \in 1..MetaTasks /\ n = version[v].meta + 1
  BY <1>1, <1>2, Bounds
<1>4. /\ version'[v] = MetaCounted(version[v], n)
      /\ \A w \in Version : w # v => version'[w] = version[w]
      /\ version' = [version EXCEPT ![v] = version'[v]]
  <2>1. version' = [version EXCEPT ![v] = MetaCounted(version[v], n)]
    BY <1>1, Zenon DEF CountMeta, IInv, TypeOK, MetaCounted
  <2> QED
    BY <1>1, <2>1 DEF IInv, TypeOK
<1> HIDE DEF v, n
<1>5. /\ version'[v] \in VersionRow
      /\ version'[v].status = "building" /\ version'[v].month = version[v].month
      /\ version'[v].current = version[v].current /\ version'[v].meta = n
      /\ version'[v].performance = version[v].performance
      /\ version'[v].performanceRows = version[v].performanceRows
      /\ \A i \in 1..MetaTasks :
            version'[v].metaRows[i] = version[v].metaRows[i] + (IF i = n THEN 1 ELSE 0)
  BY <1>1, <1>2, <1>3, <1>4, MetaRow
<1>6. VersionsTyped'
  BY <1>4, <1>5 DEF VersionsTyped, IInv, TypeOK
<1>7. OneOfEach'
  BY <1>1, <1>4, <1>5 DEF IInv, OneOfEach
<1>8. CountedOnce'
  <2>1. \A i \in 1..MetaTasks : version[v].metaRows[i] = IF i <= version[v].meta THEN 1 ELSE 0
    BY <1>1 DEF IInv, CountedOnce
  <2>2. \A i \in 1..MetaTasks : version'[v].metaRows[i] = IF i <= n THEN 1 ELSE 0
    BY <1>2, <1>3, <1>5, <2>1
  <2>3. ASSUME NEW w \in Version
        PROVE  /\ \A i \in 1..MetaTasks :
                     version'[w].metaRows[i] = IF i <= version'[w].meta THEN 1 ELSE 0
               /\ \A i \in 1..Batches :
                     version'[w].performanceRows[i] = IF i <= version'[w].performance THEN 1 ELSE 0
    <3>1. CASE w = v
      BY <1>1, <1>5, <2>2, <3>1 DEF IInv, CountedOnce
    <3>2. CASE w # v
      BY <1>4, <3>2 DEF IInv, CountedOnce
    <3> QED
      BY <3>1, <3>2
  <2> QED
    BY <2>3 DEF CountedOnce
<1>9. PublishedComplete'
  BY <1>4, <1>5 DEF IInv, PublishedIsComplete, PublishedComplete, Complete
<1>10. RowsKept /\ FallbackStep /\ HistoryStep
  <2>1. version[v].meta # MetaTasks
    BY <1>1, <1>2, Bounds
  <2>2. RowsKept
    BY <1>1, <1>4, <1>5, <2>1 DEF RowsKept
  <2>3. FallbackStep
    BY <1>1, <1>4, <1>5 DEF FallbackStep, Published, Is
  <2>4. HistoryStep
    BY <1>1, <1>4, <1>5 DEF HistoryStep, Rows
  <2> QED
    BY <2>2, <2>3, <2>4
<1> QED
  BY <1>6, <1>7, <1>8, <1>9, <1>10 DEF SafeChange

\* What a commit of the performance service may rely on, and what adding its
\* batch to the row does.
LEMMA CountedRow ==
  ASSUME IInv, NEW t \in Tick, tick[t].step = "performanceFetch", PerformanceCurrent(t),
         NEW v, v = tick[t].id, NEW n, n = tick[t].cursor + 1,
         NEW row, row = Counted(version[v], n)
  PROVE  /\ v \in Version /\ version[v].status = "building" /\ version[v].meta = MetaTasks
         /\ n \in 1..Batches /\ n = version[v].performance + 1
         /\ row \in VersionRow
         /\ row.status = "building" /\ row.month = version[v].month
         /\ row.current = version[v].current /\ row.meta = version[v].meta
         /\ row.performance = n /\ row.metaRows = version[v].metaRows
         /\ \A i \in 1..MetaTasks : row.metaRows[i] = IF i <= row.meta THEN 1 ELSE 0
         /\ \A i \in 1..Batches : row.performanceRows[i] = IF i <= row.performance THEN 1 ELSE 0
<1>1. /\ v \in Version /\ version[v].status = "building" /\ version[v].meta = MetaTasks
      /\ version[v].performance = tick[t].cursor /\ tick[t].cursor < Batches
  BY DEF IInv, TicksHold, Held, PerformanceCurrent
<1>2. version[v] \in VersionRow /\ version[v].performance \in Nat /\ tick[t].cursor \in Nat
  BY <1>1, Bounds DEF IInv, TypeOK, VersionRow, TickState
<1>3. n \in 1..Batches /\ n = version[v].performance + 1
  BY <1>1, <1>2, Bounds
<1>4. /\ row.status = version[v].status /\ row.month = version[v].month
      /\ row.current = version[v].current /\ row.meta = version[v].meta
      /\ row.performance = n /\ row.metaRows = version[v].metaRows
      /\ row \in VersionRow
      /\ \A i \in 1..Batches :
            row.performanceRows[i] = version[v].performanceRows[i] + (IF i = n THEN 1 ELSE 0)
  <2> DEFINE r == version[v]
  <2>1. r \in VersionRow /\ n \in 1..Batches /\ row = Counted(r, n)
    BY <1>2, <1>3
  <2> HIDE DEF r
  <2>2. /\ row.status = r.status /\ row.month = r.month /\ row.current = r.current
        /\ row.meta = r.meta /\ row.performance = n /\ row.metaRows = r.metaRows
        /\ row \in VersionRow
        /\ \A i \in 1..Batches :
              row.performanceRows[i] = r.performanceRows[i] + (IF i = n THEN 1 ELSE 0)
    <3>1. /\ Counted(r, n).status = r.status /\ Counted(r, n).month = r.month
          /\ Counted(r, n).current = r.current /\ Counted(r, n).meta = r.meta
          /\ Counted(r, n).performance = n /\ Counted(r, n).metaRows = r.metaRows
          /\ Counted(r, n) \in VersionRow
      BY <2>1, PerformanceRow
    <3>2. \A i \in 1..Batches :
            Counted(r, n).performanceRows[i] = r.performanceRows[i] + (IF i = n THEN 1 ELSE 0)
      BY <2>1, PerformanceRow
    <3> QED
      BY <2>1, <3>1, <3>2
  <2> QED
    BY <2>2 DEF r
<1>5. \A i \in 1..Batches : row.performanceRows[i] = IF i <= row.performance THEN 1 ELSE 0
  <2>1. \A i \in 1..Batches :
          version[v].performanceRows[i] = IF i <= version[v].performance THEN 1 ELSE 0
    BY <1>1 DEF IInv, CountedOnce
  <2> QED
    BY <1>2, <1>3, <1>4, <2>1
<1>6. \A i \in 1..MetaTasks : row.metaRows[i] = IF i <= row.meta THEN 1 ELSE 0
  BY <1>1, <1>4 DEF IInv, CountedOnce
<1> QED
  BY <1>1, <1>3, <1>4, <1>5, <1>6

\* A commit of the performance service before the last batch.
LEMMA CountSafe ==
  ASSUME IInv, NEW t \in Tick, tick[t].step = "performanceFetch", PerformanceCurrent(t),
         Count(tick[t].id, tick[t].cursor + 1)
  PROVE  SafeChange
<1> DEFINE v == tick[t].id
           n == tick[t].cursor + 1
           row == Counted(version[v], n)
<1>1. /\ v \in Version /\ version[v].status = "building" /\ version[v].meta = MetaTasks
      /\ row \in VersionRow
      /\ row.status = "building" /\ row.month = version[v].month
      /\ row.current = version[v].current /\ row.meta = version[v].meta
      /\ \A i \in 1..MetaTasks : row.metaRows[i] = IF i <= row.meta THEN 1 ELSE 0
      /\ \A i \in 1..Batches : row.performanceRows[i] = IF i <= row.performance THEN 1 ELSE 0
  BY CountedRow
<1>2. \A w \in Version : version'[w] = IF w = v THEN row ELSE version[w]
  BY DEF Count, IInv, TypeOK
<1> HIDE DEF v, row
<1>3. VersionsTyped'
  BY <1>1, <1>2 DEF VersionsTyped, IInv, TypeOK, Count
<1>4. OneOfEach' /\ CountedOnce' /\ PublishedComplete'
  BY <1>1, <1>2 DEF IInv, OneOfEach, CountedOnce, PublishedIsComplete, PublishedComplete, Complete
<1>5. RowsKept /\ FallbackStep /\ HistoryStep
  BY <1>1, <1>2 DEF RowsKept, FallbackStep, HistoryStep, Published, Is, Rows
<1> QED
  BY <1>3, <1>4, <1>5 DEF SafeChange

\* The last batch: the version is complete when it takes the old one's place.
LEMMA PublishSafe ==
  ASSUME IInv, NEW t \in Tick, tick[t].step = "performanceFetch", PerformanceCurrent(t),
         LastBatch(t), Publish(tick[t].id, tick[t].cursor + 1)
  PROVE  SafeChange
<1> DEFINE v == tick[t].id
           n == tick[t].cursor + 1
           row == Counted(version[v], n)
<1>1. /\ v \in Version /\ version[v].status = "building" /\ version[v].meta = MetaTasks
      /\ row \in VersionRow /\ row.month = version[v].month
      /\ row.current = version[v].current /\ row.meta = version[v].meta
      /\ row.performance = Batches
      /\ \A i \in 1..MetaTasks : row.metaRows[i] = IF i <= row.meta THEN 1 ELSE 0
      /\ \A i \in 1..Batches : row.performanceRows[i] = IF i <= row.performance THEN 1 ELSE 0
  BY CountedRow DEF LastBatch
<1>2. \A w \in Version : version[w] \in VersionRow
  BY DEF IInv, TypeOK
<1>3. /\ version'[v] = Restated(row, "active")
      /\ \A w \in Version \ {v} : version'[w] =
            IF version[w].status = "active" /\ version[w].month = version[v].month
            THEN Restated(version[w], "retired") ELSE version[w]
  BY <1>1 DEF Publish, Is, Restated
<1>4. version' = [w \in Version |-> version'[w]]
  BY DEF Publish
<1> HIDE DEF v, row
<1>5. \A w \in Version :
        /\ version'[w] \in VersionRow
        /\ version'[w].month = version[w].month /\ version'[w].current = version[w].current
        /\ version'[w].meta = version[w].meta
        /\ w # v => /\ version'[w].performance = version[w].performance
                    /\ version'[w].metaRows = version[w].metaRows
                    /\ version'[w].performanceRows = version[w].performanceRows
                    /\ version'[w].status =
                          IF version[w].status = "active" /\ version[w].month = version[v].month
                          THEN "retired" ELSE version[w].status
  BY <1>1, <1>2, <1>3, StatusRow DEF Status
<1>6. /\ version'[v].status = "active" /\ version'[v].performance = Batches
      /\ version'[v].metaRows = row.metaRows /\ version'[v].performanceRows = row.performanceRows
      /\ row.performance = version'[v].performance /\ row.meta = version'[v].meta
  BY <1>1, <1>3, StatusRow DEF Status
<1>7. VersionsTyped'
  BY <1>4, <1>5 DEF VersionsTyped
<1>8. OneOfEach'
  BY <1>1, <1>5, <1>6 DEF IInv, OneOfEach
<1>9. CountedOnce' /\ PublishedComplete'
  BY <1>1, <1>5, <1>6 DEF IInv, CountedOnce, PublishedIsComplete, PublishedComplete, Complete
<1>10. RowsKept /\ HistoryStep
  BY <1>1, <1>5, <1>6 DEF RowsKept, HistoryStep, Rows
<1>11. FallbackStep
  BY <1>1, <1>5, <1>6 DEF FallbackStep, Published, Is
<1> QED
  BY <1>7, <1>8, <1>9, <1>10, <1>11 DEF SafeChange

\* A step that leaves the versions alone.
LEMMA NoChangeSafe ==
  ASSUME IInv, UNCHANGED version
  PROVE  SafeChange
<1>1. VersionsTyped' /\ OneOfEach' /\ CountedOnce' /\ PublishedComplete'
  BY DEF IInv, TypeOK, VersionsTyped, OneOfEach, CountedOnce, PublishedIsComplete,
         PublishedComplete, Complete
<1>2. RowsKept /\ FallbackStep /\ HistoryStep
  BY DEF IInv, TypeOK, VersionRow, RowsKept, FallbackStep, HistoryStep, Published, Is, Rows
<1> QED
  BY <1>1, <1>2 DEF SafeChange

-----------------------------------------------------------------------------
(* Every step makes one of these changes *)

\* What each step does to the versions.
LEMMA StepSafe ==
  ASSUME IInv, [Next]_vars
  PROVE  SafeChange
<1>1. \A t \in Tick : tick[t].step \in {"metaFetch", "write"} => tick[t].id \in Version
  BY DEF IInv, TicksHold, Held
<1>2. CASE \E t \in Tick : Ensure(t)
  <2>1. calendar.month \in Month
    BY DEF IInv, TypeOK
  <2>2. UNCHANGED version \/ Create(calendar.month)
    BY <1>2 DEF Ensure, EnsureReference
  <2> QED
    BY <2>1, <2>2, CreateSafe, NoChangeSafe
<1>3. CASE \E t \in Tick : ReadMeta(t) \/ ReadPerformance(t) \/ ReadFailed(t) \/ Fails(t) \/ Crash(t)
  BY <1>3, NoChangeSafe DEF ReadMeta, ReadPerformance, ReadFailed, Fails, Crash
<1>4. ASSUME NEW t \in Tick, WriteFailure(t) PROVE SafeChange
  <2>1. \/ UNCHANGED version
        \/ version' = [version EXCEPT ![tick[t].id].waiting = FALSE] /\ tick[t].id \in Version
    BY <1>1, <1>4 DEF WriteFailure
  <2> QED
    BY <2>1, PauseSafe, NoChangeSafe
<1>5. ASSUME NEW t \in Tick, SaveMeta(t) PROVE SafeChange
  BY <1>5, CountMetaSafe, NoChangeSafe DEF SaveMeta
<1>6. ASSUME NEW t \in Tick, PostponeMeta(t) PROVE SafeChange
  <2>1. \/ UNCHANGED version
        \/ version' = [version EXCEPT ![tick[t].id].waiting = TRUE] /\ tick[t].id \in Version
    BY <1>1, <1>6 DEF PostponeMeta
  <2> QED
    BY <2>1, PauseSafe, NoChangeSafe
<1>7. ASSUME NEW t \in Tick, SavePerformance(t) PROVE SafeChange
  BY <1>7, PublishSafe, CountSafe, NoChangeSafe DEF SavePerformance
<1>8. CASE \E m \in Month : Rebuild(m)
  BY <1>8, CreateSafe DEF Rebuild
<1>9. CASE \E a \in Analysis : (\E m \in Month : Select(a, m)) \/ Score(a)
  BY <1>9, NoChangeSafe DEF Select, Score
<1>10. CASE \E v \in Version : HourPasses(v)
  BY <1>10, PauseSafe DEF HourPasses
<1>11. CASE WeeksSettle \/ MonthEnds \/ UNCHANGED vars
  BY <1>11, NoChangeSafe DEF WeeksSettle, MonthEnds, vars
<1> QED
  BY <1>2, <1>3, <1>4, <1>5, <1>6, <1>7, <1>8, <1>9, <1>10, <1>11
     DEF Next, Run, Answered, Record

-----------------------------------------------------------------------------
(* Ticks and analyses *)

\* A handler that a step leaves alone keeps its hold on its version.
LEMMA HeldStays ==
  ASSUME IInv, RowsKept, NEW s, Held(s)
  PROVE  /\ s.step \in {"metaFetch", "performanceFetch", "write"} =>
              s.id \in Version /\ version'[s.id].status # "none"
         /\ s.step = "metaFetch" => s.cursor < MetaTasks /\ version'[s.id].current
         /\ s.step = "performanceFetch" => s.cursor < Batches /\ version'[s.id].meta = MetaTasks
  BY DEF Held, RowsKept

\* Moving one handler on to a step it has a hold for.
LEMMA TickMoves ==
  ASSUME IInv, RowsKept, NEW t \in Tick, NEW s \in TickState, Held(s),
         tick' = [tick EXCEPT ![t] = s]
  PROVE  tick' \in [Tick -> TickState] /\ TicksHold'
<1>1. tick' \in [Tick -> TickState]
  BY DEF IInv, TypeOK
<1>2. \A u \in Tick : Held(tick'[u])
  BY DEF IInv, TypeOK, TicksHold
<1> QED
  BY <1>1, <1>2, HeldStays DEF TicksHold, Held

\* Going to a step at which nothing is held.
LEMMA GotoSafe ==
  ASSUME IInv, RowsKept, NEW t \in Tick,
         NEW step \in {"idle", "meta", "performance", "record"}, Goto(t, step)
  PROVE  tick' \in [Tick -> TickState] /\ TicksHold'
<1> DEFINE s == [Idle EXCEPT !.step = step]
<1>1. s \in TickState /\ Held(s)
  BY DEF Idle, TickState, Held
<1> QED
  BY <1>1, TickMoves DEF Goto

\* Holding the version that builds.
LEMMA HoldingSafe ==
  ASSUME IInv, RowsKept, NEW t \in Tick, NEW v \in Version, Oldest(v),
         NEW step \in {"metaFetch", "performanceFetch", "write"}, NEW cursor \in Nat,
         step = "metaFetch" => cursor < MetaTasks,
         step = "performanceFetch" => cursor < Batches /\ version[v].meta = MetaTasks,
         Holding(t, v, step, cursor)
  PROVE  tick' \in [Tick -> TickState] /\ TicksHold'
<1> DEFINE s == [step |-> step, id |-> v, cursor |-> cursor]
<1>1. s \in TickState /\ Held(s)
  BY DEF TickState, Held, Oldest, Building
<1> QED
  BY <1>1, TickMoves DEF Holding

\* Every step leaves each handler with a hold on its version.
LEMMA TicksStay ==
  ASSUME IInv, RowsKept, [Next]_vars
  PROVE  tick' \in [Tick -> TickState] /\ TicksHold'
<1>1. \A v \in Version : version[v].meta \in 0..MetaTasks /\ version[v].performance \in 0..Batches
  BY DEF IInv, TypeOK, VersionRow
<1>2. ASSUME NEW t \in Tick, Ensure(t) PROVE tick' \in [Tick -> TickState] /\ TicksHold'
  <2> DEFINE s == [tick[t] EXCEPT !.step = "meta"]
  <2>1. s \in TickState /\ Held(s) /\ tick' = [tick EXCEPT ![t] = s]
    BY <1>2 DEF IInv, TypeOK, TickState, Held, Ensure
  <2> QED
    BY <2>1, TickMoves
<1>3. ASSUME NEW t \in Tick, ReadMeta(t) PROVE tick' \in [Tick -> TickState] /\ TicksHold'
  <2>1. CASE Goto(t, "performance")
    BY <2>1, GotoSafe
  <2>2. CASE \E v \in Version : Oldest(v) /\ ~NothingToAsk(v)
                                /\ Holding(t, v, "metaFetch", version[v].meta)
    BY <1>1, <2>2, HoldingSafe, Bounds DEF NothingToAsk
  <2> QED
    BY <1>3, <2>1, <2>2 DEF ReadMeta
<1>4. ASSUME NEW t \in Tick, ReadPerformance(t) PROVE tick' \in [Tick -> TickState] /\ TicksHold'
  <2>1. CASE Goto(t, "idle")
    BY <2>1, GotoSafe
  <2>2. CASE \E v \in Version :
               /\ Oldest(v)
               /\ ~(version[v].meta < MetaTasks) /\ version[v].performance # Batches
               /\ Holding(t, v, "performanceFetch", version[v].performance)
    BY <1>1, <2>2, HoldingSafe, Bounds
  <2> QED
    BY <1>4, <2>1, <2>2 DEF ReadPerformance
<1>5. ASSUME NEW t \in Tick, ReadFailed(t) PROVE tick' \in [Tick -> TickState] /\ TicksHold'
  <2>1. CASE Goto(t, "idle")
    BY <2>1, GotoSafe
  <2>2. CASE \E v \in Version : Oldest(v) /\ Holding(t, v, "write", version[v].meta)
    BY <1>1, <2>2, HoldingSafe
  <2> QED
    BY <1>5, <2>1, <2>2 DEF ReadFailed
<1>6. ASSUME NEW t \in Tick,
             WriteFailure(t) \/ SaveMeta(t) \/ PostponeMeta(t) \/ SavePerformance(t)
             \/ Fails(t) \/ Crash(t)
      PROVE tick' \in [Tick -> TickState] /\ TicksHold'
  <2>1. \E step \in {"idle", "meta", "performance", "record"} : Goto(t, step)
    BY <1>6 DEF WriteFailure, SaveMeta, PostponeMeta, SavePerformance, Fails, Crash
  <2> QED
    BY <2>1, GotoSafe
<1>7. CASE UNCHANGED tick
  BY <1>7, HeldStays DEF IInv, TypeOK, TicksHold, Held
<1>8. \/ \E t \in Tick : Run(t) \/ Answered(t) \/ Crash(t)
      \/ UNCHANGED tick
  BY DEF Next, vars, Rebuild, Select, Score, HourPasses, WeeksSettle, MonthEnds
<1> QED
  BY <1>2, <1>3, <1>4, <1>5, <1>6, <1>7, <1>8 DEF Run, Answered, Record

\* An analysis keeps a version that is or was published.
LEMMA AnalysesStay ==
  ASSUME IInv, RowsKept, [Next]_vars
  PROVE  /\ analysis' \in [Analysis -> Version \cup {None}]
         /\ \A a \in Analysis : analysis'[a] # None =>
               version'[analysis'[a]].status \in {"active", "retired"}
<1>1. /\ analysis \in [Analysis -> Version \cup {None}]
      /\ \A a \in Analysis : analysis[a] # None =>
            /\ version[analysis[a]].status \in {"active", "retired"}
            /\ version'[analysis[a]].status \in {"active", "retired"}
  BY DEF IInv, TypeOK, PublishedIsComplete, RowsKept
<1>2. ASSUME NEW a \in Analysis, NEW m \in Month, Select(a, m)
      PROVE  /\ analysis' \in [Analysis -> Version \cup {None}]
             /\ \A b \in Analysis : analysis'[b] # None =>
                   version'[analysis'[b]].status \in {"active", "retired"}
  <2>1. PICK v \in Version : Eligible(v, m) /\ analysis' = [analysis EXCEPT ![a] = v]
    BY <1>2 DEF Select
  <2>2. version'[v].status \in {"active", "retired"}
    BY <2>1 DEF Eligible, RowsKept
  <2> QED
    BY <1>1, <2>1, <2>2
<1>3. CASE \E a \in Analysis : Score(a)
  BY <1>1, <1>3 DEF Score
<1>4. CASE UNCHANGED analysis
  BY <1>1, <1>4
<1>5. \/ \E a \in Analysis : (\E m \in Month : Select(a, m)) \/ Score(a)
      \/ UNCHANGED analysis
  BY DEF Next, vars, Run, Answered, Record, Ensure, ReadMeta, ReadPerformance, ReadFailed,
         WriteFailure, SaveMeta, PostponeMeta, SavePerformance, Fails, Crash, Rebuild,
         HourPasses, WeeksSettle, MonthEnds
<1> QED
  BY <1>2, <1>3, <1>4, <1>5

\* The calendar goes forward within its bound; so do the rebuilds.
LEMMA ClockTyped ==
  ASSUME IInv, [Next]_vars
  PROVE  calendar' \in [month : Month, settled : BOOLEAN] /\ rebuilds' \in 0..MaxRebuilds
<1>1. calendar \in [month : Month, settled : BOOLEAN] /\ rebuilds \in 0..MaxRebuilds
  BY DEF IInv, TypeOK
<1>2. CASE WeeksSettle \/ MonthEnds
  <2>1. CASE WeeksSettle
    BY <1>1, <2>1 DEF WeeksSettle
  <2>2. CASE MonthEnds
    <3>1. calendar.month \in Nat /\ calendar.month >= 1 /\ calendar.month < Months /\ Months \in Nat
      BY <1>1, <2>2, Bounds DEF MonthEnds, Month
    <3>2. calendar.month + 1 \in Month
      BY <3>1 DEF Month
    <3> QED
      BY <1>1, <2>2, <3>2 DEF MonthEnds
  <2> QED
    BY <1>2, <2>1, <2>2
<1>3. CASE \E m \in Month : Rebuild(m)
  BY <1>1, <1>3, Bounds DEF Rebuild
<1>4. CASE UNCHANGED <<calendar, rebuilds>>
  BY <1>1, <1>4
<1>5. WeeksSettle \/ MonthEnds \/ (\E m \in Month : Rebuild(m)) \/ UNCHANGED <<calendar, rebuilds>>
  BY DEF Next, vars, Run, Answered, Record, Ensure, ReadMeta, ReadPerformance, ReadFailed,
         WriteFailure, SaveMeta, PostponeMeta, SavePerformance, Fails, Crash, Select, Score,
         HourPasses
<1> QED
  BY <1>2, <1>3, <1>4, <1>5

-----------------------------------------------------------------------------
(* The theorems *)

\* The service starts in a state of the invariant: an earlier policy's version
\* is the only one there may be.
LEMMA InitHolds == Init => IInv
<1> SUFFICES ASSUME Init PROVE IInv
  OBVIOUS
<1>1. PICK status \in [Legacy -> {"building", "active"}] :
        version = [v \in Version |->
            IF v \in Legacy THEN [Fresh(1) EXCEPT !.status = status[v], !.current = FALSE]
            ELSE NoRow]
  BY DEF Init
<1>2. 1 \in Month
  BY Bounds DEF Month
<1>3. \A v \in Version :
        /\ version[v] \in VersionRow
        /\ v \notin Legacy => version[v].status = "none"
        /\ version[v].status \in {"active", "retired"} => ~version[v].current
        /\ version[v].meta = 0 /\ version[v].performance = 0
        /\ version[v].metaRows = [i \in 1..MetaTasks |-> 0]
        /\ version[v].performanceRows = [i \in 1..Batches |-> 0]
  <2> DEFINE Policy(v) == [Restated(Fresh(1), status[v]) EXCEPT !.current = FALSE]
  <2>1. Fresh(1) \in VersionRow
    BY <1>2, FreshRow
  <2>2. NoRow = Restated(Fresh(1), "none")
    BY DEF NoRow, Restated
  <2>3. ASSUME NEW v \in Legacy
        PROVE  /\ Policy(v) \in VersionRow /\ ~Policy(v).current
               /\ Policy(v).meta = 0 /\ Policy(v).performance = 0
               /\ Policy(v).metaRows = Fresh(1).metaRows
               /\ Policy(v).performanceRows = Fresh(1).performanceRows
    <3> DEFINE q == Restated(Fresh(1), status[v])
    <3>1. /\ q \in VersionRow /\ q.meta = 0 /\ q.performance = 0
          /\ q.metaRows = Fresh(1).metaRows /\ q.performanceRows = Fresh(1).performanceRows
      <4>1. status[v] \in Status
        BY DEF Status
      <4>2. Fresh(1).meta = 0 /\ Fresh(1).performance = 0
        BY DEF Fresh
      <4> QED
        BY <2>1, <4>1, <4>2, StatusRow
    <3> HIDE DEF q
    <3>2. /\ [q EXCEPT !.current = FALSE] \in VersionRow
          /\ ~[q EXCEPT !.current = FALSE].current
          /\ [q EXCEPT !.current = FALSE].meta = q.meta
          /\ [q EXCEPT !.current = FALSE].performance = q.performance
          /\ [q EXCEPT !.current = FALSE].metaRows = q.metaRows
          /\ [q EXCEPT !.current = FALSE].performanceRows = q.performanceRows
      BY <3>1 DEF VersionRow
    <3> QED
      BY <3>1, <3>2 DEF q
  <2>4. /\ NoRow \in VersionRow /\ NoRow.status = "none"
        /\ NoRow.meta = 0 /\ NoRow.performance = 0
        /\ NoRow.metaRows = Fresh(1).metaRows
        /\ NoRow.performanceRows = Fresh(1).performanceRows
    <3>1. Fresh(1).meta = 0 /\ Fresh(1).performance = 0 /\ "none" \in Status
      BY DEF Fresh, Status
    <3> QED
      BY <2>1, <2>2, <3>1, StatusRow
  <2>5. \A v \in Version : version[v] = IF v \in Legacy THEN Policy(v) ELSE NoRow
    BY <1>1 DEF Restated
  <2>6. /\ Fresh(1).metaRows = [i \in 1..MetaTasks |-> 0]
        /\ Fresh(1).performanceRows = [i \in 1..Batches |-> 0]
    BY DEF Fresh
  <2> HIDE DEF Policy
  <2> QED
    BY <2>3, <2>4, <2>5, <2>6
<1>4. TypeOK
  <2>1. version \in [Version -> VersionRow]
    BY <1>1, <1>3
  <2>2. Idle \in TickState
    BY DEF Idle, TickState
  <2> QED
    <3>1. tick \in [Tick -> TickState] /\ analysis \in [Analysis -> Version \cup {None}]
      BY <2>2 DEF Init
    <3>2. calendar \in [month : Month, settled : BOOLEAN]
      BY <1>2 DEF Init
    <3>3. rebuilds \in 0..MaxRebuilds
      <4>1. rebuilds = 0
        BY DEF Init
      <4>2. MaxRebuilds \in Nat
        BY Bounds
      <4> QED
        BY <4>1, <4>2
    <3> QED
      BY <2>1, <3>1, <3>2, <3>3 DEF TypeOK
<1>5. OneOfEach
  BY <1>3, Bounds DEF OneOfEach
<1>6. CountedOnce
  <2>1. MetaTasks \in Nat /\ Batches \in Nat
    BY Bounds
  <2> QED
    BY <1>3, <2>1 DEF CountedOnce
<1>7. PublishedIsComplete
  BY <1>3 DEF PublishedIsComplete, Init
<1>8. TicksHold
  BY DEF Init, TicksHold, Held, Idle
<1> QED
  BY <1>4, <1>5, <1>6, <1>7, <1>8 DEF IInv

\* Every step keeps the invariant and obeys the two action properties.
LEMMA NextHolds == IInv /\ [Next]_vars => IInv' /\ FallbackStep /\ HistoryStep
<1> SUFFICES ASSUME IInv, [Next]_vars PROVE IInv' /\ FallbackStep /\ HistoryStep
  OBVIOUS
<1>1. SafeChange
  BY StepSafe
<1>2. TypeOK'
  BY <1>1, TicksStay, AnalysesStay, ClockTyped DEF TypeOK, SafeChange, VersionsTyped
<1>3. PublishedIsComplete'
  BY <1>1, AnalysesStay DEF SafeChange, PublishedComplete, PublishedIsComplete
<1> QED
  BY <1>1, <1>2, <1>3, TicksStay DEF IInv, SafeChange

\* The inductive invariant holds in every reachable state.
THEOREM Invariance == Spec => []IInv
  BY InitHolds, NextHolds, PTL DEF Spec

\* Versions, ticks and analyses keep their types.
THEOREM TypeCorrect == Spec => []TypeOK
  BY Invariance, PTL DEF IInv

\* However many ticks and rebuilds overlap, a month has one published version
\* and one that builds at most, although no index of the table enforces it.
THEOREM MonthHasOneOfEach == Spec => []OneOfEach
  BY Invariance, PTL DEF IInv

\* No batch is counted twice or left out before a cursor.
THEOREM BatchesCountedOnce == Spec => []CountedOnce
  BY Invariance, PTL DEF IInv

\* An analysis scores with complete versions only.
THEOREM AnalysesUseCompleteVersions == Spec => []PublishedIsComplete
  BY Invariance, PTL DEF IInv

\* A month with a published version never loses it.
THEOREM MonthKeepsFallback == Spec => FallbackKept
<1>1. IInv /\ [Next]_vars => [\A m \in Month : Published(m) => Published(m)']_vars
  BY NextHolds DEF FallbackStep
<1> QED
  BY <1>1, Invariance, PTL DEF Spec, FallbackKept

\* No tick in flight writes rows into a version that is history.
THEOREM HistoryUnwritten == Spec => HistoryKept
<1>1. IInv /\ [Next]_vars =>
        [\A v \in Version : version[v].status \in {"active", "retired", "failed"} =>
            /\ Rows(v)' = Rows(v)
            /\ version'[v].status \notin {"none", "building"}]_vars
  BY NextHolds DEF HistoryStep
<1> QED
  BY <1>1, Invariance, PTL DEF Spec, HistoryKept
=============================================================================
