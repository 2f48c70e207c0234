--------------------- MODULE MonthlyReferenceProperties ----------------------
(* What the monthly reference must keep, whatever ticks and rebuilds overlap. *)
EXTENDS MonthlyReference

\* Versions, ticks and analyses hold values their columns and the code allow.
TypeOK ==
    /\ version \in [Version -> VersionRow]
    /\ tick \in [Tick -> TickState]
    /\ analysis \in [Analysis -> Version \cup {None}]
    /\ calendar \in [month : Month, settled : BOOLEAN]
    /\ rebuilds \in 0..MaxRebuilds

\* A month has one published version and one that builds at most: nothing in
\* the table enforces it, two ticks and a rebuild may create and publish at once.
OneOfEach ==
    \A v, w \in Version :
        /\ version[v].status \in {"building", "active"}
        /\ version[v].status = version[w].status
        /\ version[v].month = version[w].month
        => v = w

\* Every batch before a cursor is in the rows once and no batch after it: a
\* retry, a tick that overlaps another or one whose version was superseded
\* while it fetched never counts a batch again (the performance rows would
\* add up without a conflict).
CountedOnce ==
    \A v \in Version :
        /\ \A i \in 1..MetaTasks :
              version[v].metaRows[i] = IF i <= version[v].meta THEN 1 ELSE 0
        /\ \A i \in 1..Batches :
              version[v].performanceRows[i] = IF i <= version[v].performance THEN 1 ELSE 0

Complete(v) == version[v].meta = MetaTasks /\ version[v].performance = Batches

\* What an analysis may score with is complete: a version that is or was
\* published, so also one retired between its selection and its reading.
PublishedIsComplete ==
    /\ \A v \in Version :
        version[v].current /\ version[v].status \in {"active", "retired"} => Complete(v)
    /\ \A a \in Analysis :
        analysis[a] # None => version[analysis[a]].status \in {"active", "retired"}

Published(m) == \E v \in Version : Is(v, "active", m)

\* A month that has a published version keeps one, while a new version is
\* built, superseded or takes its place.
FallbackKept == [][\A m \in Month : Published(m) => Published(m)']_vars

Rows(v) == <<version[v].metaRows, version[v].performanceRows>>

\* A version that was published, retired or superseded is history: a tick still
\* in flight writes no rows into it and it never builds again.
HistoryKept ==
    [][\A v \in Version : version[v].status \in {"active", "retired", "failed"} =>
        /\ Rows(v)' = Rows(v)
        /\ version'[v].status \notin {"none", "building"}]_vars

\* Every version that builds is published or superseded in the end, unless the
\* statistics of its month or of an older one, which goes first, lack coverage.
ReferencesEnd ==
    \A v \in Version :
        (Building(v) /\ \A m \in Lacking : version[v].month < m) ~> ~Building(v)
=============================================================================
