------------------------- MODULE DesktopTasksProofs -------------------------
(***************************************************************************)
(* Safety of the desktop downloads for every number of matches, requests,  *)
(* restarts and events, and every length of the list.                      *)
(***************************************************************************)
EXTENDS DesktopTasksProperties, FiniteSetTheorems, TLAPS

-----------------------------------------------------------------------------
(* The inductive invariant *)

\* A list at the time c, where the matches in G can be played: its requests have
\* times of their own up to c, and what it calls completed can be played.
Sound(r, c, G) ==
    /\ r \in [Match -> Row]
    /\ \A m \in Match :
          /\ r[m].stamp <= c
          /\ r[m].status = "completed" => m \in G
          /\ r[m].status # "none" =>
                /\ r[m].stamp > 0
                /\ \A n \in Match : r[n].status # "none" /\ r[n].stamp = r[m].stamp => n = m

\* Two lists of the same requests, which agree on those still to be served.
Alike(r, s) ==
    \A m \in Match :
        /\ s[m].stamp = r[m].stamp
        /\ s[m].status \in Active <=> r[m].status \in Active
        /\ s[m].status = "none" <=> r[m].status = "none"

\* The next page begins with the copy in local storage, and loses nothing by it.
Good == {m \in Match : Playable(m)}

ListHolds == Sound(row, clock, Good) /\ Sound(stored, clock, Good) /\ Alike(row, stored)

\* A poll looks at rows only while no native call is out, and as long as nobody
\* has copied them, the rows it means to visit are still to be served.
Visiting == {"status", "answer"}

PollHolds ==
    /\ poll.step \in Visiting => promise.step = "none"
    /\ poll.fresh =>
          /\ poll.step \in Visiting => row[poll.match].status \in Active
          /\ \A q \in poll.left : row[q.match].status \in Active

\* What the native process and the page's call of it know of each other: only a
\* verified file is about to be published, in a folder that was chosen, and the
\* answer "ok" is about a replay that can be played.
Working == {"look", "ticket", "transfer", "persist"}

NativeHolds ==
    /\ native.step \in Working => native.match \in Match
    /\ native.step = "persist" => native.content = "good"
    /\ native.step \in {"ticket", "transfer", "persist"} => folder \in Folder
    /\ native.heard => native.match = promise.match
    /\ promise.step = "sent" => promise.match \in Match
    /\ promise.step = "ok" => promise.match \in Good

IInv == TypeOK /\ PollHolds /\ NativeHolds /\ ListHolds

-----------------------------------------------------------------------------
(* Lists *)

\* A list stays sound over time, and with more that can be played.
LEMMA SoundKept ==
  ASSUME NEW r, NEW c \in Nat, NEW d \in Nat, NEW G, NEW H, Sound(r, c, G), c <= d, G \subseteq H
  PROVE  Sound(r, d, H)
  BY DEF Sound, Row

\* New statuses leave a list sound that completes only what can be played.
LEMMA SoundRewritten ==
  ASSUME NEW r, NEW c \in Nat, NEW G, NEW q \in [Match -> Row], Sound(r, c, G),
         \A m \in Match : /\ q[m].stamp = r[m].stamp
                          /\ q[m].status = "none" <=> r[m].status = "none"
                          /\ q[m].status = "completed" => m \in G
  PROVE  Sound(q, c, G)
  BY DEF Sound, Row

\* Rows may be taken out of a sound list.
LEMMA SoundShorter ==
  ASSUME NEW r, NEW c \in Nat, NEW G, NEW q, q \in [Match -> Row], Sound(r, c, G),
         \A m \in Match : q[m] = r[m] \/ q[m] = NoRow
  PROVE  Sound(q, c, G)
  BY DEF Sound, Row, NoRow

\* A request at a later time makes a sound list.
LEMMA SoundLonger ==
  ASSUME NEW r, NEW c \in Nat, NEW G, NEW m \in Match, Sound(r, c, G),
         NEW new, new = [status |-> "preparing", stamp |-> c + 1]
  PROVE  Sound([r EXCEPT ![m] = new], c + 1, G)
<1> DEFINE q == [r EXCEPT ![m] = new]
<1>1. new \in Row /\ new.stamp = c + 1 /\ new.status = "preparing"
  BY DEF Row, Active
<1>2. q \in [Match -> Row] /\ q[m] = new /\ \A n \in Match \ {m} : q[n] = r[n]
  BY <1>1 DEF Sound
<1>3. \A n \in Match : r[n].stamp \in Nat /\ r[n].stamp <= c
  BY DEF Sound, Row
<1> HIDE DEF q
<1> QED
  BY <1>1, <1>2, <1>3 DEF Sound

\* slice(-30): a request that falls off the end is older than MaxRows others.
LEMMA ShortenedKeeps ==
  ASSUME NEW r, NEW c \in Nat, NEW G, Sound(r, c, G), NEW k \in Match,
         r[k].status # "none", Shortened(r)[k] # r[k]
  PROVE  Cardinality({n \in Match : Shortened(r)[n].stamp > r[k].stamp}) >= MaxRows
<1> DEFINE L == Listed(r)
           newer == {n \in Match : Shortened(r)[n].stamp > r[k].stamp}
<1>1. /\ Cardinality(L) > MaxRows /\ k \in Oldest(r)
      /\ \A n \in Match : Shortened(r)[n] = IF n \in Oldest(r) THEN NoRow ELSE r[n]
  <2>1. IsFiniteSet(L) /\ Cardinality(L) \in Nat
    BY DesktopAssumption, FS_Subset, FS_CardinalityType DEF Listed
  <2>2. ~(Cardinality(L) <= MaxRows)
    BY DEF Shortened
  <2> QED
    BY <2>1, <2>2, DesktopAssumption DEF Shortened
<1>2. IsFiniteSet(Match) /\ MaxRows \in Nat
  BY DesktopAssumption
<1>3. IsFiniteSet(L) /\ k \in L
  BY <1>2, FS_Subset DEF Listed
<1>4. L \ {k} \subseteq newer
  <2> SUFFICES ASSUME NEW n \in L \ {k} PROVE n \in newer
    OBVIOUS
  <2>1. n \in Match /\ r[n].status # "none"
    BY DEF Listed
  <2>2. r[n].stamp # r[k].stamp /\ r[n].stamp \in Nat /\ r[k].stamp \in Nat
    BY <2>1 DEF Sound, Row
  <2>3. r[k].stamp <= r[n].stamp
    BY <1>1 DEF Oldest
  <2>4. n \notin Oldest(r)
    BY <1>3, <2>2, <2>3 DEF Oldest
  <2> QED
    BY <1>1, <2>1, <2>2, <2>3, <2>4
<1>5. Cardinality(L \ {k}) = Cardinality(L) - 1 /\ Cardinality(L) \in Nat
  BY <1>3, FS_RemoveElement, FS_CardinalityType
<1>6. IsFiniteSet(newer)
  BY <1>2, FS_Subset
<1>7. Cardinality(L \ {k}) <= Cardinality(newer) /\ Cardinality(newer) \in Nat
  BY <1>4, <1>6, FS_Subset, FS_CardinalityType
<1> QED
  BY <1>1, <1>2, <1>5, <1>7

-----------------------------------------------------------------------------
(* What a step does to the list *)

\* The two action properties, as relations between two states.
AcceptedStep ==
    \A m \in Match :
        row[m].status \in Active /\ row'[m].stamp # row[m].stamp =>
            \/ row'[m].stamp > row[m].stamp
            \/ /\ clock' > clock
               /\ Cardinality({n \in Match : row'[n].stamp > row[m].stamp}) >= MaxRows

FilesStep == \A f \in Folder, m \in Match : file[f][m] # "none" => file'[f][m] = file[f][m]

\* What can be played stays so.
GoodStep == Good \subseteq Good'

ListChange == ListHolds' /\ AcceptedStep /\ clock' \in Nat

LEMMA SameGood == UNCHANGED disk => Good' = Good
  BY DEF Good, Playable, disk

\* A step that leaves the list alone.
LEMMA UntouchedList ==
  ASSUME IInv, GoodStep, UNCHANGED <<row, stored, clock>>
  PROVE  ListChange
<1>1. clock \in Nat /\ Good \subseteq Good'
  BY DEF IInv, TypeOK, GoodStep
<1>2. Sound(row, clock, Good') /\ Sound(stored, clock, Good')
  BY <1>1, SoundKept DEF IInv, ListHolds
<1>3. Sound(row', clock', Good') /\ Sound(stored', clock', Good') /\ Alike(row', stored')
  BY <1>2 DEF IInv, ListHolds
<1> QED
  BY <1>1, <1>3 DEF ListChange, ListHolds, AcceptedStep

\* A publication of the same requests with other statuses.
LEMMA RewrittenList ==
  ASSUME IInv, NEW q, Publish(q), q \in [Match -> Row], UNCHANGED <<disk, clock>>,
         \A m \in Match : /\ q[m].stamp = row[m].stamp
                          /\ q[m].status = "none" <=> row[m].status = "none"
                          /\ q[m].status = "completed" => m \in Good
  PROVE  ListChange
<1>1. clock \in Nat /\ Sound(q, clock, Good)
  BY SoundRewritten DEF IInv, TypeOK, ListHolds
<1>2. row' = q /\ stored' = q
  BY DEF Publish
<1>3. Sound(row', clock', Good') /\ Sound(stored', clock', Good')
  BY <1>1, <1>2, SameGood
<1>4. Alike(row', stored')
  BY <1>2 DEF Alike
<1>5. AcceptedStep
  BY <1>2 DEF AcceptedStep
<1> QED
  BY <1>1, <1>3, <1>4, <1>5 DEF ListChange, ListHolds

\* dismiss() takes a row out that is over.
LEMMA DismissedList ==
  ASSUME IInv, NEW k \in Match, Dismiss(k)
  PROVE  ListChange
<1> DEFINE q == [row EXCEPT ![k] = NoRow]
<1>1. row \in [Match -> Row] /\ clock \in Nat /\ row[k].status \notin Active
  BY DEF IInv, TypeOK, Dismiss, Over, Active
<1>2. q \in [Match -> Row] /\ \A m \in Match : q[m] = IF m = k THEN NoRow ELSE row[m]
  BY <1>1 DEF NoRow, Row
<1>3. row' = q /\ stored' = q /\ UNCHANGED <<disk, clock>>
  BY DEF Dismiss, Publish
<1> HIDE DEF q
<1>4. Sound(q, clock, Good)
  BY <1>1, <1>2, SoundShorter DEF IInv, ListHolds
<1>5. ListHolds'
  <2>1. Sound(row', clock', Good') /\ Sound(stored', clock', Good')
    BY <1>3, <1>4, SameGood
  <2>2. Alike(row', stored')
    BY <1>3 DEF Alike
  <2> QED
    BY <2>1, <2>2 DEF ListHolds
<1>6. AcceptedStep
  BY <1>1, <1>2, <1>3 DEF AcceptedStep
<1> QED
  BY <1>1, <1>3, <1>5, <1>6 DEF ListChange

\* An accepted request takes its place at the end of the list.
LEMMA AcceptedList ==
  ASSUME IInv, NEW k \in Match, Accepted(k)
  PROVE  ListChange
<1> DEFINE new == [status |-> "preparing", stamp |-> clock + 1]
           r == [row EXCEPT ![k] = new]
           q == Shortened(r)
<1>1. row \in [Match -> Row] /\ clock \in Nat /\ clock + 1 \in Nat
  BY DEF IInv, TypeOK
<1>2. row' = q /\ stored' = q /\ clock' = clock + 1 /\ disk' = disk
  BY DEF Accepted, Publish
<1>3. Sound(r, clock + 1, Good)
  BY <1>1, SoundLonger DEF IInv, ListHolds
<1>4. r \in [Match -> Row] /\ r[k] = new /\ \A m \in Match \ {k} : r[m] = row[m]
  BY <1>1, <1>3 DEF Sound
<1> HIDE DEF r
<1>5. q \in [Match -> Row] /\ \A m \in Match : q[m] = r[m] \/ q[m] = NoRow
  BY <1>4 DEF Shortened, NoRow, Row
<1>6. \A m \in Match : row[m].stamp \in Nat /\ row[m].stamp <= clock
  BY <1>1 DEF IInv, ListHolds, Sound, Row
<1>7. ListHolds'
  <2> HIDE DEF q
  <2>1. Sound(q, clock + 1, Good)
    BY <1>1, <1>3, <1>5, SoundShorter
  <2>2. Sound(row', clock', Good') /\ Sound(stored', clock', Good')
    BY <1>2, <2>1, SameGood
  <2>3. Alike(row', stored')
    BY <1>2 DEF Alike
  <2> QED
    BY <2>2, <2>3 DEF ListHolds
<1>8. AcceptedStep
  <2> SUFFICES ASSUME NEW m \in Match, row[m].status \in Active, row'[m].stamp # row[m].stamp
               PROVE  \/ row'[m].stamp > row[m].stamp
                      \/ /\ clock' > clock
                         /\ Cardinality({n \in Match : row'[n].stamp > row[m].stamp}) >= MaxRows
    BY DEF AcceptedStep
  <2>1. CASE q[m] = r[m]
    <3>1. m = k
      BY <1>2, <1>4, <2>1
    <3> QED
      BY <1>1, <1>2, <1>4, <1>6, <2>1, <3>1
  <2>2. CASE q[m] # r[m] /\ m # k
    <3>1. r[m] = row[m] /\ r[m].status # "none"
      BY <1>4, <2>2 DEF Active
    <3>2. Cardinality({n \in Match : q[n].stamp > r[m].stamp}) >= MaxRows
      BY <1>1, <1>3, <2>2, <3>1, ShortenedKeeps
    <3>3. Cardinality({n \in Match : row'[n].stamp > row[m].stamp}) >= MaxRows
      BY <1>2, <3>1, <3>2, Zenon
    <3> QED
      BY <1>1, <1>2, <3>3
  <2>3. CASE q[m] # r[m] /\ m = k
    \* not so: the newest request is not the oldest of the list
    <3>1. Cardinality({n \in Match : q[n].stamp > r[k].stamp}) >= MaxRows
      BY <1>1, <1>3, <1>4, <2>3, ShortenedKeeps
    <3>2. {n \in Match : q[n].stamp > r[k].stamp} = {}
      <4> SUFFICES ASSUME NEW n \in Match PROVE ~(q[n].stamp > r[k].stamp)
        OBVIOUS
      <4>1. q[n].stamp \in Nat /\ q[n].stamp <= clock + 1
        <5>1. r[n].stamp \in Nat /\ r[n].stamp <= clock + 1
          BY <1>3 DEF Sound, Row
        <5>2. q[n].stamp \in {r[n].stamp, 0}
          BY <1>5 DEF NoRow
        <5> QED
          BY <1>1, <5>1, <5>2
      <4>2. r[k].stamp = clock + 1
        BY <1>4
      <4> QED
        BY <1>1, <4>1, <4>2
    <3>3. Cardinality({n \in Match : q[n].stamp > r[k].stamp}) = 0
      BY <3>2, FS_EmptySet, Zenon
    <3>4. 0 >= MaxRows
      BY <3>1, <3>3, Zenon
    <3> QED
      BY <3>4, DesktopAssumption
  <2> QED
    BY <2>1, <2>2, <2>3
<1> QED
  BY <1>1, <1>2, <1>7, <1>8 DEF ListChange

\* A new page reads the copy in local storage.
LEMMA RestoredList ==
  ASSUME IInv, NewPage
  PROVE  ListChange
<1>1. /\ row' = Restored /\ UNCHANGED <<stored, disk, clock>>
      /\ stored \in [Match -> Row] /\ clock \in Nat
  BY DEF NewPage, IInv, TypeOK
<1>2. Restored \in [Match -> Row]
  BY <1>1 DEF Restored, Row, Active
<1>3. \A m \in Match :
        /\ Restored[m].stamp = stored[m].stamp
        /\ Restored[m].status \in Active <=> stored[m].status \in Active
        /\ Restored[m].status = "none" <=> stored[m].status = "none"
        /\ Restored[m].status = "completed" => stored[m].status = "completed"
  BY DEF Restored, Active
<1>4. Sound(Restored, clock, Good)
  <2>1. Sound(stored, clock, Good)
    BY DEF IInv, ListHolds
  <2>2. \A m \in Match : Restored[m].status = "completed" => m \in Good
    BY <1>3, <2>1 DEF Sound
  <2> QED
    BY <1>1, <1>2, <1>3, <2>1, <2>2, SoundRewritten
<1>5. Alike(Restored, stored)
  BY <1>3 DEF Alike
<1>6. ListHolds'
  <2>1. Sound(stored, clock, Good)
    BY DEF IInv, ListHolds
  <2> HIDE DEF Restored
  <2>2. Sound(row', clock', Good') /\ Sound(stored', clock', Good') /\ Alike(row', stored')
    BY <1>1, <1>4, <1>5, <2>1, SameGood
  <2> QED
    BY <2>2 DEF ListHolds
<1>7. AcceptedStep
  BY <1>1, <1>3 DEF AcceptedStep, IInv, ListHolds, Alike
<1> QED
  BY <1>1, <1>6, <1>7 DEF ListChange

\* Files are only added to the folder.
LEMMA FilesStay == IInv /\ [Next]_vars => FilesStep
<1> SUFFICES ASSUME IInv, [Next]_vars PROVE FilesStep
  OBVIOUS
<1>1. CASE Persist
  <2>1. folder \in Folder /\ native.match \in Match /\ native.content = "good"
    BY <1>1 DEF Persist, IInv, NativeHolds, Working
  <2>2. file \in [Folder -> [Match -> {"none", "good", "bad"}]]
    BY DEF IInv, TypeOK
  <2> QED
    BY <1>1, <2>1, <2>2 DEF Persist, here, Placed, FilesStep
<1>2. CASE \E m \in Match : FileAppears(m)
  BY <1>2 DEF FileAppears, FilesStep, IInv, TypeOK
<1>3. CASE UNCHANGED file
  BY <1>3 DEF FilesStep
<1>4. Persist \/ (\E m \in Match : FileAppears(m)) \/ UNCHANGED file
  BY DEF Next, vars, page, Page, Native, Environment, Download, CallFails, Accepted, Dismiss,
         Cooled, Republish, Tick, TasksAnswered, PollFails, StatusRead, StatusFails, Heard,
         Invoke, Settle, Progress, Look, Ticket, Transfer, Reload, Restart, NewPage, Pick,
         Picked, ServerEnds, Delete, Mark, disk
<1> QED
  BY <1>1, <1>2, <1>3, <1>4

\* The native call that ends well leaves a replay in the chosen folder.
LEMMA EndsPlayable ==
  ASSUME IInv, [Next]_vars, End("ok"), UNCHANGED folder, folder \in Folder,
         native.match \in Match, file'[folder][native.match] = "good"
  PROVE  native.match \in Good' /\ GoodStep
<1>1. FilesStep /\ elsewhere' = elsewhere \ {native.match}
  BY FilesStay DEF End
<1>2. \A m \in Match : Playable(m) => Playable(m)'
  BY <1>1 DEF FilesStep, Playable
<1> QED
  BY <1>1, <1>2 DEF Good, GoodStep, Playable

\* What can be played stays so, also when another folder is chosen.
LEMMA GoodStays == IInv /\ [Next]_vars => GoodStep
<1> SUFFICES ASSUME IInv, [Next]_vars PROVE GoodStep
  OBVIOUS
<1>1. FilesStep
  BY FilesStay
<1>2. CASE UNCHANGED <<folder, elsewhere>>
  BY <1>1, <1>2 DEF FilesStep, Good, GoodStep, Playable
<1>3. CASE Picked
  <2>1. file' = file /\ ((folder' = folder /\ elsewhere' = elsewhere) \/ elsewhere' = Match)
    BY <1>3 DEF Picked
  <2> QED
    BY <2>1 DEF Good, GoodStep, Playable
<1>4. CASE Native
  <2>1. /\ folder' = folder /\ native.match \in Match
        /\ native.step = "persist" => folder \in Folder /\ native.content = "good"
    BY <1>4 DEF Native, Look, Ticket, Transfer, Persist, IInv, NativeHolds, Working
  <2>2. CASE Look /\ folder \in Folder /\ here = "good" /\ End("ok")
    BY <2>1, <2>2, EndsPlayable DEF Look, here
  <2>3. CASE Persist /\ Placed /\ End("ok")
    <3>1. file \in [Folder -> [Match -> {"none", "good", "bad"}]]
      BY DEF IInv, TypeOK
    <3>2. folder \in Folder /\ file'[folder][native.match] = "good"
      BY <2>1, <2>3, <3>1 DEF Persist, Placed
    <3> QED
      BY <2>1, <2>3, <3>2, EndsPlayable
  <2>4. CASE elsewhere' = elsewhere
    BY <1>2, <2>1, <2>4
  <2> QED
    BY <1>4, <2>2, <2>3, <2>4 DEF Native, Look, Ticket, Transfer, Persist, End, Goes
<1>5. UNCHANGED <<folder, elsewhere>> \/ Picked \/ Native
  BY DEF Next, vars, page, Page, Environment, Download, CallFails, Accepted, Dismiss,
         Cooled, Republish, Tick, TasksAnswered, PollFails, StatusRead, StatusFails, Heard,
         Invoke, Settle, Progress, Reload, Restart, NewPage, Pick, FileAppears, ServerEnds,
         Delete, Mark, disk
<1> QED
  BY <1>2, <1>3, <1>4, <1>5

\* What a status request hears is written to the row it was about, or to nobody.
LEMMA WrittenList ==
  ASSUME IInv, poll.step = "answer", NEW status \in {"failed", "transferring"},
         Write(status), UNCHANGED <<disk, clock>>
  PROVE  ListChange
<1> DEFINE q == IF poll.fresh THEN [row EXCEPT ![poll.match].status = status] ELSE row
<1>1. row \in [Match -> Row] /\ poll.match \in Match
  BY DEF IInv, TypeOK
<1>2. poll.fresh => row[poll.match].status \in Active
  BY DEF IInv, PollHolds, Visiting
<1>3. q \in [Match -> Row]
  BY <1>1 DEF Row, Active, Over
<1>4. \A m \in Match : row[m].status = "completed" => m \in Good
  BY DEF IInv, ListHolds, Sound
<1>5. \A m \in Match : /\ q[m].stamp = row[m].stamp
                       /\ q[m].status = "none" <=> row[m].status = "none"
                       /\ q[m].status = "completed" => m \in Good
  BY <1>1, <1>2, <1>4 DEF Row, Active
<1>6. Publish(q)
  BY DEF Write
<1> HIDE DEF q
<1> QED
  BY <1>3, <1>5, <1>6, RewrittenList

\* The end of a native call completes its row only if the file is there.
LEMMA SettledList ==
  ASSUME IInv, Settle
  PROVE  ListChange
<1> DEFINE q == [m \in Match |-> IF m \in Current
                                 THEN [row[m] EXCEPT !.status = Outcome(promise.step)]
                                 ELSE row[m]]
<1>1. row \in [Match -> Row] /\ promise.step \in Results /\ UNCHANGED <<disk, clock>>
  BY DEF IInv, TypeOK, Settle
<1>2. /\ Outcome(promise.step) \in {"completed", "preparing", "failed"}
      /\ Outcome(promise.step) = "completed" => promise.step = "ok"
  BY <1>1 DEF Outcome, Results
<1>3. q \in [Match -> Row]
  BY <1>1, <1>2 DEF Row, Active, Over
<1>4. \A m \in Match : row[m].status = "completed" => m \in Good
  BY DEF IInv, ListHolds, Sound
<1>5. \A m \in Current : /\ m = promise.match /\ row[m].status # "none"
                         /\ promise.step = "ok" => m \in Good
  BY DEF Current, IInv, NativeHolds
<1>6. \A m \in Match : /\ q[m].stamp = row[m].stamp
                       /\ q[m].status = "none" <=> row[m].status = "none"
                       /\ q[m].status = "completed" => m \in Good
  BY <1>1, <1>2, <1>4, <1>5 DEF Row
<1>7. Publish(q)
  BY DEF Settle
<1> HIDE DEF q
<1> QED
  BY <1>1, <1>3, <1>6, <1>7, RewrittenList

\* So does a progress event of a native download, and a plain copy of the list.
LEMMA ProgressedList ==
  ASSUME IInv, Progress
  PROVE  ListChange
<1> DEFINE q == [row EXCEPT ![native.match].status = "transferring"]
<1>1. /\ row \in [Match -> Row] /\ native.match \in Match
      /\ row[native.match].status \in Active /\ UNCHANGED <<disk, clock>>
  BY DEF IInv, TypeOK, NativeHolds, Working, Progress
<1>2. q \in [Match -> Row]
  BY <1>1 DEF Row, Active
<1>3. \A m \in Match : row[m].status = "completed" => m \in Good
  BY DEF IInv, ListHolds, Sound
<1>4. \A m \in Match : /\ q[m].stamp = row[m].stamp
                       /\ q[m].status = "none" <=> row[m].status = "none"
                       /\ q[m].status = "completed" => m \in Good
  BY <1>1, <1>3 DEF Row, Active
<1>5. Publish(q)
  BY DEF Progress
<1> HIDE DEF q
<1> QED
  BY <1>1, <1>2, <1>4, <1>5, RewrittenList

LEMMA CopiedList ==
  ASSUME IInv, Publish(row), UNCHANGED <<disk, clock>>
  PROVE  ListChange
<1>1. row \in [Match -> Row] /\ \A m \in Match : row[m].status = "completed" => m \in Good
  BY DEF IInv, TypeOK, ListHolds, Sound
<1> QED
  BY <1>1, RewrittenList

\* Every step keeps the list sound and forgets no request it may not forget.
LEMMA ListStays == IInv /\ [Next]_vars => ListChange
<1> SUFFICES ASSUME IInv, [Next]_vars PROVE ListChange
  OBVIOUS
<1>1. CASE \E m \in Match : Accepted(m)
  BY <1>1, AcceptedList
<1>2. CASE \E m \in Match : Dismiss(m)
  BY <1>2, DismissedList
<1>3. CASE Republish \/ TasksAnswered
  <2>1. Publish(row) /\ UNCHANGED <<disk, clock>>
    BY <1>3 DEF Republish, TasksAnswered
  <2> QED
    BY <2>1, CopiedList
<1>4. CASE Heard
  <2>1. poll.step = "answer" /\ UNCHANGED <<disk, clock>>
    BY <1>4 DEF Heard
  <2>2. CASE HeardFailure
    BY <2>1, <2>2, WrittenList DEF HeardFailure
  <2>3. CASE HeardReady
    BY <2>1, <2>3, WrittenList DEF HeardReady
  <2>4. CASE HeardNothing
    BY <2>1, <2>4, GoodStays, UntouchedList DEF HeardNothing
  <2> QED
    BY <1>4, <2>2, <2>3, <2>4 DEF Heard
<1>5. CASE Settle
  BY <1>5, SettledList
<1>6. CASE Progress
  BY <1>6, ProgressedList
<1>7. CASE Reload \/ Restart
  BY <1>7, RestoredList DEF Reload, Restart
<1>8. CASE UNCHANGED <<row, stored, clock>>
  BY <1>8, GoodStays, UntouchedList
<1>9. \/ \E m \in Match : Accepted(m) \/ Dismiss(m)
      \/ Republish \/ TasksAnswered \/ Heard \/ Settle \/ Progress \/ Reload \/ Restart
      \/ UNCHANGED <<row, stored, clock>>
  BY DEF Next, vars, page, Page, Native, Environment, Download, CallFails, Cooled, Tick,
         PollFails, StatusRead, StatusFails, Invoke, pageButPromise, Look, Ticket, Transfer,
         Persist, Pick, Picked, FileAppears, ServerEnds, Delete, Mark
<1> QED
  BY <1>1, <1>2, <1>3, <1>4, <1>5, <1>6, <1>7, <1>8, <1>9

-----------------------------------------------------------------------------
(* What a step does to the poll *)

PollTyped == poll \in PollState /\ (poll.step \in Visiting => poll.match \in Match)

\* The loop goes on to one of the rows it was given, or ends.
LEMMA Visited ==
  ASSUME NEW left \in SUBSET Captured, NEW fresh \in BOOLEAN, Visit(left, fresh)
  PROVE  /\ PollTyped'
         /\ \/ poll' = Resting
            \/ /\ poll'.fresh = fresh /\ poll'.left \subseteq left
               /\ \E q \in left : poll'.match = q.match
<1>1. CASE poll' = Resting
  BY <1>1 DEF Resting, PollTyped, PollState, Visiting, Answers
<1>2. CASE \E q \in left :
              poll' = [step |-> "status", match |-> q.match, stamp |-> q.stamp,
                       left |-> {p \in left : p.stamp > q.stamp}, fresh |-> fresh,
                       said |-> "none"]
  <2>1. PICK q \in left :
              poll' = [step |-> "status", match |-> q.match, stamp |-> q.stamp,
                       left |-> {p \in left : p.stamp > q.stamp}, fresh |-> fresh,
                       said |-> "none"]
    BY <1>2
  <2>2. q.match \in Match /\ q.stamp \in Nat
    BY DEF Captured
  <2>3. {p \in left : p.stamp > q.stamp} \in SUBSET Captured
    OBVIOUS
  <2> QED
    BY <2>1, <2>2, <2>3 DEF PollTyped, PollState, Visiting, Answers
<1> QED
  BY <1>1, <1>2 DEF Visit

\* A loop whose rows are still to be served keeps the poll's invariant.
LEMMA VisitHolds ==
  ASSUME NEW left \in SUBSET Captured, NEW fresh \in BOOLEAN, Visit(left, fresh),
         promise'.step = "none",
         fresh => \A q \in left : row'[q.match].status \in Active
  PROVE  PollTyped' /\ PollHolds'
<1>1. PollTyped' /\ (poll' = Resting \/ (/\ poll'.fresh = fresh /\ poll'.left \subseteq left
                                         /\ \E q \in left : poll'.match = q.match))
  BY Visited
<1>2. CASE poll' = Resting
  BY <1>1, <1>2 DEF PollHolds, Resting, Visiting
<1>3. CASE poll' # Resting
  BY <1>1, <1>3 DEF PollHolds
<1> QED
  BY <1>1, <1>2, <1>3

\* A poll that has ended.
LEMMA RestedPoll ==
  ASSUME poll' = Resting
  PROVE  PollTyped' /\ PollHolds'
  BY DEF PollTyped, PollState, PollHolds, Resting, Visiting, Answers

\* A poll that is left alone.
LEMMA UnheededPoll ==
  ASSUME IInv, UNCHANGED <<row, poll>>, promise.step = "none" => promise'.step = "none"
  PROVE  PollTyped' /\ PollHolds'
<1>1. PollTyped'
  BY DEF IInv, TypeOK, PollTyped, Visiting
<1> QED
  BY <1>1 DEF IInv, PollHolds

LEMMA WaitingCaptured ==
  ASSUME TypeOK
  PROVE  Waiting \in SUBSET Captured /\ \A q \in Waiting : row[q.match].status \in Active
<1>1. \A m \in Match : row[m].stamp \in Nat
  BY DEF TypeOK, Row
<1> QED
  BY <1>1 DEF Waiting, Captured

\* Every step keeps the poll's invariant.
LEMMA PollStays == IInv /\ [Next]_vars => PollTyped' /\ PollHolds'
<1> SUFFICES ASSUME IInv, [Next]_vars PROVE PollTyped' /\ PollHolds'
  OBVIOUS
<1>1. poll \in PollState /\ (poll.step \in Visiting => poll.match \in Match)
  BY DEF IInv, TypeOK, Visiting
<1>2. poll.left \in SUBSET Captured /\ poll.fresh \in BOOLEAN
  BY <1>1 DEF PollState
<1>3. CASE Tick
  <2>1. poll' = [poll EXCEPT !.step = "tasks"] /\ UNCHANGED <<row, promise>>
    BY <1>3 DEF Tick
  <2>2. /\ poll' \in PollState /\ poll'.step = "tasks"
        /\ poll'.left = poll.left /\ poll'.fresh = poll.fresh
    BY <1>1, <2>1 DEF PollState
  <2> QED
    BY <2>1, <2>2 DEF PollTyped, PollHolds, IInv, Visiting
<1>4. CASE StatusRead
  <2>1. /\ poll.step = "status" /\ UNCHANGED <<row, promise>>
        /\ poll' = [poll EXCEPT !.step = "answer", !.said = server[poll.match]]
    BY <1>4 DEF StatusRead
  <2>2. server[poll.match] \in Answers
    BY <1>1, <2>1 DEF IInv, TypeOK, Visiting
  <2>3. /\ poll' \in PollState /\ poll'.match = poll.match
        /\ poll'.left = poll.left /\ poll'.fresh = poll.fresh
    BY <1>1, <2>1, <2>2 DEF PollState
  <2> QED
    BY <1>1, <2>1, <2>3 DEF PollTyped, PollHolds, IInv, Visiting
<1>5. CASE TasksAnswered
  <2>1. row' = row /\ promise' = promise
    BY <1>5 DEF TasksAnswered, Publish
  <2>2. CASE promise.step = "none"
    <3>1. Visit(Waiting, TRUE)
      BY <1>5, <2>2 DEF TasksAnswered
    <3>2. Waiting \in SUBSET Captured /\ \A q \in Waiting : row'[q.match].status \in Active
      BY <2>1, WaitingCaptured DEF IInv
    <3> QED
      BY <2>1, <2>2, <3>1, <3>2, VisitHolds
  <2>3. CASE promise.step # "none"
    <3>1. poll' = Resting
      BY <1>5, <2>3 DEF TasksAnswered
    <3> QED
      BY <3>1, RestedPoll
  <2> QED
    BY <2>2, <2>3
<1>6. CASE StatusFails
  <2>1. /\ poll.step = "status" /\ UNCHANGED <<row, promise>> /\ Visit(poll.left, poll.fresh)
    BY <1>6 DEF StatusFails
  <2>2. promise.step = "none" /\ (poll.fresh => \A q \in poll.left : row[q.match].status \in Active)
    BY <2>1 DEF IInv, PollHolds, Visiting
  <2> QED
    BY <1>2, <2>1, <2>2, VisitHolds
<1>7. CASE Heard
  <2>1. poll.step = "answer" /\ promise.step = "none"
    BY <1>7 DEF Heard, IInv, PollHolds, Visiting
  <2>2. CASE HeardFailure
    <3>1. Visit(poll.left, FALSE) /\ promise' = promise
      BY <2>2 DEF HeardFailure
    <3> QED
      BY <1>2, <2>1, <3>1, VisitHolds
  <2>3. CASE HeardReady
    <3>1. poll' = Resting
      BY <2>3 DEF HeardReady
    <3> QED
      BY <3>1, RestedPoll
  <2>4. CASE HeardNothing
    <3>1. Visit(poll.left, poll.fresh) /\ UNCHANGED <<row, promise>>
      BY <2>4 DEF HeardNothing
    <3>2. poll.fresh => \A q \in poll.left : row[q.match].status \in Active
      BY DEF IInv, PollHolds
    <3> QED
      BY <1>2, <2>1, <3>1, <3>2, VisitHolds
  <2> QED
    BY <1>7, <2>2, <2>3, <2>4 DEF Heard
<1>8. CASE PollFails \/ Reload \/ Restart
  <2>1. poll' = Resting
    BY <1>8 DEF PollFails, Reload, Restart, NewPage
  <2> QED
    BY <2>1, RestedPoll
<1>9. CASE Republish \/ Settle \/ Progress \/ \E m \in Match : Accepted(m) \/ Dismiss(m)
  <2>1. poll' = Stale(poll) /\ (promise' = promise \/ promise' = NoPromise)
    BY <1>9 DEF Republish, Settle, Progress, Accepted, Dismiss
  <2>2. poll' = poll => poll.fresh = FALSE
    BY <1>1, <2>1 DEF Stale, PollState
  <2>3. PollTyped'
    BY <1>1, <2>1 DEF Stale, PollState, PollTyped
  <2>4. poll'.step = poll.step /\ ~poll'.fresh
    BY <1>1, <2>1 DEF Stale, PollState
  <2> QED
    BY <2>1, <2>3, <2>4 DEF PollHolds, IInv, NoPromise
<1>10. CASE Invoke \/ Native
  <2>1. UNCHANGED <<row, poll>> /\ (promise.step = "none" => promise' = promise)
    <3>1. native.heard => promise.step = "waiting"
      BY DEF IInv, TypeOK
    <3> QED
      BY <1>10, <3>1
         DEF Invoke, Native, Look, Ticket, Transfer, Persist, End, Goes, pageButPromise
  <2> QED
    BY <2>1, UnheededPoll
<1>11. CASE UNCHANGED <<row, poll, promise>>
  BY <1>11, UnheededPoll
<1>12. \/ Tick \/ StatusRead \/ TasksAnswered \/ StatusFails \/ Heard
       \/ PollFails \/ Reload \/ Restart \/ Republish \/ Settle \/ Progress
       \/ (\E m \in Match : Accepted(m) \/ Dismiss(m))
       \/ Invoke \/ Native \/ UNCHANGED <<row, poll, promise>>
  BY DEF Next, vars, page, Page, Environment, Download, CallFails, Cooled, Pick, Picked,
         FileAppears, ServerEnds, Delete, Mark
<1> QED
  BY <1>3, <1>4, <1>5, <1>6, <1>7, <1>8, <1>9, <1>10, <1>11, <1>12

-----------------------------------------------------------------------------
(* What a step does to the native process and the call of it *)

NativeTyped ==
    /\ promise \in PromiseState /\ native \in NativeState
    /\ native.heard => promise.step = "waiting"

\* A step that leaves both alone: the replay an answer is about stays playable.
LEMMA UntouchedNative ==
  ASSUME IInv, GoodStep, folder \in Folder => folder' \in Folder, UNCHANGED <<native, promise>>
  PROVE  NativeTyped' /\ NativeHolds'
<1>1. NativeTyped'
  BY DEF IInv, TypeOK, NativeTyped
<1>2. promise.step = "ok" => promise.match \in Good'
  BY DEF IInv, NativeHolds, GoodStep
<1>3. NativeHolds'
  BY <1>2 DEF IInv, NativeHolds
<1> QED
  BY <1>1, <1>3

\* A step of the call changes nothing else of it.
Said(p, s) == [p EXCEPT !.step = s]

LEMMA SaidPromise ==
  ASSUME NEW p \in PromiseState, NEW s \in {"none", "sent", "waiting"} \cup Results
  PROVE  Said(p, s) \in PromiseState /\ Said(p, s).step = s /\ Said(p, s).match = p.match
  BY DEF Said, PromiseState

\* The end of a native download: "ok" is said of a replay that can be played.
LEMMA EndedNative ==
  ASSUME IInv, GoodStep, NEW result \in Results, End(result), native.step \in Working,
         result = "ok" => native.match \in Good'
  PROVE  NativeTyped' /\ NativeHolds'
<1>1. /\ promise \in PromiseState /\ native.match \in Match
      /\ native.heard => native.match = promise.match /\ promise.step = "waiting"
  BY DEF IInv, TypeOK, NativeHolds
<1>2. /\ native' = Free /\ Free \in NativeState
      /\ Free.step = "idle" /\ Free.step \notin Working /\ ~Free.heard
  BY DEF End, Free, NativeState, Working
<1>3. CASE native.heard
  <2>1. promise' = Said(promise, result)
    BY <1>3 DEF End, Said
  <2>2. promise' \in PromiseState /\ promise'.step = result /\ promise'.match = native.match
    BY <1>1, <1>3, <2>1, SaidPromise
  <2>3. NativeTyped'
    BY <1>2, <2>2 DEF NativeTyped
  <2>4. NativeHolds'
    BY <1>1, <1>2, <2>2 DEF NativeHolds
  <2> QED
    BY <2>3, <2>4
<1>4. CASE ~native.heard
  <2>1. promise' = promise
    BY <1>4 DEF End
  <2>2. NativeTyped'
    BY <1>1, <1>2, <2>1 DEF NativeTyped
  <2>3. /\ promise.step = "sent" => promise.match \in Match
        /\ promise.step = "ok" => promise.match \in Good'
    BY DEF IInv, NativeHolds, GoodStep
  <2>4. NativeHolds'
    BY <1>2, <2>1, <2>3 DEF NativeHolds
  <2> QED
    BY <2>2, <2>4
<1> QED
  BY <1>3, <1>4

\* A step of the native process that is still at work.
LEMMA WorkingNative ==
  ASSUME IInv, GoodStep, promise' = promise, native.step \in Working, native' \in NativeState,
         folder' \in Folder, native'.match = native.match, native'.heard = native.heard,
         native'.step = "persist" => native'.content = "good"
  PROVE  NativeTyped' /\ NativeHolds'
<1>1. NativeTyped'
  BY DEF IInv, TypeOK, NativeTyped
<1>2. /\ native.match \in Match /\ (native.heard => native.match = promise.match)
      /\ promise.step = "sent" => promise.match \in Match
      /\ promise.step = "ok" => promise.match \in Good'
  BY DEF IInv, NativeHolds, GoodStep
<1> QED
  BY <1>1, <1>2 DEF NativeHolds

\* The native process publishes a file only if it verified it, and reports "ok"
\* only of a replay that it found, or has written itself.
LEMMA NativeSteps ==
  ASSUME IInv, [Next]_vars, Native
  PROVE  NativeTyped' /\ NativeHolds'
<1>1. /\ native \in NativeState /\ native.match \in Match /\ native.step \in Working
      /\ file \in [Folder -> [Match -> {"none", "good", "bad"}]]
      /\ native.step \in {"ticket", "transfer", "persist"} => folder \in Folder
  BY DEF Native, Look, Ticket, Transfer, Persist, IInv, TypeOK, NativeHolds, Working
<1>2. GoodStep /\ folder' = folder
  BY GoodStays DEF Native, Look, Ticket, Transfer, Persist
<1>3. CASE End("error") \/ End("pending")
  BY <1>1, <1>2, <1>3, EndedNative DEF Results
<1>4. CASE Look
  <2>1. CASE End("ok") /\ folder \in Folder /\ here = "good"
    <3>1. file'[folder][native.match] = "good"
      BY <1>4, <2>1 DEF Look, here
    <3>2. native.match \in Good'
      BY <1>1, <1>2, <2>1, <3>1, EndsPlayable
    <3> QED
      BY <1>1, <1>2, <2>1, <3>2, EndedNative DEF Results
  <2>2. CASE Goes("ticket") /\ folder \in Folder
    BY <1>1, <1>2, <2>2, WorkingNative DEF NativeState, Goes
  <2> QED
    BY <1>3, <1>4, <2>1, <2>2 DEF Look
<1>5. CASE Ticket
  <2>1. CASE Goes("transfer")
    BY <1>1, <1>2, <1>5, <2>1, WorkingNative DEF NativeState, Goes, Ticket
  <2> QED
    BY <1>3, <1>5, <2>1 DEF Ticket
<1>6. CASE Transfer
  <2>1. CASE native' = [native EXCEPT !.step = "persist", !.content = "good"] /\ promise' = promise
    BY <1>1, <1>2, <1>6, <2>1, WorkingNative DEF NativeState, Transfer
  <2> QED
    BY <1>3, <1>6, <2>1 DEF Transfer, Verified
<1>7. CASE Persist
  <2>1. native.step = "persist" /\ native.content = "good" /\ folder \in Folder
    BY <1>1, <1>7 DEF Persist, IInv, NativeHolds
  <2>2. CASE End("ok") /\ Placed
    <3>1. file'[folder][native.match] = "good"
      BY <1>1, <2>1, <2>2 DEF Placed
    <3>2. native.match \in Good'
      BY <1>1, <1>2, <2>1, <2>2, <3>1, EndsPlayable
    <3> QED
      BY <1>1, <1>2, <2>2, <3>2, EndedNative DEF Results
  <2> QED
    BY <1>3, <1>7, <2>2 DEF Persist
<1> QED
  BY <1>4, <1>5, <1>6, <1>7 DEF Native

\* Every step keeps what the native process and the page know of each other.
LEMMA NativeStays == IInv /\ [Next]_vars => NativeTyped' /\ NativeHolds'
<1> SUFFICES ASSUME IInv, [Next]_vars PROVE NativeTyped' /\ NativeHolds'
  OBVIOUS
<1>1. GoodStep
  BY GoodStays
<1>2. /\ promise \in PromiseState /\ native \in NativeState
      /\ native.heard => promise.step = "waiting" /\ native.match = promise.match
  BY DEF IInv, TypeOK, NativeHolds
<1>3. CASE Invoke
  <2>1. /\ promise.step = "sent" /\ promise.match \in Match /\ ~native.heard
        /\ folder' = folder
    BY <1>2, <1>3 DEF Invoke, IInv, NativeHolds, disk
  <2>2. CASE native.step = "idle"
    <3>1. /\ native' = [step |-> "look", match |-> promise.match, heard |-> TRUE,
                        content |-> "none"]
          /\ promise' = Said(promise, "waiting")
      BY <1>3, <2>2 DEF Invoke, Said
    <3>2. /\ promise' \in PromiseState /\ promise'.step = "waiting"
          /\ promise'.match = promise.match
      BY <1>2, <3>1, SaidPromise
    <3> QED
      BY <2>1, <3>1, <3>2 DEF NativeTyped, NativeHolds, NativeState
  <2>3. CASE native.step # "idle"
    <3>1. native' = native /\ promise' = Said(promise, "refused")
      BY <1>3, <2>3 DEF Invoke, Said
    <3>2. /\ promise' \in PromiseState /\ promise'.step = "refused"
          /\ promise'.match = promise.match
      BY <1>2, <3>1, SaidPromise DEF Results
    <3> QED
      BY <1>2, <2>1, <3>1, <3>2 DEF NativeTyped, NativeHolds, IInv
  <2> QED
    BY <2>2, <2>3
<1>4. CASE Native
  BY <1>4, NativeSteps
<1>5. CASE Heard
  <2>1. /\ poll.step = "answer" /\ promise.step = "none" /\ poll.match \in Match
        /\ poll.stamp \in Nat /\ native' = native /\ folder' = folder
    BY <1>5 DEF Heard, IInv, TypeOK, PollHolds, PollState, Visiting, disk
  <2>2. CASE HeardReady
    <3>1. promise' = [step |-> "sent", match |-> poll.match, stamp |-> poll.stamp]
      BY <2>2 DEF HeardReady
    <3>2. promise' \in PromiseState /\ promise'.step = "sent" /\ promise'.match \in Match
      BY <2>1, <3>1 DEF PromiseState
    <3> QED
      BY <1>2, <2>1, <3>2 DEF NativeTyped, NativeHolds, IInv
  <2>3. CASE HeardFailure \/ HeardNothing
    BY <1>1, <2>1, <2>3, UntouchedNative DEF HeardFailure, HeardNothing
  <2> QED
    BY <1>5, <2>2, <2>3 DEF Heard
<1>6. NoPromise \in PromiseState /\ NoPromise.step = "none"
  BY DEF NoPromise, PromiseState
<1>7. CASE Settle
  <2>1. native' = native /\ ~native.heard /\ promise' = NoPromise /\ folder' = folder
    BY <1>2, <1>7 DEF Settle, Results, disk
  <2> QED
    BY <1>2, <1>6, <2>1 DEF NativeTyped, NativeHolds, IInv
<1>8. CASE Reload
  <2>1. promise' = NoPromise /\ native' = [native EXCEPT !.heard = FALSE] /\ folder' = folder
    BY <1>8 DEF Reload, NewPage, disk
  <2>2. /\ native' \in NativeState /\ ~native'.heard /\ native'.step = native.step
        /\ native'.match = native.match /\ native'.content = native.content
    BY <1>2, <2>1 DEF NativeState
  <2> QED
    BY <1>6, <2>1, <2>2 DEF NativeTyped, NativeHolds, IInv
<1>9. CASE Restart \/ Pick \/ Picked
  <2>1. /\ native' \in NativeState /\ ~native'.heard /\ native'.step \in {"idle", "dialog"}
        /\ (promise' = promise \/ promise' = NoPromise)
    <3>1. native' = Free \/ native' = [Free EXCEPT !.step = "dialog"]
      BY <1>9 DEF Restart, Pick, Picked
    <3>2. promise' = promise \/ promise' = NoPromise
      BY <1>9 DEF Restart, Pick, Picked, NewPage, page
    <3>3. /\ Free \in NativeState /\ ~Free.heard /\ Free.step = "idle"
          /\ [Free EXCEPT !.step = "dialog"] \in NativeState
          /\ ~[Free EXCEPT !.step = "dialog"].heard
          /\ [Free EXCEPT !.step = "dialog"].step = "dialog"
      BY DEF Free, NativeState
    <3> QED
      BY <3>1, <3>2, <3>3
  <2>2. /\ promise.step = "sent" => promise.match \in Match
        /\ promise.step = "ok" => promise.match \in Good'
    BY <1>1 DEF IInv, NativeHolds, GoodStep
  <2> QED
    BY <1>2, <1>6, <2>1, <2>2 DEF NativeTyped, NativeHolds, Working
<1>10. CASE UNCHANGED <<native, promise, folder>>
  BY <1>1, <1>10, UntouchedNative
<1>11. \/ Invoke \/ Native \/ Heard \/ Settle \/ Reload \/ Restart \/ Pick \/ Picked
       \/ UNCHANGED <<native, promise, folder>>
  BY DEF Next, vars, page, Page, Environment, Download, CallFails, Accepted, Dismiss, Cooled,
         Republish, Tick, TasksAnswered, PollFails, StatusRead, StatusFails, Progress,
         FileAppears, ServerEnds, Delete, Mark, disk
<1> QED
  BY <1>3, <1>4, <1>5, <1>7, <1>8, <1>9, <1>10, <1>11

-----------------------------------------------------------------------------
(* The theorems *)

\* The rest of the state keeps its types.
LEMMA RestTyped ==
  ASSUME IInv, [Next]_vars
  PROVE  /\ asked' \in [Match -> Nat] /\ cooling' \subseteq Match
         /\ folder' \in Folder \cup {NoFolder} /\ elsewhere' \subseteq Match
         /\ file' \in [Folder -> [Match -> {"none", "good", "bad"}]]
         /\ server' \in [Match -> Answers] /\ spent' \in [Budgets -> Nat]
<1>1. /\ asked \in [Match -> Nat] /\ cooling \subseteq Match
      /\ folder \in Folder \cup {NoFolder} /\ elsewhere \subseteq Match
      /\ file \in [Folder -> [Match -> {"none", "good", "bad"}]]
      /\ server \in [Match -> Answers]
      /\ spent \in [Budgets -> Nat] /\ native \in NativeState
      /\ native.step = "persist" => native.match \in Match /\ folder \in Folder
  BY DEF IInv, TypeOK, NativeHolds, Working
<1>2. asked' \in [Match -> Nat]
  <2>1. CASE \E m \in Match : asked' = [asked EXCEPT ![m] = @ + 1]
    BY <1>1, <2>1
  <2>2. CASE \E m \in Match : Answered(m)
    <3>1. PICK m \in Match : asked[m] > 0 /\ asked' = [asked EXCEPT ![m] = @ - 1]
      BY <2>2 DEF Answered
    <3> QED
      BY <1>1, <3>1
  <2>3. CASE asked' = [m \in Match |-> 0] \/ asked' = asked
    BY <1>1, <2>3
  <2> QED
    BY <2>1, <2>2, <2>3
       DEF Next, vars, page, Page, Native, Environment, Download, CallFails, Accepted, Dismiss,
           Cooled, Republish, Tick, TasksAnswered, PollFails, StatusRead, StatusFails, Heard,
           HeardFailure, HeardReady, HeardNothing, Invoke, Settle, Progress, pageButPromise,
           Look, Ticket, Transfer, Persist, Reload, Restart, NewPage, Pick, Picked, FileAppears,
           ServerEnds, Delete, Mark
<1>3. cooling' \subseteq Match
  <2>1. Current \subseteq Match
    BY DEF Current
  <2>2. cooling' \subseteq cooling \cup Current
    BY DEF Next, vars, page, Page, Native, Environment, Download, CallFails, Accepted, Dismiss,
           Cooled, Republish, Tick, TasksAnswered, PollFails, StatusRead, StatusFails, Heard,
           HeardFailure, HeardReady, HeardNothing, Invoke, Settle, Progress, pageButPromise,
           Look, Ticket, Transfer, Persist, Reload, Restart, NewPage, Pick, Picked, FileAppears,
           ServerEnds, Delete, Mark
  <2> QED
    BY <1>1, <2>1, <2>2
<1>4. file' \in [Folder -> [Match -> {"none", "good", "bad"}]]
  <2>1. CASE Persist
    BY <1>1, <2>1 DEF Persist, Placed, NativeState
  <2>2. CASE \E m \in Match : FileAppears(m)
    BY <1>1, <2>2 DEF FileAppears
  <2>3. CASE file' = file
    BY <1>1, <2>3
  <2> QED
    BY <2>1, <2>2, <2>3
       DEF Next, vars, page, Page, Native, Environment, Download, CallFails, Accepted, Dismiss,
           Cooled, Republish, Tick, TasksAnswered, PollFails, StatusRead, StatusFails, Heard,
           Invoke, Settle, Progress, Look, Ticket, Transfer, Reload, Restart, NewPage, Pick,
           Picked, ServerEnds, Delete, Mark, disk
<1>5. server' \in [Match -> Answers]
  <2>1. CASE \E m \in Match : CallFails(m) \/ Accepted(m) \/ ServerEnds(m) \/ Delete(m) \/ Mark(m)
    BY <1>1, <2>1 DEF CallFails, Accepted, Requested, ServerEnds, Delete, Mark, Answers
  <2>2. CASE Ticket
    BY <1>1, <2>2 DEF Ticket, Answers
  <2>3. CASE server' = server
    BY <1>1, <2>3
  <2> QED
    BY <2>1, <2>2, <2>3
       DEF Next, vars, page, Page, Native, Environment, Download, Dismiss,
           Cooled, Republish, Tick, TasksAnswered, PollFails, StatusRead, StatusFails, Heard,
           Invoke, Settle, Progress, Look, Transfer, Persist, Reload, Restart, NewPage, Pick,
           Picked, FileAppears
<1>6. spent' \in [Budgets -> Nat]
  <2>1. CASE \E b \in Budgets : \E n \in Nat : Spend(b, n)
    BY <1>1, <2>1 DEF Spend
  <2>2. CASE spent' = spent
    BY <1>1, <2>2
  <2>3. "requests" \in Budgets /\ "events" \in Budgets /\ MaxRequests \in Nat /\ MaxEvents \in Nat
    BY DesktopAssumption DEF Budgets
  <2> QED
    BY <2>1, <2>2, <2>3
       DEF Next, vars, page, Page, Native, Environment, Download, CallFails, Accepted, Dismiss,
           Cooled, Republish, Tick, TasksAnswered, PollFails, StatusRead, StatusFails, Heard,
           Invoke, Settle, Progress, Look, Ticket, Transfer, Persist, Reload, Restart, NewPage,
           Pick, Picked, FileAppears, ServerEnds, Delete, Mark
<1>7. folder' \in Folder \cup {NoFolder} /\ elsewhere' \subseteq Match
  BY <1>1
     DEF Next, vars, page, Page, Native, Environment, Download, CallFails, Accepted, Dismiss,
         Cooled, Republish, Tick, TasksAnswered, PollFails, StatusRead, StatusFails, Heard,
         Invoke, Settle, Progress, Look, Ticket, Transfer, Persist, End, Goes, Reload, Restart,
         NewPage, Pick, Picked, FileAppears, ServerEnds, Delete, Mark, disk
<1> QED
  BY <1>2, <1>3, <1>4, <1>5, <1>6, <1>7

LEMMA InitHolds == Init => IInv
<1> SUFFICES ASSUME Init PROVE IInv
  OBVIOUS
<1>1. TypeOK
  BY DesktopAssumption
     DEF Init, TypeOK, NoRow, Row, Resting, PollState, Answers, NoPromise, PromiseState, Results,
         Free, NativeState
<1>2. PollHolds /\ NativeHolds
  BY DEF Init, PollHolds, NativeHolds, Visiting, Working, Resting, NoPromise, Free
<1>3. ListHolds
  <2>1. /\ row \in [Match -> Row] /\ stored = row /\ clock = 0
        /\ \A m \in Match : row[m].stamp = 0 /\ row[m].status = "none"
    BY <1>1 DEF Init, TypeOK, NoRow
  <2> QED
    BY <2>1 DEF ListHolds, Sound, Alike
<1> QED
  BY <1>1, <1>2, <1>3 DEF IInv

LEMMA NextHolds == IInv /\ [Next]_vars => IInv'
<1> SUFFICES ASSUME IInv, [Next]_vars PROVE IInv'
  OBVIOUS
<1>1. ListHolds' /\ clock' \in Nat
  BY ListStays DEF ListChange
<1>2. row' \in [Match -> Row] /\ stored' \in [Match -> Row]
  BY <1>1 DEF ListHolds, Sound
<1>3. PollTyped' /\ PollHolds'
  BY PollStays
<1>4. NativeTyped' /\ NativeHolds'
  BY NativeStays
<1>5. TypeOK'
  BY <1>1, <1>2, <1>3, <1>4, RestTyped DEF TypeOK, PollTyped, NativeTyped, Visiting
<1> QED
  BY <1>1, <1>3, <1>4, <1>5 DEF IInv

\* The inductive invariant holds in every reachable state.
THEOREM Invariance == Spec => []IInv
  BY InitHolds, NextHolds, PTL DEF Spec

\* The list, its copy, the poll, the call and the native process keep their types.
THEOREM TypeCorrect == Spec => []TypeOK
  BY Invariance, PTL DEF IInv

\* What is called completed is in Dota's folder, on every page, and in one of its
\* folders once another was chosen.
THEOREM CompletedPlayable == Spec => []CompletedIsPlayable
<1>1. IInv => CompletedIsPlayable
  BY DEF IInv, ListHolds, Sound, CompletedIsPlayable, Good
<1> QED
  BY <1>1, Invariance, PTL

\* No file in Dota's folder is written over.
THEOREM NoFileReplaced == Spec => FilesKept
<1>1. IInv /\ [Next]_vars =>
        [\A f \in Folder, m \in Match : file[f][m] # "none" => file'[f][m] = file[f][m]]_vars
  BY FilesStay DEF FilesStep
<1> QED
  BY <1>1, Invariance, PTL DEF Spec, FilesKept

\* A request in the list leaves it unfinished only for newer ones.
THEOREM NoRequestForgotten == Spec => AcceptedKept
<1>1. IInv /\ [Next]_vars =>
        [\A m \in Match :
            row[m].status \in Active /\ row'[m].stamp # row[m].stamp =>
                \/ row'[m].stamp > row[m].stamp
                \/ /\ clock' > clock
                   /\ Cardinality({n \in Match : row'[n].stamp > row[m].stamp}) >= MaxRows]_vars
  BY ListStays DEF ListChange, AcceptedStep
<1> QED
  BY <1>1, Invariance, PTL DEF Spec, AcceptedKept
=============================================================================
