-------------------------- MODULE MatchImagesProofs --------------------------
(***************************************************************************)
(* Safety of the way from a linked match to its images, for any number of  *)
(* entries, matches, objects and workers, and that both of its tables are  *)
(* lease queues.                                                           *)
(***************************************************************************)
EXTENDS MatchImagesProperties, TLAPS

-----------------------------------------------------------------------------
(* The inductive invariant *)

\* A worker has an entry while it is not idle, and a match once it renders.
WorkerHolds(w) ==
    /\ worker[w].step = "idle" <=> worker[w].entry = Nobody
    /\ worker[w].step \in {"render", "upload"} => worker[w].dota \in Dota

Uploading(w) == worker[w].step \in {"progress", "replace"}

\* What a worker has uploaded and no row names yet is there, and its own.
UploadHolds(w) == Uploading(w) =>
    LET o == worker[w].object IN
    /\ o \in Object /\ object[o] # None
    /\ \A e \in Entry : shown[e] # o
    /\ \A v \in Worker \ {w} : Uploading(v) => worker[v].object # o
    /\ \A v \in Worker : worker[v].previous # o

\* What a worker is about to delete is no longer named by a row.
PreviousHolds(w) == worker[w].previous # None =>
    \A e \in Entry : shown[e] # worker[w].previous

\* No two entries show the same object.
ShownApart == \A e, f \in Entry : shown[e] = shown[f] => e = f \/ shown[e] = None

\* Each table is locked by workers of its own.
OwnWorkers == \A e \in Entry : /\ image[e].lockedAt \in ImageWorker \cup {Nobody}
                               /\ parse[e].lockedAt \in ParseWorker \cup {Nobody}

IInv ==
    /\ TypeOK
    /\ ImagesStored
    /\ OwnWorkers
    /\ ShownApart
    /\ \A w \in Worker : WorkerHolds(w) /\ UploadHolds(w) /\ PreviousHolds(w)

-----------------------------------------------------------------------------
(* Rows *)

LEMMA Apart ==
  /\ Nobody \notin Worker /\ Nobody \notin Entry /\ None \notin Dota /\ None \notin Object
  /\ Nobody \notin ImageWorker /\ Nobody \notin ParseWorker
  /\ \A w \in Worker : w \in ImageWorker <=> w \notin ParseWorker
  BY ImagesAssumption DEF Worker

Status == {"none", "pending", "processing", "completed", "failed"}

LEMMA ImageUnlocked ==
  ASSUME NEW r \in ImageRow, NEW s \in Status
  PROVE  /\ Unlocked(r, s) \in ImageRow /\ Unlocked(r, s).status = s
         /\ Unlocked(r, s).lockedAt = Nobody
  BY DEF Unlocked, ImageRow, Status

LEMMA ImageLocked ==
  ASSUME NEW r \in ImageRow, NEW w \in Worker
  PROVE  Locked(r, w) \in ImageRow /\ Locked(r, w).status = "processing" /\ Locked(r, w).lockedAt = w
  BY DEF Locked, ImageRow

LEMMA ImageDeferred ==
  ASSUME NEW r \in ImageRow
  PROVE  /\ Deferred(r) \in ImageRow /\ Deferred(r).status = "pending"
         /\ Deferred(r).lockedAt = Nobody
<1> DEFINE u == Unlocked(r, "pending")
           n == IF u.attempts = 0 THEN 0 ELSE u.attempts - 1
<1>1. u \in ImageRow /\ u.status = "pending" /\ u.lockedAt = Nobody
  BY ImageUnlocked DEF Status
<1>2. n \in Nat
  BY <1>1 DEF ImageRow
<1>3. Deferred(r) = [u EXCEPT !.attempts = n]
  BY DEF Deferred
<1> HIDE DEF u, n
<1>4. PICK row \in ImageRow, m \in Nat : row = u /\ m = n
  BY <1>1, <1>2
<1> PICK new : new = Deferred(r)
  OBVIOUS
<1>5. new = [row EXCEPT !.attempts = m]
  BY <1>3, <1>4, Zenon
<1>6. new \in ImageRow /\ new.status = row.status /\ new.lockedAt = row.lockedAt
  BY <1>5 DEF ImageRow
<1> QED
  BY <1>1, <1>4, <1>6

LEMMA NoImageRow ==
  /\ NoImage \in ImageRow /\ NoImage.status = "none" /\ NoImage.lockedAt = Nobody
  /\ [NoImage EXCEPT !.status = "pending"] \in ImageRow
  /\ [NoImage EXCEPT !.status = "pending"].status = "pending"
  /\ [NoImage EXCEPT !.status = "pending"].lockedAt = Nobody
  BY DEF NoImage, ImageRow

LEMMA ParseUnlocked ==
  ASSUME NEW r \in ParseRow, NEW s \in Status
  PROVE  /\ Unlocked(r, s) \in ParseRow /\ Unlocked(r, s).status = s
         /\ Unlocked(r, s).lockedAt = Nobody
  BY DEF Unlocked, ParseRow, Status

LEMMA ParseLocked ==
  ASSUME NEW r \in ParseRow, NEW w \in Worker
  PROVE  /\ Locked(r, w) \in ParseRow /\ Locked(r, w).status = "processing"
         /\ Locked(r, w).lockedAt = w
  BY DEF Locked, ParseRow

LEMMA NoParseRow ==
  ASSUME NEW d \in Dota \cup {None}, NEW row,
         row = [NoParse EXCEPT !.status = "pending", !.dota = d]
  PROVE  row \in ParseRow /\ row.status = "pending" /\ row.lockedAt = Nobody
  BY DEF NoParse, ParseRow

-----------------------------------------------------------------------------
(* Workers *)

Step == {"idle", "failing"} \cup ImageStep \cup ParseStep

LEMMA GoSets ==
  ASSUME worker \in [Worker -> WorkerState], NEW w \in Worker, NEW s \in Step, Go(w, s)
  PROVE  /\ worker' \in [Worker -> WorkerState]
         /\ \A v \in Worker \ {w} : worker'[v] = worker[v]
         /\ worker'[w].step = s /\ worker'[w].entry = worker[w].entry
         /\ worker'[w].dota = worker[w].dota /\ worker'[w].object = worker[w].object
         /\ worker'[w].previous = worker[w].previous
  BY DEF Go, WorkerState, Step

LEMMA FailsSets ==
  ASSUME worker \in [Worker -> WorkerState], NEW w \in Worker,
         NEW final \in BOOLEAN, NEW counted \in BOOLEAN, Fails(w, final, counted)
  PROVE  /\ worker' \in [Worker -> WorkerState]
         /\ \A v \in Worker \ {w} : worker'[v] = worker[v]
         /\ worker'[w].step = "failing" /\ worker'[w].entry = worker[w].entry
         /\ worker'[w].previous = worker[w].previous
<1> PICK old \in WorkerState : old = worker[w]
  OBVIOUS
<1>1. PICK new : new = [old EXCEPT !.step = "failing", !.final = final, !.counted = counted]
  OBVIOUS
<1>2. worker' = [worker EXCEPT ![w] = new]
  BY <1>1, Zenon DEF Fails
<1>3. /\ new \in WorkerState /\ new.step = "failing" /\ new.entry = old.entry
      /\ new.previous = old.previous
  BY <1>1 DEF WorkerState
<1> QED
  BY <1>1, <1>2, <1>3

LEMMA RestSets ==
  ASSUME worker \in [Worker -> WorkerState], NEW w \in Worker, Rest(w)
  PROVE  /\ worker' \in [Worker -> WorkerState]
         /\ \A v \in Worker \ {w} : worker'[v] = worker[v]
         /\ worker'[w].step = "idle" /\ worker'[w].entry = Nobody
         /\ worker'[w].previous = None
<1>1. Idle \in WorkerState /\ Idle.step = "idle" /\ Idle.entry = Nobody /\ Idle.previous = None
  BY NoImageRow DEF Idle, WorkerState
<1> QED
  BY <1>1 DEF Rest

-----------------------------------------------------------------------------
(* Steps *)

TablesHold ==
    /\ link \in [Entry -> Dota \cup {None}]
    /\ \A e \in Entry : link[e] # None => ~Duplicate(e, link[e])
    /\ stored \in [Dota -> Payload \cup {"none"}]
    /\ provider \in [Dota -> {"unparsed", "asked", "parsed"}]
    /\ image \in [Entry -> ImageRow]
    /\ parse \in [Entry -> ParseRow]
    /\ call \in [Caller -> CallState]
    /\ spent \in [calls : 0..MaxCalls, faults : 0..MaxFaults]
    /\ enabled \in BOOLEAN
    /\ OwnWorkers

\* What a step of the worker w, or of nobody's, may do to a row of either table.
Moved(old, new, e, w) ==
    \/ new.status = old.status /\ (new.lockedAt = old.lockedAt \/ old.status # "processing")
    \/ old.status \notin Active /\ new.status = "pending"
    \/ /\ w \in Worker /\ worker[w].entry = Nobody /\ worker'[w].entry = e
       /\ old.status = "pending" /\ new.status = "processing" /\ new.lockedAt = w
    \/ old.status = "processing" /\ new.status \in {"pending", "failed"}
    \/ /\ w \in Worker /\ worker[w].entry = e /\ worker'[w].entry = Nobody
       /\ old.status = "processing" /\ old.lockedAt = w /\ new.status \in {"pending", "completed"}

\* A worker turns to an entry only by claiming a row of its table.
Turns(w) ==
    /\ \A v \in Worker \ {w} : worker'[v] = worker[v]
    /\ w \in Worker =>
        \/ worker'[w].entry \in {worker[w].entry, Nobody}
        \/ worker[w].entry = Nobody /\ \E e \in Entry :
              /\ worker'[w].entry = e
              /\ IF w \in ImageWorker
                 THEN image[e].status = "pending" /\ Leases(image'[e], w)
                 ELSE parse[e].status = "pending" /\ Leases(parse'[e], w)

Framed(w) ==
    /\ \A e \in Entry : Moved(image[e], image'[e], e, w) /\ Moved(parse[e], parse'[e], e, w)
    /\ Turns(w)

\* The worker's own part of the invariant.
WorkersMove(w) ==
    /\ worker' \in [Worker -> WorkerState]
    /\ \A v \in Worker \ {w} : worker'[v] = worker[v]
    /\ WorkerHolds(w)'

LEMMA TablesSame ==
  ASSUME IInv, UNCHANGED <<link, stored, provider, rows, call, spent, enabled>>
  PROVE  TablesHold'
  BY DEF IInv, TypeOK, TablesHold, OwnWorkers, Duplicate, rows

\* A step that moves no row and links nothing.
LEMMA TablesQuiet ==
  ASSUME IInv, UNCHANGED <<link, stored, rows, enabled>>,
         provider' \in [Dota -> {"unparsed", "asked", "parsed"}],
         call' \in [Caller -> CallState],
         spent' \in [calls : 0..MaxCalls, faults : 0..MaxFaults]
  PROVE  TablesHold'
  BY DEF IInv, TypeOK, TablesHold, OwnWorkers, Duplicate, rows

LEMMA SpendHolds ==
  ASSUME IInv, NEW what \in {"calls", "faults"}, NEW most,
         most = IF what = "calls" THEN MaxCalls ELSE MaxFaults, Spend(what, most)
  PROVE  spent' \in [calls : 0..MaxCalls, faults : 0..MaxFaults]
<1>1. PICK old \in [calls : 0..MaxCalls, faults : 0..MaxFaults] : old = spent
  BY DEF IInv, TypeOK
<1>2. MaxCalls \in Nat /\ MaxFaults \in Nat
  BY ImagesAssumption
<1> QED
  BY <1>1, <1>2 DEF Spend

LEMMA RowsSame ==
  ASSUME UNCHANGED rows, NEW w
  PROVE  \A e \in Entry : Moved(image[e], image'[e], e, w) /\ Moved(parse[e], parse'[e], e, w)
  BY DEF rows, Moved

\* Steps of no worker leave the pictures alone.
LEMMA NobodyKeeps ==
  ASSUME IInv, UNCHANGED <<pictures, worker>>, TablesHold'
  PROVE  IInv' /\ Turns(Nobody)
<1>1. TypeOK'
  BY DEF IInv, TypeOK, TablesHold, pictures
<1>2. ImagesStored' /\ ShownApart'
  BY DEF IInv, ImagesStored, ShownApart, pictures
<1>3. \A w \in Worker : WorkerHolds(w)' /\ UploadHolds(w)' /\ PreviousHolds(w)'
  BY DEF IInv, WorkerHolds, UploadHolds, Uploading, PreviousHolds, pictures
<1>4. Turns(Nobody)
  BY Apart DEF Turns
<1> QED
  BY <1>1, <1>2, <1>3, <1>4 DEF IInv, TablesHold

\* A worker that names and deletes at most an object that no row names, and
\* that is not another worker's upload.
LEMMA DeleteKeeps ==
  ASSUME IInv, NEW w \in Worker, NEW o \in Object \cup {None}, WorkersMove(w), Delete(o),
         UNCHANGED <<shown, unanswered>>, TablesHold', \A e \in Entry : o # None => shown[e] # o,
         \A v \in Worker \ {w} : Uploading(v) => worker[v].object # o,
         Uploading(w)' => Uploading(w) /\ worker'[w].object = worker[w].object
                          /\ UNCHANGED object,
         worker'[w].previous \in {worker[w].previous, None}
  PROVE  IInv'
<1>1. /\ object \in [Object -> Dota \cup {None}] /\ shown \in [Entry -> Object \cup {None}]
  BY DEF IInv, TypeOK
<1>2. /\ object' \in [Object -> Dota \cup {None}]
      /\ \A p \in Object \ {o} : object'[p] = object[p]
  BY <1>1 DEF Delete
<1>3. TypeOK'
  BY <1>1, <1>2 DEF IInv, TypeOK, TablesHold, WorkersMove
<1>4. ImagesStored' /\ ShownApart'
  BY <1>1, <1>2 DEF IInv, ImagesStored, ShownApart
<1>5. ASSUME NEW v \in Worker
      PROVE  WorkerHolds(v)' /\ UploadHolds(v)' /\ PreviousHolds(v)'
  <2>1. WorkerHolds(v)'
    BY DEF WorkersMove, IInv, WorkerHolds
  <2>2. PreviousHolds(v)'
    BY DEF WorkersMove, IInv, PreviousHolds
  <2>3. ASSUME Uploading(v)'
        PROVE  /\ Uploading(v) /\ worker'[v].object = worker[v].object
               /\ object'[worker[v].object] = object[worker[v].object]
    <3>1. CASE v = w
      BY <2>3, <3>1
    <3>2. CASE v # w
      <4>1. Uploading(v) /\ worker'[v].object = worker[v].object
        BY <2>3, <3>2 DEF WorkersMove, Uploading
      <4>2. worker[v].object \in Object \ {o}
        BY <3>2, <4>1 DEF IInv, UploadHolds
      <4> QED
        BY <1>2, <4>1, <4>2
    <3> QED
      BY <3>1, <3>2
  <2>4. \A x \in Worker \ {v} : Uploading(v)' /\ Uploading(x)' =>
            Uploading(x) /\ worker'[x].object = worker[x].object
    BY DEF WorkersMove, Uploading
  <2>5. \A x \in Worker : worker'[x].previous \in {worker[x].previous, None}
    BY DEF WorkersMove
  <2>6. UploadHolds(v)'
    BY <2>3, <2>4, <2>5, Apart DEF IInv, UploadHolds
  <2> QED
    BY <2>1, <2>2, <2>6
<1> QED
  BY <1>3, <1>4, <1>5 DEF IInv, TablesHold

\* A worker that touches no picture.
LEMMA QuietKeeps ==
  ASSUME IInv, NEW w \in Worker, WorkersMove(w), UNCHANGED pictures, TablesHold',
         Uploading(w)' => Uploading(w) /\ worker'[w].object = worker[w].object,
         worker'[w].previous \in {worker[w].previous, None}
  PROVE  IInv'
<1>1. Delete(None) /\ UNCHANGED <<shown, object, unanswered>>
  BY DEF Delete, pictures
<1>2. \A v \in Worker : Uploading(v) => worker[v].object # None
  BY Apart DEF IInv, UploadHolds
<1> QED
  BY <1>1, <1>2, DeleteKeeps

\* The ways on for a worker that serves an entry.
LEMMA GoMoves ==
  ASSUME IInv, NEW w \in Worker, worker[w].step # "idle",
         NEW s \in Step \ {"idle", "render", "upload"}, Go(w, s)
  PROVE  /\ WorkersMove(w) /\ Turns(w) /\ worker'[w].step = s
         /\ worker'[w].previous = worker[w].previous
         /\ worker'[w].object = worker[w].object
<1>1. WorkerHolds(w) /\ worker \in [Worker -> WorkerState]
  BY DEF IInv, TypeOK
<1>2. /\ worker' \in [Worker -> WorkerState]
      /\ \A v \in Worker \ {w} : worker'[v] = worker[v]
      /\ worker'[w].step = s /\ worker'[w].entry = worker[w].entry
      /\ worker'[w].previous = worker[w].previous /\ worker'[w].object = worker[w].object
  BY <1>1, GoSets
<1> QED
  BY <1>1, <1>2 DEF WorkersMove, WorkerHolds, Turns

LEMMA FailsMoves ==
  ASSUME IInv, NEW w \in Worker, worker[w].step # "idle",
         NEW final \in BOOLEAN, NEW counted \in BOOLEAN, Fails(w, final, counted)
  PROVE  /\ WorkersMove(w) /\ Turns(w) /\ ~Uploading(w)'
         /\ worker'[w].previous = worker[w].previous
<1>1. WorkerHolds(w) /\ worker \in [Worker -> WorkerState]
  BY DEF IInv, TypeOK
<1>2. /\ worker' \in [Worker -> WorkerState]
      /\ \A v \in Worker \ {w} : worker'[v] = worker[v]
      /\ worker'[w].step = "failing" /\ worker'[w].entry = worker[w].entry
      /\ worker'[w].previous = worker[w].previous
  BY <1>1, FailsSets
<1> QED
  BY <1>1, <1>2 DEF WorkersMove, WorkerHolds, Turns, Uploading

LEMMA RestMoves ==
  ASSUME IInv, NEW w \in Worker, Rest(w)
  PROVE  /\ WorkersMove(w) /\ Turns(w) /\ ~Uploading(w)'
         /\ worker'[w].previous = None /\ worker'[w].entry = Nobody
<1>1. worker \in [Worker -> WorkerState]
  BY DEF IInv, TypeOK
<1>2. /\ worker' \in [Worker -> WorkerState]
      /\ \A v \in Worker \ {w} : worker'[v] = worker[v]
      /\ worker'[w].step = "idle" /\ worker'[w].entry = Nobody /\ worker'[w].previous = None
  BY <1>1, RestSets
<1> QED
  BY <1>1, <1>2 DEF WorkersMove, WorkerHolds, Turns, Uploading

\* A worker that writes nothing.
LEMMA GoKeeps ==
  ASSUME IInv, NEW w \in Worker, worker[w].step # "idle",
         \/ \E s \in Step \ {"idle", "render", "upload", "progress", "replace"} : Go(w, s)
         \/ \E final, counted \in BOOLEAN : Fails(w, final, counted)
         \/ Rest(w),
         UNCHANGED <<link, stored, provider, rows, pictures, call, spent, enabled>>
  PROVE  IInv' /\ Framed(w)
<1>1. /\ WorkersMove(w) /\ Turns(w) /\ ~Uploading(w)'
      /\ worker'[w].previous \in {worker[w].previous, None}
  BY GoMoves, FailsMoves, RestMoves DEF Uploading
<1> QED
  BY <1>1, TablesSame, RowsSame, QuietKeeps DEF Framed

\* The entry of a worker that serves one.
LEMMA Served ==
  ASSUME IInv, NEW w \in Worker, worker[w].step # "idle"
  PROVE  /\ EntryOf(w) \in Entry /\ worker[w] \in WorkerState
         /\ image[EntryOf(w)] \in ImageRow /\ parse[EntryOf(w)] \in ParseRow
<1>1. worker[w] \in WorkerState /\ WorkerHolds(w)
  BY DEF IInv, TypeOK
<1>2. EntryOf(w) \in Entry
  BY <1>1 DEF WorkerHolds, EntryOf, WorkerState
<1> QED
  BY <1>1, <1>2 DEF IInv, TypeOK

\* A row of the image table that is moved.
LEMMA ImageMoves ==
  ASSUME IInv, NEW e \in Entry, NEW row \in ImageRow, NEW w \in Worker \cup {Nobody},
         image' = [image EXCEPT ![e] = row], row.lockedAt \in ImageWorker \cup {Nobody},
         Moved(image[e], row, e, w), UNCHANGED <<link, stored, provider, parse, call, spent, enabled>>
  PROVE  /\ TablesHold'
         /\ \A f \in Entry : Moved(image[f], image'[f], f, w) /\ Moved(parse[f], parse'[f], f, w)
<1>1. image \in [Entry -> ImageRow] /\ OwnWorkers
  BY DEF IInv, TypeOK
<1>2. /\ image' \in [Entry -> ImageRow] /\ image'[e] = row
      /\ \A f \in Entry \ {e} : image'[f] = image[f]
  BY <1>1
<1>3. OwnWorkers'
  BY <1>1, <1>2 DEF OwnWorkers
<1>4. TablesHold'
  BY <1>2, <1>3 DEF IInv, TypeOK, TablesHold, Duplicate
<1>5. \A f \in Entry : Moved(parse[f], parse'[f], f, w)
  BY DEF Moved
<1>6. \A f \in Entry \ {e} : Moved(image[f], image'[f], f, w)
  BY <1>2 DEF Moved
<1> QED
  BY <1>2, <1>4, <1>5, <1>6

LEMMA ParseMoves ==
  ASSUME IInv, NEW e \in Entry, NEW row \in ParseRow, NEW w \in Worker \cup {Nobody},
         parse' = [parse EXCEPT ![e] = row], row.lockedAt \in ParseWorker \cup {Nobody},
         Moved(parse[e], row, e, w), call' \in [Caller -> CallState],
         UNCHANGED <<link, stored, provider, image, spent, enabled>>
  PROVE  /\ TablesHold'
         /\ \A f \in Entry : Moved(image[f], image'[f], f, w) /\ Moved(parse[f], parse'[f], f, w)
<1>1. parse \in [Entry -> ParseRow] /\ OwnWorkers
  BY DEF IInv, TypeOK
<1>2. /\ parse' \in [Entry -> ParseRow] /\ parse'[e] = row
      /\ \A f \in Entry \ {e} : parse'[f] = parse[f]
  BY <1>1
<1>3. OwnWorkers'
  BY <1>1, <1>2 DEF OwnWorkers
<1>4. TablesHold'
  BY <1>2, <1>3 DEF IInv, TypeOK, TablesHold, Duplicate
<1>5. \A f \in Entry : Moved(image[f], image'[f], f, w)
  BY DEF Moved
<1>6. \A f \in Entry \ {e} : Moved(parse[f], parse'[f], f, w)
  BY <1>2 DEF Moved
<1> QED
  BY <1>2, <1>4, <1>5, <1>6

\* The end of an attempt, with the lease or without.
LEMMA EndImageKeeps ==
  ASSUME IInv, NEW w \in ImageWorker, worker[w].step # "idle", NEW row \in ImageRow,
         row.lockedAt = Nobody, row.status \in {"pending", "completed", "failed"},
         EndImage(w, row), UNCHANGED <<link, stored, provider, parse, pictures, call, spent, enabled>>
  PROVE  IInv' /\ Framed(w)
<1> DEFINE e == EntryOf(w)
<1>1. w \in Worker /\ e \in Entry
  BY Served DEF Worker
<1>2. CASE HasImage(w)
  <2>1. image' = [image EXCEPT ![e] = row] /\ Rest(w)
    BY <1>2 DEF EndImage
  <2>2. /\ WorkersMove(w) /\ Turns(w) /\ ~Uploading(w)'
        /\ worker'[w].previous = None /\ worker'[w].entry = Nobody
    BY <1>1, <2>1, RestMoves
  <2>3. Moved(image[e], row, e, w)
    BY <1>1, <1>2, <2>2 DEF Moved, HasImage, Leases, EntryOf
  <2>4. /\ TablesHold'
        /\ \A f \in Entry : Moved(image[f], image'[f], f, w) /\ Moved(parse[f], parse'[f], f, w)
    BY <1>1, <2>1, <2>3, ImageMoves
  <2> QED
    BY <1>1, <2>2, <2>4, QuietKeeps DEF Framed
<1>3. CASE ~HasImage(w)
  BY <1>1, <1>3, GoKeeps DEF EndImage, rows
<1> QED
  BY <1>2, <1>3

LEMMA EndParseKeeps ==
  ASSUME IInv, NEW w \in ParseWorker, worker[w].step # "idle", NEW row \in ParseRow,
         NEW counted \in BOOLEAN,
         row.lockedAt = Nobody, row.status \in {"pending", "completed", "failed"},
         EndParse(w, row, counted),
         UNCHANGED <<link, stored, provider, image, pictures, call, spent, enabled>>
  PROVE  IInv' /\ Framed(w)
<1> DEFINE e == EntryOf(w)
<1>1. w \in Worker /\ e \in Entry
  BY Served DEF Worker
<1>2. CASE HasParse(w)
  <2>1. parse' = [parse EXCEPT ![e] = row] /\ Rest(w)
    BY <1>2 DEF EndParse
  <2>2. /\ WorkersMove(w) /\ Turns(w) /\ ~Uploading(w)'
        /\ worker'[w].previous = None /\ worker'[w].entry = Nobody
    BY <1>1, <2>1, RestMoves
  <2>3. Moved(parse[e], row, e, w)
    BY <1>1, <1>2, <2>2 DEF Moved, HasParse, Leases, EntryOf
  <2>4. call' \in [Caller -> CallState]
    BY DEF IInv, TypeOK
  <2>5. /\ TablesHold'
        /\ \A f \in Entry : Moved(image[f], image'[f], f, w) /\ Moved(parse[f], parse'[f], f, w)
    BY <1>1, <2>1, <2>3, <2>4, ParseMoves
  <2> QED
    BY <1>1, <2>2, <2>5, QuietKeeps DEF Framed
<1>3. CASE ~HasParse(w)
  BY <1>1, <1>3, GoKeeps DEF EndParse, rows
<1> QED
  BY <1>2, <1>3

\* A worker that claims a row of its table.
LEMMA StartMoves ==
  ASSUME IInv, NEW w \in Worker, worker[w].step = "idle", NEW e \in Entry,
         NEW new, new \in WorkerState, new.step = "source", new.entry = e, new.previous = None,
         worker' = [worker EXCEPT ![w] = new],
         IF w \in ImageWorker
         THEN image[e].status = "pending" /\ Leases(image'[e], w)
         ELSE parse[e].status = "pending" /\ Leases(parse'[e], w)
  PROVE  /\ WorkersMove(w) /\ Turns(w) /\ ~Uploading(w)'
         /\ worker[w].entry = Nobody /\ worker'[w].entry = e /\ worker'[w].previous = None
<1>1. worker \in [Worker -> WorkerState] /\ WorkerHolds(w)
  BY DEF IInv, TypeOK
<1>2. /\ worker' \in [Worker -> WorkerState] /\ worker'[w] = new
      /\ \A v \in Worker \ {w} : worker'[v] = worker[v]
  BY <1>1
<1>3. worker[w].entry = Nobody
  BY <1>1 DEF WorkerHolds
<1>4. WorkersMove(w) /\ ~Uploading(w)'
  BY <1>2, Apart DEF WorkersMove, WorkerHolds, Uploading
<1>5. Turns(w)
  BY <1>2, <1>3 DEF Turns
<1> QED
  BY <1>2, <1>3, <1>4, <1>5

-----------------------------------------------------------------------------
(* One lemma per action of an image worker *)

LEMMA ClaimImageKeeps ==
  ASSUME IInv, NEW w \in ImageWorker, ClaimImage(w)
  PROVE  IInv' /\ Framed(w)
<1>1. PICK e \in Entry : LET row == [Locked(image[e], w) EXCEPT !.attempts = @ + 1] IN
         /\ worker[w].step = "idle" /\ image[e].status = "pending"
         /\ image' = [image EXCEPT ![e] = row]
         /\ worker' = [worker EXCEPT ![w] =
               [Idle EXCEPT !.step = "source", !.entry = e, !.row = row]]
         /\ UNCHANGED <<link, stored, provider, parse, pictures, call, spent, enabled>>
  BY DEF ClaimImage
<1> PICK row : row = [Locked(image[e], w) EXCEPT !.attempts = @ + 1]
  OBVIOUS
<1>2. /\ worker[w].step = "idle" /\ image[e].status = "pending"
      /\ image' = [image EXCEPT ![e] = row]
      /\ UNCHANGED <<link, stored, provider, parse, pictures, call, spent, enabled>>
  BY <1>1, Zenon
<1>3. w \in Worker /\ image \in [Entry -> ImageRow]
  BY DEF IInv, TypeOK, Worker
<1>4. row \in ImageRow /\ row.status = "processing" /\ row.lockedAt = w
  <2>1. image[e] \in ImageRow
    BY <1>3
  <2>2. PICK lock \in ImageRow : lock = Locked(image[e], w)
    BY <1>3, <2>1, ImageLocked
  <2>3. lock.status = "processing" /\ lock.lockedAt = w /\ lock.attempts + 1 \in Nat
    BY <1>3, <2>1, <2>2, ImageLocked DEF ImageRow
  <2>4. PICK n \in Nat : n = lock.attempts + 1
    BY <2>3
  <2>5. row = [lock EXCEPT !.attempts = n]
    BY <2>2, <2>4, Zenon
  <2> QED
    BY <2>3, <2>5 DEF ImageRow
<1>5. PICK new : new = [Idle EXCEPT !.step = "source", !.entry = e, !.row = row]
  OBVIOUS
<1>6. new \in WorkerState /\ new.step = "source" /\ new.entry = e /\ new.previous = None
  BY <1>4, <1>5 DEF Idle, WorkerState, ImageStep
<1>7. Leases(image'[e], w)
  BY <1>2, <1>3, <1>4 DEF Leases
<1>8. /\ WorkersMove(w) /\ Turns(w) /\ ~Uploading(w)'
      /\ worker[w].entry = Nobody /\ worker'[w].entry = e /\ worker'[w].previous = None
  <2>1. worker' = [worker EXCEPT ![w] = new]
    BY <1>1, <1>5, Zenon
  <2>2. worker[w].step = "idle" /\ image[e].status = "pending"
    BY <1>2
  <2> QED
    BY <2>1, <2>2, <1>3, <1>6, <1>7, StartMoves
<1>9. Moved(image[e], row, e, w)
  BY <1>2, <1>3, <1>4, <1>8 DEF Moved
<1>10. /\ TablesHold'
      /\ \A f \in Entry : Moved(image[f], image'[f], f, w) /\ Moved(parse[f], parse'[f], f, w)
  BY <1>2, <1>3, <1>4, <1>9, ImageMoves
<1> QED
  BY <1>2, <1>3, <1>8, <1>10, QuietKeeps DEF Framed

\* A worker that turns to render has the match its entry is linked to.
LEMMA ImageSourceKeeps ==
  ASSUME IInv, NEW w \in ImageWorker, ImageSource(w)
  PROVE  IInv' /\ Framed(w)
<1> DEFINE d == link[EntryOf(w)]
           s == IF stored[d] = "parsed" THEN "render" ELSE "state"
<1>1. w \in Worker /\ worker[w].step = "source"
  BY DEF ImageSource, Worker
<1>2. CASE d = None
  BY <1>1, <1>2, GoKeeps DEF ImageSource
<1>3. CASE d # None
  <2>1. /\ worker' = [worker EXCEPT ![w].dota = d, ![w].step = s]
        /\ UNCHANGED <<link, stored, provider, rows, pictures, call, spent, enabled>>
    BY <1>3 DEF ImageSource
  <2>2. d \in Dota /\ worker \in [Worker -> WorkerState] /\ WorkerHolds(w)
    BY <1>1, <1>3, Served DEF IInv, TypeOK
  <2> HIDE DEF d, s
  <2>3. PICK old \in WorkerState, m \in Dota, x \in {"render", "state"} :
           old = worker[w] /\ m = d /\ x = s
    BY <1>1, <2>2 DEF s
  <2>4. PICK new : new = [old EXCEPT !.dota = m, !.step = x]
    OBVIOUS
  <2>5. worker' = [worker EXCEPT ![w] = new]
    BY <2>1, <2>3, <2>4, Zenon
  <2>6. /\ new \in WorkerState /\ new.step \in {"render", "state"} /\ new.entry = old.entry
        /\ new.dota \in Dota /\ new.previous = old.previous
    BY <2>4 DEF WorkerState, ImageStep
  <2>7. /\ worker'[w] = new /\ worker' \in [Worker -> WorkerState]
        /\ \A v \in Worker \ {w} : worker'[v] = worker[v]
    BY <1>1, <2>2, <2>5, <2>6
  <2>8. /\ WorkersMove(w) /\ Turns(w) /\ ~Uploading(w)'
        /\ worker'[w].previous = worker[w].previous
    BY <1>1, <2>2, <2>3, <2>6, <2>7 DEF WorkersMove, WorkerHolds, Turns, Uploading
  <2> QED
    BY <1>1, <2>1, <2>8, TablesSame, RowsSame, QuietKeeps DEF Framed
<1> QED
  BY <1>2, <1>3

LEMMA ImageStateKeeps ==
  ASSUME IInv, NEW w \in ImageWorker, ImageState(w)
  PROVE  IInv' /\ Framed(w)
<1>1. w \in Worker /\ worker[w].step = "state"
  BY DEF ImageState, Worker
<1>2. /\ Go(w, "defer") \/ Go(w, "notReady")
      /\ UNCHANGED <<link, stored, provider, rows, pictures, call, spent, enabled>>
  BY DEF ImageState
<1> QED
  BY <1>1, <1>2, GoKeeps DEF Step, ImageStep

LEMMA ImageEndsKeep ==
  ASSUME IInv, NEW w \in ImageWorker, ImageDefer(w) \/ ImageNotReady(w) \/ ImageComplete(w)
  PROVE  IInv' /\ Framed(w)
<1>1. w \in Worker /\ worker[w].step # "idle"
  BY DEF ImageDefer, ImageNotReady, ImageComplete, Worker
<1>2. image[EntryOf(w)] \in ImageRow
  BY <1>1, Served
<1>3. PICK row \in ImageRow :
         /\ row.lockedAt = Nobody /\ row.status \in {"pending", "completed", "failed"}
         /\ EndImage(w, row)
         /\ UNCHANGED <<link, stored, provider, parse, pictures, call, spent, enabled>>
  <2>1. CASE ImageDefer(w)
    BY <2>1, <1>2, ImageDeferred DEF ImageDefer
  <2>2. CASE ImageNotReady(w)
    BY <2>2, <1>2, ImageUnlocked DEF ImageNotReady, NotReady, Status
  <2>3. CASE ImageComplete(w)
    BY <2>3, <1>2, ImageUnlocked DEF ImageComplete, Status
  <2> QED
    BY <2>1, <2>2, <2>3
<1> QED
  BY <1>1, <1>3, EndImageKeeps

LEMMA ImageRenderKeeps ==
  ASSUME IInv, NEW w \in ImageWorker, ImageRender(w)
  PROVE  IInv' /\ Framed(w)
<1>1. /\ w \in Worker /\ worker[w].step = "render"
      /\ UNCHANGED <<link, stored, provider, rows, pictures, call, spent, enabled>>
  BY DEF ImageRender, Worker
<1>2. CASE Go(w, "upload")
  <2>1. worker \in [Worker -> WorkerState] /\ WorkerHolds(w)
    BY <1>1 DEF IInv, TypeOK
  <2>2. /\ worker' \in [Worker -> WorkerState]
        /\ \A v \in Worker \ {w} : worker'[v] = worker[v]
        /\ worker'[w].step = "upload" /\ worker'[w].entry = worker[w].entry
        /\ worker'[w].dota = worker[w].dota /\ worker'[w].previous = worker[w].previous
    BY <1>1, <1>2, <2>1, GoSets DEF Step, ImageStep
  <2>3. WorkersMove(w) /\ Turns(w) /\ ~Uploading(w)'
    BY <1>1, <2>1, <2>2 DEF WorkersMove, WorkerHolds, Turns, Uploading
  <2> QED
    BY <1>1, <2>2, <2>3, TablesSame, RowsSame, QuietKeeps DEF Framed
<1>3. CASE \E final \in BOOLEAN : Fails(w, final, FALSE)
  BY <1>1, <1>3, GoKeeps
<1> QED
  BY <1>2, <1>3 DEF ImageRender

\* The new object is nobody else's: its key is fresh.
LEMMA ImageUploadKeeps ==
  ASSUME IInv, NEW w \in ImageWorker, ImageUpload(w)
  PROVE  IInv' /\ Framed(w)
<1>1. /\ w \in Worker /\ worker[w].step = "upload"
      /\ UNCHANGED <<link, stored, provider, rows, shown, unanswered, call, spent, enabled>>
  BY DEF ImageUpload, Worker
<1>2. CASE \E final \in BOOLEAN : Fails(w, final, FALSE) /\ UNCHANGED object
  BY <1>1, <1>2, GoKeeps DEF pictures
<1>3. ASSUME NEW o \in Object, Fresh(o), object' = [object EXCEPT ![o] = worker[w].dota],
             worker' = [worker EXCEPT ![w].object = o, ![w].step = "progress"]
      PROVE  IInv' /\ Framed(w)
  <2>1. /\ worker \in [Worker -> WorkerState] /\ WorkerHolds(w) /\ worker[w].dota \in Dota
        /\ object \in [Object -> Dota \cup {None}]
        /\ worker[w].previous # o /\ \A e \in Entry : shown[e] # o
    BY <1>1, <1>3 DEF IInv, TypeOK, WorkerHolds, Fresh
  <2>2. PICK old \in WorkerState : old = worker[w]
    BY <1>1, <2>1
  <2>3. PICK new : new = [old EXCEPT !.object = o, !.step = "progress"]
    OBVIOUS
  <2>4. worker' = [worker EXCEPT ![w] = new]
    BY <1>3, <2>2, <2>3, Zenon
  <2>5. /\ new \in WorkerState /\ new.step = "progress" /\ new.entry = old.entry
        /\ new.object = o /\ new.previous = old.previous
    BY <2>3 DEF WorkerState, ImageStep
  <2>6. /\ worker' \in [Worker -> WorkerState] /\ worker'[w] = new
        /\ \A v \in Worker \ {w} : worker'[v] = worker[v]
    BY <1>1, <2>1, <2>4, <2>5
  <2>7. WorkersMove(w) /\ Turns(w)
    BY <1>1, <2>1, <2>2, <2>5, <2>6 DEF WorkersMove, WorkerHolds, Turns
  <2>8. /\ object' \in [Object -> Dota \cup {None}] /\ object'[o] # None
        /\ \A p \in Object \ {o} : object'[p] = object[p]
    BY <1>3, <2>1, Apart
  <2>9. TablesHold'
    BY <1>1, TablesSame
  <2>10. TypeOK' /\ ImagesStored' /\ ShownApart'
    BY <1>1, <2>1, <2>6, <2>8, <2>9 DEF IInv, TypeOK, TablesHold, ImagesStored, ShownApart
  <2>11. ASSUME NEW v \in Worker
         PROVE  WorkerHolds(v)' /\ UploadHolds(v)' /\ PreviousHolds(v)'
    <3>1. WorkerHolds(v)' /\ PreviousHolds(v)'
      BY <1>1, <2>2, <2>5, <2>6, <2>7 DEF WorkersMove, IInv, WorkerHolds, PreviousHolds
    <3>2. \A x \in Worker : worker'[x].previous = worker[x].previous /\ worker[x].previous # o
      BY <1>3, <2>2, <2>5, <2>6 DEF Fresh
    <3>3. \A x \in Worker \ {w} : Uploading(x)' => Uploading(x) /\ worker'[x].object # o
      BY <1>3, <2>6 DEF Uploading, Fresh
    <3>4. CASE v = w
      <4>1. worker'[v].object = o
        BY <2>5, <2>6, <3>4
      <4> QED
        BY <1>1, <2>1, <2>8, <3>2, <3>3, <3>4, <4>1, <3>1 DEF UploadHolds
    <3>5. CASE v # w
      <4>1. ASSUME Uploading(v)'
            PROVE  /\ worker'[v].object \in Object \ {o} /\ UploadHolds(v)
                   /\ Uploading(v) /\ worker'[v] = worker[v]
        BY <3>3, <3>5, <4>1, <2>6 DEF IInv, UploadHolds
      <4>2. \A x \in Worker \ {v} : Uploading(v)' /\ Uploading(x)' => worker'[x].object # worker'[v].object
        BY <2>5, <2>6, <3>3, <4>1 DEF UploadHolds
      <4> QED
        BY <1>1, <2>8, <3>1, <3>2, <4>1, <4>2 DEF UploadHolds
    <3> QED
      BY <3>4, <3>5
  <2> QED
    BY <1>1, <2>7, <2>9, <2>10, <2>11, RowsSame DEF IInv, TablesHold, Framed
<1> QED
  BY <1>2, <1>3 DEF ImageUpload

\* A worker that takes away its own upload.
LEMMA WithdrawKeeps ==
  ASSUME IInv, NEW w \in Worker, Uploading(w), Delete(worker[w].object), Fails(w, FALSE, FALSE),
         UNCHANGED <<link, stored, provider, rows, shown, unanswered, call, spent, enabled>>
  PROVE  IInv' /\ Framed(w)
<1>1. worker[w].step # "idle" /\ UploadHolds(w)
  BY DEF Uploading, IInv
<1>2. /\ WorkersMove(w) /\ Turns(w) /\ ~Uploading(w)'
      /\ worker'[w].previous = worker[w].previous
  BY <1>1, FailsMoves
<1>3. PICK o \in Object : o = worker[w].object
  BY <1>1 DEF UploadHolds
<1>4. /\ \A e \in Entry : shown[e] # o
      /\ \A v \in Worker \ {w} : Uploading(v) => worker[v].object # o
  BY <1>1, <1>3 DEF UploadHolds
<1>5. TablesHold'
  BY TablesSame
<1>6. IInv'
  BY <1>2, <1>3, <1>4, <1>5, DeleteKeeps
<1> QED
  BY <1>2, <1>6, RowsSame DEF Framed

LEMMA ImageProgressKeeps ==
  ASSUME IInv, NEW w \in ImageWorker, ImageProgress(w)
  PROVE  IInv' /\ Framed(w)
<1>1. /\ w \in Worker /\ worker[w].step = "progress" /\ Uploading(w)
      /\ UNCHANGED <<link, stored, provider, rows, shown, unanswered, call, spent, enabled>>
  BY DEF ImageProgress, Worker, Uploading
<1>2. CASE HasImage(w)
  <2>1. Go(w, "replace") /\ UNCHANGED pictures
    BY <1>1, <1>2 DEF ImageProgress, pictures
  <2>2. /\ WorkersMove(w) /\ Turns(w) /\ worker'[w].previous = worker[w].previous
        /\ worker'[w].object = worker[w].object
    BY <1>1, <2>1, GoMoves DEF Step, ImageStep
  <2> QED
    BY <1>1, <2>1, <2>2, TablesSame, RowsSame, QuietKeeps DEF Framed
<1>3. CASE ~HasImage(w)
  BY <1>1, <1>3, WithdrawKeeps DEF ImageProgress
<1> QED
  BY <1>2, <1>3

\* The row names the worker's own upload, which is there unless an answer was
\* lost; what it named before is nobody's now.
LEMMA NamedKeeps ==
  ASSUME IInv, NEW w \in Worker, Uploading(w), WorkersMove(w), Turns(w), ~Uploading(w)',
         shown' = [shown EXCEPT ![EntryOf(w)] = worker[w].object],
         Delete(worker[w].object),
         unanswered' \in {unanswered \ {EntryOf(w)}, unanswered \cup {EntryOf(w)}},
         object' = object \/ EntryOf(w) \in unanswered',
         worker'[w].previous \in {worker[w].previous, shown[EntryOf(w)]},
         UNCHANGED <<link, stored, provider, rows, call, enabled>>,
         spent' \in [calls : 0..MaxCalls, faults : 0..MaxFaults]
  PROVE  IInv' /\ Framed(w)
<1> DEFINE e == EntryOf(w)
<1>1. /\ e \in Entry /\ UploadHolds(w)
      /\ shown \in [Entry -> Object \cup {None}] /\ object \in [Object -> Dota \cup {None}]
  BY Served DEF Uploading, IInv, TypeOK
<1>2. PICK o \in Object : o = worker[w].object
  BY <1>1 DEF UploadHolds
<1>3. /\ object[o] # None /\ \A f \in Entry : shown[f] # o
      /\ \A v \in Worker \ {w} : Uploading(v) => worker[v].object # o
      /\ \A v \in Worker : worker[v].previous # o
  BY <1>1, <1>2 DEF UploadHolds
<1>4. /\ worker' \in [Worker -> WorkerState] /\ WorkerHolds(w)'
      /\ \A v \in Worker \ {w} : worker'[v] = worker[v]
  BY DEF WorkersMove
<1>5. /\ shown' \in [Entry -> Object \cup {None}] /\ shown'[e] = o
      /\ \A f \in Entry \ {e} : shown'[f] = shown[f]
  BY <1>1, <1>2
<1>6. /\ object' \in [Object -> Dota \cup {None}]
      /\ \A p \in Object \ {o} : object'[p] = object[p]
  BY <1>1, <1>2 DEF Delete
<1>7. TablesHold'
  BY TablesQuiet DEF IInv, TypeOK
<1>8. TypeOK'
  BY <1>1, <1>4, <1>5, <1>6, <1>7 DEF IInv, TypeOK, TablesHold
<1>9. ImagesStored'
  <2>1. ASSUME NEW f \in Entry, shown'[f] # None, f \notin unanswered'
        PROVE  object'[shown'[f]] # None
    <3>1. CASE f = e
      BY <1>3, <1>5, <2>1, <3>1
    <3>2. CASE f # e
      BY <1>3, <1>5, <1>6, <2>1, <3>2 DEF IInv, ImagesStored
    <3> QED
      BY <3>1, <3>2
  <2> QED
    BY <2>1 DEF ImagesStored
<1>10. ShownApart'
  BY <1>3, <1>5 DEF IInv, ShownApart
<1>11. \A v \in Worker : WorkerHolds(v)'
  BY <1>4 DEF IInv, WorkerHolds
<1>12. \A v \in Worker : worker'[v].previous # None /\ v # w => worker'[v].previous = worker[v].previous
  BY <1>4
<1>13. ASSUME NEW v \in Worker  PROVE UploadHolds(v)'
  <2>1. ASSUME Uploading(v)'
        PROVE  /\ v # w /\ Uploading(v) /\ worker'[v] = worker[v] /\ UploadHolds(v)
               /\ worker[v].object \in Object \ {o}
    <3>1. v # w /\ worker'[v] = worker[v] /\ Uploading(v) /\ UploadHolds(v)
      BY <1>4, <2>1 DEF Uploading, IInv
    <3> QED
      BY <1>3, <3>1 DEF UploadHolds
  <2>2. \A x \in Worker \ {v} : Uploading(x)' => Uploading(x) /\ worker'[x] = worker[x]
    BY <1>4 DEF Uploading
  <2>3. Uploading(v)' => \A x \in Worker : worker'[x].previous # worker[v].object
    BY <1>1, <1>4, <2>1 DEF UploadHolds
  <2>4. Uploading(v)' => \A f \in Entry : shown'[f] # worker[v].object
    BY <1>5, <2>1 DEF UploadHolds
  <2>5. Uploading(v)' => object'[worker[v].object] # None
    BY <1>6, <2>1 DEF UploadHolds
  <2> QED
    BY <2>1, <2>2, <2>3, <2>4, <2>5 DEF UploadHolds
<1>14. ASSUME NEW v \in Worker  PROVE PreviousHolds(v)'
  <2>1. CASE worker'[v].previous = worker[v].previous
    BY <1>3, <1>5, <2>1 DEF IInv, PreviousHolds
  <2>2. CASE v = w /\ worker'[w].previous = shown[e]
    BY <1>1, <1>3, <1>5, <2>2 DEF IInv, ShownApart, PreviousHolds
  <2> QED
    BY <1>4, <2>1, <2>2
<1> QED
  BY <1>7, <1>8, <1>9, <1>10, <1>11, <1>13, <1>14, RowsSame DEF IInv, TablesHold, Framed

LEMMA ImageReplaceKeeps ==
  ASSUME IInv, NEW w \in ImageWorker, ImageReplace(w)
  PROVE  IInv' /\ Framed(w)
<1> DEFINE e == EntryOf(w)
<1>1. /\ w \in Worker /\ worker[w].step = "replace" /\ Uploading(w) /\ e \in Entry
      /\ UNCHANGED <<link, stored, provider, rows, call, enabled>>
  BY Served DEF ImageReplace, Worker, Uploading
<1>2. CASE /\ Delete(worker[w].object) /\ Fails(w, FALSE, FALSE)
           /\ UNCHANGED <<shown, unanswered, spent>>
  BY <1>1, <1>2, WithdrawKeeps
<1>3. ASSUME shown' = [shown EXCEPT ![e] = worker[w].object],
             worker' = [worker EXCEPT ![w].previous = shown[e], ![w].step = "clean"],
             unanswered' = unanswered \ {e}, UNCHANGED <<object, spent>>
      PROVE  IInv' /\ Framed(w)
  <2>1. /\ worker \in [Worker -> WorkerState] /\ WorkerHolds(w)
        /\ shown[e] \in Object \cup {None}
    BY <1>1 DEF IInv, TypeOK
  <2>2. PICK old \in WorkerState, p \in Object \cup {None} : old = worker[w] /\ p = shown[e]
    BY <1>1, <2>1
  <2>3. PICK new : new = [old EXCEPT !.previous = p, !.step = "clean"]
    OBVIOUS
  <2>4. worker' = [worker EXCEPT ![w] = new]
    BY <1>3, <2>2, <2>3, Zenon
  <2>5. /\ new \in WorkerState /\ new.step = "clean" /\ new.entry = old.entry
        /\ new.previous = p
    BY <2>3 DEF WorkerState, ImageStep
  <2>6. /\ worker' \in [Worker -> WorkerState] /\ worker'[w] = new
        /\ \A v \in Worker \ {w} : worker'[v] = worker[v]
    BY <1>1, <2>1, <2>4, <2>5
  <2>7. WorkersMove(w) /\ Turns(w) /\ ~Uploading(w)' /\ worker'[w].previous = shown[e]
    BY <1>1, <2>1, <2>2, <2>5, <2>6 DEF WorkersMove, WorkerHolds, Turns, Uploading
  <2>8. /\ Delete(worker[w].object) /\ spent' \in [calls : 0..MaxCalls, faults : 0..MaxFaults]
    BY <1>3 DEF Delete, IInv, TypeOK
  <2> QED
    BY <1>1, <1>3, <2>7, <2>8, NamedKeeps
<1>4. ASSUME shown' = [shown EXCEPT ![e] = worker[w].object], Delete(worker[w].object),
             Fails(w, FALSE, FALSE), unanswered' = unanswered \cup {e},
             Spend("faults", MaxFaults)
      PROVE  IInv' /\ Framed(w)
  <2>1. WorkersMove(w) /\ Turns(w) /\ ~Uploading(w)' /\ worker'[w].previous = worker[w].previous
    BY <1>1, <1>4, FailsMoves
  <2>2. spent' \in [calls : 0..MaxCalls, faults : 0..MaxFaults]
    BY <1>4, SpendHolds
  <2> QED
    BY <1>1, <1>4, <2>1, <2>2, NamedKeeps
<1> QED
  BY <1>2, <1>3, <1>4 DEF ImageReplace

LEMMA ImageCleanKeeps ==
  ASSUME IInv, NEW w \in ImageWorker, ImageClean(w)
  PROVE  IInv' /\ Framed(w)
<1>1. /\ w \in Worker /\ worker[w].step = "clean"
      /\ worker' = [worker EXCEPT ![w].previous = None, ![w].step = "complete"]
      /\ UNCHANGED <<link, stored, provider, rows, shown, unanswered, call, spent, enabled>>
  BY DEF ImageClean, Worker
<1>2. worker \in [Worker -> WorkerState] /\ WorkerHolds(w) /\ PreviousHolds(w)
  BY <1>1 DEF IInv, TypeOK
<1>3. PICK old \in WorkerState : old = worker[w]
  BY <1>1, <1>2
<1>4. PICK new : new = [old EXCEPT !.previous = None, !.step = "complete"]
  OBVIOUS
<1>5. worker' = [worker EXCEPT ![w] = new]
  BY <1>1, <1>3, <1>4, Zenon
<1>6. new \in WorkerState /\ new.step = "complete" /\ new.entry = old.entry /\ new.previous = None
  BY <1>4 DEF WorkerState, ImageStep
<1>7. /\ worker' \in [Worker -> WorkerState] /\ worker'[w] = new
      /\ \A v \in Worker \ {w} : worker'[v] = worker[v]
  BY <1>1, <1>2, <1>5, <1>6
<1>8. WorkersMove(w) /\ Turns(w) /\ ~Uploading(w)' /\ worker'[w].previous = None
  BY <1>1, <1>2, <1>3, <1>6, <1>7 DEF WorkersMove, WorkerHolds, Turns, Uploading
<1>9. PICK o \in Object \cup {None} : o = worker[w].previous
  BY <1>3 DEF WorkerState
<1>10. /\ \A f \in Entry : o # None => shown[f] # o
       /\ \A v \in Worker \ {w} : Uploading(v) => worker[v].object # o
  BY <1>1, <1>2, <1>9 DEF PreviousHolds, IInv, UploadHolds
<1>11. Delete(o) /\ TablesHold'
  BY <1>1, <1>9, TablesSame DEF ImageClean, Delete
<1>12. IInv'
  BY <1>1, <1>8, <1>10, <1>11, DeleteKeeps
<1> QED
  BY <1>1, <1>8, <1>12, RowsSame DEF Framed

LEMMA ImageFailsKeeps ==
  ASSUME IInv, NEW w \in ImageWorker, ImageFails(w)
  PROVE  IInv' /\ Framed(w)
<1>1. /\ w \in Worker /\ worker[w].step # "idle" /\ Rest(w)
      /\ UNCHANGED <<link, stored, provider, parse, pictures, call, spent, enabled>>
  BY DEF ImageFails, Worker
<1>2. CASE HasImage(w)
  <2>1. PICK s \in {"failed", "pending"} :
           image' = [image EXCEPT ![EntryOf(w)] = Unlocked(@, s)]
    BY <1>2 DEF ImageFails
  <2>2. PICK row \in ImageRow : /\ row = Unlocked(image[EntryOf(w)], s)
                                /\ row.status = s /\ row.lockedAt = Nobody
    BY <1>1, Served, ImageUnlocked DEF Status
  <2>3. EndImage(w, row)
    BY <1>1, <1>2, <2>1, <2>2 DEF EndImage
  <2> QED
    BY <1>1, <2>2, <2>3, EndImageKeeps
<1>3. CASE ~HasImage(w)
  BY <1>1, <1>3, GoKeeps DEF ImageFails, rows
<1> QED
  BY <1>2, <1>3

-----------------------------------------------------------------------------
(* One lemma per action of a parse worker *)

\* saveOpenDotaMatch moves at most the image row of its entry.
LEMMA SaveMoves ==
  ASSUME IInv, NEW e \in Entry \cup {Nobody}, NEW d \in Dota \cup {None},
         NEW payload \in Payload, NEW queue \in BOOLEAN, ~Duplicate(e, d),
         SaveMatch(e, d, payload, queue), call' \in [Caller -> CallState],
         UNCHANGED <<provider, parse, spent, enabled>>, NEW w
  PROVE  /\ TablesHold'
         /\ \A f \in Entry : Moved(image[f], image'[f], f, w) /\ Moved(parse[f], parse'[f], f, w)
<1>1. /\ link \in [Entry -> Dota \cup {None}] /\ stored \in [Dota -> Payload \cup {"none"}]
      /\ image \in [Entry -> ImageRow] /\ OwnWorkers
      /\ \A f \in Entry : link[f] # None => ~Duplicate(f, link[f])
  BY DEF IInv, TypeOK
<1>2. /\ link' \in [Entry -> Dota \cup {None}] /\ stored' \in [Dota -> Payload \cup {"none"}]
      /\ \A f \in Entry : link'[f] = IF f = e THEN d ELSE link[f]
  BY <1>1 DEF SaveMatch
<1>3. \A f \in Entry : link'[f] # None => ~(\E g \in Entry \ {f} : link'[g] = link'[f])
  BY <1>1, <1>2 DEF Duplicate
<1>4. /\ image' \in [Entry -> ImageRow]
      /\ \A f \in Entry : image'[f] = image[f] \/ image'[f] = Queued(image[f])
  <2>1. ASSUME NEW f \in Entry  PROVE Queued(image[f]) \in ImageRow
    BY <1>1, NoImageRow DEF Queued
  <2>2. CASE image' = image
    BY <1>1, <2>2
  <2>3. CASE image' = [image EXCEPT ![e] = Queued(@)]
    BY <1>1, <2>1, <2>3
  <2> QED
    BY <2>2, <2>3 DEF SaveMatch
<1>5. ASSUME NEW f \in Entry
      PROVE  Moved(image[f], image'[f], f, w) /\ image'[f].lockedAt \in ImageWorker \cup {Nobody}
  <2>1. CASE image'[f] = image[f]
    BY <1>1, <2>1 DEF Moved, OwnWorkers
  <2>2. CASE image'[f] # image[f]
    <3>1. /\ image[f].status # "processing" /\ image'[f].status = "pending"
          /\ image'[f].lockedAt = Nobody
      BY <1>4, <2>2, NoImageRow DEF Queued
    <3> QED
      BY <1>1, <3>1 DEF Moved, ImageRow, Active
  <2> QED
    BY <2>1, <2>2
<1>6. TablesHold'
  BY <1>2, <1>3, <1>4, <1>5 DEF IInv, TypeOK, TablesHold, OwnWorkers, Duplicate
<1>7. \A f \in Entry : Moved(parse[f], parse'[f], f, w)
  BY DEF Moved
<1> QED
  BY <1>5, <1>6, <1>7

LEMMA ClaimParseKeeps ==
  ASSUME IInv, NEW w \in ParseWorker, ClaimParse(w)
  PROVE  IInv' /\ Framed(w)
<1>1. PICK e \in Entry :
         /\ worker[w].step = "idle" /\ parse[e].status = "pending"
         /\ parse' = [parse EXCEPT ![e] = Locked(@, w)]
         /\ worker' = [worker EXCEPT ![w] = [Idle EXCEPT !.step = "source", !.entry = e,
                            !.dota = parse[e].dota, !.row = Locked(parse[e], w)]]
         /\ UNCHANGED <<link, stored, provider, image, pictures, call, spent, enabled>>
  BY DEF ClaimParse
<1>2. /\ w \in Worker /\ w \notin ImageWorker /\ parse \in [Entry -> ParseRow]
      /\ call' \in [Caller -> CallState]
  BY <1>1, Apart DEF IInv, TypeOK, Worker
<1>3. PICK old \in ParseRow, row \in ParseRow, d \in Dota \cup {None} :
         /\ old = parse[e] /\ row = Locked(old, w) /\ d = old.dota
         /\ row.status = "processing" /\ row.lockedAt = w
  <2>1. PICK old \in ParseRow : old = parse[e]
    BY <1>2
  <2>2. old.dota \in Dota \cup {None}
    BY DEF ParseRow
  <2> QED
    BY <1>2, <2>1, <2>2, ParseLocked
<1>4. PICK new : new = [Idle EXCEPT !.step = "source", !.entry = e, !.dota = d, !.row = row]
  OBVIOUS
<1>5. worker' = [worker EXCEPT ![w] = new]
  BY <1>1, <1>3, <1>4, Zenon
<1>6. new \in WorkerState /\ new.step = "source" /\ new.entry = e /\ new.previous = None
  BY <1>4 DEF Idle, WorkerState, ImageStep
<1>7. parse' = [parse EXCEPT ![e] = row]
  BY <1>1, <1>3
<1>8. Leases(parse'[e], w)
  BY <1>2, <1>3, <1>7 DEF Leases
<1>9. worker[w].step = "idle" /\ parse[e].status = "pending"
      /\ UNCHANGED <<link, stored, provider, image, pictures, call, spent, enabled>>
  BY <1>1
<1>10. /\ WorkersMove(w) /\ Turns(w) /\ ~Uploading(w)'
       /\ worker[w].entry = Nobody /\ worker'[w].entry = e /\ worker'[w].previous = None
  BY <1>2, <1>5, <1>6, <1>8, <1>9, StartMoves
<1>11. Moved(parse[e], row, e, w)
  BY <1>2, <1>3, <1>9, <1>10 DEF Moved
<1>12. /\ TablesHold'
       /\ \A f \in Entry : Moved(image[f], image'[f], f, w) /\ Moved(parse[f], parse'[f], f, w)
  BY <1>2, <1>3, <1>7, <1>9, <1>11, ParseMoves
<1> QED
  BY <1>2, <1>9, <1>10, <1>12, QuietKeeps DEF Framed

\* Steps of a parse worker that write to no table.
LEMMA ParseTurnsKeep ==
  ASSUME IInv, NEW w \in ParseWorker,
         \/ ParseSource(w) \/ ParseRefused(w) \/ ParseFetch(w) \/ ParseFetchFails(w)
  PROVE  IInv' /\ Framed(w)
<1>1. /\ w \in Worker /\ worker[w].step # "idle"
      /\ UNCHANGED <<link, stored, provider, rows, pictures, call, spent, enabled>>
  BY DEF ParseSource, ParseRefused, ParseFetch, ParseFetchFails, Worker
<1>2. \/ Go(w, "fetch") \/ Go(w, "submit") \/ Go(w, "save") \/ Go(w, "wait")
      \/ \E final, counted \in BOOLEAN : Fails(w, final, counted)
  <2>1. CASE ParseSource(w)
    BY <2>1 DEF ParseSource
  <2>2. CASE ParseRefused(w)
    BY <2>2 DEF ParseRefused
  <2>3. CASE ParseFetch(w)
    <3>1. CASE Answer(worker[w].dota) = "parsed" /\ ~TimedOut(w)
      BY <2>3, <3>1 DEF ParseFetch
    <3>2. CASE Answer(worker[w].dota) = "parsed" /\ TimedOut(w)
      BY <2>3, <3>2 DEF ParseFetch
    <3>3. CASE Answer(worker[w].dota) # "parsed" /\ TimedOut(w)
      BY <2>3, <3>3 DEF ParseFetch
    <3>4. CASE Answer(worker[w].dota) # "parsed" /\ ~TimedOut(w)
      BY <2>3, <3>4 DEF ParseFetch
    <3> QED
      BY <3>1, <3>2, <3>3, <3>4
  <2>4. CASE ParseFetchFails(w)
    BY <2>4 DEF ParseFetchFails
  <2> QED
    BY <2>1, <2>2, <2>3, <2>4
<1> QED
  BY <1>1, <1>2, GoKeeps DEF Step, ParseStep

LEMMA ParseSubmitKeeps ==
  ASSUME IInv, NEW w \in ParseWorker, ParseSubmit(w)
  PROVE  IInv' /\ Framed(w)
<1>1. /\ w \in Worker /\ worker[w].step # "idle"
      /\ UNCHANGED <<link, stored, rows, pictures, call, spent, enabled>>
  BY DEF ParseSubmit, Worker
<1>2. /\ provider' \in [Dota -> {"unparsed", "asked", "parsed"}]
      /\ Go(w, "mark") \/ \E final \in BOOLEAN : Fails(w, final, TRUE)
  BY DEF ParseSubmit, IInv, TypeOK
<1>3. /\ WorkersMove(w) /\ Turns(w) /\ ~Uploading(w)'
      /\ worker'[w].previous = worker[w].previous
  <2>1. CASE Go(w, "mark")
    BY <1>1, <2>1, GoMoves DEF Step, ParseStep, Uploading
  <2>2. CASE \E final \in BOOLEAN : Fails(w, final, TRUE)
    BY <1>1, <2>2, FailsMoves
  <2> QED
    BY <1>2, <2>1, <2>2
<1>4. TablesHold'
  BY <1>1, <1>2, TablesQuiet DEF IInv, TypeOK
<1> QED
  BY <1>1, <1>3, <1>4, RowsSame, QuietKeeps DEF Framed

LEMMA ParseEndsKeep ==
  ASSUME IInv, NEW w \in ParseWorker, ParseMark(w) \/ ParseWait(w) \/ ParseComplete(w)
  PROVE  IInv' /\ Framed(w)
<1>1. /\ w \in Worker /\ worker[w].step # "idle"
      /\ UNCHANGED <<link, stored, provider, image, pictures, call, spent, enabled>>
  BY DEF ParseMark, ParseWait, ParseComplete, Worker
<1>2. PICK u \in ParseRow : /\ u = Unlocked(parse[EntryOf(w)], "pending")
                            /\ u.status = "pending" /\ u.lockedAt = Nobody
  BY <1>1, Served, ParseUnlocked DEF Status
<1>3. PICK n \in Nat, m \in Nat : n = u.attempts + 1 /\ m = u.polls + 1
  BY DEF ParseRow
<1>4. CASE ParseMark(w)
  <2>1. PICK row : row = [u EXCEPT !.asked = TRUE, !.attempts = n]
    OBVIOUS
  <2>2. row \in ParseRow /\ row.status = u.status /\ row.lockedAt = u.lockedAt
    BY <2>1 DEF ParseRow
  <2>3. EndParse(w, row, TRUE)
    BY <1>2, <1>3, <1>4, <2>1, Zenon DEF ParseMark
  <2> QED
    BY <1>1, <1>2, <2>2, <2>3, EndParseKeeps
<1>5. CASE ParseWait(w)
  <2>1. PICK row : row = [u EXCEPT !.polls = m]
    OBVIOUS
  <2>2. row \in ParseRow /\ row.status = u.status /\ row.lockedAt = u.lockedAt
    BY <2>1 DEF ParseRow
  <2>3. EndParse(w, row, FALSE)
    BY <1>2, <1>3, <1>5, <2>1, Zenon DEF ParseWait, Polled
  <2> QED
    BY <1>1, <1>2, <2>2, <2>3, EndParseKeeps
<1>6. CASE ParseComplete(w)
  <2>1. PICK row \in ParseRow : /\ row = Unlocked(parse[EntryOf(w)], "completed")
                                /\ row.status = "completed" /\ row.lockedAt = Nobody
    BY <1>1, Served, ParseUnlocked DEF Status
  <2>2. EndParse(w, row, FALSE)
    BY <1>6, <2>1 DEF ParseComplete
  <2> QED
    BY <1>1, <2>1, <2>2, EndParseKeeps
<1> QED
  BY <1>4, <1>5, <1>6

LEMMA ParseSaveKeeps ==
  ASSUME IInv, NEW w \in ParseWorker, ParseSave(w)
  PROVE  IInv' /\ Framed(w)
<1> DEFINE e == EntryOf(w)
           d == worker[w].dota
<1>1. /\ w \in Worker /\ worker[w].step = "save" /\ e \in Entry /\ worker[w] \in WorkerState
      /\ UNCHANGED <<provider, parse, pictures, call, spent, enabled>>
  BY Served DEF ParseSave, Worker
<1>2. CASE Duplicate(e, d)
  <2>1. Fails(w, TRUE, FALSE) /\ UNCHANGED <<link, stored, rows, enabled>>
    BY <1>1, <1>2 DEF ParseSave, rows
  <2> QED
    BY <1>1, <2>1, GoKeeps
<1>3. CASE ~Duplicate(e, d)
  <2>1. /\ SaveMatch(e, d, "parsed", TRUE) /\ Go(w, "complete")
        /\ d \in Dota \cup {None} /\ call' \in [Caller -> CallState]
    BY <1>1, <1>3 DEF ParseSave, IInv, TypeOK, WorkerState
  <2>2. /\ TablesHold'
        /\ \A f \in Entry : Moved(image[f], image'[f], f, w) /\ Moved(parse[f], parse'[f], f, w)
    BY <1>1, <1>3, <2>1, SaveMoves DEF Payload
  <2>3. /\ WorkersMove(w) /\ Turns(w) /\ ~Uploading(w)'
        /\ worker'[w].previous = worker[w].previous
    BY <1>1, <2>1, GoMoves DEF Step, ParseStep, Uploading
  <2> QED
    BY <1>1, <2>2, <2>3, QuietKeeps DEF Framed
<1> QED
  BY <1>2, <1>3

LEMMA ParseFailsKeeps ==
  ASSUME IInv, NEW w \in ParseWorker, ParseFails(w)
  PROVE  IInv' /\ Framed(w)
<1>1. /\ w \in Worker /\ worker[w].step # "idle" /\ Rest(w)
      /\ UNCHANGED <<link, stored, provider, image, pictures, call, spent, enabled>>
  BY DEF ParseFails, Worker
<1>2. CASE HasParse(w)
  <2>1. PICK s \in {"failed", "pending"}, one \in {0, 1} :
           parse' = [parse EXCEPT ![EntryOf(w)] =
                        [Unlocked(parse[EntryOf(w)], s) EXCEPT !.attempts = @ + one]]
    BY <1>2, Zenon DEF ParseFails
  <2>2. PICK u \in ParseRow : /\ u = Unlocked(parse[EntryOf(w)], s)
                              /\ u.status = s /\ u.lockedAt = Nobody
    BY <1>1, Served, ParseUnlocked DEF Status
  <2>3. PICK n \in Nat : n = u.attempts + one
    BY DEF ParseRow
  <2>4. PICK row : row = [Unlocked(parse[EntryOf(w)], s) EXCEPT !.attempts = @ + one]
    OBVIOUS
  <2>5. row \in ParseRow /\ row.status = u.status /\ row.lockedAt = u.lockedAt
    <3>1. row = [u EXCEPT !.attempts = n]
      BY <2>2, <2>3, <2>4, Zenon
    <3> QED
      BY <3>1 DEF ParseRow
  <2>6. parse' = [parse EXCEPT ![EntryOf(w)] = row]
    BY <2>1, <2>4, Zenon
  <2>7. EndParse(w, row, FALSE)
    BY <1>1, <1>2, <2>6 DEF EndParse
  <2> QED
    BY <1>1, <2>2, <2>5, <2>7, EndParseKeeps
<1>3. CASE ~HasParse(w)
  BY <1>1, <1>3, GoKeeps DEF ParseFails, rows
<1> QED
  BY <1>2, <1>3

-----------------------------------------------------------------------------
(* One lemma per action of the tables, the callers and the environment *)

LEMMA RecoverImagesKeeps ==
  ASSUME IInv, RecoverImages
  PROVE  IInv' /\ Framed(Nobody)
<1>1. /\ image \in [Entry -> ImageRow] /\ OwnWorkers
      /\ UNCHANGED <<link, stored, provider, parse, pictures, worker, call, spent, enabled>>
  BY DEF IInv, TypeOK, RecoverImages
<1>2. /\ image' = [e \in Entry |-> image'[e]]
      /\ \A e \in Entry : \/ image'[e] = image[e]
                          \/ /\ Stale(image[e])
                             /\ \E s \in {"failed", "pending"} : image'[e] = Unlocked(image[e], s)
  BY DEF RecoverImages
<1>3. ASSUME NEW e \in Entry
      PROVE  /\ image'[e] \in ImageRow /\ image'[e].lockedAt \in ImageWorker \cup {Nobody}
             /\ Moved(image[e], image'[e], e, Nobody)
  <2>1. CASE image'[e] = image[e]
    BY <1>1, <2>1 DEF Moved, OwnWorkers
  <2>2. ASSUME Stale(image[e]), NEW s \in {"failed", "pending"}, image'[e] = Unlocked(image[e], s)
        PROVE  /\ image'[e] \in ImageRow /\ image'[e].lockedAt = Nobody
               /\ Moved(image[e], image'[e], e, Nobody)
    <3>1. image'[e] \in ImageRow /\ image'[e].status = s /\ image'[e].lockedAt = Nobody
      BY <1>1, <2>2, ImageUnlocked DEF Status
    <3> QED
      BY <2>2, <3>1 DEF Moved, Stale
  <2> QED
    BY <1>2, <2>1, <2>2
<1>4. TablesHold'
  BY <1>1, <1>2, <1>3 DEF IInv, TypeOK, TablesHold, OwnWorkers, Duplicate
<1>5. \A e \in Entry : Moved(parse[e], parse'[e], e, Nobody)
  BY <1>1 DEF Moved
<1> QED
  BY <1>1, <1>3, <1>4, <1>5, NobodyKeeps DEF Framed

LEMMA RecoverParsesKeeps ==
  ASSUME IInv, RecoverParses
  PROVE  IInv' /\ Framed(Nobody)
<1>1. /\ parse \in [Entry -> ParseRow] /\ OwnWorkers
      /\ UNCHANGED <<link, stored, provider, image, pictures, worker, call, spent, enabled>>
  BY DEF IInv, TypeOK, RecoverParses
<1>2. /\ parse' = [e \in Entry |-> parse'[e]]
      /\ \A e \in Entry : \/ parse'[e] = parse[e]
                          \/ /\ Stale(parse[e])
                             /\ \E s \in {"failed", "pending"} : parse'[e] = Unlocked(parse[e], s)
  BY DEF RecoverParses
<1>3. ASSUME NEW e \in Entry
      PROVE  /\ parse'[e] \in ParseRow /\ parse'[e].lockedAt \in ParseWorker \cup {Nobody}
             /\ Moved(parse[e], parse'[e], e, Nobody)
  <2>1. CASE parse'[e] = parse[e]
    BY <1>1, <2>1 DEF Moved, OwnWorkers
  <2>2. ASSUME Stale(parse[e]), NEW s \in {"failed", "pending"}, parse'[e] = Unlocked(parse[e], s)
        PROVE  /\ parse'[e] \in ParseRow /\ parse'[e].lockedAt = Nobody
               /\ Moved(parse[e], parse'[e], e, Nobody)
    <3>1. parse'[e] \in ParseRow /\ parse'[e].status = s /\ parse'[e].lockedAt = Nobody
      BY <1>1, <2>2, ParseUnlocked DEF Status
    <3> QED
      BY <2>2, <3>1 DEF Moved, Stale
  <2> QED
    BY <1>2, <2>1, <2>2
<1>4. TablesHold'
  BY <1>1, <1>2, <1>3 DEF IInv, TypeOK, TablesHold, OwnWorkers, Duplicate
<1>5. \A e \in Entry : Moved(image[e], image'[e], e, Nobody)
  BY <1>1 DEF Moved
<1> QED
  BY <1>1, <1>3, <1>4, <1>5, NobodyKeeps DEF Framed

LEMMA AsksHolds ==
  ASSUME IInv, NEW c \in Caller, NEW kind \in {"none", "link", "reprocess", "images", "request"},
         NEW e \in Entry, NEW d \in Dota \cup {None}, NEW payload \in Payload,
         Asks(c, kind, e, d, payload)
  PROVE  call' \in [Caller -> CallState]
  BY DEF IInv, TypeOK, Asks, CallState

\* A call that has been answered.
LEMMA CallEnds ==
  ASSUME IInv, NEW c \in Caller, call' = [call EXCEPT ![c] = NoCall]
  PROVE  call' \in [Caller -> CallState]
<1>1. NoCall \in CallState
  BY DEF NoCall, CallState, Payload
<1> QED
  BY <1>1 DEF IInv, TypeOK

LEMMA CallFetchesKeeps ==
  ASSUME IInv, NEW c \in Caller, CallFetches(c)
  PROVE  IInv' /\ Framed(Nobody)
<1>1. /\ Spend("calls", MaxCalls)
      /\ UNCHANGED <<link, stored, provider, rows, pictures, worker, enabled>>
  BY DEF CallFetches
<1>2. spent' \in [calls : 0..MaxCalls, faults : 0..MaxFaults]
  BY <1>1, SpendHolds
<1>3. call' \in [Caller -> CallState]
  BY AsksHolds DEF CallFetches, Answer, Payload
<1>4. TablesHold'
  BY <1>1, <1>2, <1>3, TablesQuiet DEF IInv, TypeOK
<1> QED
  BY <1>1, <1>4, RowsSame, NobodyKeeps DEF Framed

LEMMA CallSavesKeeps ==
  ASSUME IInv, NEW c \in Caller, CallSaves(c)
  PROVE  IInv' /\ Framed(Nobody)
<1> DEFINE e == call[c].entry
           d == call[c].dota
<1>1. /\ call' = [call EXCEPT ![c] = NoCall] /\ call[c] \in CallState
      /\ UNCHANGED <<provider, parse, pictures, worker, spent, enabled>>
  BY DEF CallSaves, IInv, TypeOK
<1>2. call' \in [Caller -> CallState]
  BY <1>1, CallEnds
<1>3. e \in Entry \cup {Nobody} /\ d \in Dota \cup {None} /\ call[c].payload \in Payload
  BY <1>1 DEF CallState
<1>4. CASE Duplicate(e, d)
  <2>1. UNCHANGED <<link, stored, rows, enabled>>
    BY <1>1, <1>4 DEF CallSaves, rows
  <2>2. TablesHold'
    BY <1>1, <1>2, <2>1, TablesQuiet DEF IInv, TypeOK
  <2> QED
    BY <1>1, <2>1, <2>2, RowsSame, NobodyKeeps DEF Framed
<1>5. CASE ~Duplicate(e, d)
  <2>1. SaveMatch(e, d, call[c].payload, call[c].kind = "link")
    BY <1>5 DEF CallSaves
  <2>2. (call[c].kind = "link") \in BOOLEAN
    OBVIOUS
  <2>3. /\ TablesHold'
        /\ \A f \in Entry : /\ Moved(image[f], image'[f], f, Nobody)
                            /\ Moved(parse[f], parse'[f], f, Nobody)
    BY <1>1, <1>2, <1>3, <1>5, <2>1, <2>2, SaveMoves
  <2> QED
    BY <1>1, <2>3, NobodyKeeps DEF Framed
<1> QED
  BY <1>4, <1>5

LEMMA RequestReadsKeeps ==
  ASSUME IInv, NEW c \in Caller, RequestReads(c)
  PROVE  IInv' /\ Framed(Nobody)
<1>1. PICK e \in Entry :
         /\ link[e] # None /\ Spend("calls", MaxCalls)
         /\ \E kind \in {"images", "request"} : Asks(c, kind, e, link[e], "basic")
         /\ UNCHANGED <<link, stored, provider, rows, pictures, worker, enabled>>
  BY DEF RequestReads
<1>2. spent' \in [calls : 0..MaxCalls, faults : 0..MaxFaults]
  BY <1>1, SpendHolds
<1>3. link[e] \in Dota /\ call \in [Caller -> CallState]
  BY <1>1 DEF IInv, TypeOK
<1>4. call' \in [Caller -> CallState]
  BY <1>1, <1>3, AsksHolds DEF Payload
<1>5. TablesHold'
  BY <1>1, <1>2, <1>4, TablesQuiet DEF IInv, TypeOK
<1> QED
  BY <1>1, <1>5, RowsSame, NobodyKeeps DEF Framed

LEMMA RequestQueuesKeeps ==
  ASSUME IInv, NEW c \in Caller, RequestQueues(c)
  PROVE  IInv' /\ Framed(Nobody)
<1> DEFINE e == call[c].entry
<1>1. /\ QueueImages(e) /\ call' = [call EXCEPT ![c] = NoCall]
      /\ UNCHANGED <<link, stored, provider, parse, pictures, worker, spent, enabled>>
  BY DEF RequestQueues
<1>2. call' \in [Caller -> CallState]
  BY <1>1, CallEnds DEF IInv, TypeOK
<1>3. image \in [Entry -> ImageRow] /\ OwnWorkers
  BY DEF IInv, TypeOK
<1>4. /\ image' \in [Entry -> ImageRow]
      /\ \A f \in Entry : \/ image'[f] = image[f]
                          \/ /\ image[f].status \in {"none", "failed"}
                             /\ image'[f].status = "pending" /\ image'[f].lockedAt = Nobody
  <2>1. PICK row \in ImageRow : row = [NoImage EXCEPT !.status = "pending"]
    BY NoImageRow
  <2>2. row.status = "pending" /\ row.lockedAt = Nobody
    BY <2>1, NoImageRow
  <2>3. image' = [image EXCEPT ![e] = IF @.status \in {"none", "failed"} THEN row ELSE @]
    BY <1>1, <2>1, Zenon DEF QueueImages
  <2> QED
    BY <1>3, <2>2, <2>3
<1>5. ASSUME NEW f \in Entry
      PROVE  /\ Moved(image[f], image'[f], f, Nobody) /\ Moved(parse[f], parse'[f], f, Nobody)
             /\ image'[f].lockedAt \in ImageWorker \cup {Nobody}
  BY <1>1, <1>3, <1>4 DEF Moved, OwnWorkers, Active
<1>6. TablesHold'
  BY <1>1, <1>2, <1>4, <1>5 DEF IInv, TypeOK, TablesHold, OwnWorkers, Duplicate
<1> QED
  BY <1>1, <1>5, <1>6, NobodyKeeps DEF Framed

\* A request writes over whatever the row has become: a worker's lease is gone.
LEMMA RequestWritesKeeps ==
  ASSUME IInv, NEW c \in Caller, RequestWrites(c)
  PROVE  IInv' /\ Framed(Nobody)
<1> DEFINE e == call[c].entry
<1>1. /\ call' = [call EXCEPT ![c] = NoCall] /\ call[c] \in CallState
      /\ parse \in [Entry -> ParseRow]
      /\ UNCHANGED <<link, stored, provider, image, pictures, worker, spent, enabled>>
  BY DEF RequestWrites, IInv, TypeOK
<1>2. call' \in [Caller -> CallState]
  BY <1>1, CallEnds
<1>3. CASE e \in Entry
  <2>1. /\ call[c].dota \in Dota \cup {None} /\ parse[e].dota \in Dota \cup {None}
        /\ parse[e].status \in Status
    BY <1>1, <1>3 DEF CallState, ParseRow, Status
  <2>2. PICK d \in Dota \cup {None} :
           d = IF parse[e].status = "none" THEN call[c].dota ELSE parse[e].dota
    BY <2>1
  <2>3. PICK row : row = [NoParse EXCEPT !.status = "pending", !.dota = d]
    OBVIOUS
  <2>4. parse' = [parse EXCEPT ![e] = row]
    BY <2>2, <2>3, Zenon DEF RequestWrites
  <2>5. row \in ParseRow /\ row.status = "pending" /\ row.lockedAt = Nobody
    BY <2>3, NoParseRow
  <2>6. Moved(parse[e], row, e, Nobody)
    BY <2>1, <2>5 DEF Moved, Status, Active
  <2>7. /\ TablesHold'
        /\ \A f \in Entry : /\ Moved(image[f], image'[f], f, Nobody)
                            /\ Moved(parse[f], parse'[f], f, Nobody)
    BY <1>1, <1>2, <1>3, <2>4, <2>5, <2>6, ParseMoves
  <2> QED
    BY <1>1, <2>7, NobodyKeeps DEF Framed
<1>4. CASE e \notin Entry
  <2>1. UNCHANGED rows
    <3>1. PICK row : parse' = [parse EXCEPT ![e] = row]
      BY Zenon DEF RequestWrites
    <3>2. parse' = parse
      BY <1>1, <1>4, <3>1
    <3> QED
      BY <1>1, <3>2 DEF rows
  <2>2. TablesHold'
    BY <1>1, <1>2, <2>1, TablesQuiet DEF IInv, TypeOK
  <2> QED
    BY <1>1, <2>1, <2>2, RowsSame, NobodyKeeps DEF Framed
<1> QED
  BY <1>3, <1>4

LEMMA GoesStaleKeeps ==
  ASSUME IInv, NEW e \in Entry, GoesStale(e)
  PROVE  IInv' /\ Framed(Nobody)
<1>1. /\ image \in [Entry -> ImageRow] /\ parse \in [Entry -> ParseRow] /\ OwnWorkers
      /\ UNCHANGED <<link, stored, provider, pictures, worker, call, enabled>>
  BY DEF IInv, TypeOK, GoesStale
<1>2. spent' \in [calls : 0..MaxCalls, faults : 0..MaxFaults]
  BY SpendHolds DEF GoesStale, Expires, IInv, TypeOK
<1>3. ASSUME NEW f \in Entry
      PROVE  /\ image'[f] \in ImageRow /\ parse'[f] \in ParseRow
             /\ image'[f].status = image[f].status /\ image'[f].lockedAt = image[f].lockedAt
             /\ parse'[f].status = parse[f].status /\ parse'[f].lockedAt = parse[f].lockedAt
  <2>1. CASE image' = [image EXCEPT ![e].stale = TRUE] /\ UNCHANGED parse
    BY <1>1, <2>1 DEF ImageRow
  <2>2. CASE parse' = [parse EXCEPT ![e].stale = TRUE] /\ UNCHANGED image
    BY <1>1, <2>2 DEF ParseRow
  <2> QED
    BY <2>1, <2>2 DEF GoesStale
<1>4. image' = [f \in Entry |-> image'[f]] /\ parse' = [f \in Entry |-> parse'[f]]
  BY <1>1 DEF GoesStale
<1>5. TablesHold'
  BY <1>1, <1>2, <1>3, <1>4 DEF IInv, TypeOK, TablesHold, OwnWorkers, Duplicate
<1> QED
  BY <1>1, <1>3, <1>5, NobodyKeeps DEF Framed, Moved

LEMMA ParsesKeeps ==
  ASSUME IInv, NEW d \in Dota, Parses(d)
  PROVE  IInv' /\ Framed(Nobody)
<1>1. /\ provider' \in [Dota -> {"unparsed", "asked", "parsed"}]
      /\ UNCHANGED <<link, stored, rows, pictures, worker, call, spent, enabled>>
  BY DEF Parses, IInv, TypeOK
<1>2. TablesHold'
  BY <1>1, TablesQuiet DEF IInv, TypeOK
<1> QED
  BY <1>1, <1>2, RowsSame, NobodyKeeps DEF Framed

LEMMA CrashKeeps ==
  ASSUME IInv, NEW w \in Worker, Crash(w)
  PROVE  IInv' /\ Framed(w)
<1>1. /\ Spend("faults", MaxFaults) /\ Rest(w)
      /\ UNCHANGED <<link, stored, provider, rows, pictures, call, enabled>>
  BY DEF Crash
<1>2. spent' \in [calls : 0..MaxCalls, faults : 0..MaxFaults]
  BY <1>1, SpendHolds
<1>3. TablesHold'
  BY <1>1, <1>2, TablesQuiet DEF IInv, TypeOK
<1> QED
  BY <1>1, <1>3, RestMoves, RowsSame, QuietKeeps DEF Framed

-----------------------------------------------------------------------------
(* Invariance *)

LEMMA InitHolds == Init => IInv
<1> SUFFICES ASSUME Init  PROVE IInv
  OBVIOUS
<1>1. /\ link \in [Entry -> Dota \cup {None}]
      /\ \A e, f \in Entry : link[e] = link[f] => e = f \/ link[e] = None
      /\ stored = [d \in Dota |-> IF \E e \in Entry : link[e] = d THEN "basic" ELSE "none"]
      /\ provider = [d \in Dota |-> "unparsed"]
      /\ image = [e \in Entry |-> NoImage] /\ parse = [e \in Entry |-> NoParse]
      /\ shown = [e \in Entry |-> None] /\ object = [o \in Object |-> None]
      /\ worker = [w \in Worker |-> Idle] /\ call = [c \in Caller |-> NoCall]
      /\ spent = [calls |-> 0, faults |-> 0] /\ enabled \in BOOLEAN /\ unanswered = {}
  BY DEF Init
<1>2. /\ NoParse \in ParseRow /\ NoParse.lockedAt = Nobody
      /\ NoCall \in CallState
  BY DEF NoParse, ParseRow, NoCall, CallState, Payload
<1>3. /\ Idle \in WorkerState /\ Idle.step = "idle" /\ Idle.entry = Nobody
      /\ Idle.previous = None
  BY NoImageRow DEF Idle, WorkerState
<1>4. spent \in [calls : 0..MaxCalls, faults : 0..MaxFaults]
  BY <1>1, ImagesAssumption
<1>5. \A e \in Entry : link[e] # None => ~Duplicate(e, link[e])
  BY <1>1 DEF Duplicate
<1>6. TypeOK
  BY <1>1, <1>2, <1>3, <1>4, <1>5, NoImageRow DEF TypeOK, Payload
<1>7. ImagesStored /\ ShownApart /\ OwnWorkers
  BY <1>1, <1>2, NoImageRow DEF ImagesStored, ShownApart, OwnWorkers
<1>8. \A w \in Worker : WorkerHolds(w) /\ UploadHolds(w) /\ PreviousHolds(w)
  BY <1>1, <1>3 DEF WorkerHolds, UploadHolds, Uploading, PreviousHolds
<1> QED
  BY <1>6, <1>7, <1>8 DEF IInv

LEMMA StepFramed ==
  ASSUME IInv, [Next]_vars
  PROVE  IInv' /\ \E w \in Worker \cup {Nobody} : Framed(w)
<1>1. ASSUME NEW w \in ImageWorker, ImageServe(w) \/ ClaimImage(w)
      PROVE  IInv' /\ Framed(w)
  BY <1>1, ClaimImageKeeps, ImageSourceKeeps, ImageStateKeeps, ImageEndsKeep,
     ImageRenderKeeps, ImageUploadKeeps, ImageProgressKeeps, ImageReplaceKeeps,
     ImageCleanKeeps, ImageFailsKeeps DEF ImageServe
<1>2. ASSUME NEW w \in ParseWorker, ParseServe(w) \/ ClaimParse(w)
      PROVE  IInv' /\ Framed(w)
  BY <1>2, ClaimParseKeeps, ParseTurnsKeep, ParseSubmitKeeps, ParseEndsKeep,
     ParseSaveKeeps, ParseFailsKeeps DEF ParseServe
<1>3. CASE RecoverImages \/ RecoverParses
  BY <1>3, RecoverImagesKeeps, RecoverParsesKeeps
<1>4. ASSUME NEW c \in Caller, Call(c)
      PROVE  IInv' /\ Framed(Nobody)
  BY <1>4, CallFetchesKeeps, CallSavesKeeps, RequestReadsKeeps, RequestQueuesKeeps,
     RequestWritesKeeps DEF Call
<1>5. CASE (\E e \in Entry : GoesStale(e)) \/ (\E d \in Dota : Parses(d))
  BY <1>5, GoesStaleKeeps, ParsesKeeps
<1>6. ASSUME NEW w \in Worker, Crash(w)
      PROVE  IInv' /\ Framed(w)
  BY <1>6, CrashKeeps
<1>7. CASE UNCHANGED vars
  <2>1. UNCHANGED <<link, stored, provider, rows, pictures, worker, call, spent, enabled>>
    BY <1>7 DEF vars, rows, pictures
  <2>2. TablesHold'
    BY <2>1, TablesSame
  <2> QED
    BY <2>1, <2>2, RowsSame, NobodyKeeps DEF Framed
<1> QED
  BY <1>1, <1>2, <1>3, <1>4, <1>5, <1>6, <1>7 DEF Next, Worker

THEOREM Invariance == Spec => []IInv
<1>1. Init => IInv
  BY InitHolds
<1>2. IInv /\ [Next]_vars => IInv'
  BY StepFramed
<1> QED
  BY <1>1, <1>2, PTL DEF Spec

\* Rows, workers and calls hold values their columns and the code allow, and no
\* two entries are linked to one match, however many tables' workers and calls
\* save a match they fetched before (saveOpenDotaMatch).
THEOREM TypeCorrect == Spec => []TypeOK
<1>1. IInv => TypeOK
  BY DEF IInv
<1> QED
  BY <1>1, Invariance, PTL

\* The images an entry shows are in the object store, however uploads,
\* withdrawals and deletions of workers with and without a lease interleave,
\* unless the answer to the commit that named them was lost
\* (publishGeneratedMatchImages).
THEOREM ImagesAreStored == Spec => []ImagesStored
<1>1. IInv => ImagesStored
  BY DEF IInv
<1> QED
  BY <1>1, Invariance, PTL

-----------------------------------------------------------------------------
(* Both tables are lease queues *)

HolderOf(row, e) == IF Holds(row, e) THEN row.lockedAt ELSE Nobody
HolderAfter(row, e) ==
    IF \E v \in Worker : worker'[v].entry = e /\ Leases(row, v) THEN row.lockedAt ELSE Nobody

LEMMA HolderIs ==
  ASSUME NEW row, NEW e
  PROVE  /\ \A v \in Worker : HolderOf(row, e) = v <=> worker[v].entry = e /\ Leases(row, v)
         /\ \A v \in Worker : HolderAfter(row, e) = v <=> worker'[v].entry = e /\ Leases(row, v)
         /\ HolderOf(row, e) \in Worker \cup {Nobody}
         /\ HolderAfter(row, e) \in Worker \cup {Nobody}
  BY Apart DEF HolderOf, HolderAfter, Holds, Leases

\* What one row, with the statuses s and t and the holders h and g before and
\* after the step, does as the queue of the workers W sees it.
QueueMoves(s, t, h, g, e, W) ==
    \/ s \notin Active /\ t = "pending" /\ g = Nobody
    \/ \E v \in W : /\ s = "pending" /\ worker[v].entry = Nobody /\ worker'[v].entry = e
                    /\ t = "processing" /\ g = v
    \/ \E v \in W : /\ s = "processing" /\ h = v /\ worker'[v].entry = Nobody
                    /\ t = "processing" /\ g = Nobody
    \/ s = "processing" /\ t \in {"pending", "failed"} /\ g = Nobody
    \/ \E v \in W : /\ s = "processing" /\ h = v /\ worker'[v].entry = Nobody
                    /\ t \in {"pending", "completed", "failed"} /\ g = Nobody
    \/ t = s /\ g = h

\* A row that moves moves as a lease queue's, if only its own workers lock it
\* and one that has turned to it has claimed it.
LEMMA RowsAreQueued ==
  ASSUME NEW w \in Worker \cup {Nobody}, Turns(w), NEW e \in Entry, NEW old, NEW new,
         Moved(old, new, e, w), NEW W \in SUBSET Worker,
         old.lockedAt \in W \cup {Nobody}, new.lockedAt \in W \cup {Nobody},
         w \in W /\ worker'[w].entry = e =>
            worker[w].entry = e \/ (old.status = "pending" /\ Leases(new, w))
  PROVE  QueueMoves(old.status, new.status, HolderOf(old, e), HolderAfter(new, e), e, W)
<1> DEFINE h == HolderOf(old, e)
           g == HolderAfter(new, e)
<1>1. /\ \A v \in Worker : h = v <=> worker[v].entry = e /\ Leases(old, v)
      /\ \A v \in Worker : g = v <=> worker'[v].entry = e /\ Leases(new, v)
      /\ h \in Worker \cup {Nobody} /\ g \in Worker \cup {Nobody} /\ Nobody \notin Worker
      /\ e # Nobody
  BY HolderIs, Apart
<1>2. /\ old.status # "processing" => h = Nobody
      /\ new.status # "processing" => g = Nobody
  BY <1>1 DEF Leases
<1>3. h \in W \cup {Nobody} /\ g \in W \cup {Nobody}
  BY <1>1 DEF Leases
<1> HIDE DEF h, g
<1>4. CASE new.status = old.status /\ new.lockedAt = old.lockedAt /\ old.status = "processing"
  <2>1. \A v \in Worker : Leases(new, v) <=> Leases(old, v)
    BY <1>4 DEF Leases
  <2>2. \A v \in Worker \ {w} : g = v <=> h = v
    BY <1>1, <2>1 DEF Turns
  <2>3. g = w /\ w \in Worker => h = w
    BY <1>1, <1>3, <1>4, <2>1
  <2>4. w \in Worker /\ h = w /\ g # w => worker'[w].entry = Nobody
    BY <1>1, <2>1 DEF Turns
  <2>5. CASE g = h
    BY <1>4, <2>5 DEF QueueMoves, h, g
  <2>6. CASE g # h
    <3>1. w \in W /\ h = w /\ g = Nobody /\ worker'[w].entry = Nobody
      BY <1>1, <1>3, <2>2, <2>3, <2>4, <2>6
    <3> QED
      BY <1>4, <3>1 DEF QueueMoves, h, g
  <2> QED
    BY <2>5, <2>6
<1>5. CASE new.status = old.status /\ old.status # "processing"
  BY <1>2, <1>5 DEF QueueMoves, h, g
<1>6. CASE old.status \notin Active /\ new.status = "pending"
  BY <1>2, <1>6 DEF QueueMoves, g
<1>7. CASE /\ w \in Worker /\ worker[w].entry = Nobody /\ worker'[w].entry = e
           /\ old.status = "pending" /\ new.status = "processing" /\ new.lockedAt = w
  <2>1. w \in W /\ g = w
    BY <1>1, <1>7 DEF Leases
  <2> QED
    BY <1>7, <2>1 DEF QueueMoves, g
<1>8. CASE old.status = "processing" /\ new.status \in {"pending", "failed"}
  BY <1>2, <1>8 DEF QueueMoves, g
<1>9. CASE /\ w \in Worker /\ worker[w].entry = e /\ worker'[w].entry = Nobody
           /\ old.status = "processing" /\ old.lockedAt = w
           /\ new.status \in {"pending", "completed"}
  <2>1. w \in W /\ h = w /\ g = Nobody
    BY <1>1, <1>2, <1>9 DEF Leases
  <2> QED
    BY <1>9, <2>1 DEF QueueMoves, h, g
<1> QED
  BY <1>4, <1>5, <1>6, <1>7, <1>8, <1>9 DEF Moved

LEMMA ImageStepsAreQueued ==
  ASSUME IInv, IInv', NEW w \in Worker \cup {Nobody}, Framed(w)
  PROVE  ImageQueue!Next
<1>1. /\ image \in [Entry -> ImageRow] /\ image' \in [Entry -> ImageRow]
      /\ worker' \in [Worker -> WorkerState] /\ ImageWorker \subseteq Worker
  BY DEF IInv, TypeOK, Worker
<1>2. \A e \in Entry : /\ image[e].lockedAt \in ImageWorker \cup {Nobody}
                       /\ image'[e].lockedAt \in ImageWorker \cup {Nobody}
  BY DEF IInv, OwnWorkers
<1>3. ASSUME NEW e \in Entry
      PROVE  QueueMoves(image[e].status, image'[e].status, HolderOf(image[e], e),
                        HolderAfter(image'[e], e), e, ImageWorker)
  <2>1. ASSUME w \in ImageWorker, worker'[w].entry = e, worker[w].entry # e
        PROVE  image[e].status = "pending" /\ Leases(image'[e], w)
    <3>1. w \in Worker /\ e # Nobody /\ (w \in ImageWorker <=> w \notin ParseWorker)
      BY <1>1, <2>1, Apart
    <3>2. \E f \in Entry :
             /\ worker'[w].entry = f
             /\ IF w \in ImageWorker
                THEN image[f].status = "pending" /\ Leases(image'[f], w)
                ELSE parse[f].status = "pending" /\ Leases(parse'[f], w)
      BY <2>1, <3>1 DEF Framed, Turns
    <3> QED
      BY <2>1, <3>1, <3>2
  <2>2. Turns(w) /\ Moved(image[e], image'[e], e, w) /\ ImageWorker \in SUBSET Worker
    BY <1>1 DEF Framed
  <2>3. w \in ImageWorker /\ worker'[w].entry = e =>
            worker[w].entry = e \/ (image[e].status = "pending" /\ Leases(image'[e], w))
    BY <2>1
  <2> QED
    BY <1>2, <2>2, <2>3, RowsAreQueued
<1>4. \A e \in Entry : HolderAfter(image'[e], e) \in ImageWorker \cup {Nobody}
  BY <1>2 DEF HolderAfter
<1>5. ASSUME NEW v \in ImageWorker
      PROVE  \/ worker'[v].entry \in {worker[v].entry, Nobody}
             \/ worker'[v].entry \in Entry /\ HolderAfter(image'[worker'[v].entry], worker'[v].entry) = v
  BY <1>1, HolderIs DEF Framed, Turns
<1>6. ASSUME NEW e \in Entry
      PROVE  \A t, g : ImageQueue!Becomes(e, t, g) <=> image'[e].status = t /\ HolderAfter(image'[e], e) = g
  BY DEF ImageQueue!Becomes, HolderAfter, Holds
<1>7. ASSUME NEW e \in Entry
      PROVE  \/ ImageQueue!Add(e) \/ ImageQueue!Cancel(e) \/ ImageQueue!Claim(e)
             \/ ImageQueue!Lose(e) \/ ImageQueue!Recover(e) \/ ImageQueue!Finish(e)
             \/ ImageQueue!Same(e)
  <2> DEFINE s == image[e].status
             t == image'[e].status
             h == HolderOf(image[e], e)
             g == HolderAfter(image'[e], e)
  <2>1. CASE s \notin Active /\ t = "pending" /\ g = Nobody
    BY <1>6, <2>1 DEF ImageQueue!Add, ImageQueue!Active, Active
  <2>2. CASE \E v \in ImageWorker : /\ s = "pending" /\ worker[v].entry = Nobody
                                /\ worker'[v].entry = e /\ t = "processing" /\ g = v
    BY <1>6, <2>2 DEF ImageQueue!Claim
  <2>3. CASE \E v \in ImageWorker : /\ s = "processing" /\ h = v /\ worker'[v].entry = Nobody
                                /\ t = "processing" /\ g = Nobody
    BY <1>6, <2>3 DEF ImageQueue!Lose, HolderOf
  <2>4. CASE s = "processing" /\ t \in {"pending", "failed"} /\ g = Nobody
    BY <1>6, <2>4 DEF ImageQueue!Recover
  <2>5. CASE \E v \in ImageWorker : /\ s = "processing" /\ h = v /\ worker'[v].entry = Nobody
                                /\ t \in {"pending", "completed", "failed"} /\ g = Nobody
    BY <1>6, <2>5 DEF ImageQueue!Finish, HolderOf
  <2>6. CASE t = s /\ g = h
    BY <2>6 DEF ImageQueue!Same, ImageQueue!Becomes, HolderOf, HolderAfter, Holds
  <2> QED
    BY <1>3, <2>1, <2>2, <2>3, <2>4, <2>5, <2>6 DEF QueueMoves
<1>8. \A v \in ImageWorker : ImageQueue!Works(v)
  BY <1>1, <1>5 DEF ImageQueue!Works, HolderAfter, Holds
<1>9. /\ [e \in Entry |-> image[e].status]' \in [Entry -> ImageQueue!QueueStatus]
      /\ [e \in Entry |-> HolderOf(image[e], e)]' \in [Entry -> ImageWorker \cup {Nobody}]
      /\ [v \in ImageWorker |-> worker[v].entry]' \in [ImageWorker -> Entry \cup {Nobody}]
  BY <1>1, <1>4 DEF ImageRow, WorkerState, HolderOf, HolderAfter, Holds,
     ImageQueue!QueueStatus, ImageQueue!Active, ImageQueue!Ended
<1> QED
  BY <1>7, <1>8, <1>9 DEF ImageQueue!Next, HolderOf

LEMMA ParseStepsAreQueued ==
  ASSUME IInv, IInv', NEW w \in Worker \cup {Nobody}, Framed(w)
  PROVE  ParseQueue!Next
<1>1. /\ parse \in [Entry -> ParseRow] /\ parse' \in [Entry -> ParseRow]
      /\ worker' \in [Worker -> WorkerState] /\ ParseWorker \subseteq Worker
  BY DEF IInv, TypeOK, Worker
<1>2. \A e \in Entry : /\ parse[e].lockedAt \in ParseWorker \cup {Nobody}
                       /\ parse'[e].lockedAt \in ParseWorker \cup {Nobody}
  BY DEF IInv, OwnWorkers
<1>3. ASSUME NEW e \in Entry
      PROVE  QueueMoves(parse[e].status, parse'[e].status, HolderOf(parse[e], e),
                        HolderAfter(parse'[e], e), e, ParseWorker)
  <2>1. ASSUME w \in ParseWorker, worker'[w].entry = e, worker[w].entry # e
        PROVE  parse[e].status = "pending" /\ Leases(parse'[e], w)
    <3>1. w \in Worker /\ e # Nobody /\ (w \in ImageWorker <=> w \notin ParseWorker)
      BY <1>1, <2>1, Apart
    <3>2. \E f \in Entry :
             /\ worker'[w].entry = f
             /\ IF w \in ImageWorker
                THEN image[f].status = "pending" /\ Leases(image'[f], w)
                ELSE parse[f].status = "pending" /\ Leases(parse'[f], w)
      BY <2>1, <3>1 DEF Framed, Turns
    <3> QED
      BY <2>1, <3>1, <3>2
  <2>2. Turns(w) /\ Moved(parse[e], parse'[e], e, w) /\ ParseWorker \in SUBSET Worker
    BY <1>1 DEF Framed
  <2>3. w \in ParseWorker /\ worker'[w].entry = e =>
            worker[w].entry = e \/ (parse[e].status = "pending" /\ Leases(parse'[e], w))
    BY <2>1
  <2> QED
    BY <1>2, <2>2, <2>3, RowsAreQueued
<1>4. \A e \in Entry : HolderAfter(parse'[e], e) \in ParseWorker \cup {Nobody}
  BY <1>2 DEF HolderAfter
<1>5. ASSUME NEW v \in ParseWorker
      PROVE  \/ worker'[v].entry \in {worker[v].entry, Nobody}
             \/ worker'[v].entry \in Entry /\ HolderAfter(parse'[worker'[v].entry], worker'[v].entry) = v
  BY <1>1, HolderIs, Apart DEF Framed, Turns
<1>6. ASSUME NEW e \in Entry
      PROVE  \A t, g : ParseQueue!Becomes(e, t, g) <=> parse'[e].status = t /\ HolderAfter(parse'[e], e) = g
  BY DEF ParseQueue!Becomes, HolderAfter, Holds
<1>7. ASSUME NEW e \in Entry
      PROVE  \/ ParseQueue!Add(e) \/ ParseQueue!Cancel(e) \/ ParseQueue!Claim(e)
             \/ ParseQueue!Lose(e) \/ ParseQueue!Recover(e) \/ ParseQueue!Finish(e)
             \/ ParseQueue!Same(e)
  <2> DEFINE s == parse[e].status
             t == parse'[e].status
             h == HolderOf(parse[e], e)
             g == HolderAfter(parse'[e], e)
  <2>1. CASE s \notin Active /\ t = "pending" /\ g = Nobody
    BY <1>6, <2>1 DEF ParseQueue!Add, ParseQueue!Active, Active
  <2>2. CASE \E v \in ParseWorker : /\ s = "pending" /\ worker[v].entry = Nobody
                                /\ worker'[v].entry = e /\ t = "processing" /\ g = v
    BY <1>6, <2>2 DEF ParseQueue!Claim
  <2>3. CASE \E v \in ParseWorker : /\ s = "processing" /\ h = v /\ worker'[v].entry = Nobody
                                /\ t = "processing" /\ g = Nobody
    BY <1>6, <2>3 DEF ParseQueue!Lose, HolderOf
  <2>4. CASE s = "processing" /\ t \in {"pending", "failed"} /\ g = Nobody
    BY <1>6, <2>4 DEF ParseQueue!Recover
  <2>5. CASE \E v \in ParseWorker : /\ s = "processing" /\ h = v /\ worker'[v].entry = Nobody
                                /\ t \in {"pending", "completed", "failed"} /\ g = Nobody
    BY <1>6, <2>5 DEF ParseQueue!Finish, HolderOf
  <2>6. CASE t = s /\ g = h
    BY <2>6 DEF ParseQueue!Same, ParseQueue!Becomes, HolderOf, HolderAfter, Holds
  <2> QED
    BY <1>3, <2>1, <2>2, <2>3, <2>4, <2>5, <2>6 DEF QueueMoves
<1>8. \A v \in ParseWorker : ParseQueue!Works(v)
  BY <1>1, <1>5 DEF ParseQueue!Works, HolderAfter, Holds
<1>9. /\ [e \in Entry |-> parse[e].status]' \in [Entry -> ParseQueue!QueueStatus]
      /\ [e \in Entry |-> HolderOf(parse[e], e)]' \in [Entry -> ParseWorker \cup {Nobody}]
      /\ [v \in ParseWorker |-> worker[v].entry]' \in [ParseWorker -> Entry \cup {Nobody}]
  BY <1>1, <1>4 DEF ParseRow, WorkerState, HolderOf, HolderAfter, Holds,
     ParseQueue!QueueStatus, ParseQueue!Active, ParseQueue!Ended
<1> QED
  BY <1>7, <1>8, <1>9 DEF ParseQueue!Next, HolderOf

LEMMA NobodyHolds ==
  ASSUME Init, NEW e \in Entry, NEW row
  PROVE  ~Holds(row, e)
  BY Apart DEF Init, Idle, Holds

\* The image jobs are a lease queue: a worker that lost its job changes neither
\* its outcome nor its delay, and a match that is saved again takes no job away
\* from the worker that renders it.
THEOREM ImageJobsAreLeased == Spec => ImagesAreLeased
<1>1. Init => ImageQueue!Init
  BY NobodyHolds DEF Init, NoImage, Idle, Worker, ImageQueue!Init
<1>2. IInv /\ IInv' /\ [Next]_vars => [ImageQueue!Next]_ImageQueue!queue
  BY StepFramed, ImageStepsAreQueued
<1> QED
  BY <1>1, <1>2, Invariance, PTL DEF Spec, ImagesAreLeased, ImageQueue!Spec

\* The parse jobs are a lease queue, although a request writes over a row that
\* a worker has claimed meanwhile: the worker's lease is gone with the row.
THEOREM ParseJobsAreLeased == Spec => ParsesAreLeased
<1>1. Init => ParseQueue!Init
  BY NobodyHolds DEF Init, NoParse, Idle, Worker, ParseQueue!Init
<1>2. IInv /\ IInv' /\ [Next]_vars => [ParseQueue!Next]_ParseQueue!queue
  BY StepFramed, ParseStepsAreQueued
<1> QED
  BY <1>1, <1>2, Invariance, PTL DEF Spec, ParsesAreLeased, ParseQueue!Spec
=============================================================================
