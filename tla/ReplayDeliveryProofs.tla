------------------------ MODULE ReplayDeliveryProofs ------------------------
(***************************************************************************)
(* What becomes of the replay itself: that a sealed file is whole, that a  *)
(* waiting parse and a completed job have it, and that none is forgotten   *)
(* by the archive, for every number of matches, lanes, clients, requests,  *)
(* terminations and crashes.                                               *)
(***************************************************************************)
EXTENDS ReplayRequestProofs

\* The disk loses nothing, and no lease is taken from a living lane or there is
\* only one prepare lane to hold it.  Without this the properties of the file
\* are false: see the runs v_spool and stale_lanes.
OnePrepareLane == \A k, l \in PrepareLanes : k = l
Undisturbed == spent["losses"] = 0 /\ (spent["stalls"] = 0 \/ OnePrepareLane)

\* The administrator has deleted nothing.
NothingDeleted == spent["deletes"] = 0

-----------------------------------------------------------------------------
(* The inductive invariant, by what it is about *)

\* A row that has been prepared: it is completed, or in the hands of the parse.
Prepared(row) == row.status = "completed" \/ row.phase \in {"awaiting_parse", "parsing"}

LeasePhase(m) ==
    job[m].status = "processing" =>
        \/ job[m].lease \in PrepareLanes /\ job[m].phase = "working"
        \/ job[m].lease \in ParseLanes /\ job[m].phase = "parsing"
SealWhole(m) ==
    Undisturbed =>
        /\ job[m].seal # "none" => job[m].seal = "good" /\ file[m] = "good"
        /\ file[m] # "torn" /\ object[m] # "bad"
ActiveStored(m) ==
    NothingDeleted /\ job[m].archive = "active" => job[m].key /\ object[m] # "none"
DoneKept(m) ==
    Undisturbed /\ NothingDeleted =>
        /\ job[m].status = "completed" => job[m].seal = "good" \/ job[m].archive = "active"
        /\ arch[m].status = "completed" => job[m].archive = "active"
        /\ Prepared(job[m]) /\ job[m].seal # "none" /\ job[m].archive = "missing"
             => arch[m].status # "none"
KeySealed(m) ==
    Undisturbed /\ Inherited = {} =>
        /\ job[m].key => job[m].seal = "good"
        /\ job[m].status = "pending" /\ job[m].phase = "awaiting_parse" => job[m].seal = "good"

MatchInv(m) == LeasePhase(m) /\ SealWhole(m) /\ ActiveStored(m) /\ DoneKept(m) /\ KeySealed(m)

\* Steps between the check of the saved file and the end of the transfer.
Fetching == {"cooldown", "fetch", "reserve", "restore", "download", "open", "write", "seal"}

\* What a prepare lane at work knows of its match.
PrepareKeys(l) ==
    /\ lane[l].row.key => job[lane[l].match].key
    /\ lane[l].archived => lane[l].row.key
    /\ lane[l].step \in {"head", "mark"} => lane[l].row.key /\ lane[l].row.seal = "none"
PrepareHolds(l) == spent["stalls"] = 0 => Holds(l)
PrepareStored(l) ==
    NothingDeleted /\ At(l, "mark") /\ lane[l].archived => object[lane[l].match] # "none"
PrepareSeal(l) ==
    Undisturbed /\ ~At(l, "fail") =>
        /\ lane[l].row.seal = job[lane[l].match].seal
        /\ ~At(l, "discard")
        /\ lane[l].step \in Fetching => lane[l].row.seal = "none"
        /\ lane[l].step \in {"open", "write"} => file[lane[l].match] \notin Contents
        /\ At(l, "seal") => file[lane[l].match] = "good"
        /\ At(l, "handoff") => lane[l].row.seal = "good"
        /\ At(l, "finish") => lane[l].archived \/ lane[l].row.seal = "good"
PrepareArchive(l) ==
    LET m == lane[l].match IN
    Undisturbed /\ NothingDeleted =>
        /\ lane[l].step \in {"read", "head"} /\ lane[l].row.archive = "active"
             => job[m].archive = "active"
        /\ At(l, "mark") /\ ~lane[l].archived => job[m].archive # "active"
        /\ lane[l].step \notin {"read", "head", "mark", "fail"} /\ lane[l].archived
             => job[m].archive = "active"
        /\ At(l, "finish") /\ job[m].archive = "missing" => arch[m].status # "none"

PrepareInv(l) ==
    At(l, "idle") \/ /\ PrepareKeys(l) /\ PrepareHolds(l) /\ PrepareStored(l)
                     /\ PrepareSeal(l) /\ PrepareArchive(l)

\* A parse lane past its check works on a sealed replay.
ParseInv(l) ==
    Undisturbed =>
        /\ lane[l].step \in {"prepared", "import", "finish"} /\ lane[l].row.seal # "none"
             => job[lane[l].match].seal = "good"
        /\ lane[l].step \in {"import", "finish"} => lane[l].row.seal # "none"

\* An archive lane works on the checkpoint it read, and stores before it confirms.
BackupInv(l) ==
    /\ At(l, "look") => lane[l].row.seal # "none"
    /\ NothingDeleted /\ lane[l].step \in {"record", "confirm", "activate"}
         => object[lane[l].match] # "none"
    /\ Undisturbed /\ lane[l].step \in {"look", "upload", "record", "confirm", "activate", "settle"}
         => lane[l].row.seal = "good" /\ job[lane[l].match].seal = "good"
    /\ Undisturbed /\ NothingDeleted /\ At(l, "settle") => job[lane[l].match].archive = "active"

\* Without a deletion the page rests and no client meets a missing file.
ApiInv ==
    NothingDeleted => admin.step = "idle" /\ \A c \in Clients : client[c].step # "missing"

\* A client is sent the replay, whole, whatever lanes do between its steps.
ClientInv(c) ==
    Undisturbed /\ client[c].step \in {"open", "hash", "unseal"} =>
        /\ client[c].step # "unseal"
        /\ client[c].seal = "good" /\ job[client[c].match].seal = "good"
        /\ client[c].step = "hash" => client[c].opened = "good"

ReplayInv ==
    /\ \A m \in Matches : MatchInv(m)
    /\ \A l \in PrepareLanes : PrepareInv(l)
    /\ \A l \in ParseLanes : ParseInv(l)
    /\ \A l \in ArchiveLanes : BackupInv(l)
    /\ \A c \in Clients : ClientInv(c)
    /\ ApiInv

-----------------------------------------------------------------------------
(* What a step leaves to those who do not make it *)

\* The budgets of the environment are only ever spent.
Steady ==
    /\ Undisturbed' => Undisturbed
    /\ NothingDeleted' => NothingDeleted
    /\ spent'["stalls"] = 0 => spent["stalls"] = 0

\* The facts about a match on which everybody relies.
Kept(n) ==
    /\ job[n].key => job'[n].key
    /\ Undisturbed' /\ job[n].seal = "good" => job'[n].seal = "good"
    /\ NothingDeleted' /\ object[n] # "none" => object'[n] # "none"
    /\ Undisturbed' /\ NothingDeleted' /\ job[n].archive = "active" => job'[n].archive = "active"
    /\ arch[n].status # "none" => arch'[n].status # "none"

\* The facts about a match on which the prepare lane at work on it relies.
Spared(n) ==
    /\ Undisturbed' => job'[n].seal = job[n].seal /\ file'[n] = file[n]
    /\ Undisturbed' /\ NothingDeleted' =>
         /\ job'[n].archive \in {job[n].archive, "active"}
         /\ job[n].seal = "none" => job'[n].archive = job[n].archive

HoldsKept(k) == spent'["stalls"] = 0 /\ Holds(k) => Holds(k)'

\* The parts of a match that a step may leave alone: who has the job, its saved
\* file, its place in the archive, and the contents of the stores.
SameLease(n) ==
    /\ job'[n].status = job[n].status
    /\ job'[n].phase = job[n].phase
    /\ job'[n].lease = job[n].lease
SameSeal(n) == job'[n].seal = job[n].seal
SameArchive(n) == job'[n].key = job[n].key /\ job'[n].archive = job[n].archive
SameRow(n) == SameLease(n) /\ SameSeal(n) /\ SameArchive(n)
SameStores(n) == file'[n] = file[n] /\ object'[n] = object[n]
SameMatch(n) == SameRow(n) /\ SameStores(n) /\ arch'[n].status = arch[n].status
Elsewhere(m) == \A n \in Matches \ {m} : SameMatch(n)

\* Most steps spend nothing, the others spend more than nothing.
LEMMA SpendsSteadily ==
  ASSUME TypeInv, UNCHANGED spent \/ \E what \in Budgets : \E limit : Spend(what, limit)
  PROVE  Steady
<1>1. CASE UNCHANGED spent
  BY <1>1 DEF Steady, Undisturbed, NothingDeleted
<1>2. ASSUME NEW what \in Budgets, NEW limit, Spend(what, limit) PROVE Steady
  <2>1. spent \in [Budgets -> Nat] /\ spent' = [spent EXCEPT ![what] = @ + 1]
    BY <1>2 DEF Spend, TypeInv, SwitchesTyped
  <2>2. \A b \in Budgets : spent'[b] = 0 => spent[b] = 0
    BY <2>1
  <2>3. {"losses", "stalls", "deletes"} \subseteq Budgets
    BY DEF Budgets
  <2> QED
    BY <2>2, <2>3 DEF Steady, Undisturbed, NothingDeleted
<1> QED
  BY <1>1, <1>2

\* A match that is left alone keeps what is known of it.
LEMMA SameMatchKeeps ==
  ASSUME Steady, NEW n, MatchInv(n), SameMatch(n)
  PROVE  MatchInv(n)' /\ Kept(n) /\ Spared(n)
<1> USE DEF SameMatch, SameRow, SameLease, SameSeal, SameArchive, SameStores, Steady
<1>1. LeasePhase(n)'
  BY DEF MatchInv, LeasePhase
<1>2. SealWhole(n)' /\ ActiveStored(n)'
  BY DEF MatchInv, SealWhole, ActiveStored
<1>3. DoneKept(n)' /\ KeySealed(n)'
  BY DEF MatchInv, DoneKept, KeySealed, Prepared
<1>4. Kept(n) /\ Spared(n)
  BY DEF Kept, Spared
<1> QED
  BY <1>1, <1>2, <1>3, <1>4 DEF MatchInv

\* No two prepare lanes are at work on one match as long as leases are kept.
LEMMA OneAtWork ==
  ASSUME NEW k \in PrepareLanes, NEW l \in PrepareLanes \ {k},
         ~At(k, "idle"), ~At(l, "idle"), PrepareInv(k), PrepareInv(l),
         lane[k].match = lane[l].match
  PROVE  ~Undisturbed /\ spent["stalls"] # 0
  BY DEF PrepareInv, PrepareHolds, Holds, Undisturbed, OnePrepareLane

\* A prepare lane that does not make the step keeps what it knows.
LEMMA PrepareBystander ==
  ASSUME Steady, NEW k \in PrepareLanes, PrepareInv(k), lane'[k] = lane[k],
         Kept(lane[k].match),
         \/ Spared(lane[k].match) /\ HoldsKept(k)
         \/ \E l \in PrepareLanes \ {k} :
               ~At(l, "idle") /\ PrepareInv(l) /\ lane[l].match = lane[k].match
  PROVE  PrepareInv(k)'
<1>1. CASE At(k, "idle")
  BY <1>1 DEF PrepareInv, At
<1>2. CASE ~At(k, "idle")
  <2> DEFINE m == lane[k].match
  <2>1. \/ Spared(m) /\ HoldsKept(k)
        \/ ~Undisturbed /\ spent["stalls"] # 0
    BY <1>2, OneAtWork
  <2>2. /\ PrepareKeys(k) /\ PrepareHolds(k) /\ PrepareStored(k)
        /\ PrepareSeal(k) /\ PrepareArchive(k)
    BY <1>2 DEF PrepareInv
  <2>3. PrepareKeys(k)'
    BY <2>2 DEF PrepareKeys, Kept
  <2>4. PrepareHolds(k)'
    BY <2>1, <2>2 DEF PrepareHolds, HoldsKept, Steady
  <2>5. PrepareStored(k)'
    BY <2>2 DEF PrepareStored, Kept, Steady, At
  <2>6. PrepareSeal(k)'
    BY <2>1, <2>2 DEF PrepareSeal, Spared, Steady, At
  <2>7. PrepareArchive(k)'
    <3>1. SUFFICES ASSUME Undisturbed', NothingDeleted' PROVE PrepareArchive(k)'
      BY DEF PrepareArchive
    <3>2. Undisturbed /\ NothingDeleted /\ Spared(m)
      BY <2>1, <3>1 DEF Steady
    <3>3. At(k, "mark") => job[m].seal = "none"
      BY <2>2, <3>2 DEF PrepareKeys, PrepareSeal, At
    <3> QED
      BY <2>2, <3>1, <3>2, <3>3 DEF PrepareArchive, Spared, Kept, At
  <2> QED
    BY <2>3, <2>4, <2>5, <2>6, <2>7 DEF PrepareInv
<1> QED
  BY <1>1, <1>2

\* So do parse lanes and archive lanes.
LEMMA OtherBystander ==
  ASSUME Steady, NEW k, lane'[k] = lane[k], Kept(lane[k].match)
  PROVE  (ParseInv(k) => ParseInv(k)') /\ (BackupInv(k) => BackupInv(k)')
<1>1. ParseInv(k) => ParseInv(k)'
  BY DEF ParseInv, Kept, Steady
<1>2. BackupInv(k) => BackupInv(k)'
  BY DEF BackupInv, Kept, Steady, At
<1> QED
  BY <1>1, <1>2

\* So do clients.
LEMMA ClientBystander ==
  ASSUME TypeInv, ReplayInv, Steady, \A n \in Matches : Kept(n),
         NEW c \in Clients, client'[c] = client[c] \/ ClientInv(c)'
  PROVE  ClientInv(c)'
<1>1. ClientInv(c) /\ (client[c].step = "idle" \/ client[c].match \in Matches)
  BY DEF ReplayInv, TypeInv, ClientsTyped
<1> QED
  BY <1>1 DEF ClientInv, Kept, Steady

\* A lane that rests relies on nothing.
LEMMA AtRest ==
  ASSUME NEW k, lane'[k].step = "idle"
  PROVE  PrepareInv(k)' /\ ParseInv(k)' /\ BackupInv(k)'
<1>1. PrepareInv(k)'
  BY DEF PrepareInv, At
<1>2. ParseInv(k)' /\ BackupInv(k)'
  BY DEF ParseInv, BackupInv, At
<1> QED
  BY <1>1, <1>2

\* A step that spares every match disturbs only the lane that makes it.
LEMMA SparingStep ==
  ASSUME TypeInv, ReplayInv, Steady, NEW l \in Lanes, OnlyLane(l),
         UNCHANGED client, ApiInv', \A n \in Matches : MatchInv(n)' /\ Kept(n) /\ Spared(n),
         \A k \in PrepareLanes \ {l} : ~At(k, "idle") => HoldsKept(k),
         l \in PrepareLanes => PrepareInv(l)',
         l \in ParseLanes => ParseInv(l)',
         l \in ArchiveLanes => BackupInv(l)'
  PROVE  ReplayInv'
<1>1. ASSUME NEW k \in Lanes \ {l}
      PROVE  /\ lane'[k] = lane[k]
             /\ At(k, "idle") \/ lane[k].match \in Matches
             /\ At(k, "idle") => PrepareInv(k)' /\ ParseInv(k)' /\ BackupInv(k)'
  BY AtRest DEF OnlyLane, TypeInv, LanesTyped, At
<1>2. ASSUME NEW k \in PrepareLanes PROVE PrepareInv(k)'
  BY <1>1, PrepareBystander DEF ReplayInv, Lanes, Foreground
<1>3. ASSUME NEW k \in ParseLanes PROVE ParseInv(k)'
  BY <1>1, OtherBystander DEF ReplayInv, Lanes, Foreground
<1>4. ASSUME NEW k \in ArchiveLanes PROVE BackupInv(k)'
  BY <1>1, OtherBystander DEF ReplayInv, Lanes
<1>5. ASSUME NEW c \in Clients PROVE ClientInv(c)'
  BY ClientBystander
<1> QED
  BY <1>2, <1>3, <1>4, <1>5 DEF ReplayInv

\* The same for steps of no lane.
LEMMA OutsideStep ==
  ASSUME TypeInv, ReplayInv, Steady, UNCHANGED lane, ApiInv',
         UNCHANGED client \/ (\A c \in Clients : client'[c] = client[c] \/ ClientInv(c)'),
         \A n \in Matches : MatchInv(n)' /\ Kept(n) /\ Spared(n),
         \A k \in PrepareLanes : ~At(k, "idle") => HoldsKept(k)
  PROVE  ReplayInv'
<1>1. ASSUME NEW k \in Lanes
      PROVE  /\ lane'[k] = lane[k]
             /\ At(k, "idle") \/ lane[k].match \in Matches
             /\ At(k, "idle") => PrepareInv(k)' /\ ParseInv(k)' /\ BackupInv(k)'
  BY AtRest DEF TypeInv, LanesTyped, At
<1>2. ASSUME NEW k \in PrepareLanes PROVE PrepareInv(k)'
  BY <1>1, PrepareBystander DEF ReplayInv, Lanes, Foreground
<1>3. ASSUME NEW k \in ParseLanes PROVE ParseInv(k)'
  BY <1>1, OtherBystander DEF ReplayInv, Lanes, Foreground
<1>4. ASSUME NEW k \in ArchiveLanes PROVE BackupInv(k)'
  BY <1>1, OtherBystander DEF ReplayInv, Lanes
<1>5. ASSUME NEW c \in Clients PROVE ClientInv(c)'
  BY ClientBystander
<1> QED
  BY <1>2, <1>3, <1>4, <1>5 DEF ReplayInv

\* A prepare lane has its match for itself: its step need not spare it.
LEMMA OwningStep ==
  ASSUME TypeInv, ReplayInv, Steady, UNCHANGED <<client, admin>>,
         NEW l \in PrepareLanes, ~At(l, "idle"), OnlyLane(l), PrepareInv(l)',
         NEW m \in Matches, lane[l].match = m, Elsewhere(m), MatchInv(m)', Kept(m)
  PROVE  ReplayInv'
<1>1. ASSUME NEW n \in Matches \ {m} PROVE MatchInv(n)' /\ Kept(n) /\ Spared(n)
  BY SameMatchKeeps DEF Elsewhere, ReplayInv
<1>2. ASSUME NEW k \in Lanes \ {l}
      PROVE  /\ lane'[k] = lane[k]
             /\ At(k, "idle") \/ lane[k].match \in Matches
             /\ At(k, "idle") => PrepareInv(k)' /\ ParseInv(k)' /\ BackupInv(k)'
  BY AtRest DEF OnlyLane, TypeInv, LanesTyped, At
<1>3. ASSUME NEW k \in Lanes \ {l}, ~At(k, "idle") PROVE Kept(lane[k].match)
  BY <1>1, <1>2, <1>3
<1>4. ASSUME NEW k \in PrepareLanes \ {l}, ~At(k, "idle") PROVE PrepareInv(k)'
  <2>1. k \in Lanes
    BY DEF Lanes, Foreground
  <2>2. CASE lane[k].match = m
    BY <1>2, <1>3, <1>4, <2>1, <2>2, PrepareBystander DEF ReplayInv
  <2>3. CASE lane[k].match # m
    <3>1. HoldsKept(k) /\ Spared(lane[k].match)
      BY <1>1, <1>2, <1>4, <2>1, <2>3 DEF HoldsKept, Holds, Elsewhere, SameMatch, SameRow, SameLease
    <3> QED
      BY <1>2, <1>3, <1>4, <2>1, <3>1, PrepareBystander DEF ReplayInv
  <2> QED
    BY <2>2, <2>3
<1>5. ASSUME NEW k \in PrepareLanes PROVE PrepareInv(k)'
  BY <1>2, <1>4 DEF Lanes, Foreground
<1>6. ParseLanes \subseteq Lanes \ {l} /\ ArchiveLanes \subseteq Lanes \ {l}
  BY LanesAssumption DEF Lanes, Foreground
<1>7. ASSUME NEW k \in ParseLanes PROVE ParseInv(k)'
  BY <1>2, <1>3, <1>6, OtherBystander DEF ReplayInv
<1>8. ASSUME NEW k \in ArchiveLanes PROVE BackupInv(k)'
  BY <1>2, <1>3, <1>6, OtherBystander DEF ReplayInv
<1>9. ApiInv' /\ \A c \in Clients : ClientInv(c)'
  BY <1>1, ClientBystander DEF ApiInv, ReplayInv, Steady
<1> QED
  BY <1>1, <1>5, <1>7, <1>8, <1>9 DEF ReplayInv

-----------------------------------------------------------------------------
(* The prepare lanes *)

\* A lane that goes on to another step with what it has.
LaneAt(l, step) ==
    /\ OnlyLane(l)
    /\ lane'[l].step = step
    /\ lane'[l].match = lane[l].match
    /\ lane'[l].row = lane[l].row
    /\ lane'[l].archived = lane[l].archived

\* The usual ends of a step change nothing but the step.
LEMMA LaneEnds ==
  ASSUME LanesTyped, NEW l \in Lanes
  PROVE  /\ \A step : Goto(l, step) => LaneAt(l, step)
         /\ \A fault : Raise(l, fault) => LaneAt(l, "fail")
         /\ \A fault : Stop(l, fault) => LaneAt(l, "stop")
         /\ Release(l) => OnlyLane(l) /\ lane'[l].step = "idle"
<1>1. lane \in [Lanes -> LaneState] /\ lane[l] \in LaneState
  BY DEF LanesTyped
<1>2. ASSUME NEW step, Goto(l, step) PROVE LaneAt(l, step)
  BY <1>1, <1>2 DEF Goto, LaneAt, OnlyLane, LaneState
<1>3. ASSUME NEW fault, Raise(l, fault) PROVE LaneAt(l, "fail")
  BY <1>1, <1>3 DEF Raise, LaneAt, OnlyLane, LaneState
<1>4. ASSUME NEW fault, Stop(l, fault) PROVE LaneAt(l, "stop")
  BY <1>1, <1>4 DEF Stop, LaneAt, OnlyLane, LaneState
<1>5. ASSUME Release(l) PROVE OnlyLane(l) /\ lane'[l].step = "idle"
  BY <1>1, <1>5 DEF Release, OnlyLane, Idle
<1> QED
  BY <1>2, <1>3, <1>4, <1>5

\* What holds of a prepare lane at work.
LEMMA PrepareAtWork ==
  ASSUME TypeInv, ReplayInv, NEW l \in PrepareLanes, ~At(l, "idle")
  PROVE  /\ l \in Lanes /\ lane \in [Lanes -> LaneState] /\ lane[l] \in LaneState
         /\ lane[l].row \in JobRow /\ lane[l].match \in Matches
         /\ job[lane[l].match] \in JobRow /\ arch[lane[l].match] \in ArchRow
         /\ MatchInv(lane[l].match)
         /\ PrepareKeys(l) /\ PrepareHolds(l) /\ PrepareStored(l)
         /\ PrepareSeal(l) /\ PrepareArchive(l)
<1>1. l \in Lanes
  BY DEF Lanes, Foreground
<1>2. lane \in [Lanes -> LaneState] /\ lane[l] \in LaneState /\ lane[l].match \in Matches
  BY <1>1 DEF TypeInv, LanesTyped
<1>3. lane[l].row \in JobRow
  BY <1>2 DEF LaneState
<1>4. job[lane[l].match] \in JobRow /\ arch[lane[l].match] \in ArchRow
  BY <1>2 DEF TypeInv, JobsTyped, BackupsTyped
<1>5. MatchInv(lane[l].match)
  BY <1>2 DEF ReplayInv
<1>6. /\ PrepareKeys(l) /\ PrepareHolds(l) /\ PrepareStored(l)
      /\ PrepareSeal(l) /\ PrepareArchive(l)
  BY DEF ReplayInv, PrepareInv
<1> QED
  BY <1>1, <1>2, <1>3, <1>4, <1>5, <1>6

\* A lane whose step failed relies on its lease and its key only.
LEMMA FailingLane ==
  ASSUME TypeInv, ReplayInv, Steady, NEW l \in PrepareLanes, ~At(l, "idle"),
         lane'[l].step = "fail", lane'[l].match = lane[l].match, HoldsKept(l),
         lane'[l].row.key = lane[l].row.key, lane'[l].archived = lane[l].archived,
         Kept(lane[l].match)
  PROVE  PrepareInv(l)'
<1>1. PrepareKeys(l) /\ PrepareHolds(l)
  BY PrepareAtWork
<1>2. PrepareKeys(l)'
  BY <1>1 DEF PrepareKeys, Kept
<1>3. PrepareHolds(l)'
  BY <1>1 DEF PrepareHolds, HoldsKept, Steady
<1>4. PrepareStored(l)' /\ PrepareSeal(l)' /\ PrepareArchive(l)'
  BY DEF PrepareStored, PrepareSeal, PrepareArchive, At
<1> QED
  BY <1>2, <1>3, <1>4 DEF PrepareInv

\* A lane becomes what is assigned to it, and no other does.
LEMMA LaneBecomes ==
  ASSUME LanesTyped, NEW l \in Lanes, NEW new, lane' = [lane EXCEPT ![l] = new]
  PROVE  OnlyLane(l) /\ lane'[l] = new
  BY DEF LanesTyped, OnlyLane

\* The claimed row is compared with the stored analysis and the archive's entry.
LEMMA ReadMatchKeeps ==
  ASSUME TypeInv, ReplayInv, NEW l \in PrepareLanes, ReadMatch(l)
  PROVE  ReplayInv'
<1> DEFINE row == lane[l].row
           archived == row.seal # "none" /\ row.archive = "active" /\ row.key
           step == IF row.key /\ row.archive # "deleted" /\ row.seal = "none"
                   THEN "head" ELSE "verify"
<1>1. At(l, "read") /\ ~At(l, "idle")
  BY DEF ReadMatch, At
<1>2. PICK m \in Matches : m = lane[l].match
  BY <1>1, PrepareAtWork
<1>3. /\ lane[l] \in LaneState /\ l \in Lanes /\ LanesTyped
      /\ PrepareKeys(l) /\ PrepareHolds(l) /\ PrepareSeal(l) /\ PrepareArchive(l)
  BY <1>1, PrepareAtWork DEF TypeInv
<1>4. UNCHANGED <<job, arch, file, object, client, admin, spent>>
  BY DEF ReadMatch, foregroundOnly
<1>5. Steady
  BY <1>4, SpendsSteadily
<1>6. /\ OnlyLane(l)
      /\ lane'[l].match = m /\ lane'[l].row = row
      /\ lane'[l].archived = archived /\ lane'[l].step = step
  <2> DEFINE new == [lane[l] EXCEPT !.parsed = parsed[lane[l].match],
                                    !.meta = meta[lane[l].match],
                                    !.archived = archived, !.step = step]
  <2>1. lane' = [lane EXCEPT ![l] = new]
    BY DEF ReadMatch
  <2> HIDE DEF archived, step
  <2>2. new.match = lane[l].match
    BY <1>3 DEF LaneState
  <2>3. new.row = row
    BY <1>3 DEF LaneState
  <2>4. new.archived = archived
    BY <1>3 DEF LaneState
  <2>5. new.step = step
    BY <1>3 DEF LaneState
  <2> HIDE DEF new
  <2>6. OnlyLane(l) /\ lane'[l] = new
    BY <1>3, <2>1, LaneBecomes
  <2> QED
    BY <1>2, <2>2, <2>3, <2>4, <2>5, <2>6
<1>7. \A n \in Matches : SameMatch(n)
  BY <1>4 DEF SameMatch, SameRow, SameLease, SameSeal, SameArchive, SameStores
<1>8. MatchInv(m)' /\ Kept(m)
  BY <1>5, <1>7, SameMatchKeeps DEF ReplayInv
<1>9. PrepareKeys(l)'
  BY <1>2, <1>3, <1>4, <1>6 DEF PrepareKeys
<1>10. PrepareHolds(l)' /\ PrepareStored(l)'
  BY <1>2, <1>3, <1>4, <1>6 DEF PrepareHolds, Holds, PrepareStored, At
<1>11. PrepareSeal(l)'
  BY <1>1, <1>2, <1>3, <1>4, <1>5, <1>6 DEF PrepareSeal, Steady, At, Fetching
<1>12. PrepareArchive(l)'
  BY <1>1, <1>2, <1>3, <1>4, <1>5, <1>6 DEF PrepareArchive, Steady, At
<1>13. PrepareInv(l)'
  BY <1>9, <1>10, <1>11, <1>12 DEF PrepareInv
<1> QED
  BY <1>1, <1>2, <1>4, <1>5, <1>6, <1>7, <1>8, <1>13, OwningStep DEF Elsewhere

\* A prepare lane with its lease has its row in preparation.
LEMMA WorkingRow ==
  ASSUME NEW l \in PrepareLanes, Holds(l), LeasePhase(lane[l].match)
  PROVE  /\ job[lane[l].match].status = "processing"
         /\ job[lane[l].match].phase = "working"
         /\ ~Prepared(job[lane[l].match])
  BY LanesAssumption DEF Holds, LeasePhase, Prepared

\* A lane that goes on with the row it has, past the questions about the
\* archive: what it has to know at its next step.
LEMMA PrepareGoes ==
  ASSUME TypeInv, ReplayInv, UNCHANGED spent, NEW l \in PrepareLanes,
         lane[l].step \notin {"idle", "read", "head", "mark", "fail"},
         NEW m \in Matches, m = lane[l].match, SameRow(m),
         NEW step, LaneAt(l, step), step \notin {"read", "head", "mark"},
         Undisturbed =>
           /\ step # "discard"
           /\ step \in Fetching => lane[l].row.seal = "none"
           /\ step \in {"open", "write"} => file'[m] \notin Contents
           /\ step = "seal" => file'[m] = "good"
           /\ step = "handoff" => lane[l].row.seal = "good"
           /\ step = "finish" => lane[l].archived \/ lane[l].row.seal = "good",
         step = "finish" /\ ~lane[l].archived => arch'[m].status # "none"
  PROVE  PrepareInv(l)'
<1>1. PrepareKeys(l) /\ PrepareHolds(l) /\ PrepareSeal(l) /\ PrepareArchive(l)
  BY PrepareAtWork DEF At
<1>2. /\ lane'[l].step = step /\ lane'[l].match = m
      /\ lane'[l].row = lane[l].row /\ lane'[l].archived = lane[l].archived
  BY DEF LaneAt
<1>3. /\ Undisturbed' = Undisturbed
      /\ NothingDeleted' = NothingDeleted
  BY DEF Undisturbed, NothingDeleted
<1>4. PrepareKeys(l)'
  BY <1>1, <1>2 DEF PrepareKeys, SameRow, SameArchive
<1>5. PrepareHolds(l)' /\ PrepareStored(l)'
  BY <1>1, <1>2 DEF PrepareHolds, PrepareStored, Holds, SameRow, SameLease, At
<1>6. PrepareSeal(l)'
  BY <1>1, <1>2, <1>3 DEF PrepareSeal, SameRow, SameSeal, At
<1>7. PrepareArchive(l)'
  BY <1>1, <1>2, <1>3 DEF PrepareArchive, SameRow, SameArchive, At
<1> QED
  BY <1>4, <1>5, <1>6, <1>7 DEF PrepareInv

\* The file of a match without a sealed replay may become anything.
LEMMA FileChanges ==
  ASSUME UNCHANGED spent, NEW m, MatchInv(m), SameRow(m), object'[m] = object[m],
         arch'[m].status = arch[m].status,
         Undisturbed => file'[m] = file[m] \/ (job[m].seal = "none" /\ file'[m] # "torn")
  PROVE  MatchInv(m)' /\ Kept(m)
<1> USE DEF SameRow, SameLease, SameSeal, SameArchive
<1>1. Undisturbed' = Undisturbed /\ NothingDeleted' = NothingDeleted
  BY DEF Undisturbed, NothingDeleted
<1>2. LeasePhase(m)' /\ ActiveStored(m)'
  BY <1>1 DEF MatchInv, LeasePhase, ActiveStored
<1>3. SealWhole(m)'
  BY <1>1 DEF MatchInv, SealWhole
<1>4. DoneKept(m)' /\ KeySealed(m)'
  BY <1>1 DEF MatchInv, DoneKept, KeySealed, Prepared
<1>5. Kept(m)
  BY <1>1 DEF Kept
<1> QED
  BY <1>2, <1>3, <1>4, <1>5 DEF MatchInv

\* A step on the file of a lane's own match, the rest of the match untouched.
LEMMA FileStep ==
  ASSUME TypeInv, ReplayInv, NEW l \in PrepareLanes, ~At(l, "idle"), OnlyLane(l),
         UNCHANGED <<job, arch, object, client, admin, spent>>,
         NEW m \in Matches, m = lane[l].match, \A n \in Matches \ {m} : file'[n] = file[n],
         Undisturbed => file'[m] = file[m] \/ (job[m].seal = "none" /\ file'[m] # "torn"),
         PrepareInv(l)' \/ lane'[l].step = "idle" \/ LaneAt(l, "fail")
  PROVE  ReplayInv'
<1>1. Steady
  BY SpendsSteadily
<1>2. SameRow(m) /\ Elsewhere(m)
  BY DEF SameRow, SameLease, SameSeal, SameArchive, Elsewhere, SameMatch, SameStores
<1>3. MatchInv(m)' /\ Kept(m)
  BY <1>2, FileChanges DEF ReplayInv
<1>4. LaneAt(l, "fail") => PrepareInv(l)'
  BY <1>1, <1>3, FailingLane DEF LaneAt, HoldsKept, Holds
<1> QED
  BY <1>1, <1>2, <1>3, <1>4, AtRest, OwningStep

\* The saved file is compared with its seal; a sealed one passes.
LEMMA VerifySpoolKeeps ==
  ASSUME TypeInv, ReplayInv, NEW l \in PrepareLanes, VerifySpool(l)
  PROVE  ReplayInv'
<1> DEFINE seal == lane[l].row.seal
           valid == Matching(lane[l].match, seal)
           broken == seal # "none" /\ file[lane[l].match] # "absent" /\ ~valid
           next == IF broken THEN "discard" ELSE NextAfterVerify(l, valid)
<1>1. At(l, "verify") /\ ~At(l, "idle")
  BY DEF VerifySpool, At
<1>2. PICK m \in Matches : m = lane[l].match
  BY <1>1, PrepareAtWork
<1>3. l \in Lanes /\ LanesTyped /\ PrepareSeal(l) /\ MatchInv(m)
  BY <1>1, <1>2, PrepareAtWork DEF TypeInv
<1>4. UNCHANGED <<job, arch, object, client, admin, spent>>
  BY DEF VerifySpool, foregroundOnly
<1>5. LaneAt(l, next)
  BY <1>3, LaneEnds DEF VerifySpool
<1>6. ASSUME Undisturbed
      PROVE  /\ seal = job[m].seal
             /\ seal # "none" => valid /\ seal = "good"
             /\ valid => seal = "good"
             /\ ~broken
  <2>1. seal = job[m].seal /\ (job[m].seal # "none" => job[m].seal = "good" /\ file[m] = "good")
    BY <1>1, <1>2, <1>3, <1>6 DEF PrepareSeal, MatchInv, SealWhole, At
  <2> QED
    BY <1>2, <2>1 DEF Matching
<1>7. \A n \in Matches \ {m} : file'[n] = file[n]
  BY <1>2 DEF VerifySpool
<1>8. Undisturbed => file'[m] = file[m]
  BY <1>6 DEF VerifySpool
<1>9. /\ NextAfterVerify(l, valid) \in {"finish", "handoff", "cooldown", "reserve"}
      /\ NextAfterVerify(l, valid) = "finish" => lane[l].archived
      /\ NextAfterVerify(l, valid) = "handoff" => valid
      /\ NextAfterVerify(l, valid) \in {"cooldown", "reserve"} => ~valid
  BY DEF NextAfterVerify, PlanOf, processingPlan
<1>10. /\ next \notin {"read", "head", "mark", "open", "write", "seal"}
       /\ next = "finish" => lane[l].archived
       /\ Undisturbed => /\ next # "discard"
                         /\ next \in Fetching => seal = "none"
                         /\ next = "handoff" => seal = "good"
  BY <1>6, <1>9 DEF Fetching
<1> HIDE DEF next, valid, broken
<1>11. PrepareInv(l)'
  BY <1>1, <1>2, <1>4, <1>5, <1>10, PrepareGoes
  DEF SameRow, SameLease, SameSeal, SameArchive, At
<1> QED
  BY <1>1, <1>2, <1>4, <1>5, <1>7, <1>8, <1>11, FileStep DEF LaneAt

\* The steps before the transfer: the provider is asked and space reserved.
LEMMA AskingKeeps ==
  ASSUME TypeInv, ReplayInv, NEW l \in PrepareLanes,
         \/ FetchMetadata(l) \/ Reserve(l)
         \/ CheckCooldown(l) /\ ~cooling
  PROVE  ReplayInv'
<1>1. lane[l].step \in {"cooldown", "fetch", "reserve"} /\ ~At(l, "idle")
  BY DEF FetchMetadata, Reserve, CheckCooldown, At
<1>2. PICK m \in Matches : m = lane[l].match
  BY <1>1, PrepareAtWork
<1>3. l \in Lanes /\ LanesTyped /\ PrepareSeal(l)
  BY <1>1, PrepareAtWork DEF TypeInv
<1>4. UNCHANGED <<job, arch, file, object, client, admin, spent>>
  BY DEF FetchMetadata, Reserve, CheckCooldown, foregroundOnly
<1>5. LaneAt(l, "fail") \/ \E step \in {"fetch", "reserve", "restore", "download"} : LaneAt(l, step)
  BY <1>3, LaneEnds DEF FetchMetadata, Reserve, CheckCooldown
<1>6. Undisturbed => lane[l].row.seal = "none"
  BY <1>1, <1>3 DEF PrepareSeal, Fetching, At
<1>7. ASSUME NEW step \in {"fetch", "reserve", "restore", "download"}, LaneAt(l, step)
      PROVE  PrepareInv(l)'
  BY <1>1, <1>2, <1>4, <1>6, <1>7, PrepareGoes DEF SameRow, SameLease, SameSeal, SameArchive
<1> QED
  BY <1>1, <1>2, <1>4, <1>5, <1>7, FileStep DEF LaneAt

\* Nobody else writes to the file of a lane at work.
LEMMA NobodyShares ==
  ASSUME ReplayInv, NEW l \in PrepareLanes, ~At(l, "idle"), Undisturbed
  PROVE  ~Shared(l)
<1>1. ASSUME NEW k \in PrepareLanes \ {l}, At(k, "write"), lane[k].match = lane[l].match
      PROVE  FALSE
  <2>1. ~At(k, "idle") /\ PrepareInv(k) /\ PrepareInv(l)
    BY <1>1 DEF At, ReplayInv
  <2> QED
    BY <1>1, <2>1, OneAtWork
<1> QED
  BY <1>1 DEF Shared

\* The transfer into the spool file: nobody else is at work on it, and it has no
\* seal yet.
LEMMA TransferKeeps ==
  ASSUME TypeInv, ReplayInv, NEW l \in PrepareLanes,
         RestoreArchive(l) \/ BeginDownload(l) \/ WriteReplay(l)
  PROVE  ReplayInv'
<1>1. lane[l].step \in {"restore", "download", "write"} /\ ~At(l, "idle")
  BY DEF RestoreArchive, BeginDownload, WriteReplay, At
<1>2. PICK m \in Matches : m = lane[l].match
  BY <1>1, PrepareAtWork
<1>3. /\ l \in Lanes /\ LanesTyped /\ PrepareSeal(l) /\ MatchInv(m)
      /\ file \in [Matches -> Contents \cup Unfinished \cup {"absent"}]
      /\ object[m] \in Contents \cup {"none"}
  BY <1>1, <1>2, PrepareAtWork DEF TypeInv, StoresTyped
<1>4. UNCHANGED <<job, arch, object, client, admin, spent>>
  BY DEF RestoreArchive, BeginDownload, WriteReplay, foregroundOnly
<1>5. Undisturbed => lane[l].row.seal = "none" /\ job[m].seal = "none"
  BY <1>1, <1>2, <1>3 DEF PrepareSeal, Fetching, At
<1>6. \A n \in Matches \ {m} : file'[n] = file[n]
  BY <1>2, <1>3 DEF RestoreArchive, BeginDownload, WriteReplay
<1>7. Undisturbed => ~Shared(l)
  BY <1>1, <1>2, NobodyShares
<1>8. /\ \/ LaneAt(l, "fail")
         \/ LaneAt(l, "open") /\ (Undisturbed => file'[m] \notin Contents)
         \/ LaneAt(l, "seal") /\ (Undisturbed => file'[m] = "good")
         \/ OnlyLane(l) /\ lane'[l].step = "idle"
      /\ Undisturbed => file'[m] # "torn"
  <2>1. CASE RestoreArchive(l)
    BY <1>2, <1>3, <2>1, LaneEnds DEF RestoreArchive, MatchInv, SealWhole, Contents
  <2>2. CASE BeginDownload(l)
    BY <1>2, <1>3, <1>7, <2>2, LaneEnds DEF BeginDownload, MatchInv, SealWhole, Contents
  <2>3. CASE WriteReplay(l)
    <3>1. Undisturbed => file[m] \notin Contents /\ file[m] # "torn"
      BY <1>2, <1>3, <2>3 DEF PrepareSeal, MatchInv, SealWhole, WriteReplay, At
    <3>2. \/ LaneAt(l, "fail")
          \/ LaneAt(l, "seal")
          \/ OnlyLane(l) /\ lane'[l].step = "idle"
      BY <1>3, <2>3, LaneEnds DEF WriteReplay
    <3>3. Undisturbed => file' = file \/ (file'[m] = "good" /\ LaneAt(l, "seal"))
      BY <1>2, <1>3, <2>3, <3>1, LaneEnds DEF WriteReplay, Contents, Unfinished
    <3>4. LaneAt(l, "seal") => (Undisturbed => file'[m] = "good")
      BY <1>2, <1>3, <2>3, <3>1, LaneEnds DEF WriteReplay, LaneAt, Contents, Unfinished
    <3> QED
      BY <3>1, <3>2, <3>3, <3>4
  <2> QED
    BY <2>1, <2>2, <2>3
<1>9. ASSUME NEW step \in {"open", "seal"}, LaneAt(l, step),
             step = "seal" => (Undisturbed => file'[m] = "good"),
             step = "open" => (Undisturbed => file'[m] \notin Contents)
      PROVE  PrepareInv(l)'
  BY <1>1, <1>2, <1>4, <1>5, <1>9, PrepareGoes DEF SameRow, SameLease, SameSeal, SameArchive
<1>10. LaneAt(l, "fail") \/ PrepareInv(l)' \/ lane'[l].step = "idle"
  BY <1>8, <1>9
<1> QED
  BY <1>1, <1>2, <1>4, <1>5, <1>6, <1>8, <1>10, FileStep DEF LaneAt

\* The archive's HEAD request: a lane goes on with what the store answers.
LEMMA HeadArchiveKeeps ==
  ASSUME TypeInv, ReplayInv, NEW l \in PrepareLanes, HeadArchive(l)
  PROVE  ReplayInv'
<1> DEFINE exists == object[lane[l].match] # "none"
           step == IF exists /\ lane[l].row.archive = "active" THEN "verify" ELSE "mark"
<1>1. At(l, "head") /\ ~At(l, "idle")
  BY DEF HeadArchive, At
<1>2. PICK m \in Matches : m = lane[l].match
  BY <1>1, PrepareAtWork
<1>3. /\ lane[l] \in LaneState /\ l \in Lanes /\ LanesTyped /\ MatchInv(m)
      /\ PrepareKeys(l) /\ PrepareHolds(l) /\ PrepareSeal(l) /\ PrepareArchive(l)
  BY <1>1, <1>2, PrepareAtWork DEF TypeInv
<1>4. UNCHANGED <<job, arch, file, object, client, admin, spent>>
  BY DEF HeadArchive, foregroundOnly
<1>5. CASE Raise(l, "network")
  BY <1>1, <1>2, <1>3, <1>4, <1>5, LaneEnds, FileStep DEF LaneAt
<1>6. CASE lane' = [lane EXCEPT ![l].archived = exists, ![l].step = step]
  <2>1. /\ OnlyLane(l)
        /\ lane'[l].match = m /\ lane'[l].row = lane[l].row
        /\ lane'[l].archived = exists /\ lane'[l].step = step
    <3> DEFINE new == [lane[l] EXCEPT !.archived = exists, !.step = step]
    <3>1. lane' = [lane EXCEPT ![l] = new]
      BY <1>6
    <3> HIDE DEF exists, step
    <3>2. new.match = lane[l].match /\ new.row = lane[l].row
      BY <1>3 DEF LaneState
    <3>3. new.archived = exists
      BY <1>3 DEF LaneState
    <3>4. new.step = step
      BY <1>3 DEF LaneState
    <3> HIDE DEF new
    <3>5. OnlyLane(l) /\ lane'[l] = new
      BY <1>3, <3>1, LaneBecomes
    <3> QED
      BY <1>2, <3>2, <3>3, <3>4, <3>5
  <2>2. lane[l].row.key /\ lane[l].row.seal = "none"
    BY <1>1, <1>3 DEF PrepareKeys, At
  <2>3. Undisturbed' = Undisturbed /\ NothingDeleted' = NothingDeleted
    BY <1>4 DEF Undisturbed, NothingDeleted
  <2>4. PrepareKeys(l)'
    BY <1>2, <1>3, <1>4, <2>1, <2>2 DEF PrepareKeys
  <2>5. PrepareHolds(l)' /\ PrepareStored(l)'
    BY <1>2, <1>3, <1>4, <2>1 DEF PrepareHolds, Holds, PrepareStored, At
  <2>6. PrepareSeal(l)'
    BY <1>1, <1>2, <1>3, <1>4, <2>1, <2>3 DEF PrepareSeal, At, Fetching
  <2>7. NothingDeleted /\ job[m].archive = "active" => object[m] # "none"
    BY <1>3 DEF MatchInv, ActiveStored
  <2>8. PrepareArchive(l)'
    BY <1>1, <1>2, <1>3, <1>4, <2>1, <2>3, <2>7 DEF PrepareArchive, At
  <2>9. PrepareInv(l)'
    BY <2>4, <2>5, <2>6, <2>8 DEF PrepareInv
  <2> QED
    BY <1>1, <1>2, <1>4, <2>1, <2>9, FileStep
<1> QED
  BY <1>5, <1>6 DEF HeadArchive

\* What an edit of one field leaves of a row, and of the others.
LEMMA SealEdit ==
  ASSUME JobsTyped, NEW m \in Matches, NEW v, SetJob(m, [job[m] EXCEPT !.seal = v])
  PROVE  /\ SameLease(m) /\ SameArchive(m) /\ job'[m].seal = v
         /\ \A n \in Matches \ {m} : job'[n] = job[n]
<1>1. PICK r \in JobRow : r = job[m]
  BY DEF JobsTyped
<1>2. PICK s : s = [r EXCEPT !.seal = v]
  OBVIOUS
<1>3. job'[m] = s /\ \A n \in Matches \ {m} : job'[n] = job[n]
  BY <1>1, <1>2 DEF SetJob, JobsTyped
<1>4. /\ s.status = r.status /\ s.phase = r.phase /\ s.lease = r.lease
      /\ s.key = r.key /\ s.archive = r.archive /\ s.seal = v
  BY <1>2 DEF JobRow
<1> QED
  BY <1>1, <1>3, <1>4 DEF SameLease, SameArchive

\* The same for the archive's status.
LEMMA ArchiveEdit ==
  ASSUME JobsTyped, NEW m \in Matches, NEW v, SetJob(m, [job[m] EXCEPT !.archive = v])
  PROVE  /\ SameLease(m) /\ SameSeal(m) /\ job'[m].key = job[m].key /\ job'[m].archive = v
         /\ \A n \in Matches \ {m} : job'[n] = job[n]
<1>1. PICK r \in JobRow : r = job[m]
  BY DEF JobsTyped
<1>2. PICK s : s = [r EXCEPT !.archive = v]
  OBVIOUS
<1>3. job'[m] = s /\ \A n \in Matches \ {m} : job'[n] = job[n]
  BY <1>1, <1>2 DEF SetJob, JobsTyped
<1>4. /\ s.status = r.status /\ s.phase = r.phase /\ s.lease = r.lease
      /\ s.key = r.key /\ s.archive = v /\ s.seal = r.seal
  BY <1>2 DEF JobRow
<1> QED
  BY <1>1, <1>3, <1>4 DEF SameLease, SameSeal

\* The archive's answer is recorded under the lease.
LEMMA MarkArchiveKeeps ==
  ASSUME TypeInv, ReplayInv, NEW l \in PrepareLanes, MarkArchive(l)
  PROVE  ReplayInv'
<1> DEFINE status == IF lane[l].archived THEN "active" ELSE "missing"
<1>1. At(l, "mark") /\ ~At(l, "idle") /\ Holds(l)
  BY DEF MarkArchive, UpdateJob, At
<1>2. PICK m \in Matches : m = lane[l].match
  BY <1>1, PrepareAtWork
<1>3. /\ l \in Lanes /\ LanesTyped /\ JobsTyped /\ MatchInv(m)
      /\ PrepareKeys(l) /\ PrepareStored(l) /\ PrepareSeal(l) /\ PrepareArchive(l)
  BY <1>1, <1>2, PrepareAtWork DEF TypeInv
<1>4. UNCHANGED <<arch, file, object, client, admin, spent>>
  BY DEF MarkArchive, foregroundOnly
<1>5. LaneAt(l, "verify")
  BY <1>3, LaneEnds DEF MarkArchive
<1>6. /\ SameLease(m) /\ SameSeal(m) /\ job'[m].key = job[m].key /\ job'[m].archive = status
      /\ \A n \in Matches \ {m} : job'[n] = job[n]
  BY <1>2, <1>3, ArchiveEdit DEF MarkArchive, UpdateJob
<1>7. Undisturbed' = Undisturbed /\ NothingDeleted' = NothingDeleted
  BY <1>4 DEF Undisturbed, NothingDeleted
<1>8. job[m].status = "processing" /\ ~Prepared(job[m])
  BY <1>1, <1>2, <1>3, WorkingRow DEF MatchInv
<1>9. job[m].key /\ (NothingDeleted /\ lane[l].archived => object[m] # "none")
  BY <1>1, <1>2, <1>3 DEF PrepareKeys, PrepareStored, At
<1>10. Undisturbed /\ NothingDeleted /\ ~lane[l].archived => job[m].archive # "active"
  BY <1>1, <1>2, <1>3 DEF PrepareArchive, At
<1>11. MatchInv(m)'
  <2>1. LeasePhase(m)' /\ SealWhole(m)' /\ ActiveStored(m)' /\ KeySealed(m)'
    BY <1>3, <1>4, <1>6, <1>7, <1>9
    DEF MatchInv, LeasePhase, SealWhole, ActiveStored, KeySealed, SameLease, SameSeal
  <2>2. DoneKept(m)'
    BY <1>3, <1>4, <1>6, <1>7, <1>8, <1>10
    DEF MatchInv, DoneKept, Prepared, SameLease, SameSeal
  <2> QED
    BY <2>1, <2>2 DEF MatchInv
<1>12. Kept(m)
  BY <1>4, <1>6, <1>7, <1>10 DEF Kept, SameSeal
<1>13. PrepareInv(l)'
  <2>1. PrepareKeys(l)' /\ PrepareHolds(l)' /\ PrepareStored(l)'
    BY <1>1, <1>2, <1>3, <1>5, <1>6
    DEF PrepareKeys, PrepareHolds, Holds, PrepareStored, SameLease, LaneAt, At
  <2>2. PrepareSeal(l)'
    BY <1>1, <1>2, <1>3, <1>5, <1>6, <1>7 DEF PrepareSeal, SameSeal, LaneAt, At, Fetching
  <2>3. PrepareArchive(l)'
    BY <1>2, <1>5, <1>6, <1>7 DEF PrepareArchive, LaneAt, At
  <2> QED
    BY <2>1, <2>2, <2>3 DEF PrepareInv
<1>14. Elsewhere(m) /\ Steady
  BY <1>4, <1>6, SpendsSteadily
  DEF Elsewhere, SameMatch, SameRow, SameLease, SameSeal, SameArchive, SameStores
<1> QED
  BY <1>1, <1>2, <1>4, <1>5, <1>11, <1>12, <1>13, <1>14, OwningStep DEF LaneAt

\* The seal of a lane's own row changes, in the table and in the lane: only where
\* there was none, and only to that of a whole file.
LEMMA SealingStep ==
  ASSUME TypeInv, ReplayInv, NEW l \in PrepareLanes, Holds(l),
         UNCHANGED <<arch, object, client, admin, spent>>,
         lane[l].step \notin {"idle", "read", "head", "mark", "fail"},
         NEW m \in Matches, m = lane[l].match, \A n \in Matches \ {m} : file'[n] = file[n],
         NEW v, SetJob(m, [job[m] EXCEPT !.seal = v]),
         NEW step, step \in {"finish", "handoff", "cooldown", "reserve", "write"},
         OnlyLane(l), lane'[l].step = step, lane'[l].match = m,
         lane'[l].row.seal = v, lane'[l].row.key = lane[l].row.key,
         lane'[l].archived = lane[l].archived,
         Undisturbed =>
           /\ job[m].seal = "none" /\ step # "finish"
           /\ v # "none" => v = "good" /\ file'[m] = "good"
           /\ file'[m] # "torn"
           /\ step = "write" => file'[m] \notin Contents
           /\ step \in Fetching => v = "none"
           /\ step = "handoff" => v = "good"
  PROVE  ReplayInv'
<1>1. /\ JobsTyped /\ MatchInv(m) /\ ~At(l, "idle")
      /\ PrepareKeys(l) /\ PrepareSeal(l) /\ PrepareArchive(l)
  BY PrepareAtWork DEF TypeInv, At
<1>2. /\ SameLease(m) /\ SameArchive(m) /\ job'[m].seal = v
      /\ \A n \in Matches \ {m} : job'[n] = job[n]
  BY <1>1, SealEdit
<1>3. Undisturbed' = Undisturbed /\ NothingDeleted' = NothingDeleted
  BY DEF Undisturbed, NothingDeleted
<1>4. job[m].status = "processing" /\ ~Prepared(job[m])
  BY <1>1, WorkingRow DEF MatchInv
<1>5. MatchInv(m)'
  <2>1. LeasePhase(m)' /\ SealWhole(m)' /\ ActiveStored(m)'
    BY <1>1, <1>2, <1>3
    DEF MatchInv, LeasePhase, SealWhole, ActiveStored, SameLease, SameArchive
  <2>2. DoneKept(m)' /\ KeySealed(m)'
    BY <1>1, <1>2, <1>3, <1>4
    DEF MatchInv, DoneKept, KeySealed, Prepared, SameLease, SameArchive
  <2> QED
    BY <2>1, <2>2 DEF MatchInv
<1>6. Kept(m)
  BY <1>2, <1>3 DEF Kept, SameArchive
<1>7. PrepareInv(l)'
  <2>1. PrepareKeys(l)' /\ PrepareHolds(l)' /\ PrepareStored(l)'
    BY <1>1, <1>2 DEF PrepareKeys, PrepareHolds, Holds, PrepareStored, SameLease, SameArchive, At
  <2>2. PrepareSeal(l)'
    BY <1>2, <1>3 DEF PrepareSeal, At, Fetching
  <2>3. PrepareArchive(l)'
    BY <1>1, <1>2, <1>3 DEF PrepareArchive, SameArchive, At
  <2> QED
    BY <2>1, <2>2, <2>3 DEF PrepareInv
<1>8. Elsewhere(m) /\ Steady
  BY <1>2, SpendsSteadily
  DEF Elsewhere, SameMatch, SameRow, SameLease, SameSeal, SameArchive, SameStores
<1> QED
  BY <1>1, <1>5, <1>6, <1>7, <1>8, OwningStep

\* What a lane becomes that takes over a new seal and goes on.
LEMMA SealLane ==
  ASSUME LanesTyped, NEW l \in Lanes, NEW v, NEW step,
         lane' = [lane EXCEPT ![l].row.seal = v, ![l].step = step]
  PROVE  /\ OnlyLane(l) /\ lane'[l].step = step /\ lane'[l].match = lane[l].match
         /\ lane'[l].row.seal = v /\ lane'[l].row.key = lane[l].row.key
         /\ lane'[l].archived = lane[l].archived
<1> DEFINE newRow == [lane[l].row EXCEPT !.seal = v]
           new == [lane[l] EXCEPT !.row = newRow, !.step = step]
<1>1. lane[l] \in LaneState
  BY DEF LanesTyped
<1>2. lane[l].row \in JobRow
  BY <1>1 DEF LaneState
<1>3. lane' = [lane EXCEPT ![l] = new]
  OBVIOUS
<1>4. newRow.seal = v /\ newRow.key = lane[l].row.key
  BY <1>2 DEF JobRow
<1> HIDE DEF newRow
<1>5. new.match = lane[l].match /\ new.row = newRow
  BY <1>1 DEF LaneState
<1>6. new.archived = lane[l].archived
  BY <1>1 DEF LaneState
<1>7. new.step = step
  BY <1>1 DEF LaneState
<1> HIDE DEF new
<1>8. OnlyLane(l) /\ lane'[l] = new
  BY <1>3, LaneBecomes
<1> QED
  BY <1>4, <1>5, <1>6, <1>7, <1>8

\* The broken file is unsealed, a new one opened, and a whole one sealed.
LEMMA SealsKeep ==
  ASSUME TypeInv, ReplayInv, NEW l \in PrepareLanes,
         DiscardSpool(l) \/ OpenTransfer(l) \/ Seal(l)
  PROVE  ReplayInv'
<1>1. lane[l].step \in {"discard", "open", "seal"} /\ ~At(l, "idle")
  BY DEF DiscardSpool, OpenTransfer, Seal, At
<1>2. PICK m \in Matches : m = lane[l].match
  BY <1>1, PrepareAtWork
<1>3. /\ l \in Lanes /\ LanesTyped /\ PrepareSeal(l) /\ MatchInv(m)
      /\ file \in [Matches -> Contents \cup Unfinished \cup {"absent"}]
  BY <1>1, <1>2, PrepareAtWork DEF TypeInv, StoresTyped
<1>4. UNCHANGED <<arch, object, client, admin, spent>>
  BY DEF DiscardSpool, OpenTransfer, Seal, foregroundOnly
<1>5. CASE DiscardSpool(l)
  <2>1. ~Undisturbed
    BY <1>3, <1>5 DEF DiscardSpool, PrepareSeal, At
  <2>2. Holds(l) /\ SetJob(m, [job[m] EXCEPT !.seal = "none"]) /\ file' = file
    BY <1>2, <1>5 DEF DiscardSpool, UpdateJob
  <2>3. PICK step \in {"finish", "handoff", "cooldown", "reserve"} :
          step = NextAfterVerify(l, FALSE)
    BY DEF NextAfterVerify
  <2>4. lane' = [lane EXCEPT ![l].row.seal = "none", ![l].step = step]
    BY <1>5, <2>3 DEF DiscardSpool
  <2>5. /\ OnlyLane(l) /\ lane'[l].step = step /\ lane'[l].match = m
        /\ lane'[l].row.seal = "none" /\ lane'[l].row.key = lane[l].row.key
        /\ lane'[l].archived = lane[l].archived
    BY <1>2, <1>3, <2>4, SealLane
  <2> QED
    BY <1>1, <1>2, <1>4, <2>1, <2>2, <2>5, SealingStep DEF At
<1>6. CASE OpenTransfer(l)
  <2>1. Undisturbed => job[m].seal = "none"
    BY <1>1, <1>2, <1>3 DEF PrepareSeal, Fetching, At, OpenTransfer, Seal, DiscardSpool
  <2>2. CASE LaneAt(l, "fail") /\ UNCHANGED <<job, file>>
    BY <1>1, <1>2, <1>4, <2>2, FileStep DEF LaneAt
  <2>3. CASE /\ UpdateJob(l, [job[m] EXCEPT !.seal = "none"])
             /\ \E part \in Unfinished : file' = [file EXCEPT ![m] = part]
             /\ Undisturbed => file' = [file EXCEPT ![m] = "partial"]
             /\ lane' = [lane EXCEPT ![l].row.seal = "none", ![l].step = "write"]
    <3>1. Holds(l) /\ SetJob(m, [job[m] EXCEPT !.seal = "none"])
      BY <1>2, <2>3 DEF UpdateJob
    <3>2. /\ \A n \in Matches \ {m} : file'[n] = file[n]
          /\ Undisturbed => file'[m] # "torn" /\ file'[m] \notin Contents
      BY <1>3, <2>3 DEF Contents
    <3>3. /\ OnlyLane(l) /\ lane'[l].step = "write" /\ lane'[l].match = m
          /\ lane'[l].row.seal = "none" /\ lane'[l].row.key = lane[l].row.key
          /\ lane'[l].archived = lane[l].archived
      BY <1>2, <1>3, <2>3, SealLane
    <3> QED
      BY <1>1, <1>2, <1>4, <2>1, <3>1, <3>2, <3>3, SealingStep DEF At
  <2>4. Undisturbed => ~Shared(l) /\ file[m] # "torn"
    BY <1>1, <1>3, NobodyShares DEF MatchInv, SealWhole
  <2> QED
    BY <1>2, <1>3, <1>6, <2>2, <2>3, <2>4, LaneEnds DEF OpenTransfer, Unfinished
<1>7. CASE Seal(l)
  <2>1. Undisturbed => job[m].seal = "none" /\ file[m] = "good" /\ file[m] # "torn"
    BY <1>2, <1>3, <1>7 DEF PrepareSeal, Fetching, At, Seal
  <2>2. file' = file
    BY <1>7 DEF Seal
  <2>3. CASE LaneAt(l, "fail") /\ UNCHANGED job
    BY <1>1, <1>2, <1>4, <2>2, <2>3, FileStep DEF LaneAt
  <2>4. CASE /\ UpdateJob(l, [job[m] EXCEPT !.seal = file[m]])
             /\ lane' = [lane EXCEPT ![l].row.seal = file[m], ![l].step = "handoff"]
    <3>1. Holds(l) /\ SetJob(m, [job[m] EXCEPT !.seal = file[m]])
      BY <1>2, <2>4 DEF UpdateJob
    <3>2. /\ OnlyLane(l) /\ lane'[l].step = "handoff" /\ lane'[l].match = m
          /\ lane'[l].row.seal = file[m] /\ lane'[l].row.key = lane[l].row.key
          /\ lane'[l].archived = lane[l].archived
      <4>1. PICK v : v = file[m]
        OBVIOUS
      <4>2. lane' = [lane EXCEPT ![l].row.seal = v, ![l].step = "handoff"]
        BY <2>4, <4>1
      <4>3. /\ OnlyLane(l) /\ lane'[l].step = "handoff" /\ lane'[l].match = lane[l].match
            /\ lane'[l].row.seal = v /\ lane'[l].row.key = lane[l].row.key
            /\ lane'[l].archived = lane[l].archived
        BY <1>3, <4>2, SealLane
      <4> QED
        BY <1>2, <4>1, <4>3
    <3> QED
      BY <1>1, <1>2, <1>4, <2>1, <2>2, <3>1, <3>2, SealingStep DEF Fetching, At
  <2> QED
    BY <1>2, <1>3, <1>7, <2>3, <2>4, LaneEnds DEF Seal
<1> QED
  BY <1>5, <1>6, <1>7

\* A check that meets the cooldown changes counters only.
LEMMA CooldownKeeps ==
  ASSUME TypeInv, ReplayInv, NEW l \in PrepareLanes, CheckCooldown(l), cooling
  PROVE  ReplayInv'
<1> DEFINE refunded(n) == IF n = 0 THEN 0 ELSE n - 1
<1>1. At(l, "cooldown") /\ ~At(l, "idle") /\ Holds(l)
  BY DEF CheckCooldown, At
<1>2. PICK m \in Matches : m = lane[l].match
  BY <1>1, PrepareAtWork
<1>3. l \in Lanes /\ LanesTyped /\ lane[l] \in LaneState /\ lane[l].row \in JobRow /\ MatchInv(m)
  BY <1>1, <1>2, PrepareAtWork DEF TypeInv
<1>4. UNCHANGED <<arch, file, object, client, admin, spent>>
  BY DEF CheckCooldown, foregroundOnly
<1>5. Steady
  BY <1>4, SpendsSteadily
<1>6. SameRow(m) /\ \A n \in Matches \ {m} : job'[n] = job[n]
  <2>1. PICK r \in JobRow : r = job[m]
    BY DEF TypeInv, JobsTyped
  <2>2. PICK s : s = [r EXCEPT !.attempts = refunded(@)]
    OBVIOUS
  <2>3. job' = [job EXCEPT ![m] = s]
    <3>1. job' = [job EXCEPT ![m] = [job[m] EXCEPT !.attempts = refunded(@)]]
      BY <1>2 DEF CheckCooldown, UpdateJob, SetJob
    <3> HIDE DEF refunded
    <3> QED
      BY <2>1, <2>2, <3>1
  <2>4. job'[m] = s /\ \A n \in Matches \ {m} : job'[n] = job[n]
    BY <2>3 DEF TypeInv, JobsTyped
  <2>5. /\ s.status = r.status /\ s.phase = r.phase /\ s.lease = r.lease
        /\ s.seal = r.seal /\ s.key = r.key /\ s.archive = r.archive
    <3> HIDE DEF refunded
    <3> QED
      BY <2>2 DEF JobRow
  <2> QED
    BY <2>1, <2>4, <2>5 DEF SameRow, SameLease, SameSeal, SameArchive
<1>7. /\ OnlyLane(l) /\ lane'[l].step = "fail" /\ lane'[l].match = m
      /\ lane'[l].row.key = lane[l].row.key /\ lane'[l].archived = lane[l].archived
  <2> DEFINE newRow == [lane[l].row EXCEPT !.attempts = refunded(@)]
             new == [lane[l] EXCEPT !.row = newRow, !.step = "fail", !.fault = "cooldown"]
  <2>1. lane' = [lane EXCEPT ![l] = new]
    BY DEF CheckCooldown
  <2>2. newRow.key = lane[l].row.key
    <3> HIDE DEF refunded
    <3> QED
      BY <1>3 DEF JobRow
  <2> HIDE DEF newRow
  <2>3. new.match = lane[l].match /\ new.row = newRow
    BY <1>3 DEF LaneState
  <2>4. new.archived = lane[l].archived /\ new.step = "fail"
    BY <1>3 DEF LaneState
  <2> HIDE DEF new
  <2>5. OnlyLane(l) /\ lane'[l] = new
    BY <1>3, <2>1, LaneBecomes
  <2> QED
    BY <1>2, <2>2, <2>3, <2>4, <2>5
<1>8. Elsewhere(m) /\ SameMatch(m)
  BY <1>4, <1>6 DEF Elsewhere, SameMatch, SameRow, SameLease, SameSeal, SameArchive, SameStores
<1>9. MatchInv(m)' /\ Kept(m)
  BY <1>3, <1>5, <1>8, SameMatchKeeps
<1>10. PrepareInv(l)'
  BY <1>1, <1>2, <1>5, <1>6, <1>7, <1>9, FailingLane DEF HoldsKept, Holds, SameRow, SameLease
<1> QED
  BY <1>1, <1>2, <1>4, <1>5, <1>7, <1>8, <1>9, <1>10, OwningStep

\* The backup task is written before the job ends, so no end forgets it.
LEMMA EnqueueArchiveKeeps ==
  ASSUME TypeInv, ReplayInv, NEW l \in PrepareLanes, EnqueueArchive(l)
  PROVE  ReplayInv'
<1>1. At(l, "handoff") /\ ~At(l, "idle")
  BY DEF EnqueueArchive, At
<1>2. PICK m \in Matches : m = lane[l].match
  BY <1>1, PrepareAtWork
<1>3. /\ l \in Lanes /\ LanesTyped /\ PrepareSeal(l) /\ MatchInv(m)
      /\ arch \in [Matches -> ArchRow]
  BY <1>1, <1>2, PrepareAtWork DEF TypeInv, BackupsTyped
<1>4. UNCHANGED <<job, file, object, client, admin, spent>>
  BY DEF EnqueueArchive
<1>5. LaneAt(l, "finish")
  BY <1>3, LaneEnds DEF EnqueueArchive
<1>6. /\ \A n \in Matches \ {m} : arch'[n] = arch[n]
      /\ arch'[m].status \in {arch[m].status, "pending"}
      /\ arch'[m].status = "none" => lane[l].archived
  BY <1>2, <1>3 DEF EnqueueArchive
<1>7. Undisturbed' = Undisturbed /\ NothingDeleted' = NothingDeleted
  BY <1>4 DEF Undisturbed, NothingDeleted
<1>8. MatchInv(m)'
  <2>1. LeasePhase(m)' /\ SealWhole(m)' /\ ActiveStored(m)' /\ KeySealed(m)'
    BY <1>3, <1>4, <1>7 DEF MatchInv, LeasePhase, SealWhole, ActiveStored, KeySealed
  <2>2. DoneKept(m)'
    BY <1>3, <1>4, <1>6, <1>7 DEF MatchInv, DoneKept, Prepared
  <2> QED
    BY <2>1, <2>2 DEF MatchInv
<1>9. Kept(m)
  BY <1>4, <1>6, <1>7 DEF Kept
<1>10. Undisturbed => lane[l].row.seal = "good"
  BY <1>1, <1>3 DEF PrepareSeal, At
<1>11. PrepareInv(l)'
  BY <1>1, <1>2, <1>4, <1>5, <1>6, <1>10, PrepareGoes
  DEF SameRow, SameLease, SameSeal, SameArchive, At, Fetching
<1>12. Elsewhere(m) /\ Steady
  BY <1>4, <1>6, SpendsSteadily
  DEF Elsewhere, SameMatch, SameRow, SameLease, SameSeal, SameArchive, SameStores
<1> QED
  BY <1>1, <1>2, <1>4, <1>5, <1>8, <1>9, <1>11, <1>12, OwningStep DEF LaneAt

\* Every step of a prepare lane.
LEMMA PrepareStepKeeps ==
  ASSUME TypeInv, ReplayInv, NEW l \in PrepareLanes, PrepareStep(l)
  PROVE  ReplayInv'
  BY ReadMatchKeeps, HeadArchiveKeeps, MarkArchiveKeeps, VerifySpoolKeeps, AskingKeeps,
     CooldownKeeps, TransferKeeps, SealsKeep, EnqueueArchiveKeeps DEF PrepareStep

-----------------------------------------------------------------------------
(* Jobs that change hands *)

\* A step that hands a job on, or takes it up, and touches neither its seal nor
\* its archive entry nor any file.  Nobody else has the job.
LEMMA HandingStep ==
  ASSUME TypeInv, ReplayInv, NEW l \in Foreground, OnlyLane(l),
         UNCHANGED <<arch, file, object, client, admin, spent>>,
         NEW m \in Matches, SameSeal(m), SameArchive(m),
         \A n \in Matches \ {m} : job'[n] = job[n],
         job[m].status = "processing" => job[m].lease = l,
         LeasePhase(m)', DoneKept(m)', KeySealed(m)',
         l \in PrepareLanes => PrepareInv(l)',
         l \in ParseLanes => ParseInv(l)'
  PROVE  ReplayInv'
<1>1. Steady /\ Undisturbed' = Undisturbed /\ NothingDeleted' = NothingDeleted
  BY SpendsSteadily DEF Undisturbed, NothingDeleted
<1>2. MatchInv(m)' /\ Kept(m) /\ Spared(m)
  <2>1. SealWhole(m)' /\ ActiveStored(m)'
    BY <1>1 DEF ReplayInv, MatchInv, SealWhole, ActiveStored, SameSeal, SameArchive
  <2>2. Kept(m) /\ Spared(m)
    BY DEF Kept, Spared, SameSeal, SameArchive
  <2> QED
    BY <2>1, <2>2 DEF MatchInv
<1>3. ASSUME NEW n \in Matches \ {m} PROVE MatchInv(n)' /\ Kept(n) /\ Spared(n)
  <2>1. SameMatch(n)
    BY DEF SameMatch, SameRow, SameLease, SameSeal, SameArchive, SameStores
  <2> QED
    BY <1>1, <2>1, SameMatchKeeps DEF ReplayInv
<1>4. ASSUME NEW k \in PrepareLanes \ {l}, ~At(k, "idle") PROVE HoldsKept(k)
  <2>1. lane'[k] = lane[k] /\ lane[k].match \in Matches
    BY <1>4 DEF OnlyLane, Lanes, Foreground, TypeInv, LanesTyped
  <2>2. Holds(k) => lane[k].match # m
    BY DEF Holds
  <2> QED
    BY <2>1, <2>2 DEF HoldsKept, Holds
<1>5. l \in Lanes /\ l \notin ArchiveLanes /\ ApiInv'
  BY LanesAssumption, <1>1 DEF Lanes, ReplayInv, ApiInv
<1> QED
  BY <1>1, <1>2, <1>3, <1>4, <1>5, SparingStep

\* What a claim leaves of the row and puts into the lane.
LEMMA JobTaken ==
  ASSUME TypeInv, NEW l \in Foreground, NEW m \in Matches, NEW phase, NEW attempts, NEW step,
         TakeJob(l, m, phase, attempts, step)
  PROVE  /\ OnlyLane(l) /\ UNCHANGED <<arch, file, object, client, admin, spent>>
         /\ SameSeal(m) /\ SameArchive(m) /\ \A n \in Matches \ {m} : job'[n] = job[n]
         /\ job[m].status = "pending"
         /\ job'[m].status = "processing" /\ job'[m].phase = phase /\ job'[m].lease = l
         /\ lane'[l].step = step /\ lane'[l].match = m
         /\ lane'[l].row = job'[m] /\ lane'[l].archived = FALSE
<1>1. PICK r \in JobRow : r = job[m]
  BY DEF TypeInv, JobsTyped
<1>2. PICK s : s = [r EXCEPT !.status = "processing", !.phase = phase,
                             !.attempts = attempts, !.lease = l]
  OBVIOUS
<1>3. PICK new : new = [Idle EXCEPT !.step = step, !.match = m, !.row = s]
  OBVIOUS
<1>4. /\ SetJob(m, s) /\ lane' = [lane EXCEPT ![l] = new] /\ r.status = "pending"
      /\ UNCHANGED <<arch, file, object, client, admin, spent>>
  BY <1>1, <1>2, <1>3 DEF TakeJob, foregroundOnly
<1>5. job'[m] = s /\ \A n \in Matches \ {m} : job'[n] = job[n]
  BY <1>4 DEF SetJob, TypeInv, JobsTyped
<1>6. /\ s.status = "processing" /\ s.phase = phase /\ s.lease = l
      /\ s.seal = r.seal /\ s.key = r.key /\ s.archive = r.archive
  BY <1>2 DEF JobRow
<1>7. new.step = step /\ new.match = m /\ new.row = s /\ new.archived = FALSE
  BY <1>3 DEF Idle
<1>8. OnlyLane(l) /\ lane'[l] = new
  BY <1>4, LaneBecomes DEF TypeInv, Lanes
<1> QED
  BY <1>1, <1>4, <1>5, <1>6, <1>7, <1>8 DEF SameSeal, SameArchive

\* A prepare lane takes a job whose replay is still to be prepared, or again.
LEMMA ClaimPrepareKeeps ==
  ASSUME TypeInv, ReplayInv, NEW l \in PrepareLanes, NEW m \in Matches, ClaimPrepare(l, m)
  PROVE  ReplayInv'
<1>1. l \in Foreground
  BY DEF Foreground
<1>2. PICK attempts : TakeJob(l, m, "working", attempts, "read")
  BY DEF ClaimPrepare
<1>3. /\ OnlyLane(l) /\ UNCHANGED <<arch, file, object, client, admin, spent>>
      /\ SameSeal(m) /\ SameArchive(m) /\ \A n \in Matches \ {m} : job'[n] = job[n]
      /\ job[m].status = "pending"
      /\ job'[m].status = "processing" /\ job'[m].phase = "working" /\ job'[m].lease = l
      /\ lane'[l].step = "read" /\ lane'[l].match = m
      /\ lane'[l].row = job'[m] /\ lane'[l].archived = FALSE
  BY <1>1, <1>2, JobTaken
<1>4. MatchInv(m) /\ Undisturbed' = Undisturbed /\ NothingDeleted' = NothingDeleted
  BY <1>3 DEF ReplayInv, Undisturbed, NothingDeleted
<1>5. LeasePhase(m)' /\ DoneKept(m)' /\ KeySealed(m)'
  BY <1>3, <1>4
  DEF MatchInv, LeasePhase, DoneKept, KeySealed, Prepared, SameSeal, SameArchive
<1>6. PrepareInv(l)'
  <2>1. PrepareKeys(l)' /\ PrepareHolds(l)' /\ PrepareStored(l)'
    BY <1>3 DEF PrepareKeys, PrepareHolds, Holds, PrepareStored, At
  <2>2. PrepareSeal(l)' /\ PrepareArchive(l)'
    BY <1>3 DEF PrepareSeal, PrepareArchive, Fetching, At
  <2> QED
    BY <2>1, <2>2 DEF PrepareInv
<1>7. l \notin ParseLanes
  BY LanesAssumption
<1> QED
  BY <1>1, <1>3, <1>5, <1>6, <1>7, HandingStep

\* A parse lane takes a job that is prepared.
LEMMA ClaimParseKeeps ==
  ASSUME TypeInv, ReplayInv, NEW l \in ParseLanes, NEW m \in Matches, ClaimParse(l, m)
  PROVE  ReplayInv'
<1>1. l \in Foreground /\ l \notin PrepareLanes
  BY LanesAssumption DEF Foreground
<1>2. job[m].phase = "awaiting_parse" /\ TakeJob(l, m, "parsing", job[m].attempts, "prepared")
  BY DEF ClaimParse
<1>3. PICK attempts : TakeJob(l, m, "parsing", attempts, "prepared")
  BY <1>2
<1>4. /\ OnlyLane(l) /\ UNCHANGED <<arch, file, object, client, admin, spent>>
      /\ SameSeal(m) /\ SameArchive(m) /\ \A n \in Matches \ {m} : job'[n] = job[n]
      /\ job[m].status = "pending"
      /\ job'[m].status = "processing" /\ job'[m].phase = "parsing" /\ job'[m].lease = l
      /\ lane'[l].step = "prepared" /\ lane'[l].match = m
      /\ lane'[l].row = job'[m] /\ lane'[l].archived = FALSE
  BY <1>1, <1>3, JobTaken
<1>5. MatchInv(m) /\ Undisturbed' = Undisturbed /\ NothingDeleted' = NothingDeleted
  BY <1>4 DEF ReplayInv, Undisturbed, NothingDeleted
<1>6. LeasePhase(m)' /\ DoneKept(m)' /\ KeySealed(m)'
  BY <1>2, <1>4, <1>5
  DEF MatchInv, LeasePhase, DoneKept, KeySealed, Prepared, SameSeal, SameArchive
<1>7. ParseInv(l)'
  BY <1>4, <1>5 DEF ParseInv, MatchInv, SealWhole, SameSeal
<1> QED
  BY <1>1, <1>4, <1>6, <1>7, HandingStep

\* What a lane's last statement does to its row.
LEMMA JobEnded ==
  ASSUME TypeInv, NEW m \in Matches, NEW status, NEW phase, NEW error,
         \/ SetJob(m, [job[m] EXCEPT !.status = status, !.lease = NoLane,
                                     !.phase = phase, !.error = error])
         \/ SetJob(m, [[job[m] EXCEPT !.error = error, !.lease = NoLane]
                         EXCEPT !.status = status, !.phase = phase])
  PROVE  /\ SameSeal(m) /\ SameArchive(m) /\ \A n \in Matches \ {m} : job'[n] = job[n]
         /\ job'[m].status = status /\ job'[m].phase = phase
<1>1. PICK r \in JobRow : r = job[m]
  BY DEF TypeInv, JobsTyped
<1>2. PICK s : s = [r EXCEPT !.status = status, !.lease = NoLane,
                             !.phase = phase, !.error = error]
  OBVIOUS
<1>3. s = [[r EXCEPT !.error = error, !.lease = NoLane] EXCEPT !.status = status, !.phase = phase]
  BY <1>2 DEF JobRow
<1>4. job'[m] = s /\ \A n \in Matches \ {m} : job'[n] = job[n]
  BY <1>1, <1>2, <1>3 DEF SetJob, TypeInv, JobsTyped
<1>5. /\ s.status = status /\ s.phase = phase
      /\ s.seal = r.seal /\ s.key = r.key /\ s.archive = r.archive
  BY <1>2 DEF JobRow
<1> QED
  BY <1>1, <1>4, <1>5 DEF SameSeal, SameArchive

\* The end of a task hands a prepared job to the parse, or completes it.
LEMMA FinishKeeps ==
  ASSUME TypeInv, ReplayInv, NEW l \in Foreground, Finish(l)
  PROVE  ReplayInv'
<1>1. At(l, "finish") /\ ~At(l, "idle") /\ Holds(l)
  BY DEF Finish, UpdateJob, At
<1>2. l \in Lanes /\ LanesTyped /\ lane[l].match \in Matches
  BY <1>1 DEF Lanes, TypeInv, LanesTyped
<1>3. PICK m \in Matches : m = lane[l].match
  BY <1>2
<1>4. job[m].status = "processing" /\ job[m].lease = l
  BY <1>1, <1>3 DEF Holds
<1>5. MatchInv(m)
  BY DEF ReplayInv
<1>6. UNCHANGED <<arch, file, object, client, admin, spent>>
  BY DEF Finish, foregroundOnly
<1>7. Undisturbed' = Undisturbed /\ NothingDeleted' = NothingDeleted
  BY <1>6 DEF Undisturbed, NothingDeleted
<1>8. OnlyLane(l) /\ lane'[l].step = "idle"
  BY <1>2, LaneEnds DEF Finish
<1>9. /\ SameSeal(m) /\ SameArchive(m) /\ \A n \in Matches \ {m} : job'[n] = job[n]
      /\ \/ job'[m].status = "pending" /\ job'[m].phase = "awaiting_parse"
         \/ job'[m].status = "completed" /\ job'[m].phase = "done"
  <2>1. PICK ended : ended = [job[m] EXCEPT !.error = "none", !.lease = NoLane]
    OBVIOUS
  <2>2. \/ SetJob(m, [ended EXCEPT !.status = "pending", !.phase = "awaiting_parse"])
        \/ SetJob(m, [ended EXCEPT !.status = "completed", !.phase = "done"])
    BY <1>3, <2>1 DEF Finish, UpdateJob
  <2>3. CASE SetJob(m, [ended EXCEPT !.status = "pending", !.phase = "awaiting_parse"])
    BY <2>1, <2>3, JobEnded
  <2>4. CASE SetJob(m, [ended EXCEPT !.status = "completed", !.phase = "done"])
    BY <2>1, <2>4, JobEnded
  <2> QED
    BY <2>2, <2>3, <2>4
<1>10. /\ Undisturbed /\ NothingDeleted =>
            /\ job[m].seal = "good" \/ job[m].archive = "active"
            /\ job[m].seal # "none" /\ job[m].archive = "missing" => arch[m].status # "none"
       /\ Undisturbed /\ Inherited = {} => job[m].seal = "good"
  <2>1. CASE l \in PrepareLanes
    <3>1. PrepareKeys(l) /\ PrepareSeal(l) /\ PrepareArchive(l)
      BY <1>1, <2>1, PrepareAtWork
    <3>2. Undisturbed => \/ lane[l].archived /\ job[m].key
                         \/ job[m].seal = "good"
      BY <1>1, <1>3, <3>1 DEF PrepareKeys, PrepareSeal, At
    <3>3. Undisturbed /\ NothingDeleted =>
            /\ lane[l].archived => job[m].archive = "active"
            /\ job[m].archive = "missing" => arch[m].status # "none"
      BY <1>1, <1>3, <3>1 DEF PrepareArchive, At
    <3> QED
      BY <1>5, <3>2, <3>3 DEF MatchInv, KeySealed
  <2>2. CASE l \in ParseLanes
    <3>1. ParseInv(l)
      BY <2>2 DEF ReplayInv
    <3>2. Undisturbed => job[m].seal = "good"
      BY <1>1, <1>3, <3>1 DEF ParseInv, At
    <3>3. Prepared(job[m])
      BY <1>4, <1>5, <2>2, LanesAssumption DEF MatchInv, LeasePhase, Prepared
    <3> QED
      BY <1>5, <3>2, <3>3 DEF MatchInv, DoneKept
  <2> QED
    BY <2>1, <2>2 DEF Foreground
<1>11. LeasePhase(m)' /\ DoneKept(m)' /\ KeySealed(m)'
  BY <1>5, <1>6, <1>7, <1>9, <1>10
  DEF MatchInv, LeasePhase, DoneKept, KeySealed, Prepared, SameSeal, SameArchive
<1> QED
  BY <1>4, <1>6, <1>8, <1>9, <1>11, AtRest, HandingStep

\* A failed job is queued again or given up: nothing is promised of its replay.
LEMMA FailKeeps ==
  ASSUME TypeInv, ReplayInv, NEW l \in Foreground, Fail(l)
  PROVE  ReplayInv'
<1>1. At(l, "fail") /\ ~At(l, "idle") /\ Holds(l)
  BY DEF Fail, UpdateJob, At
<1>2. l \in Lanes /\ LanesTyped /\ lane[l].match \in Matches
  BY <1>1 DEF Lanes, TypeInv, LanesTyped
<1>3. PICK m \in Matches : m = lane[l].match
  BY <1>2
<1>4. job[m].status = "processing" => job[m].lease = l
  BY <1>1, <1>3 DEF Holds
<1>5. MatchInv(m)
  BY DEF ReplayInv
<1>6. UNCHANGED <<arch, file, object, client, admin, spent>>
  BY DEF Fail, foregroundOnly
<1>7. Undisturbed' = Undisturbed /\ NothingDeleted' = NothingDeleted
  BY <1>6 DEF Undisturbed, NothingDeleted
<1>8. OnlyLane(l) /\ lane'[l].step = "idle"
  BY <1>2, LaneEnds DEF Fail
<1>9. /\ SameSeal(m) /\ SameArchive(m) /\ \A n \in Matches \ {m} : job'[n] = job[n]
      /\ job'[m].status \in {"pending", "failed"} /\ job'[m].phase \in {"done", "queued"}
  <2>1. PICK status \in {"pending", "failed"} :
          SetJob(m, [job[m] EXCEPT !.status = status, !.lease = NoLane,
                                   !.phase = IF status = "failed" THEN "done" ELSE "queued",
                                   !.error = ErrorOf(lane[l].fault)])
    BY <1>3 DEF Fail, UpdateJob, retryDecision
  <2>2. PICK phase \in {"done", "queued"} : phase = IF status = "failed" THEN "done" ELSE "queued"
    OBVIOUS
  <2>3. PICK error : error = ErrorOf(lane[l].fault)
    OBVIOUS
  <2>4. SetJob(m, [job[m] EXCEPT !.status = status, !.lease = NoLane,
                                 !.phase = phase, !.error = error])
    BY <2>1, <2>2, <2>3
  <2> QED
    BY <2>4, JobEnded
<1>10. LeasePhase(m)' /\ DoneKept(m)' /\ KeySealed(m)'
  BY <1>5, <1>6, <1>7, <1>9
  DEF MatchInv, LeasePhase, DoneKept, KeySealed, Prepared, SameSeal, SameArchive
<1> QED
  BY <1>4, <1>6, <1>8, <1>9, <1>10, AtRest, HandingStep

\* Steps that change nothing the invariant speaks of, except the lane's own place.
LEMMA PlaceStep ==
  ASSUME TypeInv, ReplayInv, NEW l \in Lanes, OnlyLane(l),
         UNCHANGED <<job, arch, file, object, client, admin, spent>>,
         l \in PrepareLanes => PrepareInv(l)',
         l \in ParseLanes => ParseInv(l)',
         l \in ArchiveLanes => BackupInv(l)'
  PROVE  ReplayInv'
<1>1. Steady /\ ApiInv'
  BY SpendsSteadily DEF ReplayInv, ApiInv, NothingDeleted
<1>2. ASSUME NEW n \in Matches PROVE MatchInv(n)' /\ Kept(n) /\ Spared(n)
  <2>1. SameMatch(n)
    BY DEF SameMatch, SameRow, SameLease, SameSeal, SameArchive, SameStores
  <2> QED
    BY <1>1, <2>1, SameMatchKeeps DEF ReplayInv
<1>3. ASSUME NEW k \in PrepareLanes \ {l} PROVE HoldsKept(k)
  BY DEF OnlyLane, Lanes, Foreground, HoldsKept, Holds
<1> QED
  BY <1>1, <1>2, <1>3, SparingStep

\* The parse lane checks the saved replay and hands it to the importer.
LEMMA ParseStepKeeps ==
  ASSUME TypeInv, ReplayInv, NEW l \in ParseLanes, ParseStep(l)
  PROVE  ReplayInv'
<1>1. /\ l \in Lanes /\ l \notin PrepareLanes /\ l \notin ArchiveLanes
      /\ LanesTyped /\ lane[l] \in LaneState /\ ParseInv(l)
  BY LanesAssumption DEF Lanes, Foreground, TypeInv, LanesTyped, ReplayInv
<1>2. lane[l].step \in {"prepared", "import"}
  BY DEF ParseStep, VerifyPrepared, Import, At
<1>3. UNCHANGED <<job, arch, file, object, client, admin, spent>>
  BY DEF ParseStep, VerifyPrepared, Import, foregroundOnly
<1>4. Undisturbed' = Undisturbed
  BY <1>3 DEF Undisturbed
<1>5. \/ LaneAt(l, "fail")
      \/ /\ Undisturbed => lane[l].row.seal # "none"
         /\ OnlyLane(l) /\ lane'[l].step \in {"import", "finish"}
         /\ lane'[l].match = lane[l].match /\ lane'[l].row = lane[l].row
  <2>1. lane' = [lane EXCEPT ![l].parsed = TRUE, ![l].step = "finish"] =>
          /\ OnlyLane(l) /\ lane'[l].step = "finish"
          /\ lane'[l].match = lane[l].match /\ lane'[l].row = lane[l].row
    <3> DEFINE new == [lane[l] EXCEPT !.parsed = TRUE, !.step = "finish"]
    <3>1. new.step = "finish" /\ new.match = lane[l].match /\ new.row = lane[l].row
      BY <1>1 DEF LaneState
    <3>2. SUFFICES ASSUME lane' = [lane EXCEPT ![l] = new]
                   PROVE  /\ OnlyLane(l) /\ lane'[l].step = "finish"
                          /\ lane'[l].match = lane[l].match /\ lane'[l].row = lane[l].row
      OBVIOUS
    <3> HIDE DEF new
    <3>3. OnlyLane(l) /\ lane'[l] = new
      BY <1>1, <3>2, LaneBecomes
    <3> QED
      BY <3>1, <3>3
  <2>2. CASE VerifyPrepared(l)
    BY <1>1, <2>1, <2>2, LaneEnds DEF VerifyPrepared, Matching, LaneAt
  <2>3. CASE Import(l)
    BY <1>1, <2>1, <2>3, LaneEnds DEF Import, ParseInv, At
  <2> QED
    BY <2>2, <2>3 DEF ParseStep
<1>6. ParseInv(l)'
  BY <1>1, <1>2, <1>3, <1>4, <1>5 DEF ParseInv, LaneAt
<1> QED
  BY <1>1, <1>3, <1>5, <1>6, PlaceStep DEF LaneAt

\* A lane without its lease stops; nothing was entrusted to it alone.
LEMMA LostLeaseKeeps ==
  ASSUME TypeInv, ReplayInv, NEW l \in Foreground, LeaseLost(l)
  PROVE  ReplayInv'
<1>1. l \in Lanes /\ LanesTyped
  BY DEF Lanes, TypeInv
<1>2. OnlyLane(l) /\ lane'[l].step = "idle"
  BY <1>1, LaneEnds DEF LeaseLost
<1>3. UNCHANGED <<job, arch, file, object, client, admin, spent>>
  BY DEF LeaseLost, foregroundOnly
<1> QED
  BY <1>1, <1>2, <1>3, AtRest, PlaceStep

-----------------------------------------------------------------------------
(* The archive lanes *)

\* A step of an archive lane, which works beside whoever has the job.
LEMMA BackupTurn ==
  ASSUME TypeInv, ReplayInv, NEW l \in ArchiveLanes, OnlyLane(l),
         UNCHANGED <<client, admin, spent>>, NEW m \in Matches, Elsewhere(m),
         SameLease(m), MatchInv(m)', Kept(m), Spared(m), BackupInv(l)'
  PROVE  ReplayInv'
<1>1. Steady /\ ApiInv'
  BY SpendsSteadily DEF ReplayInv, ApiInv, NothingDeleted
<1>2. \A n \in Matches \ {m} : MatchInv(n)' /\ Kept(n) /\ Spared(n)
  BY <1>1, SameMatchKeeps DEF Elsewhere, ReplayInv
<1>3. l \in Lanes /\ l \notin PrepareLanes /\ l \notin ParseLanes
  BY LanesAssumption DEF Lanes, Foreground
<1>4. ASSUME NEW k \in PrepareLanes \ {l}, ~At(k, "idle") PROVE HoldsKept(k)
  <2>1. lane'[k] = lane[k] /\ lane[k].match \in Matches
    BY <1>4 DEF OnlyLane, Lanes, Foreground, TypeInv, LanesTyped
  <2>2. SameLease(lane[k].match)
    BY <2>1 DEF Elsewhere, SameMatch, SameRow
  <2> QED
    BY <2>1, <2>2 DEF HoldsKept, Holds, SameLease
<1> QED
  BY <1>1, <1>2, <1>3, <1>4, SparingStep

\* A step that changes the status of a backup task only.
LEMMA TaskStep ==
  ASSUME TypeInv, ReplayInv, NEW l \in ArchiveLanes, OnlyLane(l),
         UNCHANGED <<job, file, object, client, admin, spent>>, NEW m \in Matches,
         \A n \in Matches \ {m} : arch'[n] = arch[n],
         arch'[m].status # "none",
         Undisturbed /\ NothingDeleted /\ arch'[m].status = "completed" => job[m].archive = "active",
         BackupInv(l)'
  PROVE  ReplayInv'
<1>1. Undisturbed' = Undisturbed /\ NothingDeleted' = NothingDeleted /\ MatchInv(m)
  BY DEF Undisturbed, NothingDeleted, ReplayInv
<1>2. Elsewhere(m) /\ SameLease(m)
  BY DEF Elsewhere, SameMatch, SameRow, SameLease, SameSeal, SameArchive, SameStores
<1>3. LeasePhase(m)' /\ SealWhole(m)' /\ ActiveStored(m)' /\ KeySealed(m)'
  BY <1>1 DEF MatchInv, LeasePhase, SealWhole, ActiveStored, KeySealed
<1>4. DoneKept(m)'
  BY <1>1 DEF MatchInv, DoneKept, Prepared
<1>5. Kept(m) /\ Spared(m)
  BY DEF Kept, Spared
<1> QED
  BY <1>2, <1>3, <1>4, <1>5, BackupTurn DEF MatchInv

\* What a statement on the backup's row leaves in it.
LEMMA TaskEdit ==
  ASSUME BackupsTyped, NEW m \in Matches, NEW status, NEW lease,
         SetArch(m, [arch[m] EXCEPT !.status = status, !.lease = lease])
  PROVE  arch'[m].status = status /\ \A n \in Matches \ {m} : arch'[n] = arch[n]
<1>1. PICK r \in ArchRow : r = arch[m]
  BY DEF BackupsTyped
<1>2. PICK s : s = [r EXCEPT !.status = status, !.lease = lease]
  OBVIOUS
<1>3. arch'[m] = s /\ \A n \in Matches \ {m} : arch'[n] = arch[n]
  BY <1>1, <1>2 DEF SetArch, BackupsTyped
<1>4. s.status = status
  BY <1>2 DEF ArchRow
<1> QED
  BY <1>3, <1>4

\* An archive lane takes a task.
LEMMA ClaimArchiveKeeps ==
  ASSUME TypeInv, ReplayInv, NEW l \in ArchiveLanes, NEW m \in Matches, ClaimArchive(l, m)
  PROVE  ReplayInv'
<1>1. l \in Lanes /\ LanesTyped /\ BackupsTyped
  BY DEF Lanes, TypeInv
<1>2. PICK new : new = [Idle EXCEPT !.step = "backup", !.match = m, !.tries = arch[m].attempts + 1]
  OBVIOUS
<1>3. PICK row : row = [status |-> "processing", attempts |-> arch[m].attempts + 1, lease |-> l]
  OBVIOUS
<1>4. /\ SetArch(m, row) /\ lane' = [lane EXCEPT ![l] = new]
      /\ UNCHANGED <<job, file, object, client, admin, spent>>
  BY <1>2, <1>3 DEF ClaimArchive, backupOnly
<1>5. row.status = "processing" /\ new.step = "backup"
  BY <1>2, <1>3 DEF Idle
<1>6. OnlyLane(l) /\ lane'[l].step = "backup"
  BY <1>1, <1>4, <1>5, LaneBecomes
<1>7. arch'[m].status = "processing" /\ \A n \in Matches \ {m} : arch'[n] = arch[n]
  BY <1>1, <1>4, <1>5 DEF SetArch, BackupsTyped
<1>8. BackupInv(l)'
  BY <1>6 DEF BackupInv, At
<1> QED
  BY <1>4, <1>6, <1>7, <1>8, TaskStep

\* What holds of an archive lane at work.
LEMMA BackupAtWork ==
  ASSUME TypeInv, ReplayInv, NEW l \in ArchiveLanes, ~At(l, "idle")
  PROVE  /\ l \in Lanes /\ l \notin PrepareLanes /\ l \notin ParseLanes
         /\ LanesTyped /\ lane[l] \in LaneState /\ lane[l].match \in Matches
         /\ BackupInv(l)
  BY LanesAssumption DEF Lanes, Foreground, TypeInv, LanesTyped, ReplayInv

\* The steps that only look: the checkpoint is read, the store is asked.
LEMMA LookingKeeps ==
  ASSUME TypeInv, ReplayInv, NEW l \in ArchiveLanes,
         ReadCheckpoint(l) \/ HeadUploaded(l) \/ VerifyUpload(l) \/ ArchiveLeaseLost(l)
  PROVE  ReplayInv'
<1>1. lane[l].step \in {"backup", "look", "confirm", "settle", "stop"} /\ ~At(l, "idle")
  BY DEF ReadCheckpoint, HeadUploaded, VerifyUpload, ArchiveLeaseLost, At
<1>2. /\ l \in Lanes /\ l \notin PrepareLanes /\ l \notin ParseLanes
      /\ LanesTyped /\ lane[l] \in LaneState /\ BackupInv(l)
  BY <1>1, BackupAtWork
<1>3. PICK m \in Matches : m = lane[l].match
  BY <1>1, BackupAtWork
<1>4. UNCHANGED <<job, arch, file, object, client, admin, spent>>
  BY DEF ReadCheckpoint, HeadUploaded, VerifyUpload, ArchiveLeaseLost, backupOnly
<1>5. Undisturbed' = Undisturbed /\ NothingDeleted' = NothingDeleted /\ MatchInv(m)
  BY <1>4 DEF Undisturbed, NothingDeleted, ReplayInv
<1>6. LaneAt(l, "stop") => BackupInv(l)'
  BY DEF LaneAt, BackupInv, At
<1>7. OnlyLane(l) /\ BackupInv(l)'
  <2>1. CASE ReadCheckpoint(l)
    <3>1. CASE Stop(l, "fatal")
      BY <1>2, <1>6, <3>1, LaneEnds DEF LaneAt
    <3>2. CASE /\ Matching(m, job[m].seal)
               /\ lane' = [lane EXCEPT ![l].row = job[m],
                                       ![l].step = IF job[m].key THEN "look" ELSE "upload"]
      <4>1. PICK row : row = job[m]
        OBVIOUS
      <4>2. PICK step \in {"look", "upload"} : step = IF job[m].key THEN "look" ELSE "upload"
        OBVIOUS
      <4>3. PICK new : new = [lane[l] EXCEPT !.row = row, !.step = step]
        OBVIOUS
      <4>4. lane' = [lane EXCEPT ![l] = new]
        BY <3>2, <4>1, <4>2, <4>3
      <4>5. new.row = row /\ new.step = step /\ new.match = lane[l].match
        BY <1>2, <4>3 DEF LaneState
      <4>6. OnlyLane(l) /\ lane'[l] = new
        BY <1>2, <4>4, LaneBecomes
      <4>7. row.seal # "none" /\ (Undisturbed => job[m].seal = "good" /\ row.seal = "good")
        BY <1>5, <3>2, <4>1 DEF Matching, MatchInv, SealWhole
      <4> QED
        BY <1>3, <1>4, <1>5, <4>5, <4>6, <4>7 DEF BackupInv, At
    <3> QED
      BY <1>3, <2>1, <3>1, <3>2 DEF ReadCheckpoint
  <2>2. CASE HeadUploaded(l)
    <3>1. LaneAt(l, "stop") \/ LaneAt(l, "upload") \/ (LaneAt(l, "activate") /\ object[m] # "none")
      BY <1>2, <1>3, <2>2, LaneEnds DEF HeadUploaded, BackupInv
    <3> QED
      BY <1>2, <1>3, <1>4, <1>5, <1>6, <2>2, <3>1 DEF HeadUploaded, BackupInv, LaneAt, At
  <2>3. CASE VerifyUpload(l)
    <3>1. LaneAt(l, "stop") \/ (LaneAt(l, "activate") /\ object[m] # "none")
      BY <1>2, <1>3, <2>3, LaneEnds DEF VerifyUpload
    <3> QED
      BY <1>2, <1>3, <1>4, <1>5, <1>6, <2>3, <3>1 DEF VerifyUpload, BackupInv, LaneAt, At
  <2>4. CASE ArchiveLeaseLost(l)
    BY <1>2, <2>4, LaneEnds, AtRest DEF ArchiveLeaseLost
  <2> QED
    BY <2>1, <2>2, <2>3, <2>4
<1> QED
  BY <1>2, <1>4, <1>7, PlaceStep

\* The upload puts the file under the key; a sealed file is whole.
LEMMA UploadKeeps ==
  ASSUME TypeInv, ReplayInv, NEW l \in ArchiveLanes, Upload(l)
  PROVE  ReplayInv'
<1>1. At(l, "upload") /\ ~At(l, "idle")
  BY DEF Upload, At
<1>2. /\ l \in Lanes /\ l \notin PrepareLanes /\ l \notin ParseLanes
      /\ LanesTyped /\ BackupInv(l)
  BY <1>1, BackupAtWork
<1>3. PICK m \in Matches : m = lane[l].match
  BY <1>1, BackupAtWork
<1>4. UNCHANGED <<job, arch, file, client, admin, spent>>
  BY DEF Upload, backupOnly
<1>5. Undisturbed' = Undisturbed /\ NothingDeleted' = NothingDeleted /\ MatchInv(m)
  BY <1>4 DEF Undisturbed, NothingDeleted, ReplayInv
<1>6. CASE Stop(l, "network") /\ UNCHANGED object
  BY <1>2, <1>4, <1>6, LaneEnds, PlaceStep DEF LaneAt, BackupInv, At
<1>7. CASE /\ object' = [object EXCEPT ![m] = IF file[m] = "good" THEN "good" ELSE "bad"]
           /\ Goto(l, "record")
  <2>1. LaneAt(l, "record")
    BY <1>2, <1>7, LaneEnds
  <2>2. /\ object'[m] \in {"good", "bad"} /\ (file[m] = "good" => object'[m] = "good")
        /\ \A n \in Matches \ {m} : object'[n] = object[n]
    BY <1>7 DEF TypeInv, StoresTyped
  <2>3. Undisturbed => lane[l].row.seal = "good" /\ job[m].seal = "good" /\ file[m] = "good"
    BY <1>1, <1>2, <1>3, <1>5 DEF BackupInv, MatchInv, SealWhole, At
  <2>4. LeasePhase(m)' /\ ActiveStored(m)' /\ DoneKept(m)' /\ KeySealed(m)'
    BY <1>4, <1>5, <2>2 DEF MatchInv, LeasePhase, ActiveStored, DoneKept, KeySealed, Prepared
  <2>5. SealWhole(m)'
    BY <1>4, <1>5, <2>2, <2>3 DEF MatchInv, SealWhole
  <2>6. Kept(m) /\ Spared(m) /\ SameLease(m)
    BY <1>4, <2>2 DEF Kept, Spared, SameLease
  <2>7. Elsewhere(m)
    BY <1>4, <2>2 DEF Elsewhere, SameMatch, SameRow, SameLease, SameSeal, SameArchive, SameStores
  <2>8. BackupInv(l)'
    BY <1>3, <1>4, <1>5, <2>1, <2>2, <2>3 DEF BackupInv, LaneAt, At
  <2>9. MatchInv(m)' /\ OnlyLane(l)
    BY <2>1, <2>4, <2>5 DEF MatchInv, LaneAt
  <2> QED
    BY <1>4, <2>6, <2>7, <2>8, <2>9, BackupTurn
<1> QED
  BY <1>3, <1>6, <1>7 DEF Upload

\* The key and the status are recorded for the checkpoint that was stored.
LEMMA RecordingKeeps ==
  ASSUME TypeInv, ReplayInv, NEW l \in ArchiveLanes, RecordKey(l) \/ Activate(l)
  PROVE  ReplayInv'
<1>1. lane[l].step \in {"record", "activate"} /\ ~At(l, "idle")
  BY DEF RecordKey, Activate, At
<1>2. /\ l \in Lanes /\ l \notin PrepareLanes /\ l \notin ParseLanes
      /\ LanesTyped /\ BackupInv(l)
  BY <1>1, BackupAtWork
<1>3. PICK m \in Matches : m = lane[l].match
  BY <1>1, BackupAtWork
<1>4. UNCHANGED <<arch, object, file, client, admin, spent>>
  BY DEF RecordKey, Activate, backupOnly
<1>5. Undisturbed' = Undisturbed /\ NothingDeleted' = NothingDeleted /\ MatchInv(m)
  BY <1>4 DEF Undisturbed, NothingDeleted, ReplayInv
<1>6. /\ LaneAt(l, "confirm") \/ LaneAt(l, "settle")
      /\ LaneAt(l, "settle") => Activate(l)
  BY <1>2, LaneEnds DEF RecordKey, Activate, LaneAt
<1>7. /\ Undisturbed => lane[l].row.seal = "good" /\ job[m].seal = "good"
      /\ NothingDeleted => object[m] # "none"
  BY <1>1, <1>2, <1>3 DEF BackupInv
<1>8. /\ SameLease(m) /\ SameSeal(m) /\ \A n \in Matches \ {m} : job'[n] = job[n]
      /\ \/ SameArchive(m)
         \/ job'[m].key = TRUE /\ job'[m].archive \in {job[m].archive, "active"}
      /\ Undisturbed /\ Activate(l) => job'[m].archive = "active"
  <2>1. CASE job' = job
    <3>1. SameLease(m) /\ SameSeal(m) /\ SameArchive(m)
      BY <2>1 DEF SameLease, SameSeal, SameArchive
    <3>2. Undisturbed /\ Activate(l) => job'[m].archive = "active"
      <4>1. SUFFICES ASSUME Undisturbed, Activate(l) PROVE job'[m].archive = "active"
        OBVIOUS
      <4>2. job' = [job EXCEPT ![m].key = TRUE, ![m].archive = "active"]
        BY <1>3, <1>7, <4>1 DEF Activate, SameCheckpoint
      <4>3. PICK r \in JobRow : r = job[m]
        BY DEF TypeInv, JobsTyped
      <4>4. PICK s : s = [r EXCEPT !.key = TRUE, !.archive = "active"]
        OBVIOUS
      <4>5. job'[m] = s
        BY <4>2, <4>3, <4>4 DEF TypeInv, JobsTyped
      <4>6. s.archive = "active"
        BY <4>4 DEF JobRow
      <4> QED
        BY <4>5, <4>6
    <3> QED
      BY <2>1, <3>1, <3>2
  <2>2. CASE job' # job
    <3>1. PICK status : /\ job' = [job EXCEPT ![m].key = TRUE, ![m].archive = status]
                        /\ status = IF At(l, "activate") THEN "active" ELSE job[m].archive
      <4>1. CASE Activate(l)
        BY <1>3, <2>2, <4>1 DEF Activate
      <4>2. CASE RecordKey(l)
        <5>1. PICK r \in JobRow : r = job[m]
          BY DEF TypeInv, JobsTyped
        <5>2. [r EXCEPT !.key = TRUE] = [r EXCEPT !.key = TRUE, !.archive = r.archive]
          BY DEF JobRow
        <5>3. job' = [job EXCEPT ![m] = [r EXCEPT !.key = TRUE]]
          BY <1>3, <2>2, <4>2, <5>1 DEF RecordKey
        <5>4. job' = [job EXCEPT ![m].key = TRUE, ![m].archive = job[m].archive]
          BY <5>1, <5>2, <5>3
        <5> QED
          BY <4>2, <5>4 DEF RecordKey, At
      <4> QED
        BY <4>1, <4>2
    <3>2. PICK r \in JobRow : r = job[m]
      BY DEF TypeInv, JobsTyped
    <3>3. PICK s : s = [r EXCEPT !.key = TRUE, !.archive = status]
      OBVIOUS
    <3>4. job'[m] = s /\ \A n \in Matches \ {m} : job'[n] = job[n]
      BY <3>1, <3>2, <3>3 DEF TypeInv, JobsTyped
    <3>5. /\ s.status = r.status /\ s.phase = r.phase /\ s.lease = r.lease
          /\ s.seal = r.seal /\ s.key = TRUE /\ s.archive = status
      BY <3>3 DEF JobRow
    <3>6. Activate(l) => At(l, "activate")
      BY DEF Activate
    <3> QED
      BY <3>1, <3>2, <3>4, <3>5, <3>6 DEF SameLease, SameSeal
  <2> QED
    BY <2>1, <2>2
<1>9. MatchInv(m)'
  <2>1. LeasePhase(m)' /\ SealWhole(m)'
    BY <1>4, <1>5, <1>8 DEF MatchInv, LeasePhase, SealWhole, SameLease, SameSeal
  <2>2. ActiveStored(m)' /\ KeySealed(m)'
    BY <1>4, <1>5, <1>7, <1>8
    DEF MatchInv, ActiveStored, KeySealed, SameLease, SameSeal, SameArchive
  <2>3. DoneKept(m)'
    BY <1>4, <1>5, <1>8 DEF MatchInv, DoneKept, Prepared, SameLease, SameSeal, SameArchive
  <2> QED
    BY <2>1, <2>2, <2>3 DEF MatchInv
<1>10. Kept(m) /\ Spared(m)
  BY <1>4, <1>5, <1>7, <1>8 DEF Kept, Spared, SameSeal, SameArchive
<1>11. Elsewhere(m)
  BY <1>4, <1>8 DEF Elsewhere, SameMatch, SameRow, SameLease, SameSeal, SameArchive, SameStores
<1>12. BackupInv(l)'
  BY <1>3, <1>4, <1>5, <1>6, <1>7, <1>8 DEF BackupInv, LaneAt, SameSeal, At
<1> QED
  BY <1>4, <1>6, <1>8, <1>9, <1>10, <1>11, <1>12, BackupTurn DEF LaneAt

\* The end of a task.
LEMMA TaskEnds ==
  ASSUME TypeInv, ReplayInv, NEW l \in ArchiveLanes, ArchiveDone(l) \/ ArchiveFail(l)
  PROVE  ReplayInv'
<1>1. lane[l].step \in {"settle", "stop"} /\ ~At(l, "idle")
  BY DEF ArchiveDone, ArchiveFail, At
<1>2. l \in Lanes /\ LanesTyped /\ BackupsTyped /\ BackupInv(l)
  BY <1>1, BackupAtWork DEF TypeInv
<1>3. PICK m \in Matches : m = lane[l].match
  BY <1>1, BackupAtWork
<1>4. UNCHANGED <<job, file, object, client, admin, spent>>
  BY DEF ArchiveDone, ArchiveFail, backupOnly
<1>5. OnlyLane(l) /\ lane'[l].step = "idle"
  BY <1>2, LaneEnds DEF ArchiveDone, ArchiveFail
<1>6. PICK status \in {"completed", "failed", "pending"} :
        /\ SetArch(m, [arch[m] EXCEPT !.status = status, !.lease = NoLane])
        /\ status = "completed" => At(l, "settle")
  BY <1>3 DEF ArchiveDone, ArchiveFail, UpdateArch
<1>7. arch'[m].status = status /\ \A n \in Matches \ {m} : arch'[n] = arch[n]
  BY <1>2, <1>6, TaskEdit
<1>8. Undisturbed /\ NothingDeleted /\ status = "completed" => job[m].archive = "active"
  BY <1>2, <1>3, <1>6 DEF BackupInv
<1> QED
  BY <1>4, <1>5, <1>7, <1>8, AtRest, TaskStep

-----------------------------------------------------------------------------
(* Recovery, the API and the environment *)

\* A step of no lane on at most one match; whoever has its job keeps it.
LEMMA OutsideTurn ==
  ASSUME TypeInv, ReplayInv, Steady, UNCHANGED lane, ApiInv', NEW m \in Matches, Elsewhere(m),
         UNCHANGED client \/ (\A c \in Clients : client'[c] = client[c] \/ ClientInv(c)'),
         MatchInv(m)', Kept(m), Spared(m),
         spent'["stalls"] = 0 /\ job[m].status = "processing"
           => SameLease(m) \/ lane[job[m].lease].match # m
  PROVE  ReplayInv'
<1>1. \A n \in Matches \ {m} : MatchInv(n)' /\ Kept(n) /\ Spared(n)
  BY SameMatchKeeps DEF Elsewhere, ReplayInv
<1>2. ASSUME NEW k \in PrepareLanes, ~At(k, "idle") PROVE HoldsKept(k)
  <2>1. lane[k].match \in Matches
    BY <1>2 DEF Lanes, Foreground, TypeInv, LanesTyped
  <2>2. CASE lane[k].match = m
    BY <2>2 DEF HoldsKept, Holds, SameLease
  <2>3. CASE lane[k].match # m
    BY <2>1, <2>3 DEF HoldsKept, Holds, Elsewhere, SameMatch, SameRow, SameLease
  <2> QED
    BY <2>2, <2>3
<1> QED
  BY <1>1, <1>2, OutsideStep

\* Steps that touch nothing the invariant speaks of.
LEMMA NothingTouched ==
  ASSUME TypeInv, ReplayInv, Steady, UNCHANGED lane, ApiInv', \A n \in Matches : SameMatch(n),
         UNCHANGED client \/ (\A c \in Clients : client'[c] = client[c] \/ ClientInv(c)')
  PROVE  ReplayInv'
<1>1. ASSUME NEW n \in Matches PROVE MatchInv(n)' /\ Kept(n) /\ Spared(n)
  BY SameMatchKeeps DEF ReplayInv
<1>2. ASSUME NEW k \in PrepareLanes, ~At(k, "idle") PROVE HoldsKept(k)
  <2>1. lane[k].match \in Matches
    BY <1>2 DEF Lanes, Foreground, TypeInv, LanesTyped
  <2> QED
    BY <2>1 DEF HoldsKept, Holds, SameMatch, SameRow, SameLease
<1> QED
  BY <1>1, <1>2, OutsideStep

\* A recovered job waits again for the parse only with a sealed replay, and for
\* an abandoned lease nobody is at work.
LEMMA RecoverJobKeeps ==
  ASSUME TypeInv, ReplayInv, NEW m \in Matches, RecoverJob(m)
  PROVE  ReplayInv'
<1>1. UNCHANGED <<arch, file, object, lane, client, admin>> /\ job[m].status = "processing"
  BY DEF RecoverJob, recoveryOnly
<1>2. Steady
  BY SpendsSteadily DEF RecoverJob, Budgets
<1>3. spent'["stalls"] = 0 => lane[job[m].lease].match # m
  <2>1. CASE Spend("stalls", MaxStalls)
    <3>1. spent["stalls"] \in Nat /\ spent'["stalls"] = spent["stalls"] + 1
      BY <2>1 DEF Spend, TypeInv, SwitchesTyped, Budgets
    <3> QED
      BY <3>1
  <2> QED
    BY <2>1 DEF RecoverJob, Abandoned
<1>4. ApiInv'
  BY <1>1, <1>2 DEF ReplayInv, ApiInv, Steady
<1>5. /\ SameSeal(m) /\ SameArchive(m) /\ \A n \in Matches \ {m} : job'[n] = job[n]
      /\ job'[m].status = "pending" /\ job'[m].phase = PhaseAfterLease(job[m])
  <2>1. PICK r \in JobRow : r = job[m]
    BY DEF TypeInv, JobsTyped
  <2>2. PICK phase : phase = PhaseAfterLease(job[m])
    OBVIOUS
  <2>3. PICK s : s = [r EXCEPT !.status = "pending", !.lease = NoLane, !.error = "other",
                               !.phase = phase]
    OBVIOUS
  <2>4. SetJob(m, s)
    BY <2>1, <2>2, <2>3 DEF RecoverJob
  <2>5. job'[m] = s /\ \A n \in Matches \ {m} : job'[n] = job[n]
    BY <2>4 DEF SetJob, TypeInv, JobsTyped
  <2>6. /\ s.status = "pending" /\ s.phase = phase
        /\ s.seal = r.seal /\ s.key = r.key /\ s.archive = r.archive
    BY <2>3 DEF JobRow
  <2> QED
    BY <2>1, <2>2, <2>5, <2>6 DEF SameSeal, SameArchive
<1>6. MatchInv(m)
  BY DEF ReplayInv
<1>7. job'[m].phase = "queued" \/ (job'[m].phase = "awaiting_parse" /\ job[m].phase = "parsing"
                                   /\ job[m].seal # "none")
  BY <1>5 DEF PhaseAfterLease
<1>8. MatchInv(m)'
  <2>1. LeasePhase(m)' /\ SealWhole(m)' /\ ActiveStored(m)'
    BY <1>1, <1>2, <1>5, <1>6
    DEF MatchInv, LeasePhase, SealWhole, ActiveStored, SameSeal, SameArchive, Steady
  <2>2. DoneKept(m)'
    BY <1>1, <1>2, <1>5, <1>6, <1>7
    DEF MatchInv, DoneKept, Prepared, SameSeal, SameArchive, Steady
  <2>3. KeySealed(m)'
    BY <1>1, <1>2, <1>5, <1>6, <1>7
    DEF MatchInv, SealWhole, KeySealed, SameSeal, SameArchive, Steady
  <2> QED
    BY <2>1, <2>2, <2>3 DEF MatchInv
<1>9. Kept(m) /\ Spared(m) /\ Elsewhere(m)
  BY <1>1, <1>5
  DEF Kept, Spared, Elsewhere, SameMatch, SameRow, SameLease, SameSeal, SameArchive, SameStores
<1> QED
  BY <1>1, <1>2, <1>3, <1>4, <1>8, <1>9, OutsideTurn

\* A recovered or expired backup task is still a task; an expired request has
\* promised nothing.
LEMMA OtherRecoveryKeeps ==
  ASSUME TypeInv, ReplayInv, NEW m \in Matches,
         RecoverArchive(m) \/ ExpireRequest(m) \/ ExpireArchive(m)
  PROVE  ReplayInv'
<1>1. UNCHANGED <<file, object, lane, client, admin>>
  BY DEF RecoverArchive, ExpireRequest, ExpireArchive, recoveryOnly
<1>2. Steady
  BY SpendsSteadily DEF RecoverArchive, ExpireRequest, ExpireArchive, Budgets
<1>3. ApiInv'
  BY <1>1, <1>2 DEF ReplayInv, ApiInv, Steady
<1>4. /\ SameSeal(m) /\ SameArchive(m)
      /\ \A n \in Matches \ {m} : job'[n] = job[n] /\ arch'[n] = arch[n]
      /\ SameLease(m) \/ (job[m].status = "pending" /\ job'[m].status = "failed"
                          /\ job'[m].phase = "done")
      /\ arch'[m].status \in {arch[m].status, "pending", "failed"}
  <2>1. CASE RecoverArchive(m) \/ ExpireArchive(m)
    <3>1. UNCHANGED job
      BY <2>1 DEF RecoverArchive, ExpireArchive
    <3>2. PICK status \in {"pending", "failed"} :
            SetArch(m, [arch[m] EXCEPT !.status = status, !.lease = NoLane])
      BY <2>1 DEF RecoverArchive, ExpireArchive
    <3>3. arch'[m].status = status /\ \A n \in Matches \ {m} : arch'[n] = arch[n]
      BY <3>2, TaskEdit DEF TypeInv
    <3> QED
      BY <3>1, <3>3 DEF SameSeal, SameArchive, SameLease
  <2>2. CASE ExpireRequest(m)
    <3>1. PICK r \in JobRow : r = job[m]
      BY DEF TypeInv, JobsTyped
    <3>2. PICK error : error = IF r.error = "metadata" THEN r.error ELSE "other"
      OBVIOUS
    <3>3. PICK s : s = [r EXCEPT !.status = "failed", !.phase = "done", !.error = error]
      OBVIOUS
    <3>4. SetJob(m, s) /\ r.status = "pending" /\ UNCHANGED arch
      BY <2>2, <3>1, <3>2, <3>3 DEF ExpireRequest
    <3>5. job'[m] = s /\ \A n \in Matches \ {m} : job'[n] = job[n]
      BY <3>4 DEF SetJob, TypeInv, JobsTyped
    <3>6. /\ s.status = "failed" /\ s.phase = "done"
          /\ s.seal = r.seal /\ s.key = r.key /\ s.archive = r.archive
      BY <3>3 DEF JobRow
    <3> QED
      BY <3>1, <3>4, <3>5, <3>6 DEF SameSeal, SameArchive
  <2> QED
    BY <2>1, <2>2
<1>5. MatchInv(m)
  BY DEF ReplayInv
<1>6. MatchInv(m)'
  <2>1. LeasePhase(m)' /\ SealWhole(m)' /\ ActiveStored(m)'
    BY <1>1, <1>2, <1>4, <1>5
    DEF MatchInv, LeasePhase, SealWhole, ActiveStored, SameLease, SameSeal, SameArchive, Steady
  <2>2. DoneKept(m)'
    BY <1>1, <1>2, <1>4, <1>5
    DEF MatchInv, DoneKept, Prepared, SameLease, SameSeal, SameArchive, Steady
  <2>3. KeySealed(m)'
    BY <1>1, <1>2, <1>4, <1>5
    DEF MatchInv, KeySealed, SameLease, SameSeal, SameArchive, Steady
  <2> QED
    BY <2>1, <2>2, <2>3 DEF MatchInv
<1>7. Kept(m) /\ Spared(m) /\ Elsewhere(m)
  BY <1>1, <1>4
  DEF Kept, Spared, Elsewhere, SameMatch, SameRow, SameLease, SameSeal, SameArchive, SameStores
<1> QED
  BY <1>1, <1>2, <1>3, <1>4, <1>6, <1>7, OutsideTurn

\* A client that reads, asks the store or gives up changes no match.
LEMMA AskingClientKeeps ==
  ASSUME TypeInv, ReplayInv, NEW c \in Clients,
         \/ RequestHead(c)
         \/ \E m \in Matches, i \in Intents, aged \in BOOLEAN : RequestRead(c, m, i, aged)
  PROVE  ReplayInv'
<1>1. UNCHANGED <<job, arch, file, object, lane, admin>>
  BY DEF RequestHead, RequestRead, apiOnly
<1>2. Steady
  BY SpendsSteadily DEF RequestHead, RequestRead, Budgets
<1>3. /\ client \in [Clients -> ClientState] /\ client[c] \in ClientState
      /\ client[c].step = "idle" \/ client[c].match \in Matches
  BY DEF TypeInv, ClientsTyped
<1>4. \A d \in Clients \ {c} : client'[d] = client[d]
  BY <1>3 DEF RequestHead, RequestRead, Rest
<1>5. /\ client'[c].step \notin {"open", "hash", "unseal"}
      /\ NothingDeleted => client'[c].step # "missing"
  <2>1. CASE RequestHead(c)
    <3>1. PICK m \in Matches : m = client[c].match
      BY <1>3, <2>1 DEF RequestHead
    <3>2. NothingDeleted /\ Listed(m) => object[m] # "none"
      BY DEF ReplayInv, MatchInv, ActiveStored, Listed
    <3>3. ASSUME NEW step \in {"upsert", "missing"}, client' = [client EXCEPT ![c].step = step]
          PROVE  client'[c].step = step
      <4>1. PICK new : new = [client[c] EXCEPT !.step = step]
        OBVIOUS
      <4>2. new.step = step
        BY <1>3, <4>1 DEF ClientState
      <4> QED
        BY <1>3, <3>3, <4>1, <4>2
    <3>4. Rest(c) => client'[c].step = "idle"
      BY <1>3 DEF Rest, Resting
    <3> QED
      BY <2>1, <3>1, <3>2, <3>3, <3>4 DEF RequestHead
  <2>2. ASSUME NEW m \in Matches, NEW i \in Intents, NEW aged \in BOOLEAN,
               RequestRead(c, m, i, aged)
        PROVE  client'[c].step \in {"head", "upsert"}
    <3>1. PICK step \in {"head", "upsert"} : \E fresh :
            client' = [client EXCEPT ![c] = [Resting EXCEPT
              !.step = step, !.match = m, !.intent = i, !.fresh = fresh]]
      BY <2>2 DEF RequestRead
    <3>2. PICK fresh :
            client' = [client EXCEPT ![c] = [Resting EXCEPT
              !.step = step, !.match = m, !.intent = i, !.fresh = fresh]]
      BY <3>1
    <3>3. PICK new : new = [Resting EXCEPT !.step = step, !.match = m, !.intent = i, !.fresh = fresh]
      OBVIOUS
    <3>4. new.step = step
      BY <3>3 DEF Resting
    <3> QED
      BY <1>3, <3>2, <3>3, <3>4
  <2> QED
    BY <2>1, <2>2
<1>6. ApiInv'
  BY <1>1, <1>2, <1>4, <1>5 DEF ReplayInv, ApiInv, Steady
<1>7. \A n \in Matches : SameMatch(n)
  BY <1>1 DEF SameMatch, SameRow, SameLease, SameSeal, SameArchive, SameStores
<1> QED
  BY <1>1, <1>2, <1>4, <1>5, <1>6, <1>7, NothingTouched DEF ClientInv

\* What the upsert of a request leaves of a row.
LEMMA UpsertLeaves ==
  ASSUME TypeInv, NEW m \in Matches, NEW intent,
         job' = [job EXCEPT ![m] = UpsertRow(@, intent)]
  PROVE  /\ SameSeal(m) /\ SameArchive(m) /\ \A n \in Matches \ {m} : job'[n] = job[n]
         /\ job[m].status = "processing" => SameLease(m)
         /\ job[m].status # "processing" =>
              job'[m].status = "pending" /\ job'[m].phase = "queued"
<1>1. PICK r \in JobRow : r = job[m]
  BY DEF TypeInv, JobsTyped
<1>2. PICK s : s = UpsertRow(r, intent)
  OBVIOUS
<1>3. job'[m] = s /\ \A n \in Matches \ {m} : job'[n] = job[n]
  BY <1>1, <1>2 DEF TypeInv, JobsTyped
<1>4. PICK newIntent, newAttempts, newLate :
        s = [r EXCEPT !.intent = newIntent,
                      !.status = IF r.status = "processing" THEN r.status ELSE "pending",
                      !.phase = IF r.status = "processing" THEN r.phase ELSE "queued",
                      !.attempts = newAttempts, !.late = newLate,
                      !.lease = IF r.status = "processing" THEN r.lease ELSE NoLane,
                      !.error = "none"]
  BY <1>2 DEF UpsertRow
<1>5. /\ s.seal = r.seal /\ s.key = r.key /\ s.archive = r.archive
      /\ r.status = "processing" =>
           s.status = r.status /\ s.phase = r.phase /\ s.lease = r.lease
      /\ r.status # "processing" => s.status = "pending" /\ s.phase = "queued"
  BY <1>4 DEF JobRow
<1> QED
  BY <1>1, <1>3, <1>5 DEF SameSeal, SameArchive, SameLease

\* A request opens a row that promises no replay yet, and leaves a running job
\* with its lane.
LEMMA RequestUpsertKeeps ==
  ASSUME TypeInv, ReplayInv, NEW c \in Clients, RequestUpsert(c)
  PROVE  ReplayInv'
<1>1. /\ UNCHANGED <<arch, file, object, lane, admin, spent>> /\ client[c].step = "upsert"
      /\ client' = [client EXCEPT ![c] = Resting]
  BY DEF RequestUpsert, apiOnly, Rest
<1>2. Steady /\ Undisturbed' = Undisturbed /\ NothingDeleted' = NothingDeleted
  BY <1>1, SpendsSteadily DEF Undisturbed, NothingDeleted
<1>3. PICK m \in Matches : m = client[c].match
  BY <1>1 DEF TypeInv, ClientsTyped
<1>4. ApiInv' /\ \A d \in Clients : client'[d] = client[d] \/ ClientInv(d)'
  <2>1. \A d \in Clients : client'[d] = client[d] \/ client'[d].step = "idle"
    BY <1>1 DEF TypeInv, ClientsTyped, Resting
  <2> QED
    BY <1>1, <1>2, <2>1 DEF ReplayInv, ApiInv, ClientInv
<1>5. CASE job' = job
  <2>1. \A n \in Matches : SameMatch(n)
    BY <1>1, <1>5 DEF SameMatch, SameRow, SameLease, SameSeal, SameArchive, SameStores
  <2> QED
    BY <1>1, <1>2, <1>4, <2>1, NothingTouched
<1>6. CASE job' = [job EXCEPT ![m] = UpsertRow(@, client[c].intent)]
  <2>1. PICK intent : intent = client[c].intent
    OBVIOUS
  <2>2. /\ SameSeal(m) /\ SameArchive(m) /\ \A n \in Matches \ {m} : job'[n] = job[n]
        /\ job[m].status = "processing" => SameLease(m)
        /\ job[m].status # "processing" =>
             job'[m].status = "pending" /\ job'[m].phase = "queued"
    BY <1>6, <2>1, UpsertLeaves
  <2>3. MatchInv(m)
    BY DEF ReplayInv
  <2>4. MatchInv(m)'
    <3>1. LeasePhase(m)' /\ SealWhole(m)' /\ ActiveStored(m)'
      BY <1>1, <1>2, <2>2, <2>3
      DEF MatchInv, LeasePhase, SealWhole, ActiveStored, SameLease, SameSeal, SameArchive
    <3>2. DoneKept(m)'
      BY <1>1, <1>2, <2>2, <2>3
      DEF MatchInv, DoneKept, Prepared, SameLease, SameSeal, SameArchive
    <3>3. KeySealed(m)'
      BY <1>1, <1>2, <2>2, <2>3
      DEF MatchInv, KeySealed, SameLease, SameSeal, SameArchive
    <3> QED
      BY <3>1, <3>2, <3>3 DEF MatchInv
  <2>5. Kept(m) /\ Spared(m) /\ Elsewhere(m)
    BY <1>1, <2>2
    DEF Kept, Spared, Elsewhere, SameMatch, SameRow, SameLease, SameSeal, SameArchive, SameStores
  <2> QED
    BY <1>1, <1>2, <1>4, <2>2, <2>4, <2>5, OutsideTurn
<1> QED
  BY <1>3, <1>5, <1>6 DEF RequestUpsert

\* The archive's status is taken back where the store no longer has the file,
\* which only a deletion brings about.
LEMMA StatusWithdrawn ==
  ASSUME TypeInv, ReplayInv, UNCHANGED <<arch, file, lane, spent>>, ~NothingDeleted,
         \A c \in Clients : client'[c] = client[c] \/ ClientInv(c)',
         \A n \in Matches : /\ SameLease(n) /\ SameSeal(n) /\ job'[n].key = job[n].key
                            /\ object'[n] \in {object[n], "none"}
  PROVE  ReplayInv'
<1>1. Steady /\ Undisturbed' = Undisturbed /\ ~NothingDeleted' /\ ApiInv'
  BY SpendsSteadily DEF Undisturbed, NothingDeleted, ApiInv
<1>2. ASSUME NEW n \in Matches PROVE MatchInv(n)' /\ Kept(n) /\ Spared(n)
  <2>1. MatchInv(n)
    BY DEF ReplayInv
  <2>2. LeasePhase(n)' /\ ActiveStored(n)' /\ DoneKept(n)'
    BY <1>1, <2>1 DEF MatchInv, LeasePhase, ActiveStored, DoneKept, SameLease
  <2>3. SealWhole(n)' /\ KeySealed(n)'
    BY <1>1, <2>1 DEF MatchInv, SealWhole, KeySealed, SameLease, SameSeal
  <2>4. Kept(n) /\ Spared(n)
    BY <1>1 DEF Kept, Spared, SameSeal
  <2> QED
    BY <2>2, <2>3, <2>4 DEF MatchInv
<1>3. ASSUME NEW k \in PrepareLanes, ~At(k, "idle") PROVE HoldsKept(k)
  <2>1. lane[k].match \in Matches
    BY <1>3 DEF Lanes, Foreground, TypeInv, LanesTyped
  <2> QED
    BY <2>1 DEF HoldsKept, Holds, SameLease
<1> QED
  BY <1>1, <1>2, <1>3, OutsideStep

\* A client finds the file missing, or the administrator deletes it, alone or
\* with the rest of its folder.
LEMMA WithdrawalKeeps ==
  ASSUME TypeInv, ReplayInv,
         \/ \E c \in Clients : RequestMarkMissing(c)
         \/ AdminDelete \/ AdminMark \/ AdminSweep
  PROVE  ReplayInv'
<1>1. UNCHANGED <<arch, file, lane, spent>>
  BY DEF RequestMarkMissing, AdminDelete, AdminMark, AdminSweep, apiOnly
<1>2. ~NothingDeleted
  BY DEF ReplayInv, ApiInv, RequestMarkMissing, AdminDelete, AdminMark, AdminSweep
<1>3. /\ \A n \in Matches : SameLease(n) /\ SameSeal(n) /\ job'[n].key = job[n].key
      /\ \A n \in Matches : object'[n] \in {object[n], "none"}
  <2>1. ASSUME NEW m \in Matches, NEW status, SetJob(m, [job[m] EXCEPT !.archive = status])
        PROVE  \A n \in Matches : SameLease(n) /\ SameSeal(n) /\ job'[n].key = job[n].key
    <3>1. /\ SameLease(m) /\ SameSeal(m) /\ job'[m].key = job[m].key
          /\ \A n \in Matches \ {m} : job'[n] = job[n]
      BY <2>1, ArchiveEdit DEF TypeInv
    <3> QED
      BY <3>1 DEF SameLease, SameSeal
  <2>2. job' = job => \A n \in Matches : SameLease(n) /\ SameSeal(n) /\ job'[n].key = job[n].key
    BY DEF SameLease, SameSeal
  <2>3. ASSUME NEW c \in Clients, RequestMarkMissing(c)
        PROVE  \A n \in Matches : SameLease(n) /\ SameSeal(n) /\ job'[n].key = job[n].key
    <3>1. PICK m \in Matches : m = client[c].match
      BY <2>3 DEF RequestMarkMissing, TypeInv, ClientsTyped
    <3>2. job' = job \/ SetJob(m, [job[m] EXCEPT !.archive = "missing"])
      BY <2>3, <3>1 DEF RequestMarkMissing, SetJob
    <3> QED
      BY <2>1, <2>2, <3>2
  <2>4. CASE AdminMark
    <3>1. PICK m \in Matches : m = admin.match
      BY <2>4 DEF AdminMark, TypeInv, AdminTyped
    <3>2. job' = job \/ SetJob(m, [job[m] EXCEPT !.archive = "deleted"])
      BY <2>4, <3>1 DEF AdminMark, SetJob
    <3> QED
      BY <2>1, <2>2, <2>4, <3>2 DEF AdminMark
  <2>5. CASE AdminSweep
    <3>1. ASSUME NEW n \in Matches PROVE SameLease(n) /\ SameSeal(n) /\ job'[n].key = job[n].key
      <4>1. PICK r \in JobRow : r = job[n]
        BY DEF TypeInv, JobsTyped
      <4>2. PICK s : s = [r EXCEPT !.archive = "deleted"]
        OBVIOUS
      <4>3. /\ s.status = r.status /\ s.phase = r.phase /\ s.lease = r.lease
            /\ s.seal = r.seal /\ s.key = r.key
        BY <4>2 DEF JobRow
      <4>4. job'[n] = r \/ job'[n] = s
        BY <2>5, <4>1, <4>2 DEF AdminSweep
      <4> QED
        BY <4>1, <4>3, <4>4 DEF SameLease, SameSeal
    <3> QED
      BY <2>5, <3>1 DEF AdminSweep
  <2>6. CASE AdminDelete
    <3>1. job' = job /\ \A n \in Matches : object'[n] \in {object[n], "none"}
      BY <2>6 DEF AdminDelete, TypeInv, StoresTyped
    <3> QED
      BY <2>2, <3>1
  <2>7. (\E c \in Clients : RequestMarkMissing(c)) => object' = object
    BY DEF RequestMarkMissing
  <2> QED
    BY <2>3, <2>4, <2>5, <2>6, <2>7
<1>4. ASSUME NEW c \in Clients PROVE client'[c] = client[c] \/ ClientInv(c)'
  <2>1. CASE UNCHANGED client
    BY <2>1
  <2>2. ASSUME NEW d \in Clients, RequestMarkMissing(d) PROVE client'[c] = client[c] \/ ClientInv(c)'
    <3>1. PICK new : /\ client' = [client EXCEPT ![d] = new]
                     /\ new = Resting \/ new = [client[d] EXCEPT !.step = "upsert"]
      BY <2>2 DEF RequestMarkMissing, Rest
    <3>2. new.step \in {"idle", "upsert"}
      BY <3>1 DEF Resting, TypeInv, ClientsTyped, ClientState
    <3> QED
      BY <3>1, <3>2 DEF ClientInv, TypeInv, ClientsTyped
  <2> QED
    BY <2>1, <2>2 DEF AdminDelete, AdminMark, AdminSweep
<1> QED
  BY <1>1, <1>2, <1>3, <1>4, StatusWithdrawn

\* The administrator's first click is the deletion that is counted.
LEMMA AdminOpensKeeps ==
  ASSUME TypeInv, ReplayInv,
         \/ \E m \in Matches : AdminCheck(m)
         \/ \E folder \in SUBSET Matches \ {{}} : AdminList(folder)
  PROVE  ReplayInv'
<1>1. UNCHANGED <<job, arch, file, object, lane, client>>
  BY DEF AdminCheck, AdminList, apiOnly
<1>2. Steady
  BY SpendsSteadily DEF AdminCheck, AdminList, Budgets
<1>3. ~NothingDeleted'
  <2>1. CASE Spend("deletes", MaxDeletes)
    <3>1. spent["deletes"] \in Nat /\ spent'["deletes"] = spent["deletes"] + 1
      BY <2>1 DEF Spend, TypeInv, SwitchesTyped, Budgets
    <3> QED
      BY <3>1 DEF NothingDeleted
  <2>2. CASE admin.step = "list" /\ UNCHANGED spent
    BY <2>2 DEF ReplayInv, ApiInv, NothingDeleted
  <2> QED
    BY <2>1, <2>2 DEF AdminCheck, AdminList
<1>4. ApiInv'
  BY <1>3 DEF ApiInv
<1>5. \A n \in Matches : SameMatch(n)
  BY <1>1 DEF SameMatch, SameRow, SameLease, SameSeal, SameArchive, SameStores
<1> QED
  BY <1>1, <1>2, <1>4, <1>5, NothingTouched

\* Where the request ends early, what it has done stays.
LEMMA AdminFailsKeeps ==
  ASSUME TypeInv, ReplayInv, AdminFails
  PROVE  ReplayInv'
<1>1. UNCHANGED <<job, arch, file, object, lane, client, spent>> /\ admin'.step = "idle"
  BY DEF AdminFails, apiOnly, NoDeletion
<1>2. Steady /\ ApiInv'
  BY <1>1, SpendsSteadily DEF ReplayInv, ApiInv, NothingDeleted
<1>3. \A n \in Matches : SameMatch(n)
  BY <1>1 DEF SameMatch, SameRow, SameLease, SameSeal, SameArchive, SameStores
<1> QED
  BY <1>1, <1>2, <1>3, NothingTouched

\* What a client becomes that goes on to another step of a delivery.
LEMMA ClientBecomes ==
  ASSUME ClientsTyped, NEW c \in Clients, NEW new, client' = [client EXCEPT ![c] = new]
  PROVE  client'[c] = new /\ \A d \in Clients \ {c} : client'[d] = client[d]
  BY DEF ClientsTyped

\* A sealed replay is opened whole, its digest is the recorded one.
LEMMA ServingKeeps ==
  ASSUME TypeInv, ReplayInv, NEW c \in Clients,
         (\E m \in Matches : ServeRow(c, m)) \/ ServeOpen(c) \/ ServeHash(c)
  PROVE  ReplayInv'
<1>1. UNCHANGED <<job, arch, file, object, lane, admin>>
  BY DEF ServeRow, ServeOpen, ServeHash, apiOnly
<1>2. Steady
  BY SpendsSteadily DEF ServeRow, ServeOpen, ServeHash, Budgets
<1>3. /\ ClientsTyped /\ client[c] \in ClientState /\ ClientInv(c)
      /\ client[c].step = "idle" \/ client[c].match \in Matches
  BY DEF TypeInv, ClientsTyped, ReplayInv
<1> DEFINE Served(new) ==
             /\ new.step # "missing"
             /\ Undisturbed /\ new.step \in {"open", "hash", "unseal"} =>
                  /\ new.step # "unseal"
                  /\ new.seal = "good" /\ job[new.match].seal = "good"
                  /\ new.step = "hash" => new.opened = "good"
<1>4. PICK new : client' = [client EXCEPT ![c] = new] /\ Served(new)
  <2>1. ASSUME NEW m \in Matches, ServeRow(c, m)
        PROVE  \E new : client' = [client EXCEPT ![c] = new] /\ Served(new)
    <3>1. PICK new : new = [Resting EXCEPT !.step = "open", !.match = m, !.seal = job[m].seal]
      OBVIOUS
    <3>2. new.step = "open" /\ new.match = m /\ new.seal = job[m].seal
      BY <3>1 DEF Resting
    <3>3. Undisturbed => job[m].seal = "good"
      BY <2>1 DEF ServeRow, ReplayInv, MatchInv, SealWhole
    <3>4. client' = [client EXCEPT ![c] = new]
      BY <2>1, <3>1 DEF ServeRow
    <3> QED
      BY <3>2, <3>3, <3>4
  <2>2. ASSUME ServeOpen(c)
        PROVE  \E new : client' = [client EXCEPT ![c] = new] /\ Served(new)
    <3>1. PICK m \in Matches : m = client[c].match
      BY <1>3, <2>2 DEF ServeOpen
    <3>2. Undisturbed => client[c].seal = "good" /\ job[m].seal = "good" /\ file[m] = "good"
      BY <1>3, <2>2, <3>1 DEF ServeOpen, ClientInv, ReplayInv, MatchInv, SealWhole
    <3>3. CASE file[m] \in Contents
      <4>1. PICK new : new = [client[c] EXCEPT !.step = "hash", !.opened = file[m]]
        OBVIOUS
      <4>2. new.step = "hash" /\ new.match = m /\ new.seal = client[c].seal
            /\ new.opened = file[m]
        BY <1>3, <3>1, <4>1 DEF ClientState
      <4>3. client' = [client EXCEPT ![c] = new]
        BY <2>2, <3>1, <3>3, <4>1 DEF ServeOpen
      <4> QED
        BY <3>2, <4>2, <4>3
    <3>4. CASE file[m] \notin Contents
      <4>1. PICK new : new = AskArchive(c)
        OBVIOUS
      <4>2. new.step = "head"
        BY <1>3, <4>1 DEF AskArchive, ClientState
      <4>3. client' = [client EXCEPT ![c] = new]
        BY <2>2, <3>1, <3>4, <4>1 DEF ServeOpen
      <4> QED
        BY <4>2, <4>3
    <3> QED
      BY <3>3, <3>4
  <2>3. ASSUME ServeHash(c)
        PROVE  \E new : client' = [client EXCEPT ![c] = new] /\ Served(new)
    <3>1. PICK m \in Matches : m = client[c].match
      BY <1>3, <2>3 DEF ServeHash
    <3>2. Undisturbed => client[c].seal = "good" /\ client[c].opened = "good" /\ file[m] = "good"
      BY <1>3, <2>3, <3>1 DEF ServeHash, ClientInv, ReplayInv, MatchInv, SealWhole
    <3>3. PICK digest \in {client[c].opened, file[m]} :
            client' = [client EXCEPT ![c] = IF digest = client[c].seal THEN Resting
                                            ELSE [client[c] EXCEPT !.step = "unseal"]]
      BY <2>3, <3>1 DEF ServeHash
    <3>4. CASE digest = client[c].seal
      <4>1. client' = [client EXCEPT ![c] = Resting] /\ Resting.step = "idle"
        BY <3>3, <3>4 DEF Resting
      <4> QED
        BY <4>1
    <3>5. CASE digest # client[c].seal
      <4>1. PICK new : new = [client[c] EXCEPT !.step = "unseal"]
        OBVIOUS
      <4>2. new.step = "unseal"
        BY <1>3, <4>1 DEF ClientState
      <4> QED
        BY <3>2, <3>3, <3>5, <4>1, <4>2
    <3> QED
      BY <3>4, <3>5
  <2> QED
    BY <2>1, <2>2, <2>3
<1>5. client'[c] = new /\ \A d \in Clients \ {c} : client'[d] = client[d]
  BY <1>3, <1>4, ClientBecomes
<1>6. ClientInv(c)'
  BY <1>1, <1>2, <1>4, <1>5 DEF ClientInv, Steady
<1>7. ApiInv'
  BY <1>1, <1>2, <1>4, <1>5 DEF ReplayInv, ApiInv, Steady
<1>8. \A n \in Matches : SameMatch(n)
  BY <1>1 DEF SameMatch, SameRow, SameLease, SameSeal, SameArchive, SameStores
<1> QED
  BY <1>1, <1>2, <1>5, <1>6, <1>7, <1>8, NothingTouched

\* A file found broken while it is served has been disturbed.
LEMMA UnsealKeeps ==
  ASSUME TypeInv, ReplayInv, NEW c \in Clients, ServeUnseal(c)
  PROVE  ReplayInv'
<1>1. UNCHANGED <<arch, file, object, lane, admin, spent>> /\ client[c].step = "unseal"
  BY DEF ServeUnseal, apiOnly
<1>2. Steady /\ Undisturbed' = Undisturbed /\ NothingDeleted' = NothingDeleted
  BY <1>1, SpendsSteadily DEF Undisturbed, NothingDeleted
<1>3. PICK m \in Matches : m = client[c].match
  BY <1>1 DEF TypeInv, ClientsTyped
<1>4. MatchInv(m) /\ ~Undisturbed
  BY <1>1 DEF ReplayInv, ClientInv
<1>5. /\ SameLease(m) /\ SameArchive(m) /\ \A n \in Matches \ {m} : job'[n] = job[n]
  <2>1. CASE job' = job
    BY <2>1 DEF SameLease, SameArchive
  <2>2. CASE SetJob(m, [job[m] EXCEPT !.seal = "none"])
    BY <2>2, SealEdit DEF TypeInv
  <2> QED
    BY <1>3, <2>1, <2>2 DEF ServeUnseal, SetJob
<1>6. MatchInv(m)'
  BY <1>1, <1>2, <1>4, <1>5
  DEF MatchInv, LeasePhase, SealWhole, ActiveStored, DoneKept, KeySealed, SameLease, SameArchive
<1>7. Kept(m) /\ Spared(m) /\ Elsewhere(m)
  BY <1>1, <1>2, <1>4, <1>5
  DEF Kept, Spared, Elsewhere, SameMatch, SameRow, SameLease, SameSeal, SameArchive, SameStores
<1>8. /\ \A d \in Clients \ {c} : client'[d] = client[d]
      /\ client'[c].step = "head"
  <2>1. PICK new : new = AskArchive(c) /\ client' = [client EXCEPT ![c] = new]
    BY DEF ServeUnseal
  <2>2. new.step = "head"
    BY <2>1 DEF AskArchive, TypeInv, ClientsTyped, ClientState
  <2> QED
    BY <2>1, <2>2, ClientBecomes DEF TypeInv
<1>9. ApiInv'
  BY <1>1, <1>2, <1>8 DEF ReplayInv, ApiInv
<1> QED
  BY <1>1, <1>2, <1>5, <1>6, <1>7, <1>8, <1>9, OutsideTurn DEF ClientInv

\* The clock, the disk and the process.
LEMMA EnvironmentKeeps ==
  ASSUME TypeInv, ReplayInv, Environment
  PROVE  ReplayInv'
<1>1. ASSUME NEW m \in Matches, WindowCloses(m) PROVE ReplayInv'
  <2>1. UNCHANGED <<arch, file, object, lane, client, admin, spent>>
    BY <1>1 DEF WindowCloses
  <2>2. Steady /\ ApiInv'
    BY <2>1, SpendsSteadily DEF ReplayInv, ApiInv, NothingDeleted
  <2>3. SameRow(m) /\ \A n \in Matches \ {m} : job'[n] = job[n]
    <3>1. PICK r \in JobRow : r = job[m]
      BY DEF TypeInv, JobsTyped
    <3>2. PICK s : s = [r EXCEPT !.late = TRUE]
      OBVIOUS
    <3>3. job'[m] = s /\ \A n \in Matches \ {m} : job'[n] = job[n]
      BY <1>1, <3>1, <3>2 DEF WindowCloses, TypeInv, JobsTyped
    <3>4. /\ s.status = r.status /\ s.phase = r.phase /\ s.lease = r.lease
          /\ s.seal = r.seal /\ s.key = r.key /\ s.archive = r.archive
      BY <3>2 DEF JobRow
    <3> QED
      BY <3>1, <3>3, <3>4 DEF SameRow, SameLease, SameSeal, SameArchive
  <2>4. \A n \in Matches : SameMatch(n)
    BY <2>1, <2>3 DEF SameMatch, SameRow, SameLease, SameSeal, SameArchive, SameStores
  <2> QED
    BY <2>1, <2>2, <2>4, NothingTouched
<1>2. ASSUME NEW m \in Matches, LoseFile(m) PROVE ReplayInv'
  <2>1. UNCHANGED <<job, arch, object, lane, client, admin>>
    BY <1>2 DEF LoseFile, tables
  <2>2. Steady /\ ApiInv'
    BY <1>2, <2>1, SpendsSteadily DEF LoseFile, Budgets, ReplayInv, ApiInv, Steady
  <2>3. ~Undisturbed'
    <3>1. spent["losses"] \in Nat /\ spent'["losses"] = spent["losses"] + 1
      BY <1>2 DEF LoseFile, Spend, TypeInv, SwitchesTyped, Budgets
    <3> QED
      BY <3>1 DEF Undisturbed
  <2>4. \A n \in Matches \ {m} : file'[n] = file[n]
    BY <1>2 DEF LoseFile, TypeInv, StoresTyped
  <2>5. MatchInv(m)'
    BY <2>1, <2>2, <2>3
    DEF ReplayInv, MatchInv, LeasePhase, SealWhole, ActiveStored, DoneKept, KeySealed, Steady
  <2>6. Kept(m) /\ Spared(m) /\ Elsewhere(m) /\ SameLease(m)
    BY <2>1, <2>3, <2>4
    DEF Kept, Spared, Elsewhere, SameMatch, SameRow, SameLease, SameSeal, SameArchive, SameStores
  <2> QED
    BY <2>1, <2>2, <2>5, <2>6, OutsideTurn
<1>3. ASSUME UNCHANGED <<tables, file>>, Steady PROVE ApiInv' /\ \A n \in Matches : SameMatch(n)
  <2>1. ApiInv'
    BY <1>3 DEF tables, ReplayInv, ApiInv, Steady
  <2>2. \A n \in Matches : SameMatch(n)
    BY <1>3 DEF tables, SameMatch, SameRow, SameLease, SameSeal, SameArchive, SameStores
  <2> QED
    BY <2>1, <2>2
<1>4. CASE CooldownEnds \/ CircuitCloses \/ Terminate \/ Disconnect \/ Exit \/ Restart \/ Start
  <2>1. UNCHANGED <<tables, file>> /\ UNCHANGED lane
    BY <1>4 DEF CooldownEnds, CircuitCloses, Terminate, Disconnect, Exit, Restart, Start
  <2>2. Steady
    BY <1>4, SpendsSteadily
    DEF CooldownEnds, CircuitCloses, Terminate, Disconnect, Exit, Restart, Start, Budgets
  <2>3. UNCHANGED client
    BY <2>1 DEF tables
  <2> QED
    BY <1>3, <2>1, <2>2, <2>3, NothingTouched
<1>5. CASE Crash
  <2>1. UNCHANGED <<tables, file>> /\ lane' = [l \in Lanes |-> Idle]
    BY <1>5 DEF Crash
  <2>2. Steady
    BY <1>5, SpendsSteadily DEF Crash, Budgets
  <2>3. ApiInv' /\ (\A n \in Matches : MatchInv(n)') /\ \A c \in Clients : ClientInv(c)'
    BY <1>3, <2>1, <2>2, SameMatchKeeps, ClientBystander DEF ReplayInv, tables
  <2>4. \A l \in Lanes : lane'[l].step = "idle"
    BY <2>1 DEF Idle
  <2> QED
    BY <2>3, <2>4, AtRest DEF ReplayInv, Lanes, Foreground
<1> QED
  BY <1>1, <1>2, <1>4, <1>5 DEF Environment

-----------------------------------------------------------------------------
(* The invariant of the replay itself *)

\* Before anything has happened nothing is sealed, and an inherited upload is whole.
LEMMA InitKept == Init => ReplayInv
<1> SUFFICES ASSUME Init PROVE ReplayInv
  OBVIOUS
<1>1. ASSUME NEW m \in Matches PROVE MatchInv(m)
  <2>1. /\ job[m] = NoRow \/ (job[m] = InheritedRow /\ m \in Inherited)
        /\ arch[m].status = "none" /\ file[m] # "torn" /\ object[m] # "bad"
    BY DEF Init
  <2>2. /\ NoRow.status = "none" /\ NoRow.phase = "done" /\ NoRow.seal = "none"
        /\ NoRow.key = FALSE /\ NoRow.archive = "missing"
    BY DEF NoRow
  <2>3. /\ InheritedRow.status = "failed" /\ InheritedRow.phase = "done"
        /\ InheritedRow.seal = "none" /\ InheritedRow.archive = "missing"
    BY DEF InheritedRow, NoRow
  <2> QED
    BY <2>1, <2>2, <2>3
    DEF MatchInv, LeasePhase, SealWhole, ActiveStored, DoneKept, KeySealed, Prepared
<1>2. ASSUME NEW l \in Lanes PROVE PrepareInv(l) /\ ParseInv(l) /\ BackupInv(l)
  <2>1. lane[l].step = "idle"
    BY DEF Init, Idle
  <2> QED
    BY <2>1 DEF PrepareInv, ParseInv, BackupInv, At
<1>3. ApiInv /\ \A c \in Clients : ClientInv(c)
  BY DEF Init, ApiInv, ClientInv, Resting, NoDeletion
<1> QED
  BY <1>1, <1>2, <1>3 DEF ReplayInv, Lanes, Foreground

\* Steps that only end the service's claiming.
LEMMA HeartbeatKeeps ==
  ASSUME TypeInv, ReplayInv, NEW l, HeartbeatLost(l) \/ ArchiveHeartbeatLost(l)
  PROVE  ReplayInv'
<1>1. UNCHANGED <<job, arch, file, object, lane, client, admin, spent>>
  BY DEF HeartbeatLost, ArchiveHeartbeatLost, foregroundOnly, backupOnly
<1>2. Steady /\ ApiInv'
  BY <1>1, SpendsSteadily DEF ReplayInv, ApiInv, NothingDeleted
<1>3. \A n \in Matches : SameMatch(n)
  BY <1>1 DEF SameMatch, SameRow, SameLease, SameSeal, SameArchive, SameStores
<1> QED
  BY <1>1, <1>2, <1>3, NothingTouched

\* Every step of the pipeline.
LEMMA NextKept == TypeInv /\ ReplayInv /\ [Next]_vars => ReplayInv'
<1> SUFFICES ASSUME TypeInv, ReplayInv, [Next]_vars PROVE ReplayInv'
  OBVIOUS
<1>1. CASE Worker
  <2>1. ASSUME NEW l \in PrepareLanes, PrepareStep(l) \/ \E m \in Matches : ClaimPrepare(l, m)
        PROVE  ReplayInv'
    BY <2>1, PrepareStepKeeps, ClaimPrepareKeeps
  <2>2. ASSUME NEW l \in ParseLanes, ParseStep(l) \/ \E m \in Matches : ClaimParse(l, m)
        PROVE  ReplayInv'
    BY <2>2, ParseStepKeeps, ClaimParseKeeps
  <2>3. ASSUME NEW l \in Foreground, Finish(l) \/ Fail(l) \/ LeaseLost(l) \/ HeartbeatLost(l)
        PROVE  ReplayInv'
    BY <2>3, FinishKeeps, FailKeeps, LostLeaseKeeps, HeartbeatKeeps
  <2>4. ASSUME NEW l \in ArchiveLanes, BackupStep(l) PROVE ReplayInv'
    BY <2>4, LookingKeeps, UploadKeeps, RecordingKeeps, TaskEnds DEF BackupStep
  <2>5. ASSUME NEW l \in ArchiveLanes,
               ArchiveHeartbeatLost(l) \/ \E m \in Matches : ClaimArchive(l, m)
        PROVE  ReplayInv'
    BY <2>5, HeartbeatKeeps, ClaimArchiveKeeps
  <2> QED
    BY <1>1, <2>1, <2>2, <2>3, <2>4, <2>5 DEF Worker
<1>2. ASSUME NEW m \in Matches, Recovery(m) PROVE ReplayInv'
  BY <1>2, RecoverJobKeeps, OtherRecoveryKeeps DEF Recovery
<1>3. CASE Api
  <2>1. ASSUME NEW c \in Clients,
               \/ RequestStep(c) \/ ServeStep(c)
               \/ \E m \in Matches, i \in Intents, aged \in BOOLEAN : RequestRead(c, m, i, aged)
        PROVE  ReplayInv'
    BY <2>1, AskingClientKeeps, RequestUpsertKeeps, WithdrawalKeeps, ServingKeeps, UnsealKeeps
    DEF RequestStep, ServeStep
  <2>2. CASE AdminStep
    BY <2>2, AdminOpensKeeps, WithdrawalKeeps, AdminFailsKeeps DEF AdminStep
  <2> QED
    BY <1>3, <2>1, <2>2 DEF Api
<1>4. CASE Environment
  BY <1>4, EnvironmentKeeps
<1>5. CASE UNCHANGED vars
  <2>1. UNCHANGED <<job, arch, file, object, lane, client, admin, spent>>
    BY <1>5 DEF vars
  <2>2. Steady /\ ApiInv'
    BY <2>1, SpendsSteadily DEF ReplayInv, ApiInv, NothingDeleted
  <2>3. \A n \in Matches : SameMatch(n)
    BY <2>1 DEF SameMatch, SameRow, SameLease, SameSeal, SameArchive, SameStores
  <2> QED
    BY <2>1, <2>2, <2>3, NothingTouched
<1> QED
  BY <1>1, <1>2, <1>3, <1>4, <1>5 DEF Next

\* What every lane and every match knows holds in every reachable state.
THEOREM ReplayInvariance == Spec => [](TypeInv /\ ReplayInv)
<1>1. Init => TypeInv /\ ReplayInv
  BY InitTyped, InitKept
<1>2. TypeInv /\ ReplayInv /\ [Next]_vars => (TypeInv /\ ReplayInv)'
  BY NextTyped, NextKept
<1> QED
  BY <1>1, <1>2, PTL DEF Spec

-----------------------------------------------------------------------------
(* What follows from it *)

\* A checkpoint marked complete is the whole replay, whatever restarts, requests,
\* failing transfers and deletions come between: only the disk, or a lane that
\* lives on without its lease beside another prepare lane, can break it
\* (replay-transport.mjs openTransfer and downloadResilient, the run v_spool).
THEOREM SealedIsIntact == Spec => [](Undisturbed => SealedReplayIntact)
<1>1. TypeInv /\ ReplayInv => (Undisturbed => SealedReplayIntact)
  BY DEF ReplayInv, MatchInv, SealWhole, SealedReplayIntact
<1> QED
  BY <1>1, ReplayInvariance, PTL

\* A job handed to the parse lane has its replay on the disk, if no archived
\* replay comes without one: where the one-shot worker left none behind, a key
\* is only ever recorded for a sealed file (finishForeground; the run v_awaiting
\* shows the step that breaks it otherwise).
THEOREM AwaitingParseIsReady ==
  ASSUME Inherited = {}
  PROVE  Spec => [](Undisturbed => AwaitingParseHasReplay)
<1>1. TypeInv /\ ReplayInv => (Undisturbed => AwaitingParseHasReplay)
  BY DEF ReplayInv, MatchInv, SealWhole, KeySealed, AwaitingParseHasReplay, Matching
<1> QED
  BY <1>1, ReplayInvariance, PTL

\* A completed job can be downloaded, from the spool or from the archive, unless
\* the administrator has deleted files: also one completed from the archive, and
\* one whose backup has not begun (handle, finishForeground, archiveCheckpoint).
THEOREM CompletedIsThere == Spec => [](Undisturbed => CompletedIsAvailable)
<1>1. TypeInv /\ ReplayInv => (Undisturbed => CompletedIsAvailable)
  <2> SUFFICES ASSUME TypeInv, ReplayInv, Undisturbed, NEW m \in Matches,
                      job[m].status = "completed", ~(spent["deletes"] > 0)
               PROVE  \/ Matching(m, job[m].seal)
                      \/ job[m].key /\ job[m].archive = "active" /\ object[m] # "none"
    BY DEF CompletedIsAvailable
  <2>1. NothingDeleted
    <3>1. spent["deletes"] \in Nat
      BY DEF TypeInv, SwitchesTyped, Budgets
    <3> QED
      BY <3>1 DEF NothingDeleted
  <2>2. MatchInv(m)
    BY DEF ReplayInv
  <2> QED
    BY <2>1, <2>2 DEF MatchInv, SealWhole, ActiveStored, DoneKept, Matching
<1> QED
  BY <1>1, ReplayInvariance, PTL

\* No completed job's sealed replay is forgotten by the backup: the task for it
\* is written before the job ends, and ends as completed only once the archive
\* has the replay (EnqueueArchive, ArchiveDone, recoverLeases).
THEOREM BackupsAreOwed == Spec => [](Undisturbed /\ NothingDeleted => BackupOwed)
<1>1. TypeInv /\ ReplayInv => (Undisturbed /\ NothingDeleted => BackupOwed)
  <2> SUFFICES ASSUME TypeInv, ReplayInv, Undisturbed, NothingDeleted, NEW m \in Matches,
                      job[m].status = "completed", job[m].seal # "none",
                      job[m].archive = "missing"
               PROVE  arch[m].status \in {"pending", "processing", "failed"}
    BY DEF BackupOwed
  <2>1. arch[m].status \in Statuses
    BY DEF TypeInv, BackupsTyped, ArchRow
  <2>2. arch[m].status # "none" /\ arch[m].status # "completed"
    BY DEF ReplayInv, MatchInv, DoneKept, Prepared
  <2> QED
    BY <2>1, <2>2 DEF Statuses
<1> QED
  BY <1>1, ReplayInvariance, PTL

-----------------------------------------------------------------------------
(* The same for a constant environment, as the run `requests` checks it *)

\* The environment spends its budgets, and nobody else does.
LEMMA WhoSpends ==
  [Next]_vars =>
    \/ UNCHANGED spent
    \/ Spend("requests", MaxRequests) \/ Spend("deletes", MaxDeletes)
    \/ Spend("stops", MaxStops) \/ Spend("stalls", MaxStalls) \/ Spend("losses", MaxLosses)
<1> SUFFICES ASSUME [Next]_vars
             PROVE  \/ UNCHANGED spent
                    \/ Spend("requests", MaxRequests) \/ Spend("deletes", MaxDeletes)
                    \/ Spend("stops", MaxStops) \/ Spend("stalls", MaxStalls)
                    \/ Spend("losses", MaxLosses)
  OBVIOUS
<1>1. CASE Worker
  <2>1. ASSUME NEW l, PrepareStep(l) PROVE UNCHANGED spent
    BY <2>1 DEF PrepareStep, ReadMatch, HeadArchive, MarkArchive, VerifySpool, DiscardSpool,
                CheckCooldown, FetchMetadata, Reserve, RestoreArchive, BeginDownload,
                OpenTransfer, WriteReplay, Seal, EnqueueArchive, foregroundOnly
  <2>2. ASSUME NEW l, ParseStep(l) \/ Finish(l) \/ Fail(l) \/ LeaseLost(l) \/ HeartbeatLost(l)
        PROVE  UNCHANGED spent
    BY <2>2 DEF ParseStep, VerifyPrepared, Import, Finish, Fail, LeaseLost, HeartbeatLost,
                foregroundOnly
  <2>3. ASSUME NEW l, NEW m, ClaimPrepare(l, m) \/ ClaimParse(l, m) PROVE UNCHANGED spent
    BY <2>3 DEF ClaimPrepare, ClaimParse, TakeJob, foregroundOnly
  <2>4. ASSUME NEW l, BackupStep(l) \/ ArchiveHeartbeatLost(l) PROVE UNCHANGED spent
    BY <2>4 DEF BackupStep, ReadCheckpoint, HeadUploaded, Upload, RecordKey, VerifyUpload,
                Activate, ArchiveDone, ArchiveFail, ArchiveLeaseLost, ArchiveHeartbeatLost,
                backupOnly
  <2>5. ASSUME NEW l, NEW m, ClaimArchive(l, m) PROVE UNCHANGED spent
    BY <2>5 DEF ClaimArchive, backupOnly
  <2> QED
    BY <1>1, <2>1, <2>2, <2>3, <2>4, <2>5 DEF Worker
<1>2. CASE \E m \in Matches : Recovery(m)
  BY <1>2 DEF Recovery, RecoverJob, RecoverArchive, ExpireRequest, ExpireArchive
<1>3. CASE Api
  BY <1>3 DEF Api, RequestStep, RequestRead, RequestHead, RequestMarkMissing, RequestUpsert,
              ServeStep, ServeRow, ServeOpen,
         ServeHash, ServeUnseal, AdminStep, AdminList, AdminCheck, AdminDelete, AdminMark,
         AdminSweep, AdminFails
<1>4. CASE Environment
  BY <1>4 DEF Environment, WindowCloses, LoseFile, CooldownEnds, CircuitCloses, Terminate,
              Disconnect, Crash, Exit, Restart, Start
<1>5. CASE UNCHANGED vars
  BY <1>5 DEF vars
<1> QED
  BY <1>1, <1>2, <1>3, <1>4, <1>5 DEF Next

\* A budget of nothing is never spent.
LEMMA NothingToSpend ==
  Spec => [](/\ MaxLosses = 0 => spent["losses"] = 0
             /\ MaxStalls = 0 => spent["stalls"] = 0
             /\ MaxDeletes = 0 => spent["deletes"] = 0)
<1> DEFINE Within == /\ MaxLosses = 0 => spent["losses"] = 0
                     /\ MaxStalls = 0 => spent["stalls"] = 0
                     /\ MaxDeletes = 0 => spent["deletes"] = 0
<1>1. Init => Within
  BY DEF Init, Budgets
<1>2. TypeInv /\ Within /\ [Next]_vars => Within'
  <2> SUFFICES ASSUME TypeInv, Within, [Next]_vars PROVE Within'
    OBVIOUS
  <2>1. spent \in [Budgets -> Nat] /\ {"losses", "stalls", "deletes"} \subseteq Budgets
    BY DEF TypeInv, SwitchesTyped, Budgets
  <2>2. CASE UNCHANGED spent
    BY <2>2
  <2>3. CASE Spend("requests", MaxRequests) \/ Spend("stops", MaxStops)
    BY <2>1, <2>3 DEF Spend
  <2>4. CASE Spend("losses", MaxLosses)
    BY <2>1, <2>4 DEF Spend
  <2>5. CASE Spend("stalls", MaxStalls)
    BY <2>1, <2>5 DEF Spend
  <2>6. CASE Spend("deletes", MaxDeletes)
    BY <2>1, <2>6 DEF Spend
  <2> QED
    BY <2>2, <2>3, <2>4, <2>5, <2>6, WhoSpends
<1> QED
  BY <1>1, <1>2, TypeInvariance, PTL DEF Spec

\* Where the disk keeps its files, no lease is taken from a living lane (or one
\* lane alone prepares), nobody deletes and nothing was inherited, everything
\* holds of the replay that the runs check: for every number of matches, lanes,
\* clients, requests, terminations and crashes.
THEOREM ReplayIsDelivered ==
  ASSUME MaxLosses = 0, MaxStalls = 0 \/ OnePrepareLane, MaxDeletes = 0, Inherited = {}
  PROVE  Spec => [](/\ SealedReplayIntact /\ AwaitingParseHasReplay /\ CompletedIsAvailable
                    /\ BackupOwed)
<1>1. Spec => [](Undisturbed /\ NothingDeleted)
  <2>1. /\ MaxLosses = 0 => spent["losses"] = 0
        /\ MaxStalls = 0 => spent["stalls"] = 0
        /\ MaxDeletes = 0 => spent["deletes"] = 0
        => Undisturbed /\ NothingDeleted
    BY DEF Undisturbed, NothingDeleted
  <2> QED
    BY <2>1, NothingToSpend, PTL
<1> QED
  BY <1>1, SealedIsIntact, AwaitingParseIsReady, CompletedIsThere, BackupsAreOwed, PTL
=============================================================================
