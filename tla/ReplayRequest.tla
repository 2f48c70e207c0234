---------------------------- MODULE ReplayRequest ----------------------------
(***************************************************************************)
(* What the pipeline promises the people who ask for a replay, match by    *)
(* match: a request stays open until it is delivered or given up, an       *)
(* analysis asked for is never turned into less while it is open, and it   *)
(* is delivered only once the analysis exists.                             *)
(***************************************************************************)
CONSTANTS Matches, Intents

VARIABLES
    state,      \* of the match's request
    want,       \* what was asked for, while a request is open
    analysed    \* the match's analysis is stored

promise == <<state, want, analysed>>

States == {"none", "open", "delivered", "failed"}

Init ==
    /\ state \in [Matches -> {"none", "failed"}]
    /\ want = [m \in Matches |-> "download"]
    /\ analysed = [m \in Matches |-> FALSE]

Ask(m, intent) ==
    /\ state[m] # "open"
    /\ state' = [state EXCEPT ![m] = "open"]
    /\ want' = [want EXCEPT ![m] = intent]
    /\ UNCHANGED analysed

Upgrade(m) ==
    /\ state[m] = "open"
    /\ want' = [want EXCEPT ![m] = "analysis"]
    /\ UNCHANGED <<state, analysed>>

Analyse(m) ==
    /\ analysed' = [analysed EXCEPT ![m] = TRUE]
    /\ UNCHANGED <<state, want>>

Deliver(m) ==
    /\ state[m] = "open"
    /\ want[m] = "analysis" => analysed[m]
    /\ state' = [state EXCEPT ![m] = "delivered"]
    /\ UNCHANGED <<want, analysed>>

GiveUp(m) ==
    /\ state[m] = "open"
    /\ state' = [state EXCEPT ![m] = "failed"]
    /\ UNCHANGED <<want, analysed>>

Next == \E m \in Matches :
    \/ \E i \in Intents : Ask(m, i)
    \/ Upgrade(m) \/ Analyse(m) \/ Deliver(m) \/ GiveUp(m)

Spec == Init /\ [][Next]_promise
=============================================================================
