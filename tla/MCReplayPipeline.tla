-------------------------- MODULE MCReplayPipeline --------------------------
(* Instances of the replay pipeline for TLC. *)
EXTENDS ReplayProperties, TLC

\* Prepare lanes are interchangeable; only a run without liveness uses it.
Symmetry == Permutations(PrepareLanes)

\* Bounds: one stall, one lost file or one deletion in a behaviour, and one
\* termination, crash or stall.
OneFault == spent["stalls"] + spent["losses"] + spent["deletes"] <= 1
OneStop == spent["stalls"] + spent["stops"] <= 1
=============================================================================
