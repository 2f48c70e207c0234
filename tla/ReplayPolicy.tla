---------------------------- MODULE ReplayPolicy ----------------------------
(***************************************************************************)
(* The pure decisions of the replay worker (replay-job-policy.mjs): what   *)
(* a claimed job does next, and what becomes of it when a step fails.      *)
(***************************************************************************)
EXTENDS Naturals

CONSTANTS
    MaxNetwork,     \* MAX_NETWORK_ATTEMPTS
    MaxMetadata,    \* MAX_METADATA_ATTEMPTS
    MaxArchive      \* MAX_ARCHIVE_ATTEMPTS

ASSUME LimitsAssumption ==
    /\ MaxNetwork \in Nat \ {0}
    /\ MaxMetadata \in Nat \ {0}
    /\ MaxArchive \in Nat \ {0}

Intents == {"download", "analysis"}

\* What a step of the worker can raise.  "metadata": no replay metadata yet or
\* the provider is unreachable; "limited": the provider answered 429;
\* "cooldown": the shared cooldown is running; "network": any other retryable
\* failure (transport, capacity, storage, interruption); "fatal": an error with
\* retryable = false.
Faults == {"metadata", "limited", "cooldown", "network", "fatal"}

metadataError(fault) == fault \in {"metadata", "limited", "cooldown"}

\* The error_code left in the row, by what the code later asks of it.
ErrorClass == {"none", "metadata", "other"}
ErrorAsRaised(fault) == IF metadataError(fault) THEN "metadata" ELSE fault   \* mutant
ErrorOf(fault) == IF metadataError(fault) THEN "metadata" ELSE "other"

AttemptLimit(meta) == IF meta THEN MaxMetadata ELSE MaxNetwork

\* The statuses retryDecision may give a job that failed with `fault` on its
\* attempts-th attempt.  `late`: the deadline or the 24-hour window has passed.
\* A retry whose delay would end after the deadline fails at once; the delay is
\* not modelled, so before the deadline both outcomes are possible.
retryDecision(fault, attempts, late) ==
    IF fault = "fatal" \/ attempts >= AttemptLimit(metadataError(fault)) \/ late
    THEN {"failed"}
    ELSE {"pending", "failed"}

Plans == {"complete", "use-checkpoint", "restore-archive", "download"}

\* Mutant: the saved file is not looked at.
PlanWithoutCheckpoint(archived, parsed, intent, checkpoint) ==
    CASE archived /\ (intent = "download" \/ parsed) -> "complete"
      [] OTHER -> IF archived THEN "restore-archive" ELSE "download"

processingPlan(archived, parsed, intent, checkpoint) ==
    CASE archived /\ (intent = "download" \/ parsed) -> "complete"
      [] ~(archived /\ (intent = "download" \/ parsed)) /\ checkpoint -> "use-checkpoint"
      [] OTHER -> IF archived THEN "restore-archive" ELSE "download"
=============================================================================
