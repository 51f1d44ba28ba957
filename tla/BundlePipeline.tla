--------------------------- MODULE BundlePipeline ---------------------------
(***************************************************************************)
(* What the Workbench's user sees of one structure at a time: the status   *)
(* of its current draft on the way to input files (BundleStatus in         *)
(* src/web/src/workspace/pipelineStatus.ts), without requests, keys or     *)
(* revisions.  Files, once ready, are lost only by an edit, by opening a   *)
(* structure or by a reset; a failure is left only by those or by a retry. *)
(***************************************************************************)
VARIABLES status,     \* the kind of BundleStatus
          onScreen    \* whether a recommendation is on screen

Waiting == {"computing", "recomputing"}
Statuses == Waiting \cup {"empty", "explainFailed", "blocked", "generating",
                          "generationFailed", "ready"}

TypeOK == status \in Statuses /\ onScreen \in BOOLEAN

\* Waiting for a recommendation, with or without an earlier one on screen.
Wait(shown) == status' = (IF shown THEN "recomputing" ELSE "computing")

Init == status = "empty" /\ onScreen = FALSE

Open == Wait(FALSE) /\ onScreen' = FALSE

Edit == status # "empty" /\ Wait(onScreen) /\ UNCHANGED onScreen

Recommend ==
  /\ status \in Waiting
  /\ onScreen' = TRUE
  /\ status' \in {"blocked", "generating", "recomputing"}  \* the last if out of date

FailToRecommend ==
  status \in Waiting /\ status' = "explainFailed" /\ UNCHANGED onScreen

RetryRecommendation ==
  status = "explainFailed" /\ Wait(onScreen) /\ UNCHANGED onScreen

Generate ==
  /\ status = "generating"
  /\ status' \in {"ready", "generationFailed"}
  /\ UNCHANGED onScreen

RetryGeneration ==
  status = "generationFailed" /\ status' = "generating" /\ UNCHANGED onScreen

Reset == status' = "empty" /\ onScreen' = FALSE

Next ==
  \/ Open \/ Edit \/ Recommend \/ FailToRecommend \/ RetryRecommendation
  \/ Generate \/ RetryGeneration \/ Reset

Spec == Init /\ [][Next]_<<status, onScreen>>
=============================================================================
