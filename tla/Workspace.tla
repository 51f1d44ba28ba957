----------------------------- MODULE Workspace -----------------------------
(***************************************************************************)
(* The Workbench's store, src/web/src/workspace/workspace.ts, with what    *)
(* pipelineStatus.ts derives from it and the effects of useAutoCompute.ts: *)
(* the structure -> /explain -> preview /run pipeline.                     *)
(*                                                                         *)
(* Every dispatched action runs to its first await, and every response is  *)
(* handled, in one turn of the event loop: a step.  Between the steps the  *)
(* user may do anything, and responses arrive in any order.                *)
(*                                                                         *)
(* A draft is abstracted to its task and, for each override key, the       *)
(* structure that was open when the override was made (code, hpc and       *)
(* fetchMissing are carried along like the task).  A response is           *)
(* abstracted to what the store reads of it.                               *)
(***************************************************************************)
EXTENDS Naturals

CONSTANTS
  Structures,    \* the structure inputs that may be opened
  Tasks,         \* the tasks of the capabilities
  OverrideKeys,  \* settings and facts
  Specific,      \* the keys carryOverDraft clears: structure-specific ones
  AppliesTo,     \* AppliesTo[k]: the tasks the setting k applies to
  Requests,      \* identities of requests in flight at the same time
  MaxRevision,   \* bound on openings and edits (model checking only)
  None,          \* null
  Absent         \* an override that is not in the draft

ASSUME KeysAssumption ==
  Specific \subseteq OverrideKeys /\ AppliesTo \in [OverrideKeys -> SUBSET Tasks]
ASSUME TaskAssumption == Tasks # {}
ASSUME RevisionAssumption == MaxRevision \in Nat

VARIABLES
  capabilities,    \* whether the capabilities are loaded
  startupFailure,  \* whether loading them failed
  structureInput,  \* the open structure
  inspectFailure,  \* the last structure that failed to open
  draft,
  revision,
  reviewed,        \* the key of the last recommendation on screen
  explain,         \* how the last /explain settled
  preview,         \* how the last preview /run settled
  operation,       \* the operation the snapshot shows as in flight
  active,          \* activeOperation: the request that owns `operation`
  startup,         \* the pending capabilities request
  flight,          \* flight[r]: the request r while no response arrived
  saved            \* what the last archive saved to disk was made from

pipeline == <<reviewed, explain, preview>>
opened == <<structureInput, draft, revision>>
vars == <<capabilities, startupFailure, inspectFailure, opened, pipeline,
          operation, active, startup, flight, saved>>

Operations == {"capabilities", "inspect", "explain", "preview"}
Origins == Structures \cup {None}
Overrides == [OverrideKeys -> Origins \cup {Absent}]
Draft == [task : Tasks, overrides : Overrides]
PipelineKey == [input : Structures, revision : Nat]
Made == [input : Structures, sent : Draft]
Request == [operation : Operations, key : PipelineKey \cup {None}, sent : Draft \cup {None}]
ExplainOutcome == [key : PipelineKey, status : {"passes", "blocks", "failure"},
                   dismissed : BOOLEAN]
PreviewOutcome == [key : PipelineKey, status : {"result", "failure"},
                   dismissed : BOOLEAN, value : Made]

ASSUME NullAssumption ==
  /\ Absent \notin Origins
  /\ None \notin Structures /\ None \notin Requests /\ None \notin Operations
  /\ None \notin Draft
  /\ None \notin PipelineKey /\ None \notin Made /\ None \notin Request
  /\ None \notin ExplainOutcome /\ None \notin PreviewOutcome

TypeOK ==
  /\ capabilities \in BOOLEAN /\ startupFailure \in BOOLEAN
  /\ structureInput \in Structures \cup {None}
  /\ inspectFailure \in Structures \cup {None}
  /\ draft \in Draft \cup {None}
  /\ revision \in Nat
  /\ reviewed \in PipelineKey \cup {None}
  /\ explain \in ExplainOutcome \cup {None}
  /\ preview \in PreviewOutcome \cup {None}
  /\ operation \in Operations \cup {None}
  /\ active \in Requests \cup {None}
  /\ startup \in Requests \cup {None}
  /\ flight \in [Requests -> Request \cup {None}]
  /\ saved \in Made \cup {None}

Init ==
  /\ startupFailure = FALSE /\ structureInput = None /\ inspectFailure = None
  /\ draft = None /\ reviewed = None /\ explain = None /\ preview = None
  /\ capabilities = FALSE /\ revision = 0 /\ operation = None
  /\ active = None /\ startup = None
  /\ flight = [r \in Requests |-> None]
  /\ saved = None

-----------------------------------------------------------------------------
(* Drafts and requests.                                                    *)

NoOverrides == [k \in OverrideKeys |-> Absent]

\* capabilities.tasks[0], with no overrides.
DefaultDraft == [task |-> CHOOSE t \in Tasks : TRUE, overrides |-> NoOverrides]

\* Mutant of CarriedOver: an override of the replaced structure is kept.
CarriedOverWhole(d) == d

\* carryOverDraft: the overrides that describe the replaced structure go.
CarriedOver(d) ==
  [d EXCEPT !.overrides =
     [k \in OverrideKeys |-> IF k \in Specific THEN Absent ELSE d.overrides[k]]]

\* toComputeRequest: overrides that do not apply to the task stay in the draft.
Sent(d) ==
  [d EXCEPT !.overrides =
     [k \in OverrideKeys |-> IF d.task \in AppliesTo[k] THEN d.overrides[k] ELSE Absent]]

-----------------------------------------------------------------------------
(* pipelineStatus.ts.                                                      *)

\* Mutant of OfCurrentDraft: edits are forgotten.
OfCurrentStructure(outcome) == outcome # None /\ outcome.key.input = structureInput

OfCurrentDraft(outcome) ==
  /\ outcome # None
  /\ outcome.key.input = structureInput
  /\ outcome.key.revision = revision

Explained(statuses) == OfCurrentDraft(explain) /\ explain.status \in statuses
Previewed(statuses) == OfCurrentDraft(preview) /\ preview.status \in statuses

\* Mutant of ExplainDue: a request that was answered is due again.
ExplainDueAgain == structureInput # None /\ draft # None /\ operation = None

ExplainDue ==
  structureInput # None /\ draft # None /\ operation = None /\ ~OfCurrentDraft(explain)

PreviewDue ==
  operation = None /\ Explained({"passes"}) /\ ~OfCurrentDraft(preview)

RecordedFailure(op) ==
  CASE op = "capabilities" -> startupFailure
    [] op = "inspect" -> inspectFailure # None
    [] op = "explain" -> Explained({"failure"})
    [] op = "preview" -> Previewed({"failure"})

BundleStatus ==
  CASE structureInput = None -> "empty"
    [] structureInput # None /\ ~OfCurrentDraft(explain) ->
         IF reviewed = None THEN "computing" ELSE "recomputing"
    [] Explained({"failure"}) -> "explainFailed"
    [] Explained({"blocks"}) -> "blocked"
    [] Explained({"passes"}) ->
         IF Previewed({"result"}) THEN "ready"
         ELSE IF Previewed({"failure"}) THEN "generationFailed" ELSE "generating"

-----------------------------------------------------------------------------
(* Owning the operation.                                                   *)

CurrentKey == [input |-> structureInput, revision |-> revision]

\* beginOperation, and the request it is begun for.
Begin(r, op, key, sent) ==
  /\ flight[r] = None
  /\ operation' = op
  /\ active' = r
  /\ flight' = [flight EXCEPT ![r] = [operation |-> op, key |-> key, sent |-> sent]]

\* Mutant of Complete: a late response is taken for the current one.
CompleteUnowned(r) ==
  /\ flight[r] # None
  /\ active' = None
  /\ operation' = None
  /\ flight' = [flight EXCEPT ![r] = None]

\* completeOperation for the request that owns the operation.
Complete(r) ==
  /\ flight[r] # None
  /\ active = r
  /\ active' = None
  /\ operation' = None
  /\ flight' = [flight EXCEPT ![r] = None]

InFlight(r, op) == flight[r] # None /\ flight[r].operation = op

-----------------------------------------------------------------------------
(* Loading the capabilities, and opening a structure.                      *)

Start ==
  /\ ~capabilities /\ startup = None
  /\ \E r \in Requests : Begin(r, "capabilities", None, None) /\ startup' = r
  /\ startupFailure' = FALSE
  /\ UNCHANGED <<capabilities, inspectFailure, opened, pipeline, saved>>

CapabilitiesArrive(r) ==
  /\ InFlight(r, "capabilities")
  /\ Complete(r)
  /\ capabilities' = TRUE
  /\ draft' = DefaultDraft
  /\ startup' = IF startup = r THEN None ELSE startup
  /\ UNCHANGED <<startupFailure, inspectFailure, structureInput, revision, pipeline, saved>>

CapabilitiesFail(r) ==
  /\ InFlight(r, "capabilities")
  /\ Complete(r)
  /\ startupFailure' = TRUE
  /\ startup' = IF startup = r THEN None ELSE startup
  /\ UNCHANGED <<capabilities, inspectFailure, opened, pipeline, saved>>

OpenSource(input) ==
  /\ capabilities
  /\ \E r \in Requests :
       Begin(r, "inspect", [input |-> input, revision |-> revision], None)
  /\ inspectFailure' = None
  /\ UNCHANGED <<capabilities, startupFailure, opened, pipeline, startup, saved>>

\* Only now is the open structure replaced.
InspectionArrives(r) ==
  /\ InFlight(r, "inspect")
  /\ revision < MaxRevision
  /\ Complete(r)
  /\ structureInput' = flight[r].key.input
  /\ draft' = CarriedOver(IF draft = None THEN DefaultDraft ELSE draft)
  /\ revision' = revision + 1
  /\ reviewed' = None /\ explain' = None /\ preview' = None
  /\ UNCHANGED <<capabilities, startupFailure, inspectFailure, startup, saved>>

InspectionFails(r) ==
  /\ InFlight(r, "inspect")
  /\ Complete(r)
  /\ inspectFailure' = flight[r].key.input
  /\ UNCHANGED <<capabilities, startupFailure, opened, pipeline, startup, saved>>

-----------------------------------------------------------------------------
(* Editing, explaining, previewing, saving.                                *)

\* Refused while a structure is being opened.
PatchDraft(task, k, value) ==
  /\ draft # None
  /\ operation # "inspect"
  /\ revision < MaxRevision
  /\ draft' = [task |-> task, overrides |-> [draft.overrides EXCEPT ![k] = value]]
  /\ revision' = revision + 1
  /\ UNCHANGED <<capabilities, startupFailure, inspectFailure, structureInput, pipeline,
                 operation, active, startup, flight, saved>>

ComputeReview ==
  /\ capabilities
  /\ ExplainDue
  /\ \E r \in Requests : Begin(r, "explain", CurrentKey, Sent(draft))
  /\ UNCHANGED <<capabilities, startupFailure, inspectFailure, opened, pipeline, startup, saved>>

ExplainArrives(r) ==
  /\ InFlight(r, "explain")
  /\ Complete(r)
  /\ \E verdict \in {"passes", "blocks"} :
       explain' = [key |-> flight[r].key, status |-> verdict, dismissed |-> FALSE]
  /\ reviewed' = flight[r].key
  /\ UNCHANGED <<capabilities, startupFailure, inspectFailure, opened, preview, startup, saved>>

\* Mutant of ExplainFails: the earlier recommendation is taken off the screen.
ExplainFailsBlank(r) ==
  /\ InFlight(r, "explain")
  /\ Complete(r)
  /\ explain' = [key |-> flight[r].key, status |-> "failure", dismissed |-> FALSE]
  /\ reviewed' = None
  /\ UNCHANGED <<capabilities, startupFailure, inspectFailure, opened, preview, startup, saved>>

\* Mutant of ExplainFails: the failure is not recorded as the outcome of its key.
ExplainFailsUnrecorded(r) ==
  /\ InFlight(r, "explain")
  /\ Complete(r)
  /\ UNCHANGED <<capabilities, startupFailure, inspectFailure, opened, pipeline, startup, saved>>

ExplainFails(r) ==
  /\ InFlight(r, "explain")
  /\ Complete(r)
  /\ explain' = [key |-> flight[r].key, status |-> "failure", dismissed |-> FALSE]
  /\ UNCHANGED <<capabilities, startupFailure, inspectFailure, opened, reviewed, preview,
                 startup, saved>>

RefreshArchive ==
  /\ capabilities /\ structureInput # None /\ draft # None
  /\ PreviewDue
  /\ \E r \in Requests : Begin(r, "preview", CurrentKey, Sent(draft))
  /\ UNCHANGED <<capabilities, startupFailure, inspectFailure, opened, pipeline, startup, saved>>

\* The archive is what the core generated for the request, whatever is open now.
PreviewSettles(r, status) ==
  /\ InFlight(r, "preview")
  /\ Complete(r)
  /\ preview' = [key |-> flight[r].key, status |-> status, dismissed |-> FALSE,
                 value |-> [input |-> flight[r].key.input, sent |-> flight[r].sent]]
  /\ UNCHANGED <<capabilities, startupFailure, inspectFailure, opened, reviewed, explain,
                 startup, saved>>

PreviewArrives(r) == PreviewSettles(r, "result")
PreviewFails(r) == PreviewSettles(r, "failure")

DownloadReviewed ==
  /\ Previewed({"result"})
  /\ saved' = preview.value
  /\ UNCHANGED <<capabilities, startupFailure, inspectFailure, opened, pipeline,
                 operation, active, startup, flight>>

-----------------------------------------------------------------------------
(* Responses that are dropped or not understood.                           *)

\* A response whose request no longer owns the operation changes nothing.
DropResponse(r) ==
  /\ flight[r] # None
  /\ active # r
  /\ flight' = [flight EXCEPT ![r] = None]
  /\ startup' = IF startup = r THEN None ELSE startup
  /\ UNCHANGED <<capabilities, startupFailure, inspectFailure, opened, pipeline,
                 operation, active, saved>>

\* The client throws something else than a CoreFailure: coreClient.ts reads the
\* body of an error response without a try (decodeResponse), so a connection cut
\* there rejects with fetch's own TypeError.
ResponseCut(r) ==
  /\ Complete(r)
  /\ startup' = IF startup = r THEN None ELSE startup
  /\ UNCHANGED <<capabilities, startupFailure, inspectFailure, opened, pipeline, saved>>

-----------------------------------------------------------------------------
(* Failures and reset.                                                     *)

\* failure.retry of capabilities or a structure sends that request again.
RetryStart == RecordedFailure("capabilities") /\ Start

RetryInspect == RecordedFailure("inspect") /\ OpenSource(inspectFailure)

\* explain is cleared; the request goes out at once if nothing is in flight, and
\* by the auto effect otherwise.
RetryExplain ==
  /\ RecordedFailure("explain")
  /\ explain' = None
  /\ IF operation = None
     THEN \E r \in Requests : Begin(r, "explain", CurrentKey, Sent(draft))
     ELSE UNCHANGED <<operation, active, flight>>
  /\ UNCHANGED <<capabilities, startupFailure, inspectFailure, opened, reviewed, preview,
                 startup, saved>>

RetryPreview ==
  /\ RecordedFailure("preview")
  /\ preview' = None
  /\ IF operation = None /\ Explained({"passes"})
     THEN \E r \in Requests : Begin(r, "preview", CurrentKey, Sent(draft))
     ELSE UNCHANGED <<operation, active, flight>>
  /\ UNCHANGED <<capabilities, startupFailure, inspectFailure, opened, reviewed, explain,
                 startup, saved>>

Dismissed(outcome) ==
  IF outcome # None /\ outcome.status = "failure"
  THEN [outcome EXCEPT !.dismissed = TRUE] ELSE outcome

DismissFailure(op) ==
  /\ inspectFailure' = IF op = "inspect" THEN None ELSE inspectFailure
  /\ explain' = IF op = "explain" THEN Dismissed(explain) ELSE explain
  /\ preview' = IF op = "preview" THEN Dismissed(preview) ELSE preview
  /\ UNCHANGED <<capabilities, startupFailure, opened, reviewed, operation, active, startup,
                 flight, saved>>

\* Mutant of Reset: the request in flight is aborted but stays on screen.
ResetStaysBusy ==
  /\ startupFailure' = FALSE /\ structureInput' = None /\ inspectFailure' = None
  /\ draft' = None /\ reviewed' = None /\ explain' = None /\ preview' = None
  /\ active' = None /\ startup' = None
  /\ UNCHANGED <<capabilities, revision, operation, flight, saved>>

\* Everything but the capabilities and the revision is dropped; a pending
\* capabilities request is kept, and one is sent if there are none.
Reset ==
  /\ startupFailure' = FALSE /\ structureInput' = None /\ inspectFailure' = None
  /\ draft' = None /\ reviewed' = None /\ explain' = None /\ preview' = None
  /\ IF startup # None /\ active = startup
     THEN UNCHANGED <<operation, active, startup, flight>>
     ELSE IF capabilities
     THEN operation' = None /\ active' = None /\ startup' = None /\ UNCHANGED flight
     ELSE \E r \in Requests : Begin(r, "capabilities", None, None) /\ startup' = r
  /\ UNCHANGED <<capabilities, revision, saved>>

-----------------------------------------------------------------------------
UserStep ==
  \/ Start \/ RetryStart \/ RetryInspect \/ RetryExplain \/ RetryPreview
  \/ DownloadReviewed \/ Reset
  \/ \E input \in Structures : OpenSource(input)
  \/ \E task \in Tasks, k \in OverrideKeys, value \in {structureInput, Absent} :
       PatchDraft(task, k, value)
  \/ \E op \in Operations : DismissFailure(op)

\* useAutoCompute.ts, after its debounce.
AutoStep == ComputeReview \/ RefreshArchive

Answered(r) ==
  \/ CapabilitiesArrive(r) \/ CapabilitiesFail(r)
  \/ InspectionArrives(r) \/ InspectionFails(r)
  \/ ExplainArrives(r) \/ ExplainFails(r)
  \/ PreviewArrives(r) \/ PreviewFails(r)
  \/ DropResponse(r)

Next ==
  \/ UserStep
  \/ AutoStep
  \/ \E r \in Requests : Answered(r) \/ ResponseCut(r)

Spec == Init /\ [][Next]_vars

\* The core answers every request; the browser runs the effects that are due.
FairSpec ==
  /\ Spec
  /\ WF_vars(ComputeReview) /\ WF_vars(RefreshArchive)
  /\ \A r \in Requests : WF_vars(Answered(r))

-----------------------------------------------------------------------------
(* Properties.                                                             *)

\* The archive saved to disk was generated for the structure that is open and
\* for the draft that is on screen at that moment, however many edits, openings,
\* late responses, failures, retries and resets came between the request and the
\* click: a revision stands for one structure and one draft (downloadReviewed,
\* currentArchive).
SavedIsOnScreen ==
  [][saved' # saved => saved' = [input |-> structureInput, sent |-> Sent(draft)]]_vars

\* The recommendation on screen is one of the open structure, perhaps for an
\* earlier draft, never of a structure that was replaced.
ReviewedIsOfOpenStructure == reviewed # None => reviewed.input = structureInput

\* Once the current draft has a recommendation, or an archive, it keeps it until
\* the draft or the structure changes: no late, repeated or dropped request
\* takes it away again.
ResultIsFinal ==
  [][/\ Explained({"passes", "blocks"}) /\ CurrentKey' = CurrentKey
        => explain' = explain
     /\ Previewed({"result"}) /\ CurrentKey' = CurrentKey
        => preview' = preview]_vars

\* A preview of the current draft exists, or is being fetched, only beside a
\* recommendation for that very draft that does not block it.
PreviewHasVerdict ==
  /\ OfCurrentDraft(preview) => Explained({"passes"})
  /\ \A r \in Requests :
       InFlight(r, "preview") /\ flight[r].key = CurrentKey => Explained({"passes"})

\* No request carries a setting that does not apply to its task, nor a
\* structure-specific override that was made for another structure (#154, #188).
RequestsFit ==
  \A r \in Requests : flight[r] # None /\ flight[r].sent # None =>
    \A k \in OverrideKeys :
      LET value == flight[r].sent.overrides[k] IN
      value # Absent =>
        /\ flight[r].sent.task \in AppliesTo[k]
        /\ k \in Specific => value = flight[r].key.input

\* The controls are never left busy: an operation shown as in flight belongs to
\* a request that will still be answered.
BusyIsInFlight ==
  /\ (operation = None) <=> (active = None)
  /\ active # None => InFlight(active, operation)

\* workspace.ts:80-83, useAutoCompute.ts:15-18: a failing request is not sent
\* again until the draft changes or the user retries.  Not so for a failure that
\* is not a CoreFailure: no outcome is recorded, so the request is due again.
FailingRequestIsNotDueAgain ==
  [][\A r \in Requests :
       /\ active = r /\ flight[r] # None /\ flight'[r] = None
       /\ flight[r].key = CurrentKey /\ CurrentKey' = CurrentKey
       /\ flight[r].operation = "explain"
       => ~ExplainDue']_vars

\* What the open structure ends with: input files, or a reason why not.
Settled ==
  BundleStatus \in {"empty", "explainFailed", "blocked", "ready", "generationFailed"}

\* If the user stops and no response is cut, the open structure's draft settles:
\* no edit, overlapping opening or dropped response leaves it waiting for a
\* request that nobody sends.
SettlesOnceUserStops ==
  <>[][AutoStep \/ \E r \in Requests : Answered(r)]_vars => <>[]Settled

\* What the user is shown implements BundlePipeline.
Shown == INSTANCE BundlePipeline WITH status <- BundleStatus, onScreen <- (reviewed # None)
ImplementsBundlePipeline == Shown!Spec
=============================================================================
