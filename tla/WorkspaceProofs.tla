-------------------------- MODULE WorkspaceProofs --------------------------
(***************************************************************************)
(* Proofs about the Workbench's store for any sets of structures, tasks,   *)
(* override keys and requests, and any number of edits.  The heart of the  *)
(* invariant is that a pipeline key (structure, revision) stands for one   *)
(* draft: no request or outcome has a key of the future, and those with    *)
(* the current key were made for the draft on screen.  What the user is    *)
(* shown of it implements BundlePipeline.                                  *)
(***************************************************************************)
EXTENDS Workspace, TLAPS

Pipeline == {"explain", "preview"}

\* Nothing is open, and no inspection under way, before the capabilities are
\* known; they are loaded once.
CapabilitiesFirst ==
  /\ structureInput # None => capabilities /\ draft # None
  /\ \A r \in Requests : InFlight(r, "inspect") => capabilities /\ flight[r].key # None
  /\ \A r \in Requests : InFlight(r, "capabilities") /\ active = r => ~capabilities
  /\ startup # None => InFlight(startup, "capabilities")

\* A structure-specific override in the draft was made for the open structure.
DraftFits ==
  draft # None => \A k \in Specific : draft.overrides[k] \in {structureInput, Absent}

\* Keys are never of the future.
KeysArePast ==
  /\ \A r \in Requests : flight[r] # None /\ flight[r].operation \in Pipeline =>
       /\ flight[r].key # None /\ flight[r].sent # None
       /\ flight[r].key.revision <= revision
  /\ explain # None => explain.key.revision <= revision
  /\ preview # None => preview.key.revision <= revision

\* What was requested or made for the current key was so for the current draft.
KeyStandsForDraft ==
  /\ \A r \in Requests :
       /\ flight[r] # None /\ flight[r].operation \in Pipeline
       /\ flight[r].key = CurrentKey
       => flight[r].sent = Sent(draft)
  /\ OfCurrentDraft(preview) =>
       preview.value = [input |-> structureInput, sent |-> Sent(draft)]

\* The request that owns the operation is of the open structure and its answer
\* takes the place of no outcome of the current draft.
OwnerIsDue ==
  active # None /\ flight[active].operation \in Pipeline =>
    /\ flight[active].key.input = structureInput
    /\ flight[active].operation = "explain" => ~OfCurrentDraft(explain)
    /\ flight[active].operation = "preview" => ~OfCurrentDraft(preview)

IInv ==
  /\ TypeOK /\ CapabilitiesFirst /\ DraftFits /\ KeysArePast /\ KeyStandsForDraft
  /\ OwnerIsDue /\ ReviewedIsOfOpenStructure /\ PreviewHasVerdict /\ RequestsFit
  /\ BusyIsInFlight

-----------------------------------------------------------------------------
\* The draft of a Workbench that has none yet, or none any more.
LEMMA DefaultIsDraft ==
  DefaultDraft \in Draft /\ \A k \in OverrideKeys : DefaultDraft.overrides[k] = Absent
BY TaskAssumption DEF DefaultDraft, NoOverrides, Draft, Overrides, Origins

\* toComputeRequest sends no setting that does not apply to the task, and
\* changes no other.
LEMMA SentFits ==
  ASSUME NEW d \in Draft
  PROVE  /\ Sent(d) \in Draft
         /\ \A k \in OverrideKeys : Sent(d).overrides[k] # Absent =>
              /\ Sent(d).task \in AppliesTo[k]
              /\ Sent(d).overrides[k] = d.overrides[k]
BY DEF Sent, Draft, Overrides, Origins

\* carryOverDraft leaves no structure-specific override.
LEMMA CarriedFits ==
  ASSUME NEW d \in Draft
  PROVE  /\ CarriedOver(d) \in Draft
         /\ \A k \in Specific : CarriedOver(d).overrides[k] = Absent
BY KeysAssumption DEF CarriedOver, Draft, Overrides, Origins

\* A Workbench starts with nothing open and nothing in flight.
LEMMA Initial == Init => IInv
<1> SUFFICES ASSUME Init PROVE IInv
  OBVIOUS
<1>1. \A r \in Requests : flight[r] = None
  BY DEF Init
<1>2. TypeOK
  BY NullAssumption DEF Init, TypeOK
<1> QED
  BY <1>1, <1>2, NullAssumption
     DEF Init, IInv, CapabilitiesFirst, DraftFits, KeysArePast, KeyStandsForDraft, OwnerIsDue,
         ReviewedIsOfOpenStructure, PreviewHasVerdict, RequestsFit, BusyIsInFlight, InFlight,
         OfCurrentDraft

\* Every action of the user, of the auto effects and of the core keeps the
\* invariant.
LEMMA Inductive == IInv /\ [Next]_vars => IInv'
<1> SUFFICES ASSUME IInv, [Next]_vars PROVE IInv'
  OBVIOUS
<1> USE NullAssumption, DefaultIsDraft, SentFits, CarriedFits
<1> USE DEF IInv, TypeOK, CapabilitiesFirst, DraftFits, KeysArePast, KeyStandsForDraft,
        OwnerIsDue, ReviewedIsOfOpenStructure, PreviewHasVerdict, RequestsFit,
        BusyIsInFlight, Pipeline, Operations, Origins, Overrides, Draft, PipelineKey, Made,
        Request, ExplainOutcome, PreviewOutcome, opened, pipeline, InFlight, CurrentKey,
        OfCurrentDraft, Explained, Previewed, Begin, Complete
<1>1. ASSUME Start PROVE IInv'
  <2>1. TypeOK'
    <3>1. PICK r \in Requests : Begin(r, "capabilities", None, None) /\ startup' = r
      BY <1>1 DEF Start
    <3>2. flight' \in [Requests -> Request \cup {None}]
      BY <3>1
    <3> QED
      BY <3>1, <3>2, <1>1, ZenonT(60) DEF Start
  <2>2. CapabilitiesFirst' /\ DraftFits'
    BY <1>1 DEF Start
  <2>3. KeysArePast'
    BY <1>1 DEF Start
  <2>4. KeyStandsForDraft'
    BY <1>1 DEF Start
  <2>5. OwnerIsDue'
    BY <1>1 DEF Start
  <2>6. ReviewedIsOfOpenStructure' /\ PreviewHasVerdict'
    BY <1>1 DEF Start
  <2>7. RequestsFit'
    BY <1>1 DEF Start
  <2>8. BusyIsInFlight'
    BY <1>1 DEF Start
  <2> QED
    BY <2>1, <2>2, <2>3, <2>4, <2>5, <2>6, <2>7, <2>8
<1>2. ASSUME NEW r \in Requests, CapabilitiesArrive(r) PROVE IInv'
  <2>1. TypeOK'
    BY <1>2 DEF CapabilitiesArrive
  <2>2. CapabilitiesFirst' /\ DraftFits'
    BY <1>2, KeysAssumption DEF CapabilitiesArrive
  <2>3. KeysArePast'
    BY <1>2 DEF CapabilitiesArrive
  <2>4. KeyStandsForDraft'
    BY <1>2 DEF CapabilitiesArrive
  <2>5. OwnerIsDue'
    BY <1>2 DEF CapabilitiesArrive
  <2>6. ReviewedIsOfOpenStructure' /\ PreviewHasVerdict'
    BY <1>2 DEF CapabilitiesArrive
  <2>7. RequestsFit'
    BY <1>2 DEF CapabilitiesArrive
  <2>8. BusyIsInFlight'
    BY <1>2 DEF CapabilitiesArrive
  <2> QED
    BY <2>1, <2>2, <2>3, <2>4, <2>5, <2>6, <2>7, <2>8
<1>3. ASSUME NEW r \in Requests, CapabilitiesFail(r) PROVE IInv'
  <2>1. TypeOK'
    BY <1>3 DEF CapabilitiesFail
  <2>2. CapabilitiesFirst' /\ DraftFits'
    BY <1>3 DEF CapabilitiesFail
  <2>3. KeysArePast'
    BY <1>3 DEF CapabilitiesFail
  <2>4. KeyStandsForDraft'
    BY <1>3 DEF CapabilitiesFail
  <2>5. OwnerIsDue'
    BY <1>3 DEF CapabilitiesFail
  <2>6. ReviewedIsOfOpenStructure' /\ PreviewHasVerdict'
    BY <1>3 DEF CapabilitiesFail
  <2>7. RequestsFit'
    BY <1>3 DEF CapabilitiesFail
  <2>8. BusyIsInFlight'
    BY <1>3 DEF CapabilitiesFail
  <2> QED
    BY <2>1, <2>2, <2>3, <2>4, <2>5, <2>6, <2>7, <2>8
<1>4. ASSUME NEW input \in Structures, OpenSource(input) PROVE IInv'
  <2>1. TypeOK'
    BY <1>4 DEF OpenSource
  <2>2. CapabilitiesFirst' /\ DraftFits'
    BY <1>4 DEF OpenSource
  <2>3. KeysArePast'
    BY <1>4 DEF OpenSource
  <2>4. KeyStandsForDraft'
    BY <1>4 DEF OpenSource
  <2>5. OwnerIsDue'
    BY <1>4 DEF OpenSource
  <2>6. ReviewedIsOfOpenStructure' /\ PreviewHasVerdict'
    BY <1>4 DEF OpenSource
  <2>7. RequestsFit'
    BY <1>4 DEF OpenSource
  <2>8. BusyIsInFlight'
    BY <1>4 DEF OpenSource
  <2> QED
    BY <2>1, <2>2, <2>3, <2>4, <2>5, <2>6, <2>7, <2>8
<1>5. ASSUME NEW r \in Requests, InspectionArrives(r) PROVE IInv'
  <2>1. TypeOK'
    BY <1>5 DEF InspectionArrives
  <2>2. CapabilitiesFirst' /\ DraftFits'
    BY <1>5 DEF InspectionArrives
  <2>3. KeysArePast'
    BY <1>5 DEF InspectionArrives
  <2>4. KeyStandsForDraft'
    BY <1>5 DEF InspectionArrives
  <2>5. OwnerIsDue'
    BY <1>5 DEF InspectionArrives
  <2>6. ReviewedIsOfOpenStructure' /\ PreviewHasVerdict'
    BY <1>5 DEF InspectionArrives
  <2>7. RequestsFit'
    BY <1>5 DEF InspectionArrives
  <2>8. BusyIsInFlight'
    BY <1>5 DEF InspectionArrives
  <2> QED
    BY <2>1, <2>2, <2>3, <2>4, <2>5, <2>6, <2>7, <2>8
<1>6. ASSUME NEW r \in Requests, InspectionFails(r) PROVE IInv'
  <2>1. TypeOK'
    BY <1>6 DEF InspectionFails
  <2>2. CapabilitiesFirst' /\ DraftFits'
    BY <1>6 DEF InspectionFails
  <2>3. KeysArePast'
    BY <1>6 DEF InspectionFails
  <2>4. KeyStandsForDraft'
    BY <1>6 DEF InspectionFails
  <2>5. OwnerIsDue'
    BY <1>6 DEF InspectionFails
  <2>6. ReviewedIsOfOpenStructure' /\ PreviewHasVerdict'
    BY <1>6 DEF InspectionFails
  <2>7. RequestsFit'
    BY <1>6 DEF InspectionFails
  <2>8. BusyIsInFlight'
    BY <1>6 DEF InspectionFails
  <2> QED
    BY <2>1, <2>2, <2>3, <2>4, <2>5, <2>6, <2>7, <2>8
<1>7. ASSUME NEW task \in Tasks, NEW k \in OverrideKeys,
            NEW value \in {structureInput, Absent}, PatchDraft(task, k, value) PROVE IInv'
  <2>1. TypeOK'
    BY <1>7 DEF PatchDraft
  <2>2. CapabilitiesFirst' /\ DraftFits'
    BY <1>7 DEF PatchDraft
  <2>3. KeysArePast'
    BY <1>7 DEF PatchDraft
  <2>4. KeyStandsForDraft'
    BY <1>7 DEF PatchDraft
  <2>5. OwnerIsDue'
    BY <1>7 DEF PatchDraft
  <2>6. ReviewedIsOfOpenStructure' /\ PreviewHasVerdict'
    BY <1>7 DEF PatchDraft
  <2>7. RequestsFit'
    BY <1>7 DEF PatchDraft
  <2>8. BusyIsInFlight'
    BY <1>7 DEF PatchDraft
  <2> QED
    BY <2>1, <2>2, <2>3, <2>4, <2>5, <2>6, <2>7, <2>8
<1>8. ASSUME ComputeReview PROVE IInv'
  <2>1. TypeOK'
    BY <1>8 DEF ComputeReview, ExplainDue
  <2>2. CapabilitiesFirst' /\ DraftFits'
    BY <1>8 DEF ComputeReview, ExplainDue
  <2>3. KeysArePast'
    BY <1>8 DEF ComputeReview, ExplainDue
  <2>4. KeyStandsForDraft'
    BY <1>8 DEF ComputeReview, ExplainDue
  <2>5. OwnerIsDue'
    BY <1>8 DEF ComputeReview, ExplainDue
  <2>6. ReviewedIsOfOpenStructure' /\ PreviewHasVerdict'
    BY <1>8 DEF ComputeReview, ExplainDue
  <2>7. RequestsFit'
    BY <1>8 DEF ComputeReview, ExplainDue
  <2>8. BusyIsInFlight'
    BY <1>8 DEF ComputeReview, ExplainDue
  <2> QED
    BY <2>1, <2>2, <2>3, <2>4, <2>5, <2>6, <2>7, <2>8
<1>9. ASSUME NEW r \in Requests, ExplainArrives(r) PROVE IInv'
  <2>1. TypeOK'
    BY <1>9 DEF ExplainArrives
  <2>2. CapabilitiesFirst' /\ DraftFits'
    BY <1>9 DEF ExplainArrives
  <2>3. KeysArePast'
    BY <1>9 DEF ExplainArrives
  <2>4. KeyStandsForDraft'
    BY <1>9 DEF ExplainArrives
  <2>5. OwnerIsDue'
    BY <1>9 DEF ExplainArrives
  <2>6. ReviewedIsOfOpenStructure' /\ PreviewHasVerdict'
    BY <1>9 DEF ExplainArrives
  <2>7. RequestsFit'
    BY <1>9 DEF ExplainArrives
  <2>8. BusyIsInFlight'
    BY <1>9 DEF ExplainArrives
  <2> QED
    BY <2>1, <2>2, <2>3, <2>4, <2>5, <2>6, <2>7, <2>8
<1>10. ASSUME NEW r \in Requests, ExplainFails(r) PROVE IInv'
  <2>1. TypeOK'
    BY <1>10 DEF ExplainFails
  <2>2. CapabilitiesFirst' /\ DraftFits'
    BY <1>10 DEF ExplainFails
  <2>3. KeysArePast'
    BY <1>10 DEF ExplainFails
  <2>4. KeyStandsForDraft'
    BY <1>10 DEF ExplainFails
  <2>5. OwnerIsDue'
    BY <1>10 DEF ExplainFails
  <2>6. ReviewedIsOfOpenStructure' /\ PreviewHasVerdict'
    BY <1>10 DEF ExplainFails
  <2>7. RequestsFit'
    BY <1>10 DEF ExplainFails
  <2>8. BusyIsInFlight'
    BY <1>10 DEF ExplainFails
  <2> QED
    BY <2>1, <2>2, <2>3, <2>4, <2>5, <2>6, <2>7, <2>8
<1>11. ASSUME RefreshArchive PROVE IInv'
  <2>1. TypeOK'
    BY <1>11 DEF RefreshArchive, PreviewDue
  <2>2. CapabilitiesFirst' /\ DraftFits'
    BY <1>11 DEF RefreshArchive, PreviewDue
  <2>3. KeysArePast'
    BY <1>11 DEF RefreshArchive, PreviewDue
  <2>4. KeyStandsForDraft'
    BY <1>11 DEF RefreshArchive, PreviewDue
  <2>5. OwnerIsDue'
    BY <1>11 DEF RefreshArchive, PreviewDue
  <2>6. ReviewedIsOfOpenStructure' /\ PreviewHasVerdict'
    BY <1>11 DEF RefreshArchive, PreviewDue
  <2>7. RequestsFit'
    BY <1>11 DEF RefreshArchive, PreviewDue
  <2>8. BusyIsInFlight'
    BY <1>11 DEF RefreshArchive, PreviewDue
  <2> QED
    BY <2>1, <2>2, <2>3, <2>4, <2>5, <2>6, <2>7, <2>8
<1>12. ASSUME NEW r \in Requests, NEW status \in {"result", "failure"},
            PreviewSettles(r, status) PROVE IInv'
  <2>1. TypeOK'
    BY <1>12 DEF PreviewSettles
  <2>2. CapabilitiesFirst' /\ DraftFits'
    BY <1>12 DEF PreviewSettles
  <2>3. KeysArePast'
    BY <1>12 DEF PreviewSettles
  <2>4. KeyStandsForDraft'
    BY <1>12 DEF PreviewSettles
  <2>5. OwnerIsDue'
    BY <1>12 DEF PreviewSettles
  <2>6. ReviewedIsOfOpenStructure' /\ PreviewHasVerdict'
    BY <1>12 DEF PreviewSettles
  <2>7. RequestsFit'
    BY <1>12 DEF PreviewSettles
  <2>8. BusyIsInFlight'
    BY <1>12 DEF PreviewSettles
  <2> QED
    BY <2>1, <2>2, <2>3, <2>4, <2>5, <2>6, <2>7, <2>8
<1>13. ASSUME DownloadReviewed PROVE IInv'
  <2>1. TypeOK'
    BY <1>13 DEF DownloadReviewed
  <2>2. CapabilitiesFirst' /\ DraftFits'
    BY <1>13 DEF DownloadReviewed
  <2>3. KeysArePast'
    BY <1>13 DEF DownloadReviewed
  <2>4. KeyStandsForDraft'
    BY <1>13 DEF DownloadReviewed
  <2>5. OwnerIsDue'
    BY <1>13 DEF DownloadReviewed
  <2>6. ReviewedIsOfOpenStructure' /\ PreviewHasVerdict'
    BY <1>13 DEF DownloadReviewed
  <2>7. RequestsFit'
    BY <1>13 DEF DownloadReviewed
  <2>8. BusyIsInFlight'
    BY <1>13 DEF DownloadReviewed
  <2> QED
    BY <2>1, <2>2, <2>3, <2>4, <2>5, <2>6, <2>7, <2>8
<1>14. ASSUME NEW r \in Requests, DropResponse(r) PROVE IInv'
  <2>1. TypeOK'
    BY <1>14 DEF DropResponse
  <2>2. CapabilitiesFirst' /\ DraftFits'
    BY <1>14 DEF DropResponse
  <2>3. KeysArePast'
    BY <1>14 DEF DropResponse
  <2>4. KeyStandsForDraft'
    BY <1>14 DEF DropResponse
  <2>5. OwnerIsDue'
    BY <1>14 DEF DropResponse
  <2>6. ReviewedIsOfOpenStructure' /\ PreviewHasVerdict'
    BY <1>14 DEF DropResponse
  <2>7. RequestsFit'
    BY <1>14 DEF DropResponse
  <2>8. BusyIsInFlight'
    BY <1>14 DEF DropResponse
  <2> QED
    BY <2>1, <2>2, <2>3, <2>4, <2>5, <2>6, <2>7, <2>8
<1>15. ASSUME NEW r \in Requests, ResponseCut(r) PROVE IInv'
  <2>1. TypeOK'
    BY <1>15 DEF ResponseCut
  <2>2. CapabilitiesFirst' /\ DraftFits'
    BY <1>15 DEF ResponseCut
  <2>3. KeysArePast'
    BY <1>15 DEF ResponseCut
  <2>4. KeyStandsForDraft'
    BY <1>15 DEF ResponseCut
  <2>5. OwnerIsDue'
    BY <1>15 DEF ResponseCut
  <2>6. ReviewedIsOfOpenStructure' /\ PreviewHasVerdict'
    BY <1>15 DEF ResponseCut
  <2>7. RequestsFit'
    BY <1>15 DEF ResponseCut
  <2>8. BusyIsInFlight'
    BY <1>15 DEF ResponseCut
  <2> QED
    BY <2>1, <2>2, <2>3, <2>4, <2>5, <2>6, <2>7, <2>8
<1>16. ASSUME RetryExplain PROVE IInv'
  <2>1. TypeOK'
    BY <1>16 DEF RetryExplain, RecordedFailure
  <2>2. CapabilitiesFirst' /\ DraftFits'
    BY <1>16 DEF RetryExplain, RecordedFailure
  <2>3. KeysArePast'
    BY <1>16 DEF RetryExplain, RecordedFailure
  <2>4. KeyStandsForDraft'
    BY <1>16 DEF RetryExplain, RecordedFailure
  <2>5. OwnerIsDue'
    BY <1>16 DEF RetryExplain, RecordedFailure
  <2>6. ReviewedIsOfOpenStructure' /\ PreviewHasVerdict'
    BY <1>16 DEF RetryExplain, RecordedFailure
  <2>7. RequestsFit'
    BY <1>16 DEF RetryExplain, RecordedFailure
  <2>8. BusyIsInFlight'
    BY <1>16 DEF RetryExplain, RecordedFailure
  <2> QED
    BY <2>1, <2>2, <2>3, <2>4, <2>5, <2>6, <2>7, <2>8
<1>17. ASSUME RetryPreview PROVE IInv'
  <2>1. TypeOK'
    BY <1>17 DEF RetryPreview, RecordedFailure
  <2>2. CapabilitiesFirst' /\ DraftFits'
    BY <1>17 DEF RetryPreview, RecordedFailure
  <2>3. KeysArePast'
    BY <1>17 DEF RetryPreview, RecordedFailure
  <2>4. KeyStandsForDraft'
    BY <1>17, SMTT(60) DEF RetryPreview, RecordedFailure
  <2>5. OwnerIsDue'
    BY <1>17 DEF RetryPreview, RecordedFailure
  <2>6. ReviewedIsOfOpenStructure' /\ PreviewHasVerdict'
    BY <1>17 DEF RetryPreview, RecordedFailure
  <2>7. RequestsFit'
    BY <1>17 DEF RetryPreview, RecordedFailure
  <2>8. BusyIsInFlight'
    BY <1>17 DEF RetryPreview, RecordedFailure
  <2> QED
    BY <2>1, <2>2, <2>3, <2>4, <2>5, <2>6, <2>7, <2>8
<1>18. ASSUME NEW op \in Operations, DismissFailure(op) PROVE IInv'
  <2>1. TypeOK'
    <3>1. Dismissed(explain) \in ExplainOutcome \cup {None}
      BY DEF Dismissed
    <3>2. Dismissed(preview) \in PreviewOutcome \cup {None}
      BY DEF Dismissed
    <3> QED
      BY <3>1, <3>2, <1>18 DEF DismissFailure
  <2>2. CapabilitiesFirst' /\ DraftFits'
    BY <1>18 DEF DismissFailure, Dismissed
  <2>3. KeysArePast'
    BY <1>18 DEF DismissFailure, Dismissed
  <2>4. KeyStandsForDraft'
    BY <1>18 DEF DismissFailure, Dismissed
  <2>5. OwnerIsDue'
    BY <1>18 DEF DismissFailure, Dismissed
  <2>6. ReviewedIsOfOpenStructure' /\ PreviewHasVerdict'
    BY <1>18 DEF DismissFailure, Dismissed
  <2>7. RequestsFit'
    BY <1>18 DEF DismissFailure, Dismissed
  <2>8. BusyIsInFlight'
    BY <1>18 DEF DismissFailure, Dismissed
  <2> QED
    BY <2>1, <2>2, <2>3, <2>4, <2>5, <2>6, <2>7, <2>8
<1>19. ASSUME Reset PROVE IInv'
  <2>1. TypeOK'
    <3>1. CASE (startup # None /\ active = startup) \/ capabilities
      BY <1>19, <3>1, ZenonT(60) DEF Reset
    <3>2. CASE ~(startup # None /\ active = startup) /\ ~capabilities
      <4>1. PICK r \in Requests : Begin(r, "capabilities", None, None) /\ startup' = r
        BY <1>19, <3>2 DEF Reset
      <4>2. flight' \in [Requests -> Request \cup {None}]
        BY <4>1
      <4> QED
        BY <4>1, <4>2, <1>19 DEF Reset
    <3> QED
      BY <3>1, <3>2
  <2>2. CapabilitiesFirst' /\ DraftFits'
    BY <1>19 DEF Reset
  <2>3. KeysArePast'
    BY <1>19 DEF Reset
  <2>4. KeyStandsForDraft'
    BY <1>19 DEF Reset
  <2>5. OwnerIsDue'
    <3>1. CASE (startup # None /\ active = startup) \/ capabilities
      BY <1>19, <3>1 DEF Reset
    <3>2. CASE ~(startup # None /\ active = startup) /\ ~capabilities
      <4>1. PICK r \in Requests : Begin(r, "capabilities", None, None) /\ startup' = r
        BY <1>19, <3>2 DEF Reset
      <4>2. flight' \in [Requests -> Request \cup {None}]
        BY <4>1
      <4> QED
        BY <4>1, <4>2, <1>19 DEF Reset
    <3> QED
      BY <3>1, <3>2
  <2>6. ReviewedIsOfOpenStructure' /\ PreviewHasVerdict'
    BY <1>19 DEF Reset
  <2>7. RequestsFit'
    BY <1>19 DEF Reset
  <2>8. BusyIsInFlight'
    BY <1>19 DEF Reset
  <2> QED
    BY <2>1, <2>2, <2>3, <2>4, <2>5, <2>6, <2>7, <2>8
<1>20. CASE UNCHANGED vars
  <2>1. TypeOK'
    BY <1>20 DEF vars
  <2>2. CapabilitiesFirst' /\ DraftFits'
    BY <1>20 DEF vars
  <2>3. KeysArePast'
    BY <1>20 DEF vars
  <2>4. KeyStandsForDraft'
    BY <1>20 DEF vars
  <2>5. OwnerIsDue'
    BY <1>20 DEF vars
  <2>6. ReviewedIsOfOpenStructure' /\ PreviewHasVerdict'
    BY <1>20 DEF vars
  <2>7. RequestsFit'
    BY <1>20 DEF vars
  <2>8. BusyIsInFlight'
    BY <1>20 DEF vars
  <2> QED
    BY <2>1, <2>2, <2>3, <2>4, <2>5, <2>6, <2>7, <2>8
<1>21. CASE UserStep
  <2>1. CASE RetryStart
    BY <2>1, <1>1 DEF RetryStart
  <2>2. CASE RetryInspect
    BY <2>2, <1>4 DEF RetryInspect, RecordedFailure
  <2>3. CASE \E input \in Structures : OpenSource(input)
    BY <2>3, <1>4
  <2>4. CASE \E task \in Tasks, k \in OverrideKeys, value \in {structureInput, Absent} :
               PatchDraft(task, k, value)
    BY <2>4, <1>7
  <2>5. CASE \E op \in Operations : DismissFailure(op)
    BY <2>5, <1>18
  <2> QED
    BY <1>21, <2>1, <2>2, <2>3, <2>4, <2>5, <1>1, <1>13, <1>16, <1>17, <1>19 DEF UserStep
<1>22. ASSUME NEW r \in Requests, Answered(r) PROVE IInv'
  BY <1>22, <1>2, <1>3, <1>5, <1>6, <1>9, <1>10, <1>12, <1>14
     DEF Answered, PreviewArrives, PreviewFails
<1> QED
  BY <1>8, <1>11, <1>15, <1>20, <1>21, <1>22 DEF Next, AutoStep

LEMMA Invariance == Spec => []IInv
<1>1. Init => IInv
  BY Initial
<1>2. IInv /\ [Next]_vars => IInv'
  BY Inductive
<1> QED
  BY <1>1, <1>2, PTL DEF Spec

-----------------------------------------------------------------------------
\* The store's fields keep their types.
THEOREM TypeCorrect == Spec => []TypeOK
<1>1. IInv => TypeOK
  BY DEF IInv
<1> QED
  BY <1>1, Invariance, PTL

\* No late response puts the recommendation of a replaced structure on screen.
THEOREM ReviewIsOfOpenStructure == Spec => []ReviewedIsOfOpenStructure
<1>1. IInv => ReviewedIsOfOpenStructure
  BY DEF IInv
<1> QED
  BY <1>1, Invariance, PTL

\* Input files are fetched and shown only beside a verdict that lets them pass.
THEOREM PreviewFollowsVerdict == Spec => []PreviewHasVerdict
<1>1. IInv => PreviewHasVerdict
  BY DEF IInv
<1> QED
  BY <1>1, Invariance, PTL

\* No request carries an override the core refuses, or one made for another
\* structure.
THEOREM OnlyFittingRequests == Spec => []RequestsFit
<1>1. IInv => RequestsFit
  BY DEF IInv
<1> QED
  BY <1>1, Invariance, PTL

\* An operation shown as in flight has a request that is in flight.
THEOREM NeverLeftBusy == Spec => []BusyIsInFlight
<1>1. IInv => BusyIsInFlight
  BY DEF IInv
<1> QED
  BY <1>1, Invariance, PTL

\* The archive on disk was made from what was on screen at the click.
THEOREM SavedArchiveIsOnScreen == Spec => SavedIsOnScreen
<1>1. IInv /\ [Next]_vars =>
        [saved' # saved => saved' = [input |-> structureInput, sent |-> Sent(draft)]]_vars
  <2> SUFFICES ASSUME IInv, Next, saved' # saved
               PROVE  saved' = [input |-> structureInput, sent |-> Sent(draft)]
    BY DEF vars
  <2>1. DownloadReviewed
    BY DEF Next, UserStep, AutoStep, Answered, Start, RetryStart, RetryInspect, RetryExplain,
           RetryPreview, Reset, OpenSource, PatchDraft, DismissFailure, ComputeReview,
           RefreshArchive, CapabilitiesArrive, CapabilitiesFail, InspectionArrives,
           InspectionFails, ExplainArrives, ExplainFails, PreviewArrives, PreviewFails,
           PreviewSettles, DropResponse, ResponseCut
  <2> QED
    BY <2>1 DEF DownloadReviewed, Previewed, IInv, KeyStandsForDraft
<1> QED
  BY <1>1, Invariance, PTL DEF Spec, SavedIsOnScreen

\* What the current draft was told it stays told: an outcome on screen is
\* replaced only with the draft or the structure.
THEOREM OutcomesAreFinal == Spec => ResultIsFinal
<1> DEFINE Kept == /\ Explained({"passes", "blocks"}) /\ CurrentKey' = CurrentKey
                        => explain' = explain
                   /\ Previewed({"result"}) /\ CurrentKey' = CurrentKey
                        => preview' = preview
<1>1. IInv /\ [Next]_vars => [Kept]_vars
  <2> SUFFICES ASSUME IInv, Next PROVE Kept
    BY DEF vars
  <2> USE DEF Explained, Previewed, OfCurrentDraft, CurrentKey, pipeline, opened
  <2>1. ASSUME NEW r \in Requests, ExplainArrives(r) \/ ExplainFails(r) PROVE Kept
    BY <2>1, NullAssumption
       DEF ExplainArrives, ExplainFails, Complete, InFlight, IInv, OwnerIsDue, Pipeline
  <2>2. ASSUME NEW r \in Requests, PreviewArrives(r) \/ PreviewFails(r) PROVE Kept
    BY <2>2, NullAssumption
       DEF PreviewArrives, PreviewFails, PreviewSettles, Complete, InFlight, IInv, OwnerIsDue,
           Pipeline
  <2>3. ASSUME NEW r \in Requests, InspectionArrives(r) PROVE Kept
    BY <2>3 DEF InspectionArrives, IInv, TypeOK
  <2>4. CASE RetryExplain \/ RetryPreview
    BY <2>4 DEF RetryExplain, RetryPreview, RecordedFailure
  <2>5. CASE \E op \in Operations : DismissFailure(op)
    BY <2>5 DEF DismissFailure, Dismissed
  <2>6. CASE Reset
    BY <2>6, NullAssumption DEF Reset, IInv, TypeOK, KeysArePast, ExplainOutcome,
       PreviewOutcome, PipelineKey
  <2>7. ASSUME NEW r \in Requests,
               CapabilitiesArrive(r) \/ CapabilitiesFail(r) \/ InspectionFails(r)
                 \/ DropResponse(r) \/ ResponseCut(r)
        PROVE  Kept
    BY <2>7 DEF CapabilitiesArrive, CapabilitiesFail, InspectionFails, DropResponse, ResponseCut
  <2>8. CASE Start \/ RetryStart \/ RetryInspect \/ DownloadReviewed \/ AutoStep
             \/ \E input \in Structures : OpenSource(input)
    BY <2>8 DEF Start, RetryStart, RetryInspect, DownloadReviewed, AutoStep, OpenSource,
                ComputeReview, RefreshArchive
  <2>9. CASE \E task \in Tasks, k \in OverrideKeys, value \in {structureInput, Absent} :
               PatchDraft(task, k, value)
    BY <2>9 DEF PatchDraft
  <2> QED
    BY <2>1, <2>2, <2>3, <2>4, <2>5, <2>6, <2>7, <2>8, <2>9 DEF Next, UserStep, AutoStep, Answered
<1> QED
  BY <1>1, Invariance, PTL DEF Spec, ResultIsFinal
-----------------------------------------------------------------------------
(* The refinement of BundlePipeline.                                       *)

\* The status depends on the open structure, the revision, what was reviewed,
\* and the outcomes' keys and statuses.
LEMMA NothingShownChanges ==
  ASSUME UNCHANGED <<structureInput, revision, reviewed>>,
         \/ explain' = explain
         \/ explain # None /\ explain' # None /\ explain'.key = explain.key
            /\ explain'.status = explain.status,
         \/ preview' = preview
         \/ preview # None /\ preview' # None /\ preview'.key = preview.key
            /\ preview'.status = preview.status
  PROVE  UNCHANGED <<BundleStatus, reviewed # None>>
<1>1. \A statuses : Explained(statuses)' <=> Explained(statuses)
  BY DEF Explained, OfCurrentDraft
<1>2. \A statuses : Previewed(statuses)' <=> Previewed(statuses)
  BY DEF Previewed, OfCurrentDraft
<1>3. OfCurrentDraft(explain)' <=> OfCurrentDraft(explain)
  BY DEF OfCurrentDraft
<1> QED
  BY <1>1, <1>2, <1>3 DEF BundleStatus

\* An outcome is something, and dismissing it changes neither its key nor its
\* status.
LEMMA OutcomeIsNotNone ==
  /\ \A key \in PipelineKey, status \in {"passes", "blocks", "failure"}, b \in BOOLEAN :
       [key |-> key, status |-> status, dismissed |-> b] # None
  /\ \A key \in PipelineKey, status \in {"result", "failure"}, b \in BOOLEAN, value \in Made :
       [key |-> key, status |-> status, dismissed |-> b, value |-> value] # None
<1>1. \A key \in PipelineKey, status \in {"passes", "blocks", "failure"}, b \in BOOLEAN :
        [key |-> key, status |-> status, dismissed |-> b] \in ExplainOutcome
  BY DEF ExplainOutcome
<1>2. \A key \in PipelineKey, status \in {"result", "failure"}, b \in BOOLEAN, value \in Made :
        [key |-> key, status |-> status, dismissed |-> b, value |-> value] \in PreviewOutcome
  BY DEF PreviewOutcome
<1> QED
  BY <1>1, <1>2, NullAssumption, Zenon

LEMMA DismissedKeeps ==
  ASSUME NEW o \in ExplainOutcome \cup PreviewOutcome
  PROVE  /\ Dismissed(o) # None /\ Dismissed(o).key = o.key
         /\ Dismissed(o).status = o.status
<1>1. CASE o \in ExplainOutcome
  <2>1. [o EXCEPT !.dismissed = TRUE] \in ExplainOutcome
    BY <1>1 DEF ExplainOutcome
  <2>2. [o EXCEPT !.dismissed = TRUE].key = o.key
    BY <1>1 DEF ExplainOutcome
  <2>3. [o EXCEPT !.dismissed = TRUE].status = o.status
    BY <1>1 DEF ExplainOutcome
  <2> QED
    BY <1>1, <2>1, <2>2, <2>3, NullAssumption, Zenon DEF Dismissed
<1>2. CASE o \in PreviewOutcome
  <2>1. [o EXCEPT !.dismissed = TRUE] \in PreviewOutcome
    BY <1>2 DEF PreviewOutcome
  <2>2. [o EXCEPT !.dismissed = TRUE].key = o.key
    BY <1>2 DEF PreviewOutcome
  <2>3. [o EXCEPT !.dismissed = TRUE].status = o.status
    BY <1>2 DEF PreviewOutcome
  <2> QED
    BY <1>2, <2>1, <2>2, <2>3, NullAssumption, Zenon DEF Dismissed
<1> QED
  BY <1>1, <1>2

\* BundleStatus, case by case.
StatusCases ==
  /\ structureInput = None => BundleStatus = "empty"
  /\ structureInput # None /\ ~OfCurrentDraft(explain) =>
       BundleStatus = IF reviewed = None THEN "computing" ELSE "recomputing"
  /\ Explained({"failure"}) => BundleStatus = "explainFailed"
  /\ Explained({"blocks"}) => BundleStatus = "blocked"
  /\ Explained({"passes"}) =>
       BundleStatus = IF Previewed({"result"}) THEN "ready"
                      ELSE IF Previewed({"failure"}) THEN "generationFailed" ELSE "generating"

LEMMA StatusByOutcome == TypeOK => StatusCases
<1> SUFFICES ASSUME TypeOK PROVE StatusCases
  OBVIOUS
<1>1. OfCurrentDraft(explain) => structureInput # None
  BY NullAssumption DEF TypeOK, OfCurrentDraft, ExplainOutcome, PipelineKey
<1> QED
  BY <1>1 DEF StatusCases, BundleStatus, Explained

\* Every step of the store is, to its user, a step of the pipeline or none.
LEMMA StepImplements == IInv /\ [Next]_vars => [Shown!Next]_<<BundleStatus, reviewed # None>>
<1> SUFFICES ASSUME IInv, [Next]_vars
             PROVE  [Shown!Next]_<<BundleStatus, reviewed # None>>
  OBVIOUS
<1> DEFINE Unseen == UNCHANGED <<BundleStatus, reviewed # None>>
<1> HIDE DEF Unseen
<1> USE NullAssumption
<1>t. TypeOK /\ TypeOK'
  BY Inductive DEF IInv
<1>s. StatusCases /\ StatusCases'
  <2>1. (TypeOK => StatusCases)'
    BY StatusByOutcome, PTL
  <2> QED
    BY <1>t, <2>1, StatusByOutcome
<1>1. CASE Start \/ RetryStart \/ RetryInspect \/ DownloadReviewed \/ AutoStep
           \/ \E input \in Structures : OpenSource(input)
  BY <1>1, NothingShownChanges
     DEF Start, RetryStart, RetryInspect, DownloadReviewed, AutoStep, OpenSource, ComputeReview,
         RefreshArchive, opened, pipeline
<1>2. ASSUME NEW r \in Requests,
             CapabilitiesArrive(r) \/ CapabilitiesFail(r) \/ InspectionFails(r)
               \/ DropResponse(r) \/ ResponseCut(r)
      PROVE  UNCHANGED <<BundleStatus, reviewed # None>>
  BY <1>2, NothingShownChanges
     DEF CapabilitiesArrive, CapabilitiesFail, InspectionFails, DropResponse, ResponseCut,
         opened, pipeline
<1>3. ASSUME NEW op \in Operations, DismissFailure(op)
      PROVE  UNCHANGED <<BundleStatus, reviewed # None>>
  <2>1. Dismissed(None) = None
    BY DEF Dismissed
  <2> QED
    BY <1>3, <1>t, <2>1, DismissedKeeps, NothingShownChanges DEF DismissFailure, opened, TypeOK
<1>4. ASSUME NEW r \in Requests, InspectionArrives(r) PROVE Shown!Next
  <2>1. structureInput' # None /\ explain' = None /\ reviewed' = None
    BY <1>4, <1>t DEF InspectionArrives, InFlight, IInv, CapabilitiesFirst, TypeOK, Request,
                      PipelineKey
  <2>2. BundleStatus' = "computing"
    BY <1>s, <2>1 DEF StatusCases, OfCurrentDraft
  <2> QED
    BY <2>1, <2>2 DEF Shown!Next, Shown!Open, Shown!Wait
<1>5. ASSUME NEW task \in Tasks, NEW k \in OverrideKeys,
             NEW value \in {structureInput, Absent}, PatchDraft(task, k, value)
      PROVE  [Shown!Next]_<<BundleStatus, reviewed # None>>
  <2>1. UNCHANGED <<structureInput, reviewed, explain>> /\ revision' = revision + 1
    BY <1>5 DEF PatchDraft, pipeline
  <2>2. CASE structureInput = None
    <3>1. BundleStatus = "empty" /\ BundleStatus' = "empty"
      BY <1>s, <2>1, <2>2 DEF StatusCases
    <3> QED
      BY <2>1, <3>1
  <2>3. CASE structureInput # None
    <3>1. ~OfCurrentDraft(explain)'
      BY <2>1, <1>t DEF IInv, KeysArePast, OfCurrentDraft, TypeOK, ExplainOutcome, PipelineKey
    <3>2. BundleStatus # "empty"
      <4>1. OfCurrentDraft(explain) => explain.status \in {"passes", "blocks", "failure"}
        BY <1>t DEF TypeOK, OfCurrentDraft, ExplainOutcome
      <4> QED
        BY <1>s, <2>3, <4>1 DEF StatusCases, Explained
    <3>3. BundleStatus' = IF reviewed = None THEN "computing" ELSE "recomputing"
      BY <1>s, <2>1, <2>3, <3>1 DEF StatusCases
    <3> QED
      BY <2>1, <3>2, <3>3 DEF Shown!Next, Shown!Edit, Shown!Wait
  <2> QED
    BY <2>2, <2>3
<1>6. ASSUME NEW r \in Requests, ExplainArrives(r) \/ ExplainFails(r)
      PROVE  /\ structureInput # None
             /\ flight[r].key \in PipelineKey /\ flight[r].key.input = structureInput
             /\ ~OfCurrentDraft(explain) /\ ~OfCurrentDraft(preview)
             /\ BundleStatus = IF reviewed = None THEN "computing" ELSE "recomputing"
  <2>1. active = r /\ flight[r] # None /\ flight[r].operation = "explain"
    BY <1>6 DEF ExplainArrives, ExplainFails, Complete, InFlight
  <2>2. /\ flight[r].key \in PipelineKey /\ flight[r].key.input = structureInput
        /\ ~OfCurrentDraft(explain)
    BY <2>1, <1>t DEF IInv, OwnerIsDue, KeysArePast, Pipeline, TypeOK, Request
  <2>3. structureInput # None /\ ~OfCurrentDraft(preview)
    BY <2>2 DEF IInv, PreviewHasVerdict, Explained, PipelineKey
  <2> QED
    BY <1>s, <2>2, <2>3 DEF StatusCases
<1>7. ASSUME NEW r \in Requests, ExplainArrives(r) PROVE Shown!Next
  <2>1. /\ explain' # None /\ explain'.key = flight[r].key
        /\ explain'.status \in {"passes", "blocks"} /\ reviewed' = flight[r].key
        /\ UNCHANGED <<structureInput, revision, preview>>
    <3>1. PICK verdict \in {"passes", "blocks"} :
            explain' = [key |-> flight[r].key, status |-> verdict, dismissed |-> FALSE]
      BY <1>7 DEF ExplainArrives
    <3>2. explain' # None
      BY <1>6, <1>7, <3>1, OutcomeIsNotNone
    <3>3. explain'.key = flight[r].key /\ explain'.status = verdict
      BY <3>1
    <3> QED
      BY <1>7, <3>2, <3>3 DEF ExplainArrives, opened
  <2>2. reviewed' # None
    BY <1>6, <1>7, <2>1
  <2>3. BundleStatus' \in {"blocked", "generating", "recomputing"}
    <3>1. ~OfCurrentDraft(preview)' /\ structureInput' # None
      BY <1>6, <1>7, <2>1 DEF OfCurrentDraft
    <3>2. CASE OfCurrentDraft(explain)'
      BY <1>s, <2>1, <3>1, <3>2 DEF StatusCases, Explained, Previewed
    <3>3. CASE ~OfCurrentDraft(explain)'
      BY <1>s, <2>2, <3>1, <3>3 DEF StatusCases
    <3> QED
      BY <3>2, <3>3
  <2> QED
    BY <1>6, <1>7, <2>2, <2>3 DEF Shown!Next, Shown!Recommend, Shown!Waiting
<1>8. ASSUME NEW r \in Requests, ExplainFails(r)
      PROVE  [Shown!Next]_<<BundleStatus, reviewed # None>>
  <2>1. /\ explain' # None /\ explain'.key = flight[r].key /\ explain'.status = "failure"
        /\ UNCHANGED <<structureInput, revision, reviewed, preview>>
    BY <1>6, <1>8, OutcomeIsNotNone DEF ExplainFails, opened
  <2>2. CASE OfCurrentDraft(explain)'
    <3>1. BundleStatus' = "explainFailed"
      BY <1>s, <1>6, <1>8, <2>1, <2>2 DEF StatusCases, Explained
    <3> QED
      BY <1>6, <1>8, <2>1, <3>1 DEF Shown!Next, Shown!FailToRecommend, Shown!Waiting
  <2>3. CASE ~OfCurrentDraft(explain)'
    <3>1. BundleStatus' = BundleStatus
      BY <1>s, <1>6, <1>8, <2>1, <2>3 DEF StatusCases
    <3> QED
      BY <2>1, <3>1
  <2> QED
    BY <2>2, <2>3
<1>9. ASSUME NEW r \in Requests, NEW status \in {"result", "failure"}, PreviewSettles(r, status)
      PROVE  [Shown!Next]_<<BundleStatus, reviewed # None>>
  <2>1. active = r /\ flight[r] # None /\ flight[r].operation = "preview"
    BY <1>9 DEF PreviewSettles, Complete, InFlight
  <2>2. /\ flight[r].key \in PipelineKey /\ flight[r].key.input = structureInput
        /\ ~OfCurrentDraft(preview)
    BY <2>1, <1>t DEF IInv, OwnerIsDue, KeysArePast, Pipeline, TypeOK, Request
  <2>3. /\ preview' # None /\ preview'.key = flight[r].key /\ preview'.status = status
        /\ UNCHANGED <<structureInput, revision, reviewed, explain>>
    <3>1. [input |-> flight[r].key.input, sent |-> flight[r].sent] \in Made
      BY <1>t, <2>1, <2>2 DEF TypeOK, Request, Made, PipelineKey, IInv, KeysArePast, Pipeline
    <3> QED
      BY <1>9, <2>2, <3>1, OutcomeIsNotNone DEF PreviewSettles, opened
  <2>4. /\ \A statuses : Explained(statuses)' <=> Explained(statuses)
        /\ OfCurrentDraft(explain)' <=> OfCurrentDraft(explain)
    BY <2>3 DEF Explained, OfCurrentDraft
  <2>5. CASE OfCurrentDraft(preview)'
    <3>1. flight[r].key = CurrentKey
      BY <2>2, <2>3, <2>5 DEF OfCurrentDraft, CurrentKey, PipelineKey
    <3>2. Explained({"passes"})
      BY <2>1, <3>1 DEF IInv, PreviewHasVerdict, InFlight
    <3>3. structureInput # None /\ OfCurrentDraft(explain) /\ explain.status = "passes"
      BY <2>2, <3>2 DEF Explained, PipelineKey
    <3>4. BundleStatus = "generating"
      BY <1>s, <2>2, <3>3 DEF StatusCases, Explained, Previewed
    <3>5. BundleStatus' \in {"ready", "generationFailed"}
      BY <1>s, <2>3, <2>4, <2>5, <3>3 DEF StatusCases, Explained, Previewed
    <3> QED
      BY <2>3, <3>4, <3>5 DEF Shown!Next, Shown!Generate
  <2>6. CASE ~OfCurrentDraft(preview)'
    <3>1. BundleStatus' = BundleStatus
      BY <2>2, <2>3, <2>4, <2>6 DEF BundleStatus, Previewed
    <3> QED
      BY <2>3, <3>1
  <2> QED
    BY <2>5, <2>6
<1>10. ASSUME RetryExplain PROVE Shown!Next
  <2>1. /\ OfCurrentDraft(explain) /\ explain.status = "failure"
        /\ explain' = None /\ UNCHANGED <<structureInput, revision, reviewed>>
    BY <1>10 DEF RetryExplain, RecordedFailure, Explained, opened
  <2>2. structureInput # None
    BY <2>1, <1>t DEF OfCurrentDraft, TypeOK, ExplainOutcome, PipelineKey
  <2>3. BundleStatus = "explainFailed"
    BY <1>s, <2>1, <2>2 DEF StatusCases, Explained
  <2>4. BundleStatus' = IF reviewed = None THEN "computing" ELSE "recomputing"
    BY <1>s, <2>1, <2>2 DEF StatusCases, OfCurrentDraft
  <2> QED
    BY <2>1, <2>3, <2>4 DEF Shown!Next, Shown!RetryRecommendation, Shown!Wait
<1>11. ASSUME RetryPreview PROVE Shown!Next
  <2>1. /\ OfCurrentDraft(preview) /\ preview.status = "failure"
        /\ preview' = None /\ UNCHANGED <<structureInput, revision, reviewed, explain>>
    BY <1>11 DEF RetryPreview, RecordedFailure, Previewed, opened
  <2>2. OfCurrentDraft(explain) /\ explain.status = "passes"
    BY <2>1 DEF IInv, PreviewHasVerdict, Explained
  <2>3. structureInput # None
    BY <2>2, <1>t DEF OfCurrentDraft, TypeOK, ExplainOutcome, PipelineKey
  <2>4. BundleStatus = "generationFailed"
    BY <1>s, <2>1, <2>2, <2>3 DEF StatusCases, Explained, Previewed
  <2>5. BundleStatus' = "generating"
    BY <1>s, <2>1, <2>2, <2>3 DEF StatusCases, Explained, Previewed, OfCurrentDraft
  <2> QED
    BY <2>1, <2>4, <2>5 DEF Shown!Next, Shown!RetryGeneration
<1>12. ASSUME Reset PROVE Shown!Next
  <2>1. structureInput' = None /\ reviewed' = None
    BY <1>12 DEF Reset
  <2>2. BundleStatus' = "empty"
    BY <1>s, <2>1 DEF StatusCases
  <2> QED
    BY <2>1, <2>2 DEF Shown!Next, Shown!Reset
<1>13. CASE UNCHANGED vars
  BY <1>13, NothingShownChanges DEF vars, opened, pipeline
<1> QED
  BY <1>1, <1>2, <1>3, <1>4, <1>5, <1>7, <1>8, <1>9, <1>10, <1>11, <1>12, <1>13
     DEF Next, UserStep, AutoStep, Answered, PreviewArrives, PreviewFails

\* What the user is shown of a structure moves as BundlePipeline says: input
\* files that are ready are lost only to an edit, another structure or a reset,
\* and a failure is left only by those or by a retry.
THEOREM PipelineIsShown == Spec => ImplementsBundlePipeline
<1>1. Init => Shown!Init
  BY NullAssumption DEF Init, Shown!Init, BundleStatus, Explained, OfCurrentDraft
<1> QED
  BY <1>1, Invariance, StepImplements, PTL DEF Spec, ImplementsBundlePipeline, Shown!Spec
=============================================================================
