----------------------------- MODULE Readiness -----------------------------
(***************************************************************************)
(* The server's asset readiness, src/src/goldilocks_core/server/           *)
(* readiness.py: GET /ready answers from a cached report as long as the    *)
(* files it was made from look unchanged.  Checks take turns under a lock, *)
(* so one check is modelled; the assets change under it at any step.       *)
(*                                                                         *)
(* AssetStore models how one asset changes; here an asset is missing,      *)
(* corrupt or installed.  A change of the files its manifest lists gives   *)
(* them another stat (a missing asset always has the same one); one of the *)
(* others, deep in its directories, does not.                              *)
(***************************************************************************)
EXTENDS Naturals

CONSTANTS N,           \* the assets 1 .. N of the workbench profile, in order
          MaxChanges,  \* bound on the changes of the assets (model checking only)
          NoState      \* no state yet

ASSUME NAssumption == N \in Nat \ {0} /\ MaxChanges \in Nat

VARIABLES
  status,   \* status[a]: what verify_spec would find
  stamp,    \* stamp[a]: the size and mtime of the files it lists
  changes,  \* changes so far
  stage,    \* where the check stands
  next,     \* the asset it comes to next
  seen,     \* the stats it has collected
  state,    \* AssetReadiness._state
  report,   \* AssetReadiness._report: 0 for ready, or the first asset that is not
  how,      \* and how that asset was found
  quiet,    \* no asset changed since the check began
  raced,    \* an asset changed while the cached report was being made
  unseen    \* one changed since the report was made, and its stats did not

assets == <<status, stamp, changes>>
cache == <<state, report, how, raced, unseen>>
readiness == <<assets, stage, next, seen, cache, quiet>>

Assets == 1 .. N
Statuses == {"missing", "corrupt", "installed"}
Stats == [Assets -> Nat]

ASSUME NoStateIsNoStats == NoState \notin Stats

ReadinessTypeOK ==
  /\ status \in [Assets -> Statuses]
  /\ stamp \in Stats
  /\ changes \in Nat
  /\ stage \in {"idle", "before", "verify", "after", "replied"}
  /\ next \in 1 .. N + 1
  /\ seen \in Stats
  /\ state \in Stats \cup {NoState}
  /\ report \in 0 .. N
  /\ how \in Statuses
  /\ quiet \in BOOLEAN /\ raced \in BOOLEAN /\ unseen \in BOOLEAN

StartServer ==
  /\ status \in [Assets -> Statuses]
  /\ stamp = [a \in Assets |-> IF status[a] = "missing" THEN 0 ELSE 1]
  /\ changes = 1
  /\ stage = "idle" /\ next = 1 /\ seen = [a \in Assets |-> 0]
  /\ state = NoState
  /\ report = 0 /\ how = "installed"
  /\ quiet = TRUE /\ raced = FALSE /\ unseen = FALSE

-----------------------------------------------------------------------------
(* The check.                                                              *)

Begin ==
  /\ stage \in {"idle", "replied"}
  /\ stage' = "before" /\ next' = 1 /\ quiet' = TRUE
  /\ UNCHANGED <<assets, seen, cache>>

\* Mutant of Look: only whether the asset is there.
LookAtRoot ==
  /\ stage \in {"before", "after"} /\ next <= N
  /\ seen' = [seen EXCEPT ![next] = IF status[next] = "missing" THEN 0 ELSE 1]
  /\ next' = next + 1
  /\ UNCHANGED <<assets, stage, cache, quiet>>

\* _filesystem_state, asset by asset.
Look ==
  /\ stage \in {"before", "after"} /\ next <= N
  /\ seen' = [seen EXCEPT ![next] = stamp[next]]
  /\ next' = next + 1
  /\ UNCHANGED <<assets, stage, cache, quiet>>

\* state == self._state: the cached report is returned.
Reuse ==
  /\ stage = "before" /\ next = N + 1
  /\ seen = state
  /\ stage' = "replied"
  /\ UNCHANGED <<assets, next, seen, cache, quiet>>

Distrust ==
  /\ stage = "before" /\ next = N + 1
  /\ seen # state
  /\ stage' = "verify" /\ next' = 1
  /\ UNCHANGED <<assets, seen, cache, quiet>>

\* _verify_profile: the next asset is installed.
Pass ==
  /\ stage = "verify" /\ next <= N
  /\ status[next] = "installed"
  /\ next' = next + 1
  /\ UNCHANGED <<assets, stage, seen, cache, quiet>>

\* The profile is ready, or an asset is missing or corrupt: self._report is set.
Conclude ==
  /\ stage = "verify"
  /\ IF next = N + 1
     THEN report' = 0 /\ how' = "installed"
     ELSE status[next] # "installed" /\ report' = next /\ how' = status[next]
  /\ stage' = "after" /\ next' = 1 /\ unseen' = FALSE
  /\ UNCHANGED <<assets, seen, state, raced, quiet>>

\* verify_spec raises something else (an OSError): the check does, too, and the
\* cache stays as it is.
Raise ==
  /\ stage = "verify" /\ next <= N
  /\ status[next] = "missing"
  /\ stage' = "idle"
  /\ UNCHANGED <<assets, next, seen, cache, quiet>>

\* self._state = self._filesystem_state()
Remember ==
  /\ stage = "after" /\ next = N + 1
  /\ state' = seen
  /\ raced' = ~quiet
  /\ stage' = "replied"
  /\ UNCHANGED <<assets, next, seen, report, how, unseen, quiet>>

-----------------------------------------------------------------------------
\* An asset is installed, removed or damaged.
Change(a) ==
  /\ changes < MaxChanges
  /\ changes' = changes + 1
  /\ \E s \in Statuses :
       /\ status' = [status EXCEPT ![a] = s]
       /\ stamp' = [stamp EXCEPT ![a] = IF s = "missing" THEN 0 ELSE changes']
  /\ quiet' = FALSE
  /\ UNCHANGED <<stage, next, seen, cache>>

\* A file no manifest lists appears in, or goes from, a directory below the
\* asset's own: verify_spec finds it, and the stats are what they were.
Slip(a) ==
  /\ changes < MaxChanges
  /\ changes' = changes + 1
  /\ status[a] # "missing"
  /\ status' = [status EXCEPT ![a] = IF @ = "corrupt" THEN "installed" ELSE "corrupt"]
  /\ quiet' = FALSE /\ unseen' = TRUE
  /\ UNCHANGED <<stamp, stage, next, seen, state, report, how, raced>>

CheckOrChange ==
  \/ Begin \/ Look \/ Reuse \/ Distrust \/ Pass \/ Conclude \/ Raise \/ Remember
  \/ \E a \in Assets : Change(a) \/ Slip(a)

ReadinessSpec == StartServer /\ [][CheckOrChange]_readiness

-----------------------------------------------------------------------------
(* Properties.                                                             *)

\* What a report says of the assets as they are: all of them are installed, or
\* the first that is not is named, with what is wrong.
Truthful(asset, found) ==
  /\ \A a \in Assets : a < asset \/ asset = 0 => status[a] = "installed"
  /\ asset # 0 => found = status[asset] /\ found # "installed"

\* If no asset changed since the check began, its answer is true, cached or not,
\* unless one changed during the verification that filled the cache, or later and
\* out of sight of the stats: a slip lasts until the next verification.
SoundUnlessRaced ==
  stage = "replied" /\ quiet /\ ~raced /\ ~unseen => Truthful(report, how)
=============================================================================
