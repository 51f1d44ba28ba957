----------------------------- MODULE CallServer -----------------------------
(***************************************************************************)
(* What worker_process.py promises its callers, without processes or       *)
(* pipes.  A call is queued, is executed at most once, while no other call *)
(* of the same queue is being executed, and ends with the answer to that   *)
(* very execution or with a failure.  A failed call is never executed      *)
(* again behind its caller's back.                                         *)
(***************************************************************************)

CONSTANTS Calls,     \* one element per invocation
          Rankings   \* the invocations that queue for the ranking slot

VARIABLE phase       \* phase[c]: how far the call c has come

Phases == {"new", "queued", "executing", "answered", "failed"}

TypeOK == phase \in [Calls -> Phases]

SameQueue(c, d) == c \in Rankings <=> d \in Rankings

Move(c, from, to) ==
  /\ phase[c] \in from
  /\ phase' = [phase EXCEPT ![c] = to]

Init == phase = [c \in Calls |-> "new"]

Open(c) == Move(c, {"new"}, "queued")

Execute(c) ==
  /\ \A d \in Calls : SameQueue(c, d) => phase[d] # "executing"
  /\ Move(c, {"queued"}, "executing")

Answer(c) == Move(c, {"executing"}, "answered")

Fail(c) == Move(c, {"new", "queued", "executing"}, "failed")

Next == \E c \in Calls : Open(c) \/ Execute(c) \/ Answer(c) \/ Fail(c)

Spec == Init /\ [][Next]_phase
=============================================================================
