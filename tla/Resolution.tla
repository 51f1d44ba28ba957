----------------------------- MODULE Resolution -----------------------------
(***************************************************************************)
(* The states of an advised field, src/src/goldilocks_core/resolution.py:  *)
(* a value with the tier that decided it, a reason it has no value, or the *)
(* field that is missing upstream.  A chain of blocked fields is kept as   *)
(* its root cause.                                                         *)
(***************************************************************************)
EXTENDS Naturals

Resolved(value, source) ==
  [ok |-> TRUE, status |-> "resolved", value |-> value, source |-> source]

Unavailable(reason) == [ok |-> FALSE, status |-> "unavailable", by |-> reason]

Blocked(cause) == [ok |-> FALSE, status |-> "blocked", by |-> cause]

\* Blocked(by=blocked_by(state)): the root cause of a blocked field is passed
\* on, and a field without a value is a cause itself.
BlockedBy(state) == Blocked(state.by)

\* The first state of a sequence that has no value, or the last.
FirstUnresolved(states) ==
  LET missing == {i \in DOMAIN states : ~states[i].ok}
  IN  IF missing = {} THEN states[CHOOSE i \in DOMAIN states : i + 1 \notin DOMAIN states]
      ELSE states[CHOOSE i \in missing : \A j \in missing : i <= j]

\* collect_blocked: the root causes of the blocked fields of a record or sequence.
RootCauses(states) == {states[f].by : f \in {x \in DOMAIN states : states[x].status = "blocked"}}
=============================================================================
