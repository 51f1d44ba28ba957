--------------------------- MODULE BundlePublish ---------------------------
(***************************************************************************)
(* Publishing a bundle, src/src/goldilocks_core/bundle.py: publish writes  *)
(* it to a directory or an archive nobody else has claimed, and a marker   *)
(* written last tells consumers (is_complete) that it is all there.        *)
(*                                                                         *)
(* The module is about one target.  A part is a file of the directory, or  *)
(* a stretch of the archive; a part being written is Torn.  Each publisher *)
(* is one call of publish, in a process of its own: it may fail, be        *)
(* interrupted, or be killed at any step.  Once nobody writes, the user    *)
(* may delete the target, and with an archive forget the marker beside it. *)
(***************************************************************************)
EXTENDS Naturals

CONSTANTS
  Publishers,  \* calls of publish on the target
  Parts,       \* parts of a bundle, 1 .. Parts
  None, Torn   \* no such part; a part not all written

ASSUME PartsAssumption == Parts \in Nat \ {0}
ASSUME NullAssumption == None \notin Publishers /\ Torn \notin Publishers /\ None # Torn

VARIABLES
  isArchive, \* whether the target is an archive, or a directory
  exists,  \* the target exists
  held,    \* held[i]: whose part i the target holds
  marker,  \* the completion marker exists
  pc,      \* where each publisher stands
  at,      \* the part it writes next
  early,   \* publishers interrupted before the try, the name theirs
  late,    \* publishers interrupted in the try, the marker written
  kept,    \* publishers that could not remove what they wrote
  stale    \* the marker is of an archive the user deleted since

disk == <<isArchive, exists, held, marker>>
log == <<early, late, kept, stale>>  \* history: no guard reads it
vars == <<disk, pc, at, log>>

Part == 1 .. Parts
Empty == [i \in Part |-> None]
Writing == {"claimed", "write", "open", "marked", "removing"}
Ended == {"published", "refused", "failed", "killed", "deleted"}

TypeOK ==
  /\ isArchive \in BOOLEAN /\ exists \in BOOLEAN /\ marker \in BOOLEAN
  /\ held \in [Part -> Publishers \cup {None, Torn}]
  /\ pc \in [Publishers -> {"idle"} \cup Writing \cup Ended]
  /\ at \in [Publishers -> 1 .. Parts + 1]
  /\ early \subseteq Publishers /\ late \subseteq Publishers /\ kept \subseteq Publishers
  /\ stale \in BOOLEAN

Init ==
  /\ isArchive \in BOOLEAN
  /\ exists = FALSE /\ held = Empty /\ marker = FALSE
  /\ pc = [p \in Publishers |-> "idle"]
  /\ at = [p \in Publishers |-> 1]
  /\ early = {} /\ late = {} /\ kept = {} /\ stale = FALSE

\* What is_complete answers: a marker in the directory, or beside the archive.
IsComplete == marker

\* Every part of the bundle p publishes is there.
Whole(p) == exists /\ held = [i \in Part |-> p]

Goto(p, to) == pc' = [pc EXCEPT ![p] = to]

-----------------------------------------------------------------------------
(* publish.                                                                *)

\* target.mkdir, os.open(O_EXCL): the name is free and p takes it.
Claim(p) ==
  /\ pc[p] = "idle"
  /\ ~exists
  /\ exists' = TRUE
  /\ Goto(p, "claimed")
  /\ UNCHANGED <<isArchive, held, marker, at, log>>

\* An interrupt before the try: no handler runs.
InterruptEarly(p) ==
  /\ pc[p] = "claimed"
  /\ early' = early \cup {p}
  /\ Goto(p, "failed")
  /\ UNCHANGED <<disk, at, late, kept, stale>>

\* The try is entered.
Enter(p) ==
  /\ pc[p] = "claimed"
  /\ Goto(p, "write")
  /\ UNCHANGED <<disk, at, log>>

\* Mutant of Refuse: the claim is made inside the try, whose handler removes
\* the target.
RefuseAndRemove(p) ==
  /\ pc[p] = "idle"
  /\ exists
  /\ Goto(p, "removing")
  /\ UNCHANGED <<disk, at, log>>

\* FileExistsError.
Refuse(p) ==
  /\ pc[p] = "idle"
  /\ exists
  /\ Goto(p, "refused")
  /\ UNCHANGED <<disk, at, log>>

\* The next part is begun, and then all there.
Open(p) ==
  /\ pc[p] = "write" /\ at[p] <= Parts
  /\ held[at[p]] = None
  /\ held' = [held EXCEPT ![at[p]] = Torn]
  /\ Goto(p, "open")
  /\ UNCHANGED <<isArchive, exists, marker, at, log>>

Write(p) ==
  /\ pc[p] = "open"
  /\ held' = [held EXCEPT ![at[p]] = p]
  /\ at' = [at EXCEPT ![p] = @ + 1]
  /\ Goto(p, "write")
  /\ UNCHANGED <<isArchive, exists, marker, log>>

\* Mutant of Mark: before the last part.
MarkEarly(p) ==
  /\ pc[p] = "write" /\ at[p] >= Parts
  /\ marker' = TRUE
  /\ Goto(p, IF at[p] = Parts + 1 THEN "marked" ELSE "write")
  /\ UNCHANGED <<isArchive, exists, held, at, log>>

\* The marker is touched.
Mark(p) ==
  /\ pc[p] = "write" /\ at[p] = Parts + 1
  /\ marker' = TRUE
  /\ Goto(p, "marked")
  /\ UNCHANGED <<isArchive, exists, held, at, log>>

Return(p) ==
  /\ pc[p] = "marked"
  /\ Goto(p, "published")
  /\ UNCHANGED <<disk, at, log>>

\* An interrupt once the try is left: the bundle is published, p does not know.
InterruptReturn(p) ==
  /\ pc[p] = "marked"
  /\ Goto(p, "failed")
  /\ UNCHANGED <<disk, at, log>>

-----------------------------------------------------------------------------
(* except BaseException: the target is removed.                            *)

\* Mutant of Fail: the exception leaves what was written.
FailAndKeep(p) ==
  /\ pc[p] \in {"write", "open"}
  /\ Goto(p, "failed")
  /\ UNCHANGED <<disk, at, log>>

\* Writing a part or the marker raises.
Fail(p) ==
  /\ pc[p] \in {"write", "open"}
  /\ Goto(p, "removing")
  /\ UNCHANGED <<disk, at, log>>

\* An interrupt (KeyboardInterrupt) between the marker and the end of the try.
InterruptLate(p) ==
  /\ pc[p] = "marked"
  /\ late' = late \cup {p}
  /\ Goto(p, "removing")
  /\ UNCHANGED <<disk, at, early, kept, stale>>

\* shutil.rmtree goes through the directory in any order.
RemovePart(p) ==
  /\ pc[p] = "removing" /\ ~isArchive
  /\ \E i \in Part : held[i] # None /\ held' = [held EXCEPT ![i] = None]
  /\ UNCHANGED <<isArchive, exists, marker, pc, at, log>>

RemoveMarker(p) ==
  /\ pc[p] = "removing" /\ ~isArchive
  /\ marker
  /\ marker' = FALSE
  /\ UNCHANGED <<isArchive, exists, held, pc, at, log>>

\* The empty directory goes last; target.unlink takes the archive at once, and
\* leaves the marker beside it.
RemoveTarget(p) ==
  /\ pc[p] = "removing"
  /\ isArchive \/ (held = Empty /\ ~marker)
  /\ exists' = FALSE /\ held' = Empty
  /\ Goto(p, "failed")
  /\ UNCHANGED <<isArchive, marker, at, log>>

\* ignore_errors=True for the directory; an archive's unlink raises instead.
RemovalFails(p) ==
  /\ pc[p] = "removing"
  /\ kept' = kept \cup {p}
  /\ Goto(p, "failed")
  /\ UNCHANGED <<disk, at, early, late, stale>>

\* SIGKILL, out of memory: no handler runs.
Kill(p) ==
  /\ pc[p] \in Writing
  /\ Goto(p, "killed")
  /\ UNCHANGED <<disk, at, log>>

\* The user deletes what publishers left, an archive with or without the marker
\* beside it, while none is writing.
Delete(forgets) ==
  /\ exists /\ \A p \in Publishers : pc[p] \notin Writing
  /\ forgets => isArchive
  /\ exists' = FALSE /\ held' = Empty
  /\ marker' = (marker /\ forgets) /\ stale' = (marker /\ forgets)
  /\ pc' = [p \in Publishers |-> IF pc[p] \in {"published", "killed"} THEN "deleted" ELSE pc[p]]
  /\ early' = {} /\ kept' = {}
  /\ UNCHANGED <<isArchive, at, late>>

Publish(p) ==
  \/ Claim(p) \/ Enter(p) \/ Refuse(p) \/ Open(p) \/ Write(p) \/ Mark(p) \/ Return(p)
  \/ InterruptEarly(p) \/ Fail(p) \/ InterruptLate(p) \/ InterruptReturn(p) \/ Kill(p)
  \/ RemovePart(p) \/ RemoveMarker(p) \/ RemoveTarget(p) \/ RemovalFails(p)

Next == (\E p \in Publishers : Publish(p)) \/ (\E forgets \in BOOLEAN : Delete(forgets))

Spec == Init /\ [][Next]_vars

-----------------------------------------------------------------------------
(* Properties.                                                             *)

\* bundle.py:53, "the marker is written strictly last, after every byte is on
\* disk": a marked target is all of one bundle, whatever failed or was killed,
\* but for an interrupt right after the marker, or a marker the user forgot.
MarkedIsWhole ==
  late = {} /\ ~stale /\ IsComplete => \E p \in Publishers : Whole(p)

\* Nobody writes into a target another publisher claimed, and no one who was
\* refused, or failed, removes it: what publish returned stays as it is, until
\* the user deletes it.
PublishedStays ==
  \A p \in Publishers : pc[p] = "published" => Whole(p) /\ IsComplete

\* No publisher is at work, and none of those whose leavings are there was killed.
Settled == \A p \in Publishers : pc[p] \notin Writing \cup {"killed"}

\* bundle.py:41, "no partial output survives a catchable failure": once every
\* publisher returned or raised, the name is free again, or the target is whole
\* and marked, unless a publisher could not remove it.  Only an interrupt between
\* the claim and the try leaves the name taken, and then no part of a bundle.
NoPartialOutput ==
  Settled /\ kept = {} =>
    \/ ~exists
    \/ IsComplete /\ \E p \in Publishers : Whole(p)
    \/ early # {} /\ held = Empty

\* bundle.py:53-54 and 264-269, of an archive whose marker no user forgot: not so
\* when an interrupt comes right after the marker, and the handler removes the
\* archive but not the marker beside it.
CompleteMeansWhole ==
  isArchive /\ ~stale /\ IsComplete => \E p \in Publishers : Whole(p)
=============================================================================
