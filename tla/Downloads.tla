------------------------------ MODULE Downloads ------------------------------
(***************************************************************************)
(* Fetching one file of an asset, src/src/goldilocks_core/assets/          *)
(* download.py: whole attempts, each one stream or several ranges that a   *)
(* pool of threads writes into one file, and a verification at the end.    *)
(*                                                                         *)
(* The file is cut into one piece for each range connection.  A server may *)
(* refuse any request, break off any body, answer a range with the whole   *)
(* file, send fewer or other bytes than the source has, and give its       *)
(* length as no number; any write to the disk may fail.                    *)
(***************************************************************************)
EXTENDS Naturals, Sequences

CONSTANTS
  Connections,  \* _RANGE_CONNECTIONS
  Attempts      \* _SOURCE_ATTEMPTS

ASSUME ConnectionsAssumption == Connections \in Nat /\ Connections > 1
ASSUME AttemptsAssumption == Attempts \in Nat \ {0}

VARIABLES
  sized, summed,  \* whether the record of the file has a size, and a checksum
  pc,       \* where the caller of download stands
  attempt,  \* the attempt it makes
  dest,     \* the destination: NoFile, or the pieces it holds
  range,    \* what each thread of the pool does
  raised,   \* the exception on its way out of the pool
  refused,  \* a request failed in this attempt
  tampered, \* an answer of this attempt was not the source's, in bytes or length
  diskFault \* a write failed

record == <<sized, summed>>
faults == <<refused, tampered, diskFault>>
vars == <<record, pc, attempt, dest, range, raised, faults>>

Piece == 1 .. Connections
Pooled == 2 .. Connections
Content == {"source", "hole", "other"}
Source == [i \in Piece |-> "source"]
NoFile == <<"no file">>
Running == {"requesting", "writing"}

TypeOK ==
  /\ sized \in BOOLEAN /\ summed \in BOOLEAN
  /\ pc \in {"start", "stream", "first", "pool", "drain", "verify", "done", "failed"}
  /\ attempt \in 1 .. Attempts
  /\ dest = NoFile \/ (dest \in Seq(Content) /\ Len(dest) <= Connections)
  /\ range \in [Pooled -> {"queued", "done", "refused", "broken", "cancelled"} \cup Running]
  /\ raised \in {"none", "request", "os"}
  /\ refused \in BOOLEAN /\ tampered \in BOOLEAN /\ diskFault \in BOOLEAN

Init ==
  /\ sized \in BOOLEAN /\ summed \in BOOLEAN
  /\ pc = "start" /\ attempt = 1 /\ dest = NoFile
  /\ range = [i \in Pooled |-> "queued"] /\ raised = "none"
  /\ refused = FALSE /\ tampered = FALSE /\ diskFault = FALSE

-----------------------------------------------------------------------------
(* One attempt: _fetch_remote and _stream_body.                            *)

\* destination.unlink(missing_ok=True)
Unlinked == NoFile

\* Mutant of RequestFails: the attempts are not counted.
RequestFailsAgain ==
  /\ refused' = FALSE /\ tampered' = FALSE
  /\ pc' = "start" /\ dest' = Unlinked
  /\ range' = [i \in Pooled |-> "queued"]
  /\ UNCHANGED attempt

\* A RequestException reached _fetch_remote: the next attempt, or out.
RequestFails ==
  /\ refused' = (attempt = Attempts)
  /\ tampered' = FALSE
  /\ IF attempt = Attempts
     THEN pc' = "failed" /\ UNCHANGED <<attempt, dest, range>>
     ELSE /\ pc' = "start" /\ attempt' = attempt + 1 /\ dest' = Unlinked
          /\ range' = [i \in Pooled |-> "queued"]

\* The answer is small or gives no ranges, and is streamed, or it is large and
\* fetched by ranges: open("xb"), and truncate(total) for ranges.
Start(to) ==
  /\ pc = "start"
  /\ IF dest # NoFile
     THEN pc' = "failed" /\ UNCHANGED dest
     ELSE pc' = to /\ dest' = IF to = "stream" THEN <<>> ELSE [i \in Piece |-> "hole"]
  /\ UNCHANGED <<record, attempt, range, raised, faults>>

StreamPiece(c) ==
  /\ pc = "stream" /\ Len(dest) < Connections
  /\ dest' = Append(dest, c)
  /\ tampered' = (tampered \/ c # "source")
  /\ UNCHANGED <<record, pc, attempt, range, raised, refused, diskFault>>

\* The body ends where its headers said: at the end of the source, or before.
StreamEnds ==
  /\ pc = "stream"
  /\ pc' = "verify"
  /\ tampered' = (tampered \/ Len(dest) < Connections)
  /\ UNCHANGED <<record, attempt, dest, range, raised, refused, diskFault>>

\* An error status, a timeout or a connection that breaks.
Refuse ==
  /\ pc \in {"start", "stream", "first"}
  /\ RequestFails
  /\ UNCHANGED <<record, raised, diskFault>>

\* An OSError is no RequestException: it leaves at once.
DiskFails ==
  /\ pc \in {"start", "stream", "first"}
  /\ pc' = "failed" /\ diskFault' = TRUE
  /\ UNCHANGED <<record, attempt, dest, range, raised, refused, tampered>>

\* int of a Content-Length that is no number: a ValueError, which leaves, too.
BadLength ==
  /\ pc = "start"
  /\ pc' = "failed" /\ tampered' = TRUE
  /\ UNCHANGED <<record, attempt, dest, range, raised, refused, diskFault>>

-----------------------------------------------------------------------------
(* _download_ranged.                                                       *)

\* What a 206 body leaves in its piece: it may stop short of the range.
Lands(c, i) ==
  /\ dest' = [dest EXCEPT ![i] = c]
  /\ tampered' = (tampered \/ c # "source")

\* The first range is answered with 200 and all of the file.
FirstIsWhole ==
  /\ pc = "first"
  /\ pc' = "stream" /\ dest' = <<>>
  /\ UNCHANGED <<record, attempt, range, raised, faults>>

FirstLands(c) ==
  /\ pc = "first"
  /\ Lands(c, 1)
  /\ pc' = "pool"
  /\ UNCHANGED <<record, attempt, range, raised, refused, diskFault>>

Step(i, from, to) ==
  /\ pc \in {"pool", "drain"} /\ range[i] = from
  /\ range' = [range EXCEPT ![i] = to]
  /\ UNCHANGED <<record, pc, attempt, raised>>

\* The pool starts the fetch of range i.
RangeStarts(i) ==
  /\ Step(i, "queued", "requesting")
  /\ UNCHANGED <<dest, faults>>

\* _write_range: a 206, and the file opened "r+b".
RangeOpens(i) ==
  /\ Step(i, "requesting", "writing")
  /\ UNCHANGED <<dest, faults>>

RangeLands(i, c) ==
  /\ Step(i, "writing", "done")
  /\ Lands(c, i)
  /\ UNCHANGED <<refused, diskFault>>

\* No answer, no 206, or a body that breaks off.
RangeRefused(i) ==
  /\ \E s \in Running : Step(i, s, "refused")
  /\ refused' = TRUE
  /\ UNCHANGED <<dest, tampered, diskFault>>

RangeBreaks(i) ==
  /\ Step(i, "writing", "broken")
  /\ diskFault' = TRUE
  /\ UNCHANGED <<dest, refused, tampered>>

\* Mutant of PoolDone: pool.map(...) without the list: no error comes out.
PoolDoneAnyhow ==
  /\ pc = "pool" /\ \A i \in Pooled : range[i] \in {"done", "refused", "broken"}
  /\ pc' = "verify"
  /\ UNCHANGED <<record, attempt, dest, range, raised, faults>>

\* list(pool.map(...)) has every result.
PoolDone ==
  /\ pc = "pool" /\ \A i \in Pooled : range[i] = "done"
  /\ pc' = "verify"
  /\ UNCHANGED <<record, attempt, dest, range, raised, faults>>

\* The first error, in the order of the ranges: what is not started is cancelled.
PoolRaises ==
  /\ pc = "pool"
  /\ \E i \in Pooled :
       /\ range[i] \in {"refused", "broken"}
       /\ \A j \in 2 .. i - 1 : range[j] = "done"
       /\ raised' = IF range[i] = "broken" THEN "os" ELSE "request"
  /\ range' = [j \in Pooled |-> IF range[j] = "queued" THEN "cancelled" ELSE range[j]]
  /\ pc' = "drain"
  /\ UNCHANGED <<record, attempt, dest, faults>>

\* Mutant of Drained: shutdown(wait=False).
DrainedAtOnce == TRUE

\* The exit of the pool waits for every thread.
Drained == \A i \in Pooled : range[i] \notin Running

PoolLeft ==
  /\ pc = "drain" /\ Drained
  /\ raised' = "none"
  /\ IF raised = "request"
     THEN RequestFails
     ELSE pc' = "failed" /\ UNCHANGED <<attempt, dest, range, refused, tampered>>
  /\ UNCHANGED <<record, diskFault>>

-----------------------------------------------------------------------------
(* download and verify_source.                                             *)

\* A file:// source is copied.
CopyLocal ==
  /\ pc = "start" /\ attempt = 1 /\ dest = NoFile
  /\ dest' = Source /\ pc' = "verify"
  /\ UNCHANGED <<record, attempt, range, raised, faults>>

\* The size and the checksum, each if the record has one.
Verified ==
  /\ sized => Len(dest) = Connections
  /\ summed => dest = Source

VerifySource ==
  /\ pc = "verify"
  /\ pc' = IF Verified THEN "done" ELSE "failed"
  /\ UNCHANGED <<record, attempt, dest, range, raised, faults>>

Terminated == pc \in {"done", "failed"} /\ UNCHANGED vars

Network ==
  \/ \E to \in {"stream", "first"} : Start(to)
  \/ \E c \in {"source", "other"} : StreamPiece(c)
  \/ StreamEnds \/ Refuse \/ DiskFails \/ BadLength
  \/ FirstIsWhole \/ \E c \in Content : FirstLands(c)

Threads ==
  \E i \in Pooled :
    \/ RangeStarts(i) \/ RangeOpens(i) \/ RangeRefused(i) \/ RangeBreaks(i)
    \/ \E c \in Content : RangeLands(i, c)

Caller == PoolDone \/ PoolRaises \/ PoolLeft \/ CopyLocal \/ VerifySource

Next == Network \/ Threads \/ Caller \/ Terminated

Spec == Init /\ [][Next]_vars

\* Every read has a timeout, so every request is answered or fails, and the
\* threads and the caller are always scheduled again.
FairSpec == Spec /\ WF_vars(Network) /\ WF_vars(Threads) /\ WF_vars(Caller)

-----------------------------------------------------------------------------

\* A file download accepts is the source, byte for byte, however the ranges
\* were interleaved, retried or answered; only a server that sends other bytes
\* than the source has, to a record without a checksum, gets them accepted.
AcceptedIsTheSource == pc = "done" => dest = Source \/ (~summed /\ tampered)

\* No thread of the pool writes once an attempt is over.
NoLateWriter == pc \notin {"pool", "drain"} => \A i \in Pooled : range[i] \notin Running

\* download fails for a cause: the last attempt was refused, the disk failed,
\* or an answer was not the source's.  What an earlier attempt left is no
\* cause, and no thread of it is still writing.
FailsForCause ==
  /\ pc = "failed" => diskFault \/ tampered \/ (refused /\ attempt = Attempts)
  /\ NoLateWriter

\* Every download ends, whatever the server and the disk do.
Ends == <>(pc \in {"done", "failed"})
==============================================================================
