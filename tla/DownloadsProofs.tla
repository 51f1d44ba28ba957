--------------------------- MODULE DownloadsProofs ---------------------------
(***************************************************************************)
(* Proofs about a download by any number of ranges in any number of        *)
(* attempts.  The argument: as long as no body was tampered with, what has *)
(* landed is the source's; the pool is left only when every range has      *)
(* landed, or with an error that one of them recorded, and never with a    *)
(* thread that still runs.                                                 *)
(***************************************************************************)
EXTENDS Downloads, SequenceTheorems, TLAPS

\* An attempt begins with no file, no thread and no fault of its own.
Fresh ==
  /\ pc \in {"start", "stream", "first"} => range = [i \in Pooled |-> "queued"]
  /\ pc = "start" => dest = NoFile /\ ~tampered
  /\ pc \in {"first", "pool", "drain"} => dest \in [Piece -> Content]
  /\ pc = "stream" => dest \in Seq(Content) /\ Len(dest) <= Connections

\* What has landed is the source's, unless a body was not.
Landed ==
  ~tampered =>
    /\ pc = "stream" => \A i \in 1 .. Len(dest) : dest[i] = "source"
    /\ pc \in {"pool", "drain"} =>
         dest[1] = "source" /\ \A i \in Pooled : range[i] = "done" => dest[i] = "source"
    /\ pc = "verify" => dest = Source

\* An error that a thread or the pool reports has its cause on record.
Recorded ==
  /\ pc \in {"pool", "drain"} =>
       \A i \in Pooled : /\ range[i] = "refused" => refused
                         /\ range[i] = "broken" => diskFault
  /\ pc = "pool" => \A i \in Pooled : range[i] # "cancelled"
  /\ pc = "drain" => /\ raised \in {"request", "os"}
                     /\ raised = "request" => refused
                     /\ raised = "os" => diskFault

IInv == TypeOK /\ Fresh /\ Landed /\ Recorded /\ AcceptedIsTheSource /\ FailsForCause

-----------------------------------------------------------------------------
\* A file of full length, cut into its pieces, is a sequence of them.
LEMMA FullIsSeq ==
  ASSUME NEW d \in [Piece -> Content]
  PROVE  d \in Seq(Content) /\ Len(d) = Connections
BY ConnectionsAssumption DEF Piece

\* The source is such a file.
LEMMA SourceIsFull == Source \in [Piece -> Content]
BY DEF Source, Content

\* A whole file of pieces of the source is the source.
LEMMA PiecesMakeSource ==
  ASSUME NEW d \in Seq(Content), Len(d) = Connections,
         \A i \in 1 .. Len(d) : d[i] = "source"
  PROVE  d = Source
BY ConnectionsAssumption DEF Source, Piece

\* So is a file whose every range is.
LEMMA RangesMakeSource ==
  ASSUME NEW d \in [Piece -> Content], \A i \in Piece : d[i] = "source"
  PROVE  d = Source
BY DEF Source

\* A file that another piece is appended to.
LEMMA OneMorePiece ==
  ASSUME NEW d \in Seq(Content), Len(d) < Connections, NEW c \in Content
  PROVE  /\ Append(d, c) \in Seq(Content)
         /\ Len(Append(d, c)) <= Connections
         /\ \A i \in 1 .. Len(Append(d, c)) :
              Append(d, c)[i] = c \/ (i \in 1 .. Len(d) /\ Append(d, c)[i] = d[i])
<1>1. Len(d) \in Nat
  BY LenProperties
<1>2. Append(d, c) \in Seq(Content) /\ Len(Append(d, c)) = Len(d) + 1
  BY AppendProperties
<1>3. \A i \in 1 .. Len(d) : Append(d, c)[i] = d[i]
  BY AppendProperties
<1>4. Append(d, c)[Len(d) + 1] = c
  BY AppendProperties
<1>5. Len(d) + 1 <= Connections
  BY <1>1, ConnectionsAssumption
<1>6. \A i \in 1 .. Len(d) + 1 : i = Len(d) + 1 \/ i \in 1 .. Len(d)
  BY <1>1
<1> QED
  BY <1>2, <1>3, <1>4, <1>5, <1>6

\* The file an attempt begins with: empty, or as long as the source.
LEMMA NewFile ==
  /\ <<>> \in Seq(Content) /\ Len(<<>>) = 0 /\ 0 <= Connections
  /\ [i \in Piece |-> "hole"] \in [Piece -> Content]
<1>1. <<>> \in Seq(Content) /\ Len(<<>>) = 0
  BY EmptySeq
<1>2. [i \in Piece |-> "hole"] \in [Piece -> Content]
  BY DEF Content
<1> QED
  BY <1>1, <1>2, ConnectionsAssumption

\* The pieces are the first one and those of the pool.
LEMMA Pieces == 1 \in Piece /\ 1 \notin Pooled /\ Piece = {1} \cup Pooled
BY ConnectionsAssumption DEF Piece, Pooled

-----------------------------------------------------------------------------
\* A download begins with nothing.
LEMMA Initial == Init => IInv
<1> SUFFICES ASSUME Init PROVE IInv
  OBVIOUS
<1>1. TypeOK
  <2> USE DEF TypeOK
  <2>1. sized \in BOOLEAN /\ summed \in BOOLEAN
    BY DEF Init
  <2>2. refused \in BOOLEAN /\ tampered \in BOOLEAN /\ diskFault \in BOOLEAN
    BY DEF Init
  <2>3. pc \in {"start", "stream", "first", "pool", "drain", "verify", "done", "failed"}
    BY DEF Init
  <2>4. attempt \in 1 .. Attempts
    BY AttemptsAssumption DEF Init
  <2>5. dest = NoFile \/ (dest \in Seq(Content) /\ Len(dest) <= Connections)
    BY DEF Init
  <2>6. range \in [Pooled -> {"queued", "done", "refused", "broken", "cancelled"} \cup Running]
    BY DEF Init, Running
  <2>7. raised \in {"none", "request", "os"}
    BY DEF Init
  <2> QED
    BY <2>1, <2>2, <2>3, <2>4, <2>5, <2>6, <2>7
<1>2. Fresh /\ Landed /\ Recorded
  BY DEF Init, Fresh, Landed, Recorded
<1>3. AcceptedIsTheSource /\ FailsForCause
  BY DEF Init, AcceptedIsTheSource, FailsForCause, NoLateWriter, Running
<1> QED
  BY <1>1, <1>2, <1>3 DEF IInv

\* An attempt that a request ended was the last, or the next begins afresh.
LEMMA NextAttempt ==
  ASSUME IInv, RequestFails, UNCHANGED <<record, diskFault>>, raised' \in {raised, "none"},
         \A i \in Pooled : range[i] \notin Running
  PROVE  IInv'
<1> USE DEF IInv, RequestFails, record, Unlinked
<1>1. TypeOK'
  <2> USE DEF TypeOK
  <2>1. sized' \in BOOLEAN /\ summed' \in BOOLEAN
    OBVIOUS
  <2>2. refused' \in BOOLEAN /\ tampered' \in BOOLEAN /\ diskFault' \in BOOLEAN
    OBVIOUS
  <2>3. pc' \in {"start", "stream", "first", "pool", "drain", "verify", "done", "failed"}
    OBVIOUS
  <2>4. attempt' \in 1 .. Attempts
    BY AttemptsAssumption
  <2>5. dest' = NoFile \/ (dest' \in Seq(Content) /\ Len(dest') <= Connections)
    OBVIOUS
  <2>6. range' \in [Pooled -> {"queued", "done", "refused", "broken", "cancelled"} \cup Running]
    OBVIOUS
  <2>7. raised' \in {"none", "request", "os"}
    OBVIOUS
  <2> QED
    BY <2>1, <2>2, <2>3, <2>4, <2>5, <2>6, <2>7
<1>2. pc' \in {"start", "failed"} /\ ~tampered' /\ (pc' = "start" => dest' = NoFile)
  OBVIOUS
<1>3. pc' = "start" => range' = [i \in Pooled |-> "queued"]
  OBVIOUS
<1>4. \A i \in Pooled : range'[i] \notin Running
  BY <1>2, <1>3 DEF Running
<1>5. Fresh' /\ Landed' /\ Recorded'
  BY <1>2, <1>3 DEF Fresh, Landed, Recorded
<1>6. AcceptedIsTheSource' /\ FailsForCause'
  BY <1>2, <1>4 DEF AcceptedIsTheSource, FailsForCause, NoLateWriter
<1> QED
  BY <1>1, <1>5, <1>6

\* Every step of the network, the threads and the caller keeps the invariant.
LEMMA Inductive == IInv /\ [Next]_vars => IInv'
<1> SUFFICES ASSUME IInv, [Next]_vars PROVE IInv'
  OBVIOUS
<1> USE DEF IInv, record, faults
<1>1. ASSUME NEW to \in {"stream", "first"}, Start(to) PROVE IInv'
  <2> USE <1>1 DEF Start
  <2>1. TypeOK'
    <3> USE DEF TypeOK
    <3>1. sized' \in BOOLEAN /\ summed' \in BOOLEAN
      OBVIOUS
    <3>2. refused' \in BOOLEAN /\ tampered' \in BOOLEAN /\ diskFault' \in BOOLEAN
      OBVIOUS
    <3>3. pc' \in {"start", "stream", "first", "pool", "drain", "verify", "done", "failed"}
      OBVIOUS
    <3>4. attempt' \in 1 .. Attempts
      OBVIOUS
    <3>5. dest' = NoFile \/ (dest' \in Seq(Content) /\ Len(dest') <= Connections)
      <4>1. CASE dest # NoFile
        BY <4>1
      <4>2. CASE dest = NoFile /\ to = "stream"
        BY <4>2, NewFile
      <4>3. CASE dest = NoFile /\ to = "first"
        <5>1. dest' \in [Piece -> Content]
          BY <4>3, NewFile
        <5> QED
          BY <5>1, FullIsSeq, ConnectionsAssumption
      <4> QED
        BY <4>1, <4>2, <4>3
    <3>6. range' \in [Pooled -> {"queued", "done", "refused", "broken", "cancelled"} \cup Running]
      OBVIOUS
    <3>7. raised' \in {"none", "request", "os"}
      OBVIOUS
    <3> QED
      BY <3>1, <3>2, <3>3, <3>4, <3>5, <3>6, <3>7
  <2>2. Fresh'
    <3>1. CASE dest # NoFile
      BY <3>1 DEF Fresh
    <3>2. CASE dest = NoFile /\ to = "stream"
      <4>1. pc' = "stream" /\ dest' = <<>> /\ range' = range /\ pc = "start"
        BY <3>2
      <4> QED
        BY <4>1, NewFile DEF Fresh
    <3>3. CASE dest = NoFile /\ to = "first"
      <4>1. pc' = "first" /\ dest' \in [Piece -> Content] /\ range' = range /\ pc = "start"
        BY <3>3, NewFile
      <4> QED
        BY <4>1 DEF Fresh
    <3> QED
      BY <3>1, <3>2, <3>3
  <2>3. Landed'
    BY DEF TypeOK, Fresh, Landed
  <2>4. Recorded'
    BY DEF TypeOK, Fresh, Recorded
  <2>5. AcceptedIsTheSource' /\ FailsForCause'
    BY DEF TypeOK, Fresh, Landed, Recorded, AcceptedIsTheSource, FailsForCause, NoLateWriter, Running
  <2> QED
    BY <2>1, <2>2, <2>3, <2>4, <2>5
<1>2. ASSUME NEW c \in {"source", "other"}, StreamPiece(c) PROVE IInv'
  <2> USE <1>2 DEF StreamPiece
  <2>1. TypeOK'
    <3> USE DEF TypeOK
    <3>1. sized' \in BOOLEAN /\ summed' \in BOOLEAN
      OBVIOUS
    <3>2. refused' \in BOOLEAN /\ tampered' \in BOOLEAN /\ diskFault' \in BOOLEAN
      OBVIOUS
    <3>3. pc' \in {"start", "stream", "first", "pool", "drain", "verify", "done", "failed"}
      OBVIOUS
    <3>4. attempt' \in 1 .. Attempts
      OBVIOUS
    <3>5. dest' = NoFile \/ (dest' \in Seq(Content) /\ Len(dest') <= Connections)
      BY OneMorePiece DEF Content, Fresh
    <3>6. range' \in [Pooled -> {"queued", "done", "refused", "broken", "cancelled"} \cup Running]
      OBVIOUS
    <3>7. raised' \in {"none", "request", "os"}
      OBVIOUS
    <3> QED
      BY <3>1, <3>2, <3>3, <3>4, <3>5, <3>6, <3>7
  <2>2. Fresh'
    BY OneMorePiece DEF TypeOK, Fresh, Content
  <2>3. Landed'
    <3>1. c \in Content /\ dest \in Seq(Content) /\ Len(dest) < Connections
      BY DEF Fresh, Content
    <3>2. pc = "stream" /\ pc' = "stream" /\ dest' = Append(dest, c)
      OBVIOUS
    <3>3. ~tampered' => ~tampered /\ c = "source"
      OBVIOUS
    <3>4. ~tampered' => \A i \in 1 .. Len(dest') : dest'[i] = "source"
      BY <3>1, <3>2, <3>3, OneMorePiece DEF Landed
    <3> QED
      BY <3>2, <3>4 DEF Landed
  <2>4. Recorded'
    BY DEF TypeOK, Fresh, Recorded
  <2>5. AcceptedIsTheSource' /\ FailsForCause'
    BY DEF TypeOK, Fresh, Landed, Recorded, AcceptedIsTheSource, FailsForCause, NoLateWriter, Running
  <2> QED
    BY <2>1, <2>2, <2>3, <2>4, <2>5
<1>3. ASSUME StreamEnds PROVE IInv'
  <2> USE <1>3 DEF StreamEnds
  <2>1. TypeOK'
    BY DEF TypeOK
  <2>2. Fresh'
    BY DEF TypeOK, Fresh
  <2>3. Landed'
    <3>1. ~tampered' => ~tampered /\ ~(Len(dest) < Connections)
      OBVIOUS
    <3>2. pc' = "verify" /\ dest' = dest /\ dest \in Seq(Content) /\ Len(dest) <= Connections
      BY DEF Fresh
    <3>3. Len(dest) \in Nat /\ Connections \in Nat
      BY <3>2, LenProperties, ConnectionsAssumption
    <3>4. ~tampered' => Len(dest) = Connections
      BY <3>1, <3>2, <3>3
    <3>5. ~tampered' => dest = Source
      BY <3>1, <3>2, <3>4, PiecesMakeSource DEF Landed
    <3> QED
      BY <3>2, <3>5 DEF Landed
  <2>4. Recorded'
    BY DEF TypeOK, Fresh, Recorded
  <2>5. AcceptedIsTheSource' /\ FailsForCause'
    BY DEF TypeOK, Fresh, Landed, Recorded, AcceptedIsTheSource, FailsForCause, NoLateWriter, Running
  <2> QED
    BY <2>1, <2>2, <2>3, <2>4, <2>5
<1>4. ASSUME DiskFails PROVE IInv'
  <2> USE <1>4 DEF DiskFails
  <2>1. TypeOK'
    BY DEF TypeOK
  <2>2. Fresh'
    BY DEF TypeOK, Fresh
  <2>3. Landed'
    BY DEF TypeOK, Fresh, Landed
  <2>4. Recorded'
    BY DEF TypeOK, Fresh, Recorded
  <2>5. AcceptedIsTheSource' /\ FailsForCause'
    BY DEF TypeOK, Fresh, Landed, Recorded, AcceptedIsTheSource, FailsForCause, NoLateWriter, Running
  <2> QED
    BY <2>1, <2>2, <2>3, <2>4, <2>5
<1>5. ASSUME FirstIsWhole PROVE IInv'
  <2> USE <1>5 DEF FirstIsWhole
  <2>1. TypeOK'
    <3> USE DEF TypeOK
    <3>1. sized' \in BOOLEAN /\ summed' \in BOOLEAN
      OBVIOUS
    <3>2. refused' \in BOOLEAN /\ tampered' \in BOOLEAN /\ diskFault' \in BOOLEAN
      OBVIOUS
    <3>3. pc' \in {"start", "stream", "first", "pool", "drain", "verify", "done", "failed"}
      OBVIOUS
    <3>4. attempt' \in 1 .. Attempts
      OBVIOUS
    <3>5. dest' = NoFile \/ (dest' \in Seq(Content) /\ Len(dest') <= Connections)
      BY FullIsSeq, ConnectionsAssumption DEF Content
    <3>6. range' \in [Pooled -> {"queued", "done", "refused", "broken", "cancelled"} \cup Running]
      OBVIOUS
    <3>7. raised' \in {"none", "request", "os"}
      OBVIOUS
    <3> QED
      BY <3>1, <3>2, <3>3, <3>4, <3>5, <3>6, <3>7
  <2>2. Fresh'
    BY NewFile DEF TypeOK, Fresh
  <2>3. Landed'
    BY DEF TypeOK, Fresh, Landed
  <2>4. Recorded'
    BY DEF TypeOK, Fresh, Recorded
  <2>5. AcceptedIsTheSource' /\ FailsForCause'
    BY DEF TypeOK, Fresh, Landed, Recorded, AcceptedIsTheSource, FailsForCause, NoLateWriter, Running
  <2> QED
    BY <2>1, <2>2, <2>3, <2>4, <2>5
<1>6. ASSUME NEW c \in Content, FirstLands(c) PROVE IInv'
  <2> USE <1>6 DEF FirstLands, Lands
  <2>1. TypeOK'
    <3> USE DEF TypeOK
    <3>1. sized' \in BOOLEAN /\ summed' \in BOOLEAN
      OBVIOUS
    <3>2. refused' \in BOOLEAN /\ tampered' \in BOOLEAN /\ diskFault' \in BOOLEAN
      OBVIOUS
    <3>3. pc' \in {"start", "stream", "first", "pool", "drain", "verify", "done", "failed"}
      OBVIOUS
    <3>4. attempt' \in 1 .. Attempts
      OBVIOUS
    <3>5. dest' = NoFile \/ (dest' \in Seq(Content) /\ Len(dest') <= Connections)
      <4>1. dest' \in [Piece -> Content]
        BY Pieces DEF Fresh
      <4>2. dest' \in Seq(Content) /\ Len(dest') = Connections
        BY ONLY <4>1, FullIsSeq
      <4> QED
        BY ONLY <4>2, ConnectionsAssumption
    <3>6. range' \in [Pooled -> {"queued", "done", "refused", "broken", "cancelled"} \cup Running]
      OBVIOUS
    <3>7. raised' \in {"none", "request", "os"}
      OBVIOUS
    <3> QED
      BY <3>1, <3>2, <3>3, <3>4, <3>5, <3>6, <3>7
  <2>2. Fresh'
    BY DEF TypeOK, Fresh
  <2>3. Landed'
    <3>1. dest \in [Piece -> Content] /\ dest' = [dest EXCEPT ![1] = c] /\ 1 \in Piece
      BY Pieces DEF Fresh
    <3>2. ~tampered' => ~tampered /\ c = "source"
      OBVIOUS
    <3>3. dest'[1] = c /\ \A j \in Piece \ {1} : dest'[j] = dest[j]
      BY <3>1
    <3>4. pc' = "pool" /\ \A j \in Pooled : range'[j] = "queued"
      BY DEF Fresh
    <3> QED
      BY <3>2, <3>3, <3>4 DEF Landed
  <2>4. Recorded'
    BY DEF TypeOK, Fresh, Recorded
  <2>5. AcceptedIsTheSource' /\ FailsForCause'
    BY DEF TypeOK, Fresh, Landed, Recorded, AcceptedIsTheSource, FailsForCause, NoLateWriter, Running
  <2> QED
    BY <2>1, <2>2, <2>3, <2>4, <2>5
<1>7. ASSUME NEW k \in Pooled, RangeStarts(k) PROVE IInv'
  <2> USE <1>7 DEF RangeStarts, Step
  <2>1. TypeOK'
    <3> USE DEF TypeOK
    <3>1. sized' \in BOOLEAN /\ summed' \in BOOLEAN
      OBVIOUS
    <3>2. refused' \in BOOLEAN /\ tampered' \in BOOLEAN /\ diskFault' \in BOOLEAN
      OBVIOUS
    <3>3. pc' \in {"start", "stream", "first", "pool", "drain", "verify", "done", "failed"}
      OBVIOUS
    <3>4. attempt' \in 1 .. Attempts
      OBVIOUS
    <3>5. dest' = NoFile \/ (dest' \in Seq(Content) /\ Len(dest') <= Connections)
      OBVIOUS
    <3>6. range' \in [Pooled -> {"queued", "done", "refused", "broken", "cancelled"} \cup Running]
      BY DEF Running
    <3>7. raised' \in {"none", "request", "os"}
      OBVIOUS
    <3> QED
      BY <3>1, <3>2, <3>3, <3>4, <3>5, <3>6, <3>7
  <2>2. Fresh'
    BY DEF TypeOK, Fresh
  <2>3. Landed'
    BY DEF TypeOK, Fresh, Landed
  <2>4. Recorded'
    BY DEF TypeOK, Fresh, Recorded
  <2>5. AcceptedIsTheSource' /\ FailsForCause'
    BY DEF TypeOK, Fresh, Landed, Recorded, AcceptedIsTheSource, FailsForCause, NoLateWriter, Running
  <2> QED
    BY <2>1, <2>2, <2>3, <2>4, <2>5
<1>8. ASSUME NEW k \in Pooled, RangeOpens(k) PROVE IInv'
  <2> USE <1>8 DEF RangeOpens, Step
  <2>1. TypeOK'
    <3> USE DEF TypeOK
    <3>1. sized' \in BOOLEAN /\ summed' \in BOOLEAN
      OBVIOUS
    <3>2. refused' \in BOOLEAN /\ tampered' \in BOOLEAN /\ diskFault' \in BOOLEAN
      OBVIOUS
    <3>3. pc' \in {"start", "stream", "first", "pool", "drain", "verify", "done", "failed"}
      OBVIOUS
    <3>4. attempt' \in 1 .. Attempts
      OBVIOUS
    <3>5. dest' = NoFile \/ (dest' \in Seq(Content) /\ Len(dest') <= Connections)
      OBVIOUS
    <3>6. range' \in [Pooled -> {"queued", "done", "refused", "broken", "cancelled"} \cup Running]
      BY DEF Running
    <3>7. raised' \in {"none", "request", "os"}
      OBVIOUS
    <3> QED
      BY <3>1, <3>2, <3>3, <3>4, <3>5, <3>6, <3>7
  <2>2. Fresh'
    BY DEF TypeOK, Fresh
  <2>3. Landed'
    BY DEF TypeOK, Fresh, Landed
  <2>4. Recorded'
    BY DEF TypeOK, Fresh, Recorded
  <2>5. AcceptedIsTheSource' /\ FailsForCause'
    BY DEF TypeOK, Fresh, Landed, Recorded, AcceptedIsTheSource, FailsForCause, NoLateWriter, Running
  <2> QED
    BY <2>1, <2>2, <2>3, <2>4, <2>5
<1>9. ASSUME NEW k \in Pooled, RangeRefused(k) PROVE IInv'
  <2> USE <1>9 DEF RangeRefused, Step
  <2>1. TypeOK'
    BY DEF TypeOK
  <2>2. Fresh'
    BY DEF TypeOK, Fresh
  <2>3. Landed'
    BY DEF TypeOK, Fresh, Landed
  <2>4. Recorded'
    BY DEF TypeOK, Fresh, Recorded
  <2>5. AcceptedIsTheSource' /\ FailsForCause'
    BY DEF TypeOK, Fresh, Landed, Recorded, AcceptedIsTheSource, FailsForCause, NoLateWriter, Running
  <2> QED
    BY <2>1, <2>2, <2>3, <2>4, <2>5
<1>10. ASSUME NEW k \in Pooled, RangeBreaks(k) PROVE IInv'
  <2> USE <1>10 DEF RangeBreaks, Step
  <2>1. TypeOK'
    BY DEF TypeOK
  <2>2. Fresh'
    BY DEF TypeOK, Fresh
  <2>3. Landed'
    BY DEF TypeOK, Fresh, Landed
  <2>4. Recorded'
    BY DEF TypeOK, Fresh, Recorded
  <2>5. AcceptedIsTheSource' /\ FailsForCause'
    BY DEF TypeOK, Fresh, Landed, Recorded, AcceptedIsTheSource, FailsForCause, NoLateWriter, Running
  <2> QED
    BY <2>1, <2>2, <2>3, <2>4, <2>5
<1>11. ASSUME NEW k \in Pooled, NEW c \in Content, RangeLands(k, c) PROVE IInv'
  <2> USE <1>11 DEF RangeLands, Step, Lands
  <2>1. TypeOK'
    <3> USE DEF TypeOK
    <3>1. sized' \in BOOLEAN /\ summed' \in BOOLEAN
      OBVIOUS
    <3>2. refused' \in BOOLEAN /\ tampered' \in BOOLEAN /\ diskFault' \in BOOLEAN
      OBVIOUS
    <3>3. pc' \in {"start", "stream", "first", "pool", "drain", "verify", "done", "failed"}
      OBVIOUS
    <3>4. attempt' \in 1 .. Attempts
      OBVIOUS
    <3>5. dest' = NoFile \/ (dest' \in Seq(Content) /\ Len(dest') <= Connections)
      <4>1. dest' \in [Piece -> Content]
        BY Pieces DEF Fresh
      <4>2. dest' \in Seq(Content) /\ Len(dest') = Connections
        BY ONLY <4>1, FullIsSeq
      <4> QED
        BY ONLY <4>2, ConnectionsAssumption
    <3>6. range' \in [Pooled -> {"queued", "done", "refused", "broken", "cancelled"} \cup Running]
      BY DEF Running
    <3>7. raised' \in {"none", "request", "os"}
      OBVIOUS
    <3> QED
      BY <3>1, <3>2, <3>3, <3>4, <3>5, <3>6, <3>7
  <2>2. Fresh'
    BY DEF TypeOK, Fresh
  <2>3. Landed'
    <3>1. dest \in [Piece -> Content] /\ dest' = [dest EXCEPT ![k] = c] /\ k \in Piece
      BY Pieces DEF Fresh
    <3>2. ~tampered' => ~tampered /\ c = "source"
      OBVIOUS
    <3>3. dest'[k] = c /\ \A j \in Piece \ {k} : dest'[j] = dest[j]
      BY <3>1
    <3>4. pc \in {"pool", "drain"} /\ pc' = pc
      OBVIOUS
    <3>5. \A j \in Pooled \ {k} : range'[j] = range[j]
      BY DEF TypeOK
    <3>6. ~tampered' => dest'[1] = "source"
      BY <3>2, <3>3, <3>4, Pieces DEF Landed
    <3>7. ~tampered' => \A j \in Pooled : range'[j] = "done" => dest'[j] = "source"
      BY <3>2, <3>3, <3>4, <3>5, Pieces DEF Landed
    <3> QED
      BY <3>4, <3>6, <3>7 DEF Landed
  <2>4. Recorded'
    BY DEF TypeOK, Fresh, Recorded
  <2>5. AcceptedIsTheSource' /\ FailsForCause'
    BY DEF TypeOK, Fresh, Landed, Recorded, AcceptedIsTheSource, FailsForCause, NoLateWriter, Running
  <2> QED
    BY <2>1, <2>2, <2>3, <2>4, <2>5
<1>12. ASSUME PoolDone PROVE IInv'
  <2> USE <1>12 DEF PoolDone
  <2>1. TypeOK'
    BY DEF TypeOK
  <2>2. Fresh'
    BY DEF TypeOK, Fresh
  <2>3. Landed'
    <3>1. dest \in [Piece -> Content] /\ dest' = dest /\ pc' = "verify" /\ tampered' = tampered
      BY DEF Fresh
    <3>2. ~tampered => \A i \in Piece : dest[i] = "source"
      BY Pieces DEF Landed
    <3>3. ~tampered => dest = Source
      BY <3>1, <3>2, RangesMakeSource
    <3> QED
      BY <3>1, <3>3 DEF Landed
  <2>4. Recorded'
    BY DEF TypeOK, Fresh, Recorded
  <2>5. AcceptedIsTheSource' /\ FailsForCause'
    BY DEF TypeOK, Fresh, Landed, Recorded, AcceptedIsTheSource, FailsForCause, NoLateWriter, Running
  <2> QED
    BY <2>1, <2>2, <2>3, <2>4, <2>5
<1>13. ASSUME PoolRaises PROVE IInv'
  <2> USE <1>13 DEF PoolRaises
  <2>1. TypeOK'
    BY DEF TypeOK
  <2>2. Fresh'
    BY DEF TypeOK, Fresh
  <2>3. Landed'
    BY DEF TypeOK, Fresh, Landed
  <2>4. Recorded'
    BY DEF TypeOK, Fresh, Recorded
  <2>5. AcceptedIsTheSource' /\ FailsForCause'
    BY DEF TypeOK, Fresh, Landed, Recorded, AcceptedIsTheSource, FailsForCause, NoLateWriter, Running
  <2> QED
    BY <2>1, <2>2, <2>3, <2>4, <2>5
<1>14. ASSUME CopyLocal PROVE IInv'
  <2> USE <1>14 DEF CopyLocal
  <2>1. TypeOK'
    <3> USE DEF TypeOK
    <3>1. sized' \in BOOLEAN /\ summed' \in BOOLEAN
      OBVIOUS
    <3>2. refused' \in BOOLEAN /\ tampered' \in BOOLEAN /\ diskFault' \in BOOLEAN
      OBVIOUS
    <3>3. pc' \in {"start", "stream", "first", "pool", "drain", "verify", "done", "failed"}
      OBVIOUS
    <3>4. attempt' \in 1 .. Attempts
      OBVIOUS
    <3>5. dest' = NoFile \/ (dest' \in Seq(Content) /\ Len(dest') <= Connections)
      BY FullIsSeq, SourceIsFull
    <3>6. range' \in [Pooled -> {"queued", "done", "refused", "broken", "cancelled"} \cup Running]
      OBVIOUS
    <3>7. raised' \in {"none", "request", "os"}
      OBVIOUS
    <3> QED
      BY <3>1, <3>2, <3>3, <3>4, <3>5, <3>6, <3>7
  <2>2. Fresh'
    BY DEF TypeOK, Fresh
  <2>3. Landed'
    BY DEF TypeOK, Fresh, Landed
  <2>4. Recorded'
    BY DEF TypeOK, Fresh, Recorded
  <2>5. AcceptedIsTheSource' /\ FailsForCause'
    BY DEF TypeOK, Fresh, Landed, Recorded, AcceptedIsTheSource, FailsForCause, NoLateWriter, Running
  <2> QED
    BY <2>1, <2>2, <2>3, <2>4, <2>5
<1>15. ASSUME VerifySource PROVE IInv'
  <2> USE <1>15 DEF VerifySource, Verified
  <2>1. TypeOK'
    BY DEF TypeOK
  <2>2. Fresh'
    BY DEF TypeOK, Fresh
  <2>3. Landed'
    BY DEF TypeOK, Fresh, Landed
  <2>4. Recorded'
    BY DEF TypeOK, Fresh, Recorded
  <2>5. AcceptedIsTheSource'
    <3>1. ~tampered => dest = Source
      BY DEF Landed
    <3>2. pc' = "done" => Verified
      OBVIOUS
    <3> QED
      BY <3>1, <3>2 DEF AcceptedIsTheSource, Verified
  <2>6. FailsForCause'
    <3>1. ~tampered => Verified
      BY SourceIsFull, FullIsSeq DEF Landed, Verified
    <3> QED
      BY <3>1 DEF FailsForCause, NoLateWriter
  <2> QED
    BY <2>1, <2>2, <2>3, <2>4, <2>5, <2>6
<1>16. ASSUME Refuse PROVE IInv'
  <2>1. \A i \in Pooled : range[i] \notin Running
    BY <1>16 DEF Refuse, FailsForCause, NoLateWriter
  <2> QED
    BY <1>16, <2>1, NextAttempt DEF Refuse
<1>17. ASSUME PoolLeft PROVE IInv'
  <2>1. CASE raised = "request"
    BY <1>17, <2>1, NextAttempt DEF PoolLeft, Drained
  <2>2. CASE raised # "request"
    <3>1. pc' = "failed" /\ diskFault'
      BY <1>17, <2>2 DEF PoolLeft, Recorded
    <3>2. TypeOK'
      BY <1>17, <2>2 DEF PoolLeft, TypeOK
    <3>3. \A i \in Pooled : range'[i] \notin Running
      BY <1>17, <2>2 DEF PoolLeft, Drained
    <3> QED
      BY <3>1, <3>2, <3>3
      DEF Fresh, Landed, Recorded, AcceptedIsTheSource, FailsForCause, NoLateWriter
  <2> QED
    BY <2>1, <2>2
<1>19. ASSUME BadLength PROVE IInv'
  <2> USE <1>19 DEF BadLength
  <2>1. TypeOK'
    BY DEF TypeOK
  <2>2. Fresh'
    BY DEF TypeOK, Fresh
  <2>3. Landed'
    BY DEF TypeOK, Fresh, Landed
  <2>4. Recorded'
    BY DEF TypeOK, Fresh, Recorded
  <2>5. AcceptedIsTheSource' /\ FailsForCause'
    BY DEF TypeOK, Fresh, Landed, Recorded, AcceptedIsTheSource, FailsForCause, NoLateWriter, Running
  <2> QED
    BY <2>1, <2>2, <2>3, <2>4, <2>5
<1>18. CASE UNCHANGED vars
  BY <1>18 DEF vars, TypeOK, Fresh, Landed, Recorded, AcceptedIsTheSource, FailsForCause, NoLateWriter
<1> QED
  BY <1>1, <1>2, <1>3, <1>4, <1>5, <1>6, <1>7, <1>8, <1>9, <1>10, <1>11, <1>12, <1>13, <1>14, <1>15, <1>16, <1>17, <1>18,
     <1>19
  DEF Next, Network, Threads, Caller, Terminated

-----------------------------------------------------------------------------
\* The invariant holds in every state of a download.
LEMMA Invariant == Spec => []IInv
<1>1. Init => IInv
  BY Initial
<1>2. IInv /\ [Next]_vars => IInv'
  BY Inductive
<1> QED
  BY <1>1, <1>2, PTL DEF Spec

\* Types of a download.
THEOREM TypeCorrect == Spec => []TypeOK
<1>1. IInv => TypeOK
  BY DEF IInv
<1> QED
  BY <1>1, Invariant, PTL

\* A file download accepts is the source, whatever the ranges, their number and
\* the retries; but for a server's other bytes in a record without a checksum.
THEOREM AcceptsTheSource == Spec => []AcceptedIsTheSource
<1>1. IInv => AcceptedIsTheSource
  BY DEF IInv
<1> QED
  BY <1>1, Invariant, PTL

\* A download fails for a cause of its own, never for what an earlier attempt
\* left behind, and leaves no thread writing.
THEOREM FailuresHaveCauses == Spec => []FailsForCause
<1>1. IInv => FailsForCause
  BY DEF IInv
<1> QED
  BY <1>1, Invariant, PTL
==============================================================================
