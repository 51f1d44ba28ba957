------------------------ MODULE BundlePublishProofs ------------------------
(***************************************************************************)
(* Proofs about publication for any publishers, any number of parts and    *)
(* either kind of target.  The argument: exclusive creation leaves at most *)
(* one publisher between its claim and its end, and it alone touches the   *)
(* target, so what it has written so far is what the target holds.         *)
(***************************************************************************)
EXTENDS BundlePublish, TLAPS

OneWriter ==
  \A p, q \in Publishers : pc[p] \in Writing /\ pc[q] \in Writing => p = q

\* A writer's target is there, and is not one another publisher returned.
WriterHoldsTarget ==
  \A p \in Publishers : pc[p] \in Writing =>
    exists /\ \A q \in Publishers : pc[q] # "published"

FreeIsUnmarked == ~exists => held = Empty /\ (late = {} /\ ~stale => ~marker)

\* The target holds the parts before at[p], and the marker comes after them all.
WriterKnowsParts ==
  \A p \in Publishers :
    /\ pc[p] \in {"idle", "claimed"} => at[p] = 1
    /\ pc[p] = "claimed" => held = Empty
    /\ pc[p] \in {"write", "open"} =>
         /\ \A i \in Part : i < at[p] => held[i] = p
         /\ \A i \in Part : i > at[p] => held[i] = None
    /\ pc[p] = "write" => \A i \in Part : i = at[p] => held[i] = None
    /\ pc[p] = "open" => at[p] <= Parts
    /\ pc[p] = "marked" => Whole(p) /\ marker
    /\ pc[p] \in {"claimed", "write", "open", "removing"} /\ late = {} /\ ~stale => ~marker

\* A target that exists is being written, was left by someone who could not
\* remove it, or is a whole bundle.
ClaimIsAccounted ==
  exists => \/ \E p \in Publishers : pc[p] \in Writing \cup {"killed"}
            \/ kept # {} \/ early # {}
            \/ marker /\ \E p \in Publishers : Whole(p)

\* An interrupt before the try leaves the target as it was claimed, and nobody
\* writes to it.
EarlyLeavesNothing ==
  early # {} => exists /\ held = Empty /\ \A p \in Publishers : pc[p] \notin Writing

IInv ==
  /\ TypeOK
  /\ OneWriter
  /\ WriterHoldsTarget
  /\ FreeIsUnmarked
  /\ WriterKnowsParts
  /\ PublishedStays
  /\ MarkedIsWhole
  /\ ClaimIsAccounted
  /\ EarlyLeavesNothing

-----------------------------------------------------------------------------
\* Nothing is at the target when the first publisher starts.
LEMMA Initial == Init => IInv
<1> SUFFICES ASSUME Init PROVE IInv
  OBVIOUS
<1>1. TypeOK
  <2>1. isArchive \in BOOLEAN /\ exists \in BOOLEAN /\ marker \in BOOLEAN
    BY DEF Init
  <2>2. /\ held \in [Part -> Publishers \cup {None, Torn}]
        /\ pc \in [Publishers -> {"idle"} \cup Writing \cup Ended]
        /\ at \in [Publishers -> 1 .. Parts + 1]
    BY PartsAssumption DEF Init, Empty, Part
  <2>3. /\ early \subseteq Publishers /\ late \subseteq Publishers
        /\ kept \subseteq Publishers /\ stale \in BOOLEAN
    BY DEF Init
  <2> QED
    BY <2>1, <2>2, <2>3 DEF TypeOK
<1>2. \A p \in Publishers : pc[p] = "idle" /\ at[p] = 1
  BY DEF Init
<1>3. ~exists /\ ~marker /\ held = Empty /\ early = {}
  BY DEF Init
<1> QED
  BY <1>1, <1>2, <1>3 DEF IInv, OneWriter, WriterHoldsTarget, FreeIsUnmarked,
     WriterKnowsParts, PublishedStays, MarkedIsWhole, ClaimIsAccounted,
     EarlyLeavesNothing, IsComplete, Writing

\* Every step of a publisher keeps the invariant.
LEMMA Inductive == IInv /\ [Next]_vars => IInv'
<1> SUFFICES ASSUME IInv, [Next]_vars PROVE IInv'
  OBVIOUS
<1> USE PartsAssumption, NullAssumption
<1> USE DEF IInv, TypeOK, OneWriter, WriterHoldsTarget, FreeIsUnmarked, WriterKnowsParts,
        PublishedStays, MarkedIsWhole, ClaimIsAccounted, EarlyLeavesNothing, IsComplete,
        Whole, Goto, disk, log, Writing, Ended, Part, Empty
<1>1. ASSUME NEW p \in Publishers, Claim(p) PROVE IInv'
  <2>1. TypeOK'
    <3>1. exists' \in BOOLEAN
      BY <1>1 DEF Claim
    <3>2. marker' \in BOOLEAN
      BY <1>1 DEF Claim
    <3>3. /\ held' \in [Part -> Publishers \cup {None, Torn}]
          /\ at' \in [Publishers -> 1 .. Parts + 1]
      BY <1>1 DEF Claim
    <3>4. /\ pc' \in [Publishers -> {"idle"} \cup Writing \cup Ended]
          /\ early' \subseteq Publishers /\ late' \subseteq Publishers /\ kept' \subseteq Publishers
      BY <1>1 DEF Claim
    <3>5. isArchive' \in BOOLEAN /\ stale' \in BOOLEAN
      BY <1>1 DEF Claim
    <3> QED
      BY <3>1, <3>2, <3>3, <3>4, <3>5
  <2>2. OneWriter'
    BY <1>1 DEF Claim
  <2>3. WriterHoldsTarget'
    BY <1>1 DEF Claim
  <2>4. FreeIsUnmarked'
    BY <1>1 DEF Claim
  <2>5. WriterKnowsParts'
    BY <1>1 DEF Claim
  <2>6. PublishedStays'
    BY <1>1 DEF Claim
  <2>7. MarkedIsWhole'
    BY <1>1 DEF Claim
  <2>8. ClaimIsAccounted'
    BY <1>1 DEF Claim
  <2>9. EarlyLeavesNothing'
    BY <1>1 DEF Claim
  <2> QED
    BY <2>1, <2>2, <2>3, <2>4, <2>5, <2>6, <2>7, <2>8, <2>9
<1>2. ASSUME NEW p \in Publishers, Enter(p) PROVE IInv'
  <2>1. TypeOK'
    <3>1. exists' \in BOOLEAN
      BY <1>2 DEF Enter
    <3>2. marker' \in BOOLEAN
      BY <1>2 DEF Enter
    <3>3. /\ held' \in [Part -> Publishers \cup {None, Torn}]
          /\ at' \in [Publishers -> 1 .. Parts + 1]
      BY <1>2 DEF Enter
    <3>4. /\ pc' \in [Publishers -> {"idle"} \cup Writing \cup Ended]
          /\ early' \subseteq Publishers /\ late' \subseteq Publishers /\ kept' \subseteq Publishers
      BY <1>2 DEF Enter
    <3>5. isArchive' \in BOOLEAN /\ stale' \in BOOLEAN
      BY <1>2 DEF Enter
    <3> QED
      BY <3>1, <3>2, <3>3, <3>4, <3>5
  <2>2. OneWriter'
    BY <1>2 DEF Enter
  <2>3. WriterHoldsTarget'
    BY <1>2 DEF Enter
  <2>4. FreeIsUnmarked'
    BY <1>2 DEF Enter
  <2>5. WriterKnowsParts'
    BY <1>2 DEF Enter
  <2>6. PublishedStays'
    BY <1>2 DEF Enter
  <2>7. MarkedIsWhole'
    BY <1>2 DEF Enter
  <2>8. ClaimIsAccounted'
    BY <1>2 DEF Enter
  <2>9. EarlyLeavesNothing'
    BY <1>2 DEF Enter
  <2> QED
    BY <2>1, <2>2, <2>3, <2>4, <2>5, <2>6, <2>7, <2>8, <2>9
<1>3. ASSUME NEW p \in Publishers, Refuse(p) PROVE IInv'
  <2>1. TypeOK'
    <3>1. exists' \in BOOLEAN
      BY <1>3 DEF Refuse
    <3>2. marker' \in BOOLEAN
      BY <1>3 DEF Refuse
    <3>3. /\ held' \in [Part -> Publishers \cup {None, Torn}]
          /\ at' \in [Publishers -> 1 .. Parts + 1]
      BY <1>3 DEF Refuse
    <3>4. /\ pc' \in [Publishers -> {"idle"} \cup Writing \cup Ended]
          /\ early' \subseteq Publishers /\ late' \subseteq Publishers /\ kept' \subseteq Publishers
      BY <1>3 DEF Refuse
    <3>5. isArchive' \in BOOLEAN /\ stale' \in BOOLEAN
      BY <1>3 DEF Refuse
    <3> QED
      BY <3>1, <3>2, <3>3, <3>4, <3>5
  <2>2. OneWriter'
    BY <1>3 DEF Refuse
  <2>3. WriterHoldsTarget'
    BY <1>3 DEF Refuse
  <2>4. FreeIsUnmarked'
    BY <1>3 DEF Refuse
  <2>5. WriterKnowsParts'
    BY <1>3 DEF Refuse
  <2>6. PublishedStays'
    BY <1>3 DEF Refuse
  <2>7. MarkedIsWhole'
    BY <1>3 DEF Refuse
  <2>8. ClaimIsAccounted'
    BY <1>3 DEF Refuse
  <2>9. EarlyLeavesNothing'
    BY <1>3 DEF Refuse
  <2> QED
    BY <2>1, <2>2, <2>3, <2>4, <2>5, <2>6, <2>7, <2>8, <2>9
<1>4. ASSUME NEW p \in Publishers, Open(p) PROVE IInv'
  <2>1. TypeOK'
    <3>1. exists' \in BOOLEAN
      BY <1>4 DEF Open
    <3>2. marker' \in BOOLEAN
      BY <1>4 DEF Open
    <3>3. /\ held' \in [Part -> Publishers \cup {None, Torn}]
          /\ at' \in [Publishers -> 1 .. Parts + 1]
      BY <1>4 DEF Open
    <3>4. /\ pc' \in [Publishers -> {"idle"} \cup Writing \cup Ended]
          /\ early' \subseteq Publishers /\ late' \subseteq Publishers /\ kept' \subseteq Publishers
      BY <1>4 DEF Open
    <3>5. isArchive' \in BOOLEAN /\ stale' \in BOOLEAN
      BY <1>4 DEF Open
    <3> QED
      BY <3>1, <3>2, <3>3, <3>4, <3>5
  <2>2. OneWriter'
    BY <1>4 DEF Open
  <2>3. WriterHoldsTarget'
    BY <1>4 DEF Open
  <2>4. FreeIsUnmarked'
    BY <1>4 DEF Open
  <2>5. WriterKnowsParts'
    BY <1>4 DEF Open
  <2>6. PublishedStays'
    BY <1>4 DEF Open
  <2>7. MarkedIsWhole'
    BY <1>4 DEF Open
  <2>8. ClaimIsAccounted'
    BY <1>4 DEF Open
  <2>9. EarlyLeavesNothing'
    BY <1>4 DEF Open
  <2> QED
    BY <2>1, <2>2, <2>3, <2>4, <2>5, <2>6, <2>7, <2>8, <2>9
<1>5. ASSUME NEW p \in Publishers, Write(p) PROVE IInv'
  <2>1. TypeOK'
    <3>1. exists' \in BOOLEAN
      BY <1>5 DEF Write
    <3>2. marker' \in BOOLEAN
      BY <1>5 DEF Write
    <3>3. /\ held' \in [Part -> Publishers \cup {None, Torn}]
          /\ at' \in [Publishers -> 1 .. Parts + 1]
      BY <1>5 DEF Write
    <3>4. /\ pc' \in [Publishers -> {"idle"} \cup Writing \cup Ended]
          /\ early' \subseteq Publishers /\ late' \subseteq Publishers /\ kept' \subseteq Publishers
      BY <1>5 DEF Write
    <3>5. isArchive' \in BOOLEAN /\ stale' \in BOOLEAN
      BY <1>5 DEF Write
    <3> QED
      BY <3>1, <3>2, <3>3, <3>4, <3>5
  <2>2. OneWriter'
    BY <1>5 DEF Write
  <2>3. WriterHoldsTarget'
    BY <1>5 DEF Write
  <2>4. FreeIsUnmarked'
    BY <1>5 DEF Write
  <2>5. WriterKnowsParts'
    BY <1>5 DEF Write
  <2>6. PublishedStays'
    BY <1>5 DEF Write
  <2>7. MarkedIsWhole'
    BY <1>5 DEF Write
  <2>8. ClaimIsAccounted'
    BY <1>5 DEF Write
  <2>9. EarlyLeavesNothing'
    BY <1>5 DEF Write
  <2> QED
    BY <2>1, <2>2, <2>3, <2>4, <2>5, <2>6, <2>7, <2>8, <2>9
<1>6. ASSUME NEW p \in Publishers, Mark(p) PROVE IInv'
  <2>1. TypeOK'
    <3>1. exists' \in BOOLEAN
      BY <1>6 DEF Mark
    <3>2. marker' \in BOOLEAN
      BY <1>6 DEF Mark
    <3>3. /\ held' \in [Part -> Publishers \cup {None, Torn}]
          /\ at' \in [Publishers -> 1 .. Parts + 1]
      BY <1>6 DEF Mark
    <3>4. /\ pc' \in [Publishers -> {"idle"} \cup Writing \cup Ended]
          /\ early' \subseteq Publishers /\ late' \subseteq Publishers /\ kept' \subseteq Publishers
      BY <1>6 DEF Mark
    <3>5. isArchive' \in BOOLEAN /\ stale' \in BOOLEAN
      BY <1>6 DEF Mark
    <3> QED
      BY <3>1, <3>2, <3>3, <3>4, <3>5
  <2>2. OneWriter'
    BY <1>6 DEF Mark
  <2>3. WriterHoldsTarget'
    BY <1>6 DEF Mark
  <2>4. FreeIsUnmarked'
    BY <1>6 DEF Mark
  <2>5. WriterKnowsParts'
    BY <1>6 DEF Mark
  <2>6. PublishedStays'
    BY <1>6 DEF Mark
  <2>7. MarkedIsWhole'
    BY <1>6 DEF Mark
  <2>8. ClaimIsAccounted'
    BY <1>6 DEF Mark
  <2>9. EarlyLeavesNothing'
    BY <1>6 DEF Mark
  <2> QED
    BY <2>1, <2>2, <2>3, <2>4, <2>5, <2>6, <2>7, <2>8, <2>9
<1>7. ASSUME NEW p \in Publishers, Return(p) PROVE IInv'
  <2>1. TypeOK'
    <3>1. exists' \in BOOLEAN
      BY <1>7 DEF Return
    <3>2. marker' \in BOOLEAN
      BY <1>7 DEF Return
    <3>3. /\ held' \in [Part -> Publishers \cup {None, Torn}]
          /\ at' \in [Publishers -> 1 .. Parts + 1]
      BY <1>7 DEF Return
    <3>4. /\ pc' \in [Publishers -> {"idle"} \cup Writing \cup Ended]
          /\ early' \subseteq Publishers /\ late' \subseteq Publishers /\ kept' \subseteq Publishers
      BY <1>7 DEF Return
    <3>5. isArchive' \in BOOLEAN /\ stale' \in BOOLEAN
      BY <1>7 DEF Return
    <3> QED
      BY <3>1, <3>2, <3>3, <3>4, <3>5
  <2>2. OneWriter'
    BY <1>7 DEF Return
  <2>3. WriterHoldsTarget'
    BY <1>7 DEF Return
  <2>4. FreeIsUnmarked'
    BY <1>7 DEF Return
  <2>5. WriterKnowsParts'
    BY <1>7 DEF Return
  <2>6. PublishedStays'
    BY <1>7 DEF Return
  <2>7. MarkedIsWhole'
    BY <1>7 DEF Return
  <2>8. ClaimIsAccounted'
    BY <1>7 DEF Return
  <2>9. EarlyLeavesNothing'
    BY <1>7 DEF Return
  <2> QED
    BY <2>1, <2>2, <2>3, <2>4, <2>5, <2>6, <2>7, <2>8, <2>9
<1>8. ASSUME NEW p \in Publishers, InterruptEarly(p) PROVE IInv'
  <2>1. TypeOK'
    <3>1. exists' \in BOOLEAN
      BY <1>8 DEF InterruptEarly
    <3>2. marker' \in BOOLEAN
      BY <1>8 DEF InterruptEarly
    <3>3. /\ held' \in [Part -> Publishers \cup {None, Torn}]
          /\ at' \in [Publishers -> 1 .. Parts + 1]
      BY <1>8 DEF InterruptEarly
    <3>4. /\ pc' \in [Publishers -> {"idle"} \cup Writing \cup Ended]
          /\ early' \subseteq Publishers /\ late' \subseteq Publishers /\ kept' \subseteq Publishers
      BY <1>8 DEF InterruptEarly
    <3>5. isArchive' \in BOOLEAN /\ stale' \in BOOLEAN
      BY <1>8 DEF InterruptEarly
    <3> QED
      BY <3>1, <3>2, <3>3, <3>4, <3>5
  <2>2. OneWriter'
    BY <1>8 DEF InterruptEarly
  <2>3. WriterHoldsTarget'
    BY <1>8 DEF InterruptEarly
  <2>4. FreeIsUnmarked'
    BY <1>8 DEF InterruptEarly
  <2>5. WriterKnowsParts'
    BY <1>8 DEF InterruptEarly
  <2>6. PublishedStays'
    BY <1>8 DEF InterruptEarly
  <2>7. MarkedIsWhole'
    BY <1>8 DEF InterruptEarly
  <2>8. ClaimIsAccounted'
    BY <1>8 DEF InterruptEarly
  <2>9. EarlyLeavesNothing'
    BY <1>8 DEF InterruptEarly
  <2> QED
    BY <2>1, <2>2, <2>3, <2>4, <2>5, <2>6, <2>7, <2>8, <2>9
<1>9. ASSUME NEW p \in Publishers, Fail(p) PROVE IInv'
  <2>1. TypeOK'
    <3>1. exists' \in BOOLEAN
      BY <1>9 DEF Fail
    <3>2. marker' \in BOOLEAN
      BY <1>9 DEF Fail
    <3>3. /\ held' \in [Part -> Publishers \cup {None, Torn}]
          /\ at' \in [Publishers -> 1 .. Parts + 1]
      BY <1>9 DEF Fail
    <3>4. /\ pc' \in [Publishers -> {"idle"} \cup Writing \cup Ended]
          /\ early' \subseteq Publishers /\ late' \subseteq Publishers /\ kept' \subseteq Publishers
      BY <1>9 DEF Fail
    <3>5. isArchive' \in BOOLEAN /\ stale' \in BOOLEAN
      BY <1>9 DEF Fail
    <3> QED
      BY <3>1, <3>2, <3>3, <3>4, <3>5
  <2>2. OneWriter'
    BY <1>9 DEF Fail
  <2>3. WriterHoldsTarget'
    BY <1>9 DEF Fail
  <2>4. FreeIsUnmarked'
    BY <1>9 DEF Fail
  <2>5. WriterKnowsParts'
    BY <1>9 DEF Fail
  <2>6. PublishedStays'
    BY <1>9 DEF Fail
  <2>7. MarkedIsWhole'
    BY <1>9 DEF Fail
  <2>8. ClaimIsAccounted'
    BY <1>9 DEF Fail
  <2>9. EarlyLeavesNothing'
    BY <1>9 DEF Fail
  <2> QED
    BY <2>1, <2>2, <2>3, <2>4, <2>5, <2>6, <2>7, <2>8, <2>9
<1>10. ASSUME NEW p \in Publishers, InterruptLate(p) PROVE IInv'
  <2>1. TypeOK'
    <3>1. exists' \in BOOLEAN
      BY <1>10 DEF InterruptLate
    <3>2. marker' \in BOOLEAN
      BY <1>10 DEF InterruptLate
    <3>3. /\ held' \in [Part -> Publishers \cup {None, Torn}]
          /\ at' \in [Publishers -> 1 .. Parts + 1]
      BY <1>10 DEF InterruptLate
    <3>4. /\ pc' \in [Publishers -> {"idle"} \cup Writing \cup Ended]
          /\ early' \subseteq Publishers /\ late' \subseteq Publishers /\ kept' \subseteq Publishers
      BY <1>10 DEF InterruptLate
    <3>5. isArchive' \in BOOLEAN /\ stale' \in BOOLEAN
      BY <1>10 DEF InterruptLate
    <3> QED
      BY <3>1, <3>2, <3>3, <3>4, <3>5
  <2>2. OneWriter'
    BY <1>10 DEF InterruptLate
  <2>3. WriterHoldsTarget'
    BY <1>10 DEF InterruptLate
  <2>4. FreeIsUnmarked'
    BY <1>10 DEF InterruptLate
  <2>5. WriterKnowsParts'
    BY <1>10 DEF InterruptLate
  <2>6. PublishedStays'
    BY <1>10 DEF InterruptLate
  <2>7. MarkedIsWhole'
    BY <1>10 DEF InterruptLate
  <2>8. ClaimIsAccounted'
    BY <1>10 DEF InterruptLate
  <2>9. EarlyLeavesNothing'
    BY <1>10 DEF InterruptLate
  <2> QED
    BY <2>1, <2>2, <2>3, <2>4, <2>5, <2>6, <2>7, <2>8, <2>9
<1>11. ASSUME NEW p \in Publishers, InterruptReturn(p) PROVE IInv'
  <2>1. TypeOK'
    <3>1. exists' \in BOOLEAN
      BY <1>11 DEF InterruptReturn
    <3>2. marker' \in BOOLEAN
      BY <1>11 DEF InterruptReturn
    <3>3. /\ held' \in [Part -> Publishers \cup {None, Torn}]
          /\ at' \in [Publishers -> 1 .. Parts + 1]
      BY <1>11 DEF InterruptReturn
    <3>4. /\ pc' \in [Publishers -> {"idle"} \cup Writing \cup Ended]
          /\ early' \subseteq Publishers /\ late' \subseteq Publishers /\ kept' \subseteq Publishers
      BY <1>11 DEF InterruptReturn
    <3>5. isArchive' \in BOOLEAN /\ stale' \in BOOLEAN
      BY <1>11 DEF InterruptReturn
    <3> QED
      BY <3>1, <3>2, <3>3, <3>4, <3>5
  <2>2. OneWriter'
    BY <1>11 DEF InterruptReturn
  <2>3. WriterHoldsTarget'
    BY <1>11 DEF InterruptReturn
  <2>4. FreeIsUnmarked'
    BY <1>11 DEF InterruptReturn
  <2>5. WriterKnowsParts'
    BY <1>11 DEF InterruptReturn
  <2>6. PublishedStays'
    BY <1>11 DEF InterruptReturn
  <2>7. MarkedIsWhole'
    BY <1>11 DEF InterruptReturn
  <2>8. ClaimIsAccounted'
    BY <1>11 DEF InterruptReturn
  <2>9. EarlyLeavesNothing'
    BY <1>11 DEF InterruptReturn
  <2> QED
    BY <2>1, <2>2, <2>3, <2>4, <2>5, <2>6, <2>7, <2>8, <2>9
<1>12. ASSUME NEW p \in Publishers, Kill(p) PROVE IInv'
  <2>1. TypeOK'
    <3>1. exists' \in BOOLEAN
      BY <1>12 DEF Kill
    <3>2. marker' \in BOOLEAN
      BY <1>12 DEF Kill
    <3>3. /\ held' \in [Part -> Publishers \cup {None, Torn}]
          /\ at' \in [Publishers -> 1 .. Parts + 1]
      BY <1>12 DEF Kill
    <3>4. /\ pc' \in [Publishers -> {"idle"} \cup Writing \cup Ended]
          /\ early' \subseteq Publishers /\ late' \subseteq Publishers /\ kept' \subseteq Publishers
      BY <1>12 DEF Kill
    <3>5. isArchive' \in BOOLEAN /\ stale' \in BOOLEAN
      BY <1>12 DEF Kill
    <3> QED
      BY <3>1, <3>2, <3>3, <3>4, <3>5
  <2>2. OneWriter'
    BY <1>12 DEF Kill
  <2>3. WriterHoldsTarget'
    BY <1>12 DEF Kill
  <2>4. FreeIsUnmarked'
    BY <1>12 DEF Kill
  <2>5. WriterKnowsParts'
    BY <1>12 DEF Kill
  <2>6. PublishedStays'
    BY <1>12 DEF Kill
  <2>7. MarkedIsWhole'
    BY <1>12 DEF Kill
  <2>8. ClaimIsAccounted'
    BY <1>12 DEF Kill
  <2>9. EarlyLeavesNothing'
    BY <1>12 DEF Kill
  <2> QED
    BY <2>1, <2>2, <2>3, <2>4, <2>5, <2>6, <2>7, <2>8, <2>9
<1>13. ASSUME NEW p \in Publishers, RemovePart(p) PROVE IInv'
  <2>1. TypeOK'
    <3>1. exists' \in BOOLEAN
      BY <1>13 DEF RemovePart
    <3>2. marker' \in BOOLEAN
      BY <1>13 DEF RemovePart
    <3>3. /\ held' \in [Part -> Publishers \cup {None, Torn}]
          /\ at' \in [Publishers -> 1 .. Parts + 1]
      BY <1>13 DEF RemovePart
    <3>4. /\ pc' \in [Publishers -> {"idle"} \cup Writing \cup Ended]
          /\ early' \subseteq Publishers /\ late' \subseteq Publishers /\ kept' \subseteq Publishers
      BY <1>13 DEF RemovePart
    <3>5. isArchive' \in BOOLEAN /\ stale' \in BOOLEAN
      BY <1>13 DEF RemovePart
    <3> QED
      BY <3>1, <3>2, <3>3, <3>4, <3>5
  <2>2. OneWriter'
    BY <1>13 DEF RemovePart
  <2>3. WriterHoldsTarget'
    BY <1>13 DEF RemovePart
  <2>4. FreeIsUnmarked'
    BY <1>13 DEF RemovePart
  <2>5. WriterKnowsParts'
    BY <1>13 DEF RemovePart
  <2>6. PublishedStays'
    BY <1>13 DEF RemovePart
  <2>7. MarkedIsWhole'
    BY <1>13 DEF RemovePart
  <2>8. ClaimIsAccounted'
    BY <1>13 DEF RemovePart
  <2>9. EarlyLeavesNothing'
    BY <1>13 DEF RemovePart
  <2> QED
    BY <2>1, <2>2, <2>3, <2>4, <2>5, <2>6, <2>7, <2>8, <2>9
<1>14. ASSUME NEW p \in Publishers, RemoveMarker(p) PROVE IInv'
  <2>1. TypeOK'
    <3>1. exists' \in BOOLEAN
      BY <1>14 DEF RemoveMarker
    <3>2. marker' \in BOOLEAN
      BY <1>14 DEF RemoveMarker
    <3>3. /\ held' \in [Part -> Publishers \cup {None, Torn}]
          /\ at' \in [Publishers -> 1 .. Parts + 1]
      BY <1>14 DEF RemoveMarker
    <3>4. /\ pc' \in [Publishers -> {"idle"} \cup Writing \cup Ended]
          /\ early' \subseteq Publishers /\ late' \subseteq Publishers /\ kept' \subseteq Publishers
      BY <1>14 DEF RemoveMarker
    <3>5. isArchive' \in BOOLEAN /\ stale' \in BOOLEAN
      BY <1>14 DEF RemoveMarker
    <3> QED
      BY <3>1, <3>2, <3>3, <3>4, <3>5
  <2>2. OneWriter'
    BY <1>14 DEF RemoveMarker
  <2>3. WriterHoldsTarget'
    BY <1>14 DEF RemoveMarker
  <2>4. FreeIsUnmarked'
    BY <1>14 DEF RemoveMarker
  <2>5. WriterKnowsParts'
    BY <1>14 DEF RemoveMarker
  <2>6. PublishedStays'
    BY <1>14 DEF RemoveMarker
  <2>7. MarkedIsWhole'
    BY <1>14 DEF RemoveMarker
  <2>8. ClaimIsAccounted'
    BY <1>14 DEF RemoveMarker
  <2>9. EarlyLeavesNothing'
    BY <1>14 DEF RemoveMarker
  <2> QED
    BY <2>1, <2>2, <2>3, <2>4, <2>5, <2>6, <2>7, <2>8, <2>9
<1>15. ASSUME NEW p \in Publishers, RemoveTarget(p) PROVE IInv'
  <2>1. TypeOK'
    <3>1. exists' \in BOOLEAN
      BY <1>15 DEF RemoveTarget
    <3>2. marker' \in BOOLEAN
      BY <1>15 DEF RemoveTarget
    <3>3. /\ held' \in [Part -> Publishers \cup {None, Torn}]
          /\ at' \in [Publishers -> 1 .. Parts + 1]
      BY <1>15 DEF RemoveTarget
    <3>4. /\ pc' \in [Publishers -> {"idle"} \cup Writing \cup Ended]
          /\ early' \subseteq Publishers /\ late' \subseteq Publishers /\ kept' \subseteq Publishers
      BY <1>15 DEF RemoveTarget
    <3>5. isArchive' \in BOOLEAN /\ stale' \in BOOLEAN
      BY <1>15 DEF RemoveTarget
    <3> QED
      BY <3>1, <3>2, <3>3, <3>4, <3>5
  <2>2. OneWriter'
    BY <1>15 DEF RemoveTarget
  <2>3. WriterHoldsTarget'
    BY <1>15 DEF RemoveTarget
  <2>4. FreeIsUnmarked'
    BY <1>15 DEF RemoveTarget
  <2>5. WriterKnowsParts'
    BY <1>15 DEF RemoveTarget
  <2>6. PublishedStays'
    BY <1>15 DEF RemoveTarget
  <2>7. MarkedIsWhole'
    BY <1>15 DEF RemoveTarget
  <2>8. ClaimIsAccounted'
    BY <1>15 DEF RemoveTarget
  <2>9. EarlyLeavesNothing'
    BY <1>15 DEF RemoveTarget
  <2> QED
    BY <2>1, <2>2, <2>3, <2>4, <2>5, <2>6, <2>7, <2>8, <2>9
<1>16. ASSUME NEW p \in Publishers, RemovalFails(p) PROVE IInv'
  <2>1. TypeOK'
    <3>1. exists' \in BOOLEAN
      BY <1>16 DEF RemovalFails
    <3>2. marker' \in BOOLEAN
      BY <1>16 DEF RemovalFails
    <3>3. /\ held' \in [Part -> Publishers \cup {None, Torn}]
          /\ at' \in [Publishers -> 1 .. Parts + 1]
      BY <1>16 DEF RemovalFails
    <3>4. /\ pc' \in [Publishers -> {"idle"} \cup Writing \cup Ended]
          /\ early' \subseteq Publishers /\ late' \subseteq Publishers /\ kept' \subseteq Publishers
      BY <1>16 DEF RemovalFails
    <3>5. isArchive' \in BOOLEAN /\ stale' \in BOOLEAN
      BY <1>16 DEF RemovalFails
    <3> QED
      BY <3>1, <3>2, <3>3, <3>4, <3>5
  <2>2. OneWriter'
    BY <1>16 DEF RemovalFails
  <2>3. WriterHoldsTarget'
    BY <1>16 DEF RemovalFails
  <2>4. FreeIsUnmarked'
    BY <1>16 DEF RemovalFails
  <2>5. WriterKnowsParts'
    BY <1>16 DEF RemovalFails
  <2>6. PublishedStays'
    BY <1>16 DEF RemovalFails
  <2>7. MarkedIsWhole'
    BY <1>16 DEF RemovalFails
  <2>8. ClaimIsAccounted'
    BY <1>16 DEF RemovalFails
  <2>9. EarlyLeavesNothing'
    BY <1>16 DEF RemovalFails
  <2> QED
    BY <2>1, <2>2, <2>3, <2>4, <2>5, <2>6, <2>7, <2>8, <2>9
<1>17. ASSUME NEW forgets \in BOOLEAN, Delete(forgets) PROVE IInv'
  <2>1. TypeOK'
    <3>1. exists' \in BOOLEAN
      BY <1>17 DEF Delete
    <3>2. marker' \in BOOLEAN
      BY <1>17 DEF Delete
    <3>3. /\ held' \in [Part -> Publishers \cup {None, Torn}]
          /\ at' \in [Publishers -> 1 .. Parts + 1]
      BY <1>17 DEF Delete
    <3>4. /\ pc' \in [Publishers -> {"idle"} \cup Writing \cup Ended]
          /\ early' \subseteq Publishers /\ late' \subseteq Publishers /\ kept' \subseteq Publishers
      BY <1>17 DEF Delete
    <3>5. isArchive' \in BOOLEAN /\ stale' \in BOOLEAN
      BY <1>17 DEF Delete
    <3> QED
      BY <3>1, <3>2, <3>3, <3>4, <3>5
  <2>2. OneWriter'
    BY <1>17 DEF Delete
  <2>3. WriterHoldsTarget'
    BY <1>17 DEF Delete
  <2>4. FreeIsUnmarked'
    BY <1>17 DEF Delete
  <2>5. WriterKnowsParts'
    BY <1>17 DEF Delete
  <2>6. PublishedStays'
    BY <1>17 DEF Delete
  <2>7. MarkedIsWhole'
    BY <1>17 DEF Delete
  <2>8. ClaimIsAccounted'
    BY <1>17 DEF Delete
  <2>9. EarlyLeavesNothing'
    BY <1>17 DEF Delete
  <2> QED
    BY <2>1, <2>2, <2>3, <2>4, <2>5, <2>6, <2>7, <2>8, <2>9
<1>18. CASE UNCHANGED vars
  BY <1>18 DEF vars
<1> QED
  BY <1>1, <1>2, <1>3, <1>4, <1>5, <1>6, <1>7, <1>8, <1>9, <1>10,
     <1>11, <1>12, <1>13, <1>14, <1>15, <1>16, <1>17, <1>18
     DEF Next, Publish

LEMMA Invariance == Spec => []IInv
<1>1. Init => IInv
  BY Initial
<1>2. IInv /\ [Next]_vars => IInv'
  BY Inductive
<1> QED
  BY <1>1, <1>2, PTL DEF Spec

-----------------------------------------------------------------------------
\* The target, the marker and every publisher's place keep their types.
THEOREM TypeCorrect == Spec => []TypeOK
<1>1. IInv => TypeOK
  BY DEF IInv
<1> QED
  BY <1>1, Invariance, PTL

\* A marked target is a whole bundle, whatever failed, was refused or was killed,
\* but for an interrupt right after the marker or a marker the user forgot.
THEOREM MarkerMeansWhole == Spec => []MarkedIsWhole
<1>1. IInv => MarkedIsWhole
  BY DEF IInv
<1> QED
  BY <1>1, Invariance, PTL

\* No publisher damages or removes what another has returned.
THEOREM PublicationsLast == Spec => []PublishedStays
<1>1. IInv => PublishedStays
  BY DEF IInv
<1> QED
  BY <1>1, Invariance, PTL

\* Publishers that failed, were interrupted or were refused leave the name free, or
\* a whole bundle that is marked; at most the empty target of one that was
\* interrupted before the try.
THEOREM FailuresLeaveNothing == Spec => []NoPartialOutput
<1>1. IInv => NoPartialOutput
  BY DEF IInv, ClaimIsAccounted, EarlyLeavesNothing, NoPartialOutput, Settled, IsComplete
<1> QED
  BY <1>1, Invariance, PTL
=============================================================================
