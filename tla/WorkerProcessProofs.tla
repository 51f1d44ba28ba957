------------------------ MODULE WorkerProcessProofs ------------------------
(***************************************************************************)
(* Proofs, for any set of calls, that the worker's callers are only handed *)
(* their own replies, that a kept child is clean, that one call of a queue *)
(* is executed at a time, and that all of it implements CallServer.        *)
(***************************************************************************)
EXTENDS WorkerProcess, TLAPS

\* Steps at which a caller holds its mutex; those at which it also has a child.
Critical == {"holding", "sending", "receiving", "storing", "closing"}
WithChild == Critical \ {"holding"}

\* The pipes of k are empty and it executes nothing.
Clean(k) == requests[k] = <<>> /\ replies[k] = <<>> /\ process[k] # "busy"

\* The mutexes are held by the callers in their critical sections.
Exclusion == \A c \in Calls : pc[c] \in Critical => mutex[MutexOf(c)] = c

\* A call has not started its child before it reaches _Child().
NotYetStarted ==
  \A c \in Calls :
    pc[c] \in {"new", "waiting", "holding"} => process[c] = "unborn"

UnbornIsClean == \A k \in Calls : process[k] = "unborn" => Clean(k)

\* A kept child belongs to the worker, never to a ranking, and is clean.
KeptIsClean ==
  retained # None =>
    retained \in Calls \ Rankings /\ process[retained] # "unborn" /\ Clean(retained)

\* While a caller has the worker's child, the worker keeps none.
ChildInHand ==
  \A c \in Calls : pc[c] \in WithChild =>
    /\ child[c] \in Calls
    /\ process[child[c]] # "unborn"
    /\ c \in Rankings => child[c] = c /\ pc[c] # "storing"
    /\ c \notin Rankings => child[c] \notin Rankings /\ retained = None

CleanBeforeAndAfter ==
  \A c \in Calls : pc[c] \in {"sending", "storing", "closing"} => Clean(child[c])

\* The pipes of the child of a waiting caller hold nothing, its request, or its
\* reply (whole or torn).
OnlyOwnTraffic ==
  \A c \in Calls : pc[c] = "receiving" =>
    LET k == child[c] IN
    \/ requests[k] = <<>> /\ replies[k] = <<>>
    \/ requests[k] = <<c>> /\ replies[k] = <<>> /\ process[k] # "busy"
    \/ requests[k] = <<>> /\ replies[k] = <<c>> /\ process[k] # "busy"

\* Whatever a child executes or is about to execute has a caller waiting.
WorkHasCaller ==
  \A k \in Calls :
    /\ process[k] = "busy" =>
         pc[serving[k]] = "receiving" /\ child[serving[k]] = k
    /\ process[k] = "idle" /\ requests[k] # <<>> =>
         \E c \in Calls : pc[c] = "receiving" /\ child[c] = k

IInv ==
  /\ TypeOK /\ Exclusion /\ NotYetStarted /\ UnbornIsClean /\ KeptIsClean
  /\ ChildInHand /\ CleanBeforeAndAfter /\ OnlyOwnTraffic /\ WorkHasCaller
  /\ OwnAnswer




-----------------------------------------------------------------------------
\* A pipe of at most one message.
LEMMA OneMessage ==
  ASSUME NEW e
  PROVE  /\ Append(<<>>, e) = <<e>>
         /\ <<e>> # <<>>
         /\ Head(<<e>>) = e
         /\ Tail(<<e>>) = <<>>
OBVIOUS


\* Two callers never have the same child in hand.
LEMMA Disjoint ==
  ASSUME IInv, NEW c \in Calls, NEW d \in Calls, pc[c] \in WithChild, pc[d] \in WithChild,
         child[c] = child[d]
  PROVE  c = d
BY RankingsAreCalls, NoneIsNoCall
   DEF IInv, Exclusion, ChildInHand, WithChild, Critical, MutexOf

\* A discarded child takes everything in its pipes with it.
LEMMA DiscardStep ==
  ASSUME IInv, NEW c \in Calls, pc[c] \in {"sending", "receiving"},
         NEW how \in {"WorkerDied", "OSError", "UnpicklingError", "Interrupted"},
         Discard(c, how)
  PROVE  IInv'
<1> USE RankingsAreCalls, NoneIsNoCall, OneMessage
<1> USE DEF IInv, TypeOK, Mutexes, CallOrNone, MutexOf, Alive, At, Goto, End, Discard,
        callerVars, childVars, Critical, WithChild, Clean, Exclusion, NotYetStarted,
        UnbornIsClean, KeptIsClean, ChildInHand, CleanBeforeAndAfter, OnlyOwnTraffic,
        WorkHasCaller, OwnAnswer
<1>1. TypeOK'
  OBVIOUS
<1>2. Exclusion' /\ NotYetStarted' /\ UnbornIsClean'
  OBVIOUS
<1>3. KeptIsClean' /\ ChildInHand'
  OBVIOUS
<1>4. CleanBeforeAndAfter'
  OBVIOUS
<1>5. OnlyOwnTraffic'
  OBVIOUS
<1>6. WorkHasCaller'
  OBVIOUS
<1>7. OwnAnswer'
  OBVIOUS
<1> QED
  BY <1>1, <1>2, <1>3, <1>4, <1>5, <1>6, <1>7

\* Every step of a caller, of a child and of the host keeps the invariant.
LEMMA Inductive == IInv /\ [Next]_vars => IInv'
<1> SUFFICES ASSUME IInv, [Next]_vars PROVE IInv'
  OBVIOUS
<1>0. \A c, d \in Calls :
        pc[c] \in WithChild /\ pc[d] \in WithChild /\ child[c] = child[d] => c = d
  BY Disjoint
<1> USE RankingsAreCalls, NoneIsNoCall, OneMessage
<1> USE DEF IInv, TypeOK, Mutexes, CallOrNone, MutexOf, Alive, At, Goto, End, Discard,
        callerVars, childVars, Critical, WithChild, Clean, Exclusion, NotYetStarted,
        UnbornIsClean, KeptIsClean, ChildInHand, CleanBeforeAndAfter, OnlyOwnTraffic,
        WorkHasCaller, OwnAnswer
<1>1. ASSUME NEW c \in Calls, Call(c) PROVE IInv'
  <2>1. TypeOK'
    BY <1>1 DEF Call
  <2>2. Exclusion' /\ NotYetStarted' /\ UnbornIsClean'
    BY <1>1 DEF Call
  <2>3. KeptIsClean' /\ ChildInHand'
    BY <1>1 DEF Call
  <2>4. CleanBeforeAndAfter'
    BY <1>1 DEF Call
  <2>5. OnlyOwnTraffic'
    BY <1>1 DEF Call
  <2>6. WorkHasCaller'
    BY <1>1 DEF Call
  <2>7. OwnAnswer'
    BY <1>1 DEF Call
  <2> QED
    BY <2>1, <2>2, <2>3, <2>4, <2>5, <2>6, <2>7
<1>2. ASSUME NEW c \in Calls, RefuseArguments(c) PROVE IInv'
  <2>1. TypeOK'
    BY <1>2 DEF RefuseArguments
  <2>2. Exclusion' /\ NotYetStarted' /\ UnbornIsClean'
    BY <1>2 DEF RefuseArguments
  <2>3. KeptIsClean' /\ ChildInHand'
    BY <1>2 DEF RefuseArguments
  <2>4. CleanBeforeAndAfter'
    BY <1>2 DEF RefuseArguments
  <2>5. OnlyOwnTraffic'
    BY <1>2 DEF RefuseArguments
  <2>6. WorkHasCaller'
    BY <1>2 DEF RefuseArguments
  <2>7. OwnAnswer'
    BY <1>2 DEF RefuseArguments
  <2> QED
    BY <2>1, <2>2, <2>3, <2>4, <2>5, <2>6, <2>7
<1>3. ASSUME NEW c \in Calls, Acquire(c) PROVE IInv'
  <2>1. TypeOK'
    BY <1>3 DEF Acquire
  <2>2. Exclusion' /\ NotYetStarted' /\ UnbornIsClean'
    BY <1>3 DEF Acquire
  <2>3. KeptIsClean' /\ ChildInHand'
    BY <1>3 DEF Acquire
  <2>4. CleanBeforeAndAfter'
    BY <1>3 DEF Acquire
  <2>5. OnlyOwnTraffic'
    BY <1>3 DEF Acquire
  <2>6. WorkHasCaller'
    BY <1>3 DEF Acquire
  <2>7. OwnAnswer'
    BY <1>3 DEF Acquire
  <2> QED
    BY <2>1, <2>2, <2>3, <2>4, <2>5, <2>6, <2>7
<1>4. ASSUME NEW c \in Calls, Reuse(c) PROVE IInv'
  <2>1. TypeOK'
    BY <1>4 DEF Reuse
  <2>2. Exclusion' /\ NotYetStarted' /\ UnbornIsClean'
    BY <1>4 DEF Reuse
  <2>3. KeptIsClean' /\ ChildInHand'
    BY <1>4 DEF Reuse
  <2>4. CleanBeforeAndAfter'
    BY <1>4 DEF Reuse
  <2>5. OnlyOwnTraffic'
    BY <1>4 DEF Reuse
  <2>6. WorkHasCaller'
    BY <1>4 DEF Reuse
  <2>7. OwnAnswer'
    BY <1>4 DEF Reuse
  <2> QED
    BY <2>1, <2>2, <2>3, <2>4, <2>5, <2>6, <2>7
<1>5. ASSUME NEW c \in Calls, Start(c) PROVE IInv'
  <2>1. TypeOK'
    BY <1>5 DEF Start
  <2>2. Exclusion' /\ NotYetStarted' /\ UnbornIsClean'
    BY <1>5 DEF Start
  <2>3. KeptIsClean' /\ ChildInHand'
    BY <1>5 DEF Start
  <2>4. CleanBeforeAndAfter'
    BY <1>5 DEF Start
  <2>5. OnlyOwnTraffic'
    BY <1>5 DEF Start
  <2>6. WorkHasCaller'
    BY <1>5 DEF Start
  <2>7. OwnAnswer'
    BY <1>5 DEF Start
  <2> QED
    BY <2>1, <2>2, <2>3, <2>4, <2>5, <2>6, <2>7
<1>6. ASSUME NEW c \in Calls, StartFails(c) PROVE IInv'
  <2>1. TypeOK'
    BY <1>6 DEF StartFails
  <2>2. Exclusion' /\ NotYetStarted' /\ UnbornIsClean'
    BY <1>6 DEF StartFails
  <2>3. KeptIsClean' /\ ChildInHand'
    BY <1>6 DEF StartFails
  <2>4. CleanBeforeAndAfter'
    BY <1>6 DEF StartFails
  <2>5. OnlyOwnTraffic'
    BY <1>6 DEF StartFails
  <2>6. WorkHasCaller'
    BY <1>6 DEF StartFails
  <2>7. OwnAnswer'
    BY <1>6 DEF StartFails
  <2> QED
    BY <2>1, <2>2, <2>3, <2>4, <2>5, <2>6, <2>7
<1>7. ASSUME NEW c \in Calls, Send(c) PROVE IInv'
  <2>0. \A d \in Calls : d # c /\ pc[d] \in WithChild => child[d] # child[c]
    BY <1>7, <1>0 DEF Send
  <2>1. TypeOK'
    BY <1>7 DEF Send
  <2>2. Exclusion' /\ NotYetStarted' /\ UnbornIsClean'
    BY <1>7 DEF Send
  <2>3. KeptIsClean' /\ ChildInHand'
    BY <1>7 DEF Send
  <2>4. CleanBeforeAndAfter'
    BY <1>7 DEF Send
  <2>5. OnlyOwnTraffic'
    <3> SUFFICES ASSUME NEW d \in Calls, pc'[d] = "receiving"
                 PROVE  LET k == child'[d] IN
                        \/ requests'[k] = <<>> /\ replies'[k] = <<>>
                        \/ requests'[k] = <<d>> /\ replies'[k] = <<>> /\ process'[k] # "busy"
                        \/ requests'[k] = <<>> /\ replies'[k] = <<d>> /\ process'[k] # "busy"
      BY DEF OnlyOwnTraffic
    <3>1. CASE d = c
      <4>1. child[c] \in Calls /\ Clean(child[c])
        BY <1>7 DEF Send
      <4>2. requests'[child[c]] = <<c>>
        BY <1>7, <4>1 DEF Send
      <4> QED
        BY <1>7, <3>1, <4>1, <4>2 DEF Send
    <3>2. CASE d # c
      <4>1. pc[d] = "receiving" /\ child[d] \in Calls /\ child[d] # child[c]
        BY <1>7, <2>0, <3>2 DEF Send
      <4>2. /\ child'[d] = child[d] /\ requests'[child[d]] = requests[child[d]]
            /\ replies' = replies /\ process' = process
        BY <1>7, <4>1 DEF Send
      <4> QED
        BY <4>1, <4>2
    <3> QED
      BY <3>1, <3>2
  <2>6. WorkHasCaller'
    BY <1>7 DEF Send
  <2>7. OwnAnswer'
    BY <1>7 DEF Send
  <2> QED
    BY <2>1, <2>2, <2>3, <2>4, <2>5, <2>6, <2>7
<1>8. ASSUME NEW c \in Calls, SendFails(c) PROVE IInv'
  BY <1>8, DiscardStep DEF SendFails
<1>9. ASSUME NEW c \in Calls, Receive(c) PROVE IInv'
  <2>0. \A d \in Calls : d # c /\ pc[d] \in WithChild => child[d] # child[c]
    BY <1>9, <1>0 DEF Receive
  <2>1. TypeOK'
    BY <1>9 DEF Receive
  <2>2. Exclusion' /\ NotYetStarted' /\ UnbornIsClean'
    BY <1>9 DEF Receive
  <2>3. KeptIsClean' /\ ChildInHand'
    BY <1>9 DEF Receive
  <2>4. CleanBeforeAndAfter'
    <3> SUFFICES ASSUME NEW d \in Calls, pc'[d] \in {"sending", "storing", "closing"}
                 PROVE  Clean(child[d])'
      BY DEF CleanBeforeAndAfter
    <3>1. CASE d = c
      <4>1. /\ child[c] \in Calls /\ process[child[c]] # "busy"
            /\ requests[child[c]] = <<>> /\ replies[child[c]] = <<c>>
        BY <1>9 DEF Receive
      <4>2. replies'[child[c]] = <<>>
        BY <1>9, <4>1 DEF Receive
      <4> QED
        BY <1>9, <3>1, <4>1, <4>2 DEF Receive
    <3>2. CASE d # c
      BY <1>9, <2>0, <3>2 DEF Receive
    <3> QED
      BY <3>1, <3>2
  <2>5. OnlyOwnTraffic'
    <3>1. \A d \in Calls : pc'[d] = "receiving" =>
            /\ pc[d] = "receiving" /\ child[d] \in Calls /\ child[d] # child[c]
            /\ child'[d] = child[d] /\ replies'[child[d]] = replies[child[d]]
      BY <1>9, <2>0 DEF Receive
    <3>2. requests' = requests /\ process' = process
      BY <1>9 DEF Receive
    <3>3. OnlyOwnTraffic
      OBVIOUS
    <3> QED
      BY <3>1, <3>2, <3>3 DEF OnlyOwnTraffic
  <2>6. WorkHasCaller'
    BY <1>9 DEF Receive
  <2>7. OwnAnswer'
    BY <1>9 DEF Receive
  <2> QED
    BY <2>1, <2>2, <2>3, <2>4, <2>5, <2>6, <2>7
<1>10. ASSUME NEW c \in Calls, ReceiveUnpicklable(c) PROVE IInv'
  BY <1>10, DiscardStep DEF ReceiveUnpicklable
<1>11. ASSUME NEW c \in Calls, ReceiveEnd(c) PROVE IInv'
  BY <1>11, DiscardStep DEF ReceiveEnd
<1>12. ASSUME NEW c \in Calls, Store(c) PROVE IInv'
  <2>1. TypeOK'
    BY <1>12 DEF Store
  <2>2. Exclusion' /\ NotYetStarted' /\ UnbornIsClean'
    BY <1>12 DEF Store
  <2>3. KeptIsClean' /\ ChildInHand'
    <3>1. retained' = child[c] /\ c \notin Rankings
      BY <1>12 DEF Store
    <3>2. KeptIsClean'
      BY <1>12, <3>1 DEF Store
    <3>3. \A d \in Calls \ Rankings : pc'[d] \notin WithChild
      BY <1>12, <3>1 DEF Store
    <3>4. ChildInHand'
      BY <1>12, <3>3 DEF Store
    <3> QED
      BY <3>2, <3>4
  <2>4. CleanBeforeAndAfter'
    BY <1>12 DEF Store
  <2>5. OnlyOwnTraffic'
    BY <1>12 DEF Store
  <2>6. WorkHasCaller'
    BY <1>12 DEF Store
  <2>7. OwnAnswer'
    BY <1>12 DEF Store
  <2> QED
    BY <2>1, <2>2, <2>3, <2>4, <2>5, <2>6, <2>7
<1>13. ASSUME NEW c \in Calls, Close(c) PROVE IInv'
  <2>1. TypeOK'
    BY <1>13 DEF Close
  <2>2. Exclusion' /\ NotYetStarted' /\ UnbornIsClean'
    BY <1>13 DEF Close
  <2>3. KeptIsClean' /\ ChildInHand'
    BY <1>13 DEF Close
  <2>4. CleanBeforeAndAfter'
    BY <1>13 DEF Close
  <2>5. OnlyOwnTraffic'
    BY <1>13 DEF Close
  <2>6. WorkHasCaller'
    BY <1>13 DEF Close
  <2>7. OwnAnswer'
    BY <1>13 DEF Close
  <2> QED
    BY <2>1, <2>2, <2>3, <2>4, <2>5, <2>6, <2>7
<1>14. ASSUME NEW c \in Calls, InterruptCall(c) PROVE IInv'
  BY <1>14, DiscardStep DEF InterruptCall
<1>15. ASSUME NEW c \in Calls, InterruptElsewhere(c) PROVE IInv'
  <2>1. TypeOK'
    BY <1>15 DEF InterruptElsewhere
  <2>2. Exclusion' /\ NotYetStarted' /\ UnbornIsClean'
    BY <1>15 DEF InterruptElsewhere
  <2>3. KeptIsClean' /\ ChildInHand'
    BY <1>15 DEF InterruptElsewhere
  <2>4. CleanBeforeAndAfter'
    BY <1>15 DEF InterruptElsewhere
  <2>5. OnlyOwnTraffic'
    BY <1>15 DEF InterruptElsewhere
  <2>6. WorkHasCaller'
    BY <1>15 DEF InterruptElsewhere
  <2>7. OwnAnswer'
    BY <1>15 DEF InterruptElsewhere
  <2> QED
    BY <2>1, <2>2, <2>3, <2>4, <2>5, <2>6, <2>7
<1>16. ASSUME NEW c \in Calls, InterruptStart(c) PROVE IInv'
  <2>1. TypeOK'
    BY <1>16 DEF InterruptStart
  <2>2. Exclusion' /\ NotYetStarted' /\ UnbornIsClean'
    BY <1>16 DEF InterruptStart
  <2>3. KeptIsClean' /\ ChildInHand'
    BY <1>16 DEF InterruptStart
  <2>4. CleanBeforeAndAfter'
    BY <1>16 DEF InterruptStart
  <2>5. OnlyOwnTraffic'
    BY <1>16 DEF InterruptStart
  <2>6. WorkHasCaller'
    BY <1>16 DEF InterruptStart
  <2>7. OwnAnswer'
    BY <1>16 DEF InterruptStart
  <2> QED
    BY <2>1, <2>2, <2>3, <2>4, <2>5, <2>6, <2>7
<1>17. ASSUME NEW c \in Calls, Serve(c) PROVE IInv'
  <2>0. PICK d \in Calls : pc[d] = "receiving" /\ child[d] = c
    BY <1>17 DEF Serve
  <2>a. requests[c] = <<d>> /\ replies[c] = <<>>
    BY <1>17, <2>0 DEF Serve
  <2>b. \A e \in Calls : e # d /\ pc[e] \in WithChild => child[e] # c
    BY <2>0, <1>0
  <2>c. serving'[c] = d /\ requests'[c] = <<>> /\ process'[c] = "busy"
    BY <1>17, <2>a DEF Serve
  <2>1. TypeOK'
    BY <1>17 DEF Serve
  <2>2. Exclusion' /\ NotYetStarted' /\ UnbornIsClean'
    BY <1>17 DEF Serve
  <2>3. KeptIsClean' /\ ChildInHand'
    BY <1>17 DEF Serve
  <2>4. CleanBeforeAndAfter'
    BY <1>17 DEF Serve
  <2>5. OnlyOwnTraffic'
    BY <1>17, <2>0, <2>a, <2>b, <2>c, SMTT(60) DEF Serve
  <2>6. WorkHasCaller'
    BY <1>17, <2>0, <2>a, <2>b, <2>c, SMTT(60) DEF Serve
  <2>7. OwnAnswer'
    BY <1>17 DEF Serve
  <2> QED
    BY <2>1, <2>2, <2>3, <2>4, <2>5, <2>6, <2>7
<1>18. ASSUME NEW c \in Calls, Finish(c) PROVE IInv'
  <2>0. PICK d \in Calls : d = serving[c] /\ pc[d] = "receiving" /\ child[d] = c
    BY <1>18 DEF Finish
  <2>a. requests[c] = <<>> /\ replies[c] = <<>>
    BY <1>18, <2>0 DEF Finish
  <2>b. \A e \in Calls : e # d /\ pc[e] \in WithChild => child[e] # c
    BY <2>0, <1>0
  <2>c. replies'[c] = <<d>> /\ requests'[c] = <<>> /\ process'[c] = "idle"
    BY <1>18, <2>0, <2>a DEF Finish
  <2>1. TypeOK'
    BY <1>18 DEF Finish
  <2>2. Exclusion' /\ NotYetStarted' /\ UnbornIsClean'
    BY <1>18 DEF Finish
  <2>3. KeptIsClean' /\ ChildInHand'
    BY <1>18 DEF Finish
  <2>4. CleanBeforeAndAfter'
    BY <1>18 DEF Finish
  <2>5. OnlyOwnTraffic'
    BY <1>18, <2>0, <2>a, <2>b, <2>c DEF Finish
  <2>6. WorkHasCaller'
    BY <1>18 DEF Finish
  <2>7. OwnAnswer'
    BY <1>18 DEF Finish
  <2> QED
    BY <2>1, <2>2, <2>3, <2>4, <2>5, <2>6, <2>7
<1>19. ASSUME NEW c \in Calls, FinishFails(c) PROVE IInv'
  <2>1. TypeOK'
    BY <1>19 DEF FinishFails
  <2>2. Exclusion' /\ NotYetStarted' /\ UnbornIsClean'
    BY <1>19 DEF FinishFails
  <2>3. KeptIsClean' /\ ChildInHand'
    BY <1>19 DEF FinishFails
  <2>4. CleanBeforeAndAfter'
    BY <1>19 DEF FinishFails
  <2>5. OnlyOwnTraffic'
    BY <1>19 DEF FinishFails
  <2>6. WorkHasCaller'
    BY <1>19 DEF FinishFails
  <2>7. OwnAnswer'
    BY <1>19 DEF FinishFails
  <2> QED
    BY <2>1, <2>2, <2>3, <2>4, <2>5, <2>6, <2>7
<1>20. ASSUME NEW c \in Calls, Leave(c) PROVE IInv'
  <2>1. TypeOK'
    BY <1>20 DEF Leave
  <2>2. Exclusion' /\ NotYetStarted' /\ UnbornIsClean'
    BY <1>20 DEF Leave
  <2>3. KeptIsClean' /\ ChildInHand'
    BY <1>20 DEF Leave
  <2>4. CleanBeforeAndAfter'
    BY <1>20 DEF Leave
  <2>5. OnlyOwnTraffic'
    BY <1>20 DEF Leave
  <2>6. WorkHasCaller'
    BY <1>20 DEF Leave
  <2>7. OwnAnswer'
    BY <1>20 DEF Leave
  <2> QED
    BY <2>1, <2>2, <2>3, <2>4, <2>5, <2>6, <2>7
<1>21. ASSUME NEW c \in Calls, Crash(c) PROVE IInv'
  <2>1. TypeOK'
    <3>1. torn \in [Calls -> BOOLEAN] /\ (process[c] = "busy") \in BOOLEAN
      OBVIOUS
    <3>2. [torn EXCEPT ![c] = process[c] = "busy"] \in [Calls -> BOOLEAN]
      BY <3>1, Zenon
    <3>3. torn' \in [Calls -> BOOLEAN]
      <4>1. CASE torn' = torn
        BY <3>1, <4>1, Zenon
      <4>2. CASE torn' = [torn EXCEPT ![c] = process[c] = "busy"]
        BY <3>2, <4>2, Zenon
      <4> QED
        BY <1>21, <4>1, <4>2, Zenon DEF Crash
    <3> HIDE DEF Crash
    <3>4. /\ process' = [process EXCEPT ![c] = "dead"]
          /\ UNCHANGED <<host, callerVars, serving, requests, replies>>
      BY <1>21, Zenon DEF Crash
    <3> QED
      BY <3>3, <3>4
  <2>2. Exclusion' /\ NotYetStarted' /\ UnbornIsClean'
    BY <1>21 DEF Crash
  <2>3. KeptIsClean' /\ ChildInHand'
    BY <1>21 DEF Crash
  <2>4. CleanBeforeAndAfter'
    BY <1>21 DEF Crash
  <2>5. OnlyOwnTraffic'
    BY <1>21 DEF Crash
  <2>6. WorkHasCaller'
    BY <1>21 DEF Crash
  <2>7. OwnAnswer'
    BY <1>21 DEF Crash
  <2> QED
    BY <2>1, <2>2, <2>3, <2>4, <2>5, <2>6, <2>7
<1>22. CASE HostGone
  BY <1>22 DEF HostGone
<1>23. CASE UNCHANGED vars
  BY <1>23 DEF vars
<1> QED
  BY <1>1, <1>2, <1>3, <1>4, <1>5, <1>6, <1>7, <1>8, <1>9, <1>10, <1>11, <1>12, <1>13,
     <1>14, <1>15, <1>16, <1>17, <1>18, <1>19, <1>20, <1>21, <1>22, <1>23
     DEF Next, CallerStep, ChildStep

-----------------------------------------------------------------------------
LEMMA Initial == Init => IInv
BY NoneIsNoCall
   DEF Init, IInv, TypeOK, Mutexes, CallOrNone, Exclusion, NotYetStarted, UnbornIsClean,
       KeptIsClean, ChildInHand, CleanBeforeAndAfter, OnlyOwnTraffic, WorkHasCaller,
       OwnAnswer, Clean, Critical, WithChild

LEMMA Invariance == Spec => []IInv
BY Initial, Inductive, PTL DEF Spec

\* The state of the callers, mutexes, children and pipes always has its type.
THEOREM TypeCorrect == Spec => []TypeOK
<1>1. IInv => TypeOK
  BY DEF IInv
<1> QED
  BY <1>1, Invariance, PTL

\* However calls, interrupts, crashes and discards interleave, a caller is
\* handed the reply to its own call or none (WorkerProcess.run, lines 66-77).
THEOREM RepliesReachTheirCallers == Spec => []OwnAnswer
<1>1. IInv => OwnAnswer
  BY DEF IInv
<1> QED
  BY <1>1, Invariance, PTL

\* The child the worker keeps for the next call has nothing left of this one.
THEOREM KeptChildIsClean == Spec => []CleanWhenKept
<1>1. IInv => CleanWhenKept
  BY DEF IInv, KeptIsClean, Clean, CleanWhenKept
<1> QED
  BY <1>1, Invariance, PTL

\* At most one call of a queue is executed at a time, in however many children
\* it was tried: the side effects of two enumerations or of two mace models
\* never meet.
THEOREM ExecutionsAreSerial == Spec => []OneAtATime
<1>1. IInv => OneAtATime
  <2> SUFFICES ASSUME IInv, NEW j \in Calls, NEW k \in Calls,
                      process[j] = "busy", process[k] = "busy",
                      MutexOf(serving[j]) = MutexOf(serving[k])
               PROVE  j = k
    BY DEF OneAtATime
  <2>1. /\ serving[j] \in Calls /\ pc[serving[j]] = "receiving" /\ child[serving[j]] = j
        /\ serving[k] \in Calls /\ pc[serving[k]] = "receiving" /\ child[serving[k]] = k
    BY DEF IInv, TypeOK, WorkHasCaller
  <2>2. serving[j] = serving[k]
    BY <2>1, NoneIsNoCall DEF IInv, Exclusion, Critical
  <2> QED
    BY <2>1, <2>2
<1> QED
  BY <1>1, Invariance, PTL

\* A call that ended, by an answer, an error or an interrupt, is not still
\* waiting in, or executed by, a live child.
THEOREM EndedCallsAreGone == Spec => []NoWorkLeftBehind
<1>1. IInv => NoWorkLeftBehind
  <2> SUFFICES ASSUME IInv, NEW c \in Calls, NEW k \in Calls, pc[c] = "done", Alive(k)
               PROVE  /\ ~(process[k] = "busy" /\ serving[k] = c)
                      /\ c \notin {requests[k][i] : i \in DOMAIN requests[k]}
    BY DEF NoWorkLeftBehind
  <2>1. ~(process[k] = "busy" /\ serving[k] = c)
    BY DEF IInv, WorkHasCaller
  <2>2. c \notin {requests[k][i] : i \in DOMAIN requests[k]}
    <3>1. CASE process[k] = "busy"
      BY <3>1 DEF IInv, WorkHasCaller, OnlyOwnTraffic, TypeOK
    <3>2. CASE requests[k] = <<>>
      BY <3>2
    <3>3. CASE process[k] = "idle" /\ requests[k] # <<>>
      BY <3>3 DEF IInv, WorkHasCaller, OnlyOwnTraffic
    <3> QED
      BY <3>1, <3>2, <3>3 DEF Alive
  <2> QED
    BY <2>1, <2>2
<1> QED
  BY <1>1, Invariance, PTL
-----------------------------------------------------------------------------
(* The refinement of CallServer.                                           *)

\* A call that has not been sent has not been taken by a child.
NotTakenBefore ==
  \A c \in Calls : pc[c] \in {"new", "waiting", "holding", "sending"} => ~Taken(c)

\* A call that waits for its reply is taken by its own child only, between the
\* request and the reply.
TakenByOwnChild ==
  \A c \in Calls : pc[c] = "receiving" =>
    /\ result[c] = None
    /\ \A k \in Calls : serving[k] = c => k = child[c]
    /\ requests[child[c]] # <<>> => serving[child[c]] # c
    /\ replies[child[c]] # <<>> => serving[child[c]] = c

ReplyInHand == \A c \in Calls : pc[c] \in {"storing", "closing"} => result[c] = c

Accounted == NotTakenBefore /\ TakenByOwnChild /\ ReplyInHand

LEMMA AccountedInductive == IInv /\ Accounted /\ [Next]_vars => Accounted'
<1> SUFFICES ASSUME IInv, Accounted, [Next]_vars PROVE Accounted'
  OBVIOUS
<1>0. \A c, d \in Calls :
        pc[c] \in WithChild /\ pc[d] \in WithChild /\ child[c] = child[d] => c = d
  BY Disjoint
<1>t. IInv /\ TypeOK /\ ChildInHand /\ OnlyOwnTraffic /\ CleanBeforeAndAfter /\ WorkHasCaller
  BY DEF IInv
<1> USE NoneIsNoCall, OneMessage
<1> USE DEF Accounted, NotTakenBefore, TakenByOwnChild, ReplyInHand, Taken, TypeOK, Mutexes,
        CallOrNone, At, Goto, End, Discard, callerVars, childVars
<1>1. ASSUME NEW c \in Calls, Call(c) PROVE Accounted'
  BY <1>1, <1>t DEF Call
<1>2. ASSUME NEW c \in Calls, RefuseArguments(c) PROVE Accounted'
  BY <1>2, <1>t DEF RefuseArguments
<1>3. ASSUME NEW c \in Calls, Acquire(c) PROVE Accounted'
  BY <1>3, <1>t DEF Acquire
<1>4. ASSUME NEW c \in Calls, Reuse(c) PROVE Accounted'
  <2>1. /\ pc[c] = "holding" /\ pc' = [pc EXCEPT ![c] = "sending"]
        /\ child' = [child EXCEPT ![c] = retained]
        /\ UNCHANGED <<result, serving, requests, replies>>
    BY <1>4 DEF Reuse
  <2>2. NotTakenBefore' /\ ReplyInHand'
    BY <2>1
  <2>3. TakenByOwnChild'
    BY <2>1
  <2> QED
    BY <2>2, <2>3
<1>5. ASSUME NEW c \in Calls, Start(c) PROVE Accounted'
  BY <1>5, <1>t DEF Start
<1>6. ASSUME NEW c \in Calls, StartFails(c) PROVE Accounted'
  BY <1>6, <1>t DEF StartFails
<1>7. ASSUME NEW c \in Calls, SendFails(c) PROVE Accounted'
  BY <1>7, <1>t DEF SendFails
<1>8. ASSUME NEW c \in Calls, ReceiveUnpicklable(c) PROVE Accounted'
  BY <1>8, <1>t DEF ReceiveUnpicklable
<1>9. ASSUME NEW c \in Calls, ReceiveEnd(c) PROVE Accounted'
  BY <1>9, <1>t DEF ReceiveEnd
<1>10. ASSUME NEW c \in Calls, Store(c) PROVE Accounted'
  BY <1>10, <1>t DEF Store
<1>11. ASSUME NEW c \in Calls, Close(c) PROVE Accounted'
  BY <1>11, <1>t DEF Close
<1>12. ASSUME NEW c \in Calls, InterruptCall(c) PROVE Accounted'
  BY <1>12, <1>t DEF InterruptCall
<1>13. ASSUME NEW c \in Calls, InterruptElsewhere(c) PROVE Accounted'
  BY <1>13, <1>t DEF InterruptElsewhere
<1>14. ASSUME NEW c \in Calls, InterruptStart(c) PROVE Accounted'
  BY <1>14, <1>t DEF InterruptStart
<1>15. ASSUME NEW c \in Calls, Send(c) PROVE Accounted'
  <2>0. \A d \in Calls : d # c /\ pc[d] \in WithChild => child[d] # child[c]
    BY <1>15, <1>0 DEF Send, WithChild, Critical
  <2>1. child[c] \in Calls /\ Clean(child[c]) /\ ~Taken(c)
    BY <1>15, <1>t DEF Send, ChildInHand, CleanBeforeAndAfter, WithChild, Critical
  <2>2. requests'[child[c]] = <<c>> /\ replies'[child[c]] = <<>>
    BY <1>15, <2>1, <1>t DEF Send, Clean
  <2>3. \A d \in Calls : d # c /\ pc[d] = "receiving" =>
          child[d] \in Calls /\ requests'[child[d]] = requests[child[d]]
    BY <1>15, <2>0, <1>t DEF Send, ChildInHand, WithChild, Critical
  <2>4. NotTakenBefore' /\ ReplyInHand'
    BY <1>15 DEF Send
  <2>5. TakenByOwnChild'
    <3>1. /\ pc' = [pc EXCEPT ![c] = "receiving"]
          /\ UNCHANGED <<result, serving, replies, child>>
      BY <1>15 DEF Send
    <3> QED
      BY ONLY <2>1, <2>2, <2>3, <3>1, <1>t, TakenByOwnChild DEF TakenByOwnChild, Taken, TypeOK
  <2> QED
    BY <2>4, <2>5
<1>16. ASSUME NEW c \in Calls, Receive(c) PROVE Accounted'
  <2>0. \A d \in Calls : d # c /\ pc[d] \in WithChild => child[d] # child[c]
    BY <1>16, <1>0 DEF Receive, WithChild, Critical
  <2>1. child[c] \in Calls /\ replies[child[c]] = <<c>>
    BY <1>16, <1>t DEF Receive, ChildInHand, OnlyOwnTraffic, WithChild, Critical
  <2>2. result' = [result EXCEPT ![c] = c]
    BY <1>16, <2>1 DEF Receive
  <2>3. \A d \in Calls : d # c /\ pc[d] = "receiving" =>
          child[d] \in Calls /\ replies'[child[d]] = replies[child[d]]
    BY <1>16, <2>0, <1>t DEF Receive, ChildInHand, WithChild, Critical
  <2>4. /\ pc[c] = "receiving" /\ UNCHANGED <<serving, requests, child>>
        /\ \E s \in {"storing", "closing"} : pc' = [pc EXCEPT ![c] = s]
    BY <1>16 DEF Receive
  <2>5. /\ \A d \in Calls : d # c => pc'[d] = pc[d] /\ result'[d] = result[d]
        /\ pc'[c] \in {"storing", "closing"} /\ result'[c] = c
    BY ONLY <2>2, <2>4, <1>t DEF TypeOK
  <2>6. NotTakenBefore' /\ ReplyInHand'
    BY ONLY <2>4, <2>5, NotTakenBefore, ReplyInHand
       DEF NotTakenBefore, ReplyInHand, Taken
  <2>7. TakenByOwnChild'
    BY ONLY <2>3, <2>4, <2>5, TakenByOwnChild DEF TakenByOwnChild
  <2> QED
    BY <2>6, <2>7
<1>17. ASSUME NEW k \in Calls, Serve(k) PROVE Accounted'
  <2>0. PICK d \in Calls : pc[d] = "receiving" /\ child[d] = k
    BY <1>17, <1>t DEF Serve, WorkHasCaller
  <2>1. requests[k] = <<d>> /\ replies[k] = <<>>
    BY <1>17, <2>0, <1>t DEF Serve, OnlyOwnTraffic
  <2>2. \A e \in Calls : e # d /\ pc[e] \in WithChild => child[e] # k
    BY <2>0, <1>0 DEF WithChild, Critical
  <2>3. serving' = [serving EXCEPT ![k] = d] /\ requests' = [requests EXCEPT ![k] = <<>>]
    BY <1>17, <2>1 DEF Serve
  <2>4. NotTakenBefore' /\ ReplyInHand'
    BY <1>17, <2>0, <2>3 DEF Serve
  <2>5. TakenByOwnChild'
    BY <1>17, <2>0, <2>1, <2>2, <2>3, <1>t DEF Serve, ChildInHand, WithChild, Critical
  <2> QED
    BY <2>4, <2>5
<1>18. ASSUME NEW k \in Calls, Finish(k) PROVE Accounted'
  <2>0. serving[k] \in Calls /\ pc[serving[k]] = "receiving" /\ child[serving[k]] = k
    BY <1>18, <1>t DEF Finish, WorkHasCaller
  <2>1. requests[k] = <<>>
    BY <1>18, <2>0, <1>t DEF Finish, OnlyOwnTraffic
  <2>2. \A e \in Calls : e # serving[k] /\ pc[e] \in WithChild => child[e] # k
    BY <2>0, <1>0 DEF WithChild, Critical
  <2>4. NotTakenBefore' /\ ReplyInHand'
    BY <1>18 DEF Finish
  <2>5. TakenByOwnChild'
    BY <1>18, <2>0, <2>1, <2>2, <1>t DEF Finish, ChildInHand, WithChild, Critical
  <2> QED
    BY <2>4, <2>5
<1>19. ASSUME NEW k \in Calls, FinishFails(k) PROVE Accounted'
  BY <1>19 DEF FinishFails
<1>20. ASSUME NEW k \in Calls, Leave(k) PROVE Accounted'
  BY <1>20 DEF Leave
<1>21. ASSUME NEW k \in Calls, Crash(k) PROVE Accounted'
  BY <1>21 DEF Crash
<1>22. CASE HostGone
  BY <1>22 DEF HostGone
<1>23. CASE UNCHANGED vars
  BY <1>23 DEF vars
<1> QED
  BY <1>1, <1>2, <1>3, <1>4, <1>5, <1>6, <1>7, <1>8, <1>9, <1>10, <1>11, <1>12, <1>13,
     <1>14, <1>15, <1>16, <1>17, <1>18, <1>19, <1>20, <1>21, <1>22, <1>23
     DEF Next, CallerStep, ChildStep

\* Where the caller stands decides the phase, but for the calls in between, of
\* which the child decides.
LEMMA PhaseByPc ==
  ASSUME NEW c \in Calls
  PROVE  /\ pc[c] = "new" => Phase(c) = "new"
         /\ pc[c] = "done" /\ outcome[c] = "answered" => Phase(c) = "answered"
         /\ pc[c] = "done" /\ outcome[c] # "answered" => Phase(c) = "failed"
         /\ pc[c] \notin {"new", "done"} /\ Taken(c) => Phase(c) = "executing"
         /\ pc[c] \notin {"new", "done"} /\ ~Taken(c) => Phase(c) = "queued"
BY DEF Phase

\* A step that touches neither the pipes' ends nor other callers changes the
\* phase of one call.
LEMMA OneCallMoves ==
  ASSUME NEW c \in Calls, UNCHANGED <<result, serving>>,
         \A d \in Calls \ {c} : pc'[d] = pc[d] /\ outcome'[d] = outcome[d]
  PROVE  [d \in Calls |-> Phase(d)]' = [[d \in Calls |-> Phase(d)] EXCEPT ![c] = Phase(c)']
<1>1. \A d \in Calls : Taken(d)' <=> Taken(d)
  BY DEF Taken
<1>2. \A d \in Calls \ {c} : Phase(d)' = Phase(d)
  BY <1>1 DEF Phase
<1> QED
  BY <1>2

\* A step that leaves the callers, the replies received and the requests taken
\* as they are is invisible.
LEMMA NoCallMoves ==
  ASSUME UNCHANGED <<pc, outcome, result, serving>>
  PROVE  UNCHANGED [d \in Calls |-> Phase(d)]
BY DEF Phase, Taken

\* The frame of a call that was not answered ends.
LEMMA EndIsFail ==
  ASSUME TypeOK, NEW c \in Calls, pc[c] # "done", NEW how, how # "answered", End(c, how),
         UNCHANGED <<result, serving>>
  PROVE  Promise!Next
<1>1. [d \in Calls |-> Phase(d)]' = [[d \in Calls |-> Phase(d)] EXCEPT ![c] = Phase(c)']
  <2>1. \A d \in Calls \ {c} : pc'[d] = pc[d] /\ outcome'[d] = outcome[d]
    BY DEF TypeOK, End, Goto
  <2> QED
    BY <2>1, OneCallMoves
<1>2. Phase(c)' = "failed"
  BY DEF TypeOK, End, Goto, Phase
<1>3. Phase(c) \in {"new", "queued", "executing"}
  BY DEF Phase
<1> QED
  BY <1>1, <1>2, <1>3 DEF Promise!Next, Promise!Fail, Promise!Move

\* The frame of a call that has its reply ends.
LEMMA EndIsAnswer ==
  ASSUME TypeOK, NEW c \in Calls, pc[c] \in {"storing", "closing"}, result[c] # None,
         End(c, "answered"), UNCHANGED <<result, serving>>
  PROVE  Promise!Next
<1>1. [d \in Calls |-> Phase(d)]' = [[d \in Calls |-> Phase(d)] EXCEPT ![c] = Phase(c)']
  <2>1. \A d \in Calls \ {c} : pc'[d] = pc[d] /\ outcome'[d] = outcome[d]
    BY DEF TypeOK, End, Goto
  <2> QED
    BY <2>1, OneCallMoves
<1>2. Phase(c)' = "answered"
  BY DEF TypeOK, End, Goto, Phase
<1>3. Phase(c) = "executing"
  BY DEF Phase, Taken
<1> QED
  BY <1>1, <1>2, <1>3 DEF Promise!Next, Promise!Answer, Promise!Move

\* A caller goes on towards its request, or waits for the reply to it.
LEMMA WithinIsStutter ==
  ASSUME TypeOK, NEW c \in Calls, pc[c] \notin {"new", "done"},
         NEW s \in {"waiting", "holding", "sending", "receiving"}, Goto(c, s),
         UNCHANGED <<outcome, result, serving>>
  PROVE  UNCHANGED [d \in Calls |-> Phase(d)]
<1>1. [d \in Calls |-> Phase(d)]' = [[d \in Calls |-> Phase(d)] EXCEPT ![c] = Phase(c)']
  <2>1. \A d \in Calls \ {c} : pc'[d] = pc[d] /\ outcome'[d] = outcome[d]
    BY DEF TypeOK, Goto
  <2> QED
    BY <2>1, OneCallMoves
<1>2. Phase(c)' = Phase(c)
  <2>1. pc'[c] \notin {"new", "done"}
    BY DEF TypeOK, Goto
  <2> QED
    BY <2>1 DEF Phase, Taken
<1> QED
  BY <1>1, <1>2

\* Every step of the pipes, processes and callers is one of the promise.
LEMMA StepImplements ==
  IInv /\ Accounted /\ [Next]_vars => [Promise!Next]_([c \in Calls |-> Phase(c)])
<1> SUFFICES ASSUME IInv, Accounted, [Next]_vars
             PROVE  [Promise!Next]_([c \in Calls |-> Phase(c)])
  OBVIOUS
<1> USE NoneIsNoCall, OneMessage
<1>0. \A c, d \in Calls :
        pc[c] \in WithChild /\ pc[d] \in WithChild /\ child[c] = child[d] => c = d
  BY Disjoint
<1>t. TypeOK
  BY DEF IInv
<1>1. ASSUME NEW c \in Calls, Call(c) PROVE Promise!Next
  <2>1. /\ pc[c] = "new" /\ pc' = [pc EXCEPT ![c] = "waiting"]
        /\ UNCHANGED <<outcome, result, serving>>
    BY <1>1 DEF Call, At, Goto, childVars
  <2>2. pc'[c] = "waiting" /\ \A d \in Calls \ {c} : pc'[d] = pc[d]
    BY <2>1, <1>t DEF TypeOK
  <2>3. [d \in Calls |-> Phase(d)]' = [[d \in Calls |-> Phase(d)] EXCEPT ![c] = Phase(c)']
    BY <2>1, <2>2, OneCallMoves
  <2>4. ~Taken(c)
    BY <2>1 DEF Accounted, NotTakenBefore
  <2>5. Phase(c) = "new" /\ Phase(c)' = "queued"
    BY <2>1, <2>2, <2>4 DEF Phase, Taken
  <2> QED
    BY <2>3, <2>5 DEF Promise!Next, Promise!Open, Promise!Move
<1>2. ASSUME NEW c \in Calls, RefuseArguments(c) PROVE Promise!Next
  BY <1>2, <1>t, EndIsFail DEF RefuseArguments, At, childVars
<1>3. ASSUME NEW c \in Calls, Acquire(c) PROVE UNCHANGED [d \in Calls |-> Phase(d)]
  BY <1>3, <1>t, WithinIsStutter DEF Acquire, At, childVars
<1>4. ASSUME NEW c \in Calls, Reuse(c) PROVE UNCHANGED [d \in Calls |-> Phase(d)]
  BY <1>4, <1>t, WithinIsStutter DEF Reuse, At, childVars
<1>5. ASSUME NEW c \in Calls, Start(c) PROVE UNCHANGED [d \in Calls |-> Phase(d)]
  BY <1>5, <1>t, WithinIsStutter DEF Start, At
<1>6. ASSUME NEW c \in Calls, StartFails(c) PROVE Promise!Next
  BY <1>6, <1>t, EndIsFail DEF StartFails, At
<1>7. ASSUME NEW c \in Calls, Send(c) PROVE UNCHANGED [d \in Calls |-> Phase(d)]
  BY <1>7, <1>t, WithinIsStutter DEF Send, At
<1>8. ASSUME NEW c \in Calls, SendFails(c) PROVE Promise!Next
  BY <1>8, <1>t, EndIsFail DEF SendFails, Discard, At
<1>9. ASSUME NEW c \in Calls, Receive(c) PROVE UNCHANGED [d \in Calls |-> Phase(d)]
  <2>1. pc[c] = "receiving" /\ child[c] \in Calls /\ replies[child[c]] = <<c>>
    BY <1>9 DEF IInv, Receive, At, ChildInHand, OnlyOwnTraffic, WithChild, Critical
  <2>2. serving[child[c]] = c
    BY <2>1 DEF Accounted, TakenByOwnChild
  <2>3. /\ \E s \in {"storing", "closing"} : pc' = [pc EXCEPT ![c] = s]
        /\ result' = [result EXCEPT ![c] = c]
        /\ UNCHANGED <<outcome, serving>>
    BY <1>9, <2>1 DEF Receive, Goto
  <2>4. /\ \A d \in Calls \ {c} : pc'[d] = pc[d] /\ result'[d] = result[d]
        /\ pc'[c] \in {"storing", "closing"}
    BY <2>3, <1>t DEF TypeOK
  <2>5. \A d \in Calls \ {c} : Phase(d)' = Phase(d)
    BY <2>3, <2>4 DEF Phase, Taken
  <2>6. Taken(c) /\ Taken(c)'
    BY <2>1, <2>2, <2>3 DEF Taken
  <2>7. Phase(c)' = Phase(c)
    BY <2>1, <2>4, <2>6 DEF Phase
  <2> QED
    BY <2>5, <2>7
<1>10. ASSUME NEW c \in Calls, ReceiveUnpicklable(c) PROVE Promise!Next
  BY <1>10, <1>t, EndIsFail DEF ReceiveUnpicklable, Discard, At
<1>11. ASSUME NEW c \in Calls, ReceiveEnd(c) PROVE Promise!Next
  BY <1>11, <1>t, EndIsFail DEF ReceiveEnd, Discard, At
<1>12. ASSUME NEW c \in Calls, Store(c) PROVE Promise!Next
  BY <1>12, <1>t, EndIsAnswer DEF Store, At, childVars, Accounted, ReplyInHand
<1>13. ASSUME NEW c \in Calls, Close(c) PROVE Promise!Next
  BY <1>13, <1>t, EndIsAnswer DEF Close, At, childVars, Accounted, ReplyInHand
<1>14. ASSUME NEW c \in Calls, InterruptCall(c) PROVE Promise!Next
  BY <1>14, <1>t, EndIsFail DEF InterruptCall, Discard, At
<1>15. ASSUME NEW c \in Calls, InterruptElsewhere(c) PROVE Promise!Next
  BY <1>15, <1>t, EndIsFail DEF InterruptElsewhere, At, childVars
<1>16. ASSUME NEW c \in Calls, InterruptStart(c) PROVE Promise!Next
  BY <1>16, <1>t, EndIsFail DEF InterruptStart, At
<1>17. ASSUME NEW k \in Calls, Serve(k) PROVE Promise!Next
  <2>0. PICK d \in Calls : pc[d] = "receiving" /\ child[d] = k
    BY <1>17 DEF Serve, IInv, WorkHasCaller
  <2>1. requests[k] = <<d>>
    BY <1>17, <2>0 DEF Serve, IInv, OnlyOwnTraffic
  <2>2. /\ serving' = [serving EXCEPT ![k] = d]
        /\ UNCHANGED <<pc, outcome, result>>
    BY <1>17, <2>1 DEF Serve, callerVars
  <2>3. ~Taken(d)
    <3>1. result[d] = None /\ (\A j \in Calls : serving[j] = d => j = k) /\ serving[k] # d
      BY <2>0, <2>1 DEF Accounted, TakenByOwnChild
    <3> QED
      BY <3>1 DEF Taken
  <2>4. Taken(d)' /\ serving'[k] = d /\ \A j \in Calls \ {k} : serving'[j] = serving[j]
    BY <2>2, <1>t DEF Taken, TypeOK
  <2>5. ASSUME NEW e \in Calls, e # d PROVE Phase(e)' = Phase(e)
    <3>1. CASE serving[k] # e
      <4>1. Taken(e)' <=> Taken(e)
        BY <2>2, <2>4, <2>5, <3>1 DEF Taken
      <4> QED
        BY <2>2, <4>1 DEF Phase
    <3>2. CASE serving[k] = e
      \* The child's last request: its caller has the reply, or is gone.
      <4>1. pc[e] \in {"storing", "closing", "done"}
        <5>1. pc[e] # "receiving"
          BY <2>0, <3>2, <2>5, <1>0 DEF Accounted, TakenByOwnChild, WithChild, Critical
        <5>2. pc[e] \notin {"new", "waiting", "holding", "sending"}
          BY <3>2 DEF Accounted, NotTakenBefore, Taken
        <5> QED
          BY <5>1, <5>2, <1>t DEF TypeOK
      <4>2. pc[e] # "done" => Taken(e) /\ Taken(e)'
        BY <4>1, <2>2 DEF Taken, Accounted, ReplyInHand
      <4> QED
        BY <4>1, <4>2, <2>2 DEF Phase
    <3> QED
      BY <3>1, <3>2
  <2>6. Phase(d) = "queued" /\ Phase(d)' = "executing"
    BY <2>0, <2>2, <2>3, <2>4 DEF Phase
  <2>7. ASSUME NEW e \in Calls, MutexOf(e) = MutexOf(d) PROVE Phase(e) # "executing"
    <3>1. CASE e = d
      BY <2>6, <3>1
    <3>2. CASE e # d
      <4>1. pc[d] \in Critical
        BY <2>0 DEF Critical
      <4>2. pc[e] \notin Critical
        BY <2>7, <3>2, <4>1 DEF IInv, Exclusion
      <4>3. pc[e] \in {"new", "waiting", "done"}
        BY <4>2, <1>t DEF TypeOK, Critical
      <4>4. pc[e] = "waiting" => ~Taken(e)
        BY DEF Accounted, NotTakenBefore
      <4> QED
        BY <4>3, <4>4 DEF Phase
    <3> QED
      BY <3>1, <3>2
  <2>8. \A e \in Calls : Promise!SameQueue(d, e) => MutexOf(e) = MutexOf(d)
    BY DEF Promise!SameQueue, MutexOf
  <2>9. Promise!Execute(d)
    BY <2>5, <2>6, <2>7, <2>8 DEF Promise!Execute, Promise!Move
  <2> QED
    BY <2>9 DEF Promise!Next
<1>18. ASSUME NEW k \in Calls, Finish(k) \/ FinishFails(k) \/ Leave(k) \/ Crash(k)
       PROVE  UNCHANGED [d \in Calls |-> Phase(d)]
  BY <1>18, NoCallMoves DEF Finish, FinishFails, Leave, Crash, callerVars
<1>19. CASE HostGone
  BY <1>19, NoCallMoves DEF HostGone, callerVars, childVars
<1>20. CASE UNCHANGED vars
  BY <1>20, NoCallMoves DEF vars, callerVars, childVars
<1> QED
  BY <1>1, <1>2, <1>3, <1>4, <1>5, <1>6, <1>7, <1>8, <1>9, <1>10, <1>11, <1>12, <1>13,
     <1>14, <1>15, <1>16, <1>17, <1>18, <1>19, <1>20
     DEF Next, CallerStep, ChildStep

\* What the pipes, children, locks and interrupts do to a call is what
\* CallServer promises: it is executed at most once, alone in its queue, and
\* ends with the answer to that execution or with a failure.
THEOREM CallsAreServed == Spec => ImplementsCallServer
<1>1. Init => Accounted
  BY NoneIsNoCall DEF Init, Accounted, NotTakenBefore, TakenByOwnChild, ReplyInHand, Taken
<1>2. Init => Promise!Init
  BY DEF Init, Promise!Init, Phase
<1>3. Spec => []Accounted
  BY <1>1, Invariance, AccountedInductive, PTL DEF Spec
<1> QED
  BY <1>2, <1>3, Invariance, StepImplements, PTL DEF Spec, ImplementsCallServer, Promise!Spec
=============================================================================
