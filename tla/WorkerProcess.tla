--------------------------- MODULE WorkerProcess ---------------------------
(***************************************************************************)
(* src/src/goldilocks_core/worker_process.py: calls run in child processes *)
(* and answered over pipes.  Calls of the long-lived WorkerProcess share   *)
(* one child under its lock; each magnetic-ordering ranking                *)
(* (advisors/magnetic_ordering_ml.py) holds the ranking slot and has a     *)
(* child of its own (run_in_fresh_process).                                *)
(*                                                                         *)
(* A call is one invocation, made by some thread of the host process.  A   *)
(* child process is named by the call that started it, so no bound on the  *)
(* number of children is needed.  Children may die and callers may be      *)
(* interrupted (KeyboardInterrupt, a raising signal handler) at any step;  *)
(* the host itself may be killed.                                          *)
(***************************************************************************)
EXTENDS Naturals, Sequences

CONSTANTS Calls,      \* the invocations made in a behavior
          Rankings,   \* those made by rank_orderings, in a fresh process
          None        \* no call, no child

ASSUME RankingsAreCalls == Rankings \subseteq Calls
ASSUME NoneIsNoCall == None \notin Calls

VARIABLES
  host,       \* "up" until the host process is gone
  pc,         \* pc[c]: where the caller of c stands
  mutex,      \* who holds WorkerProcess._lock ("lock") and _RANKING_SLOT ("slot")
  retained,   \* WorkerProcess._child
  child,      \* child[c]: the caller's local variable `child`
  result,     \* result[c]: the call whose reply c received
  outcome,    \* outcome[c]: how c ended
  process,    \* process[k]: the child interpreter started by call k
  serving,    \* serving[k]: the request the child is executing
  requests,   \* requests[k]: the pipe to the child
  replies,    \* replies[k]: the pipe from the child, a reply named by its call
  torn        \* torn[k]: after them the pipe ends inside a reply

callerVars == <<pc, mutex, retained, child, result, outcome>>
childVars == <<process, serving, requests, replies, torn>>
vars == <<host, callerVars, childVars>>

Mutexes == {"lock", "slot"}
CallOrNone == Calls \cup {None}

TypeOK ==
  /\ host \in {"up", "gone"}
  /\ pc \in [Calls -> {"new", "waiting", "holding", "sending", "receiving",
                       "storing", "closing", "done"}]
  /\ mutex \in [Mutexes -> CallOrNone]
  /\ retained \in CallOrNone
  /\ child \in [Calls -> CallOrNone]
  /\ result \in [Calls -> CallOrNone]
  /\ outcome \in [Calls -> {"none", "answered", "PicklingError", "WorkerDied",
                            "OSError", "UnpicklingError", "Interrupted"}]
  /\ process \in [Calls -> {"unborn", "idle", "busy", "dead"}]
  /\ serving \in [Calls -> CallOrNone]
  /\ \A k \in Calls : process[k] = "busy" => serving[k] \in Calls
  /\ requests \in [Calls -> Seq(Calls)]
  /\ replies \in [Calls -> Seq(Calls)]
  /\ torn \in [Calls -> BOOLEAN]

Init ==
  /\ host = "up"
  /\ pc = [c \in Calls |-> "new"]
  /\ mutex = [m \in Mutexes |-> None]
  /\ retained = None
  /\ child = [c \in Calls |-> None]
  /\ result = [c \in Calls |-> None]
  /\ outcome = [c \in Calls |-> "none"]
  /\ process = [k \in Calls |-> "unborn"]
  /\ serving = [k \in Calls |-> None]
  /\ requests = [k \in Calls |-> <<>>]
  /\ replies = [k \in Calls |-> <<>>]
  /\ torn = [k \in Calls |-> FALSE]

-----------------------------------------------------------------------------
(* Helpers.                                                                *)

\* Mutated: rankings queue behind the worker's calls.
OneQueue(c) == "lock"

MutexOf(c) == IF c \in Rankings THEN "slot" ELSE "lock"

Alive(k) == process[k] \in {"idle", "busy"}

\* The writing end of the request pipe is open: the host lives and either the
\* worker or a frame that has not closed it still refers to the child.
Open(k) ==
  /\ host = "up"
  /\ \/ retained = k
     \/ \E c \in Calls : child[c] = k /\ pc[c] # "closing"

\* The caller is at step s and the host still runs.
At(c, s) == host = "up" /\ pc[c] = s

Goto(c, s) == pc' = [pc EXCEPT ![c] = s]

\* Mutated: the mutex is released only when the call succeeds.
EndHoldingMutex(c, how) ==
  /\ Goto(c, "done")
  /\ outcome' = [outcome EXCEPT ![c] = how]
  /\ mutex' = [m \in Mutexes |-> IF mutex[m] = c /\ how = "answered" THEN None ELSE mutex[m]]
  /\ child' = [child EXCEPT ![c] = None]

\* The frame of c ends: its mutex is released and its child dropped.
End(c, how) ==
  /\ Goto(c, "done")
  /\ outcome' = [outcome EXCEPT ![c] = how]
  /\ mutex' = [m \in Mutexes |-> IF mutex[m] = c THEN None ELSE mutex[m]]
  /\ child' = [child EXCEPT ![c] = None]

\* Mutated: the exception is raised without child.kill().
DropWithoutKill(c, how) ==
  /\ End(c, how)
  /\ UNCHANGED <<host, retained, result, childVars>>

\* except BaseException: child.kill(); raise
Discard(c, how) ==
  /\ End(c, how)
  /\ process' = [process EXCEPT ![child[c]] = "dead"]
  /\ UNCHANGED <<host, retained, result, serving, requests, replies, torn>>

-----------------------------------------------------------------------------
(* The caller: WorkerProcess.run and run_in_fresh_process.                 *)

\* A caller arrives.  `run` pickles before it asks for the lock.
Call(c) ==
  /\ At(c, "new")
  /\ Goto(c, "waiting")
  /\ UNCHANGED <<host, mutex, retained, child, result, outcome, childVars>>

\* pickle.dumps raises: before the lock in `run`, inside the slot in a ranking.
RefuseArguments(c) ==
  /\ IF c \in Rankings THEN At(c, "holding") ELSE At(c, "new")
  /\ End(c, "PicklingError")
  /\ UNCHANGED <<host, retained, result, childVars>>

\* Mutated: the caller does not wait for its mutex.
AcquireAtOnce(c) ==
  /\ At(c, "waiting")
  /\ mutex' = [mutex EXCEPT ![MutexOf(c)] = c]
  /\ Goto(c, "holding")
  /\ UNCHANGED <<host, retained, child, result, outcome, childVars>>

Acquire(c) ==
  /\ At(c, "waiting")
  /\ mutex[MutexOf(c)] = None
  /\ mutex' = [mutex EXCEPT ![MutexOf(c)] = c]
  /\ Goto(c, "holding")
  /\ UNCHANGED <<host, retained, child, result, outcome, childVars>>

\* Mutated: self._child = None is left out.
ReuseAndKeep(c) ==
  /\ At(c, "holding")
  /\ c \notin Rankings
  /\ retained # None
  /\ child' = [child EXCEPT ![c] = retained]
  /\ Goto(c, "sending")
  /\ UNCHANGED <<host, mutex, retained, result, outcome, childVars>>

\* child = self._child; self._child = None
Reuse(c) ==
  /\ At(c, "holding")
  /\ c \notin Rankings
  /\ retained # None
  /\ child' = [child EXCEPT ![c] = retained]
  /\ retained' = None
  /\ Goto(c, "sending")
  /\ UNCHANGED <<host, mutex, result, outcome, childVars>>

\* child = _Child(); the new interpreter is given sys.path and waits.
Start(c) ==
  /\ At(c, "holding")
  /\ c \in Rankings \/ retained = None
  /\ child' = [child EXCEPT ![c] = c]
  /\ process' = [process EXCEPT ![c] = "idle"]
  /\ Goto(c, "sending")
  /\ UNCHANGED <<host, mutex, retained, result, outcome, serving, requests, replies,
                 torn>>

\* The interpreter exits before it reads sys.path: _Child() itself raises.
StartFails(c) ==
  /\ At(c, "holding")
  /\ c \in Rankings \/ retained = None
  /\ process' = [process EXCEPT ![c] = "dead"]
  /\ End(c, "WorkerDied")
  /\ UNCHANGED <<host, retained, result, serving, requests, replies, torn>>

Send(c) ==
  /\ At(c, "sending")
  /\ Alive(child[c])
  /\ requests' = [requests EXCEPT ![child[c]] = Append(@, c)]
  /\ Goto(c, "receiving")
  /\ UNCHANGED <<host, mutex, retained, child, result, outcome, process, serving,
                 replies, torn>>

\* BrokenPipeError
SendFails(c) ==
  /\ At(c, "sending")
  /\ ~Alive(child[c])
  /\ Discard(c, "WorkerDied")

Receive(c) ==
  /\ At(c, "receiving")
  /\ LET k == child[c] IN
     /\ replies[k] # <<>>
     /\ result' = [result EXCEPT ![c] = Head(replies[k])]
     /\ replies' = [replies EXCEPT ![k] = Tail(@)]
  /\ Goto(c, IF c \in Rankings THEN "closing" ELSE "storing")
  /\ UNCHANGED <<host, mutex, retained, child, outcome, process, serving, requests,
                 torn>>

\* The reply cannot be rebuilt in the caller.
ReceiveUnpicklable(c) ==
  /\ At(c, "receiving")
  /\ replies[child[c]] # <<>>
  /\ Discard(c, "UnpicklingError")

\* The pipe ends before a reply (EOFError), or inside one (OSError).
ReceiveEnd(c) ==
  /\ At(c, "receiving")
  /\ ~Alive(child[c])
  /\ replies[child[c]] = <<>>
  /\ Discard(c, IF torn[child[c]] THEN "OSError" ELSE "WorkerDied")

\* self._child = child; the lock is released and the reply handed over.
Store(c) ==
  /\ At(c, "storing")
  /\ retained' = child[c]
  /\ End(c, "answered")
  /\ UNCHANGED <<host, result, childVars>>

\* child.close(): the request pipe is already shut, wait for the exit.
Close(c) ==
  /\ At(c, "closing")
  /\ ~Alive(child[c])
  /\ End(c, "answered")
  /\ UNCHANGED <<host, retained, result, childVars>>

\* Mutated: try/finally, which keeps the child whatever happens.
InterruptKeepsChild(c) ==
  /\ At(c, "sending") \/ At(c, "receiving")
  /\ retained' = IF c \in Rankings THEN retained ELSE child[c]
  /\ End(c, "Interrupted")
  /\ UNCHANGED <<host, result, childVars>>

\* An exception that arrives inside the try: the child is killed.
InterruptCall(c) ==
  /\ At(c, "sending") \/ At(c, "receiving")
  /\ Discard(c, "Interrupted")

\* One that arrives outside it: the frame just drops what it refers to.
InterruptElsewhere(c) ==
  /\ \E s \in {"waiting", "holding", "storing", "closing"} : At(c, s)
  /\ End(c, "Interrupted")
  /\ UNCHANGED <<host, retained, result, childVars>>

\* Inside _Child(): the interpreter runs, but no frame refers to it any more.
InterruptStart(c) ==
  /\ At(c, "holding")
  /\ c \in Rankings \/ retained = None
  /\ process' = [process EXCEPT ![c] = "idle"]
  /\ End(c, "Interrupted")
  /\ UNCHANGED <<host, retained, result, serving, requests, replies, torn>>

-----------------------------------------------------------------------------
(* The child: _serve.                                                      *)

\* Mutated: the child does not note which request it took.
ServeUnnoted(k) ==
  /\ process[k] = "idle"
  /\ requests[k] # <<>>
  /\ requests' = [requests EXCEPT ![k] = Tail(@)]
  /\ process' = [process EXCEPT ![k] = "busy"]
  /\ UNCHANGED <<host, callerVars, serving, replies, torn>>

Serve(k) ==
  /\ process[k] = "idle"
  /\ requests[k] # <<>>
  /\ serving' = [serving EXCEPT ![k] = Head(requests[k])]
  /\ requests' = [requests EXCEPT ![k] = Tail(@)]
  /\ process' = [process EXCEPT ![k] = "busy"]
  /\ UNCHANGED <<host, callerVars, replies, torn>>

\* fn returned or raised; both are replies.
Finish(k) ==
  /\ process[k] = "busy"
  /\ host = "up"
  /\ replies' = [replies EXCEPT ![k] = Append(@, serving[k])]
  /\ process' = [process EXCEPT ![k] = "idle"]
  /\ UNCHANGED <<host, callerVars, serving, requests, torn>>

\* replies.send raises (nothing reads the pipe, or the reply cannot be
\* pickled), so _serve and the interpreter end.
FinishFails(k) ==
  /\ process[k] = "busy"
  /\ process' = [process EXCEPT ![k] = "dead"]
  /\ UNCHANGED <<host, callerVars, serving, requests, replies, torn>>

\* Mutated: the child inherits the writing end of its own request pipe, which
\* then closes only with the host.
LeaveWithHost(k) ==
  /\ process[k] = "idle"
  /\ requests[k] = <<>>
  /\ host = "gone"
  /\ process' = [process EXCEPT ![k] = "dead"]
  /\ UNCHANGED <<host, callerVars, serving, requests, replies, torn>>

\* requests.recv_bytes raises EOFError: the caller's end is closed.
Leave(k) ==
  /\ process[k] = "idle"
  /\ requests[k] = <<>>
  /\ ~Open(k)
  /\ process' = [process EXCEPT ![k] = "dead"]
  /\ UNCHANGED <<host, callerVars, serving, requests, replies, torn>>

\* The child is killed from outside (out of memory, a crash in a library); if
\* it was writing a reply, only a part of it is in the pipe.
Crash(k) ==
  /\ Alive(k)
  /\ process' = [process EXCEPT ![k] = "dead"]
  /\ torn' \in {torn, [torn EXCEPT ![k] = process[k] = "busy"]}
  /\ UNCHANGED <<host, callerVars, serving, requests, replies>>

HostGone ==
  /\ host = "up"
  /\ host' = "gone"
  /\ UNCHANGED <<callerVars, childVars>>

-----------------------------------------------------------------------------
CallerStep(c) ==
  \/ Call(c) \/ RefuseArguments(c) \/ Acquire(c) \/ Reuse(c)
  \/ Start(c) \/ StartFails(c) \/ Send(c) \/ SendFails(c)
  \/ Receive(c) \/ ReceiveUnpicklable(c) \/ ReceiveEnd(c)
  \/ Store(c) \/ Close(c) \/ InterruptCall(c) \/ InterruptElsewhere(c)
  \/ InterruptStart(c)

ChildStep(k) ==
  Serve(k) \/ Finish(k) \/ FinishFails(k) \/ Leave(k) \/ Crash(k)

Next == HostGone \/ \E c \in Calls : CallerStep(c) \/ ChildStep(c)

Spec == Init /\ [][Next]_vars

\* A thread that is scheduled goes on; a child that is scheduled reads its next
\* request, and exits once the pipe is closed.  Nothing makes a caller call,
\* interrupts it, or kills a process.
Progress ==
  /\ \A c \in Calls :
       WF_vars(Acquire(c) \/ Reuse(c) \/ Start(c) \/ Send(c) \/ SendFails(c)
               \/ Receive(c) \/ ReceiveEnd(c) \/ Store(c) \/ Close(c))
  /\ \A k \in Calls : WF_vars(Serve(k) \/ Leave(k))

\* Calls whose function returns sooner or later.
Terminating(S) ==
  \A k \in Calls : WF_vars(serving[k] \in S /\ (Finish(k) \/ FinishFails(k)))

\* There is no timeout: a function of the worker may run forever.  Only rankings
\* are taken to terminate.
FairSpec == Spec /\ Progress /\ Terminating(Rankings)

-----------------------------------------------------------------------------
(* Properties.                                                             *)

\* A caller is only ever handed the reply to its own call, although the child
\* is reused: a child whose caller left with a reply outstanding is never kept
\* (WorkerProcess.run, lines 70-76).
OwnAnswer == \A c \in Calls : result[c] \in {None, c}

\* Between calls the kept child owes nothing: its pipes are empty and it is
\* not executing anything, so the next call starts from a clean child.
CleanWhenKept ==
  retained # None =>
    /\ requests[retained] = <<>>
    /\ replies[retained] = <<>>
    /\ process[retained] # "busy"

\* No two children of the worker execute calls at once, whatever was
\* interrupted or discarded; the same for rankings.  This is what the worker
\* is for: pymatgen's enumeration and mace change process-wide state.
OneAtATime ==
  \A j, k \in Calls :
    /\ process[j] = "busy" /\ process[k] = "busy"
    /\ MutexOf(serving[j]) = MutexOf(serving[k])
    /\ host = "up"
    => j = k

\* A call that ended was not left behind in a pipe or half executed by a live
\* child of a live host.
NoWorkLeftBehind ==
  \A c, k \in Calls :
    host = "up" /\ pc[c] = "done" /\ Alive(k) =>
      /\ ~(process[k] = "busy" /\ serving[k] = c)
      /\ c \notin {requests[k][i] : i \in DOMAIN requests[k]}

\* Every call that was made ends, if the functions called terminate.
EveryCallEnds ==
  Terminating(Calls) =>
    \A c \in Calls : pc[c] = "waiting" ~> (pc[c] = "done" \/ host = "gone")

\* A ranking ends even if a call of the worker hangs: it waits for neither the
\* worker's lock nor its child (ml/mace_process.py:13-15).
RankingsNotHeldUp ==
  \A c \in Rankings : pc[c] = "waiting" ~> (pc[c] = "done" \/ host = "gone")

\* A child that nothing refers to any more, or whose host is gone, exits, if the
\* function it may still be executing terminates.
NoOrphans ==
  Terminating(Calls) => \A k \in Calls : (Alive(k) /\ ~Open(k)) ~> ~Alive(k)

-----------------------------------------------------------------------------
(* Refinement of CallServer.                                               *)

\* The call has been taken out of the request pipe by a child.
Taken(c) ==
  \/ \E k \in Calls : serving[k] = c
  \/ result[c] # None

Phase(c) ==
  CASE pc[c] = "new" -> "new"
    [] pc[c] = "done" /\ outcome[c] = "answered" -> "answered"
    [] pc[c] = "done" /\ outcome[c] # "answered" -> "failed"
    [] OTHER -> IF Taken(c) THEN "executing" ELSE "queued"

Promise == INSTANCE CallServer WITH phase <- [c \in Calls |-> Phase(c)]

\* The pipes, processes and interrupts implement CallServer.
ImplementsCallServer == Promise!Spec
=============================================================================
