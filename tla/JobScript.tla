----------------------------- MODULE JobScript -----------------------------
(***************************************************************************)
(* The jobs of one bundle's submit.sh, src/src/goldilocks_core/submission/ *)
(* slurm.py: render_slurm_script lays out a task's steps, each followed by *)
(* the completion check its writer declared (steps.py), with a timer and a *)
(* resume switch for the phonon tasks.  The user submits the script in the *)
(* bundle's directory, again and again, from any step; slurm may kill the  *)
(* job at any moment.  What stays between jobs is the files.               *)
(*                                                                         *)
(* A file is none, part, whole, or old: whole, but made from a save (the   *)
(* first pw.x step's product) that has been rewritten since.  What the     *)
(* Quantum ESPRESSO programs do to the files is modelled as the docstrings *)
(* of slurm.py, steps.py and generation/quantum_espresso/ rely on.         *)
(***************************************************************************)
EXTENDS Naturals, Sequences

CONSTANTS
  Tasks,  \* the tasks a script may be rendered for, names of Plan
  NQ      \* irreducible q-points of the phonon mesh

\* The steps of each task, in order.  "scf" stands for the first pw.x step,
\* a relax or vc-relax too.
Plan ==
  [relax    |-> <<"scf">>,
   dos      |-> <<"scf", "nscf", "dos">>,
   band     |-> <<"scf", "bands", "bands_x_up", "bands_x_down">>,
   phonon   |-> <<"scf", "ph", "q2r", "phonon_dos", "dispersion">>,
   d3phonon |-> <<"scf", "d3hess", "ph", "q2r", "phonon_dos", "dispersion">>]

ASSUME TasksAssumption == Tasks \subseteq DOMAIN Plan
ASSUME NQAssumption == NQ \in Nat \ {0}

Q == 1 .. NQ
PwSteps == {"scf", "nscf", "bands"}
PhononSteps == {"d3hess", "ph", "q2r", "phonon_dos", "dispersion"}
OneTaskSteps == {"dos", "bands_x_up", "bands_x_down"} \cup (PhononSteps \ {"ph"})
StepNames == PwSteps \cup OneTaskSteps \cup {"ph"}
Kept == PwSteps \cup {"d3hess", "q2r"}
FileStates == {"none", "part", "whole", "old"}
Statuses == {"none", "0", "other"}
OnTime == {"launch", "run", "check"}

VARIABLES
  task, profile,  \* what the script is rendered for
  pc,       \* where the job stands; "idle" between jobs
  from,     \* GOLDILOCKS_FROM_STEP
  at,       \* index of the step at hand
  ran,      \* the last program's exit code, and whether it said JOB DONE
  timer,    \* the job timer
  stopFile, \* <prefix>.EXIT is in the working directory
  schema,   \* data-file-schema.xml: its exit_status, and whether it has changed
            \* since goldilocks_fingerprint read it
  product,  \* product[s]: what step s leaves for later ones; ph's is its matrices
  recover,  \* ph.x's recover data
  done,     \* the q-points it records as done
  list,     \* <fildyn>0, the list of q-points
  dyn,      \* dyn[q]: the dynamical matrix of q-point q
  reached,  \* history: how many leading steps passed, none before them rerun since
  skipped   \* history: a job since the last fresh run started beyond the step after those

script == <<task, profile>>
job == <<from, at, ran>>
matrices == <<recover, done, list, dyn>>
files == <<schema, product, recover, done, list, dyn>>
log == <<reached, skipped>>
vars == <<task, profile, pc, from, at, ran, timer, stopFile, schema, product,
          recover, done, list, dyn, reached, skipped>>

Steps == Plan[task]
Index == 1 .. Len(Steps)
Step == Steps[at]
Names == {Steps[k] : k \in Index}
IndexOf(s) == CHOOSE k \in Index : Steps[k] = s
First == Steps[1]
Resumable == "ph" \in Names  \* only ph.x declares restart_data and a stop file
Quiet == [code |-> 0, said |-> FALSE]
Complete(f) == f \in {"whole", "old"}

TypeOK ==
  /\ task \in Tasks /\ profile \in [slurm : BOOLEAN, srun : BOOLEAN]
  /\ pc \in {"render", "refused", "idle", "switch", "clean", "timer"} \cup OnTime
  /\ from \in Names \cup {"unset", "unknown"}
  /\ at \in Index
  /\ ran \in [code : {0, 1}, said : BOOLEAN]
  /\ timer \in {"off", "armed", "fired", "dying"} /\ stopFile \in BOOLEAN
  /\ schema \in [changed : BOOLEAN, status : Statuses]
  /\ product \in [Kept -> FileStates]
  /\ recover \in {"none", "part", "old"} /\ done \subseteq Q
  /\ list \in {"none", "bad", "whole"}
  /\ dyn \in [Q -> FileStates]
  /\ reached \in Nat /\ reached <= Len(Steps) /\ skipped \in BOOLEAN

Init ==
  /\ task \in Tasks /\ profile \in [slurm : BOOLEAN, srun : BOOLEAN]
  /\ pc = "render" /\ from = "unset" /\ at = 1
  /\ ran = Quiet
  /\ timer = "off" /\ stopFile = FALSE
  /\ schema = [changed |-> FALSE, status |-> "none"]
  /\ product = [s \in Kept |-> "none"]
  /\ recover = "none" /\ done = {} /\ list = "none" /\ dyn = [q \in Q |-> "none"]
  /\ reached = 0 /\ skipped = FALSE

----------------------------------------------------------------------------
(* Rendering, submitting, and the head of the script.                      *)

\* render_slurm_script refuses a scheduler other than slurm, and a step on one
\* task under a launcher other than srun.
Render ==
  /\ pc = "render"
  /\ pc' = IF profile.slurm /\ (profile.srun \/ Names \cap OneTaskSteps = {})
           THEN "idle" ELSE "refused"
  /\ UNCHANGED <<script, job, timer, stopFile, files, log>>

\* sbatch submit.sh, GOLDILOCKS_FROM_STEP set to f or unset.  The processes of
\* the job before it are gone.
Submit(f) ==
  /\ pc = "idle" /\ timer = "off"
  /\ f \in Names \cup {"unset", "unknown"}
  /\ from' = f /\ at' = 1 /\ pc' = IF Resumable THEN "switch" ELSE "launch"
  /\ UNCHANGED <<script, ran, timer, stopFile, files, log>>

\* The job is over, its shell variables with it; the EXIT trap has the timer
\* killed.
Gone == pc' = "idle" /\ from' = "unset" /\ at' = 1 /\ ran' = Quiet
End == Gone /\ timer' = IF timer = "armed" THEN "dying" ELSE "off"

\* Mutant of FromFirst: only an unset GOLDILOCKS_FROM_STEP means a fresh run.
FromUnset == from = "unset"

\* The first step, by its name or unset, means a fresh run.
FromFirst == from \in {"unset", First}

\* Mutant of ResumeSwitch: the name is checked after the deletion.
ResumeSwitchDeletesFirst ==
  /\ pc = "switch"
  /\ pc' = "clean" /\ at' = IF FromFirst \/ from = "unknown" THEN 1 ELSE IndexOf(from)
  /\ skipped' = (skipped \/ at' > reached + 1)
  /\ reached' = IF FromFirst THEN 0 ELSE reached
  /\ UNCHANGED <<script, from, ran, timer, stopFile, files>>

\* _resume_switch: a name that is not a step's stops the script.
ResumeSwitch ==
  /\ pc = "switch"
  /\ IF from = "unknown"
     THEN End /\ UNCHANGED skipped
     ELSE /\ pc' = IF FromFirst THEN "clean" ELSE "timer"
          /\ at' = IF FromFirst THEN 1 ELSE IndexOf(from)
          /\ skipped' = (skipped \/ at' > reached + 1)
          /\ UNCHANGED <<from, ran, timer>>
  /\ reached' = IF from # "unknown" /\ FromFirst THEN 0 ELSE reached
  /\ UNCHANGED <<script, stopFile, files>>

\* rm -rf removes the restart data file by file.
RemoveRestartData ==
  /\ pc = "clean"
  /\ \/ /\ recover # "none" /\ recover' = "none" /\ done' = {}
        /\ UNCHANGED <<list, dyn>>
     \/ recover = "none" /\ list' = "none" /\ UNCHANGED <<recover, done, dyn>>
     \/ /\ recover = "none"
        /\ \E q \in Q : dyn' = [dyn EXCEPT ![q] = "none"]
        /\ UNCHANGED <<recover, done, list>>
  /\ UNCHANGED <<script, pc, job, timer, stopFile, schema, product, log>>

RestartDataRemoved ==
  /\ pc = "clean" /\ recover = "none" /\ list = "none"
  /\ \A q \in Q : dyn[q] = "none"
  /\ pc' = "timer" /\ skipped' = FALSE
  /\ UNCHANGED <<script, job, timer, stopFile, files, reached>>

\* Mutant of StartTimer: a leftover stop file stays.
StartTimerOnly ==
  /\ pc = "timer"
  /\ timer' = "armed" /\ pc' = "launch"
  /\ UNCHANGED <<script, job, stopFile, files, log>>

\* _timer: a leftover stop file goes, then the timer starts.
StartTimer ==
  /\ pc = "timer"
  /\ stopFile' = FALSE /\ timer' = "armed" /\ pc' = "launch"
  /\ UNCHANGED <<script, job, files, log>>

TimerFires ==
  /\ timer = "armed"
  /\ timer' = "fired" /\ stopFile' = TRUE
  /\ UNCHANGED <<script, pc, job, files, log>>

\* The trap's TERM reaches the timer before, or as, it touches the file.
TimerDies ==
  /\ timer = "dying"
  /\ timer' = "off" /\ stopFile' \in {stopFile, TRUE}
  /\ UNCHANGED <<script, pc, job, files, log>>

----------------------------------------------------------------------------
(* A step: launch, run, check.                                             *)

\* _checked_launch: the fingerprint, then the program.  The step's earlier
\* pass, and those of the steps after it, no longer count.
Launch ==
  /\ pc = "launch"
  /\ schema' = [schema EXCEPT !.changed = FALSE]
  /\ pc' = "run"
  /\ reached' = IF reached < at THEN reached ELSE at - 1
  /\ UNCHANGED <<script, job, timer, stopFile, product, matrices, skipped>>

\* Mutant of StatusIsZero: the status file is not compared with its fingerprint.
StatusSaysZero == schema.status = "0"

\* goldilocks_check_exit_status, goldilocks_check_ph, and
\* goldilocks_check_stdout_marker.
StatusIsZero == schema.changed /\ schema.status = "0"
MatricesAreThere ==
  ran.code = 0 /\ list = "whole" /\ \A q \in Q : Complete(dyn[q])
Passes ==
  \/ Step \in PwSteps /\ StatusIsZero
  \/ Step = "ph" /\ MatricesAreThere
  \/ Step \in OneTaskSteps /\ ran.said

CheckPasses ==
  /\ pc = "check" /\ Passes
  /\ reached' = IF reached = at - 1 THEN at ELSE reached
  /\ IF at < Len(Steps)
     THEN pc' = "launch" /\ at' = at + 1 /\ ran' = Quiet /\ UNCHANGED <<from, timer>>
     ELSE End
  /\ UNCHANGED <<script, stopFile, files, skipped>>

\* Mutant of CheckFails: what ph.x recorded goes with the job it stopped in.
CheckFailsAndClears ==
  /\ pc = "check" /\ ~ Passes
  /\ End
  /\ done' = {} /\ recover' = "none" /\ dyn' = [q \in Q |-> "none"]
  /\ UNCHANGED <<script, stopFile, schema, product, list, log>>

CheckFails ==
  /\ pc = "check" /\ ~ Passes
  /\ End
  /\ UNCHANGED <<script, stopFile, files, log>>

\* The program ends.  Under set -e a non-zero code ends the script, except
\* ph.x's, which is kept.
Exit(code, said) ==
  /\ IF code = 0 \/ Step = "ph"
     THEN /\ pc' = "check" /\ ran' = [code |-> code, said |-> said]
          /\ UNCHANGED <<from, at, timer>>
     ELSE End
  /\ UNCHANGED <<script, log>>

\* slurm kills the job, with every process of it, at the walltime or before.
Kill ==
  /\ pc \in {"switch", "clean", "timer"} \cup OnTime
  /\ Gone /\ timer' = "off"
  /\ UNCHANGED <<script, stopFile, files, log>>

----------------------------------------------------------------------------
(* pw.x.                                                                   *)

RunningPw == pc = "run" /\ Step \in PwSteps

\* What step s made, and, when s makes the save, all that was made from it.
Old(f) == IF f = "whole" THEN "old" ELSE f
Made(s, state) ==
  IF s = First
  THEN /\ product' = [t \in Kept |->
                        IF t = s THEN state ELSE Old(product[t])]
       /\ dyn' = [q \in Q |-> Old(dyn[q])]
       /\ recover' = IF recover = "none" THEN "none" ELSE "old"
  ELSE /\ product' = [product EXCEPT ![s] = state]
       /\ UNCHANGED <<dyn, recover>>

Punch(status) == schema' = [changed |-> TRUE, status |-> status]

\* The steps' inputs.  A program that misses one fails; any save will do,
\* whatever step it stopped at.
Reads(s) ==
  CASE s \in {"nscf", "bands", "d3hess"} -> product["scf"] # "none"
    [] s = "dos" -> Complete(product["nscf"])
    [] s \in {"bands_x_up", "bands_x_down"} -> Complete(product["bands"])
    [] s = "ph" -> /\ product["scf"] # "none"
                   /\ "d3hess" \in Names => Complete(product["d3hess"])
    [] s = "q2r" -> list = "whole" /\ \A q \in Q : Complete(dyn[q])
    [] s \in {"phonon_dos", "dispersion"} -> Complete(product["q2r"])
    [] OTHER -> TRUE

\* What the step reads is from an earlier save, and so is what it makes.
ReadsOld(s) ==
  \/ s = "ph" /\ (recover = "old" \/ ("d3hess" \in Names /\ product["d3hess"] = "old"))
  \/ s = "q2r" /\ \E q \in Q : dyn[q] = "old"

PwRewrites ==
  /\ RunningPw /\ product[Step] # "part"
  /\ Made(Step, "part")
  /\ UNCHANGED <<script, pc, job, timer, stopFile, schema, done, list, log>>

PwFinishes ==
  /\ RunningPw /\ Reads(Step)
  /\ Made(Step, "whole") /\ Punch("0") /\ Exit(0, TRUE)
  /\ UNCHANGED <<stopFile, done, list>>

\* exit_status 1, 2 or 3: it stops short, and only its status file says so.
PwFails ==
  /\ RunningPw
  /\ Made(Step, "part") /\ Punch("other") /\ Exit(0, TRUE)
  /\ UNCHANGED <<stopFile, done, list>>

\* exit_status 255: it finds the stop file, at its start or later; or its
\* max_seconds are over.
PwStops ==
  /\ RunningPw /\ (stopFile \/ ~ Resumable)
  /\ stopFile' = FALSE
  /\ Made(Step, "part") /\ Punch("other") /\ Exit(0, TRUE)
  /\ UNCHANGED <<done, list>>

\* It ends without a word on its status, or with a status file it lost.
PwIsSilent ==
  /\ RunningPw
  /\ schema' = schema \/ Punch("none")
  /\ Made(Step, "part") /\ Exit(0, TRUE)
  /\ UNCHANGED <<stopFile, done, list>>

PwAborts ==
  /\ RunningPw
  /\ Exit(1, FALSE)
  /\ UNCHANGED <<stopFile, files>>

----------------------------------------------------------------------------
(* ph.x, one q-point after the other.                                      *)

RunningPh == pc = "run" /\ Step = "ph"
Next_q(q) == q \notin done /\ \A r \in 1 .. q - 1 : r \in done

\* It recovers, or starts from scratch; either way it writes the list first.
PhStarts ==
  /\ RunningPh /\ Reads("ph") /\ (recover = "none" \/ list # "whole")
  /\ recover' = IF recover = "none" THEN "part" ELSE recover
  /\ list' = "whole"
  /\ UNCHANGED <<script, pc, job, timer, stopFile, schema, product, done, dyn, log>>

Started == RunningPh /\ recover # "none" /\ list = "whole" /\ Reads("ph")

\* q-point q's matrix is created, empty, when its linear response starts.
PhOpens(q) ==
  /\ Started /\ Next_q(q) /\ dyn[q] # "part"
  /\ dyn' = [dyn EXCEPT ![q] = "part"]
  /\ UNCHANGED <<script, pc, job, timer, stopFile, schema, product, recover, done,
                 list, log>>

PhCompletes(q) ==
  /\ Started /\ Next_q(q) /\ dyn[q] = "part"
  /\ dyn' = [dyn EXCEPT ![q] = IF ReadsOld("ph") THEN "old" ELSE "whole"]
  /\ done' = done \cup {q}
  /\ UNCHANGED <<script, pc, job, timer, stopFile, schema, product, recover, list,
                 log>>

PhFinishes ==
  /\ Started /\ done = Q
  /\ Exit(0, TRUE)
  /\ UNCHANGED <<stopFile, files>>

\* Stopped in a q-point's non-scf step it exits with 0, later with 1.
PhStops ==
  /\ RunningPh /\ stopFile
  /\ stopFile' = FALSE
  /\ \/ Exit(1, TRUE)
     \/ Started /\ (\E q \in Q : Next_q(q) /\ dyn[q] # "part") /\ Exit(0, TRUE)
  /\ UNCHANGED files

\* A linear system that does not converge, an error, missing inputs; or a mesh
\* whose count does not fit the list's format.
PhFails ==
  /\ RunningPh
  /\ \E said \in BOOLEAN : Exit(1, said)
  /\ UNCHANGED <<stopFile, files>>

PhListsBadly ==
  /\ RunningPh /\ list # "whole"
  /\ list' = "bad"
  /\ Exit(0, TRUE)
  /\ UNCHANGED <<stopFile, schema, product, recover, done, dyn>>

----------------------------------------------------------------------------
(* The programs on one task: dos.x, bands.x, d3hess.x, q2r.x, matdyn.x.    *)

RunningOneTask == pc = "run" /\ Step \in OneTaskSteps

Leaves(state) == [s \in Kept |-> IF s = Step THEN state ELSE product[s]]

OneTaskFinishes ==
  /\ RunningOneTask /\ Reads(Step)
  /\ product' = Leaves(IF ReadsOld(Step) THEN "old" ELSE "whole")
  /\ Exit(0, TRUE)
  /\ UNCHANGED <<stopFile, schema, matrices>>

OneTaskIsSilent ==
  /\ RunningOneTask
  /\ product' = Leaves("part")
  /\ Exit(0, FALSE)
  /\ UNCHANGED <<stopFile, schema, matrices>>

OneTaskRewrites ==
  /\ RunningOneTask /\ Step \in Kept /\ product[Step] # "part"
  /\ product' = Leaves("part")
  /\ UNCHANGED <<script, pc, job, timer, stopFile, schema, matrices, log>>

OneTaskAborts ==
  /\ RunningOneTask
  /\ Exit(1, FALSE)
  /\ UNCHANGED <<stopFile, files>>

----------------------------------------------------------------------------
Script ==
  \/ Render \/ ResumeSwitch \/ RemoveRestartData \/ RestartDataRemoved \/ StartTimer
  \/ TimerFires \/ TimerDies \/ Launch \/ CheckPasses \/ CheckFails

Pw == PwRewrites \/ PwFinishes \/ PwFails \/ PwStops \/ PwIsSilent \/ PwAborts

Ph ==
  \/ PhStarts \/ (\E q \in Q : PhOpens(q) \/ PhCompletes(q))
  \/ PhFinishes \/ PhStops \/ PhFails \/ PhListsBadly

OneTask == OneTaskFinishes \/ OneTaskIsSilent \/ OneTaskRewrites \/ OneTaskAborts

User == \E f \in StepNames \cup {"unset", "unknown"} : Submit(f)

Next == User \/ Script \/ Kill \/ Pw \/ Ph \/ OneTask

Spec == Init /\ [][Next]_vars

----------------------------------------------------------------------------
(* Fairness.  The script runs on, slurm ends a job at its walltime, and the *)
(* user submits again.  No job is promised to get through a step: a program *)
(* that keeps being run only finishes once in a while, and a phonon run     *)
(* only gets one thing done, a q-point say.                                 *)

PhAdvances == PhStarts \/ PhFinishes \/ \E q \in Q : PhOpens(q) \/ PhCompletes(q)

Fairness ==
  /\ WF_vars(User) /\ WF_vars(Script) /\ WF_vars(Kill)
  /\ SF_vars(PwFinishes /\ at = 1) /\ SF_vars(PwFinishes /\ at = 2)
  /\ SF_vars(OneTaskFinishes) /\ SF_vars(PhAdvances)

FairSpec == Spec /\ Fairness

----------------------------------------------------------------------------
(* Properties.                                                             *)

\* What step s made is whole, and of the save as it is now.
IsMade(s) ==
  /\ s = "ph" => list = "whole" /\ \A q \in Q : dyn[q] = "whole"
  /\ s \in Kept => product[s] = "whole"

\* The steps that passed their checks, none before them rerun since, left what
\* the steps after them read, made from the save that is there now: whichever
\* way the programs end, wherever a job is killed, and from whatever step the
\* next one starts, unless the user skips a step that has not passed.
ReachedIsMade ==
  ~ skipped => \A k \in 1 .. reached : IsMade(Steps[k])

\* No dynamical matrix outlives the save it was computed on, even for a user
\* who skips steps, but for one whose ph.x reads a Hessian that did.
MatricesOfTheSave ==
  (\E q \in Q : dyn[q] = "old") => skipped /\ "d3hess" \in Names

\* A step that meets the stop file meets the one of its own job's timer, never
\* one an earlier job left: a fresh job is not stopped at its first step.
StopFileIsOwn ==
  pc \in OnTime /\ stopFile => timer = "fired"

\* What ph.x has recorded as done, with its matrix, is only lost to a run from
\* the first step: a resumed job, or one refused for its step's name, keeps it.
ResumingKeepsWork ==
  [][\A q \in done : (q \in done' /\ dyn'[q] = dyn[q]) \/ FromFirst]_vars

\* The user resumes at the first step that has not passed, where the script
\* can, and else starts again; and jobs are killed while a program runs, not
\* between the programs.  At the check a kill that does what the check does, end
\* the job, is that check: the checks may fail without end, a stopped ph.x's
\* at every job.
Follows ==
  /\ \A f \in StepNames \cup {"unset", "unknown"} :
       Submit(f) => f = IF Resumable /\ reached \in 1 .. Len(Steps) - 1 /\ ~ skipped
                        THEN Steps[reached + 1] ELSE "unset"
  /\ Kill => pc = "run" \/ CheckFails

\* A task longer than its walltime is finished by resuming it: from any state,
\* a user who resumes where the jobs got to sees every step pass.
Finishes ==
  <>[][Follows]_vars => <>(reached = Len(Steps) \/ pc = "refused")

=============================================================================
