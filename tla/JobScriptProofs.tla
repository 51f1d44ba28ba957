-------------------------- MODULE JobScriptProofs --------------------------
(***************************************************************************)
(* What the jobs of a bundle leave and find, for every number of q-points. *)
(*                                                                         *)
(* The invariant follows the files through the script: ph.x has no data    *)
(* while the first step rewrites the save, a job stands at most one step   *)
(* beyond those that have passed unless the user skipped one, and a        *)
(* program that passes its check has left what the check stands for.       *)
(***************************************************************************)
EXTENDS JobScript, TLAPS

\* Before the first step runs, and in a task without phonons, there is no data of
\* ph.x, and what it recovers from is never of an earlier save.
NoOldData ==
  (~ Resumable \/ (pc \in {"timer"} \cup OnTime /\ at = 1)) =>
    recover = "none" /\ \A q \in Q : dyn[q] = "none"
RecoverIsOfTheSave == recover # "old"

\* A job is at the step after those that have passed, or before it.
NotBeyond ==
  /\ pc \in {"timer"} \cup OnTime /\ ~ skipped => at <= reached + 1
  /\ pc \in {"run", "check"} => reached < at

\* Only a fresh run of a phonon task removes, and a non-phonon task has no timer.
HeadIsOfPhonons ==
  /\ pc \in {"switch", "clean", "timer"} => Resumable
  /\ pc = "clean" => FromFirst /\ reached = 0 /\ at = 1
  /\ ~ Resumable => timer = "off" /\ ~ stopFile
  /\ timer = "dying" => pc = "idle"

\* The status file is unchanged while pw.x runs; a program that passes its check
\* has left its product.
Unpunched == pc = "run" => ~ schema.changed
PassingIsMade ==
  pc = "check" =>
    /\ Step \in PwSteps /\ StatusIsZero => product[Step] = "whole"
    /\ Step \in OneTaskSteps \cap Kept /\ ran.said => 
         product[Step] = "whole" \/ (product[Step] = "old" /\ skipped)

IInv ==
  /\ TypeOK /\ NoOldData /\ RecoverIsOfTheSave /\ NotBeyond /\ HeadIsOfPhonons
  /\ Unpunched /\ PassingIsMade
  /\ ReachedIsMade /\ MatricesOfTheSave /\ StopFileIsOwn

-----------------------------------------------------------------------------
\* The plans: steps of known names, each once, the pw.x step that makes the save
\* first, and d3hess before the ph step that reads its Hessian.
LEMMA PlanFacts ==
  ASSUME task \in Tasks
  PROVE  /\ Len(Steps) \in Nat /\ 1 <= Len(Steps)
         /\ \A k \in Index : Steps[k] \in StepNames
         /\ First = "scf"
         /\ \A j, k \in Index : Steps[j] = Steps[k] => j = k
         /\ "d3hess" \in Names =>
              \A k \in Index : Steps[k] = "ph" => k > 1 /\ Steps[k - 1] = "d3hess"
<1>1. task \in {"relax", "dos", "band", "phonon", "d3phonon"}
  BY TasksAssumption DEF Plan
<1> USE DEF Steps, Index, First, Names, Plan, StepNames, PwSteps, OneTaskSteps, PhononSteps
<1>2. CASE task = "relax"
  BY <1>2
<1>3. CASE task = "dos"
  BY <1>3
<1>4. CASE task = "band"
  BY <1>4
<1>5. CASE task = "phonon"
  BY <1>5
<1>6. CASE task = "d3phonon"
  BY <1>6
<1> QED
  BY <1>1, <1>2, <1>3, <1>4, <1>5, <1>6

\* A rendered script starts with nothing on disk.
LEMMA Initial == Init => IInv
<1> SUFFICES ASSUME Init PROVE IInv
  OBVIOUS
<1>1. task \in Tasks /\ at = 1 /\ reached = 0 /\ pc = "render" /\ ~ skipped
  BY DEF Init
<1>2. Len(Steps) \in Nat /\ 1 <= Len(Steps) /\ 1 \in Index
  BY <1>1, PlanFacts DEF Index
<1>3. TypeOK
  <2>1. profile \in [slurm : BOOLEAN, srun : BOOLEAN]
    BY DEF Init
  <2>2. ran \in [code : {0, 1}, said : BOOLEAN]
    BY DEF Init, Quiet
  <2>3. schema \in [changed : BOOLEAN, status : Statuses]
    BY DEF Init, Statuses
  <2>4. product \in [Kept -> FileStates] /\ dyn \in [Q -> FileStates]
    BY DEF Init, FileStates
  <2>5. timer \in {"off", "armed", "fired", "dying"} /\ stopFile \in BOOLEAN
    BY DEF Init
  <2>6. /\ recover \in {"none", "part", "old"} /\ done \subseteq Q
        /\ list \in {"none", "bad", "whole"} /\ skipped \in BOOLEAN
    BY DEF Init
  <2> QED
    BY <1>1, <1>2, <2>1, <2>2, <2>3, <2>4, <2>5, <2>6 DEF Init, TypeOK
<1>4. NoOldData /\ RecoverIsOfTheSave /\ MatricesOfTheSave
  BY DEF Init, NoOldData, RecoverIsOfTheSave, MatricesOfTheSave
<1>5. NotBeyond /\ HeadIsOfPhonons /\ Unpunched /\ PassingIsMade /\ StopFileIsOwn
  BY DEF Init, NotBeyond, HeadIsOfPhonons, Unpunched, PassingIsMade, StopFileIsOwn, OnTime
<1>6. ReachedIsMade
  BY <1>1 DEF ReachedIsMade
<1> QED
  BY <1>3, <1>4, <1>5, <1>6 DEF IInv

\* Every step of the script, its programs, slurm and the user keeps the invariant.
LEMMA Inductive == IInv /\ [Next]_vars => IInv'
<1> SUFFICES ASSUME IInv, [Next]_vars PROVE IInv'
  OBVIOUS
<1> USE NQAssumption
<1> USE DEF IInv, TypeOK, NoOldData, RecoverIsOfTheSave, NotBeyond, HeadIsOfPhonons,
        Unpunched, PassingIsMade, ReachedIsMade, MatricesOfTheSave, StopFileIsOwn,
        script, job, matrices, files, log, OnTime, FileStates, Step
<1>p. /\ Len(Steps) \in Nat /\ 1 <= Len(Steps) /\ Index = 1 .. Len(Steps)
      /\ \A k \in Index : Steps[k] \in StepNames
      /\ First = "scf"
      /\ \A j, k \in Index : Steps[j] = Steps[k] => j = k
      /\ "d3hess" \in Names =>
           \A k \in Index : Steps[k] = "ph" => k > 1 /\ Steps[k - 1] = "d3hess"
      /\ First = Steps[1]
  BY PlanFacts DEF Index, First
<1>n. \A k \in Index : Steps[k] \in Names
  BY DEF Names
<1>i. from \in Names => IndexOf(from) \in Index /\ Steps[IndexOf(from)] = from
  BY DEF Names, IndexOf
<1>r. /\ \A c \in {0, 1}, b \in BOOLEAN :
           [code |-> c, said |-> b] \in [code : {0, 1}, said : BOOLEAN]
      /\ Quiet \in [code : {0, 1}, said : BOOLEAN]
  BY DEF Quiet
<1>s. [changed |-> TRUE, status |-> "none"] \in [changed : BOOLEAN, status : Statuses]
  BY DEF Statuses

<1>1. ASSUME Render PROVE IInv'
  <2>0. /\ Steps' = Steps /\ Index' = Index /\ Names' = Names
        /\ First' = First /\ Resumable' = Resumable
    BY <1>1 DEF Render, Steps, Index, Names, First, Resumable
  <2>1. TypeOK'
    BY <1>1, <2>0, <1>p, <1>n DEF Render, IndexOf, Statuses, Kept, PwSteps
  <2>2. /\ NoOldData' /\ RecoverIsOfTheSave' /\ NotBeyond' /\ HeadIsOfPhonons'
          /\ Unpunched' /\ PassingIsMade' /\ ReachedIsMade' /\ MatricesOfTheSave'
          /\ StopFileIsOwn'
    BY <1>1, <2>0, <1>p
       DEF Render, FromFirst, StatusIsZero, Kept, PwSteps, OneTaskSteps, PhononSteps, IsMade
  <2> QED
    BY <2>0, <2>1, <2>2
<1>2. ASSUME NEW f \in StepNames \cup {"unset", "unknown"}, Submit(f) PROVE IInv'
  <2>0. /\ Steps' = Steps /\ Index' = Index /\ Names' = Names
        /\ First' = First /\ Resumable' = Resumable
    BY <1>2 DEF Submit, Steps, Index, Names, First, Resumable
  <2>1. TypeOK'
    BY <1>2, <2>0, <1>p, <1>n DEF Submit, IndexOf, Statuses, Kept, PwSteps
  <2>2. /\ NoOldData' /\ RecoverIsOfTheSave' /\ NotBeyond' /\ HeadIsOfPhonons'
          /\ Unpunched' /\ PassingIsMade' /\ ReachedIsMade' /\ MatricesOfTheSave'
          /\ StopFileIsOwn'
    BY <1>2, <2>0, <1>p
       DEF Submit, FromFirst, StatusIsZero, Kept, PwSteps, OneTaskSteps, PhononSteps, IsMade
  <2> QED
    BY <2>0, <2>1, <2>2
<1>3. ASSUME ResumeSwitch PROVE IInv'
  <2>0. /\ Steps' = Steps /\ Index' = Index /\ Names' = Names
        /\ First' = First /\ Resumable' = Resumable
    BY <1>3 DEF ResumeSwitch, End, Gone, Quiet, Steps, Index, Names, First, Resumable
  <2>1. /\ from' \in Names \cup {"unset", "unknown"} /\ at' \in Index
    <3>1. CASE from = "unknown"
      BY <1>3, <2>0, <1>p, <3>1 DEF ResumeSwitch, End, Gone
    <3>2. CASE from # "unknown" /\ FromFirst
      BY <1>3, <2>0, <1>p, <3>2 DEF ResumeSwitch
    <3>3. CASE from # "unknown" /\ ~ FromFirst
      BY <1>3, <2>0, <1>p, <1>i, <3>3 DEF ResumeSwitch, FromFirst
    <3> QED
      BY <3>1, <3>2, <3>3
  <2>2. ran' \in [code : {0, 1}, said : BOOLEAN]
    BY <1>3, <1>r DEF ResumeSwitch, End, Gone
  <2>3. reached' \in Nat /\ reached' <= Len(Steps) /\ skipped' \in BOOLEAN
    <3>1. CASE from = "unknown"
      BY <1>3, <2>0, <1>p, <3>1 DEF ResumeSwitch, End, Gone
    <3>2. CASE from # "unknown" /\ FromFirst
      BY <1>3, <2>0, <1>p, <3>2 DEF ResumeSwitch
    <3>3. CASE from # "unknown" /\ ~ FromFirst
      BY <1>3, <2>0, <1>p, <1>i, <3>3 DEF ResumeSwitch, FromFirst
    <3> QED
      BY <3>1, <3>2, <3>3
  <2>4. /\ task' \in Tasks /\ profile' \in [slurm : BOOLEAN, srun : BOOLEAN]
          /\ pc' \in {"render", "refused", "idle", "switch", "clean", "timer"} \cup OnTime
          /\ timer' \in {"off", "armed", "fired", "dying"} /\ stopFile' \in BOOLEAN
          /\ schema' \in [changed : BOOLEAN, status : Statuses]
          /\ product' \in [Kept -> FileStates]
          /\ recover' \in {"none", "part", "old"} /\ done' \subseteq Q
          /\ list' \in {"none", "bad", "whole"}
          /\ dyn' \in [Q -> FileStates]
    BY <1>3, <2>0, <1>p DEF ResumeSwitch, End, Gone, Quiet, Statuses, Kept, PwSteps
  <2>5. NoOldData'
    <3>1. CASE from = "unknown"
      BY <1>3, <2>0, <1>p, <3>1 DEF ResumeSwitch, End, Gone
    <3>2. CASE from # "unknown" /\ FromFirst
      BY <1>3, <2>0, <1>p, <3>2 DEF ResumeSwitch
    <3>3. CASE from # "unknown" /\ ~ FromFirst
      BY <1>3, <2>0, <1>p, <1>i, <3>3 DEF ResumeSwitch, FromFirst
    <3> QED
      BY <3>1, <3>2, <3>3
  <2>6. NotBeyond'
    <3>1. at' \in Nat /\ reached' \in Nat /\ pc' \notin OnTime
      BY <1>p, <2>0, <2>1, <2>3, <1>3 DEF ResumeSwitch, End, Gone
    <3>2. pc' = "timer" /\ ~ skipped' => ~ (at' > reached + 1) /\ reached' = reached
      BY <1>3 DEF ResumeSwitch, End, Gone
    <3>3. pc' = "timer" /\ ~ skipped' => at' <= reached' + 1
      BY <3>1, <3>2
    <3>4. pc' \notin {"launch", "run", "check"}
      BY <3>1
    <3> HIDE DEF IInv, TypeOK
    <3> QED
      BY <3>3, <3>4
  <2>7. /\ RecoverIsOfTheSave' /\ HeadIsOfPhonons' /\ Unpunched' /\ PassingIsMade'
          /\ ReachedIsMade' /\ MatricesOfTheSave' /\ StopFileIsOwn'
    BY <1>3, <2>0, <1>p
       DEF ResumeSwitch, End, Gone, Quiet, FromFirst, StatusIsZero, Kept, PwSteps,
       OneTaskSteps, PhononSteps, IsMade
  <2> QED
    BY <2>0, <2>1, <2>2, <2>3, <2>4, <2>5, <2>6, <2>7
<1>4. ASSUME RemoveRestartData PROVE IInv'
  <2>0. /\ Steps' = Steps /\ Index' = Index /\ Names' = Names
        /\ First' = First /\ Resumable' = Resumable
    BY <1>4 DEF RemoveRestartData, Steps, Index, Names, First, Resumable
  <2>1. TypeOK'
    BY <1>4, <2>0, <1>p, <1>n DEF RemoveRestartData, IndexOf, Statuses, Kept, PwSteps
  <2>2. /\ NoOldData' /\ RecoverIsOfTheSave' /\ NotBeyond' /\ HeadIsOfPhonons'
          /\ Unpunched' /\ PassingIsMade' /\ ReachedIsMade' /\ MatricesOfTheSave'
          /\ StopFileIsOwn'
    BY <1>4, <2>0, <1>p
       DEF RemoveRestartData, FromFirst, StatusIsZero, Kept, PwSteps, OneTaskSteps,
       PhononSteps, IsMade
  <2> QED
    BY <2>0, <2>1, <2>2
<1>5. ASSUME RestartDataRemoved PROVE IInv'
  <2>0. /\ Steps' = Steps /\ Index' = Index /\ Names' = Names
        /\ First' = First /\ Resumable' = Resumable
    BY <1>5 DEF RestartDataRemoved, Steps, Index, Names, First, Resumable
  <2>1. /\ task' \in Tasks /\ profile' \in [slurm : BOOLEAN, srun : BOOLEAN]
          /\ pc' \in {"render", "refused", "idle", "switch", "clean", "timer"} \cup OnTime
    BY <1>5, <2>0, <1>p DEF RestartDataRemoved
  <2>2. /\ from' \in Names \cup {"unset", "unknown"} /\ at' \in Index
    BY <1>5, <2>0, <1>p, <1>n DEF RestartDataRemoved, IndexOf
  <2>3. ran' \in [code : {0, 1}, said : BOOLEAN]
    BY <1>5, <2>0, <1>p DEF RestartDataRemoved
  <2>4. timer' \in {"off", "armed", "fired", "dying"} /\ stopFile' \in BOOLEAN
    BY <1>5, <2>0, <1>p DEF RestartDataRemoved
  <2>5. schema' \in [changed : BOOLEAN, status : Statuses]
    BY <1>5, <2>0, <1>p DEF RestartDataRemoved, Statuses
  <2>6. product' \in [Kept -> FileStates]
    BY <1>5, <2>0, <1>p DEF RestartDataRemoved, Kept, PwSteps
  <2>7. /\ recover' \in {"none", "part", "old"} /\ done' \subseteq Q
          /\ list' \in {"none", "bad", "whole"}
    BY <1>5, <2>0, <1>p DEF RestartDataRemoved
  <2>8. dyn' \in [Q -> FileStates]
    BY <1>5, <2>0, <1>p DEF RestartDataRemoved
  <2>9. reached' \in Nat /\ reached' <= Len(Steps) /\ skipped' \in BOOLEAN
    BY <1>5, <2>0, <1>p DEF RestartDataRemoved
  <2>10. /\ NoOldData' /\ RecoverIsOfTheSave' /\ NotBeyond' /\ HeadIsOfPhonons'
          /\ Unpunched' /\ PassingIsMade' /\ ReachedIsMade' /\ MatricesOfTheSave'
          /\ StopFileIsOwn'
    BY <1>5, <2>0, <1>p
       DEF RestartDataRemoved, FromFirst, StatusIsZero, Kept, PwSteps, OneTaskSteps,
       PhononSteps, IsMade
  <2> QED
    BY <2>0, <2>1, <2>2, <2>3, <2>4, <2>5, <2>6, <2>7, <2>8, <2>9, <2>10
<1>6. ASSUME StartTimer PROVE IInv'
  <2>0. /\ Steps' = Steps /\ Index' = Index /\ Names' = Names
        /\ First' = First /\ Resumable' = Resumable
    BY <1>6 DEF StartTimer, Steps, Index, Names, First, Resumable
  <2>1. /\ task' \in Tasks /\ profile' \in [slurm : BOOLEAN, srun : BOOLEAN]
          /\ pc' \in {"render", "refused", "idle", "switch", "clean", "timer"} \cup OnTime
    BY <1>6, <2>0, <1>p DEF StartTimer
  <2>2. /\ from' \in Names \cup {"unset", "unknown"} /\ at' \in Index
    BY <1>6, <2>0, <1>p, <1>n DEF StartTimer, IndexOf
  <2>3. ran' \in [code : {0, 1}, said : BOOLEAN]
    BY <1>6, <2>0, <1>p DEF StartTimer
  <2>4. timer' \in {"off", "armed", "fired", "dying"} /\ stopFile' \in BOOLEAN
    BY <1>6, <2>0, <1>p DEF StartTimer
  <2>5. schema' \in [changed : BOOLEAN, status : Statuses]
    BY <1>6, <2>0, <1>p DEF StartTimer, Statuses
  <2>6. product' \in [Kept -> FileStates]
    BY <1>6, <2>0, <1>p DEF StartTimer, Kept, PwSteps
  <2>7. /\ recover' \in {"none", "part", "old"} /\ done' \subseteq Q
          /\ list' \in {"none", "bad", "whole"}
    BY <1>6, <2>0, <1>p DEF StartTimer
  <2>8. dyn' \in [Q -> FileStates]
    BY <1>6, <2>0, <1>p DEF StartTimer
  <2>9. reached' \in Nat /\ reached' <= Len(Steps) /\ skipped' \in BOOLEAN
    BY <1>6, <2>0, <1>p DEF StartTimer
  <2>10. /\ NoOldData' /\ RecoverIsOfTheSave' /\ NotBeyond' /\ HeadIsOfPhonons'
          /\ Unpunched' /\ PassingIsMade' /\ ReachedIsMade' /\ MatricesOfTheSave'
          /\ StopFileIsOwn'
    BY <1>6, <2>0, <1>p
       DEF StartTimer, FromFirst, StatusIsZero, Kept, PwSteps, OneTaskSteps, PhononSteps,
       IsMade
  <2> QED
    BY <2>0, <2>1, <2>2, <2>3, <2>4, <2>5, <2>6, <2>7, <2>8, <2>9, <2>10
<1>7. ASSUME TimerFires PROVE IInv'
  <2>0. /\ Steps' = Steps /\ Index' = Index /\ Names' = Names
        /\ First' = First /\ Resumable' = Resumable
    BY <1>7 DEF TimerFires, Steps, Index, Names, First, Resumable
  <2>1. TypeOK'
    BY <1>7, <2>0, <1>p, <1>n DEF TimerFires, IndexOf, Statuses, Kept, PwSteps
  <2>2. /\ NoOldData' /\ RecoverIsOfTheSave' /\ NotBeyond' /\ HeadIsOfPhonons'
          /\ Unpunched' /\ PassingIsMade' /\ ReachedIsMade' /\ MatricesOfTheSave'
          /\ StopFileIsOwn'
    BY <1>7, <2>0, <1>p
       DEF TimerFires, FromFirst, StatusIsZero, Kept, PwSteps, OneTaskSteps, PhononSteps,
       IsMade
  <2> QED
    BY <2>0, <2>1, <2>2
<1>8. ASSUME TimerDies PROVE IInv'
  <2>0. /\ Steps' = Steps /\ Index' = Index /\ Names' = Names
        /\ First' = First /\ Resumable' = Resumable
    BY <1>8 DEF TimerDies, Steps, Index, Names, First, Resumable
  <2>1. /\ task' \in Tasks /\ profile' \in [slurm : BOOLEAN, srun : BOOLEAN]
          /\ pc' \in {"render", "refused", "idle", "switch", "clean", "timer"} \cup OnTime
    BY <1>8, <2>0, <1>p DEF TimerDies
  <2>2. /\ from' \in Names \cup {"unset", "unknown"} /\ at' \in Index
    BY <1>8, <2>0, <1>p, <1>n DEF TimerDies, IndexOf
  <2>3. ran' \in [code : {0, 1}, said : BOOLEAN]
    BY <1>8, <2>0, <1>p DEF TimerDies
  <2>4. timer' \in {"off", "armed", "fired", "dying"} /\ stopFile' \in BOOLEAN
    BY <1>8, <2>0, <1>p DEF TimerDies
  <2>5. schema' \in [changed : BOOLEAN, status : Statuses]
    BY <1>8, <2>0, <1>p DEF TimerDies, Statuses
  <2>6. product' \in [Kept -> FileStates]
    BY <1>8, <2>0, <1>p DEF TimerDies, Kept, PwSteps
  <2>7. /\ recover' \in {"none", "part", "old"} /\ done' \subseteq Q
          /\ list' \in {"none", "bad", "whole"}
    BY <1>8, <2>0, <1>p DEF TimerDies
  <2>8. dyn' \in [Q -> FileStates]
    BY <1>8, <2>0, <1>p DEF TimerDies
  <2>9. reached' \in Nat /\ reached' <= Len(Steps) /\ skipped' \in BOOLEAN
    BY <1>8, <2>0, <1>p DEF TimerDies
  <2>10. /\ NoOldData' /\ RecoverIsOfTheSave' /\ NotBeyond' /\ HeadIsOfPhonons'
          /\ Unpunched' /\ PassingIsMade' /\ ReachedIsMade' /\ MatricesOfTheSave'
          /\ StopFileIsOwn'
    BY <1>8, <2>0, <1>p
       DEF TimerDies, FromFirst, StatusIsZero, Kept, PwSteps, OneTaskSteps, PhononSteps,
       IsMade
  <2> QED
    BY <2>0, <2>1, <2>2, <2>3, <2>4, <2>5, <2>6, <2>7, <2>8, <2>9, <2>10
<1>9. ASSUME Launch PROVE IInv'
  <2>0. /\ Steps' = Steps /\ Index' = Index /\ Names' = Names
        /\ First' = First /\ Resumable' = Resumable
    BY <1>9 DEF Launch, Steps, Index, Names, First, Resumable
  <2>1. /\ task' \in Tasks /\ profile' \in [slurm : BOOLEAN, srun : BOOLEAN]
          /\ pc' \in {"render", "refused", "idle", "switch", "clean", "timer"} \cup OnTime
    BY <1>9, <2>0, <1>p DEF Launch
  <2>2. /\ from' \in Names \cup {"unset", "unknown"} /\ at' \in Index
    BY <1>9, <2>0, <1>p, <1>n DEF Launch, IndexOf
  <2>3. ran' \in [code : {0, 1}, said : BOOLEAN]
    BY <1>9, <2>0, <1>p DEF Launch
  <2>4. timer' \in {"off", "armed", "fired", "dying"} /\ stopFile' \in BOOLEAN
    BY <1>9, <2>0, <1>p DEF Launch
  <2>5. schema' \in [changed : BOOLEAN, status : Statuses]
    BY <1>9, <2>0, <1>p DEF Launch, Statuses
  <2>6. product' \in [Kept -> FileStates]
    BY <1>9, <2>0, <1>p DEF Launch, Kept, PwSteps
  <2>7. /\ recover' \in {"none", "part", "old"} /\ done' \subseteq Q
          /\ list' \in {"none", "bad", "whole"}
    BY <1>9, <2>0, <1>p DEF Launch
  <2>8. dyn' \in [Q -> FileStates]
    BY <1>9, <2>0, <1>p DEF Launch
  <2>9. reached' \in Nat /\ reached' <= Len(Steps) /\ skipped' \in BOOLEAN
    BY <1>9, <2>0, <1>p DEF Launch
  <2>10. /\ NoOldData' /\ RecoverIsOfTheSave' /\ NotBeyond' /\ HeadIsOfPhonons'
          /\ Unpunched' /\ PassingIsMade' /\ ReachedIsMade' /\ MatricesOfTheSave'
          /\ StopFileIsOwn'
    BY <1>9, <2>0, <1>p
       DEF Launch, FromFirst, StatusIsZero, Kept, PwSteps, OneTaskSteps, PhononSteps, IsMade
  <2> QED
    BY <2>0, <2>1, <2>2, <2>3, <2>4, <2>5, <2>6, <2>7, <2>8, <2>9, <2>10
<1>10. ASSUME CheckPasses PROVE IInv'
  <2>0. /\ Steps' = Steps /\ Index' = Index /\ Names' = Names
        /\ First' = First /\ Resumable' = Resumable
    BY <1>10 DEF CheckPasses, End, Gone, Quiet, Steps, Index, Names, First, Resumable
  <2>1. ran' \in [code : {0, 1}, said : BOOLEAN]
    BY <1>10, <1>r DEF CheckPasses, End, Gone
  <2>2. /\ task' \in Tasks /\ profile' \in [slurm : BOOLEAN, srun : BOOLEAN]
          /\ pc' \in {"render", "refused", "idle", "switch", "clean", "timer"} \cup OnTime
          /\ from' \in Names \cup {"unset", "unknown"} /\ at' \in Index
          /\ timer' \in {"off", "armed", "fired", "dying"} /\ stopFile' \in BOOLEAN
          /\ schema' \in [changed : BOOLEAN, status : Statuses]
          /\ product' \in [Kept -> FileStates]
          /\ recover' \in {"none", "part", "old"} /\ done' \subseteq Q
          /\ list' \in {"none", "bad", "whole"}
          /\ dyn' \in [Q -> FileStates]
          /\ reached' \in Nat /\ reached' <= Len(Steps) /\ skipped' \in BOOLEAN
    BY <1>10, <2>0, <1>p, <1>n
       DEF CheckPasses, End, Gone, Quiet, IndexOf, Statuses, Kept, PwSteps
  <2>3. ReachedIsMade'
    <3>1. ASSUME ~ skipped', NEW k \in 1 .. reached' PROVE IsMade(Steps[k])'
      <4>1. CASE k = at /\ reached = at - 1
        <5>1. Step \in PwSteps => product[Step] = "whole"
          BY <1>10, <3>1, <4>1 DEF CheckPasses, Passes, PwSteps, OneTaskSteps, PhononSteps
        <5>2. Step \in OneTaskSteps \cap Kept => product[Step] = "whole"
          BY <1>10, <3>1, <4>1 DEF CheckPasses, Passes, PwSteps, OneTaskSteps, PhononSteps
        <5>3. Step = "ph" => list = "whole" /\ \A q \in Q : dyn[q] = "whole"
          BY <1>10, <3>1, <4>1 DEF CheckPasses, Passes, MatricesAreThere, Complete, PwSteps,
             OneTaskSteps, PhononSteps
        <5> QED
          BY <1>10, <2>0, <4>1, <5>1, <5>2, <5>3
             DEF CheckPasses, IsMade, Kept, PwSteps, OneTaskSteps, PhononSteps
      <4>2. CASE k \in 1 .. reached
        BY <1>10, <2>0, <3>1, <4>2 DEF CheckPasses, IsMade
      <4> QED
        BY <1>10, <1>p, <3>1, <4>1, <4>2 DEF CheckPasses
    <3> QED
      BY <2>0, <3>1
  <2>4. /\ NoOldData' /\ RecoverIsOfTheSave' /\ NotBeyond' /\ HeadIsOfPhonons'
          /\ Unpunched' /\ PassingIsMade' /\ MatricesOfTheSave' /\ StopFileIsOwn'
    BY <1>10, <2>0, <1>p
       DEF CheckPasses, End, Gone, Quiet, FromFirst, StatusIsZero, Kept, PwSteps,
       OneTaskSteps, PhononSteps
  <2> QED
    BY <2>0, <2>1, <2>2, <2>3, <2>4
<1>11. ASSUME CheckFails PROVE IInv'
  <2>0. /\ Steps' = Steps /\ Index' = Index /\ Names' = Names
        /\ First' = First /\ Resumable' = Resumable
    BY <1>11 DEF CheckFails, End, Gone, Quiet, Steps, Index, Names, First, Resumable
  <2>1. TypeOK'
    BY <1>11, <2>0, <1>p, <1>n
       DEF CheckFails, End, Gone, Quiet, IndexOf, Statuses, Kept, PwSteps
  <2>2. /\ NoOldData' /\ RecoverIsOfTheSave' /\ NotBeyond' /\ HeadIsOfPhonons'
          /\ Unpunched' /\ PassingIsMade' /\ ReachedIsMade' /\ MatricesOfTheSave'
          /\ StopFileIsOwn'
    BY <1>11, <2>0, <1>p
       DEF CheckFails, End, Gone, Quiet, FromFirst, StatusIsZero, Kept, PwSteps,
       OneTaskSteps, PhononSteps, IsMade
  <2> QED
    BY <2>0, <2>1, <2>2
<1>12. ASSUME Kill PROVE IInv'
  <2>0. /\ Steps' = Steps /\ Index' = Index /\ Names' = Names
        /\ First' = First /\ Resumable' = Resumable
    BY <1>12 DEF Kill, Gone, Quiet, Steps, Index, Names, First, Resumable
  <2>1. TypeOK'
    BY <1>12, <2>0, <1>p, <1>n DEF Kill, Gone, Quiet, IndexOf, Statuses, Kept, PwSteps
  <2>2. /\ NoOldData' /\ RecoverIsOfTheSave' /\ NotBeyond' /\ HeadIsOfPhonons'
          /\ Unpunched' /\ PassingIsMade' /\ ReachedIsMade' /\ MatricesOfTheSave'
          /\ StopFileIsOwn'
    BY <1>12, <2>0, <1>p
       DEF Kill, Gone, Quiet, FromFirst, StatusIsZero, Kept, PwSteps, OneTaskSteps,
       PhononSteps, IsMade
  <2> QED
    BY <2>0, <2>1, <2>2
<1>13. ASSUME PwRewrites PROVE IInv'
  <2>0. /\ Steps' = Steps /\ Index' = Index /\ Names' = Names
        /\ First' = First /\ Resumable' = Resumable
    BY <1>13 DEF PwRewrites, RunningPw, Made, Old, Steps, Index, Names, First, Resumable
  <2>1. TypeOK'
    BY <1>13, <2>0, <1>p, <1>n
       DEF PwRewrites, RunningPw, Made, Old, IndexOf, Statuses, Kept, PwSteps
  <2>2. /\ NoOldData' /\ RecoverIsOfTheSave' /\ NotBeyond' /\ HeadIsOfPhonons'
          /\ Unpunched' /\ PassingIsMade' /\ ReachedIsMade' /\ MatricesOfTheSave'
          /\ StopFileIsOwn'
    BY <1>13, <2>0, <1>p
       DEF PwRewrites, RunningPw, Made, Old, FromFirst, StatusIsZero, Kept, PwSteps,
       OneTaskSteps, PhononSteps, IsMade
  <2> QED
    BY <2>0, <2>1, <2>2
<1>14. ASSUME PwFinishes PROVE IInv'
  <2>0. /\ Steps' = Steps /\ Index' = Index /\ Names' = Names
        /\ First' = First /\ Resumable' = Resumable
    BY <1>14
       DEF PwFinishes, Exit, End, Gone, Quiet, RunningPw, Made, Old, Punch, Steps, Index,
       Names, First, Resumable
  <2>1. ran' \in [code : {0, 1}, said : BOOLEAN]
    <3>1. ran' \in {Quiet, [code |-> 0, said |-> TRUE]}
      BY <1>14, <2>0 DEF PwFinishes, Exit, End, Gone, RunningPw, Made, Old, Punch
    <3> QED
      BY <3>1, <1>r
  <2>2. /\ task' \in Tasks /\ profile' \in [slurm : BOOLEAN, srun : BOOLEAN]
          /\ pc' \in {"render", "refused", "idle", "switch", "clean", "timer"} \cup OnTime
          /\ from' \in Names \cup {"unset", "unknown"} /\ at' \in Index
          /\ timer' \in {"off", "armed", "fired", "dying"} /\ stopFile' \in BOOLEAN
          /\ schema' \in [changed : BOOLEAN, status : Statuses]
          /\ product' \in [Kept -> FileStates]
          /\ recover' \in {"none", "part", "old"} /\ done' \subseteq Q
          /\ list' \in {"none", "bad", "whole"}
          /\ dyn' \in [Q -> FileStates]
          /\ reached' \in Nat /\ reached' <= Len(Steps) /\ skipped' \in BOOLEAN
    BY <1>14, <2>0, <1>p, <1>n
       DEF PwFinishes, Exit, End, Gone, Quiet, RunningPw, Made, Old, Punch, IndexOf,
       Statuses, Kept, PwSteps
  <2>3. /\ NoOldData' /\ RecoverIsOfTheSave' /\ NotBeyond' /\ HeadIsOfPhonons'
          /\ Unpunched' /\ PassingIsMade' /\ ReachedIsMade' /\ MatricesOfTheSave'
          /\ StopFileIsOwn'
    BY <1>14, <2>0, <1>p
       DEF PwFinishes, Exit, End, Gone, Quiet, RunningPw, Made, Old, Punch, FromFirst,
       StatusIsZero, Kept, PwSteps, OneTaskSteps, PhononSteps, IsMade
  <2> QED
    BY <2>0, <2>1, <2>2, <2>3
<1>15. ASSUME PwFails PROVE IInv'
  <2>0. /\ Steps' = Steps /\ Index' = Index /\ Names' = Names
        /\ First' = First /\ Resumable' = Resumable
    BY <1>15
       DEF PwFails, Exit, End, Gone, Quiet, RunningPw, Made, Old, Punch, Steps, Index,
       Names, First, Resumable
  <2>1. ran' \in [code : {0, 1}, said : BOOLEAN]
    <3>1. ran' \in {Quiet, [code |-> 0, said |-> TRUE]}
      BY <1>15, <2>0 DEF PwFails, Exit, End, Gone, RunningPw, Made, Old, Punch
    <3> QED
      BY <3>1, <1>r
  <2>2. /\ task' \in Tasks /\ profile' \in [slurm : BOOLEAN, srun : BOOLEAN]
          /\ pc' \in {"render", "refused", "idle", "switch", "clean", "timer"} \cup OnTime
          /\ from' \in Names \cup {"unset", "unknown"} /\ at' \in Index
          /\ timer' \in {"off", "armed", "fired", "dying"} /\ stopFile' \in BOOLEAN
          /\ schema' \in [changed : BOOLEAN, status : Statuses]
          /\ product' \in [Kept -> FileStates]
          /\ recover' \in {"none", "part", "old"} /\ done' \subseteq Q
          /\ list' \in {"none", "bad", "whole"}
          /\ dyn' \in [Q -> FileStates]
          /\ reached' \in Nat /\ reached' <= Len(Steps) /\ skipped' \in BOOLEAN
    BY <1>15, <2>0, <1>p, <1>n
       DEF PwFails, Exit, End, Gone, Quiet, RunningPw, Made, Old, Punch, IndexOf,
       Statuses, Kept, PwSteps
  <2>3. /\ NoOldData' /\ RecoverIsOfTheSave' /\ NotBeyond' /\ HeadIsOfPhonons'
          /\ Unpunched' /\ PassingIsMade' /\ ReachedIsMade' /\ MatricesOfTheSave'
          /\ StopFileIsOwn'
    BY <1>15, <2>0, <1>p
       DEF PwFails, Exit, End, Gone, Quiet, RunningPw, Made, Old, Punch, FromFirst,
       StatusIsZero, Kept, PwSteps, OneTaskSteps, PhononSteps, IsMade
  <2> QED
    BY <2>0, <2>1, <2>2, <2>3
<1>16. ASSUME PwStops PROVE IInv'
  <2>0. /\ Steps' = Steps /\ Index' = Index /\ Names' = Names
        /\ First' = First /\ Resumable' = Resumable
    BY <1>16
       DEF PwStops, Exit, End, Gone, Quiet, RunningPw, Made, Old, Punch, Steps, Index,
       Names, First, Resumable
  <2>1. /\ task' \in Tasks /\ profile' \in [slurm : BOOLEAN, srun : BOOLEAN]
          /\ pc' \in {"render", "refused", "idle", "switch", "clean", "timer"} \cup OnTime
    BY <1>16, <2>0, <1>p DEF PwStops, Exit, End, Gone, Quiet, RunningPw, Made, Old, Punch
  <2>2. /\ from' \in Names \cup {"unset", "unknown"} /\ at' \in Index
    BY <1>16, <2>0, <1>p, <1>n
       DEF PwStops, Exit, End, Gone, Quiet, RunningPw, Made, Old, Punch, IndexOf
  <2>3. ran' \in [code : {0, 1}, said : BOOLEAN]
    <3>1. ran' \in {Quiet, [code |-> 0, said |-> TRUE]}
      BY <1>16, <2>0 DEF PwStops, Exit, End, Gone, RunningPw, Made, Old, Punch
    <3> QED
      BY <3>1, <1>r
  <2>4. timer' \in {"off", "armed", "fired", "dying"} /\ stopFile' \in BOOLEAN
    BY <1>16, <2>0, <1>p DEF PwStops, Exit, End, Gone, Quiet, RunningPw, Made, Old, Punch
  <2>5. schema' \in [changed : BOOLEAN, status : Statuses]
    BY <1>16, <2>0, <1>p
       DEF PwStops, Exit, End, Gone, Quiet, RunningPw, Made, Old, Punch, Statuses
  <2>6. product' \in [Kept -> FileStates]
    BY <1>16, <2>0, <1>p
       DEF PwStops, Exit, End, Gone, Quiet, RunningPw, Made, Old, Punch, Kept, PwSteps
  <2>7. /\ recover' \in {"none", "part", "old"} /\ done' \subseteq Q
          /\ list' \in {"none", "bad", "whole"}
    BY <1>16, <2>0, <1>p DEF PwStops, Exit, End, Gone, Quiet, RunningPw, Made, Old, Punch
  <2>8. dyn' \in [Q -> FileStates]
    BY <1>16, <2>0, <1>p DEF PwStops, Exit, End, Gone, Quiet, RunningPw, Made, Old, Punch
  <2>9. reached' \in Nat /\ reached' <= Len(Steps) /\ skipped' \in BOOLEAN
    BY <1>16, <2>0, <1>p DEF PwStops, Exit, End, Gone, Quiet, RunningPw, Made, Old, Punch
  <2>10. /\ NoOldData' /\ RecoverIsOfTheSave' /\ NotBeyond' /\ HeadIsOfPhonons'
          /\ Unpunched' /\ PassingIsMade' /\ ReachedIsMade' /\ MatricesOfTheSave'
          /\ StopFileIsOwn'
    BY <1>16, <2>0, <1>p
       DEF PwStops, Exit, End, Gone, Quiet, RunningPw, Made, Old, Punch, FromFirst,
       StatusIsZero, Kept, PwSteps, OneTaskSteps, PhononSteps, IsMade
  <2> QED
    BY <2>0, <2>1, <2>2, <2>3, <2>4, <2>5, <2>6, <2>7, <2>8, <2>9, <2>10
<1>17. ASSUME PwIsSilent PROVE IInv'
  <2>0. /\ Steps' = Steps /\ Index' = Index /\ Names' = Names
        /\ First' = First /\ Resumable' = Resumable
    BY <1>17
       DEF PwIsSilent, Exit, End, Gone, Quiet, RunningPw, Made, Old, Punch, Steps, Index,
       Names, First, Resumable
  <2>1. ran' \in [code : {0, 1}, said : BOOLEAN]
    <3>1. ran' \in {Quiet, [code |-> 0, said |-> TRUE]}
      BY <1>17, <2>0 DEF PwIsSilent, Exit, End, Gone, RunningPw, Made, Old, Punch
    <3> QED
      BY <3>1, <1>r
  <2>2. schema' \in [changed : BOOLEAN, status : Statuses]
    <3>1. schema' = schema \/ schema' = [changed |-> TRUE, status |-> "none"]
      BY <1>17 DEF PwIsSilent, Punch
    <3> QED
      BY <3>1, <1>s
  <2>3. /\ task' \in Tasks /\ profile' \in [slurm : BOOLEAN, srun : BOOLEAN]
          /\ pc' \in {"render", "refused", "idle", "switch", "clean", "timer"} \cup OnTime
          /\ from' \in Names \cup {"unset", "unknown"} /\ at' \in Index
          /\ timer' \in {"off", "armed", "fired", "dying"} /\ stopFile' \in BOOLEAN
          /\ product' \in [Kept -> FileStates]
          /\ recover' \in {"none", "part", "old"} /\ done' \subseteq Q
          /\ list' \in {"none", "bad", "whole"}
          /\ dyn' \in [Q -> FileStates]
          /\ reached' \in Nat /\ reached' <= Len(Steps) /\ skipped' \in BOOLEAN
    BY <1>17, <2>0, <1>p, <1>n
       DEF PwIsSilent, Exit, End, Gone, Quiet, RunningPw, Made, Old, Punch, IndexOf,
       Kept, PwSteps
  <2>4. /\ NoOldData' /\ RecoverIsOfTheSave' /\ NotBeyond' /\ HeadIsOfPhonons'
          /\ Unpunched' /\ PassingIsMade' /\ ReachedIsMade' /\ MatricesOfTheSave'
          /\ StopFileIsOwn'
    BY <1>17, <2>0, <1>p
       DEF PwIsSilent, Exit, End, Gone, Quiet, RunningPw, Made, Old, Punch, FromFirst,
       StatusIsZero, Kept, PwSteps, OneTaskSteps, PhononSteps, IsMade
  <2> QED
    BY <2>0, <2>1, <2>2, <2>3, <2>4
<1>18. ASSUME PwAborts PROVE IInv'
  <2>0. /\ Steps' = Steps /\ Index' = Index /\ Names' = Names
        /\ First' = First /\ Resumable' = Resumable
    BY <1>18
       DEF PwAborts, Exit, End, Gone, Quiet, RunningPw, Steps, Index, Names, First,
       Resumable
  <2>1. ran' \in [code : {0, 1}, said : BOOLEAN]
    <3>1. ran' \in {Quiet, [code |-> 1, said |-> FALSE]}
      BY <1>18, <2>0 DEF PwAborts, Exit, End, Gone, RunningPw
    <3> QED
      BY <3>1, <1>r
  <2>2. /\ task' \in Tasks /\ profile' \in [slurm : BOOLEAN, srun : BOOLEAN]
          /\ pc' \in {"render", "refused", "idle", "switch", "clean", "timer"} \cup OnTime
          /\ from' \in Names \cup {"unset", "unknown"} /\ at' \in Index
          /\ timer' \in {"off", "armed", "fired", "dying"} /\ stopFile' \in BOOLEAN
          /\ schema' \in [changed : BOOLEAN, status : Statuses]
          /\ product' \in [Kept -> FileStates]
          /\ recover' \in {"none", "part", "old"} /\ done' \subseteq Q
          /\ list' \in {"none", "bad", "whole"}
          /\ dyn' \in [Q -> FileStates]
          /\ reached' \in Nat /\ reached' <= Len(Steps) /\ skipped' \in BOOLEAN
    BY <1>18, <2>0, <1>p, <1>n
       DEF PwAborts, Exit, End, Gone, Quiet, RunningPw, IndexOf, Statuses, Kept, PwSteps
  <2>3. /\ NoOldData' /\ RecoverIsOfTheSave' /\ NotBeyond' /\ HeadIsOfPhonons'
          /\ Unpunched' /\ PassingIsMade' /\ ReachedIsMade' /\ MatricesOfTheSave'
          /\ StopFileIsOwn'
    BY <1>18, <2>0, <1>p
       DEF PwAborts, Exit, End, Gone, Quiet, RunningPw, FromFirst, StatusIsZero, Kept,
       PwSteps, OneTaskSteps, PhononSteps, IsMade
  <2> QED
    BY <2>0, <2>1, <2>2, <2>3
<1>19. ASSUME PhStarts PROVE IInv'
  <2>0. /\ Steps' = Steps /\ Index' = Index /\ Names' = Names
        /\ First' = First /\ Resumable' = Resumable
    BY <1>19 DEF PhStarts, RunningPh, Steps, Index, Names, First, Resumable
  <2>1. TypeOK'
    BY <1>19, <2>0, <1>p, <1>n DEF PhStarts, RunningPh, IndexOf, Statuses, Kept, PwSteps
  <2>2. NoOldData'
    <3>1. at # 1 /\ Resumable
      BY <1>19, <1>p, <1>n DEF PhStarts, RunningPh, Resumable
    <3> QED
      BY <1>19, <2>0, <3>1 DEF PhStarts
  <2>3. /\ RecoverIsOfTheSave' /\ NotBeyond' /\ HeadIsOfPhonons' /\ Unpunched'
          /\ PassingIsMade' /\ ReachedIsMade' /\ MatricesOfTheSave' /\ StopFileIsOwn'
    BY <1>19, <2>0, <1>p
       DEF PhStarts, RunningPh, FromFirst, StatusIsZero, Kept, PwSteps, OneTaskSteps,
       PhononSteps, IsMade
  <2> QED
    BY <2>0, <2>1, <2>2, <2>3
<1>20. ASSUME NEW q \in Q, PhOpens(q) PROVE IInv'
  <2>0. /\ Steps' = Steps /\ Index' = Index /\ Names' = Names
        /\ First' = First /\ Resumable' = Resumable
    BY <1>20 DEF PhOpens, Started, RunningPh, Next_q, Steps, Index, Names, First, Resumable
  <2>1. TypeOK'
    BY <1>20, <2>0, <1>p, <1>n
       DEF PhOpens, Started, RunningPh, Next_q, IndexOf, Statuses, Kept, PwSteps
  <2>2. /\ NoOldData' /\ RecoverIsOfTheSave' /\ NotBeyond' /\ HeadIsOfPhonons'
          /\ Unpunched' /\ PassingIsMade' /\ ReachedIsMade' /\ MatricesOfTheSave'
          /\ StopFileIsOwn'
    BY <1>20, <2>0, <1>p
       DEF PhOpens, Started, RunningPh, Next_q, FromFirst, StatusIsZero, Kept, PwSteps,
       OneTaskSteps, PhononSteps, IsMade
  <2> QED
    BY <2>0, <2>1, <2>2
<1>21. ASSUME NEW q \in Q, PhCompletes(q) PROVE IInv'
  <2>0. /\ Steps' = Steps /\ Index' = Index /\ Names' = Names
        /\ First' = First /\ Resumable' = Resumable
    BY <1>21
       DEF PhCompletes, Started, RunningPh, Next_q, ReadsOld, Steps, Index, Names, First,
       Resumable
  <2>1. TypeOK'
    BY <1>21, <2>0, <1>p, <1>n
       DEF PhCompletes, Started, RunningPh, Next_q, ReadsOld, IndexOf, Statuses, Kept,
       PwSteps
  <2>2. MatricesOfTheSave'
    <3>1. ReadsOld("ph") => skipped /\ "d3hess" \in Names
      <4>1. Step = "ph" /\ pc = "run" /\ at \in Index
        BY <1>21 DEF PhCompletes, Started, RunningPh
      <4>2. ASSUME "d3hess" \in Names, ~ skipped PROVE product["d3hess"] = "whole"
        <5>1. at - 1 \in 1 .. reached /\ Steps[at - 1] = "d3hess"
          BY <1>p, <4>1, <4>2
        <5> QED
          BY <4>2, <5>1 DEF IsMade, Kept
      <4> QED
        BY <4>2 DEF ReadsOld
    <3> QED
      BY <1>21, <2>0, <3>1 DEF PhCompletes
  <2>3. /\ NoOldData' /\ RecoverIsOfTheSave' /\ NotBeyond' /\ HeadIsOfPhonons'
          /\ Unpunched' /\ PassingIsMade' /\ ReachedIsMade' /\ StopFileIsOwn'
    BY <1>21, <2>0, <1>p
       DEF PhCompletes, Started, RunningPh, Next_q, ReadsOld, FromFirst, StatusIsZero,
       Kept, PwSteps, OneTaskSteps, PhononSteps, IsMade
  <2> QED
    BY <2>0, <2>1, <2>2, <2>3
<1>22. ASSUME PhFinishes PROVE IInv'
  <2>0. /\ Steps' = Steps /\ Index' = Index /\ Names' = Names
        /\ First' = First /\ Resumable' = Resumable
    BY <1>22
       DEF PhFinishes, Exit, End, Gone, Quiet, Started, RunningPh, Steps, Index, Names,
       First, Resumable
  <2>1. ran' \in [code : {0, 1}, said : BOOLEAN]
    <3>1. ran' \in {Quiet, [code |-> 0, said |-> TRUE]}
      BY <1>22, <2>0 DEF PhFinishes, Exit, End, Gone, Started, RunningPh
    <3> QED
      BY <3>1, <1>r
  <2>2. /\ task' \in Tasks /\ profile' \in [slurm : BOOLEAN, srun : BOOLEAN]
          /\ pc' \in {"render", "refused", "idle", "switch", "clean", "timer"} \cup OnTime
          /\ from' \in Names \cup {"unset", "unknown"} /\ at' \in Index
          /\ timer' \in {"off", "armed", "fired", "dying"} /\ stopFile' \in BOOLEAN
          /\ schema' \in [changed : BOOLEAN, status : Statuses]
          /\ product' \in [Kept -> FileStates]
          /\ recover' \in {"none", "part", "old"} /\ done' \subseteq Q
          /\ list' \in {"none", "bad", "whole"}
          /\ dyn' \in [Q -> FileStates]
          /\ reached' \in Nat /\ reached' <= Len(Steps) /\ skipped' \in BOOLEAN
    BY <1>22, <2>0, <1>p, <1>n
       DEF PhFinishes, Exit, End, Gone, Quiet, Started, RunningPh, IndexOf, Statuses,
       Kept, PwSteps
  <2>3. /\ NoOldData' /\ RecoverIsOfTheSave' /\ NotBeyond' /\ HeadIsOfPhonons'
          /\ Unpunched' /\ PassingIsMade' /\ ReachedIsMade' /\ MatricesOfTheSave'
          /\ StopFileIsOwn'
    BY <1>22, <2>0, <1>p
       DEF PhFinishes, Exit, End, Gone, Quiet, Started, RunningPh, FromFirst,
       StatusIsZero, Kept, PwSteps, OneTaskSteps, PhononSteps, IsMade
  <2> QED
    BY <2>0, <2>1, <2>2, <2>3
<1>23. ASSUME PhStops PROVE IInv'
  <2>0. /\ Steps' = Steps /\ Index' = Index /\ Names' = Names
        /\ First' = First /\ Resumable' = Resumable
    BY <1>23, SMTT(60)
       DEF PhStops, Exit, End, Gone, Quiet, RunningPh, Steps, Index, Names, First, Resumable
  <2>1. /\ task' \in Tasks /\ profile' \in [slurm : BOOLEAN, srun : BOOLEAN]
          /\ pc' \in {"render", "refused", "idle", "switch", "clean", "timer"} \cup OnTime
    BY <1>23, <2>0, <1>p, SMTT(60) DEF PhStops, Exit, End, Gone, Quiet, RunningPh
  <2>2. /\ from' \in Names \cup {"unset", "unknown"} /\ at' \in Index
    BY <1>23, <2>0, <1>p, <1>n, SMTT(60)
       DEF PhStops, Exit, End, Gone, Quiet, RunningPh, IndexOf
  <2>3. ran' \in [code : {0, 1}, said : BOOLEAN]
    <3>1. ran' \in {Quiet, [code |-> 0, said |-> TRUE], [code |-> 1, said |-> TRUE]}
      BY <1>23, <2>0 DEF PhStops, Exit, End, Gone, RunningPh
    <3> QED
      BY <3>1, <1>r
  <2>4. timer' \in {"off", "armed", "fired", "dying"} /\ stopFile' \in BOOLEAN
    <3>1. stopFile' = FALSE /\ timer' \in {timer, "dying", "off"}
      BY <1>23 DEF PhStops, Exit, End
    <3> QED
      BY <3>1
  <2>5. schema' \in [changed : BOOLEAN, status : Statuses]
    BY <1>23, <2>0, <1>p, SMTT(60) DEF PhStops, Exit, End, Gone, Quiet, RunningPh, Statuses
  <2>6. product' \in [Kept -> FileStates]
    BY <1>23, <2>0, <1>p, SMTT(60)
       DEF PhStops, Exit, End, Gone, Quiet, RunningPh, Kept, PwSteps
  <2>7. /\ recover' \in {"none", "part", "old"} /\ done' \subseteq Q
          /\ list' \in {"none", "bad", "whole"}
    BY <1>23, <2>0, <1>p, SMTT(60) DEF PhStops, Exit, End, Gone, Quiet, RunningPh
  <2>8. dyn' \in [Q -> FileStates]
    BY <1>23, <2>0, <1>p, SMTT(60) DEF PhStops, Exit, End, Gone, Quiet, RunningPh
  <2>9. reached' \in Nat /\ reached' <= Len(Steps) /\ skipped' \in BOOLEAN
    BY <1>23, <2>0, <1>p, SMTT(60) DEF PhStops, Exit, End, Gone, Quiet, RunningPh
  <2>10. /\ NoOldData' /\ RecoverIsOfTheSave' /\ NotBeyond' /\ HeadIsOfPhonons'
          /\ Unpunched' /\ PassingIsMade' /\ ReachedIsMade' /\ MatricesOfTheSave'
          /\ StopFileIsOwn'
    BY <1>23, <2>0, <1>p, SMTT(60)
       DEF PhStops, Exit, End, Gone, Quiet, RunningPh, FromFirst, StatusIsZero, Kept,
       PwSteps, OneTaskSteps, PhononSteps, IsMade
  <2> QED
    BY <2>0, <2>1, <2>2, <2>3, <2>4, <2>5, <2>6, <2>7, <2>8, <2>9, <2>10
<1>24. ASSUME PhFails PROVE IInv'
  <2>0. /\ Steps' = Steps /\ Index' = Index /\ Names' = Names
        /\ First' = First /\ Resumable' = Resumable
    BY <1>24
       DEF PhFails, Exit, End, Gone, Quiet, RunningPh, Steps, Index, Names, First, Resumable
  <2>1. TypeOK'
    BY <1>24, <2>0, <1>p, <1>n
       DEF PhFails, Exit, End, Gone, Quiet, RunningPh, IndexOf, Statuses, Kept, PwSteps
  <2>2. /\ NoOldData' /\ RecoverIsOfTheSave' /\ NotBeyond' /\ HeadIsOfPhonons'
          /\ Unpunched' /\ PassingIsMade' /\ ReachedIsMade' /\ MatricesOfTheSave'
          /\ StopFileIsOwn'
    BY <1>24, <2>0, <1>p
       DEF PhFails, Exit, End, Gone, Quiet, RunningPh, FromFirst, StatusIsZero, Kept,
       PwSteps, OneTaskSteps, PhononSteps, IsMade
  <2> QED
    BY <2>0, <2>1, <2>2
<1>25. ASSUME PhListsBadly PROVE IInv'
  <2>0. /\ Steps' = Steps /\ Index' = Index /\ Names' = Names
        /\ First' = First /\ Resumable' = Resumable
    BY <1>25
       DEF PhListsBadly, Exit, End, Gone, Quiet, RunningPh, Steps, Index, Names, First,
       Resumable
  <2>1. ran' \in [code : {0, 1}, said : BOOLEAN]
    <3>1. ran' \in {Quiet, [code |-> 0, said |-> TRUE]}
      BY <1>25, <2>0 DEF PhListsBadly, Exit, End, Gone, RunningPh
    <3> QED
      BY <3>1, <1>r
  <2>2. /\ task' \in Tasks /\ profile' \in [slurm : BOOLEAN, srun : BOOLEAN]
          /\ pc' \in {"render", "refused", "idle", "switch", "clean", "timer"} \cup OnTime
          /\ from' \in Names \cup {"unset", "unknown"} /\ at' \in Index
          /\ timer' \in {"off", "armed", "fired", "dying"} /\ stopFile' \in BOOLEAN
          /\ schema' \in [changed : BOOLEAN, status : Statuses]
          /\ product' \in [Kept -> FileStates]
          /\ recover' \in {"none", "part", "old"} /\ done' \subseteq Q
          /\ list' \in {"none", "bad", "whole"}
          /\ dyn' \in [Q -> FileStates]
          /\ reached' \in Nat /\ reached' <= Len(Steps) /\ skipped' \in BOOLEAN
    BY <1>25, <2>0, <1>p, <1>n
       DEF PhListsBadly, Exit, End, Gone, Quiet, RunningPh, IndexOf, Statuses, Kept, PwSteps
  <2>3. /\ NoOldData' /\ RecoverIsOfTheSave' /\ NotBeyond' /\ HeadIsOfPhonons'
          /\ Unpunched' /\ PassingIsMade' /\ ReachedIsMade' /\ MatricesOfTheSave'
          /\ StopFileIsOwn'
    BY <1>25, <2>0, <1>p
       DEF PhListsBadly, Exit, End, Gone, Quiet, RunningPh, FromFirst, StatusIsZero,
       Kept, PwSteps, OneTaskSteps, PhononSteps, IsMade
  <2> QED
    BY <2>0, <2>1, <2>2, <2>3
<1>26. ASSUME OneTaskFinishes PROVE IInv'
  <2>0. /\ Steps' = Steps /\ Index' = Index /\ Names' = Names
        /\ First' = First /\ Resumable' = Resumable
    BY <1>26
       DEF OneTaskFinishes, Exit, End, Gone, Quiet, RunningOneTask, Leaves, ReadsOld,
       Steps, Index, Names, First, Resumable
  <2>1. ran' \in [code : {0, 1}, said : BOOLEAN]
    <3>1. ran' \in {Quiet, [code |-> 0, said |-> TRUE]}
      BY <1>26, <2>0 DEF OneTaskFinishes, Exit, End, Gone, RunningOneTask, Leaves, ReadsOld
    <3> QED
      BY <3>1, <1>r
  <2>2. /\ task' \in Tasks /\ profile' \in [slurm : BOOLEAN, srun : BOOLEAN]
          /\ pc' \in {"render", "refused", "idle", "switch", "clean", "timer"} \cup OnTime
          /\ from' \in Names \cup {"unset", "unknown"} /\ at' \in Index
          /\ timer' \in {"off", "armed", "fired", "dying"} /\ stopFile' \in BOOLEAN
          /\ schema' \in [changed : BOOLEAN, status : Statuses]
          /\ product' \in [Kept -> FileStates]
          /\ recover' \in {"none", "part", "old"} /\ done' \subseteq Q
          /\ list' \in {"none", "bad", "whole"}
          /\ dyn' \in [Q -> FileStates]
          /\ reached' \in Nat /\ reached' <= Len(Steps) /\ skipped' \in BOOLEAN
    BY <1>26, <2>0, <1>p, <1>n
       DEF OneTaskFinishes, Exit, End, Gone, Quiet, RunningOneTask, Leaves, ReadsOld,
       IndexOf, Statuses, Kept, PwSteps
  <2>3. /\ NoOldData' /\ RecoverIsOfTheSave' /\ NotBeyond' /\ HeadIsOfPhonons'
          /\ Unpunched' /\ PassingIsMade' /\ ReachedIsMade' /\ MatricesOfTheSave'
          /\ StopFileIsOwn'
    BY <1>26, <2>0, <1>p
       DEF OneTaskFinishes, Exit, End, Gone, Quiet, RunningOneTask, Leaves, ReadsOld,
       FromFirst, StatusIsZero, Kept, PwSteps, OneTaskSteps, PhononSteps, IsMade
  <2> QED
    BY <2>0, <2>1, <2>2, <2>3
<1>27. ASSUME OneTaskIsSilent PROVE IInv'
  <2>0. /\ Steps' = Steps /\ Index' = Index /\ Names' = Names
        /\ First' = First /\ Resumable' = Resumable
    BY <1>27
       DEF OneTaskIsSilent, Exit, End, Gone, Quiet, RunningOneTask, Leaves, Steps, Index,
       Names, First, Resumable
  <2>1. ran' \in [code : {0, 1}, said : BOOLEAN]
    <3>1. ran' \in {Quiet, [code |-> 0, said |-> FALSE]}
      BY <1>27, <2>0 DEF OneTaskIsSilent, Exit, End, Gone, RunningOneTask, Leaves
    <3> QED
      BY <3>1, <1>r
  <2>2. /\ task' \in Tasks /\ profile' \in [slurm : BOOLEAN, srun : BOOLEAN]
          /\ pc' \in {"render", "refused", "idle", "switch", "clean", "timer"} \cup OnTime
          /\ from' \in Names \cup {"unset", "unknown"} /\ at' \in Index
          /\ timer' \in {"off", "armed", "fired", "dying"} /\ stopFile' \in BOOLEAN
          /\ schema' \in [changed : BOOLEAN, status : Statuses]
          /\ product' \in [Kept -> FileStates]
          /\ recover' \in {"none", "part", "old"} /\ done' \subseteq Q
          /\ list' \in {"none", "bad", "whole"}
          /\ dyn' \in [Q -> FileStates]
          /\ reached' \in Nat /\ reached' <= Len(Steps) /\ skipped' \in BOOLEAN
    BY <1>27, <2>0, <1>p, <1>n
       DEF OneTaskIsSilent, Exit, End, Gone, Quiet, RunningOneTask, Leaves, IndexOf,
       Statuses, Kept, PwSteps
  <2>3. /\ NoOldData' /\ RecoverIsOfTheSave' /\ NotBeyond' /\ HeadIsOfPhonons'
          /\ Unpunched' /\ PassingIsMade' /\ ReachedIsMade' /\ MatricesOfTheSave'
          /\ StopFileIsOwn'
    BY <1>27, <2>0, <1>p
       DEF OneTaskIsSilent, Exit, End, Gone, Quiet, RunningOneTask, Leaves, FromFirst,
       StatusIsZero, Kept, PwSteps, OneTaskSteps, PhononSteps, IsMade
  <2> QED
    BY <2>0, <2>1, <2>2, <2>3
<1>28. ASSUME OneTaskRewrites PROVE IInv'
  <2>0. /\ Steps' = Steps /\ Index' = Index /\ Names' = Names
        /\ First' = First /\ Resumable' = Resumable
    BY <1>28
       DEF OneTaskRewrites, RunningOneTask, Leaves, Steps, Index, Names, First, Resumable
  <2>1. TypeOK'
    BY <1>28, <2>0, <1>p, <1>n
       DEF OneTaskRewrites, RunningOneTask, Leaves, IndexOf, Statuses, Kept, PwSteps
  <2>2. /\ NoOldData' /\ RecoverIsOfTheSave' /\ NotBeyond' /\ HeadIsOfPhonons'
          /\ Unpunched' /\ PassingIsMade' /\ ReachedIsMade' /\ MatricesOfTheSave'
          /\ StopFileIsOwn'
    BY <1>28, <2>0, <1>p
       DEF OneTaskRewrites, RunningOneTask, Leaves, FromFirst, StatusIsZero, Kept,
       PwSteps, OneTaskSteps, PhononSteps, IsMade
  <2> QED
    BY <2>0, <2>1, <2>2
<1>29. ASSUME OneTaskAborts PROVE IInv'
  <2>0. /\ Steps' = Steps /\ Index' = Index /\ Names' = Names
        /\ First' = First /\ Resumable' = Resumable
    BY <1>29
       DEF OneTaskAborts, Exit, End, Gone, Quiet, RunningOneTask, Steps, Index, Names,
       First, Resumable
  <2>1. ran' \in [code : {0, 1}, said : BOOLEAN]
    <3>1. ran' \in {Quiet, [code |-> 1, said |-> FALSE]}
      BY <1>29, <2>0 DEF OneTaskAborts, Exit, End, Gone, RunningOneTask
    <3> QED
      BY <3>1, <1>r
  <2>2. /\ task' \in Tasks /\ profile' \in [slurm : BOOLEAN, srun : BOOLEAN]
          /\ pc' \in {"render", "refused", "idle", "switch", "clean", "timer"} \cup OnTime
          /\ from' \in Names \cup {"unset", "unknown"} /\ at' \in Index
          /\ timer' \in {"off", "armed", "fired", "dying"} /\ stopFile' \in BOOLEAN
          /\ schema' \in [changed : BOOLEAN, status : Statuses]
          /\ product' \in [Kept -> FileStates]
          /\ recover' \in {"none", "part", "old"} /\ done' \subseteq Q
          /\ list' \in {"none", "bad", "whole"}
          /\ dyn' \in [Q -> FileStates]
          /\ reached' \in Nat /\ reached' <= Len(Steps) /\ skipped' \in BOOLEAN
    BY <1>29, <2>0, <1>p, <1>n
       DEF OneTaskAborts, Exit, End, Gone, Quiet, RunningOneTask, IndexOf, Statuses,
       Kept, PwSteps
  <2>3. /\ NoOldData' /\ RecoverIsOfTheSave' /\ NotBeyond' /\ HeadIsOfPhonons'
          /\ Unpunched' /\ PassingIsMade' /\ ReachedIsMade' /\ MatricesOfTheSave'
          /\ StopFileIsOwn'
    BY <1>29, <2>0, <1>p
       DEF OneTaskAborts, Exit, End, Gone, Quiet, RunningOneTask, FromFirst,
       StatusIsZero, Kept, PwSteps, OneTaskSteps, PhononSteps, IsMade
  <2> QED
    BY <2>0, <2>1, <2>2, <2>3
<1>30. CASE UNCHANGED vars
  <2>0. /\ Steps' = Steps /\ Index' = Index /\ Names' = Names
        /\ First' = First /\ Resumable' = Resumable
    BY <1>30 DEF vars, Steps, Index, Names, First, Resumable
  <2> QED
    BY <1>30, <2>0 DEF vars, IsMade, StatusIsZero, FromFirst
<1> QED
  BY <1>1, <1>2, <1>3, <1>4, <1>5, <1>6, <1>7, <1>8, <1>9, <1>10, <1>11, <1>12, <1>13,
     <1>14, <1>15, <1>16, <1>17, <1>18, <1>19, <1>20, <1>21, <1>22, <1>23, <1>24,
     <1>25, <1>26, <1>27, <1>28, <1>29, <1>30
     DEF Next, User, Script, Pw, Ph, OneTask

LEMMA Invariance == Spec => []IInv
<1>1. Init => IInv
  BY Initial
<1>2. IInv /\ [Next]_vars => IInv'
  BY Inductive
<1> QED
  BY <1>1, <1>2, PTL DEF Spec

-----------------------------------------------------------------------------
\* The job, the files and the history keep their types.
THEOREM TypeCorrect == Spec => []TypeOK
<1>1. IInv => TypeOK
  BY DEF IInv
<1> QED
  BY <1>1, Invariance, PTL

\* A passed check stands for the step's product, of the save that is there now,
\* for the jobs of a user who does not skip steps.
THEOREM ChecksAreSound == Spec => []ReachedIsMade
<1>1. IInv => ReachedIsMade
  BY DEF IInv
<1> QED
  BY <1>1, Invariance, PTL

\* Dynamical matrices do not outlive their save.
THEOREM MatricesAreOfTheSave == Spec => []MatricesOfTheSave
<1>1. IInv => MatricesOfTheSave
  BY DEF IInv
<1> QED
  BY <1>1, Invariance, PTL

\* No step meets an earlier job's stop file.
THEOREM StopFilesDoNotLast == Spec => []StopFileIsOwn
<1>1. IInv => StopFileIsOwn
  BY DEF IInv
<1> QED
  BY <1>1, Invariance, PTL

\* Only a run from the first step loses what ph.x has done.
LEMMA StepKeepsWork ==
  ASSUME IInv, [Next]_vars, NEW q \in done
  PROVE  (q \in done' /\ dyn'[q] = dyn[q]) \/ FromFirst
<1> USE DEF vars, script, job, matrices, files, log
<1>1. q \in Q /\ dyn \in [Q -> FileStates] /\ (at = 1 /\ pc = "run" => dyn[q] = "none")
  BY DEF IInv, TypeOK, NoOldData, OnTime
<1>2. Step = First => at = 1
  BY PlanFacts DEF IInv, TypeOK, Step, First, Index
<1>3. CASE Pw
  <2>1. pc = "run" /\ done' = done /\ \E s \in {"part", "whole"} : 
          Made(Step, s) \/ UNCHANGED dyn
    BY <1>3
       DEF Pw, PwRewrites, PwFinishes, PwFails, PwStops, PwIsSilent, PwAborts, RunningPw
  <2>2. dyn'[q] = dyn[q]
    BY <1>1, <1>2, <2>1 DEF Made, Old
  <2> QED
    BY <2>1, <2>2
<1>4. CASE Ph
  <2>1. CASE \E r \in Q : PhOpens(r) \/ PhCompletes(r)
    BY <1>1, <2>1 DEF PhOpens, PhCompletes, Next_q
  <2>2. CASE PhStarts \/ PhFinishes \/ PhStops \/ PhFails \/ PhListsBadly
    BY <2>2 DEF PhStarts, PhFinishes, PhStops, PhFails, PhListsBadly
  <2> QED
    BY <1>4, <2>1, <2>2 DEF Ph
<1>5. CASE OneTask
  BY <1>5 DEF OneTask, OneTaskFinishes, OneTaskIsSilent, OneTaskRewrites, OneTaskAborts
<1>6. CASE Script
  <2>1. CASE RemoveRestartData
    BY <2>1 DEF RemoveRestartData, IInv, HeadIsOfPhonons
  <2>2. CASE ~ RemoveRestartData
    BY <1>6, <2>2
       DEF Script, Render, ResumeSwitch, RestartDataRemoved, StartTimer, TimerFires,
       TimerDies, Launch, CheckPasses, CheckFails
  <2> QED
    BY <2>1, <2>2
<1>7. CASE User \/ Kill \/ UNCHANGED vars
  BY <1>7 DEF User, Submit, Kill
<1> QED
  BY <1>3, <1>4, <1>5, <1>6, <1>7 DEF Next

\* A resumed job, or one that is refused, keeps what ph.x has done.
THEOREM ResumedWorkIsKept == Spec => ResumingKeepsWork
<1>1. IInv /\ [Next]_vars =>
        [\A q \in done : (q \in done' /\ dyn'[q] = dyn[q]) \/ FromFirst]_vars
  BY StepKeepsWork
<1> QED
  BY <1>1, Invariance, PTL DEF Spec, ResumingKeepsWork
=============================================================================
