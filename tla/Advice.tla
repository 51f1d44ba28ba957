-------------------------------- MODULE Advice --------------------------------
(***************************************************************************)
(* A request for a task, from its settings to its files, and the user who  *)
(* follows what its report offers: src/src/goldilocks_core/service/.       *)
(*                                                                         *)
(* Every request is advised from nothing, in the order of the pipeline.    *)
(***************************************************************************)
EXTENDS Generation

CONSTANT Asked  \* the requests that begin: [site, task, request]

\* What a request is made of: a structure, a task, and settings within their
\* ranges.
ASSUME AskedAssumption ==
  \A ask \in Asked :
    /\ ValidStructure(ask.site) /\ ask.task \in Tasks
    /\ \A slot \in DOMAIN ask.request : ValidSetting(slot[2], ask.request[slot])

\* No value is none of the values it is told from.
ASSUME NoneAssumption ==
  /\ None \notin Int /\ None \notin CellDofrees /\ None \notin RelaxValues
  /\ None \notin {"plain", "local-TF", "ph", "martyna-tuckerman"}

VARIABLES
  site,        \* the uploaded structure
  task,        \* the task asked of it
  request,     \* the settings given
  pc,          \* how far the request has come
  human,       \* what they set for the whole task
  analysis,    \* what analyze reads off the structure
  system,      \* what system_advice settles for the task
  electronic,  \* what steps_advice settles for each pw.x step
  shared,      \* the job, the parallel layouts and the other steps' settings
  report,      \* the findings of the check
  files,       \* the steps that are written, none before and after a GenerationError
  applied,     \* the finding whose remedy was applied last
  answered     \* the requests whose reports the user has acted on

advised == <<human, analysis, system, electronic, shared>>
vars == <<site, task, request, pc, advised, report, files, applied, answered>>

Nothing == human = None /\ analysis = None /\ system = None /\ electronic = None /\ shared = None

Init ==
  /\ \E ask \in Asked : site = ask.site /\ task = ask.task /\ request = ask.request
  /\ pc = "asked" /\ Nothing /\ report = {} /\ files = <<>> /\ applied = None /\ answered = {}

-----------------------------------------------------------------------------
(* The pipeline.                                                           *)

\* build_overrides
Route ==
  /\ pc = "asked" /\ Accepted(request, task)
  /\ human' = [key \in TaskKeys |-> TaskValue(request, key)]
  /\ pc' = "routed"
  /\ UNCHANGED <<site, task, request, analysis, system, electronic, shared, report, files, applied, answered>>

\* It refuses a setting that lands nowhere.
Refuse ==
  /\ pc = "asked" /\ ~Accepted(request, task)
  /\ pc' = "refused"
  /\ UNCHANGED <<site, task, request, advised, report, files, applied, answered>>

AnalyzeStructure ==
  /\ pc = "routed"
  /\ analysis' = Analyze(site, LocalMoments(site), human)
  /\ pc' = "analysed"
  /\ UNCHANGED <<site, task, request, human, system, electronic, shared, report, files, applied, answered>>

\* system_advice: the functional and the U, the cell, its pseudopotentials and
\* what follows from them.
SettleMethod ==
  /\ pc = "analysed"
  /\ system' = MethodAdvice(site, analysis, Functional(human), human)
  /\ pc' = "method"
  /\ UNCHANGED <<site, task, request, human, analysis, electronic, shared, report, files, applied, answered>>

SettleCell ==
  /\ pc = "method"
  /\ system' = system ++ CellAdvice(site, MagneticCell(site, human, analysis.isMagnetic,
                                                      analysis.moments, system.hubbard))
  /\ pc' = "cell"
  /\ UNCHANGED <<site, task, request, human, analysis, electronic, shared, report, files, applied, answered>>

SettlePseudopotentials ==
  /\ pc = "cell"
  /\ system' = system ++ PseudoAdvice(site, system.cell, system.functional, human)
  /\ pc' = "pseudopotentials"
  /\ UNCHANGED <<site, task, request, human, analysis, electronic, shared, report, files, applied, answered>>

SettleSystem ==
  /\ pc = "pseudopotentials"
  /\ system' = system ++ RestAdvice(site, analysis, system, human)
  /\ pc' = "settled"
  /\ UNCHANGED <<site, task, request, human, analysis, electronic, shared, report, files, applied, answered>>

\* steps_advice, of the k-points of each step.
AdviseSteps ==
  /\ pc = "settled"
  /\ electronic' = [step \in ElectronicSteps(task) |->
                      ElectronicAdvice(analysis, system, request, task, step)]
  /\ pc' = "sampled"
  /\ UNCHANGED <<site, task, request, human, analysis, system, shared, report, files, applied, answered>>

\* The settings of a relaxation, None without one.
RelaxOf(step) ==
  IF step \notin RelaxSteps THEN None
  ELSE RelaxSettings(step, electronic[step].convergence, system.geometryEff, request)

\* steps_advice, of the resources, and the settings of the steps that follow.
ShareResources ==
  /\ pc = "sampled"
  /\ shared' = [ resources |-> TaskResources(site, system, electronic, request, human, task),
                 relax |-> [step \in DOMAIN electronic |-> RelaxOf(step)],
                 dos |-> IF task = "dos" THEN DosSettings(electronic["nscf"].occupations, request)
                         ELSE None,
                 phonon |-> IF task \in PhononTasks
                            THEN PhononAdvice(system, electronic[FirstStep(task)].occupations, request,
                                              FirstStep(task))
                            ELSE None ]
  /\ pc' = "advised"
  /\ UNCHANGED <<site, task, request, human, analysis, system, electronic, report, files, applied, answered>>

\* What the rules read of each step.
AdviceOf(step) ==
  [ structure |-> site, purpose |-> step, analysis |-> analysis, system |-> system,
    step |-> electronic[step], job |-> shared.resources.job,
    parallel |-> shared.resources.parallel[step], relax |-> shared.relax[step] ]

Check ==
  /\ pc = "advised"
  /\ report' = CheckTask(task, [step \in DOMAIN electronic |-> AdviceOf(step)], shared.dos, shared.phonon)
  /\ pc' = "checked"
  /\ UNCHANGED <<site, task, request, advised, files, applied, answered>>

\* generate_relax, generate_dos, generate_band, generate_phonon or generate,
\* behind a report that is ok.  A GenerationError of a step writes nothing.
Generate ==
  /\ pc = "checked" /\ report = {}
  /\ LET steps == GenerateTask(task, [step \in DOMAIN electronic |-> AdviceOf(step)],
                               shared.dos, shared.phonon)
     IN  files' = IF \E i \in DOMAIN steps : Refused(steps[i]) THEN <<>> ELSE steps
  /\ pc' = "generated"
  /\ UNCHANGED <<site, task, request, advised, report, applied, answered>>

-----------------------------------------------------------------------------
(* The user of a report, web/src/status/FindingNote.tsx.                   *)

\* Mutant of Patched: a cleared setting is left as it is.
PatchedKeeping(patch) ==
  LET given == {<<"flat", key>> : key \in {k \in DOMAIN patch : patch[k] # None}}
  IN  [slot \in DOMAIN request \cup given |->
         IF slot \in given THEN patch[slot[2]] ELSE request[slot]]

\* The request with a remedy: its settings are the task's, None clears one.
Patched(patch) ==
  LET given == {<<"flat", key>> : key \in {k \in DOMAIN patch : patch[k] # None}}
      cleared == {<<"flat", key>> : key \in {k \in DOMAIN patch : patch[k] = None}}
  IN  [slot \in (DOMAIN request \cup given) \ cleared |->
         IF slot \in given THEN patch[slot[2]] ELSE request[slot]]

ApplyRemedy ==
  /\ pc = "checked"
  /\ \E finding \in report : \E patch \in finding.remedies :
       /\ request' = Patched(patch)
       /\ applied' = [code |-> finding.code, keys |-> DOMAIN patch, alone |-> report = {finding}]
  /\ answered' = answered \cup {request}
  /\ pc' = "asked" /\ report' = {}
  /\ human' = None /\ analysis' = None /\ system' = None /\ electronic' = None /\ shared' = None
  /\ UNCHANGED <<site, task, files>>

\* Nothing is offered: the user changes the request by hand, or stops.
Stuck == pc = "checked" /\ report # {} /\ \A finding \in report : finding.remedies = {}

Ended == (pc \in {"generated", "refused"} \/ Stuck) /\ UNCHANGED vars

Pipeline ==
  \/ Route \/ Refuse \/ AnalyzeStructure
  \/ SettleMethod \/ SettleCell \/ SettlePseudopotentials \/ SettleSystem
  \/ AdviseSteps \/ ShareResources \/ Check \/ Generate

Next == Pipeline \/ ApplyRemedy \/ Ended

Spec == Init /\ [][Next]_vars

-----------------------------------------------------------------------------

Codes == {finding.code : finding \in report}

\* A setting of a step's own is not the task's to change.
OwnSettings(keys) == {slot \in DOMAIN request : slot[1] # "flat" /\ slot[2] \in keys}

\* A remedy resolves the finding it is offered for, whatever else is found; and
\* if that was all, the request runs or has remedies for what it finds now.
RemedyHelps ==
  pc = "checked" /\ applied # None /\ OwnSettings(applied.keys) = {} =>
    /\ applied.code \notin Codes
    /\ applied.alone => ~Stuck

\* Remedies lead nobody in a circle: a request whose report was acted on does
\* not come back, whatever remedies are taken up, so that their user comes to
\* files or to findings that offer none.
RemediesEnd ==
  pc = "checked" /\ (\A slot \in DOMAIN request : slot[1] = "flat") => request \notin answered

\* What generate reads without asking whether it is there.
Read(step) ==
  << system.functional, system.cutoffs, system.electronCount, system.metadata, system.magnetic,
     system.vdw, system.hubbard, system.boundary, electronic[step].occupations,
     electronic[step].sampling, electronic[step].nbnd, electronic[step].convergence,
     shared.resources.job, shared.resources.parallel[step] >>
    \o (IF step \in RelaxSteps THEN <<shared.relax[step]>> ELSE <<>>)

AllOk(states) == \A f \in DOMAIN states : states[f].ok

\* The electrons of the fuller spin fit the bands of a step, to pw.x's rounding;
\* a band of a noncollinear step holds one electron.
ElectronsFit(step) ==
  LET nelec == system.electronCount.value
      tot == electronic[step].occupations.value.tot
      nbnd == electronic[step].nbnd.value
  IN  CASE SpinMode(system.magnetic) = "noncollinear" -> nelec < 2 * nbnd + 1
        [] SpinMode(system.magnetic) = "collinear" /\ tot # None -> nelec + Magnitude(tot) < 4 * nbnd + 2
        [] OTHER -> nelec < 4 * nbnd + 2

\* There are electrons for the moment a step holds: no rule refuses a greater one.
MomentIsHeld(step) ==
  LET tot == electronic[step].occupations.value.tot
  IN  tot # None => Magnitude(tot) <= system.electronCount.value

\* Fixed occupations of a step with its own scf loop fill each spin.
SpinsFill(step) ==
  LET occupations == electronic[step].occupations.value
  IN  /\ occupations.kind = "fixed" /\ step \in ScfLike
      /\ SpinMode(system.magnetic) # "noncollinear" /\ MomentIsHeld(step)
      => \E up, down \in 0 .. electronic[step].nbnd.value :
           /\ 2 * (up + down) = system.electronCount.value
           /\ SpinMode(system.magnetic) = "none" => up = down
           /\ occupations.tot # None => 2 * (up - down) = occupations.tot

\* Step i of a job finds the save of step j.
SaveIsOf(job, i, j) ==
  j < i /\ Save \in job[j].writes /\ \A k \in j + 1 .. i - 1 : Save \notin job[k].writes

\* Each step finds what it reads, of the run it is meant to be of, and no step
\* overwrites the output of another but the save.
FilesMeet(job) ==
  \A i \in DOMAIN job :
    /\ job[i].reads \subseteq UNION {job[j].writes : j \in 1 .. i - 1}
    /\ \A j \in 1 .. i - 1 : job[i].writes \cap job[j].writes \subseteq {Save}
    /\ Save \in job[i].reads =>
         \A j \in DOMAIN job : SaveIsOf(job, i, j) =>
           job[j].name = CASE job[i].program = "bands.x" -> "bands"
                           [] job[i].program = "dos.x" -> "nscf"
                           [] OTHER -> FirstStep(task)

Named(job, program) == {i \in DOMAIN job : job[i].program = program}

\* The job and its steps agree: pools divide its tasks, and a timer takes the
\* place of the steps' own times with one step that has a stop file.
JobFits(job) ==
  LET allotted == shared.resources.job.value
  IN  /\ \A i \in DOMAIN job : ~job[i].oneTask => allotted.ntasks % job[i].npool = 0
      /\ \A i \in Named(job, "pw.x") : job[i].input.maxSeconds # allotted.timer
      /\ Cardinality({i \in DOMAIN job : job[i].stopFile}) = IF allotted.timer THEN 1 ELSE 0

\* bands.x refuses two Fermi energies, and runs for each spin of the save.
BandsXRuns(job) ==
  Named(job, "bands.x") # {} =>
    /\ \A i \in Named(job, "pw.x") : job[i].name = "bands" => job[i].input.totMagnetization = None
    /\ Cardinality(Named(job, "bands.x")) = job[1].input.nspin

\* What ph.x stops on: two Fermi energies, projectors other than atomic ones,
\* a U without collinear spins, a molecule in a box, held atoms, an FFT grid the
\* symmetry does not keep, and a Hessian of D3 with other terms than the save's.
PhXRuns(job) ==
  LET input == job[1].input
  IN  Named(job, "ph.x") # {} =>
        /\ input.totMagnetization # None => input.occupations = "fixed"
        /\ input.hubbard # None => input.hubbard = "atomic" /\ ~input.noncolin
        /\ input.assumeIsolated # "martyna-tuckerman" /\ input.fixedLayers = None
        /\ system.cell.value.cell.cell.compatible \/ input.nr # None
        /\ IF input.d3 THEN input.dftd3Threebody = FALSE /\ Named(job, "d3hess.x") # {}
           ELSE input.dftd3Threebody = None /\ Named(job, "d3hess.x") = {}

\* A request that is ready has all its files need: every field is settled, the
\* electrons of each step fit its bands, fixed occupations fill them unless the
\* user asks for a greater moment than there are electrons, and a phonon run
\* has no metal's occupations but for a metal.  The writers refuse
\* nothing of it, and the job they write runs: its steps find each other's
\* files, fit its allocation, and give bands.x and ph.x nothing they stop on.
ReadyRuns ==
  /\ pc = "checked" /\ report = {} =>
       /\ \A step \in DOMAIN electronic : AllOk(Read(step)) /\ ElectronsFit(step) /\ SpinsFill(step)
       /\ shared.dos # None => shared.dos.ok
       /\ shared.phonon # None => AllOk(shared.phonon)
       /\ task \in PhononTasks /\ ~AllMetallic(site) =>
            \/ electronic[FirstStep(task)].occupations.value.kind = "fixed"
            \/ analysis.isMetal = Resolved("metal", "human")
  /\ pc = "generated" =>
       files # <<>> /\ FilesMeet(files) /\ JobFits(files) /\ BandsXRuns(files) /\ PhXRuns(files)
===============================================================================
