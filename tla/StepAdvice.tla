----------------------------- MODULE StepAdvice -----------------------------
(***************************************************************************)
(* What a task settles for each of its steps, and the job they share:      *)
(* src/src/goldilocks_core/service/_step*.py, _phonon_steps.py and the     *)
(* advisors relax.py, dos.py, phonon.py, convergence.py, job_resources.py  *)
(* and parallelisation.py.                                                 *)
(*                                                                         *)
(* Meshes.tla says which k-points and q-points a cell gets; here a cell    *)
(* carries how many there are, and which q-grids are refused for it.       *)
(***************************************************************************)
EXTENDS SystemAdvice

FiniteSetOps == INSTANCE FiniteSetsExt

CONSTANT Partitions  \* the partitions of the HPC profile, the default first

-----------------------------------------------------------------------------
(* service/_step_protocol.py                                               *)

\* What a task asks of a step beyond its defaults.
Protocol(task, step) ==
  CASE task = "dos" /\ step = "nscf" -> "tetrahedra_opt"
    [] task = "band" /\ step = "scf" -> "unpinned"
    [] task = "band" /\ step = "bands" -> "bands"
    [] OTHER -> "none"

PhononTasks == {"phonon", "relax_phonon", "vc_relax_phonon"}

\* The steps of a task that run pw.x: what _pipeline.advise_steps advises.
ElectronicSteps(task) == {step \in Steps(task) : step \in PwSteps}

-----------------------------------------------------------------------------
(* service/_step_kpoints.py and _step_kpath.py                             *)

\* k_sampling: the default mesh, or a denser one.
KSamplingOf(system, task, step) ==
  IF ~system.cell.ok THEN BlockedBy(system.cell)
  ELSE Resolved(system.cell.value.cell.cell.kpoints
                  * (IF Protocol(task, step) = "tetrahedra_opt" THEN 3 ELSE 1), "heuristic")

\* k_path: the points of the path, one distance apart.
KPathOf(system, distance) ==
  IF ~system.cell.ok THEN BlockedBy(system.cell)
  ELSE LET points == system.cell.value.cell.cell.path
       IN  IF points = None THEN Unavailable("k_path")
           ELSE Resolved(IF distance = None THEN points ELSE distance, "heuristic")

\* convergence: local-TF mixing across a vacuum.
Convergence(system, geometry) ==
  IF ~system.cell.ok THEN BlockedBy(system.cell)
  ELSE Resolved(IF geometry.ok /\ geometry.value.vacuumAxes # {} THEN "local-TF" ELSE "plain",
                "heuristic")

\* electronic_step_advice, and path_step_advice for the bands step, which
\* takes the occupations of the scf step.
ElectronicAdvice(analysis, system, request, task, step) ==
  LET value(key) == StepValue(request, step, key)
      own(s) == Occupations(analysis.isMetal, system.magnetic, system.electronCount,
                            StepValue(request, s, "occupations"), Protocol(task, s))
      occupations == IF step = "bands" THEN BandsOccupations(own("scf")) ELSE own(step)
      path == KPathOf(system, value("k_path_distance"))
      points == IF step = "bands" THEN path ELSE KSamplingOf(system, task, step)
  IN  [ occupations |-> occupations, sampling |-> points,
        nIrrK |-> IF points.ok THEN points ELSE BlockedBy(points),
        nbnd |-> Nbnd(system.electronCount, occupations, system.magnetic,
                      value("nbnd"), value("extra_bands"), Protocol(task, step)),
        convergence |-> Convergence(system, analysis.geometry) ]

\* The field_states of a step: its own cause of a missing path is counted,
\* and of its bands only what the job makes of them.
ElectronicStates(e, step) ==
  <<e.sampling, e.convergence>> \o (IF step = "bands" THEN <<>> ELSE <<e.nIrrK>>)

-----------------------------------------------------------------------------
(* parallelisation.py                                                      *)

Ceil(a, b) == (a + b - 1) \div b

Smaller(a, b) == IF a <= b THEN a ELSE b

\* kpoint_spin_pairs
KpointSpinPairs(nIrrK, magnetic) == IF SpinMode(magnetic) = "collinear" THEN 2 * nIrrK ELSE nIrrK

\* best_npool: the most pools that share the tasks and leave no more than a
\* fifth of their slots idle.
BestNpool(ntasks, pairs) ==
  FiniteSetOps!Max({ n \in 1 .. Smaller(ntasks, pairs) :
          ntasks % n = 0 /\ 4 * Ceil(pairs, n) * n <= 5 * pairs })

\* parallelisation
Layout(ntasks, pairs, npool, ndiag) ==
  [npool |-> IF npool = None THEN BestNpool(ntasks, pairs) ELSE npool, ndiag |-> ndiag, pairs |-> pairs]

\* diag_grid_side of a given ndiag
DiagSide(ndiag, procs) ==
  Larger(1, FiniteSetOps!Max({side \in 0 .. ndiag : side * side <= Smaller(ndiag, procs)}))

-----------------------------------------------------------------------------
(* job_resources.py                                                        *)

\* _step_memory: a pool holds the bands, shared among its tasks.  The figures
\* of size.py are the cell's megabytes for each band.
StepMemory(s, step, ntasks) ==
  LET layout == Layout(ntasks, step.pairs, step.npool, step.ndiag)
  IN  Ceil(s.megabytes * step.nbnd * layout.npool, ntasks)

\* _largest_step_memory
LargestMemory(s, steps, ntasks) == FiniteSetOps!Max({StepMemory(s, step, ntasks) : step \in steps})

\* _node_gb with its safety factor of 1.2
FitsNode(s, steps, ntasks, partition) ==
  12 * LargestMemory(s, steps, ntasks) * Smaller(ntasks, partition.cores) <= 10 * partition.memory

\* _fitting_nodes: the fewest nodes that hold every step, or none.
FittingNodes(s, steps, partition) ==
  LET fitting == {n \in 1 .. partition.maxNodes : FitsNode(s, steps, n * partition.cores, partition)}
  IN  IF fitting = {} THEN None ELSE FiniteSetOps!Min(fitting)

\* _pick_partition: the one asked for, the default, or the one with the most
\* memory if the default cannot hold the job.
PickPartition(s, steps, asked) ==
  LET all == Range(Partitions)
      larger == {p \in all : p.memory > Partitions[1].memory}
  IN  CASE asked # None -> CHOOSE p \in all : p.name = asked
        [] asked = None /\ (FittingNodes(s, steps, Partitions[1]) # None \/ larger = {}) -> Partitions[1]
        [] OTHER -> CHOOSE p \in larger : \A q \in larger : q.memory <= p.memory

\* job_resources
JobResources(s, steps, h, timer) ==
  IF h.partition # None /\ \A p \in Range(Partitions) : p.name # h.partition
  THEN Unavailable("partition")
  ELSE LET partition == PickPartition(s, steps, h.partition)
           fitting == FittingNodes(s, steps, partition)
           nodes == CASE h.nodes # None -> h.nodes
                      [] h.nodes = None /\ h.ntasks # None -> Ceil(h.ntasks, partition.cores)
                      [] OTHER -> IF fitting = None THEN partition.maxNodes ELSE fitting
       IN  Resolved([ partition |-> partition.name, nodes |-> nodes,
                      ntasks |-> IF h.ntasks = None THEN nodes * partition.cores ELSE h.ntasks,
                      walltime |-> IF h.walltime_h = None THEN partition.maxHours ELSE h.walltime_h,
                      timer |-> timer ], "heuristic")

\* task_resources: the job waits for everything its memory is read off, and
\* one step that lacks it leaves every step without a job.
TaskResources(s, system, electronic, request, h, task) ==
  LET order == {i \in DOMAIN TaskSteps[task] : TaskSteps[task][i] \in PwSteps}
      needs(e) == <<system.cutoffs, system.metadata, system.magnetic, system.hubbard,
                    e.nbnd, e.nIrrK, e.convergence>>
      found == [i \in order |-> FirstUnresolved(needs(electronic[TaskSteps[task][i]]))]
      unresolved == FirstUnresolved(found)
      pairs == [step \in DOMAIN electronic |->
                  KpointSpinPairs(electronic[step].nIrrK.value, system.magnetic)]
      steps == { [ pairs |-> pairs[step], nbnd |-> electronic[step].nbnd.value,
                   npool |-> StepValue(request, step, "npool"),
                   ndiag |-> StepValue(request, step, "ndiag") ] : step \in DOMAIN electronic }
      job == IF ~unresolved.ok THEN BlockedBy(unresolved)
             ELSE IF ~s.projectors THEN Unavailable("projectors")
             ELSE JobResources(s, steps, h, task \in PhononTasks)
  IN  [ job |-> job,
        parallel |-> [step \in DOMAIN electronic |->
          IF ~job.ok THEN BlockedBy(job)
          ELSE Resolved(Layout(job.value.ntasks, pairs[step], StepValue(request, step, "npool"),
                               StepValue(request, step, "ndiag")), "heuristic")] ]

-----------------------------------------------------------------------------
(* relax.py and dos.py                                                     *)

\* _WIRE_CELL_DOFREE: what holds the two vacuum axes of a wire.
WireCellDofree == <<"epitaxial_bc", "epitaxial_ac", "epitaxial_ab">>

\* _resolve_cell_dofree
CellDofree(human, geometry) ==
  CASE human # None -> Resolved(human, "human")
    [] human = None /\ ~geometry.ok -> Resolved("all", "heuristic")
    [] OTHER ->
         IF geometry.value.slab # None
         THEN IF geometry.value.slab.xyFrame THEN Resolved("2Dxy", "heuristic")
              ELSE Blocked("slab_frame")
         ELSE IF Cardinality(geometry.value.vacuumAxes) = 2 THEN Blocked("wire")
         ELSE Resolved("all", "heuristic")

\* RelaxOptions and VcRelaxOptions
RelaxValues ==
  [ ionDynamics : IonDynamics, fixBottomLayers : (Nat \ {0}) \cup {None},
    cellDofree : CellDofrees \cup {None} ]

\* relax_settings
RelaxSettings(step, convergence, geometry, request) ==
  LET value(key) == StepValue(request, step, key)
      dofree == IF step = "vc-relax" THEN CellDofree(value("cell_dofree"), geometry)
                ELSE Resolved(None, "heuristic")
  IN  IF ~convergence.ok THEN BlockedBy(convergence)
      ELSE IF ~dofree.ok THEN dofree
      ELSE Resolved([ ionDynamics |-> IF value("ion_dynamics") = None THEN "bfgs"
                                      ELSE value("ion_dynamics"),
                      fixBottomLayers |-> value("fix_bottom_layers"),
                      cellDofree |-> dofree.value ], "heuristic")

\* dos_settings: a smearing of the user needs a width, which only smeared
\* occupations have.
DosSettings(occupations, request) ==
  LET width == StepValue(request, "dos", "broadening")
  IN  IF ~occupations.ok THEN BlockedBy(occupations)
      ELSE IF /\ StepValue(request, "dos", "ngauss") # None
              /\ width = None /\ occupations.value.kind # "smearing"
      THEN Blocked("ngauss")
      ELSE Resolved([broadened |-> width # None \/ occupations.value.kind = "smearing"], "heuristic")

-----------------------------------------------------------------------------
(* phonon.py, q_sampling.py and service/_phonon_steps.py                   *)

\* q_sampling: a q-grid of the user may break the symmetry, a distance may
\* give more q-points than ph.x holds.
QSamplingOf(system, request) ==
  LET grid == StepValue(request, "ph", "q_grid")
      cell == system.cell.value.cell.cell
  IN  CASE ~system.cell.ok -> BlockedBy(system.cell)
        [] system.cell.ok /\ cell.leans -> Blocked("leaning_vacuum")
        [] OTHER ->
             Resolved([ refusal |->
               CASE grid \in cell.breaking -> "breaks_symmetry"
                 [] grid \notin cell.breaking
                      /\ (grid = "huge" \/ (grid = None /\ StepValue(request, "ph", "q_distance") = "fine")) ->
                      "too_many"
                 [] OTHER -> None ], "heuristic")

\* fft_grid: a grid of ph.x's is written where it would refuse that of pw.x,
\* but not for a vc-relax, which drops it.
FftGridOf(system, first) ==
  LET cell == system.cell.value.cell.cell
  IN  IF ~system.cell.ok THEN BlockedBy(system.cell)
      ELSE IF ~system.cutoffs.ok THEN BlockedBy(system.cutoffs)
      ELSE Resolved([ fragile |-> cell.fragile, compatible |-> cell.compatible,
                      written |-> IF ~cell.compatible /\ first # "vc-relax" THEN "ph" ELSE None ],
                    "heuristic")

\* q2r_settings
Q2rSettings(boundary) ==
  IF ~boundary.ok THEN BlockedBy(boundary)
  ELSE Resolved([loto2d |-> boundary.value.isolation = "slab"], "heuristic")

\* dispersion_path: an insulator's branches stop at every Gamma unless q2r
\* treats the slab's LO-TO splitting.
DispersionPath(system, occupations, q2r, request) ==
  LET geometry == system.geometryEff
      path == KPathOf(system, StepValue(request, "dispersion", "k_path_distance"))
  IN  CASE ~system.cell.ok -> BlockedBy(system.cell)
        [] system.cell.ok /\ geometry.ok /\ geometry.value.vacuumAxes = Axes ->
             Unavailable("no_dispersion")
        [] OTHER ->
             IF ~occupations.ok THEN BlockedBy(occupations)
             ELSE IF ~q2r.ok THEN BlockedBy(q2r)
             ELSE IF ~path.ok THEN BlockedBy(path)
             ELSE Resolved([ points |-> path.value,
                             cut |-> occupations.value.kind = "fixed" /\ ~q2r.value.loto2d ],
                           "heuristic")

\* phonon_steps_advice
PhononAdvice(system, occupations, request, first) ==
  LET q2r == Q2rSettings(system.boundary)
  IN  [ fftGrid |-> FftGridOf(system, first), qSampling |-> QSamplingOf(system, request),
        q2r |-> q2r,
        phononDos |-> IF system.cell.ok THEN Resolved("mesh", "heuristic") ELSE BlockedBy(system.cell),
        dispersion |-> DispersionPath(system, occupations, q2r, request) ]
=============================================================================
