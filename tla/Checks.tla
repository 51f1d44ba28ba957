-------------------------------- MODULE Checks --------------------------------
(***************************************************************************)
(* What the advice of a step must meet before files are written of it:     *)
(* src/src/goldilocks_core/checks.py.                                      *)
(*                                                                         *)
(* A report is a set of findings, each with the changes to the request     *)
(* that are offered to resolve it; a change to None clears a setting.      *)
(*                                                                         *)
(* A rule reads the advice a of one step: its analysis and system, its     *)
(* k-points and bands, the job and the parallel layout, and the settings   *)
(* of its relaxation if it has one.  A rule without what it reads is mute. *)
(***************************************************************************)
EXTENDS StepAdvice

Finding(code, remedies) == [code |-> code, cause |-> <<>>, remedies |-> remedies]

\* A rule that finds something finds one thing.
If(holds, finding) == IF holds THEN {finding} ELSE {}

Smearing == [occupations |-> "smearing"]
Unpinned == [tot_magnetization |-> None]
UnpinnedSmearing == [occupations |-> "smearing", tot_magnetization |-> None]
Periodic == [isolation |-> "periodic"]
NoU == [hubbard_needs_correlation |-> FALSE]

(* FINDING_CATALOGUE, of the findings with the remedies they all have.      *)

MissingTotMagnetization == Finding("fixed_needs_tot_magnetization", {Smearing})
NonIntegerTotMagnetization == Finding("fixed_needs_integer_tot_magnetization", {Smearing})
TotMagnetizationParity == Finding("fixed_tot_magnetization_parity", {Smearing})
OddElectronCount ==
  Finding("fixed_needs_even_electron_count",
          {Smearing, [spin_polarized |-> TRUE, occupations |-> "smearing"]})
TooFewBands == Finding("too_few_bands", {[nbnd |-> None, extra_bands |-> None]})
BandsXTotMagnetization == Finding("bands_x_refuses_tot_magnetization", {UnpinnedSmearing})
TooManyKpoints == Finding("too_many_kpoints", {[k_path_distance |-> None]})
Npool == Finding("npool_does_not_divide_ntasks", {[npool |-> None]})
Ndiag == Finding("ndiag_grid_too_large", {[ndiag |-> None]})
VcRelaxIonDynamics == Finding("vc_relax_needs_bfgs", {[ion_dynamics |-> "bfgs"]})
IsolatedWithoutVacuum == Finding("isolated_needs_vacuum", {Periodic})
SlabUnsuited == Finding("slab_unsuited_to_2d_truncation", {Periodic})
IsolatedVcRelax == Finding("isolated_forbids_vc_relax", {})
SlabVcRelaxCellDofree ==
  Finding("slab_vc_relax_needs_2d_cell_dofree",
          {[cell_dofree |-> "2Dxy"], [isolation |-> "periodic", cell_dofree |-> None]})
TwoDCellDofreeFrame == Finding("two_d_cell_dofree_needs_xy_frame", {[cell_dofree |-> "all"]})
CartesianCellDofreeRotated ==
  Finding("cartesian_cell_dofree_on_rotated_cell", {[cell_dofree |-> None]})
DispersionFunctional == Finding("use_vdw_without_d3bj_parameters", {[use_vdw |-> FALSE]})
FixBottomLayersWithoutSlab == Finding("fix_bottom_layers_needs_slab", {[fix_bottom_layers |-> None]})
FixBottomLayersExceeds == Finding("fix_bottom_layers_exceeds_layers", {[fix_bottom_layers |-> None]})
PhononHubbardProjectors ==
  Finding("hubbard_projectors_unsupported", {[hubbard_projectors |-> "atomic"], NoU})
PhononNoncollinearHubbard ==
  Finding("noncollinear_hubbard_unsupported", {[spin_orbit_coupling |-> FALSE], NoU})
PhononIsolated == Finding("isolated_boundary_unsupported", {})
PhononPinnedMoment == Finding("pinned_moment_with_smearing", {Unpinned})
PhononQGridSymmetry == Finding("q_grid_breaks_symmetry", {[q_grid |-> None]})
PhononTooManyQPoints == Finding("too_many_q_points", {[q_grid |-> None, q_distance |-> None]})
PhononVcRelaxFftGrid == Finding("vc_relax_fft_grid_unsupported", {})
PhononFixBottomLayers == Finding("fix_bottom_layers_unsupported", {[fix_bottom_layers |-> None]})
PhononMetallicityUnconfirmed == Finding("metallicity_unconfirmed", {})

\* collect_blocked: a finding for each cause of a blocked field.
CollectBlocked(states) ==
  {[code |-> "advice.blocked", cause |-> <<by>>, remedies |-> {}] : by \in RootCauses(states)}

-----------------------------------------------------------------------------
(* Occupations and spin.                                                   *)

FixedCollinear(a) ==
  /\ a.purpose \in ScfLike
  /\ a.step.occupations.ok /\ a.system.magnetic.ok
  /\ a.step.occupations.value.kind = "fixed"
  /\ SpinMode(a.system.magnetic) = "collinear"

\* _fixed_occupations_needs_integer_moment
FixedOccupationsNeedsIntegerMoment(a) ==
  LET tot == a.step.occupations.value.tot
  IN  CASE ~FixedCollinear(a) -> {}
        [] FixedCollinear(a) /\ tot = None ->
             {MissingTotMagnetization}
        [] OTHER ->
             IF ~Whole(tot) THEN {NonIntegerTotMagnetization}
             ELSE If( /\ a.system.electronCount.ok
                      /\ ~WholeSpinChannels(a.system.electronCount.value, tot),
                      TotMagnetizationParity)

\* _fixed_occupations_needs_even_electron_count
FixedOccupationsNeedsEvenElectronCount(a) ==
  If( /\ a.purpose \in ScfLike
      /\ a.step.occupations.ok /\ a.system.magnetic.ok /\ a.system.electronCount.ok
      /\ a.step.occupations.value.kind = "fixed"
      /\ ~a.system.magnetic.value.polarized
      /\ ~WholeSpinChannels(a.system.electronCount.value, 0),
      OddElectronCount)

\* Mutant of NbndHoldsEveryElectron: only the steps with their own scf loop.
NbndHoldsEveryElectronOfScf(a) ==
  If( /\ a.purpose \in ScfLike
      /\ a.step.nbnd.ok /\ a.step.occupations.ok /\ a.system.magnetic.ok
      /\ a.system.electronCount.ok
      /\ a.step.nbnd.value < BandFloor(a.system.electronCount.value, a.step.occupations.value,
                                       a.system.magnetic),
      TooFewBands)

\* _nbnd_holds_every_electron
NbndHoldsEveryElectron(a) ==
  If( /\ a.step.nbnd.ok /\ a.step.occupations.ok /\ a.system.magnetic.ok
      /\ a.system.electronCount.ok
      /\ a.step.nbnd.value < BandFloor(a.system.electronCount.value, a.step.occupations.value,
                                       a.system.magnetic),
      [TooFewBands EXCEPT !.cause = <<a.step.nbnd.value, a.step.occupations.value.tot>>])

\* _bands_x_refuses_tot_magnetization
BandsXRefusesTotMagnetization(a) ==
  If( /\ a.purpose = "bands" /\ a.step.occupations.ok /\ a.system.magnetic.ok
      /\ SpinMode(a.system.magnetic) = "collinear"
      /\ a.step.occupations.value.tot # None,
      BandsXTotMagnetization)

-----------------------------------------------------------------------------
(* The parallel layout.                                                    *)

MaxKpoints == 40000  \* _PW_X_MAX_KPOINTS

\* _band_path_within_pw_x_k_points
BandPathWithinPwXKPoints(a) ==
  If(a.purpose = "bands" /\ a.parallel.ok /\ a.parallel.value.pairs > MaxKpoints,
     TooManyKpoints)

\* _npool_must_divide_ntasks
NpoolMustDivideNtasks(a) ==
  If(a.job.ok /\ a.parallel.ok /\ a.job.value.ntasks % a.parallel.value.npool # 0,
     Npool)

\* _ndiag_grid_must_distribute_bands
NdiagGridMustDistributeBands(a) ==
  If( /\ a.job.ok /\ a.parallel.ok /\ a.step.nbnd.ok
      /\ a.parallel.value.ndiag # None
      /\ LET side == DiagSide(a.parallel.value.ndiag,
                              a.job.value.ntasks \div a.parallel.value.npool)
         IN  a.step.nbnd.value <= (side - 1) * (side - 1),
      Ndiag)

-----------------------------------------------------------------------------
(* The boundary and the relaxed cell.                                      *)

TwoDCellDofree == {"2Dxy", "2Dshape"}
CartesianCellDofree == {"a", "b", "c", "x", "y", "z", "xy", "xz", "yz", "xyz"}

WrittenCell(a) == a.system.magnetic.value.cell

\* _xy_frame_obstacles, if there are none.
XyFrame(cell, allowedVacuum) == cell.abInPlane /\ VacuumAxes(cell) \in allowedVacuum

\* _isolation_matches_written_cell
IsolationMatchesWrittenCell(a) ==
  IF ~(a.system.boundary.ok /\ a.system.magnetic.ok) THEN {}
  ELSE LET isolation == a.system.boundary.value.isolation
       IN  If(isolation = "isolated" /\ VacuumAxes(WrittenCell(a)) # Axes,
              IsolatedWithoutVacuum)
           \cup If( /\ isolation = "slab"
                    /\ ~(XyFrame(WrittenCell(a), {{3}}) /\ TruncationFits(WrittenCell(a))),
                    SlabUnsuited)

\* _vc_relax_forbids_isolated_boundary
VcRelaxForbidsIsolatedBoundary(a) ==
  If( /\ a.purpose = "vc-relax" /\ a.system.boundary.ok
      /\ a.system.boundary.value.isolation = "isolated",
      IsolatedVcRelax)

Relaxing(a) == a.purpose \in RelaxSteps /\ a.relax.ok

\* _vc_relax_requires_bfgs_ion_dynamics
VcRelaxRequiresBfgsIonDynamics(a) ==
  If(a.purpose = "vc-relax" /\ Relaxing(a) /\ a.relax.value.ionDynamics # "bfgs",
     VcRelaxIonDynamics)

\* The constraint of a vc-relax whose written cell is known.
RelaxesCell(a) == Relaxing(a) /\ a.system.magnetic.ok /\ a.relax.value.cellDofree # None

\* _slab_vc_relax_needs_2d_cell_dofree
SlabVcRelaxNeeds2dCellDofree(a) ==
  If( /\ RelaxesCell(a) /\ a.system.boundary.ok
      /\ a.system.boundary.value.isolation = "slab"
      /\ a.relax.value.cellDofree \notin TwoDCellDofree
      /\ XyFrame(WrittenCell(a), {{3}}),
      SlabVcRelaxCellDofree)

\* _two_d_cell_dofree_needs_xy_frame
TwoDCellDofreeNeedsXyFrame(a) ==
  If( /\ RelaxesCell(a) /\ a.relax.value.cellDofree \in TwoDCellDofree
      /\ ~XyFrame(WrittenCell(a), {{}, {3}}),
      IF VacuumAxes(WrittenCell(a)) = {} THEN TwoDCellDofreeFrame
      ELSE [TwoDCellDofreeFrame EXCEPT !.remedies = {}])

\* _cartesian_cell_dofree_needs_unrotated_cell
CartesianCellDofreeNeedsUnrotatedCell(a) ==
  If( /\ RelaxesCell(a) /\ WrittenCell(a).rotated
      /\ a.relax.value.cellDofree \in CartesianCellDofree,
      CartesianCellDofreeRotated)

\* _fix_bottom_layers_requires_slab
FixBottomLayersRequiresSlab(a) ==
  IF ~(Relaxing(a) /\ a.system.magnetic.ok) \/ a.relax.value.fixBottomLayers = None THEN {}
  ELSE LET layers == SlabLayers(WrittenCell(a))
       IN  IF layers = None
           THEN {FixBottomLayersWithoutSlab}
           ELSE If(a.relax.value.fixBottomLayers > layers,
                   FixBottomLayersExceeds)

\* _dispersion_needs_parameterised_functional
DispersionNeedsParameterisedFunctional(a) ==
  If( /\ a.system.vdw.ok /\ a.system.functional.ok
      /\ a.system.vdw.value /\ ~HasD3BJParameters(a.system.functional.value),
      DispersionFunctional)

-----------------------------------------------------------------------------

\* What check hands to collect_blocked, and the field_states of each tier.
CheckedStates(a) ==
  SystemStates(a.system) \o ElectronicStates(a.step, a.purpose)
    \o << a.step.occupations, a.system.magnetic, a.system.electronCount, a.system.boundary,
          a.system.vdw, a.system.functional, a.job, a.parallel, a.step.nbnd >>
    \o (IF a.purpose \in RelaxSteps THEN <<a.relax>> ELSE <<>>)

\* check_all
CheckAll(a) ==
  CollectBlocked(a.analysis) \cup CollectBlocked(CheckedStates(a))
    \cup FixedOccupationsNeedsIntegerMoment(a) \cup FixedOccupationsNeedsEvenElectronCount(a)
    \cup NbndHoldsEveryElectron(a) \cup BandsXRefusesTotMagnetization(a)
    \cup BandPathWithinPwXKPoints(a) \cup VcRelaxRequiresBfgsIonDynamics(a)
    \cup IsolationMatchesWrittenCell(a) \cup VcRelaxForbidsIsolatedBoundary(a)
    \cup SlabVcRelaxNeeds2dCellDofree(a) \cup TwoDCellDofreeNeedsXyFrame(a)
    \cup CartesianCellDofreeNeedsUnrotatedCell(a) \cup DispersionNeedsParameterisedFunctional(a)
    \cup FixBottomLayersRequiresSlab(a) \cup NpoolMustDivideNtasks(a)
    \cup NdiagGridMustDistributeBands(a)

-----------------------------------------------------------------------------
(* The phonon tasks.                                                       *)

WithU(a) == a.system.hubbard.ok /\ a.system.hubbard.value.u

\* _phonon_needs_atomic_hubbard_projectors and
\* _phonon_refuses_noncollinear_hubbard
PhononHubbard(a) ==
  If(WithU(a) /\ a.system.hubbard.value.projectors # "atomic",
     PhononHubbardProjectors)
  \cup If(WithU(a) /\ SpinMode(a.system.magnetic) = "noncollinear",
          PhononNoncollinearHubbard)

\* _phonon_refuses_a_molecule_in_a_box
PhononRefusesAMoleculeInABox(a) ==
  If(a.system.boundary.ok /\ a.system.magnetic.ok /\ VacuumAxes(WrittenCell(a)) = Axes,
     PhononIsolated)

\* _phonon_refuses_two_fermi_energies
PhononRefusesTwoFermiEnergies(a) ==
  LET occupations == a.step.occupations.value
      fixedRuns == /\ Whole(occupations.tot) /\ a.system.electronCount.ok
                   /\ WholeSpinChannels(a.system.electronCount.value, occupations.tot)
  IN  If( /\ a.step.occupations.ok /\ a.system.magnetic.ok
          /\ occupations.kind # "fixed" /\ occupations.tot # None
          /\ SpinMode(a.system.magnetic) = "collinear",
          [PhononPinnedMoment EXCEPT !.remedies =
                           @ \cup IF fixedRuns THEN {[occupations |-> "fixed"]} ELSE {}])

\* _phonon_q_mesh_within_ph_x_and_q2r_x
PhononQMeshWithinPhXAndQ2rX(qSampling) ==
  If(qSampling.ok /\ qSampling.value.refusal = "breaks_symmetry",
     PhononQGridSymmetry)
  \cup If(qSampling.ok /\ qSampling.value.refusal = "too_many",
          PhononTooManyQPoints)

\* _vc_relax_phonon_refuses_fragile_cell
VcRelaxPhononRefusesFragileCell(a, fftGrid) ==
  If(a.purpose = "vc-relax" /\ fftGrid.ok /\ fftGrid.value.fragile,
     PhononVcRelaxFftGrid)

\* _phonon_refuses_fix_bottom_layers
PhononRefusesFixBottomLayers(a) ==
  If(Relaxing(a) /\ a.relax.value.fixBottomLayers # None,
     PhononFixBottomLayers)

NoMagnet == Unavailable("magnetic")

\* _non_magnetic_runs_fixed: without its moment it would run fixed.
NonMagneticRunsFixed(a) ==
  /\ FixedOccupationsRun(NoMagnet, a.system.electronCount)
  /\ UnpolarizedIfNonMagnetic(a.analysis.moments, a.system.magnetic, a.system.hubbard)

\* _insulator_route: fixed occupations by what decided them, without the moment
\* if there is none to keep.
InsulatorRoute(a) ==
  LET requested == a.step.occupations.source = "human"
  IN  IF FixedOccupationsRun(a.system.magnetic, a.system.electronCount)
      THEN {IF requested THEN [occupations |-> "fixed"] ELSE [is_metal |-> "non_metal"]}
      ELSE If(SpinMode(a.system.magnetic) = "collinear" /\ NonMagneticRunsFixed(a),
              IF requested THEN [occupations |-> "fixed", is_magnetic |-> "non_magnetic"]
              ELSE [is_metal |-> "non_metal", is_magnetic |-> "non_magnetic"])

\* _metal_route
MetalRoute(a) ==
  CASE a.step.occupations.value.kind # "fixed" -> [is_metal |-> "metal"]
    [] a.step.occupations.value.kind = "fixed" /\ a.system.magnetic.value.tot = None ->
         [is_metal |-> "metal", occupations |-> "smearing"]
    [] OTHER -> [is_metal |-> "metal", occupations |-> "smearing", tot_magnetization |-> None]

\* _phonon_needs_confirmed_metallicity
PhononNeedsConfirmedMetallicity(a) ==
  If( /\ a.step.occupations.ok /\ a.system.magnetic.ok
      /\ ~( /\ a.step.occupations.value.kind = "fixed"
            /\ FixedOccupationsRun(a.system.magnetic, a.system.electronCount))
      /\ ~AllMetallic(a.structure)
      /\ ~( /\ a.analysis.isMetal.ok
            /\ a.analysis.isMetal.source = "human" /\ a.analysis.isMetal.value = "metal"),
      [PhononMetallicityUnconfirmed EXCEPT !.remedies = InsulatorRoute(a) \cup {MetalRoute(a)}])

\* _REPLACED_BY_PHONON
ReplacedBy(code) ==
  CASE code = "isolated_boundary_unsupported" ->
         { "isolated_forbids_vc_relax", "two_d_cell_dofree_needs_xy_frame",
           "slab_unsuited_to_2d_truncation" }
    [] code = "fix_bottom_layers_unsupported" ->
         {"fix_bottom_layers_needs_slab", "fix_bottom_layers_exceeds_layers"}
    [] code = "metallicity_unconfirmed" ->
         { "fixed_needs_tot_magnetization", "fixed_needs_integer_tot_magnetization",
           "fixed_tot_magnetization_parity", "fixed_needs_even_electron_count" }
    [] OTHER -> {}

\* _KEEPING_THE_MOMENT and _unpinned_with_smearing
KeepingTheMoment == {"fixed_needs_integer_tot_magnetization", "fixed_tot_magnetization_parity"}

UnpinnedWithSmearing(finding) ==
  IF finding.code \in KeepingTheMoment THEN [finding EXCEPT !.remedies = {UnpinnedSmearing}] ELSE finding

PhononFound(a, phonon) ==
  PhononHubbard(a) \cup PhononRefusesAMoleculeInABox(a) \cup PhononRefusesTwoFermiEnergies(a)
    \cup PhononQMeshWithinPhXAndQ2rX(phonon.qSampling)
    \cup VcRelaxPhononRefusesFragileCell(a, phonon.fftGrid) \cup PhononRefusesFixBottomLayers(a)
    \cup PhononNeedsConfirmedMetallicity(a)

Replacing(report, found) ==
  {f \in report : \A by \in found : f.code \notin ReplacedBy(by.code)}

Merged(report, found) ==
  {UnpinnedWithSmearing(finding) : finding \in Replacing(report, found)} \cup found

\* with_phonon_findings, of what a step's own check found.
WithPhononFindings(report, a, phonon) ==
  Merged(report, PhononFound(a, phonon))
    \cup CollectBlocked(phonon) \cup CollectBlocked(<<a.analysis.isMetal, a.system.hubbard>>)

-----------------------------------------------------------------------------
(* The check of a task: service/_pipeline.py, _relax.py, _dos.py, _band.py *)
(* and _phonon.py.                                                         *)

\* check_relax, check_dos, check_band and check_phonon: every step is checked
\* on its own.
CheckTask(task, of, dos, phonon) ==
  CASE task = "dos" -> CheckAll(of["scf"]) \cup CheckAll(of["nscf"]) \cup CollectBlocked(<<dos>>)
    [] task = "band" -> CheckAll(of["scf"]) \cup CheckAll(of["bands"])
    [] task \in PhononTasks ->
         WithPhononFindings(CheckAll(of[FirstStep(task)]), of[FirstStep(task)], phonon)
    [] OTHER -> CheckAll(of[FirstStep(task)])
===============================================================================
