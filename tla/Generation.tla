------------------------------ MODULE Generation ------------------------------
(***************************************************************************)
(* The steps that are written of a task whose report is ok:                *)
(* src/src/goldilocks_core/generation/quantum_espresso/ and the generate   *)
(* functions of src/src/goldilocks_core/service/.                          *)
(*                                                                         *)
(* An input is a record of the keywords a writer decides to write, None    *)
(* or FALSE without one; their text is left out.  The steps of a task find *)
(* each other's output by the names of one SharedContext, so a step is     *)
(* also what it reads and what it writes.                                  *)
(***************************************************************************)
EXTENDS Checks

\* Two records as one, of which the first decides the fields of both.
f ++ g == [x \in DOMAIN f \cup DOMAIN g |-> IF x \in DOMAIN f THEN f[x] ELSE g[x]]

(* The files of SharedContext: the save of pw.x, the Hessian of d3hess.x,  *)
(* the dynamical matrices of ph.x and the force constants of q2r.x.        *)

Save == <<"save">>
Hessian == <<"hess">>
Matrices == <<"dyn">>
ForceConstants == <<"fc">>
Stdout(name) == <<"out", name>>

-----------------------------------------------------------------------------
(* The keywords of pw.x: a is the advice of a step and set its settings.   *)

\* PwSettings, as generate assembles it: relax is None without a relaxation,
\* grid and threebody are those of a phonon task's first step.
PwSettings(a, relax, grid, threebody) ==
  LET onPath == a.purpose = "bands"
  IN  [ occupations |-> a.step.occupations.value,
        kSampling |-> IF onPath THEN None ELSE a.step.sampling.value,
        kPath |-> IF onPath THEN a.step.sampling.value ELSE None,
        nbnd |-> a.step.nbnd.value, convergence |-> a.step.convergence.value,
        parallel |-> a.parallel.value, maxSeconds |-> ~a.job.value.timer,
        relax |-> relax, grid |-> grid, threebody |-> threebody ]

ControlKeywords(a, set) ==
  [ calculation |-> a.purpose, maxSeconds |-> set.maxSeconds,
    tstress |-> a.system.boundary.value.isolation # "isolated", nstep |-> set.relax # None ]

\* _occupations_keywords
OccupationsKeywords(set) ==
  [occupations |-> set.occupations.kind, degauss |-> set.occupations.kind = "smearing"]

\* _magnetic_keywords: only a collinear run is given a moment.
MagneticKeywords(a, set) ==
  LET mode == SpinMode(a.system.magnetic)
  IN  [ noncolin |-> mode = "noncollinear", nspin |-> IF mode = "collinear" THEN 2 ELSE 1,
        totMagnetization |-> IF mode = "collinear" THEN set.occupations.tot ELSE None,
        starting |-> a.system.magnetic.value.seeded # None ]

\* _charge_keywords: what the count lacks of the neutral cell that is written.
ChargeKeywords(a) ==
  LET charge == NeutralCount(a.structure, a.system.metadata.value, a.system.magnetic.value.atoms)
                  - a.system.electronCount.value
  IN  [totCharge |-> IF charge = 0 THEN None ELSE charge]

\* _QE_ASSUME_ISOLATED
AssumeIsolated(isolation) ==
  CASE isolation = "slab" -> "2D"
    [] isolation = "isolated" -> "martyna-tuckerman"
    [] OTHER -> None

SystemKeywords(a, set) ==
  [ nat |-> a.system.magnetic.value.atoms, nbnd |-> set.nbnd,
    nr |-> set.grid, dftd3Threebody |-> set.threebody, d3 |-> a.system.vdw.value,
    assumeIsolated |-> AssumeIsolated(a.system.boundary.value.isolation) ]
  ++ OccupationsKeywords(set) ++ MagneticKeywords(a, set) ++ ChargeKeywords(a)

ElectronsKeywords(set) == [mixingMode |-> set.convergence]

IonsKeywords(relax) ==
  [ionDynamics |-> relax.ionDynamics, trustRadius |-> relax.ionDynamics = "bfgs"]

CellKeywords(relax) == [cellDofree |-> relax.cellDofree]

-----------------------------------------------------------------------------
(* The cards.                                                              *)

\* hubbard_lines: no card if none of the species that are written has a U.
HubbardLines(a) ==
  LET hubbard == a.system.hubbard.value
  IN  [hubbard |-> IF hubbard.elements \cap ElementsOf(a.structure) = {} THEN None
                   ELSE hubbard.projectors]

\* k_points and k_points_crystal_b
KPointsCard(a, set) ==
  IF a.purpose = "bands" THEN [card |-> "crystal_b", points |-> set.kPath]
  ELSE [card |-> "automatic", points |-> set.kSampling]

\* _fixed_site_indices and atomic_positions: the layers that are held.
AtomicPositions(set) ==
  [fixedLayers |-> IF set.relax = None THEN None ELSE set.relax.fixBottomLayers]

\* _bottom_layer_site_indices cannot count the layers it is to hold.
LayersRefused(a, relax) ==
  LET layers == SlabLayers(WrittenCell(a))
  IN  relax.fixBottomLayers # None /\ (layers = None \/ relax.fixBottomLayers > layers)

\* validated_pseudo_by_element: one of each element, for the functional.
PseudosRefused(a) ==
  \/ DOMAIN a.system.metadata.value # ElementsOf(a.structure)
  \/ a.system.table.value.functional # a.system.functional.value

-----------------------------------------------------------------------------
(* The writers of pw.x.                                                    *)

IsVcRelax(relax) == relax # None /\ relax.cellDofree # None

Missing(set, fields) == \E field \in fields : set[field] = None

\* write_qe_scf
ScfRefused(a, set) ==
  set.relax # None \/ Missing(set, {"kSampling", "nbnd", "convergence"}) \/ PseudosRefused(a)

\* write_qe_relax
RelaxRefused(a, set) ==
  \/ set.relax = None \/ IsVcRelax(set.relax) # (a.purpose = "vc-relax")
  \/ Missing(set, {"kSampling", "nbnd", "convergence"})
  \/ PseudosRefused(a) \/ LayersRefused(a, set.relax)

\* write_qe_bands
BandsRefused(a, set) ==
  Missing(set, {"kPath", "nbnd", "convergence"}) \/ ~set.maxSeconds \/ PseudosRefused(a)

Input(a, set) ==
  ControlKeywords(a, set) ++ SystemKeywords(a, set) ++ ElectronsKeywords(set)
    ++ HubbardLines(a) ++ KPointsCard(a, set) ++ AtomicPositions(set)
    ++ (IF set.relax = None THEN <<>> ELSE IonsKeywords(set.relax))
    ++ (IF IsVcRelax(set.relax) THEN CellKeywords(set.relax) ELSE <<>>)

\* The step of each: an nscf and a bands run read the save they write again.
PwStep(a, set) ==
  [ name |-> a.purpose, program |-> "pw.x", input |-> Input(a, set),
    npool |-> set.parallel.npool, oneTask |-> FALSE, stopFile |-> FALSE,
    reads |-> IF a.purpose \in {"nscf", "bands"} THEN {Save} ELSE {},
    writes |-> {Save, Stdout(a.purpose)} ]

\* What a GenerationError leaves of a step.
RefusedStep == [program |-> "none"]
Refused(step) == step.program = "none"

\* generate
Generated(a, relax, grid, threebody) ==
  LET set == PwSettings(a, relax, grid, threebody)
      refused == CASE a.purpose = "bands" -> BandsRefused(a, set)
                   [] a.purpose \in RelaxSteps -> RelaxRefused(a, set)
                   [] OTHER -> ScfRefused(a, set)
  IN  << IF refused THEN RefusedStep ELSE PwStep(a, set) >>

-----------------------------------------------------------------------------
(* The steps that follow, each on one task but for ph.x.                   *)

\* _one_task_step, and what write_qe_dos and _bands_x launch like it.
OneTaskStep(name, program, input, reads, writes) ==
  [ name |-> name, program |-> program, input |-> input, npool |-> 1, oneTask |-> TRUE,
    stopFile |-> FALSE, reads |-> reads, writes |-> writes \cup {Stdout(name)} ]

\* write_qe_dos
WriteQeDos(dos) ==
  << OneTaskStep("dos", "dos.x", [degauss |-> dos.broadened], {Save}, {<<"dos">>}) >>

\* _bands_x: filband is given, or bands.x would write it over bands.out.
BandsX(name, filband, component) ==
  OneTaskStep(name, "bands.x", [spinComponent |-> component], {Save}, {<<"filband", filband>>})

\* write_qe_bands_x: a run of bands.x for each spin.
WriteQeBandsX(mode) ==
  IF mode = "collinear"
  THEN << BandsX("bands_x_up", "up", 1), BandsX("bands_x_down", "down", 2) >>
  ELSE << BandsX("bands_x", "all", None) >>

\* _d3hess_step
D3hessStep == OneTaskStep("d3hess", "d3hess.x", <<>>, {Save}, {Hessian})

\* _ph_step: ph.x reads the Hessian of a save with DFT-D3, which d3 says.
PhStep(ph, d3) ==
  [ name |-> "ph", program |-> "ph.x", input |-> [recover |-> TRUE],
    npool |-> ph.parallel.npool, oneTask |-> FALSE, stopFile |-> TRUE,
    reads |-> IF d3 THEN {Save, Hessian} ELSE {Save}, writes |-> {Matrices, Stdout("ph")} ]

\* _q2r_step
Q2rStep(q2r) == OneTaskStep("q2r", "q2r.x", [loto2d |-> q2r.loto2d], {Matrices}, {ForceConstants})

\* _dos_step
PhononDosStep(q2r) ==
  OneTaskStep("phonon_dos", "matdyn.x", [loto2d |-> q2r.loto2d], {ForceConstants}, {<<"phdos">>})

\* _dispersion_step
DispersionStep(q2r, path) ==
  OneTaskStep("dispersion", "matdyn.x", [loto2d |-> q2r.loto2d, points |-> path.points],
              {ForceConstants}, {<<"freq">>})

\* phonon_step_settings: ph.x has the pools of the first step.
PhononStepSettings(phonon, first) ==
  [ ph |-> [parallel |-> first.parallel.value], q2r |-> phonon.q2r.value,
    path |-> phonon.dispersion.value ]

\* write_qe_phonon
WriteQePhonon(settings, d3hess, d3) ==
  (IF d3hess THEN <<D3hessStep>> ELSE <<>>)
    \o << PhStep(settings.ph, d3), Q2rStep(settings.q2r), PhononDosStep(settings.q2r),
          DispersionStep(settings.q2r, settings.path) >>

-----------------------------------------------------------------------------
(* The steps of a task, of the advice of each that runs pw.x.              *)

\* generate_relax
GenerateRelax(a) == Generated(a, a.relax.value, None, None)

\* generate_dos
GenerateDos(of, dos) ==
  Generated(of["scf"], None, None, None) \o Generated(of["nscf"], None, None, None)
    \o WriteQeDos(dos.value)

\* generate_band
GenerateBand(of) ==
  Generated(of["scf"], None, None, None) \o Generated(of["bands"], None, None, None)
    \o WriteQeBandsX(SpinMode(of["scf"].system.magnetic))

\* generate_phonon: d3hess.x has only two-body terms, so the first step is
\* told to leave the three-body terms out.
GeneratePhonon(a, phonon) ==
  LET d3 == a.system.vdw.value
      first == Generated(a, IF a.purpose \in RelaxSteps THEN a.relax.value ELSE None,
                         phonon.fftGrid.value.written, IF d3 THEN FALSE ELSE None)
  IN  first \o WriteQePhonon(PhononStepSettings(phonon, a), d3,
                               ~Refused(first[1]) /\ first[1].input.d3)

GenerateTask(task, of, dos, phonon) ==
  CASE task = "dos" -> GenerateDos(of, dos)
    [] task = "band" -> GenerateBand(of)
    [] task \in PhononTasks -> GeneratePhonon(of[FirstStep(task)], phonon)
    [] task \in {"relax", "vc_relax"} -> GenerateRelax(of[FirstStep(task)])
    [] OTHER -> Generated(of[FirstStep(task)], None, None, None)
===============================================================================
