---------------------------- MODULE AdviceProofs ----------------------------
(***************************************************************************)
(* Proofs about the service pipeline, for any tables of pseudopotentials   *)
(* that are well formed, any structures and requests that are valid, and   *)
(* any number of remedies taken up on the way.                             *)
(*                                                                         *)
(* The argument has two halves.  PipelineInv says that what each stage has *)
(* settled is what it settles of the stages before, so that what is known  *)
(* of an operator of a stage is known of the state.  The rest is about     *)
(* those operators: an empty report mutes every rule (NothingFound), the   *)
(* job's memory, which a report that is not empty would be about, is read  *)
(* off the fields that no rule looks at (JobWaits), so that every field is *)
(* settled (Settled); then the numbers are numbers, the bands hold the     *)
(* electrons, no writer refuses its step (WrittenStep), and each job that  *)
(* is written is one whose files meet (WrittenRuns).                       *)
(***************************************************************************)
EXTENDS Advice, SequenceTheorems, FiniteSetTheorems, NaturalsInduction,
        WellFoundedInduction, TLAPS

-----------------------------------------------------------------------------
(* What each stage has settled.                                            *)

\* What joining two functions gives: the left one has the last word.
LEMMA Joined ==
  ASSUME NEW f, NEW g
  PROVE  /\ DOMAIN (f ++ g) = DOMAIN f \cup DOMAIN g
         /\ \A x \in DOMAIN f : (f ++ g)[x] = f[x]
         /\ \A x \in DOMAIN g : x \notin DOMAIN f => (f ++ g)[x] = g[x]
BY DEF ++

\* The positions from each stage of the pipeline on.
FromChecked == {"checked", "generated"}
FromAdvised == {"advised"} \cup FromChecked
FromSampled == {"sampled"} \cup FromAdvised
FromSettled == {"settled"} \cup FromSampled
FromPseudopotentials == {"pseudopotentials"} \cup FromSettled
FromCell == {"cell"} \cup FromPseudopotentials
FromMethod == {"method"} \cup FromCell
FromAnalysed == {"analysed"} \cup FromMethod
FromRouted == {"routed"} \cup FromAnalysed

\* The fields that the system has after each of its stages.
MethodFields == {"functional", "hubbard"}
CellFields == MethodFields \cup {"cell", "symmetryEff", "geometryEff"}
PseudoFields == CellFields \cup {"table", "metadata", "relativistic"}

\* Every setting of the request is one the overrides let through.
ValidRequest == \A slot \in DOMAIN request : ValidSetting(slot[2], request[slot])

\* What the pipeline is handed: a valid structure, a task and a request of valid settings.
RequestOK == ValidStructure(site) /\ task \in Tasks /\ ValidRequest

\* What each stage has settled, as the operator of the stage applied to what the stages before
\* left, which no later stage changes.
HumanIs == human = [key \in TaskKeys |-> TaskValue(request, key)]

AnalysisIs == analysis = Analyze(site, LocalMoments(site), human)

MethodIs ==
  /\ system.functional = Functional(human)
  /\ system.hubbard = HubbardU(site, analysis.needsCorrelation, system.functional.value, human)

CellIs ==
  /\ system.cell = MagneticCell(site, human, analysis.isMagnetic, analysis.moments, system.hubbard)
  /\ system.geometryEff = IF system.cell.ok THEN Geometry(site, system.cell.value.cell.cell)
                          ELSE BlockedBy(system.cell)

PseudoIs ==
  LET pseudos == PseudoAdvice(site, system.cell, system.functional, human)
  IN  system.table = pseudos.table /\ system.metadata = pseudos.metadata

RestIs ==
  /\ system.magnetic = Seeded(system.cell, system.metadata)
  /\ system.cutoffs = Cutoffs(system.metadata, system.table, human)
  /\ system.electronCount = ElectronCount(site, system.cell, system.metadata, human)
  /\ system.vdw = VdwMethod(analysis.geometry, system.functional.value, human)
  /\ system.boundary = Boundary(system.geometryEff, analysis.symmetry, human)

ElectronicIs ==
  electronic = [step \in ElectronicSteps(task) |->
                  ElectronicAdvice(analysis, system, request, task, step)]

SharedIs ==
  /\ shared.resources = TaskResources(site, system, electronic, request, human, task)
  /\ shared.relax = [step \in DOMAIN electronic |-> RelaxOf(step)]
  /\ shared.dos = IF task = "dos" THEN DosSettings(electronic["nscf"].occupations, request) ELSE None
  /\ shared.phonon = IF task \in PhononTasks
                     THEN PhononAdvice(system, electronic[FirstStep(task)].occupations, request,
                                       FirstStep(task))
                     ELSE None

\* The advice that the report, and then the generation, is handed of each step.
Advices == [step \in DOMAIN electronic |-> AdviceOf(step)]

ReportIs == report = CheckTask(task, Advices, shared.dos, shared.phonon)

Written == GenerateTask(task, Advices, shared.dos, shared.phonon)

FilesAre ==
  /\ report = {}
  /\ files = IF \E i \in DOMAIN Written : Refused(Written[i]) THEN <<>> ELSE Written

\* What each stage has settled is what it settles of the stages before.
PipelineInv ==
  /\ RequestOK
  /\ pc \in {"asked", "refused"} \cup FromRouted
  /\ pc \in FromRouted => HumanIs
  /\ pc \in FromAnalysed => AnalysisIs
  /\ pc \in FromMethod => MethodIs
  /\ pc = "method" => DOMAIN system = MethodFields
  /\ pc \in FromCell => CellIs
  /\ pc = "cell" => DOMAIN system = CellFields
  /\ pc \in FromPseudopotentials => PseudoIs
  /\ pc = "pseudopotentials" => DOMAIN system = PseudoFields
  /\ pc \in FromSettled => RestIs
  /\ pc \in FromSampled => ElectronicIs
  /\ pc \in FromAdvised => SharedIs
  /\ pc \in FromChecked => ReportIs
  /\ pc = "generated" => FilesAre

\* The pipeline starts with valid inputs and nothing settled.
LEMMA Initial == Init => PipelineInv
<1> SUFFICES ASSUME Init PROVE PipelineInv
  OBVIOUS
<1>1. RequestOK
  BY AskedAssumption DEF Init, RequestOK, ValidRequest
<1>2. pc = "asked"
  BY DEF Init
<1> QED
  BY <1>1, <1>2 DEF PipelineInv, FromRouted, FromAnalysed, FromMethod, FromCell,
     FromPseudopotentials, FromSettled, FromSampled, FromAdvised, FromChecked

USE DEF FromRouted, FromAnalysed, FromMethod, FromCell, FromPseudopotentials, FromSettled,
        FromSampled, FromAdvised, FromChecked

\* Each stage settles its own part and leaves those before it alone.  The settings of the
\* task are those of the request.
LEMMA RouteStep == PipelineInv /\ Route => PipelineInv'
BY DEF PipelineInv, Route, RequestOK, ValidRequest, HumanIs

\* A request that routing refuses is refused as it came.
LEMMA RefuseStep == PipelineInv /\ Refuse => PipelineInv'
BY DEF PipelineInv, Refuse, RequestOK, ValidRequest, advised

\* The analysis is of the structure.
LEMMA AnalyzeStep == PipelineInv /\ AnalyzeStructure => PipelineInv'
BY DEF PipelineInv, AnalyzeStructure, RequestOK, ValidRequest, HumanIs, AnalysisIs

\* The functional and the U are of the request and the analysis.
LEMMA MethodStep == PipelineInv /\ SettleMethod => PipelineInv'
<1> SUFFICES ASSUME PipelineInv, SettleMethod PROVE PipelineInv'
  OBVIOUS
<1>1. MethodIs'
  BY DEF SettleMethod, MethodIs, MethodAdvice
<1>2. DOMAIN system' = MethodFields
  BY DEF SettleMethod, MethodAdvice, MethodFields
<1> QED
  BY <1>1, <1>2 DEF PipelineInv, SettleMethod, RequestOK, ValidRequest, HumanIs, AnalysisIs

\* The cell is of the magnetism that was found and of the U.
LEMMA CellStep == PipelineInv /\ SettleCell => PipelineInv'
<1> SUFFICES ASSUME PipelineInv, SettleCell PROVE PipelineInv'
  OBVIOUS
<1> DEFINE c == CellAdvice(site, MagneticCell(site, human, analysis.isMagnetic, analysis.moments,
                                              system.hubbard))
<1>1. DOMAIN system = MethodFields /\ MethodIs
  BY DEF PipelineInv, SettleCell
<1>2. DOMAIN c = {"cell", "symmetryEff", "geometryEff"}
  BY DEF CellAdvice
<1>3. system' = system ++ c
  BY DEF SettleCell
<1>4. /\ c.cell = MagneticCell(site, human, analysis.isMagnetic, analysis.moments, system.hubbard)
      /\ c.geometryEff = IF c.cell.ok THEN Geometry(site, c.cell.value.cell.cell) ELSE BlockedBy(c.cell)
  BY DEF CellAdvice
<1> HIDE DEF c
<1>5. /\ system'.functional = system.functional /\ system'.hubbard = system.hubbard
      /\ system'.cell = c.cell /\ system'.geometryEff = c.geometryEff
      /\ DOMAIN system' = CellFields
  <2>1. /\ DOMAIN (system ++ c) = DOMAIN system \cup DOMAIN c
        /\ \A x \in DOMAIN system : (system ++ c)[x] = system[x]
        /\ \A x \in DOMAIN c : x \notin DOMAIN system => (system ++ c)[x] = c[x]
    BY Joined
  <2> QED
    BY <1>1, <1>2, <1>3, <2>1 DEF MethodFields, CellFields
<1>6. MethodIs' /\ CellIs'
  BY <1>1, <1>4, <1>5 DEF SettleCell, MethodIs, CellIs
<1> QED
  BY <1>5, <1>6 DEF PipelineInv, SettleCell, RequestOK, ValidRequest, HumanIs, AnalysisIs

\* The pseudopotentials are of the cell's elements and of its spin-orbit coupling.
LEMMA PseudoStep == PipelineInv /\ SettlePseudopotentials => PipelineInv'
<1> SUFFICES ASSUME PipelineInv, SettlePseudopotentials PROVE PipelineInv'
  OBVIOUS
<1> DEFINE p == PseudoAdvice(site, system.cell, system.functional, human)
<1>1. DOMAIN system = CellFields /\ MethodIs /\ CellIs
  BY DEF PipelineInv, SettlePseudopotentials
<1>2. DOMAIN p = {"table", "metadata", "relativistic"}
  BY DEF PseudoAdvice, ResolvePseudopotentials, PseudosOf
<1>3. system' = system ++ p
  BY DEF SettlePseudopotentials
<1> DEFINE q == p
<1>4. q = PseudoAdvice(site, system.cell, system.functional, human)
  OBVIOUS
<1>4a. DOMAIN q = {"table", "metadata", "relativistic"} /\ system' = system ++ q
  BY <1>2, <1>3
<1> HIDE DEF p, q
<1>5. /\ system'.functional = system.functional /\ system'.hubbard = system.hubbard
      /\ system'.cell = system.cell /\ system'.geometryEff = system.geometryEff
      /\ system'.table = q.table /\ system'.metadata = q.metadata
      /\ DOMAIN system' = PseudoFields
  <2>1. /\ DOMAIN (system ++ q) = DOMAIN system \cup DOMAIN q
        /\ \A x \in DOMAIN system : (system ++ q)[x] = system[x]
        /\ \A x \in DOMAIN q : x \notin DOMAIN system => (system ++ q)[x] = q[x]
    BY Joined
  <2> QED
    BY <1>1, <1>4a, <1>3, <2>1 DEF MethodFields, CellFields, PseudoFields
<1>6. MethodIs' /\ CellIs' /\ PseudoIs'
  BY <1>1, <1>4, <1>5 DEF SettlePseudopotentials, MethodIs, CellIs, PseudoIs
<1> QED
  BY <1>5, <1>6 DEF PipelineInv, SettlePseudopotentials, RequestOK, ValidRequest, HumanIs, AnalysisIs

\* The rest of the system is of the cell and its pseudopotentials.
LEMMA SystemStep == PipelineInv /\ SettleSystem => PipelineInv'
<1> SUFFICES ASSUME PipelineInv, SettleSystem PROVE PipelineInv'
  OBVIOUS
<1> DEFINE r == RestAdvice(site, analysis, system, human)
<1>1. DOMAIN system = PseudoFields /\ MethodIs /\ CellIs /\ PseudoIs
  BY DEF PipelineInv, SettleSystem
<1>2. DOMAIN r = {"magnetic", "cutoffs", "electronCount", "vdw", "boundary"}
  BY DEF RestAdvice
<1>3. system' = system ++ r
  BY DEF SettleSystem
<1>4. /\ r.magnetic = Seeded(system.cell, system.metadata)
      /\ r.cutoffs = Cutoffs(system.metadata, system.table, human)
      /\ r.electronCount = ElectronCount(site, system.cell, system.metadata, human)
      /\ r.vdw = VdwMethod(analysis.geometry, system.functional.value, human)
      /\ r.boundary = Boundary(system.geometryEff, analysis.symmetry, human)
  BY DEF RestAdvice
<1> HIDE DEF r
<1>5. /\ system'.functional = system.functional /\ system'.hubbard = system.hubbard
      /\ system'.cell = system.cell /\ system'.geometryEff = system.geometryEff
      /\ system'.table = system.table /\ system'.metadata = system.metadata
      /\ system'.magnetic = r.magnetic /\ system'.cutoffs = r.cutoffs
      /\ system'.electronCount = r.electronCount /\ system'.vdw = r.vdw
      /\ system'.boundary = r.boundary
  <2>1. /\ DOMAIN (system ++ r) = DOMAIN system \cup DOMAIN r
        /\ \A x \in DOMAIN system : (system ++ r)[x] = system[x]
        /\ \A x \in DOMAIN r : x \notin DOMAIN system => (system ++ r)[x] = r[x]
    BY Joined
  <2> QED
    BY <1>1, <1>2, <1>3, <2>1 DEF MethodFields, CellFields, PseudoFields
<1>6. MethodIs' /\ CellIs' /\ PseudoIs'
  BY <1>1, <1>5 DEF SettleSystem, MethodIs, CellIs, PseudoIs
<1>7. RestIs'
  BY <1>4, <1>5 DEF SettleSystem, RestIs
<1> QED
  BY <1>6, <1>7 DEF PipelineInv, SettleSystem, RequestOK, ValidRequest, HumanIs, AnalysisIs

\* The electronic advice of each step is of the system.
LEMMA StepsStep == PipelineInv /\ AdviseSteps => PipelineInv'
<1> SUFFICES ASSUME PipelineInv, AdviseSteps PROVE PipelineInv'
  OBVIOUS
<1>1. ElectronicIs'
  BY DEF AdviseSteps, ElectronicIs
<1> QED
  BY <1>1 DEF PipelineInv, AdviseSteps, RequestOK, ValidRequest, HumanIs, AnalysisIs, MethodIs,
     CellIs, PseudoIs, RestIs

\* The resources, and the steps that follow, are of the electronic advice.
LEMMA SharedStep == PipelineInv /\ ShareResources => PipelineInv'
<1> SUFFICES ASSUME PipelineInv, ShareResources PROVE PipelineInv'
  OBVIOUS
<1>1. SharedIs'
  BY DEF ShareResources, SharedIs, RelaxOf
<1> QED
  BY <1>1 DEF PipelineInv, ShareResources, RequestOK, ValidRequest, HumanIs, AnalysisIs, MethodIs,
     CellIs, PseudoIs, RestIs, ElectronicIs

\* The report is of the advice that is there.
LEMMA CheckStep == PipelineInv /\ Check => PipelineInv'
<1> SUFFICES ASSUME PipelineInv, Check PROVE PipelineInv'
  OBVIOUS
<1>1. ReportIs'
  BY DEF Check, ReportIs, Advices, AdviceOf, advised
<1> QED
  BY <1>1 DEF PipelineInv, Check, RequestOK, ValidRequest, HumanIs, AnalysisIs, MethodIs,
     CellIs, PseudoIs, RestIs, ElectronicIs, SharedIs, RelaxOf, advised

\* What is generated is of that advice too, and behind a report that is empty.
LEMMA GenerateStep == PipelineInv /\ Generate => PipelineInv'
<1> SUFFICES ASSUME PipelineInv, Generate PROVE PipelineInv'
  OBVIOUS
<1>1. ReportIs'
  BY DEF PipelineInv, Generate, ReportIs, Advices, AdviceOf, advised
<1>2. FilesAre'
  BY DEF Generate, FilesAre, Written, Advices, AdviceOf, advised
<1> QED
  BY <1>1, <1>2 DEF PipelineInv, Generate, RequestOK, ValidRequest, HumanIs, AnalysisIs, MethodIs,
     CellIs, PseudoIs, RestIs, ElectronicIs, SharedIs, RelaxOf, advised

-----------------------------------------------------------------------------
(* A remedy asks for nothing that a caller could not.                      *)

\* A remedy sets nothing out of its range.
GoodPatch(patch) == \A key \in DOMAIN patch : patch[key] # None => ValidSetting(key, patch[key])
\* Every finding has remedies, and none of them sets a value that a caller could not.
GoodRemedies(findings) ==
  \A f \in findings : "remedies" \in DOMAIN f /\ \A patch \in f.remedies : GoodPatch(patch)

\* Every patch of the catalogue is one the overrides would let through.
LEMMA Patches ==
  /\ GoodPatch(Smearing) /\ GoodPatch(Unpinned) /\ GoodPatch(UnpinnedSmearing) /\ GoodPatch(Periodic)
  /\ GoodPatch(NoU) /\ GoodPatch([spin_polarized |-> TRUE, occupations |-> "smearing"])
  /\ GoodPatch([nbnd |-> None, extra_bands |-> None]) /\ GoodPatch([k_path_distance |-> None])
  /\ GoodPatch([npool |-> None]) /\ GoodPatch([ndiag |-> None])
  /\ GoodPatch([ion_dynamics |-> "bfgs"]) /\ GoodPatch([cell_dofree |-> "2Dxy"])
  /\ GoodPatch([isolation |-> "periodic", cell_dofree |-> None])
  /\ GoodPatch([cell_dofree |-> "all"]) /\ GoodPatch([cell_dofree |-> None])
  /\ GoodPatch([use_vdw |-> FALSE]) /\ GoodPatch([fix_bottom_layers |-> None])
  /\ GoodPatch([hubbard_projectors |-> "atomic"]) /\ GoodPatch([spin_orbit_coupling |-> FALSE])
  /\ GoodPatch([q_grid |-> None]) /\ GoodPatch([q_grid |-> None, q_distance |-> None])
  /\ GoodPatch([occupations |-> "fixed"]) /\ GoodPatch([is_metal |-> "non_metal"])
  /\ GoodPatch([occupations |-> "fixed", is_magnetic |-> "non_magnetic"])
  /\ GoodPatch([is_metal |-> "non_metal", is_magnetic |-> "non_magnetic"])
  /\ GoodPatch([is_metal |-> "metal"]) /\ GoodPatch([is_metal |-> "metal", occupations |-> "smearing"])
  /\ GoodPatch([is_metal |-> "metal", occupations |-> "smearing", tot_magnetization |-> None])
<1>0. /\ ValidSetting("spin_polarized", TRUE) /\ ValidSetting("use_vdw", FALSE)
      /\ ValidSetting("spin_orbit_coupling", FALSE) /\ ValidSetting("hubbard_needs_correlation", FALSE)
      /\ ValidSetting("occupations", "smearing")
  BY DEF ValidSetting
<1>1. GoodPatch(Smearing)
  BY DEF GoodPatch, ValidSetting, Smearing
<1>2. GoodPatch(Unpinned)
  BY DEF GoodPatch, ValidSetting, Unpinned
<1>3. GoodPatch(UnpinnedSmearing)
  BY DEF GoodPatch, ValidSetting, UnpinnedSmearing
<1>4. GoodPatch(Periodic)
  BY DEF GoodPatch, ValidSetting, Periodic
<1>5. GoodPatch(NoU)
  <2> DEFINE p == NoU
  <2>1. DOMAIN p = {"hubbard_needs_correlation"} /\ p["hubbard_needs_correlation"] = FALSE
    BY ZenonT(20) DEF NoU
  <2> HIDE DEF p
  <2>2. \A key \in DOMAIN p : ValidSetting(key, p[key])
    BY <1>0, <2>1, ZenonT(20)
  <2>3. GoodPatch(p)
    BY <2>2, ZenonT(20) DEF GoodPatch
  <2> QED
    BY <2>3, ZenonT(20) DEF p
<1>6. GoodPatch([spin_polarized |-> TRUE, occupations |-> "smearing"])
  <2> DEFINE p == [spin_polarized |-> TRUE, occupations |-> "smearing"]
  <2>1. DOMAIN p = {"spin_polarized", "occupations"} /\ p["spin_polarized"] = TRUE /\ p["occupations"] = "smearing"
    BY ZenonT(20)
  <2> HIDE DEF p
  <2>2. \A key \in DOMAIN p : ValidSetting(key, p[key])
    BY <1>0, <2>1, ZenonT(20)
  <2>3. GoodPatch(p)
    BY <2>2, ZenonT(20) DEF GoodPatch
  <2> QED
    BY <2>3, ZenonT(20) DEF p
<1>7. GoodPatch([nbnd |-> None, extra_bands |-> None])
  BY DEF GoodPatch, ValidSetting
<1>8. GoodPatch([k_path_distance |-> None])
  BY DEF GoodPatch, ValidSetting
<1>9. GoodPatch([npool |-> None])
  BY DEF GoodPatch, ValidSetting
<1>10. GoodPatch([ndiag |-> None])
  BY DEF GoodPatch, ValidSetting
<1>11. GoodPatch([ion_dynamics |-> "bfgs"])
  BY DEF GoodPatch, ValidSetting, IonDynamics
<1>12. GoodPatch([cell_dofree |-> "2Dxy"])
  BY DEF GoodPatch, ValidSetting, CellDofrees
<1>13. GoodPatch([isolation |-> "periodic", cell_dofree |-> None])
  BY DEF GoodPatch, ValidSetting, CellDofrees
<1>14. GoodPatch([cell_dofree |-> "all"])
  BY DEF GoodPatch, ValidSetting, CellDofrees
<1>15. GoodPatch([cell_dofree |-> None])
  BY DEF GoodPatch, ValidSetting, CellDofrees
<1>16. GoodPatch([use_vdw |-> FALSE])
  <2> DEFINE p == [use_vdw |-> FALSE]
  <2>1. DOMAIN p = {"use_vdw"} /\ p["use_vdw"] = FALSE
    BY ZenonT(20)
  <2> HIDE DEF p
  <2>2. \A key \in DOMAIN p : ValidSetting(key, p[key])
    BY <1>0, <2>1, ZenonT(20)
  <2>3. GoodPatch(p)
    BY <2>2, ZenonT(20) DEF GoodPatch
  <2> QED
    BY <2>3, ZenonT(20) DEF p
<1>17. GoodPatch([fix_bottom_layers |-> None])
  BY DEF GoodPatch, ValidSetting
<1>18. GoodPatch([hubbard_projectors |-> "atomic"])
  BY DEF GoodPatch, ValidSetting
<1>19. GoodPatch([spin_orbit_coupling |-> FALSE])
  <2> DEFINE p == [spin_orbit_coupling |-> FALSE]
  <2>1. DOMAIN p = {"spin_orbit_coupling"} /\ p["spin_orbit_coupling"] = FALSE
    BY ZenonT(20)
  <2> HIDE DEF p
  <2>2. \A key \in DOMAIN p : ValidSetting(key, p[key])
    BY <1>0, <2>1, ZenonT(20)
  <2>3. GoodPatch(p)
    BY <2>2, ZenonT(20) DEF GoodPatch
  <2> QED
    BY <2>3, ZenonT(20) DEF p
<1>20. GoodPatch([q_grid |-> None])
  BY DEF GoodPatch, ValidSetting
<1>21. GoodPatch([q_grid |-> None, q_distance |-> None])
  BY DEF GoodPatch, ValidSetting
<1>22. GoodPatch([occupations |-> "fixed"])
  BY DEF GoodPatch, ValidSetting
<1>23. GoodPatch([is_metal |-> "non_metal"])
  BY DEF GoodPatch, ValidSetting
<1>24. GoodPatch([occupations |-> "fixed", is_magnetic |-> "non_magnetic"])
  BY DEF GoodPatch, ValidSetting
<1>25. GoodPatch([is_metal |-> "non_metal", is_magnetic |-> "non_magnetic"])
  BY DEF GoodPatch, ValidSetting
<1>26. GoodPatch([is_metal |-> "metal"])
  BY DEF GoodPatch, ValidSetting
<1>27. GoodPatch([is_metal |-> "metal", occupations |-> "smearing"])
  BY DEF GoodPatch, ValidSetting
<1>28. GoodPatch([is_metal |-> "metal", occupations |-> "smearing", tot_magnetization |-> None])
  BY DEF GoodPatch, ValidSetting
<1> QED
  BY <1>1, <1>2, <1>3, <1>4, <1>5, <1>6, <1>7, <1>8, <1>9, <1>10, <1>11, <1>12, <1>13, <1>14, <1>15, <1>16, <1>17, <1>18, <1>19, <1>20, <1>21, <1>22, <1>23, <1>24, <1>25, <1>26, <1>27, <1>28

\* A rule that may or may not speak offers nothing that its finding does not.
LEMMA IfGood ==
  ASSUME NEW holds, NEW finding, GoodRemedies({finding})
  PROVE  GoodRemedies(If(holds, finding))
BY DEF If, GoodRemedies

\* Two sets of findings with good remedies make one.
LEMMA BothGood ==
  ASSUME NEW S, NEW T, GoodRemedies(S), GoodRemedies(T)
  PROVE  GoodRemedies(S \cup T)
BY DEF GoodRemedies

\* Every finding of the catalogue offers good remedies.
LEMMA Catalogue ==
  /\ GoodRemedies({MissingTotMagnetization}) /\ GoodRemedies({NonIntegerTotMagnetization})
  /\ GoodRemedies({TotMagnetizationParity}) /\ GoodRemedies({OddElectronCount})
  /\ GoodRemedies({TooFewBands}) /\ GoodRemedies({BandsXTotMagnetization})
  /\ GoodRemedies({TooManyKpoints}) /\ GoodRemedies({Npool}) /\ GoodRemedies({Ndiag})
  /\ GoodRemedies({VcRelaxIonDynamics}) /\ GoodRemedies({IsolatedWithoutVacuum})
  /\ GoodRemedies({SlabUnsuited}) /\ GoodRemedies({IsolatedVcRelax})
  /\ GoodRemedies({SlabVcRelaxCellDofree}) /\ GoodRemedies({TwoDCellDofreeFrame})
  /\ GoodRemedies({CartesianCellDofreeRotated}) /\ GoodRemedies({DispersionFunctional})
  /\ GoodRemedies({FixBottomLayersWithoutSlab}) /\ GoodRemedies({FixBottomLayersExceeds})
  /\ GoodRemedies({PhononHubbardProjectors}) /\ GoodRemedies({PhononNoncollinearHubbard})
  /\ GoodRemedies({PhononIsolated}) /\ GoodRemedies({PhononPinnedMoment})
  /\ GoodRemedies({PhononQGridSymmetry}) /\ GoodRemedies({PhononTooManyQPoints})
  /\ GoodRemedies({PhononVcRelaxFftGrid}) /\ GoodRemedies({PhononFixBottomLayers})
  /\ GoodRemedies({PhononMetallicityUnconfirmed})
<1>0. ASSUME NEW code, NEW remedies, \A patch \in remedies : GoodPatch(patch)
      PROVE  GoodRemedies({Finding(code, remedies)})
  <2>1. "remedies" \in DOMAIN Finding(code, remedies) /\ Finding(code, remedies).remedies = remedies
    BY DEF Finding
  <2> QED
    BY <1>0, <2>1 DEF GoodRemedies
<1> HIDE DEF GoodRemedies
<1>1. GoodRemedies({MissingTotMagnetization})
  BY <1>0, Patches DEF MissingTotMagnetization
<1>2. GoodRemedies({NonIntegerTotMagnetization})
  BY <1>0, Patches DEF NonIntegerTotMagnetization
<1>3. GoodRemedies({TotMagnetizationParity})
  BY <1>0, Patches DEF TotMagnetizationParity
<1>4. GoodRemedies({OddElectronCount})
  BY <1>0, Patches DEF OddElectronCount
<1>5. GoodRemedies({TooFewBands})
  BY <1>0, Patches DEF TooFewBands
<1>6. GoodRemedies({BandsXTotMagnetization})
  BY <1>0, Patches DEF BandsXTotMagnetization
<1>7. GoodRemedies({TooManyKpoints})
  BY <1>0, Patches DEF TooManyKpoints
<1>8. GoodRemedies({Npool})
  BY <1>0, Patches DEF Npool
<1>9. GoodRemedies({Ndiag})
  BY <1>0, Patches DEF Ndiag
<1>10. GoodRemedies({VcRelaxIonDynamics})
  BY <1>0, Patches DEF VcRelaxIonDynamics
<1>11. GoodRemedies({IsolatedWithoutVacuum})
  BY <1>0, Patches DEF IsolatedWithoutVacuum
<1>12. GoodRemedies({SlabUnsuited})
  BY <1>0, Patches DEF SlabUnsuited
<1>13. GoodRemedies({IsolatedVcRelax})
  BY <1>0, Patches DEF IsolatedVcRelax
<1>14. GoodRemedies({SlabVcRelaxCellDofree})
  BY <1>0, Patches DEF SlabVcRelaxCellDofree
<1>15. GoodRemedies({TwoDCellDofreeFrame})
  BY <1>0, Patches DEF TwoDCellDofreeFrame
<1>16. GoodRemedies({CartesianCellDofreeRotated})
  BY <1>0, Patches DEF CartesianCellDofreeRotated
<1>17. GoodRemedies({DispersionFunctional})
  BY <1>0, Patches DEF DispersionFunctional
<1>18. GoodRemedies({FixBottomLayersWithoutSlab})
  BY <1>0, Patches DEF FixBottomLayersWithoutSlab
<1>19. GoodRemedies({FixBottomLayersExceeds})
  BY <1>0, Patches DEF FixBottomLayersExceeds
<1>20. GoodRemedies({PhononHubbardProjectors})
  BY <1>0, Patches DEF PhononHubbardProjectors
<1>21. GoodRemedies({PhononNoncollinearHubbard})
  BY <1>0, Patches DEF PhononNoncollinearHubbard
<1>22. GoodRemedies({PhononIsolated})
  BY <1>0, Patches DEF PhononIsolated
<1>23. GoodRemedies({PhononPinnedMoment})
  BY <1>0, Patches DEF PhononPinnedMoment
<1>24. GoodRemedies({PhononQGridSymmetry})
  BY <1>0, Patches DEF PhononQGridSymmetry
<1>25. GoodRemedies({PhononTooManyQPoints})
  BY <1>0, Patches DEF PhononTooManyQPoints
<1>26. GoodRemedies({PhononVcRelaxFftGrid})
  BY <1>0, Patches DEF PhononVcRelaxFftGrid
<1>27. GoodRemedies({PhononFixBottomLayers})
  BY <1>0, Patches DEF PhononFixBottomLayers
<1>28. GoodRemedies({PhononMetallicityUnconfirmed})
  BY <1>0, Patches DEF PhononMetallicityUnconfirmed
<1> QED
  BY <1>1, <1>2, <1>3, <1>4, <1>5, <1>6, <1>7, <1>8, <1>9, <1>10, <1>11, <1>12, <1>13, <1>14, <1>15, <1>16, <1>17, <1>18, <1>19, <1>20, <1>21, <1>22, <1>23, <1>24, <1>25, <1>26, <1>27, <1>28

\* No finding offers nothing.
LEMMA NoneGood == GoodRemedies({})
BY DEF GoodRemedies

\* The findings about blocked fields offer nothing out of range.
LEMMA BlockedGood ==
  ASSUME NEW states PROVE GoodRemedies(CollectBlocked(states))
BY DEF CollectBlocked, GoodRemedies

\* The rules about one step offer nothing out of range.
LEMMA OwnGood ==
  ASSUME NEW a PROVE GoodRemedies(CheckAll(a))
<1>1. GoodRemedies(CollectBlocked(a.analysis)) /\ GoodRemedies(CollectBlocked(CheckedStates(a)))
  BY BlockedGood
<1>2. GoodRemedies(FixedOccupationsNeedsIntegerMoment(a))
  BY Catalogue, IfGood, NoneGood DEF FixedOccupationsNeedsIntegerMoment
<1>3. GoodRemedies(FixedOccupationsNeedsEvenElectronCount(a))
  BY Catalogue, IfGood DEF FixedOccupationsNeedsEvenElectronCount
<1>4. GoodRemedies(NbndHoldsEveryElectron(a))
  <2> DEFINE cause == <<a.step.nbnd.value, a.step.occupations.value.tot>>
  <2>1. /\ [TooFewBands EXCEPT !.cause = cause].remedies = TooFewBands.remedies
        /\ "remedies" \in DOMAIN [TooFewBands EXCEPT !.cause = cause]
    BY DEF TooFewBands, Finding
  <2>2. GoodRemedies({[TooFewBands EXCEPT !.cause = cause]})
    BY <2>1, Catalogue DEF GoodRemedies
  <2> QED
    BY <2>2, IfGood DEF NbndHoldsEveryElectron
<1>5. GoodRemedies(BandsXRefusesTotMagnetization(a)) /\ GoodRemedies(BandPathWithinPwXKPoints(a))
  BY Catalogue, IfGood DEF BandsXRefusesTotMagnetization, BandPathWithinPwXKPoints
<1>6. GoodRemedies(VcRelaxRequiresBfgsIonDynamics(a))
  BY Catalogue, IfGood DEF VcRelaxRequiresBfgsIonDynamics
<1>7. GoodRemedies(IsolationMatchesWrittenCell(a))
  BY Catalogue, IfGood, NoneGood, BothGood DEF IsolationMatchesWrittenCell
<1>8. GoodRemedies(VcRelaxForbidsIsolatedBoundary(a)) /\ GoodRemedies(SlabVcRelaxNeeds2dCellDofree(a))
  BY Catalogue, IfGood DEF VcRelaxForbidsIsolatedBoundary, SlabVcRelaxNeeds2dCellDofree
<1>9. GoodRemedies(TwoDCellDofreeNeedsXyFrame(a))
  <2>1. /\ [TwoDCellDofreeFrame EXCEPT !.remedies = {}].remedies = {}
        /\ "remedies" \in DOMAIN [TwoDCellDofreeFrame EXCEPT !.remedies = {}]
    BY DEF TwoDCellDofreeFrame, Finding
  <2>2. GoodRemedies({[TwoDCellDofreeFrame EXCEPT !.remedies = {}]})
    BY <2>1 DEF GoodRemedies
  <2> QED
    BY <2>2, Catalogue, IfGood DEF TwoDCellDofreeNeedsXyFrame
<1>10. GoodRemedies(CartesianCellDofreeNeedsUnrotatedCell(a))
  BY Catalogue, IfGood DEF CartesianCellDofreeNeedsUnrotatedCell
<1>11. GoodRemedies(DispersionNeedsParameterisedFunctional(a))
  BY Catalogue, IfGood DEF DispersionNeedsParameterisedFunctional
<1>12. GoodRemedies(FixBottomLayersRequiresSlab(a))
  BY Catalogue, IfGood, NoneGood DEF FixBottomLayersRequiresSlab
<1>13. GoodRemedies(NpoolMustDivideNtasks(a)) /\ GoodRemedies(NdiagGridMustDistributeBands(a))
  BY Catalogue, IfGood DEF NpoolMustDivideNtasks, NdiagGridMustDistributeBands
<1> QED
  BY <1>1, <1>2, <1>3, <1>4, <1>5, <1>6, <1>7, <1>8, <1>9, <1>10, <1>11, <1>12, <1>13
  DEF CheckAll, GoodRemedies

\* Nor do the rules about a phonon calculation.
LEMMA FoundGood ==
  ASSUME NEW a, NEW phonon PROVE GoodRemedies(PhononFound(a, phonon))
<1>1. GoodRemedies(PhononHubbard(a)) /\ GoodRemedies(PhononRefusesAMoleculeInABox(a))
  BY Catalogue, IfGood, BothGood DEF PhononHubbard, PhononRefusesAMoleculeInABox
<1>2. GoodRemedies(PhononRefusesTwoFermiEnergies(a))
  <2> SUFFICES ASSUME NEW more, more \in {{}, {[occupations |-> "fixed"]}}
               PROVE  GoodRemedies({[PhononPinnedMoment EXCEPT !.remedies = @ \cup more]})
    BY IfGood DEF PhononRefusesTwoFermiEnergies
  <2>1. /\ [PhononPinnedMoment EXCEPT !.remedies = @ \cup more].remedies
             = PhononPinnedMoment.remedies \cup more
        /\ "remedies" \in DOMAIN [PhononPinnedMoment EXCEPT !.remedies = @ \cup more]
    BY DEF PhononPinnedMoment, Finding
  <2> QED
    BY <2>1, Catalogue, Patches DEF GoodRemedies
<1>3. GoodRemedies(PhononQMeshWithinPhXAndQ2rX(phonon.qSampling))
  BY Catalogue, IfGood, BothGood DEF PhononQMeshWithinPhXAndQ2rX
<1>4. /\ GoodRemedies(VcRelaxPhononRefusesFragileCell(a, phonon.fftGrid))
      /\ GoodRemedies(PhononRefusesFixBottomLayers(a))
  BY Catalogue, IfGood DEF VcRelaxPhononRefusesFragileCell, PhononRefusesFixBottomLayers
<1>5. GoodRemedies(PhononNeedsConfirmedMetallicity(a))
  <2> DEFINE routes == InsulatorRoute(a) \cup {MetalRoute(a)}
  <2>1. \A patch \in routes : GoodPatch(patch)
    BY Patches DEF InsulatorRoute, MetalRoute, If
  <2>2. /\ [PhononMetallicityUnconfirmed EXCEPT !.remedies = routes].remedies = routes
        /\ "remedies" \in DOMAIN [PhononMetallicityUnconfirmed EXCEPT !.remedies = routes]
    BY DEF PhononMetallicityUnconfirmed, Finding
  <2>3. GoodRemedies({[PhononMetallicityUnconfirmed EXCEPT !.remedies = routes]})
    BY <2>1, <2>2 DEF GoodRemedies
  <2> QED
    BY <2>3, IfGood DEF PhononNeedsConfirmedMetallicity
<1> QED
  BY <1>1, <1>2, <1>3, <1>4, <1>5 DEF PhononFound, GoodRemedies

\* Merging two reports keeps what their findings offer, or less of it.
LEMMA MergedGood ==
  ASSUME NEW findings, NEW found, GoodRemedies(findings), GoodRemedies(found)
  PROVE  GoodRemedies(Merged(findings, found))
<1>1. \A f \in findings : GoodRemedies({UnpinnedWithSmearing(f)})
  <2> SUFFICES ASSUME NEW f \in findings PROVE GoodRemedies({UnpinnedWithSmearing(f)})
    OBVIOUS
  <2>1. CASE f.code \in KeepingTheMoment
    BY <2>1, Patches DEF UnpinnedWithSmearing, GoodRemedies
  <2>2. CASE f.code \notin KeepingTheMoment
    BY <2>2 DEF UnpinnedWithSmearing, GoodRemedies
  <2> QED
    BY <2>1, <2>2
<1> QED
  BY <1>1 DEF Merged, Replacing, GoodRemedies

\* So whatever the report says, its remedies are settings a caller could have sent.
LEMMA ReportGood ==
  ASSUME NEW t, NEW of, NEW dos, NEW phonon
  PROVE  GoodRemedies(CheckTask(t, of, dos, phonon))
<1> DEFINE first == of[FirstStep(t)]
<1>1. /\ GoodRemedies(CheckAll(of["scf"])) /\ GoodRemedies(CheckAll(of["nscf"]))
      /\ GoodRemedies(CheckAll(of["bands"])) /\ GoodRemedies(CheckAll(first))
      /\ GoodRemedies(CollectBlocked(<<dos>>))
  BY OwnGood, BlockedGood
<1>2. GoodRemedies(WithPhononFindings(CheckAll(first), first, phonon))
  <2>1. GoodRemedies(Merged(CheckAll(first), PhononFound(first, phonon)))
    BY <1>1, FoundGood, MergedGood
  <2>2. /\ GoodRemedies(CollectBlocked(phonon))
        /\ GoodRemedies(CollectBlocked(<<first.analysis.isMetal, first.system.hubbard>>))
    BY BlockedGood
  <2> QED
    BY <2>1, <2>2 DEF WithPhononFindings, GoodRemedies
<1> QED
  BY <1>1, <1>2 DEF CheckTask, GoodRemedies

\* A remedy that is applied leaves a valid request, which is advised from the start.
LEMMA RemedyStep == PipelineInv /\ ApplyRemedy => PipelineInv'
<1> SUFFICES ASSUME PipelineInv, ApplyRemedy PROVE PipelineInv'
  OBVIOUS
<1>0. PICK finding \in report : \E patch \in finding.remedies : request' = Patched(patch)
  BY DEF ApplyRemedy
<1>1. PICK patch \in finding.remedies : request' = Patched(patch)
  BY <1>0
<1>2. GoodPatch(patch)
  <2>1. GoodRemedies(report)
    <3>0. pc = "checked"
      BY DEF ApplyRemedy
    <3>1. report = CheckTask(task, Advices, shared.dos, shared.phonon)
      BY ONLY PipelineInv, <3>0 DEF PipelineInv, FromChecked, ReportIs
    <3> QED
      BY ONLY <3>1, ReportGood
  <2> QED
    BY <2>1 DEF GoodRemedies
<1>3. ValidRequest'
  <2> SUFFICES ASSUME NEW slot \in DOMAIN request'
               PROVE  ValidSetting(slot[2], request'[slot])
    BY DEF ValidRequest
  <2> DEFINE given == {<<"flat", key>> : key \in {k \in DOMAIN patch : patch[k] # None}}
             cleared == {<<"flat", key>> : key \in {k \in DOMAIN patch : patch[k] = None}}
  <2>1. request' = [s \in (DOMAIN request \cup given) \ cleared |->
                      IF s \in given THEN patch[s[2]] ELSE request[s]]
    BY <1>1 DEF Patched
  <2>2. CASE slot \in given
    <3>1. PICK key \in DOMAIN patch : patch[key] # None /\ slot = <<"flat", key>>
      BY <2>2
    <3>2. slot[2] = key
      BY <3>1
    <3>3. request'[slot] = patch[key]
      BY <2>1, <2>2, <3>2
    <3> QED
      BY <3>1, <3>2, <3>3, <1>2 DEF GoodPatch
  <2>3. CASE slot \notin given
    <3> HIDE DEF given, cleared
    <3>1. slot \in DOMAIN request /\ request'[slot] = request[slot]
      BY <2>1, <2>3
    <3> QED
      BY <3>1 DEF PipelineInv, RequestOK, ValidRequest
  <2> QED
    BY <2>2, <2>3
<1>4. pc' = "asked" /\ site' = site /\ task' = task
  BY DEF ApplyRemedy
<1>5. RequestOK'
  BY <1>3, <1>4 DEF PipelineInv, RequestOK
<1> QED
  BY ONLY <1>4, <1>5 DEF PipelineInv, FromRouted, FromAnalysed, FromMethod, FromCell,
     FromPseudopotentials, FromSettled, FromSampled, FromAdvised, FromChecked

\* THE PIPELINE INVARIANT. At every position of the pipeline what each stage has settled is
\* what it settles of the stages before: nothing is stale, after a remedy no more than before.
THEOREM Pipelined == Spec => []PipelineInv
<1>1. PipelineInv /\ UNCHANGED vars => PipelineInv'
  <2> SUFFICES ASSUME PipelineInv, UNCHANGED vars PROVE PipelineInv'
    OBVIOUS
  <2>1. RequestOK' = RequestOK /\ HumanIs' = HumanIs /\ AnalysisIs' = AnalysisIs
    BY DEF vars, advised, RequestOK, ValidRequest, HumanIs, AnalysisIs
  <2>2. MethodIs' = MethodIs /\ CellIs' = CellIs /\ PseudoIs' = PseudoIs /\ RestIs' = RestIs
    BY DEF vars, advised, MethodIs, CellIs, PseudoIs, RestIs
  <2>3. ElectronicIs' = ElectronicIs /\ SharedIs' = SharedIs
    BY DEF vars, advised, ElectronicIs, SharedIs, RelaxOf
  <2>4. ReportIs' = ReportIs /\ FilesAre' = FilesAre
    BY DEF vars, advised, ReportIs, FilesAre, Written, Advices, AdviceOf
  <2>5. pc' = pc /\ system' = system
    BY DEF vars, advised
  <2> QED
    BY ONLY PipelineInv, <2>1, <2>2, <2>3, <2>4, <2>5 DEF PipelineInv
<1>2. PipelineInv /\ [Next]_vars => PipelineInv'
  BY <1>1, RouteStep, RefuseStep, AnalyzeStep, MethodStep, CellStep, PseudoStep, SystemStep,
     StepsStep, SharedStep, CheckStep, GenerateStep, RemedyStep DEF Next, Pipeline, Ended
<1> QED
  BY Initial, <1>2, PTL DEF Spec

-----------------------------------------------------------------------------
(* Sequences and least members.                                            *)

\* A relation on the naturals with no descending chain, that holds every pair x < y.
LEMMA LessIsWellFounded ==
  \E R : IsWellFoundedOn(R, Nat) /\ \A x, y \in Nat : x < y => <<x, y>> \in R
<1> DEFINE R == OpToRel(<, Nat)
<1>1. IsWellFoundedOn(R, Nat)
  BY NatLessThanWellFounded, Zenon
<1>2. \A x, y \in Nat : x < y => <<x, y>> \in R
  BY DEF OpToRel
<1> HIDE DEF R
<1> QED
  BY <1>1, <1>2

\* A set that is not empty has a member with nothing below it.
LEMMA Minimal ==
  ASSUME NEW R, NEW S, IsWellFoundedOn(R, S), NEW T, T \subseteq S, T # {}
  PROVE  \E x \in T : \A y \in T : ~(<<y, x>> \in R)
BY WFMin, Zenon

\* A set of naturals that is not empty has a least member.
LEMMA LeastOf ==
  ASSUME NEW S \in SUBSET Nat, S # {}
  PROVE  \E x \in S : \A y \in S : x <= y
<1>1. PICK R : IsWellFoundedOn(R, Nat) /\ \A x, y \in Nat : x < y => <<x, y>> \in R
  BY LessIsWellFounded
<1>2. IsWellFoundedOn(R, Nat)
  BY ONLY <1>1
<1>3. \E x \in S : \A y \in S : ~(<<y, x>> \in R)
  BY <1>2, Minimal
<1>4. PICK x \in S : \A y \in S : ~(<<y, x>> \in R)
  BY <1>3
<1>5. \A y \in S : ~(y < x)
  BY ONLY <1>1, <1>4, S \in SUBSET Nat
<1> QED
  BY <1>5

\* When the first field that is not settled is a settled one, all of them are settled.
LEMMA FirstOk ==
  ASSUME NEW states, DOMAIN states \subseteq Nat, FirstUnresolved(states).ok
  PROVE  \A i \in DOMAIN states : states[i].ok
<1> DEFINE missing == {i \in DOMAIN states : ~states[i].ok}
<1> SUFFICES ASSUME missing # {} PROVE FALSE
  OBVIOUS
<1> DEFINE first == CHOOSE i \in missing : \A j \in missing : i <= j
<1>0. \E i \in missing : \A j \in missing : i <= j
  BY LeastOf
<1>1. first \in missing
  BY <1>0
<1>2. FirstUnresolved(states) = states[first]
  BY DEF FirstUnresolved
<1> QED
  BY <1>1, <1>2

\* No field of a record or a sequence is blocked.
NoneBlocked(states) == \A f \in DOMAIN states : states[f].status # "blocked"

\* No finding about a blocked field: none is blocked.
LEMMA NothingCollected ==
  ASSUME NEW states, CollectBlocked(states) = {} PROVE NoneBlocked(states)
BY DEF CollectBlocked, RootCauses, NoneBlocked

\* What a concatenation has at its positions.
LEMMA ConcatParts ==
  ASSUME NEW S, NEW s \in Seq(S), NEW t \in Seq(S)
  PROVE  /\ \A i \in DOMAIN s : i \in DOMAIN (s \o t) /\ (s \o t)[i] = s[i]
         /\ \A i \in DOMAIN t : \E k \in DOMAIN (s \o t) : (s \o t)[k] = t[i]
         /\ \A k \in DOMAIN (s \o t) : \/ \E i \in DOMAIN s : (s \o t)[k] = s[i]
                                       \/ \E i \in DOMAIN t : (s \o t)[k] = t[i]
<1> DEFINE m == Len(s) n == Len(t)
<1>1. /\ DOMAIN s = 1 .. m /\ DOMAIN t = 1 .. n /\ DOMAIN (s \o t) = 1 .. m + n
      /\ m \in Nat /\ n \in Nat
  BY ConcatProperties, LenProperties
<1>2. \A i \in 1 .. m + n : (s \o t)[i] = IF i <= m THEN s[i] ELSE t[i - m]
  BY ConcatProperties
<1> HIDE DEF m, n
<1>3. \A i \in 1 .. n : (s \o t)[i + m] = t[i]
  <2> SUFFICES ASSUME NEW i \in 1 .. n PROVE (s \o t)[i + m] = t[i]
    OBVIOUS
  <2>1. i + m \in 1 .. m + n /\ ~(i + m <= m) /\ (i + m) - m = i
    BY <1>1
  <2> QED
    BY <2>1, <1>2
<1>4. \A k \in 1 .. m + n : k \in 1 .. m \/ k - m \in 1 .. n
  BY <1>1
<1>5. \A k \in 1 .. m + n : \/ \E i \in 1 .. m : (s \o t)[k] = s[i]
                            \/ \E i \in 1 .. n : (s \o t)[k] = t[i]
  BY <1>1, <1>2, <1>4
<1>6. \A i \in 1 .. m : i \in 1 .. m + n /\ (s \o t)[i] = s[i]
  BY <1>1, <1>2
<1>7. \A i \in 1 .. n : i + m \in 1 .. m + n
  BY <1>1
<1> QED
  BY ONLY <1>1, <1>3, <1>5, <1>6, <1>7

\* None is blocked of a concatenation: none is of its parts.
LEMMA NoneBlockedParts ==
  ASSUME NEW S, NEW s \in Seq(S), NEW t \in Seq(S), NoneBlocked(s \o t)
  PROVE  NoneBlocked(s) /\ NoneBlocked(t)
<1>1. /\ \A i \in DOMAIN s : i \in DOMAIN (s \o t) /\ (s \o t)[i] = s[i]
      /\ \A i \in DOMAIN t : \E k \in DOMAIN (s \o t) : (s \o t)[k] = t[i]
  BY ConcatParts
<1>2. \A k \in DOMAIN (s \o t) : (s \o t)[k].status # "blocked"
  BY DEF NoneBlocked
<1>3. \A i \in DOMAIN s : s[i].status # "blocked"
  BY ONLY <1>1, <1>2
<1>4. \A i \in DOMAIN t : t[i].status # "blocked"
  BY ONLY <1>1, <1>2
<1> QED
  BY <1>3, <1>4 DEF NoneBlocked

\* Fields that are settled stay so in a concatenation.
LEMMA AllJoined ==
  ASSUME NEW S, NEW s \in Seq(S), NEW t \in Seq(S), AllOk(s), AllOk(t)
  PROVE  AllOk(s \o t)
BY ConcatParts DEF AllOk

\* Concatenations of the short sequences that the jobs are written from: one and one.
LEMMA Joins11 ==
  ASSUME NEW a, NEW b
  PROVE  <<a>> \o <<b>> = <<a, b>>
<1> DEFINE S == {a, b}  w == <<a>> \o <<b>>
<1>1. <<a>> \in Seq(S) /\ <<b>> \in Seq(S) /\ Len(<<a>>) = 1 /\ Len(<<b>>) = 1
  OBVIOUS
<1> HIDE DEF S
<1>2. w \in Seq(S) /\ Len(w) = 2 /\ \A i \in 1 .. 2 : w[i] = IF i <= 1 THEN <<a>>[i] ELSE <<b>>[i - 1]
  BY <1>1, ConcatProperties
<1> HIDE DEF w
<1>3. w[1] = a /\ w[2] = b
  BY <1>2
<1>4. w = <<a, b>>
  BY <1>2, <1>3
<1> QED
  BY <1>4 DEF w

\* Two and one.
LEMMA Joins21 ==
  ASSUME NEW a, NEW b, NEW c
  PROVE  <<a, b>> \o <<c>> = <<a, b, c>>
<1> DEFINE S == {a, b, c}  w == <<a, b>> \o <<c>>
<1>1. <<a, b>> \in Seq(S) /\ <<c>> \in Seq(S) /\ Len(<<a, b>>) = 2 /\ Len(<<c>>) = 1
  OBVIOUS
<1> HIDE DEF S
<1>2. w \in Seq(S) /\ Len(w) = 3 /\ \A i \in 1 .. 3 : w[i] = IF i <= 2 THEN <<a, b>>[i] ELSE <<c>>[i - 2]
  BY <1>1, ConcatProperties
<1> HIDE DEF w
<1>3. w[1] = a /\ w[2] = b /\ w[3] = c
  BY <1>2
<1>4. w = <<a, b, c>>
  BY <1>2, <1>3
<1> QED
  BY <1>4 DEF w

\* Two and two.
LEMMA Joins22 ==
  ASSUME NEW a, NEW b, NEW c, NEW d
  PROVE  <<a, b>> \o <<c, d>> = <<a, b, c, d>>
<1> DEFINE S == {a, b, c, d}  w == <<a, b>> \o <<c, d>>
<1>1. <<a, b>> \in Seq(S) /\ <<c, d>> \in Seq(S) /\ Len(<<a, b>>) = 2 /\ Len(<<c, d>>) = 2
  OBVIOUS
<1> HIDE DEF S
<1>2. w \in Seq(S) /\ Len(w) = 4 /\ \A i \in 1 .. 4 : w[i] = IF i <= 2 THEN <<a, b>>[i] ELSE <<c, d>>[i - 2]
  BY <1>1, ConcatProperties
<1> HIDE DEF w
<1>3. w[1] = a /\ w[2] = b /\ w[3] = c /\ w[4] = d
  BY <1>2
<1>4. w = <<a, b, c, d>>
  BY <1>2, <1>3
<1> QED
  BY <1>4 DEF w

\* One and four.
LEMMA Joins14 ==
  ASSUME NEW a, NEW b, NEW c, NEW d, NEW e
  PROVE  <<a>> \o <<b, c, d, e>> = <<a, b, c, d, e>>
<1> DEFINE S == {a, b, c, d, e}  w == <<a>> \o <<b, c, d, e>>
<1>1. <<a>> \in Seq(S) /\ <<b, c, d, e>> \in Seq(S) /\ Len(<<a>>) = 1 /\ Len(<<b, c, d, e>>) = 4
  OBVIOUS
<1> HIDE DEF S
<1>2. w \in Seq(S) /\ Len(w) = 5 /\ \A i \in 1 .. 5 : w[i] = IF i <= 1 THEN <<a>>[i] ELSE <<b, c, d, e>>[i - 1]
  BY <1>1, ConcatProperties
<1> HIDE DEF w
<1>3. w[1] = a /\ w[2] = b /\ w[3] = c /\ w[4] = d /\ w[5] = e
  BY <1>2
<1>4. w = <<a, b, c, d, e>>
  BY <1>2, <1>3
<1> QED
  BY <1>4 DEF w

\* One and five.
LEMMA Joins15 ==
  ASSUME NEW a, NEW b, NEW c, NEW d, NEW e, NEW f
  PROVE  <<a>> \o <<b, c, d, e, f>> = <<a, b, c, d, e, f>>
<1> DEFINE S == {a, b, c, d, e, f}  w == <<a>> \o <<b, c, d, e, f>>
<1>1. <<a>> \in Seq(S) /\ <<b, c, d, e, f>> \in Seq(S) /\ Len(<<a>>) = 1 /\ Len(<<b, c, d, e, f>>) = 5
  OBVIOUS
<1> HIDE DEF S
<1>2. w \in Seq(S) /\ Len(w) = 6 /\ \A i \in 1 .. 6 : w[i] = IF i <= 1 THEN <<a>>[i] ELSE <<b, c, d, e, f>>[i - 1]
  BY <1>1, ConcatProperties
<1> HIDE DEF w
<1>3. w[1] = a /\ w[2] = b /\ w[3] = c /\ w[4] = d /\ w[5] = e /\ w[6] = f
  BY <1>2
<1>4. w = <<a, b, c, d, e, f>>
  BY <1>2, <1>3
<1> QED
  BY <1>4 DEF w

\* None and four.
LEMMA JoinsNone == ASSUME NEW a, NEW b, NEW c, NEW d PROVE <<>> \o <<a, b, c, d>> = <<a, b, c, d>>
<1>1. <<a, b, c, d>> \in Seq({a, b, c, d})
  OBVIOUS
<1> QED
  BY <1>1, ConcatEmptySeq

-----------------------------------------------------------------------------
(* Tasks, and a request whose report is empty.                             *)

\* The tasks.
LEMMA TasksAre ==
  Tasks = {"scf_single_point", "relax", "vc_relax", "dos", "band", "phonon", "relax_phonon", "vc_relax_phonon"}
BY DEF Tasks, TaskSteps

\* The first step of each task and the steps that have advice of their own.
LEMMA StepsAre ==
  /\ FirstStep("scf_single_point") = "scf" /\ ElectronicSteps("scf_single_point") = {"scf"}
  /\ FirstStep("relax") = "relax" /\ ElectronicSteps("relax") = {"relax"}
  /\ FirstStep("vc_relax") = "vc-relax" /\ ElectronicSteps("vc_relax") = {"vc-relax"}
  /\ FirstStep("dos") = "scf" /\ ElectronicSteps("dos") = {"scf", "nscf"}
  /\ FirstStep("band") = "scf" /\ ElectronicSteps("band") = {"scf", "bands"}
  /\ FirstStep("phonon") = "scf" /\ ElectronicSteps("phonon") = {"scf"}
  /\ FirstStep("relax_phonon") = "relax" /\ ElectronicSteps("relax_phonon") = {"relax"}
  /\ FirstStep("vc_relax_phonon") = "vc-relax" /\ ElectronicSteps("vc_relax_phonon") = {"vc-relax"}
<1>1. FirstStep("scf_single_point") = "scf" /\ ElectronicSteps("scf_single_point") = {"scf"}
  <2>1. TaskSteps["scf_single_point"] = <<"scf">>
    BY DEF TaskSteps
  <2>2. Steps("scf_single_point") = {"scf"}
    BY <2>1 DEF Steps
  <2> QED
    BY <2>1, <2>2 DEF FirstStep, ElectronicSteps, PwSteps
<1>2. FirstStep("relax") = "relax" /\ ElectronicSteps("relax") = {"relax"}
  <2>1. TaskSteps["relax"] = <<"relax">>
    BY DEF TaskSteps
  <2>2. Steps("relax") = {"relax"}
    BY <2>1 DEF Steps
  <2> QED
    BY <2>1, <2>2 DEF FirstStep, ElectronicSteps, PwSteps
<1>3. FirstStep("vc_relax") = "vc-relax" /\ ElectronicSteps("vc_relax") = {"vc-relax"}
  <2>1. TaskSteps["vc_relax"] = <<"vc-relax">>
    BY DEF TaskSteps
  <2>2. Steps("vc_relax") = {"vc-relax"}
    BY <2>1 DEF Steps
  <2> QED
    BY <2>1, <2>2 DEF FirstStep, ElectronicSteps, PwSteps
<1>4. FirstStep("dos") = "scf" /\ ElectronicSteps("dos") = {"scf", "nscf"}
  <2>1. TaskSteps["dos"] = <<"scf", "nscf", "dos">>
    BY DEF TaskSteps
  <2>2. Steps("dos") = {"scf", "nscf", "dos"}
    BY <2>1 DEF Steps
  <2> QED
    BY <2>1, <2>2 DEF FirstStep, ElectronicSteps, PwSteps
<1>5. FirstStep("band") = "scf" /\ ElectronicSteps("band") = {"scf", "bands"}
  <2>1. TaskSteps["band"] = <<"scf", "bands", "bands_x">>
    BY DEF TaskSteps
  <2>2. Steps("band") = {"scf", "bands", "bands_x"}
    BY <2>1 DEF Steps
  <2> QED
    BY <2>1, <2>2 DEF FirstStep, ElectronicSteps, PwSteps
<1>6. FirstStep("phonon") = "scf" /\ ElectronicSteps("phonon") = {"scf"}
  <2>1. TaskSteps["phonon"] = <<"scf", "ph", "q2r", "phonon_dos", "dispersion">>
    BY DEF TaskSteps
  <2>2. Steps("phonon") = {"scf", "ph", "q2r", "phonon_dos", "dispersion"}
    BY <2>1 DEF Steps
  <2> QED
    BY <2>1, <2>2 DEF FirstStep, ElectronicSteps, PwSteps
<1>7. FirstStep("relax_phonon") = "relax" /\ ElectronicSteps("relax_phonon") = {"relax"}
  <2>1. TaskSteps["relax_phonon"] = <<"relax", "ph", "q2r", "phonon_dos", "dispersion">>
    BY DEF TaskSteps
  <2>2. Steps("relax_phonon") = {"relax", "ph", "q2r", "phonon_dos", "dispersion"}
    BY <2>1 DEF Steps
  <2> QED
    BY <2>1, <2>2 DEF FirstStep, ElectronicSteps, PwSteps
<1>8. FirstStep("vc_relax_phonon") = "vc-relax" /\ ElectronicSteps("vc_relax_phonon") = {"vc-relax"}
  <2>1. TaskSteps["vc_relax_phonon"] = <<"vc-relax", "ph", "q2r", "phonon_dos", "dispersion">>
    BY DEF TaskSteps
  <2>2. Steps("vc_relax_phonon") = {"vc-relax", "ph", "q2r", "phonon_dos", "dispersion"}
    BY <2>1 DEF Steps
  <2> QED
    BY <2>1, <2>2 DEF FirstStep, ElectronicSteps, PwSteps
<1> QED
  BY <1>1, <1>2, <1>3, <1>4, <1>5, <1>6, <1>7, <1>8

\* The pw.x steps of each task, as positions.
LEMMA OrderOf ==
  ASSUME NEW t \in Tasks
  PROVE  /\ {i \in DOMAIN TaskSteps[t] : TaskSteps[t][i] \in PwSteps} \subseteq Nat
         /\ \A step \in ElectronicSteps(t) :
              \E i \in DOMAIN TaskSteps[t] : TaskSteps[t][i] = step /\ step \in PwSteps
<1>1. DOMAIN TaskSteps[t] \subseteq Nat
  BY DEF Tasks, TaskSteps
<1>2. \A step \in ElectronicSteps(t) :
        \E i \in DOMAIN TaskSteps[t] : TaskSteps[t][i] = step /\ step \in PwSteps
  BY DEF ElectronicSteps, Steps
<1> QED
  BY ONLY <1>1, <1>2

\* A request whose report is empty.
Ready == PipelineInv /\ pc \in FromChecked /\ report = {}

\* What the pipeline invariant says of a request whose report is empty.
LEMMA ReadyIs ==
  Ready => /\ RequestOK /\ HumanIs /\ AnalysisIs /\ MethodIs /\ CellIs /\ PseudoIs /\ RestIs
           /\ ElectronicIs /\ SharedIs /\ ReportIs
BY DEF Ready, PipelineInv, FromRouted, FromAnalysed, FromMethod, FromCell,
     FromPseudopotentials, FromSettled, FromSampled, FromAdvised, FromChecked

\* A merged report is empty only if both its parts are.
LEMMA NoneMerged ==
  ASSUME NEW findings, NEW found, Merged(findings, found) = {}
  PROVE  findings = {} /\ found = {}
<1>1. found = {}
  BY DEF Merged
<1>2. Replacing(findings, found) = findings
  BY <1>1 DEF Replacing
<1> QED
  BY <1>1, <1>2 DEF Merged

\* An empty report found nothing about any step, about the densities or about the phonons.
LEMMA NothingFound ==
  ASSUME Ready
  PROVE  /\ \A step \in DOMAIN electronic : CheckAll(AdviceOf(step)) = {}
         /\ task = "dos" => NoneBlocked(<<shared.dos>>)
         /\ task \in PhononTasks => /\ PhononFound(AdviceOf(FirstStep(task)), shared.phonon) = {}
                                    /\ NoneBlocked(shared.phonon)
<1> DEFINE first == FirstStep(task)
<1>1. /\ task \in Tasks /\ report = {} /\ report = CheckTask(task, Advices, shared.dos, shared.phonon)
      /\ DOMAIN electronic = ElectronicSteps(task)
  BY ReadyIs DEF Ready, ReportIs, RequestOK, ElectronicIs
<1>2. \A step \in DOMAIN electronic : Advices[step] = AdviceOf(step)
  BY DEF Advices
<1>3. CASE task = "dos"
  <2>1. CheckAll(Advices["scf"]) = {} /\ CheckAll(Advices["nscf"]) = {} /\ CollectBlocked(<<shared.dos>>) = {}
    BY <1>1, <1>3 DEF CheckTask, PhononTasks
  <2>2. DOMAIN electronic = {"scf", "nscf"} /\ task \notin PhononTasks
    BY <1>1, <1>3, StepsAre DEF PhononTasks
  <2> QED
    BY <2>1, <2>2, <1>2, NothingCollected
<1>4. CASE task = "band"
  <2>1. CheckAll(Advices["scf"]) = {} /\ CheckAll(Advices["bands"]) = {}
    BY <1>1, <1>4 DEF CheckTask, PhononTasks
  <2>2. DOMAIN electronic = {"scf", "bands"} /\ task \notin PhononTasks /\ task # "dos"
    BY <1>1, <1>4, StepsAre DEF PhononTasks
  <2> QED
    BY <2>1, <2>2, <1>2
<1>5. CASE task \in PhononTasks
  <2>1. DOMAIN electronic = {first} /\ task # "dos" /\ task # "band"
    BY <1>1, <1>5, StepsAre DEF PhononTasks
  <2>2. Advices[first] = AdviceOf(first)
    BY <2>1, <1>2
  <2>3. WithPhononFindings(CheckAll(Advices[first]), Advices[first], shared.phonon) = {}
    BY <1>1, <1>5, <2>1 DEF CheckTask
  <2>4. /\ Merged(CheckAll(Advices[first]), PhononFound(Advices[first], shared.phonon)) = {}
        /\ CollectBlocked(shared.phonon) = {}
    BY <2>3 DEF WithPhononFindings
  <2>5. CheckAll(Advices[first]) = {} /\ PhononFound(Advices[first], shared.phonon) = {}
    BY <2>4, NoneMerged
  <2> QED
    BY <2>1, <2>2, <2>4, <2>5, NothingCollected
<1>6. CASE task \notin PhononTasks \cup {"dos", "band"}
  <2>1. DOMAIN electronic = {first}
    BY <1>1, <1>6, StepsAre, TasksAre DEF PhononTasks
  <2>2. CheckAll(Advices[first]) = {}
    BY <1>1, <1>6 DEF CheckTask
  <2> QED
    BY <2>1, <2>2, <1>2, <1>6
<1> QED
  BY <1>3, <1>4, <1>5, <1>6

-----------------------------------------------------------------------------
(* What an empty report says is settled.                                   *)

\* The rules about one step that the rest of this proof leans on, when they found nothing.
LEMMA RulesMute ==
  ASSUME NEW a, CheckAll(a) = {}
  PROVE  /\ NoneBlocked(a.analysis) /\ NoneBlocked(CheckedStates(a))
         /\ FixedOccupationsNeedsIntegerMoment(a) = {} /\ FixedOccupationsNeedsEvenElectronCount(a) = {}
         /\ NbndHoldsEveryElectron(a) = {} /\ BandsXRefusesTotMagnetization(a) = {}
         /\ IsolationMatchesWrittenCell(a) = {} /\ FixBottomLayersRequiresSlab(a) = {}
         /\ NpoolMustDivideNtasks(a) = {}
<1>1. CollectBlocked(a.analysis) = {} /\ CollectBlocked(CheckedStates(a)) = {}
  BY DEF CheckAll
<1>2. NoneBlocked(a.analysis) /\ NoneBlocked(CheckedStates(a))
  BY <1>1, NothingCollected
<1>3. /\ FixedOccupationsNeedsIntegerMoment(a) = {} /\ FixedOccupationsNeedsEvenElectronCount(a) = {}
      /\ NbndHoldsEveryElectron(a) = {} /\ BandsXRefusesTotMagnetization(a) = {}
  BY DEF CheckAll
<1>4. /\ IsolationMatchesWrittenCell(a) = {} /\ FixBottomLayersRequiresSlab(a) = {}
      /\ NpoolMustDivideNtasks(a) = {}
  BY DEF CheckAll
<1> QED
  BY <1>2, <1>3, <1>4

\* The fields of a step that the report looks at, when none is blocked.
LEMMA CheckedFields ==
  ASSUME NEW a, NoneBlocked(CheckedStates(a))
  PROVE  /\ a.step.occupations.status # "blocked" /\ a.step.nbnd.status # "blocked"
         /\ a.system.electronCount.status # "blocked" /\ a.system.boundary.status # "blocked"
         /\ a.system.vdw.status # "blocked" /\ a.system.table.status # "blocked"
         /\ a.parallel.status # "blocked"
         /\ (a.purpose \in RelaxSteps => a.relax.status # "blocked")
<1> DEFINE s1 == SystemStates(a.system)
           s2 == ElectronicStates(a.step, a.purpose)
           s3 == << a.step.occupations, a.system.magnetic, a.system.electronCount, a.system.boundary,
                    a.system.vdw, a.system.functional, a.job, a.parallel, a.step.nbnd >>
           s4 == IF a.purpose \in RelaxSteps THEN <<a.relax>> ELSE <<>>
           S == { a.system.table, a.system.metadata, a.system.relativistic, a.system.symmetryEff,
                  a.system.cutoffs, a.system.hubbard }
                \cup { a.step.sampling, a.step.convergence, a.step.nIrrK }
                \cup { a.step.occupations, a.system.magnetic, a.system.electronCount, a.system.boundary,
                       a.system.vdw, a.system.functional, a.job, a.parallel, a.step.nbnd, a.relax }
<1>1. s1 \in Seq(S)
  BY DEF SystemStates
<1>2. s2 \in Seq(S)
  <2> DEFINE t == <<a.step.sampling, a.step.convergence>>
             u == IF a.purpose = "bands" THEN <<>> ELSE <<a.step.nIrrK>>
  <2>1. t \in Seq(S)
    OBVIOUS
  <2>2. u \in Seq(S)
    <3>1. <<>> \in Seq(S) /\ <<a.step.nIrrK>> \in Seq(S)
      OBVIOUS
    <3> QED
      BY ONLY <3>1
  <2>3. s2 = t \o u
    BY DEF ElectronicStates
  <2> HIDE DEF t, u, s2, S
  <2> QED
    BY <2>1, <2>2, <2>3, ConcatProperties
<1>3. s3 \in Seq(S)
  OBVIOUS
<1>4. s4 \in Seq(S)
  <2>1. <<>> \in Seq(S) /\ <<a.relax>> \in Seq(S)
    OBVIOUS
  <2> QED
    BY ONLY <2>1
<1>5. CheckedStates(a) = s1 \o s2 \o s3 \o s4
  BY DEF CheckedStates
<1> HIDE DEF S
<1>6. NoneBlocked(s1) /\ NoneBlocked(s3) /\ NoneBlocked(s4)
  <2> HIDE DEF s1, s2, s3, s4
  <2>1. s1 \o s2 \in Seq(S) /\ s1 \o s2 \o s3 \in Seq(S)
    BY <1>1, <1>2, <1>3, ConcatProperties
  <2>2. NoneBlocked(s1 \o s2 \o s3) /\ NoneBlocked(s4)
    BY <1>4, <1>5, <2>1, NoneBlockedParts
  <2>3. NoneBlocked(s1 \o s2) /\ NoneBlocked(s3)
    BY <2>1, <2>2, <1>3, NoneBlockedParts
  <2> QED
    BY <2>2, <2>3, <1>1, <1>2, NoneBlockedParts
<1>7. a.system.table.status # "blocked"
  BY <1>6 DEF NoneBlocked, SystemStates
<1>8. /\ s3[1].status # "blocked" /\ s3[3].status # "blocked" /\ s3[4].status # "blocked"
      /\ s3[5].status # "blocked" /\ s3[8].status # "blocked" /\ s3[9].status # "blocked"
  <2>1. DOMAIN s3 = 1 .. 9
    OBVIOUS
  <2> HIDE DEF s3
  <2> QED
    BY <1>6, <2>1 DEF NoneBlocked
<1>9. a.purpose \in RelaxSteps => a.relax.status # "blocked"
  BY <1>6 DEF NoneBlocked
<1> QED
  BY <1>7, <1>8, <1>9

-----------------------------------------------------------------------------

\* The fields of a step that are settled.
LEMMA ResolvedIs ==
  ASSUME NEW value, NEW source
  PROVE  Resolved(value, source).ok /\ Resolved(value, source).value = value
         /\ Resolved(value, source).source = source /\ Resolved(value, source).status = "resolved"
BY DEF Resolved

\* What is blocked is not settled, and says so.
LEMMA BlockedIs ==
  ASSUME NEW state
  PROVE  ~BlockedBy(state).ok /\ BlockedBy(state).status = "blocked"
BY DEF BlockedBy, Blocked

\* The job is blocked by the first field that its memory cannot be read off.
LEMMA JobIs ==
  ASSUME NEW s, NEW sys, NEW of, NEW r, NEW h, NEW t
  PROVE  LET order == {i \in DOMAIN TaskSteps[t] : TaskSteps[t][i] \in PwSteps}
             needs(e) == <<sys.cutoffs, sys.metadata, sys.magnetic, sys.hubbard,
                           e.nbnd, e.nIrrK, e.convergence>>
             found == [i \in order |-> FirstUnresolved(needs(of[TaskSteps[t][i]]))]
         IN  ~FirstUnresolved(found).ok =>
               TaskResources(s, sys, of, r, h, t).job = BlockedBy(FirstUnresolved(found))
BY DEF TaskResources

\* The layout of a step is blocked with the job, and else is made of its tasks.
LEMMA LayoutsAre ==
  ASSUME NEW s, NEW sys, NEW of, NEW r, NEW h, NEW t, NEW x \in DOMAIN of, NEW resources,
         resources = TaskResources(s, sys, of, r, h, t)
  PROVE  /\ ~resources.job.ok => resources.parallel[x] = BlockedBy(resources.job)
         /\ resources.job.ok =>
              resources.parallel[x] =
                Resolved(Layout(resources.job.value.ntasks,
                                KpointSpinPairs(of[x].nIrrK.value, sys.magnetic),
                                StepValue(r, x, "npool"), StepValue(r, x, "ndiag")), "heuristic")
<1> DEFINE order == {i \in DOMAIN TaskSteps[t] : TaskSteps[t][i] \in PwSteps}
           needs(e) == <<sys.cutoffs, sys.metadata, sys.magnetic, sys.hubbard,
                         e.nbnd, e.nIrrK, e.convergence>>
           found == [i \in order |-> FirstUnresolved(needs(of[TaskSteps[t][i]]))]
           unresolved == FirstUnresolved(found)
           pairs == [step \in DOMAIN of |-> KpointSpinPairs(of[step].nIrrK.value, sys.magnetic)]
           steps == { [ pairs |-> pairs[step], nbnd |-> of[step].nbnd.value,
                        npool |-> StepValue(r, step, "npool"),
                        ndiag |-> StepValue(r, step, "ndiag") ] : step \in DOMAIN of }
           job == IF ~unresolved.ok THEN BlockedBy(unresolved)
                  ELSE IF ~s.projectors THEN Unavailable("projectors")
                  ELSE JobResources(s, steps, h, t \in PhononTasks)
           layouts == [step \in DOMAIN of |->
                        IF ~job.ok THEN BlockedBy(job)
                        ELSE Resolved(Layout(job.value.ntasks, pairs[step], StepValue(r, step, "npool"),
                                             StepValue(r, step, "ndiag")), "heuristic")]
<1>1. resources = [job |-> job, parallel |-> layouts]
  <2>1. TaskResources(s, sys, of, r, h, t) = [job |-> job, parallel |-> layouts]
    BY ONLY SMTT(60) DEF TaskResources
  <2> HIDE DEF job, layouts
  <2> QED
    BY <2>1
<1> HIDE DEF job
<1>2. layouts[x] = IF ~job.ok THEN BlockedBy(job)
                      ELSE Resolved(Layout(job.value.ntasks,
                                      KpointSpinPairs(of[x].nIrrK.value, sys.magnetic),
                                      StepValue(r, x, "npool"), StepValue(r, x, "ndiag")), "heuristic")
  OBVIOUS
<1> HIDE DEF layouts
<1>3. resources.job = job /\ resources.parallel = layouts
  BY <1>1
<1> QED
  BY <1>2, <1>3

\* The job waits for what its memory is read off.
LEMMA JobWaits ==
  ASSUME Ready, NEW step \in DOMAIN electronic
  PROVE  /\ shared.resources.job.ok /\ shared.resources.parallel[step].ok
         /\ system.cutoffs.ok /\ system.metadata.ok /\ system.magnetic.ok /\ system.hubbard.ok
         /\ electronic[step].nbnd.ok /\ electronic[step].nIrrK.ok /\ electronic[step].convergence.ok
<1> DEFINE a == AdviceOf(step)
           resources == shared.resources
           order == {i \in DOMAIN TaskSteps[task] : TaskSteps[task][i] \in PwSteps}
           needs(e) == <<system.cutoffs, system.metadata, system.magnetic, system.hubbard,
                         e.nbnd, e.nIrrK, e.convergence>>
           found == [i \in order |-> FirstUnresolved(needs(electronic[TaskSteps[task][i]]))]
           unresolved == FirstUnresolved(found)
<1>1. CheckAll(a) = {}
  BY NothingFound
<1>2. resources = TaskResources(site, system, electronic, request, human, task)
  BY ReadyIs DEF SharedIs
<1>3. resources.parallel[step].status # "blocked"
  <2> HIDE DEF a
  <2>1. NoneBlocked(CheckedStates(a))
    BY ONLY <1>1, RulesMute
  <2>2. a.parallel.status # "blocked"
    BY ONLY <2>1, CheckedFields
  <2>3. a.parallel = resources.parallel[step]
    BY DEF a, AdviceOf
  <2> QED
    BY ONLY <2>2, <2>3
<1>4. resources.job.ok /\ resources.parallel[step].ok
  <2>1. resources.job.ok
    <3> SUFFICES ASSUME ~resources.job.ok PROVE FALSE
      OBVIOUS
    <3>1. resources.parallel[step] = BlockedBy(resources.job)
      BY ONLY <1>2, ~resources.job.ok, step \in DOMAIN electronic, LayoutsAre
    <3> QED
      BY ONLY <1>3, <3>1, BlockedIs
  <2>2. \E value : resources.parallel[step] = Resolved(value, "heuristic")
    BY ONLY <1>2, <2>1, step \in DOMAIN electronic, LayoutsAre
  <2> QED
    BY ONLY <2>1, <2>2, ResolvedIs
<1>5. unresolved.ok
  <2> SUFFICES ASSUME ~unresolved.ok PROVE FALSE
    OBVIOUS
  <2>1. resources.job = BlockedBy(unresolved)
    BY ONLY <1>2, ~unresolved.ok, JobIs
  <2> QED
    BY ONLY <1>4, <2>1, BlockedIs
<1>6. task \in Tasks /\ DOMAIN electronic = ElectronicSteps(task)
  BY ReadyIs DEF RequestOK, ElectronicIs
<1>7. \A i \in order : found[i].ok
  <2>1. DOMAIN found = order /\ order \subseteq Nat
    BY <1>6, OrderOf
  <2> HIDE DEF found, order
  <2> QED
    BY <1>5, <2>1, FirstOk
<1>8. FirstUnresolved(needs(electronic[step])).ok
  <2>1. PICK i \in DOMAIN TaskSteps[task] : TaskSteps[task][i] = step /\ step \in PwSteps
    BY <1>6, OrderOf
  <2>2. i \in order
    BY <2>1
  <2>3. found[i] = FirstUnresolved(needs(electronic[step]))
    BY <2>1, <2>2
  <2> QED
    BY <1>7, <2>2, <2>3
<1>9. \A i \in 1 .. 7 : needs(electronic[step])[i].ok
  <2>1. DOMAIN needs(electronic[step]) = 1 .. 7
    OBVIOUS
  <2> HIDE DEF needs
  <2> QED
    BY <1>8, <2>1, FirstOk
<1> QED
  BY <1>4, <1>9

\* The advice of a step, as the rules of the report read it.
LEMMA AdviceIs ==
  ASSUME NEW step
  PROVE  /\ AdviceOf(step).structure = site /\ AdviceOf(step).purpose = step
         /\ AdviceOf(step).analysis = analysis /\ AdviceOf(step).system = system
         /\ AdviceOf(step).step = electronic[step] /\ AdviceOf(step).job = shared.resources.job
         /\ AdviceOf(step).parallel = shared.resources.parallel[step]
         /\ AdviceOf(step).relax = shared.relax[step]
BY DEF AdviceOf

\* An empty report: none of the fields it looks at is blocked.
LEMMA NotBlocked ==
  ASSUME Ready, NEW step \in DOMAIN electronic
  PROVE  /\ NoneBlocked(analysis)
         /\ electronic[step].occupations.status # "blocked"
         /\ system.electronCount.status # "blocked" /\ system.boundary.status # "blocked"
         /\ system.vdw.status # "blocked" /\ system.table.status # "blocked"
         /\ (step \in RelaxSteps => shared.relax[step].status # "blocked")
<1> DEFINE a == AdviceOf(step)
<1>1. CheckAll(a) = {}
  BY NothingFound
<1> HIDE DEF a
<1>2. NoneBlocked(a.analysis) /\ NoneBlocked(CheckedStates(a))
  BY ONLY <1>1, RulesMute
<1>3. /\ a.step.occupations.status # "blocked"
      /\ a.system.electronCount.status # "blocked" /\ a.system.boundary.status # "blocked"
      /\ a.system.vdw.status # "blocked" /\ a.system.table.status # "blocked"
      /\ (a.purpose \in RelaxSteps => a.relax.status # "blocked")
  BY ONLY <1>2, CheckedFields
<1>4. /\ a.purpose = step /\ a.analysis = analysis /\ a.system = system
      /\ a.step = electronic[step] /\ a.relax = shared.relax[step]
  BY AdviceIs DEF a
<1> QED
  BY ONLY <1>2, <1>3, <1>4

\* Magnetism is settled only of a cell that is.
LEMMA CellOk ==
  ASSUME NEW cell, NEW metadata, Seeded(cell, metadata).ok, metadata.ok,
         metadata.status = "blocked" => ~metadata.ok
  PROVE  cell.ok
<1>1. Seeded(cell, metadata).ok => \E known : MagneticConfig(cell, known).ok
  BY DEF Seeded
<1>2. PICK known : MagneticConfig(cell, known).ok
  BY <1>1
<1> QED
  BY <1>2, BlockedIs DEF MagneticConfig

\* The states of a field.
IsResolved(state) == state = Resolved(state.value, state.source)

\* A field that is resolved is settled.
LEMMA ResolvedOk ==
  ASSUME NEW state, IsResolved(state) PROVE state.ok /\ state.status # "blocked"
<1>1. Resolved(state.value, state.source).ok /\ Resolved(state.value, state.source).status = "resolved"
  BY ResolvedIs
<1> QED
  BY <1>1 DEF IsResolved

\* One that is unavailable or blocked is not.
LEMMA UnresolvedNot ==
  ASSUME NEW by
  PROVE  ~Unavailable(by).ok /\ Unavailable(by).status = "unavailable"
         /\ ~Blocked(by).ok /\ Blocked(by).status = "blocked"
BY DEF Unavailable, Blocked

\* What resolves a value makes a resolved field.
LEMMA ResolvedForm ==
  ASSUME NEW value, NEW source PROVE IsResolved(Resolved(value, source))
BY DEF IsResolved, Resolved

\* What the cell is given is unavailable, or has a value of each pseudopotential.
LEMMA MetadataIs ==
  ASSUME NEW s, NEW cell, NEW functional, NEW h,
         PseudoAdvice(s, cell, functional, h).metadata.ok
  PROVE  /\ cell.ok
         /\ PseudoAdvice(s, cell, functional, h).table.ok
         /\ PseudoAdvice(s, cell, functional, h).table =
              SelectTable(h.pseudo_table_id, ElementsOf(s), functional.value, cell.value.soc)
         /\ PseudoAdvice(s, cell, functional, h).metadata =
              SelectMetadata(PseudoAdvice(s, cell, functional, h).table.value, ElementsOf(s))
         /\ IsResolved(PseudoAdvice(s, cell, functional, h).metadata)
         /\ DOMAIN PseudoAdvice(s, cell, functional, h).metadata.value = ElementsOf(s)
<1> DEFINE p == PseudoAdvice(s, cell, functional, h)
           t == SelectTable(h.pseudo_table_id, ElementsOf(s), functional.value, cell.value.soc)
<1>1. cell.ok
  <2> SUFFICES ASSUME ~cell.ok PROVE FALSE
    OBVIOUS
  <2>1. p.metadata = BlockedBy(cell)
    BY DEF PseudoAdvice
  <2> QED
    BY <2>1, BlockedIs
<1>2. p = PseudosOf(t, ElementsOf(s), cell.value.soc)
  BY <1>1 DEF PseudoAdvice, ResolvePseudopotentials
<1> HIDE DEF t
<1>3. t.ok
  <2> SUFFICES ASSUME ~t.ok PROVE FALSE
    OBVIOUS
  <2>1. p.metadata = BlockedBy(t)
    BY <1>2 DEF PseudosOf
  <2> QED
    BY <2>1, BlockedIs
<1>4. p.table = t /\ p.metadata = Metadata(t.value, ElementsOf(s))
  BY <1>2, <1>3 DEF PseudosOf
<1>5. p.metadata = SelectMetadata(t.value, ElementsOf(s))
  BY <1>4, UnresolvedNot DEF Metadata
<1>6. p.metadata = Resolved([e \in ElementsOf(s) |-> CHOOSE x \in t.value.pseudos[e] : TRUE], "heuristic")
  BY <1>5, UnresolvedNot DEF SelectMetadata
<1>7. /\ IsResolved(p.metadata)
      /\ p.metadata.value = [e \in ElementsOf(s) |-> CHOOSE x \in t.value.pseudos[e] : TRUE]
  BY ONLY <1>6, ResolvedForm, ResolvedIs
<1>8. DOMAIN p.metadata.value = ElementsOf(s)
  BY ONLY <1>7
<1> HIDE DEF p
<1> QED
  BY ONLY <1>1, <1>3, <1>4, <1>5, <1>7, <1>8 DEF p, t

\* An empty report: every field that a step of pw.x is written from is settled. Those that
\* the report does not look at are settled because the job, which it does, waits for them.
LEMMA Settled ==
  ASSUME Ready, NEW step \in DOMAIN electronic
  PROVE  /\ system.functional.ok /\ system.cell.ok /\ system.electronCount.ok /\ system.vdw.ok
         /\ system.boundary.ok /\ system.table.ok /\ electronic[step].occupations.ok
         /\ electronic[step].sampling.ok /\ (step \in RelaxSteps => shared.relax[step].ok)
<1>1. system.functional.ok
  BY ReadyIs, ResolvedIs DEF MethodIs, Functional
<1>2. system.metadata.ok /\ system.magnetic.ok
  BY JobWaits
<1>3. system.cell.ok /\ system.table.ok
  <2>1. /\ system.table = PseudoAdvice(site, system.cell, system.functional, human).table
        /\ system.metadata = PseudoAdvice(site, system.cell, system.functional, human).metadata
    BY ReadyIs DEF PseudoIs
  <2> QED
    BY <1>2, <2>1, MetadataIs
<1>4. system.electronCount.ok
  <2>1. system.electronCount = ElectronCount(site, system.cell, system.metadata, human)
    BY ReadyIs DEF RestIs
  <2>2. system.electronCount.status # "blocked"
    BY NotBlocked
  <2> QED
    BY ONLY <2>1, <2>2, <1>2, <1>3, UnresolvedNot, ResolvedIs DEF ElectronCount
<1>5. system.vdw.ok
  <2>1. system.vdw = VdwMethod(analysis.geometry, system.functional.value, human)
    BY ReadyIs DEF RestIs
  <2>2. system.vdw.status # "blocked"
    BY NotBlocked
  <2> DEFINE g == analysis.geometry
             f == system.functional.value
             fits == g.value.lowDimensional /\ HasD3BJParameters(f)
  <2>3. system.vdw = CASE human.use_vdw # None -> Resolved(human.use_vdw, "human")
                       [] human.use_vdw = None /\ f \in VdwInclusive -> Resolved(FALSE, "heuristic")
                       [] OTHER -> IF ~g.ok THEN BlockedBy(g) ELSE Resolved(fits, "heuristic")
    BY ONLY <2>1 DEF VdwMethod
  <2>4. /\ Resolved(human.use_vdw, "human").ok /\ Resolved(FALSE, "heuristic").ok
        /\ Resolved(fits, "heuristic").ok /\ BlockedBy(g).status = "blocked"
    BY ResolvedIs, BlockedIs
  <2> DEFINE r1 == Resolved(human.use_vdw, "human")
             r2 == Resolved(FALSE, "heuristic")
             r3 == Resolved(fits, "heuristic")
  <2>5. system.vdw = r1 \/ system.vdw = r2 \/ system.vdw = r3 \/ system.vdw = BlockedBy(g)
    <3> HIDE DEF fits, r1, r2
    <3> QED
      BY ONLY <2>3 DEF r1, r2, r3
  <2>6. r1.ok /\ r2.ok /\ r3.ok
    BY ResolvedIs
  <2> HIDE DEF r1, r2, r3
  <2> QED
    BY ONLY <2>2, <2>4, <2>5, <2>6
<1>6. system.boundary.ok
  <2>1. system.boundary = Boundary(system.geometryEff, analysis.symmetry, human)
    BY ReadyIs DEF RestIs
  <2>2. system.boundary.status # "blocked"
    BY NotBlocked
  <2> QED
    BY ONLY <2>1, <2>2, BlockedIs, ResolvedIs DEF Boundary
<1>7. /\ DOMAIN electronic = ElectronicSteps(task)
      /\ electronic[step] = ElectronicAdvice(analysis, system, request, task, step)
  BY ReadyIs DEF ElectronicIs
<1>8. electronic[step].occupations.ok
  <2> DEFINE own(s) == Occupations(analysis.isMetal, system.magnetic, system.electronCount,
                                   StepValue(request, s, "occupations"), Protocol(task, s))
  <2>1. electronic[step].occupations = IF step = "bands" THEN BandsOccupations(own("scf")) ELSE own(step)
    BY <1>7 DEF ElectronicAdvice
  <2>2. analysis.isMetal.status # "blocked"
    <3>1. NoneBlocked(analysis)
      BY NotBlocked
    <3>2. "isMetal" \in DOMAIN analysis
      BY ReadyIs DEF AnalysisIs, Analyze
    <3> QED
      BY ONLY <3>1, <3>2 DEF NoneBlocked
  <2>3. \A s : own(s).ok
    BY ONLY <2>2, ResolvedIs DEF Occupations
  <2> HIDE DEF own
  <2>4. BandsOccupations(own("scf")).ok
    BY ONLY <2>3, ResolvedIs DEF BandsOccupations
  <2> QED
    BY ONLY <2>1, <2>3, <2>4
<1>9. electronic[step].sampling.ok
  <2>1. electronic[step].nIrrK = IF electronic[step].sampling.ok THEN electronic[step].sampling
                                 ELSE BlockedBy(electronic[step].sampling)
    BY <1>7 DEF ElectronicAdvice
  <2>2. electronic[step].nIrrK.ok
    BY JobWaits
  <2> QED
    BY ONLY <2>1, <2>2, BlockedIs
<1>10. step \in RelaxSteps => shared.relax[step].ok
  <2> SUFFICES ASSUME step \in RelaxSteps PROVE shared.relax[step].ok
    OBVIOUS
  <2>1. shared.relax[step] = RelaxSettings(step, electronic[step].convergence, system.geometryEff, request)
    BY ReadyIs DEF SharedIs, RelaxOf
  <2>2. shared.relax[step].status # "blocked"
    BY NotBlocked
  <2>3. electronic[step].convergence.ok
    BY JobWaits
  <2> QED
    BY ONLY <2>1, <2>2, <2>3, UnresolvedNot, ResolvedIs DEF RelaxSettings, CellDofree
<1> QED
  BY <1>1, <1>3, <1>4, <1>5, <1>6, <1>8, <1>9, <1>10

\* The first conjunct of what a report that is empty promises.
LEMMA FieldsSettled ==
  ASSUME Ready, NEW step \in DOMAIN electronic
  PROVE  AllOk(Read(step))
<1> DEFINE s == << system.functional, system.cutoffs, system.electronCount, system.metadata, system.magnetic,
                   system.vdw, system.hubbard, system.boundary, electronic[step].occupations,
                   electronic[step].sampling, electronic[step].nbnd, electronic[step].convergence,
                   shared.resources.job, shared.resources.parallel[step] >>
           t == IF step \in RelaxSteps THEN <<shared.relax[step]>> ELSE <<>>
           S == { system.functional, system.cutoffs, system.electronCount, system.metadata, system.magnetic,
                   system.vdw, system.hubbard, system.boundary, electronic[step].occupations,
                   electronic[step].sampling, electronic[step].nbnd, electronic[step].convergence,
                   shared.resources.job, shared.resources.parallel[step], shared.relax[step] }
<1>1. s \in Seq(S)
  BY ONLY TRUE
<1>2. t \in Seq(S)
  <2>1. <<>> \in Seq(S) /\ <<shared.relax[step]>> \in Seq(S)
    BY ONLY TRUE
  <2> QED
    BY ONLY <2>1
<1>3. AllOk(s)
  <2>1. /\ s[1].ok /\ s[2].ok /\ s[3].ok /\ s[4].ok /\ s[5].ok /\ s[6].ok /\ s[7].ok /\ s[8].ok /\ s[9].ok
        /\ s[10].ok /\ s[11].ok /\ s[12].ok /\ s[13].ok /\ s[14].ok
    BY Settled, JobWaits
  <2>2. DOMAIN s = 1 .. 14
    BY ONLY TRUE
  <2> HIDE DEF s
  <2> QED
    BY ONLY <2>1, <2>2 DEF AllOk
<1>4. AllOk(t)
  BY Settled DEF AllOk
<1>5. Read(step) = s \o t
  BY DEF Read
<1> HIDE DEF s, t, S
<1> QED
  BY <1>1, <1>2, <1>3, <1>4, <1>5, AllJoined

-----------------------------------------------------------------------------
(* The numbers of a request.                                               *)

\* A value, or none.
Opt(S) == S \cup {None}

\* The quotients that the counts of bands take.
LEMMA Halving ==
  ASSUME NEW n \in Int
  PROVE  /\ n \div 2 \in Int /\ n \div 4 \in Int /\ n \div 8 \in Int /\ n \div 80 \in Int
         /\ 8 * (n \div 8) <= n /\ n < 8 * (n \div 8) + 8
         /\ 4 * (n \div 4) <= n /\ n < 4 * (n \div 4) + 4
         /\ n % 4 = n - 4 * (n \div 4) /\ n % 2 = n - 2 * (n \div 2)
OBVIOUS

\* Rounding to the nearest is off by no more than half.
LEMMA NintIs ==
  ASSUME NEW n \in Int
  PROVE  /\ Nint(n, 4) \in Int /\ Nint(n, 2) \in Int /\ Nint(n, 40) \in Int
         /\ n >= 0 => n < 4 * Nint(n, 4) + 2
         /\ n >= 0 => n < 2 * Nint(n, 2) + 1
<1>1. Nint(n, 4) = IF n >= 0 THEN (2 * n + 4) \div 8 ELSE -((4 - 2 * n) \div 8)
  BY DEF Nint
<1>2. Nint(n, 2) = IF n >= 0 THEN (2 * n + 2) \div 4 ELSE -((2 - 2 * n) \div 4)
  BY DEF Nint
<1>3. Nint(n, 40) = IF n >= 0 THEN (2 * n + 40) \div 80 ELSE -((40 - 2 * n) \div 80)
  BY DEF Nint
<1>4. 2 * n + 4 \in Int /\ 4 - 2 * n \in Int /\ 2 * n + 2 \in Int /\ 2 - 2 * n \in Int
      /\ 2 * n + 40 \in Int /\ 40 - 2 * n \in Int
  OBVIOUS
<1>5. (2 * n + 4) \div 8 \in Int /\ 2 * n + 4 < 8 * ((2 * n + 4) \div 8) + 8
  BY ONLY <1>4, Halving
<1>6. (2 * n + 2) \div 4 \in Int /\ 2 * n + 2 < 4 * ((2 * n + 2) \div 4) + 4
  BY ONLY <1>4, Halving
<1>7. (4 - 2 * n) \div 8 \in Int /\ (2 - 2 * n) \div 4 \in Int /\ (2 * n + 40) \div 80 \in Int
      /\ (40 - 2 * n) \div 80 \in Int
  BY ONLY <1>4, Halving
<1>8. Nint(n, 4) \in Int /\ Nint(n, 2) \in Int /\ Nint(n, 40) \in Int
  BY ONLY <1>1, <1>2, <1>3, <1>5, <1>6, <1>7
<1>9. n >= 0 => n < 4 * Nint(n, 4) + 2
  BY ONLY <1>1, <1>5, <1>8, n \in Int
<1>10. n >= 0 => n < 2 * Nint(n, 2) + 1
  BY ONLY <1>2, <1>6, <1>8, n \in Int
<1> QED
  BY <1>8, <1>9, <1>10

\* The larger of two numbers is no less than either.
LEMMA LargerIs ==
  ASSUME NEW a \in Int, NEW b \in Int
  PROVE  Larger(a, b) \in Int /\ a <= Larger(a, b) /\ b <= Larger(a, b)
BY DEF Larger

\* The magnitude of a number is it or its opposite.
LEMMA MagnitudeIs ==
  ASSUME NEW x \in Int
  PROVE  Magnitude(x) \in Nat /\ x <= Magnitude(x) /\ -x <= Magnitude(x)
         /\ (Magnitude(x) = x \/ Magnitude(x) = -x)
BY DEF Magnitude

\* The electrons of the two spins are numbers, told apart by the moment where it is pinned.
LEMMA ChannelsAre ==
  ASSUME NEW nelec \in Int, NEW tot \in Opt(Int)
  PROVE  /\ SpinChannels(nelec, tot)[1] \in Int /\ SpinChannels(nelec, tot)[2] \in Int
         /\ tot # None => SpinChannels(nelec, tot) = <<nelec + tot, nelec - tot>>
<1>1. CASE tot = None
  <2> DEFINE up == IF Whole(nelec) THEN 4 * ((nelec \div 2 + 1) \div 2) ELSE nelec
  <2>1. nelec \div 2 \in Int /\ nelec \div 2 + 1 \in Int
    BY Halving
  <2>2. (nelec \div 2 + 1) \div 2 \in Int
    BY ONLY <2>1, Halving
  <2>3. up \in Int
    BY ONLY <2>2, nelec \in Int
  <2> HIDE DEF up
  <2>4. SpinChannels(nelec, tot) = <<up, 2 * nelec - up>>
    BY <1>1 DEF SpinChannels, up
  <2> QED
    BY ONLY <2>3, <2>4, <1>1, nelec \in Int
<1>2. CASE tot # None
  BY <1>2 DEF SpinChannels, Opt
<1> QED
  BY <1>1, <1>2

\* They are numbers after a seed has moved some too.
LEMMA SeededAre ==
  ASSUME NEW nelec \in Int, NEW channels, channels[1] \in Int, channels[2] \in Int, NEW seeded \in Int
  PROVE  SeededChannels(nelec, channels, seeded)[1] \in Int
         /\ SeededChannels(nelec, channels, seeded)[2] \in Int
BY MagnitudeIs DEF SeededChannels

\* The default number of bands is a number,
LEMMA DefaultIs ==
  ASSUME NEW nelec \in Int, NEW channels, channels[1] \in Int, channels[2] \in Int,
         NEW metalLike \in BOOLEAN, NEW mode
  PROVE  DefaultNbnd(nelec, channels, metalLike, mode) \in Int
<1> DEFINE filled == Larger(Nint(nelec, 4), Larger(Nint(channels[1], 4), Nint(channels[2], 4)))
           room == Larger(Nint(12 * nelec, 40),
                     Larger(Nint(12 * channels[1], 40), Nint(12 * channels[2], 40)))
           bands == IF metalLike THEN Larger(room, filled + 4) ELSE filled
<1>1. filled \in Int
  <2>1. Nint(nelec, 4) \in Int /\ Nint(channels[1], 4) \in Int /\ Nint(channels[2], 4) \in Int
    BY NintIs
  <2> QED
    BY ONLY <2>1, LargerIs
<1>2. room \in Int
  <2>0. 12 * nelec \in Int /\ 12 * channels[1] \in Int /\ 12 * channels[2] \in Int
    OBVIOUS
  <2>1. Nint(12 * nelec, 40) \in Int /\ Nint(12 * channels[1], 40) \in Int /\ Nint(12 * channels[2], 40) \in Int
    BY <2>0, NintIs
  <2> QED
    BY ONLY <2>1, LargerIs
<1> HIDE DEF filled, room
<1>3. bands \in Int
  BY <1>1, <1>2, LargerIs
<1>4. DefaultNbnd(nelec, channels, metalLike, mode) = IF mode = "noncollinear" THEN 2 * bands ELSE bands
  BY DEF DefaultNbnd, filled, room
<1> HIDE DEF bands
<1> QED
  BY <1>3, <1>4

\* so is the one the protocol asks for,
LEMMA ProtocolIs ==
  ASSUME NEW nelec \in Int, NEW mode, NEW default \in Int
  PROVE  ProtocolNbnd(nelec, mode, default) \in Int
<1> DEFINE twice == IF mode = "noncollinear" THEN 2 * nelec ELSE nelec
<1>1. twice \in Int
  OBVIOUS
<1>2. ProtocolNbnd(nelec, mode, default) = Larger(default, Larger((3 * twice) \div 4, twice \div 4 + 4))
  BY DEF ProtocolNbnd
<1> HIDE DEF twice
<1>3. (3 * twice) \div 4 \in Int /\ twice \div 4 + 4 \in Int
  BY <1>1, Halving
<1> QED
  BY <1>2, <1>3, LargerIs

\* and so is the number of bands that is settled, whatever it is settled from.
LEMMA NbndIs ==
  ASSUME NEW nelec, nelec.value \in Int, NEW occupations, occupations.value.tot \in Opt(Int),
         NEW magnetic, magnetic.value.seeded \in Opt(Int), NEW count \in Opt(Int),
         NEW extra \in Opt(Int), NEW protocol,
         Nbnd(nelec, occupations, magnetic, count, extra, protocol).ok
  PROVE  Nbnd(nelec, occupations, magnetic, count, extra, protocol).value \in Int
<1> DEFINE in == SpinInputs(occupations.value, magnetic)
           metalLike == occupations.value.kind # "fixed"
           seeded == in.mode = "collinear" /\ metalLike /\ in.tot = None
           own == SpinChannels(nelec.value, in.tot)
           channels == IF seeded THEN SeededChannels(nelec.value, own, in.seeded) ELSE own
           default == DefaultNbnd(nelec.value, channels, metalLike, in.mode)
           sized == IF protocol = "bands" THEN ProtocolNbnd(nelec.value, in.mode, default) ELSE default
           total == sized + (IF extra = None THEN 0 ELSE extra)
           n == Nbnd(nelec, occupations, magnetic, count, extra, protocol)
<1>1. in.tot \in Opt(Int) /\ in.seeded \in Opt(Int)
  BY DEF SpinInputs, Opt
<1>2. own[1] \in Int /\ own[2] \in Int
  BY <1>1, ChannelsAre
<1>3. n = CASE ~nelec.ok -> BlockedBy(nelec)
        [] nelec.ok /\ count # None -> Resolved(count, "human")
        [] nelec.ok /\ count = None /\ ~occupations.ok -> BlockedBy(occupations)
        [] nelec.ok /\ count = None /\ occupations.ok /\ seeded /\ in.seeded = None ->
             Blocked("seeded_moment")
        [] OTHER -> IF total <= 0 THEN Unavailable("nbnd") ELSE Resolved(total, "heuristic")
  BY DEF Nbnd
<1> HIDE DEF in
<1>4. ~(seeded /\ in.seeded = None) => total \in Int
  <2> SUFFICES ASSUME ~(seeded /\ in.seeded = None) PROVE total \in Int
    OBVIOUS
  <2>1. channels[1] \in Int /\ channels[2] \in Int
    <3>1. CASE seeded
      <4>1. in.seeded \in Int
        BY <1>1, <3>1 DEF Opt
      <4>2. channels = SeededChannels(nelec.value, own, in.seeded)
        BY <3>1
      <4> HIDE DEF own, channels, seeded
      <4> QED
        BY <4>1, <4>2, <1>2, SeededAre
    <3>2. CASE ~seeded
      <4>1. channels = own
        BY <3>2
      <4> QED
        BY ONLY <4>1, <1>2
    <3> QED
      BY <3>1, <3>2
  <2> HIDE DEF channels, own, seeded
  <2>2. default \in Int
    BY <2>1, DefaultIs
  <2> HIDE DEF default
  <2>3. sized \in Int
    BY <2>2, ProtocolIs
  <2> HIDE DEF sized
  <2> QED
    BY <2>3 DEF Opt
<1> HIDE DEF total, seeded, n
<1>5. \/ n = Resolved(count, "human") /\ count # None
      \/ n = Resolved(total, "heuristic") /\ total \in Int
  BY <1>3, <1>4, BlockedIs, UnresolvedNot DEF n
<1>6. n.value \in Int
  BY <1>5, ResolvedIs DEF Opt
<1> QED
  BY <1>6 DEF n

-----------------------------------------------------------------------------
(* The cell, its tables and its electrons.                                 *)

\* What the request says of a task is in range,
LEMMA HumanOk ==
  ASSUME Ready, NEW key \in TaskKeys
  PROVE  human[key] = None \/ ValidSetting(key, human[key])
<1>1. human[key] = TaskValue(request, key)
  BY ReadyIs DEF HumanIs
<1>2. ValidRequest
  BY ReadyIs DEF RequestOK
<1>3. CASE <<"flat", key>> \in DOMAIN request
  <2>1. ValidSetting(key, request[<<"flat", key>>])
    BY <1>2, <1>3 DEF ValidRequest
  <2> QED
    BY ONLY <1>1, <1>3, <2>1 DEF TaskValue
<1>4. CASE <<"flat", key>> \notin DOMAIN request
  BY ONLY <1>1, <1>4 DEF TaskValue
<1> QED
  BY <1>3, <1>4

\* and so is what it says of one step.
LEMMA StepOk ==
  ASSUME Ready, NEW step, NEW key
  PROVE  StepValue(request, step, key) = None \/ ValidSetting(key, StepValue(request, step, key))
<1>1. ValidRequest
  BY ReadyIs DEF RequestOK
<1>2. CASE step \notin StepsOf(key)
  BY ONLY <1>2 DEF StepValue
<1>3. CASE step \in StepsOf(key) /\ <<step, key>> \in DOMAIN request
  <2>1. ValidSetting(key, request[<<step, key>>])
    BY <1>1, <1>3 DEF ValidRequest
  <2> QED
    BY ONLY <1>3, <2>1 DEF StepValue
<1>4. CASE step \in StepsOf(key) /\ <<step, key>> \notin DOMAIN request /\ <<"flat", key>> \in DOMAIN request
  <2>1. ValidSetting(key, request[<<"flat", key>>])
    BY <1>1, <1>4 DEF ValidRequest
  <2> QED
    BY ONLY <1>4, <2>1 DEF StepValue
<1>5. CASE <<step, key>> \notin DOMAIN request /\ <<"flat", key>> \notin DOMAIN request
  BY ONLY <1>5 DEF StepValue
<1> QED
  BY <1>2, <1>3, <1>4, <1>5

\* The ranges of the settings of a task that numbers are computed of.
LEMMA HumanValues ==
  ASSUME Ready
  PROVE  /\ human.nelec \in Opt(Nat) /\ human.tot_magnetization \in Opt(Int)
         /\ (human.starting_magnetization # None => human.starting_magnetization.moment \in Int)
<1>1. {"nelec", "tot_magnetization", "starting_magnetization"} \subseteq TaskKeys
  BY DEF TaskKeys, SystemKeys
<1>2. human.nelec = None \/ ValidSetting("nelec", human.nelec)
  BY <1>1, HumanOk
<1>3. human.tot_magnetization = None \/ ValidSetting("tot_magnetization", human.tot_magnetization)
  BY <1>1, HumanOk
<1>4. human.starting_magnetization = None \/ ValidSetting("starting_magnetization", human.starting_magnetization)
  BY <1>1, HumanOk
<1>5. human.nelec \in Opt(Nat)
  BY ONLY <1>2 DEF ValidSetting, Opt
<1>6. human.tot_magnetization \in Opt(Int)
  BY ONLY <1>3 DEF ValidSetting, Opt
<1>7. human.starting_magnetization # None => human.starting_magnetization.moment \in Int
  <2> SUFFICES ASSUME human.starting_magnetization # None PROVE human.starting_magnetization.moment \in Int
    OBVIOUS
  <2>1. ValidSetting("starting_magnetization", human.starting_magnetization)
    BY <1>4
  <2>2. human.starting_magnetization \in [by : {"element", "label"}, moment : Int, balanced : BOOLEAN]
    BY ONLY <2>1 DEF ValidSetting
  <2> QED
    BY <2>2
<1> QED
  BY <1>5, <1>6, <1>7

\* The ranges of the settings of a step.
LEMMA StepValues ==
  ASSUME Ready, NEW step
  PROVE  /\ StepValue(request, step, "nbnd") \in Opt(Int) /\ StepValue(request, step, "extra_bands") \in Opt(Int)
         /\ StepValue(request, step, "ion_dynamics") \in Opt(IonDynamics)
         /\ StepValue(request, step, "cell_dofree") \in Opt(CellDofrees)
         /\ StepValue(request, step, "fix_bottom_layers") \in Opt(Nat \ {0})
<1>1. StepValue(request, step, "nbnd") \in Opt(Int)
  <2>1. StepValue(request, step, "nbnd") = None \/ ValidSetting("nbnd", StepValue(request, step, "nbnd"))
    BY StepOk
  <2> QED
    BY ONLY <2>1 DEF ValidSetting, Opt
<1>2. StepValue(request, step, "extra_bands") \in Opt(Int)
  <2>1. \/ StepValue(request, step, "extra_bands") = None
        \/ ValidSetting("extra_bands", StepValue(request, step, "extra_bands"))
    BY StepOk
  <2> QED
    BY ONLY <2>1 DEF ValidSetting, Opt
<1>3. StepValue(request, step, "ion_dynamics") \in Opt(IonDynamics)
  <2>1. \/ StepValue(request, step, "ion_dynamics") = None
        \/ ValidSetting("ion_dynamics", StepValue(request, step, "ion_dynamics"))
    BY StepOk
  <2> QED
    BY ONLY <2>1 DEF ValidSetting, Opt
<1>4. StepValue(request, step, "cell_dofree") \in Opt(CellDofrees)
  <2>1. \/ StepValue(request, step, "cell_dofree") = None
        \/ ValidSetting("cell_dofree", StepValue(request, step, "cell_dofree"))
    BY StepOk
  <2> QED
    BY ONLY <2>1 DEF ValidSetting, Opt
<1>5. StepValue(request, step, "fix_bottom_layers") \in Opt(Nat \ {0})
  <2>1. \/ StepValue(request, step, "fix_bottom_layers") = None
        \/ ValidSetting("fix_bottom_layers", StepValue(request, step, "fix_bottom_layers"))
    BY StepOk
  <2> QED
    BY ONLY <2>1 DEF ValidSetting, Opt
<1> QED
  BY <1>1, <1>2, <1>3, <1>4, <1>5

\* The cell of an ordering is one of the structure's.
SoundCell(c) ==
  /\ ValidCell(c.cell) /\ c.atoms \in Nat /\ c.seeded \in Int

\* An ordering of the moments is on the cell of the structure or on its double.
LEMMA OrderedIs ==
  ASSUME NEW s, ValidStructure(s), NEW moments, NEW requested,
         Ordered(s, AfmCandidates(s, moments), requested).ok
  PROVE  SoundCell(Ordered(s, AfmCandidates(s, moments), requested).value)
<1> DEFINE candidates == AfmCandidates(s, moments)
           index == IF requested = AnyAfm THEN 1 ELSE requested
           named == Numbered(candidates, index)
           i == CHOOSE k \in named : TRUE
           afm == s.afm[i]
           o == Ordered(s, candidates, requested)
           fm == FmCell(s)
           other == [ applied |-> index, atoms |-> afm.atoms, cell |-> afm.cell,
                      compensated |-> afm.compensated, seeded |-> afm.seeded ]
<1>1. candidates \subseteq DOMAIN s.afm
  BY DEF AfmCandidates
<1>2. named \subseteq DOMAIN s.afm
  BY <1>1 DEF Numbered
<1>3. o = CASE requested = Fm -> Resolved(fm, "heuristic")
        [] requested # Fm /\ named # {} -> Resolved(other, "human")
        [] OTHER -> IF requested = AnyAfm THEN Resolved(fm, "heuristic") ELSE Blocked("magnetic_ordering")
  BY DEF Ordered
<1>4. SoundCell(fm)
  <2>1. s.atoms \in Seq(DOMAIN Element) /\ ValidCell(s.cell) /\ s.seeded \in Int
    BY DEF ValidStructure
  <2>2. fm.cell = s.cell /\ fm.atoms = Len(s.atoms) /\ fm.seeded = s.seeded
    BY DEF FmCell
  <2>3. Len(s.atoms) \in Nat
    BY <2>1
  <2> QED
    BY ONLY <2>1, <2>2, <2>3 DEF SoundCell
<1>5. named # {} => SoundCell(other)
  <2> SUFFICES ASSUME named # {} PROVE SoundCell(other)
    OBVIOUS
  <2>1. i \in DOMAIN s.afm
    BY <1>2
  <2>2. afm.atoms \in Nat /\ ValidCell(afm.cell) /\ afm.seeded \in Int
    BY <2>1 DEF ValidStructure
  <2>3. other.cell = afm.cell /\ other.atoms = afm.atoms /\ other.seeded = afm.seeded
    OBVIOUS
  <2> QED
    BY ONLY <2>2, <2>3 DEF SoundCell
<1> HIDE DEF named, fm, other, o
<1>6. o = Resolved(fm, "heuristic") \/ (named # {} /\ o = Resolved(other, "human"))
  BY <1>3, UnresolvedNot DEF o
<1>7. SoundCell(o.value)
  BY ONLY <1>4, <1>5, <1>6, ResolvedIs
<1> QED
  BY <1>7 DEF o

\* The cell that is settled has a number of atoms, and a moment only where it is polarized.
LEMMA MagneticCellIs ==
  ASSUME NEW s, ValidStructure(s), NEW h, NEW isMagnetic, NEW moments, NEW hubbard,
         h.tot_magnetization \in Opt(Int), isMagnetic.status = "blocked" => ~isMagnetic.ok,
         MagneticCell(s, h, isMagnetic, moments, hubbard).ok
  PROVE  LET m == MagneticCell(s, h, isMagnetic, moments, hubbard).value
         IN  /\ SoundCell(m.cell) /\ m.tot \in Opt(Int) /\ m.seeds = h.starting_magnetization
             /\ (~m.polarized => m.tot = None)
<1> DEFINE choice == HubbardSpin(SpinChoice(h, isMagnetic), moments, hubbard)
           ordered == Ordered(s, AfmCandidates(s, moments),
                      IF h.magnetic_ordering = None THEN Fm ELSE h.magnetic_ordering)
           soc == h.spin_orbit_coupling # None /\ h.spin_orbit_coupling
           tot == IF choice.on THEN h.tot_magnetization ELSE None
           cell == IF choice.on THEN ordered.value ELSE FmCell(s)
           r == [ polarized |-> choice.on, soc |-> soc, tot |-> tot, from |-> choice.from,
                             cell |-> cell, seeds |-> h.starting_magnetization ]
           c == MagneticCell(s, h, isMagnetic, moments, hubbard)
<1>1. c = CASE isMagnetic.status = "blocked" -> isMagnetic
        [] isMagnetic.status # "blocked" /\ tot # None /\ soc -> Blocked("tot_magnetization")
        [] OTHER ->
             IF choice.on /\ ~ordered.ok THEN ordered
             ELSE IF choice.on /\ ~SeedsFit(h.starting_magnetization, ordered.value.applied)
             THEN Blocked("starting_magnetization")
             ELSE Resolved(r, choice.from)
  BY DEF MagneticCell, CellWritten
<1>2. ordered.ok => SoundCell(ordered.value)
  BY OrderedIs
<1>3. SoundCell(FmCell(s))
  <2>1. s.atoms \in Seq(DOMAIN Element) /\ ValidCell(s.cell) /\ s.seeded \in Int
    BY DEF ValidStructure
  <2>2. FmCell(s).cell = s.cell /\ FmCell(s).atoms = Len(s.atoms) /\ FmCell(s).seeded = s.seeded
    BY DEF FmCell
  <2>3. Len(s.atoms) \in Nat
    BY <2>1
  <2> QED
    BY ONLY <2>1, <2>2, <2>3 DEF SoundCell
<1> HIDE DEF choice, ordered, c
<1>4. tot \in Opt(Int) /\ (~choice.on => tot = None)
  BY DEF Opt
<1>5. r.cell = cell /\ r.tot = tot /\ r.seeds = h.starting_magnetization /\ (r.polarized <=> choice.on)
  OBVIOUS
<1> HIDE DEF r, soc
<1>6. c = Resolved(r, choice.from) /\ (choice.on => ordered.ok)
  BY <1>1, UnresolvedNot DEF c
<1>7. SoundCell(cell)
  BY <1>2, <1>3, <1>6
<1> HIDE DEF cell, tot
<1>8. c.value = r
  BY ONLY <1>6, ResolvedIs
<1>9. SoundCell(c.value.cell) /\ c.value.tot \in Opt(Int) /\ c.value.seeds = h.starting_magnetization
      /\ (~c.value.polarized => c.value.tot = None)
  BY ONLY <1>4, <1>5, <1>7, <1>8
<1> QED
  BY <1>9 DEF c

\* The table that is selected is one of the tables, and fits the elements.
LEMMA SelectedTable ==
  ASSUME NEW pinned, NEW elements, NEW functional, NEW soc,
         SelectTable(pinned, elements, functional, soc).ok
  PROVE  \E i \in DOMAIN Tables :
           /\ SelectTable(pinned, elements, functional, soc).value = Tables[i]
           /\ TableFits(Tables[i], elements, functional, soc)
<1> DEFINE matches == {i \in DOMAIN Tables : TableFits(Tables[i], elements, functional, soc)}
           named == {i \in matches : Tables[i].id = pinned}
           t == SelectTable(pinned, elements, functional, soc)
           k == CHOOSE i \in named : TRUE
<1>1. t = CASE pinned # None /\ named # {} -> Resolved(Tables[k], "human")
            [] pinned = None /\ matches # {} -> Resolved(PreferredTable(matches, elements), "heuristic")
            [] OTHER -> Unavailable("pseudo_table")
  BY DEF SelectTable
<1>2. named # {} => k \in matches
  OBVIOUS
<1>3. matches # {} => \E i \in matches : PreferredTable(matches, elements) = Tables[i]
  <2> SUFFICES ASSUME matches # {} PROVE \E i \in matches : PreferredTable(matches, elements) = Tables[i]
    OBVIOUS
  <2> DEFINE provider == IF RequiresSssp(elements) THEN "sssp" ELSE "pseudodojo"
             preferred == {i \in matches : Tables[i].provider = provider}
             among == IF preferred = {} THEN matches ELSE preferred
             first == CHOOSE i \in among : \A j \in among : i <= j
  <2>1. among # {} /\ among \subseteq matches
    OBVIOUS
  <2>2. DOMAIN Tables \subseteq Nat
    BY TablesAssumption
  <2>3. among \in SUBSET Nat
    BY <2>1, <2>2
  <2>4. PreferredTable(matches, elements) = Tables[first]
    BY DEF PreferredTable
  <2> HIDE DEF among
  <2>5. \E i \in among : \A j \in among : i <= j
    BY <2>1, <2>3, LeastOf
  <2>6. first \in among
    BY <2>5
  <2> HIDE DEF first, matches
  <2> QED
    BY <2>1, <2>4, <2>6
<1> HIDE DEF named, t, k
<1>4. \E i \in matches : t = Resolved(Tables[i], "human") \/ t = Resolved(Tables[i], "heuristic")
  <2>1. \/ t = Resolved(Tables[k], "human") /\ k \in matches
        \/ t = Resolved(PreferredTable(matches, elements), "heuristic") /\ matches # {}
    BY <1>1, <1>2, UnresolvedNot DEF t
  <2> HIDE DEF matches
  <2> QED
    BY <2>1, <1>3
<1>5. PICK i \in matches : t.value = Tables[i]
  BY <1>4, ResolvedIs
<1>6. i \in DOMAIN Tables /\ TableFits(Tables[i], elements, functional, soc)
  OBVIOUS
<1> QED
  BY <1>5, <1>6 DEF t

\* The valence charges of the pseudopotentials of a table are numbers, or not known.
LEMMA SelectedMetadata ==
  ASSUME NEW i \in DOMAIN Tables, NEW elements, elements \subseteq DOMAIN Tables[i].pseudos,
         SelectMetadata(Tables[i], elements).ok
  PROVE  \A e \in elements : SelectMetadata(Tables[i], elements).value[e].z \in Nat \cup {None}
<1> DEFINE pseudos == Tables[i].pseudos
           value == [e \in elements |-> CHOOSE p \in pseudos[e] : TRUE]
           wrong == \E e \in elements : Cardinality(pseudos[e]) # 1
<1>0. SelectMetadata(Tables[i], elements) = IF wrong THEN Unavailable("pseudopotentials")
                                            ELSE Resolved(value, "heuristic")
  BY DEF SelectMetadata
<1>1. ~wrong /\ SelectMetadata(Tables[i], elements) = Resolved(value, "heuristic")
  <2> HIDE DEF wrong, value
  <2> QED
    BY <1>0, UnresolvedNot
<1> HIDE DEF value
<1>2. SelectMetadata(Tables[i], elements).value = value
  BY ONLY <1>1, ResolvedIs
<1>3. \A e \in elements : value[e] = CHOOSE p \in pseudos[e] : TRUE
  BY DEF value
<1> SUFFICES ASSUME NEW e \in elements PROVE value[e].z \in Nat \cup {None}
  BY <1>2
<1>4. pseudos[e] # {}
  <2>1. Cardinality(pseudos[e]) = 1
    BY ONLY <1>1, e \in elements
  <2>2. Cardinality({}) = 0
    BY FS_EmptySet
  <2> QED
    BY ONLY <2>1, <2>2
<1>5. value[e] \in pseudos[e]
  BY <1>3, <1>4
<1>6. e \in DOMAIN pseudos
  OBVIOUS
<1> QED
  BY <1>5, <1>6, TablesAssumption

\* The running sum that a count is read off.
LEMMA SumIs ==
  ASSUME NEW n \in Nat, NEW z, \A i \in 1 .. n : z[i] \in Nat
  PROVE  \E of : of = [i \in 0 .. n |-> IF i = 0 THEN 0 ELSE of[i - 1] + z[i]]
<1> DEFINE Sums(m, of) == /\ of = [i \in 0 .. m |-> IF i = 0 THEN 0 ELSE of[i - 1] + z[i]]
                          /\ \A i \in 0 .. m : of[i] \in Nat
           bad == {m \in 0 .. n : ~\E of : Sums(m, of)}
<1> SUFFICES \E of : Sums(n, of)
  OBVIOUS
<1> HIDE DEF Sums
<1>0. bad # {} \/ \E of : Sums(n, of)
  <2>1. n \in 0 .. n
    OBVIOUS
  <2> QED
    BY <2>1
<1> SUFFICES ASSUME bad # {} PROVE FALSE
  BY <1>0
<1>1a. \E m \in bad : \A j \in bad : m <= j
  <2>1. bad \in SUBSET Nat
    OBVIOUS
  <2> HIDE DEF bad
  <2> QED
    BY <2>1, LeastOf
<1>1. PICK m \in bad : \A j \in bad : m <= j
  BY <1>1a
<1>2. m # 0
  <2> DEFINE zero == [i \in 0 .. 0 |-> 0]
  <2>1. zero = [i \in 0 .. 0 |-> IF i = 0 THEN 0 ELSE zero[i - 1] + z[i]]
    OBVIOUS
  <2>2. Sums(0, zero)
    BY <2>1 DEF Sums
  <2> QED
    BY <2>2
<1>3. m - 1 \in 0 .. n /\ m \in 1 .. n
  BY <1>2
<1>3a. m - 1 \notin bad
  <2> HIDE DEF bad
  <2>1. m - 1 \in bad => m <= m - 1
    BY <1>1
  <2> QED
    BY ONLY <2>1, <1>3
<1>4a. \E of : Sums(m - 1, of)
  BY <1>3, <1>3a
<1>4b. PICK of : Sums(m - 1, of)
  BY <1>4a
<1>4. /\ of = [i \in 0 .. m - 1 |-> IF i = 0 THEN 0 ELSE of[i - 1] + z[i]]
      /\ \A i \in 0 .. m - 1 : of[i] \in Nat
  BY <1>4b DEF Sums
<1> DEFINE next == [i \in 0 .. m |-> IF i < m THEN of[i] ELSE of[m - 1] + z[m]]
           step == [i \in 0 .. m |-> IF i = 0 THEN 0 ELSE next[i - 1] + z[i]]
<1>5. \A i \in 0 .. m : next[i] = step[i]
  <2> SUFFICES ASSUME NEW i \in 0 .. m PROVE next[i] = IF i = 0 THEN 0 ELSE next[i - 1] + z[i]
    OBVIOUS
  <2>1. CASE i = 0
    BY <1>3, <1>4, <2>1
  <2>2. CASE i # 0 /\ i < m
    <3>1. i - 1 \in 0 .. m /\ i - 1 < m /\ i \in 0 .. m - 1
      BY <1>3, <2>2
    <3>2. next[i] = of[i] /\ next[i - 1] = of[i - 1]
      BY <3>1, <2>2
    <3>3. of[i] = of[i - 1] + z[i]
      BY <3>1, <1>4, <2>2
    <3> QED
      BY <3>2, <3>3, <2>2
  <2>3. CASE i = m
    <3>1. m - 1 \in 0 .. m /\ m - 1 < m /\ m # 0
      BY <1>3
    <3> QED
      BY <2>3, <3>1
  <2> QED
    BY <2>1, <2>2, <2>3, <1>3
<1>6. next = step
  BY <1>5
<1>7. \A i \in 0 .. m : next[i] \in Nat
  <2>1. of[m - 1] \in Nat /\ z[m] \in Nat
    BY <1>3, <1>4
  <2> QED
    BY <2>1, <1>3, <1>4
<1>8. Sums(m, next)
  BY <1>6, <1>7 DEF Sums
<1> QED
  BY <1>8, <1>1

\* A running sum of numbers is a number.
LEMMA SumsAreNumbers ==
  ASSUME NEW n \in Nat, NEW z, \A i \in 1 .. n : z[i] \in Nat,
         NEW of, of = [i \in 0 .. n |-> IF i = 0 THEN 0 ELSE of[i - 1] + z[i]]
  PROVE  of[n] \in Nat
<1> DEFINE bad == {i \in 0 .. n : of[i] \notin Nat}
<1> SUFFICES ASSUME bad # {} PROVE FALSE
  OBVIOUS
<1>1. \E m \in bad : \A j \in bad : m <= j
  <2>1. bad \in SUBSET Nat
    OBVIOUS
  <2> HIDE DEF bad
  <2> QED
    BY <2>1, LeastOf
<1>2. PICK m \in bad : \A j \in bad : m <= j
  BY <1>1
<1>3. of[m] = IF m = 0 THEN 0 ELSE of[m - 1] + z[m]
  BY <1>2
<1>4. m # 0 /\ m \in 1 .. n /\ m - 1 \in 0 .. n
  BY <1>2, <1>3
<1>5. of[m - 1] \in Nat
  <2>1. m - 1 \in bad => m <= m - 1
    BY <1>2
  <2> QED
    BY <2>1, <1>4
<1>6. of[m] \in Nat
  BY <1>3, <1>4, <1>5
<1> QED
  BY <1>2, <1>6

\* A quotient of numbers is a number.
LEMMA QuotientIs ==
  ASSUME NEW a \in Nat, NEW n \in Nat, n > 0 PROVE a \div n \in Nat
OBVIOUS

\* The electrons of the neutral cell are a number.
LEMMA NeutralCountIs ==
  ASSUME NEW s, ValidStructure(s), NEW metadata, NEW atoms \in Nat,
         \A e \in ElementsOf(s) : metadata[e].z \in Nat
  PROVE  NeutralCount(s, metadata, atoms) \in Nat
<1> DEFINE n == Len(s.atoms)
           z == [i \in 1 .. n |-> metadata[s.atoms[i]].z]
           sum == CHOOSE of : of = [i \in 0 .. n |-> IF i = 0 THEN 0 ELSE of[i - 1] + metadata[s.atoms[i]].z]
<1>1. n \in Nat /\ n > 0 /\ DOMAIN s.atoms = 1 .. n
  BY DEF ValidStructure
<1>2. \A i \in 1 .. n : z[i] \in Nat
  <2>1. \A i \in 1 .. n : s.atoms[i] \in ElementsOf(s)
    BY ONLY <1>1 DEF ElementsOf
  <2> QED
    BY <2>1
<1>3. NeutralCount(s, metadata, atoms) = (sum[n] * atoms) \div n
  BY DEF NeutralCount
<1>4. sum = CHOOSE of : of = [i \in 0 .. n |-> IF i = 0 THEN 0 ELSE of[i - 1] + z[i]]
  <2>1. \A of : [i \in 0 .. n |-> IF i = 0 THEN 0 ELSE of[i - 1] + metadata[s.atoms[i]].z]
                  = [i \in 0 .. n |-> IF i = 0 THEN 0 ELSE of[i - 1] + z[i]]
    <3> SUFFICES ASSUME NEW of, NEW i \in 0 .. n, i # 0 PROVE metadata[s.atoms[i]].z = z[i]
      OBVIOUS
    <3>1. i \in 1 .. n
      BY <1>1
    <3> QED
      BY <3>1
  <2> HIDE DEF z
  <2> QED
    BY <2>1
<1> HIDE DEF z, sum
<1>5. \E of : of = [i \in 0 .. n |-> IF i = 0 THEN 0 ELSE of[i - 1] + z[i]]
  BY <1>1, <1>2, SumIs
<1>6. sum = [i \in 0 .. n |-> IF i = 0 THEN 0 ELSE sum[i - 1] + z[i]]
  BY <1>4, <1>5
<1>7. sum[n] \in Nat
  BY <1>1, <1>2, <1>6, SumsAreNumbers
<1>8. sum[n] * atoms \in Nat
  BY <1>7
<1> DEFINE product == sum[n] * atoms
<1>9. product \in Nat /\ NeutralCount(s, metadata, atoms) = product \div n
  BY <1>3, <1>8
<1> HIDE DEF product, n
<1> QED
  BY ONLY <1>1, <1>9, QuotientIs

-----------------------------------------------------------------------------
(* Occupations and bands.                                                  *)

\* An empty report: the cell that the steps are written on.
LEMMA CellFacts ==
  ASSUME Ready, NEW step \in DOMAIN electronic
  PROVE  /\ system.cell.ok /\ SoundCell(system.cell.value.cell) /\ system.cell.value.tot \in Opt(Int)
         /\ system.cell.value.seeds = human.starting_magnetization
<1>1. system.cell = MagneticCell(site, human, analysis.isMagnetic, analysis.moments, system.hubbard)
  BY ReadyIs DEF CellIs
<1>2. system.cell.ok
  BY Settled
<1>3. analysis.isMagnetic.status # "blocked"
  <2>1. NoneBlocked(analysis)
    BY NotBlocked
  <2>2. "isMagnetic" \in DOMAIN analysis
    BY ReadyIs DEF AnalysisIs, Analyze
  <2> QED
    BY ONLY <2>1, <2>2 DEF NoneBlocked
<1>4. ValidStructure(site) /\ human.tot_magnetization \in Opt(Int)
  BY ReadyIs, HumanValues DEF RequestOK
<1> QED
  BY ONLY <1>1, <1>2, <1>3, <1>4, MagneticCellIs

\* An empty report: the magnetism is that of the cell.
LEMMA MagneticFacts ==
  ASSUME Ready, NEW step \in DOMAIN electronic
  PROVE  /\ system.magnetic.ok /\ system.magnetic.value.tot \in Opt(Int)
         /\ system.magnetic.value.seeded \in Opt(Int)
         /\ system.magnetic.value.cell = system.cell.value.cell.cell
         /\ system.magnetic.value.atoms = system.cell.value.cell.atoms
<1> DEFINE cell == system.cell
           m == cell.value
           metadata == system.metadata
           known == metadata.ok /\ \A e \in DOMAIN metadata.value : metadata.value[e].z # None
           config ==
             [ polarized |-> m.polarized, soc |-> m.soc, tot |-> m.tot, from |-> m.from,
               atoms |-> m.cell.atoms, cell |-> m.cell.cell,
               ordering |-> m.cell.applied,
               compensated |-> /\ m.polarized /\ m.cell.compensated
                               /\ m.seeds # None => m.seeds.balanced,
               seeded |-> IF ~m.polarized \/ ~known THEN None
                          ELSE IF m.seeds # None THEN m.seeds.moment
                          ELSE m.cell.seeded ]
<1>1. /\ cell.ok /\ SoundCell(m.cell) /\ m.tot \in Opt(Int)
      /\ m.seeds = human.starting_magnetization
  BY CellFacts
<1>2. m.seeds # None => m.seeds.moment \in Int
  BY <1>1, HumanValues
<1>3. metadata.ok /\ metadata.status # "blocked"
  <2>1. metadata.ok
    BY JobWaits
  <2>2. metadata = PseudoAdvice(site, system.cell, system.functional, human).metadata
    BY ReadyIs DEF PseudoIs
  <2>3. IsResolved(metadata)
    BY ONLY <2>1, <2>2, MetadataIs
  <2> QED
    BY ONLY <2>1, <2>3, ResolvedOk
<1>4. system.magnetic = Seeded(cell, metadata)
  BY ReadyIs DEF RestIs
<1>5. system.magnetic = MagneticConfig(cell, known)
  <2> HIDE DEF cell
  <2> QED
    BY ONLY <1>3, <1>4 DEF Seeded
<1>6. MagneticConfig(cell, known) = Resolved(config, cell.source)
  <2> HIDE DEF known
  <2> QED
    BY ONLY <1>1 DEF MagneticConfig, config, m
<1>7. config.seeded \in Opt(Int)
  <2>1. m.cell.seeded \in Int
    BY ONLY <1>1 DEF SoundCell
  <2> HIDE DEF known, m
  <2> QED
    BY ONLY <1>2, <2>1 DEF Opt, config
<1>8. config.tot = m.tot /\ config.cell = m.cell.cell /\ config.atoms = m.cell.atoms
  BY ONLY TRUE
<1> HIDE DEF config
<1>9. system.magnetic.ok /\ system.magnetic.value = config
  BY ONLY <1>5, <1>6, ResolvedIs
<1> QED
  BY ONLY <1>1, <1>7, <1>8, <1>9

\* An empty report: the electrons are counted, and are no fewer than none.
LEMMA CountIs ==
  ASSUME Ready, NEW step \in DOMAIN electronic
  PROVE  system.electronCount.ok /\ system.electronCount.value \in Nat
<1> DEFINE t == PseudoAdvice(site, system.cell, system.functional, human)
           metadata == system.metadata
           elements == ElementsOf(site)
           atoms == system.cell.value.cell.atoms
           neutral == NeutralCount(site, metadata.value, atoms)
<1>1. system.metadata = t.metadata /\ system.table = t.table
  BY ReadyIs DEF PseudoIs
<1>2. metadata.ok /\ system.electronCount.ok /\ system.cell.ok /\ SoundCell(system.cell.value.cell)
  BY JobWaits, Settled, CellFacts
<1>3. /\ t.table.ok
      /\ t.table = SelectTable(human.pseudo_table_id, elements, system.functional.value,
                               system.cell.value.soc)
      /\ t.metadata = SelectMetadata(t.table.value, elements)
  <2>1. t.metadata.ok
    BY ONLY <1>1, <1>2
  <2> QED
    BY ONLY <2>1, MetadataIs
<1>4. \E i \in DOMAIN Tables : t.table.value = Tables[i] /\ elements \subseteq DOMAIN Tables[i].pseudos
  <2>1. \E i \in DOMAIN Tables :
           /\ t.table.value = Tables[i]
           /\ TableFits(Tables[i], elements, system.functional.value, system.cell.value.soc)
    BY ONLY <1>3, SelectedTable
  <2> QED
    BY ONLY <2>1 DEF TableFits
<1>5. \A e \in elements : metadata.value[e].z \in Nat \cup {None}
  <2>1. PICK i \in DOMAIN Tables : t.table.value = Tables[i] /\ elements \subseteq DOMAIN Tables[i].pseudos
    BY <1>4
  <2>2. metadata = SelectMetadata(Tables[i], elements)
    BY ONLY <1>1, <1>3, <2>1
  <2> HIDE DEF elements, metadata
  <2> QED
    BY ONLY <1>2, <2>1, <2>2, i \in DOMAIN Tables, SelectedMetadata
<1>6. ValidStructure(site) /\ human.nelec \in Opt(Nat)
  BY ReadyIs, HumanValues DEF RequestOK
<1>7. atoms \in Nat
  BY ONLY <1>2 DEF SoundCell
<1> HIDE DEF neutral
<1>8. \/ human.nelec # None /\ system.electronCount = Resolved(human.nelec, "human")
      \/ /\ \A e \in elements : metadata.value[e].z # None
         /\ system.electronCount = Resolved(neutral, "heuristic")
  <2>1. system.electronCount = ElectronCount(site, system.cell, system.metadata, human)
    BY ReadyIs DEF RestIs
  <2> DEFINE other == human.nelec # None /\ atoms # Len(site.atoms)
             lacks == \E e \in elements : metadata.value[e].z = None
  <2>2. system.electronCount = CASE other -> Blocked("nelec")
          [] ~other -> IF lacks THEN Blocked("z_valence")
                       ELSE IF human.nelec # None THEN Resolved(human.nelec, "human")
                       ELSE Resolved(neutral, "heuristic")
    BY ONLY <2>1, <1>2 DEF ElectronCount, neutral
  <2> HIDE DEF other
  <2>3. ~lacks => \A e \in elements : metadata.value[e].z # None
    OBVIOUS
  <2> HIDE DEF lacks
  <2> QED
    BY ONLY <2>2, <2>3, <1>2, UnresolvedNot
<1>9. (\A e \in elements : metadata.value[e].z # None) => neutral \in Nat
  <2> SUFFICES ASSUME \A e \in elements : metadata.value[e].z # None PROVE neutral \in Nat
    OBVIOUS
  <2>1. \A e \in ElementsOf(site) : metadata.value[e].z \in Nat
    BY <1>5
  <2> QED
    BY ONLY <2>1, <1>6, <1>7, NeutralCountIs DEF neutral
<1>10. system.electronCount.value \in Nat
  <2>1. human.nelec # None => human.nelec \in Nat
    BY <1>6 DEF Opt
  <2> HIDE DEF elements, metadata
  <2> QED
    BY ONLY <1>8, <1>9, <2>1, ResolvedIs
<1> QED
  BY <1>2, <1>10

\* Occupations are decided unless it is not known whether the structure is a metal.
LEMMA DecisionIs ==
  ASSUME NEW isMetal, isMetal.status # "blocked", NEW magnetic, NEW nelec, NEW h, NEW protocol
  PROVE  \E c, source : Occupations(isMetal, magnetic, nelec, h, protocol) =
           Resolved(OccupationsDecision(c, SpinOf(magnetic, nelec, protocol = "unpinned")), source)
<1> DEFINE spin == SpinOf(magnetic, nelec, protocol = "unpinned")
           kind == IF isMetal.ok /\ isMetal.value = "non_metal" /\ FixedRuns(spin) THEN "fixed" ELSE "smearing"
<1>1. Occupations(isMetal, magnetic, nelec, h, protocol) =
        IF h # None THEN Resolved(OccupationsDecision(h, spin), "human")
        ELSE IF protocol \in {"tetrahedra_opt"}
        THEN Resolved(OccupationsDecision(protocol, spin), "heuristic")
        ELSE Resolved(OccupationsDecision(kind, spin), "heuristic")
  BY DEF Occupations
<1> HIDE DEF spin, kind
<1> QED
  BY <1>1 DEF spin

\* A moment is decided with occupations that are fixed, or pinned, of a collinear cell.
LEMMA MomentIs ==
  ASSUME NEW magnetic, magnetic.ok, magnetic.value.tot \in Opt(Int), NEW nelec, NEW unpinned, NEW c
  PROVE  LET d == OccupationsDecision(c, SpinOf(magnetic, nelec, unpinned))
         IN  /\ d.kind = c /\ d.tot \in Opt(Int)
             /\ (c = "fixed" /\ SpinMode(magnetic) # "collinear" => d.tot = None)
<1> DEFINE spin == SpinOf(magnetic, nelec, unpinned)
           d == OccupationsDecision(c, spin)
<1>1. spin.mode = SpinMode(magnetic) /\ spin.requested = magnetic.value.tot
  BY DEF SpinOf
<1>2. d.kind = c /\ d.tot = IF c = "fixed" THEN FixedMoment(spin) ELSE spin.requested
  BY DEF OccupationsDecision
<1> HIDE DEF spin
<1>3. spin.mode # "collinear" => FixedMoment(spin) = None
  BY ONLY TRUE DEF FixedMoment
<1>4. FixedMoment(spin) \in {None, spin.requested, 0}
  BY ONLY TRUE DEF FixedMoment
<1>5. FixedMoment(spin) \in Opt(Int)
  BY ONLY <1>1, <1>4, magnetic.value.tot \in Opt(Int) DEF Opt
<1> HIDE DEF d
<1> QED
  BY <1>1, <1>2, <1>3, <1>5 DEF d, spin

\* An empty report: the occupations of a step and the moment they pin.
LEMMA OccupationsFacts ==
  ASSUME Ready, NEW step \in DOMAIN electronic
  PROVE  /\ electronic[step].occupations.ok /\ electronic[step].occupations.value.tot \in Opt(Int)
         /\ electronic[step].occupations.value.kind = "fixed" /\ SpinMode(system.magnetic) # "collinear"
              => electronic[step].occupations.value.tot = None
<1> DEFINE spinOf(s) == SpinOf(system.magnetic, system.electronCount, Protocol(task, s) = "unpinned")
           own(s) == Occupations(analysis.isMetal, system.magnetic, system.electronCount,
                                 StepValue(request, s, "occupations"), Protocol(task, s))
           o == electronic[step].occupations
           mode == SpinMode(system.magnetic)
<1>1. o = IF step = "bands" THEN BandsOccupations(own("scf")) ELSE own(step)
  BY ReadyIs DEF ElectronicIs, ElectronicAdvice
<1>2. analysis.isMetal.status # "blocked"
  <2>1. NoneBlocked(analysis)
    BY NotBlocked
  <2>2. "isMetal" \in DOMAIN analysis
    BY ReadyIs DEF AnalysisIs, Analyze
  <2> QED
    BY ONLY <2>1, <2>2 DEF NoneBlocked
<1>3. system.magnetic.ok /\ system.magnetic.value.tot \in Opt(Int)
  BY MagneticFacts
<1>4. \A s : \E c, source : own(s) = Resolved(OccupationsDecision(c, spinOf(s)), source)
  BY ONLY <1>2, DecisionIs
<1>5. \A s, c : /\ OccupationsDecision(c, spinOf(s)).kind = c
                /\ OccupationsDecision(c, spinOf(s)).tot \in Opt(Int)
                /\ (c = "fixed" /\ mode # "collinear" => OccupationsDecision(c, spinOf(s)).tot = None)
  BY ONLY <1>3, MomentIs
<1> HIDE DEF spinOf
<1>6. \A s : own(s).ok /\ own(s).value.tot \in Opt(Int)
             /\ (own(s).value.kind = "fixed" /\ mode # "collinear" => own(s).value.tot = None)
  <2> SUFFICES ASSUME NEW s
               PROVE  own(s).ok /\ own(s).value.tot \in Opt(Int)
                      /\ (own(s).value.kind = "fixed" /\ mode # "collinear" => own(s).value.tot = None)
    OBVIOUS
  <2> HIDE DEF own, mode
  <2>1. PICK c, source : own(s) = Resolved(OccupationsDecision(c, spinOf(s)), source)
    BY <1>4
  <2>2. own(s).ok /\ own(s).value = OccupationsDecision(c, spinOf(s))
    BY ONLY <2>1, ResolvedIs
  <2> QED
    BY ONLY <2>2, <1>5
<1>7. \E c, source : own("scf") = Resolved(OccupationsDecision(c, spinOf("scf")), source)
  BY <1>4
<1>8. own("scf").value = [kind |-> own("scf").value.kind, tot |-> own("scf").value.tot]
  <2> HIDE DEF own
  <2>1. PICK c, source : own("scf") = Resolved(OccupationsDecision(c, spinOf("scf")), source)
    BY <1>7
  <2>2. own("scf").value = OccupationsDecision(c, spinOf("scf"))
    BY ONLY <2>1, ResolvedIs
  <2> QED
    BY ONLY <2>2 DEF OccupationsDecision
<1> HIDE DEF own, mode
<1>9. \/ BandsOccupations(own("scf")) = Resolved([own("scf").value EXCEPT !.kind = "smearing"], "heuristic")
      \/ BandsOccupations(own("scf")) = Resolved(own("scf").value, "heuristic")
  BY ONLY <1>6 DEF BandsOccupations
<1>10. [own("scf").value EXCEPT !.kind = "smearing"] = [kind |-> "smearing", tot |-> own("scf").value.tot]
  BY ONLY <1>8
<1>11. LET b == BandsOccupations(own("scf"))
       IN  b.ok /\ b.value.tot = own("scf").value.tot
           /\ (b.value.kind = "fixed" => own("scf").value.kind = "fixed")
  <2> DEFINE v == [kind |-> "smearing", tot |-> own("scf").value.tot]
  <2>1. v.kind = "smearing" /\ v.tot = own("scf").value.tot
    OBVIOUS
  <2> HIDE DEF v
  <2>2. \/ BandsOccupations(own("scf")) = Resolved(v, "heuristic")
        \/ BandsOccupations(own("scf")) = Resolved(own("scf").value, "heuristic")
    BY ONLY <1>9, <1>10 DEF v
  <2> QED
    BY ONLY <2>1, <2>2, ResolvedIs
<1> QED
  BY ONLY <1>1, <1>6, <1>11 DEF mode

\* An empty report: the bands of a step are counted.
LEMMA BandsAreCounted ==
  ASSUME Ready, NEW step \in DOMAIN electronic
  PROVE  electronic[step].nbnd.ok /\ electronic[step].nbnd.value \in Int
<1> DEFINE o == electronic[step].occupations
           human_ == StepValue(request, step, "nbnd")
           extra == StepValue(request, step, "extra_bands")
           protocol == Protocol(task, step)
<1>1. electronic[step].nbnd = Nbnd(system.electronCount, o, system.magnetic, human_, extra, protocol)
  BY ReadyIs DEF ElectronicIs, ElectronicAdvice
<1>2. electronic[step].nbnd.ok
  BY JobWaits
<1>3. system.electronCount.value \in Int
  BY CountIs
<1>4. o.value.tot \in Opt(Int)
  BY OccupationsFacts
<1>5. system.magnetic.value.seeded \in Opt(Int)
  BY MagneticFacts
<1>6. human_ \in Opt(Int) /\ extra \in Opt(Int)
  BY StepValues
<1> HIDE DEF o, human_, extra, protocol
<1> QED
  BY ONLY <1>1, <1>2, <1>3, <1>4, <1>5, <1>6, NbndIs

\* Bands that are no fewer than the floor of the rule hold every electron of either spin,
\* to pw.x's rounding: the electrons are in halves, those of a spin in quarters.
LEMMA FloorsHold ==
  ASSUME NEW nelec \in Nat, NEW occupations, occupations.tot \in Opt(Int), NEW magnetic, NEW n \in Int,
         ~(n < BandFloor(nelec, occupations, magnetic))
  PROVE  /\ SpinMode(magnetic) = "noncollinear" => nelec < 2 * n + 1
         /\ SpinMode(magnetic) = "collinear" /\ occupations.tot # None
              => /\ nelec + Magnitude(occupations.tot) < 4 * n + 2
                 /\ (nelec + occupations.tot >= 0 => nelec + occupations.tot < 4 * n + 2)
                 /\ (nelec - occupations.tot >= 0 => nelec - occupations.tot < 4 * n + 2)
         /\ nelec < 4 * n + 2
<1> DEFINE tot == occupations.tot
           in == SpinInputs(occupations, magnetic)
           channels == SpinChannels(nelec, in.tot)
           c1 == channels[1]
           c2 == channels[2]
           paired == Larger(Nint(nelec, 4), Larger(Nint(c1, 4), Nint(c2, 4)))
           floor == BandFloor(nelec, occupations, magnetic)
<1>1. /\ in.mode = SpinMode(magnetic)
      /\ in.tot = IF SpinMode(magnetic) = "collinear" THEN tot ELSE None
  BY DEF SpinInputs
<1>2. floor = IF in.mode = "noncollinear" THEN Larger(paired, Nint(nelec, 2)) ELSE paired
  BY DEF BandFloor
<1> HIDE DEF in
<1>3. in.tot \in Opt(Int)
  BY ONLY <1>1, occupations.tot \in Opt(Int) DEF Opt
<1>4. c1 \in Int /\ c2 \in Int /\ (in.tot # None => c1 = nelec + in.tot /\ c2 = nelec - in.tot)
  BY ONLY <1>3, nelec \in Nat, ChannelsAre
<1> HIDE DEF channels, c1, c2
<1>5. /\ Nint(nelec, 4) \in Int /\ Nint(c1, 4) \in Int /\ Nint(c2, 4) \in Int /\ Nint(nelec, 2) \in Int
      /\ nelec < 4 * Nint(nelec, 4) + 2 /\ nelec < 2 * Nint(nelec, 2) + 1
      /\ (c1 >= 0 => c1 < 4 * Nint(c1, 4) + 2) /\ (c2 >= 0 => c2 < 4 * Nint(c2, 4) + 2)
  <2>1. nelec \in Int /\ nelec >= 0
    OBVIOUS
  <2> QED
    BY ONLY <2>1, <1>4, NintIs
<1>6. /\ paired \in Int /\ Nint(nelec, 4) <= paired /\ Nint(c1, 4) <= paired /\ Nint(c2, 4) <= paired
  <2> DEFINE m == Larger(Nint(c1, 4), Nint(c2, 4))
  <2>1. m \in Int /\ Nint(c1, 4) <= m /\ Nint(c2, 4) <= m
    BY ONLY <1>5, LargerIs
  <2> HIDE DEF m
  <2>2. Larger(Nint(nelec, 4), m) \in Int /\ Nint(nelec, 4) <= Larger(Nint(nelec, 4), m)
        /\ m <= Larger(Nint(nelec, 4), m)
    BY ONLY <1>5, <2>1, LargerIs
  <2>3. paired = Larger(Nint(nelec, 4), m)
    BY DEF m
  <2> HIDE DEF paired
  <2> QED
    BY ONLY <1>5, <2>1, <2>2, <2>3
<1> HIDE DEF paired
<1>7. floor \in Int /\ paired <= floor /\ (in.mode = "noncollinear" => Nint(nelec, 2) <= floor)
  <2>1. Larger(paired, Nint(nelec, 2)) \in Int /\ paired <= Larger(paired, Nint(nelec, 2))
        /\ Nint(nelec, 2) <= Larger(paired, Nint(nelec, 2))
    BY ONLY <1>5, <1>6, LargerIs
  <2> HIDE DEF floor
  <2> QED
    BY ONLY <1>2, <1>6, <2>1
<1>8. floor <= n
  <2> HIDE DEF floor
  <2>1. ~(n < floor)
    BY DEF floor
  <2> QED
    BY ONLY <1>7, <2>1, n \in Int
<1> HIDE DEF floor
<1>9. SpinMode(magnetic) = "noncollinear" => nelec < 2 * n + 1
  BY ONLY <1>1, <1>5, <1>7, <1>8, nelec \in Nat, n \in Int
<1>10. nelec < 4 * n + 2
  BY ONLY <1>5, <1>6, <1>7, <1>8, nelec \in Nat, n \in Int
<1>11. SpinMode(magnetic) = "collinear" /\ tot # None
              => /\ nelec + Magnitude(tot) < 4 * n + 2
                 /\ (nelec + tot >= 0 => nelec + tot < 4 * n + 2)
                 /\ (nelec - tot >= 0 => nelec - tot < 4 * n + 2)
  <2> SUFFICES ASSUME SpinMode(magnetic) = "collinear", tot # None
               PROVE  /\ nelec + Magnitude(tot) < 4 * n + 2
                      /\ (nelec + tot >= 0 => nelec + tot < 4 * n + 2)
                      /\ (nelec - tot >= 0 => nelec - tot < 4 * n + 2)
    OBVIOUS
  <2>1. in.tot = tot /\ tot \in Int
    BY <1>1 DEF Opt
  <2> HIDE DEF tot
  <2>2. c1 = nelec + tot /\ c2 = nelec - tot
    BY ONLY <1>4, <2>1, tot # None
  <2>3. (c1 >= 0 => c1 < 4 * n + 2) /\ (c2 >= 0 => c2 < 4 * n + 2)
    BY ONLY <1>4, <1>5, <1>6, <1>7, <1>8, n \in Int
  <2>4. Magnitude(tot) \in Nat /\ (Magnitude(tot) = tot \/ Magnitude(tot) = -tot)
    BY ONLY <2>1, MagnitudeIs
  <2> QED
    BY ONLY <2>1, <2>2, <2>3, <2>4, nelec \in Nat, n \in Int
<1> QED
  BY <1>9, <1>10, <1>11

\* An empty report: the bands of a step are no fewer than the floor.
LEMMA BandsSuffice ==
  ASSUME Ready, NEW step \in DOMAIN electronic
  PROVE  ~(electronic[step].nbnd.value < BandFloor(system.electronCount.value,
                                                   electronic[step].occupations.value, system.magnetic))
<1> DEFINE a == AdviceOf(step)
<1>1. NbndHoldsEveryElectron(a) = {}
  BY NothingFound, RulesMute
<1>2. a.system = system /\ a.step = electronic[step]
  BY AdviceIs
<1>3. /\ electronic[step].nbnd.ok /\ electronic[step].occupations.ok /\ system.magnetic.ok
      /\ system.electronCount.ok
  BY JobWaits, Settled
<1> HIDE DEF a
<1> QED
  BY ONLY <1>1, <1>2, <1>3 DEF NbndHoldsEveryElectron, If

\* The second conjunct: every electron of a step has a band.
LEMMA ElectronsHold ==
  ASSUME Ready, NEW step \in DOMAIN electronic
  PROVE  ElectronsFit(step)
<1> DEFINE nelec == system.electronCount.value
           occupations == electronic[step].occupations.value
           nbnd == electronic[step].nbnd.value
<1>1. nelec \in Nat /\ occupations.tot \in Opt(Int) /\ nbnd \in Int
  BY CountIs, OccupationsFacts, BandsAreCounted
<1>2. ~(nbnd < BandFloor(nelec, occupations, system.magnetic))
  BY BandsSuffice
<1> HIDE DEF nelec, occupations, nbnd
<1>3. /\ SpinMode(system.magnetic) = "noncollinear" => nelec < 2 * nbnd + 1
      /\ SpinMode(system.magnetic) = "collinear" /\ occupations.tot # None
           => nelec + Magnitude(occupations.tot) < 4 * nbnd + 2
      /\ nelec < 4 * nbnd + 2
  BY ONLY <1>1, <1>2, FloorsHold
<1> QED
  BY ONLY <1>3 DEF ElectronsFit, nelec, occupations, nbnd

\* Electrons that make whole bands fill as many of those there are.
LEMMA Quarters ==
  ASSUME NEW n \in Int, n % 4 = 0, n >= 0, NEW b \in Int, n < 4 * b + 2
  PROVE  n \div 4 \in 0 .. b /\ n = 4 * (n \div 4)
<1> DEFINE q == n \div 4
<1>1. q \in Int /\ 4 * q <= n /\ n < 4 * q + 4 /\ n % 4 = n - 4 * q
  BY Halving
<1> HIDE DEF q
<1>2. q \in 0 .. b /\ n = 4 * q
  BY ONLY <1>1, n \in Int, n % 4 = 0, n >= 0, b \in Int, n < 4 * b + 2
<1> QED
  BY <1>2 DEF q

\* The third conjunct: with fixed occupations each spin fills a whole number of its bands.
LEMMA SpinsHold ==
  ASSUME Ready, NEW step \in DOMAIN electronic
  PROVE  SpinsFill(step)
<1> DEFINE a == AdviceOf(step)
           nelec == system.electronCount.value
           occupations == electronic[step].occupations.value
           nbnd == electronic[step].nbnd.value
           tot == occupations.tot
           mode == SpinMode(system.magnetic)
<1>1. nelec \in Nat /\ tot \in Opt(Int) /\ nbnd \in Int
  BY CountIs, OccupationsFacts, BandsAreCounted
<1>2. ~(nbnd < BandFloor(nelec, occupations, system.magnetic))
  BY BandsSuffice
<1>3. FixedOccupationsNeedsIntegerMoment(a) = {} /\ FixedOccupationsNeedsEvenElectronCount(a) = {}
  BY NothingFound, RulesMute
<1>4. a.system = system /\ a.step = electronic[step] /\ a.purpose = step
  BY AdviceIs
<1>5. /\ electronic[step].nbnd.ok /\ electronic[step].occupations.ok /\ system.magnetic.ok
      /\ system.electronCount.ok
  BY JobWaits, Settled
<1>6. occupations.kind = "fixed" /\ mode # "collinear" => tot = None
  BY OccupationsFacts
<1> HIDE DEF a
<1> SUFFICES ASSUME occupations.kind = "fixed", step \in ScfLike, mode # "noncollinear", MomentIsHeld(step)
             PROVE  \E up, down \in 0 .. nbnd :
                      /\ 2 * (up + down) = nelec
                      /\ mode = "none" => up = down
                      /\ tot # None => 2 * (up - down) = tot
  BY DEF SpinsFill
<1>7. nelec < 4 * nbnd + 2
  BY ONLY <1>1, <1>2, FloorsHold
<1>8. CASE mode = "collinear"
  <2>1. FixedCollinear(a)
    BY <1>4, <1>5, <1>8 DEF FixedCollinear
  <2>2. tot # None /\ WholeSpinChannels(nelec, tot)
    <3>1. a.step.occupations.value.tot = tot /\ a.system.electronCount.value = nelec /\ a.system.electronCount.ok
      BY <1>4, <1>5
    <3> HIDE DEF tot, nelec, occupations
    <3>2. CASE tot = None
      BY ONLY <1>3, <2>1, <3>1, <3>2 DEF FixedOccupationsNeedsIntegerMoment
    <3>3. CASE tot # None
      BY ONLY <1>3, <2>1, <3>1, <3>3 DEF FixedOccupationsNeedsIntegerMoment, If
    <3> QED
      BY <3>2, <3>3
  <2>3. Magnitude(tot) <= nelec
    BY <2>2 DEF MomentIsHeld
  <2>4. tot \in Int
    BY <1>1, <2>2 DEF Opt
  <2>5. /\ (nelec + tot >= 0 => nelec + tot < 4 * nbnd + 2)
        /\ (nelec - tot >= 0 => nelec - tot < 4 * nbnd + 2)
    BY ONLY <1>1, <1>2, <1>8, <2>2, FloorsHold
  <2>6. (nelec + tot) % 4 = 0 /\ (nelec - tot) % 4 = 0
    BY ONLY <2>2 DEF WholeSpinChannels
  <2> HIDE DEF nelec, tot, nbnd
  <2>7. nelec + tot >= 0 /\ nelec - tot >= 0
    <3>1. Magnitude(tot) \in Nat /\ tot <= Magnitude(tot) /\ -tot <= Magnitude(tot)
      BY ONLY <2>4, MagnitudeIs
    <3> QED
      BY ONLY <3>1, <2>3, <2>4, <1>1
  <2>8. nelec + tot \in Int /\ nelec - tot \in Int
    BY ONLY <1>1, <2>4
  <2>9. (nelec + tot) \div 4 \in 0 .. nbnd /\ nelec + tot = 4 * ((nelec + tot) \div 4)
    BY ONLY <2>5, <2>6, <2>7, <2>8, <1>1, Quarters
  <2>10. (nelec - tot) \div 4 \in 0 .. nbnd /\ nelec - tot = 4 * ((nelec - tot) \div 4)
    BY ONLY <2>5, <2>6, <2>7, <2>8, <1>1, Quarters
  <2> DEFINE up == (nelec + tot) \div 4
             down == (nelec - tot) \div 4
  <2>11. up \in 0 .. nbnd /\ down \in 0 .. nbnd /\ nelec + tot = 4 * up /\ nelec - tot = 4 * down
    BY <2>9, <2>10
  <2> HIDE DEF up, down
  <2>12. 2 * (up + down) = nelec /\ 2 * (up - down) = tot
    BY ONLY <2>11, <2>4, <1>1
  <2> QED
    BY <2>11, <2>12, <1>8
<1>9. CASE mode # "collinear"
  <2>1. tot = None
    BY <1>6, <1>9
  <2>2. ~system.magnetic.value.polarized
    <3> HIDE DEF occupations
    <3> QED
      BY ONLY <1>5, <1>9, mode # "noncollinear" DEF SpinMode
  <2>3. WholeSpinChannels(nelec, 0)
    BY <1>3, <1>4, <1>5, <2>2 DEF FixedOccupationsNeedsEvenElectronCount, If
  <2> HIDE DEF nelec, tot, nbnd
  <2>4. nelec % 4 = 0
    <3>1. nelec + 0 = nelec
      BY <1>1
    <3> QED
      BY ONLY <2>3, <3>1 DEF WholeSpinChannels
  <2>5. nelec \div 4 \in 0 .. nbnd /\ nelec = 4 * (nelec \div 4)
    <3>1. nelec \in Int /\ nelec >= 0
      BY <1>1
    <3> QED
      BY ONLY <3>1, <2>4, <1>7, <1>1, Quarters
  <2> DEFINE half == nelec \div 4
  <2>6. half \in 0 .. nbnd /\ nelec = 4 * half
    BY <2>5
  <2> HIDE DEF half
  <2>7. 2 * (half + half) = nelec
    BY ONLY <2>6, <1>1
  <2> QED
    BY <2>1, <2>6, <2>7
<1> QED
  BY <1>8, <1>9

\* An empty report: the densities have settled settings.
LEMMA DosHolds ==
  ASSUME Ready, shared.dos # None
  PROVE  task = "dos" /\ shared.dos.ok
<1>1. shared.dos = IF task = "dos" THEN DosSettings(electronic["nscf"].occupations, request) ELSE None
  BY ReadyIs DEF SharedIs
<1>2. task = "dos"
  BY <1>1
<1>3. "nscf" \in DOMAIN electronic
  BY <1>2, ReadyIs, StepsAre DEF ElectronicIs
<1>4. electronic["nscf"].occupations.ok
  BY <1>3, Settled
<1>5. shared.dos.status # "blocked"
  <2>1. NoneBlocked(<<shared.dos>>)
    BY <1>2, NothingFound
  <2>2. 1 \in DOMAIN <<shared.dos>> /\ <<shared.dos>>[1] = shared.dos
    OBVIOUS
  <2> QED
    BY ONLY <2>1, <2>2 DEF NoneBlocked
<1>6. \/ shared.dos = Blocked("ngauss")
      \/ \E value : shared.dos = Resolved(value, "heuristic")
  BY ONLY <1>1, <1>2, <1>4 DEF DosSettings
<1> QED
  BY ONLY <1>2, <1>5, <1>6, UnresolvedNot, ResolvedIs

\* An empty report: what the phonons are settled from, and that no rule spoke of them.
LEMMA PhononIs ==
  ASSUME Ready, task \in PhononTasks
  PROVE  /\ FirstStep(task) \in DOMAIN electronic
         /\ shared.phonon = PhononAdvice(system, electronic[FirstStep(task)].occupations, request, FirstStep(task))
         /\ PhononFound(AdviceOf(FirstStep(task)), shared.phonon) = {} /\ NoneBlocked(shared.phonon)
<1>1. DOMAIN electronic = ElectronicSteps(task)
  BY ReadyIs DEF ElectronicIs
<1>2. FirstStep(task) \in ElectronicSteps(task)
  BY StepsAre DEF PhononTasks
<1>3. shared.phonon = PhononAdvice(system, electronic[FirstStep(task)].occupations, request, FirstStep(task))
  BY ReadyIs DEF SharedIs
<1> QED
  BY <1>1, <1>2, <1>3, NothingFound

\* The rules about a phonon calculation, when they found nothing.
LEMMA PhononRulesMute ==
  ASSUME NEW a, NEW phonon, PhononFound(a, phonon) = {}
  PROVE  /\ PhononHubbard(a) = {} /\ PhononRefusesAMoleculeInABox(a) = {}
         /\ PhononRefusesTwoFermiEnergies(a) = {}
         /\ VcRelaxPhononRefusesFragileCell(a, phonon.fftGrid) = {} /\ PhononRefusesFixBottomLayers(a) = {}
         /\ PhononNeedsConfirmedMetallicity(a) = {}
BY DEF PhononFound

\* An empty report: every setting of the phonons is settled.
LEMMA PhononHolds ==
  ASSUME Ready, task \in PhononTasks
  PROVE  AllOk(shared.phonon)
<1> DEFINE first == FirstStep(task)
           a == AdviceOf(first)
           p == shared.phonon
           occupations == electronic[first].occupations
           q2r == Q2rSettings(system.boundary)
<1>1. /\ first \in DOMAIN electronic /\ p = PhononAdvice(system, occupations, request, first)
      /\ PhononFound(a, p) = {} /\ NoneBlocked(p)
  BY PhononIs
<1>2. /\ system.cell.ok /\ system.cutoffs.ok /\ system.boundary.ok /\ occupations.ok /\ system.magnetic.ok
  BY <1>1, Settled, JobWaits
<1>3. p = [ fftGrid |-> FftGridOf(system, first), qSampling |-> QSamplingOf(system, request),
            q2r |-> q2r,
            phononDos |-> Resolved("mesh", "heuristic"),
            dispersion |-> DispersionPath(system, occupations, q2r, request) ]
  <2> HIDE DEF first, occupations
  <2> QED
    BY ONLY <1>1, <1>2 DEF PhononAdvice, q2r
<1> DEFINE fftGrid == FftGridOf(system, first)
           qSampling == QSamplingOf(system, request)
           phononDos == Resolved("mesh", "heuristic")
           dispersion == DispersionPath(system, occupations, q2r, request)
<1>4. fftGrid.ok
  <2> HIDE DEF first
  <2>1. \E value : FftGridOf(system, first) = Resolved(value, "heuristic")
    BY ONLY <1>2 DEF FftGridOf
  <2> QED
    BY ONLY <2>1, ResolvedIs
<1>5. q2r.ok
  <2>1. \E value : Q2rSettings(system.boundary) = Resolved(value, "heuristic")
    BY ONLY <1>2 DEF Q2rSettings
  <2> QED
    BY ONLY <2>1, ResolvedIs
<1>6. phononDos.ok
  BY ONLY ResolvedIs
<1> HIDE DEF q2r, fftGrid, qSampling, phononDos, dispersion
<1>7. /\ DOMAIN p = {"fftGrid", "qSampling", "q2r", "phononDos", "dispersion"}
      /\ p.fftGrid = fftGrid /\ p.qSampling = qSampling /\ p.q2r = q2r /\ p.phononDos = phononDos
      /\ p.dispersion = dispersion
  BY ONLY <1>3 DEF fftGrid, qSampling, phononDos, dispersion
<1>8. qSampling.status # "blocked" /\ dispersion.status # "blocked"
  <2> HIDE DEF p
  <2> QED
    BY ONLY <1>1, <1>7 DEF NoneBlocked
<1>9. qSampling.ok
  <2>1. qSampling = Blocked("leaning_vacuum") \/ \E value : qSampling = Resolved(value, "heuristic")
    BY ONLY <1>2 DEF QSamplingOf, qSampling
  <2> QED
    BY ONLY <2>1, <1>8, UnresolvedNot, ResolvedIs
<1>10. ~(system.geometryEff.ok /\ system.geometryEff.value.vacuumAxes = Axes)
  <2>1. PhononRefusesAMoleculeInABox(a) = {}
    <3> HIDE DEF a, p
    <3> QED
      BY ONLY <1>1, PhononRulesMute
  <2>2. a.system = system
    BY AdviceIs
  <2> HIDE DEF a
  <2>3. VacuumAxes(system.magnetic.value.cell) # Axes
    BY ONLY <2>1, <2>2, <1>2 DEF PhononRefusesAMoleculeInABox, If, WrittenCell
  <2>4. system.magnetic.value.cell = system.cell.value.cell.cell
    BY <1>1, MagneticFacts
  <2>5. system.geometryEff = Geometry(site, system.magnetic.value.cell)
    BY <1>2, <2>4, ReadyIs DEF CellIs
  <2>6. \/ ~system.geometryEff.ok
        \/ system.geometryEff.value.vacuumAxes = VacuumAxes(system.magnetic.value.cell)
    BY ONLY <2>5, UnresolvedNot, ResolvedIs DEF Geometry
  <2> QED
    BY ONLY <2>3, <2>6
<1>11. dispersion.ok
  <2> DEFINE path == KPathOf(system, StepValue(request, "dispersion", "k_path_distance"))
  <2>1. dispersion = BlockedBy(path) \/ \E value : dispersion = Resolved(value, "heuristic")
    <3> HIDE DEF occupations
    <3>1. dispersion = IF ~path.ok THEN BlockedBy(path)
             ELSE Resolved([ points |-> path.value,
                             cut |-> occupations.value.kind = "fixed" /\ ~q2r.value.loto2d ],
                           "heuristic")
      BY ONLY <1>2, <1>5, <1>10 DEF DispersionPath, dispersion
    <3> HIDE DEF path
    <3> DEFINE value == [ points |-> path.value,
                             cut |-> occupations.value.kind = "fixed" /\ ~q2r.value.loto2d ]
    <3>2. dispersion = IF ~path.ok THEN BlockedBy(path) ELSE Resolved(value, "heuristic")
      BY <3>1
    <3> HIDE DEF value
    <3> QED
      BY <3>2
  <2> HIDE DEF path
  <2> QED
    BY ONLY <2>1, <1>8, BlockedIs, ResolvedIs
<1> HIDE DEF p
<1>12. AllOk(p)
  BY ONLY <1>4, <1>5, <1>6, <1>7, <1>9, <1>11 DEF AllOk
<1> QED
  BY <1>12 DEF p

\* An empty report: the phonons of what may not be a metal are of fixed occupations, or of
\* a metal that the caller vouches for.
LEMMA MetallicityHolds ==
  ASSUME Ready, task \in PhononTasks, ~AllMetallic(site)
  PROVE  \/ electronic[FirstStep(task)].occupations.value.kind = "fixed"
         \/ analysis.isMetal = Resolved("metal", "human")
<1> DEFINE first == FirstStep(task)
           a == AdviceOf(first)
           m == analysis.isMetal
<1>1. first \in DOMAIN electronic /\ PhononFound(a, shared.phonon) = {}
  BY PhononIs
<1>2. PhononNeedsConfirmedMetallicity(a) = {}
  BY <1>1, PhononRulesMute
<1>3. a.system = system /\ a.step = electronic[first] /\ a.structure = site /\ a.analysis = analysis
  BY AdviceIs
<1>4. electronic[first].occupations.ok /\ system.magnetic.ok
  BY <1>1, Settled, JobWaits
<1> HIDE DEF a, first
<1>5. \/ electronic[first].occupations.value.kind = "fixed"
      \/ m.ok /\ m.source = "human" /\ m.value = "metal"
  BY ONLY <1>2, <1>3, <1>4, ~AllMetallic(site) DEF PhononNeedsConfirmedMetallicity, If
<1>6. m = IsMetal(site, human.is_metal)
  BY ReadyIs DEF AnalysisIs, Analyze
<1>7. m = Unavailable("is_metal") \/ \E value, source : m = Resolved(value, source)
  BY ONLY <1>6 DEF IsMetal
<1>8. m.ok => m = Resolved(m.value, m.source)
  BY ONLY <1>7, UnresolvedNot, ResolvedIs
<1> QED
  BY <1>5, <1>8 DEF first

\* AN EMPTY REPORT PROMISES what ReadyRuns asks before anything is written.
LEMMA ReportHolds ==
  ASSUME Ready
  PROVE  /\ \A step \in DOMAIN electronic : AllOk(Read(step)) /\ ElectronsFit(step) /\ SpinsFill(step)
         /\ shared.dos # None => shared.dos.ok
         /\ shared.phonon # None => AllOk(shared.phonon)
         /\ task \in PhononTasks /\ ~AllMetallic(site) =>
            \/ electronic[FirstStep(task)].occupations.value.kind = "fixed"
            \/ analysis.isMetal = Resolved("metal", "human")
<1>1. shared.phonon # None => task \in PhononTasks
  BY ReadyIs DEF SharedIs
<1> QED
  BY <1>1, FieldsSettled, ElectronsHold, SpinsHold, DosHolds, PhononHolds, MetallicityHolds

-----------------------------------------------------------------------------
(* What is written of a step of pw.x.                                      *)

\* The keywords that the properties read, of the parts of an input.
LEMMA SystemKeywordsAre ==
  ASSUME NEW a, NEW set
  PROVE  LET system_ == SystemKeywords(a, set)
         IN  /\ DOMAIN system_ = { "nat", "nbnd", "nr", "dftd3Threebody", "d3", "assumeIsolated",
                                   "occupations", "degauss", "noncolin", "nspin", "totMagnetization",
                                   "starting", "totCharge" }
             /\ system_.nr = set.grid /\ system_.dftd3Threebody = set.threebody
             /\ system_.d3 = a.system.vdw.value
             /\ system_.assumeIsolated = AssumeIsolated(a.system.boundary.value.isolation)
             /\ system_.occupations = set.occupations.kind
             /\ system_.noncolin = (SpinMode(a.system.magnetic) = "noncollinear")
             /\ system_.nspin = (IF SpinMode(a.system.magnetic) = "collinear" THEN 2 ELSE 1)
             /\ system_.totMagnetization = IF SpinMode(a.system.magnetic) = "collinear"
                                           THEN set.occupations.tot ELSE None
<1> DEFINE k0 == [ nat |-> a.system.magnetic.value.atoms, nbnd |-> set.nbnd,
                   nr |-> set.grid, dftd3Threebody |-> set.threebody, d3 |-> a.system.vdw.value,
                   assumeIsolated |-> AssumeIsolated(a.system.boundary.value.isolation) ]
           k1 == OccupationsKeywords(set)
           k2 == MagneticKeywords(a, set)
           k3 == ChargeKeywords(a)
           j1 == k0 ++ k1
           j2 == j1 ++ k2
           j3 == j2 ++ k3
<1>1. SystemKeywords(a, set) = j3
  BY DEF SystemKeywords
<1>2. /\ DOMAIN k0 = {"nat", "nbnd", "nr", "dftd3Threebody", "d3", "assumeIsolated"}
      /\ k0.nr = set.grid /\ k0.dftd3Threebody = set.threebody /\ k0.d3 = a.system.vdw.value
      /\ k0.assumeIsolated = AssumeIsolated(a.system.boundary.value.isolation)
  BY ONLY TRUE
<1>3. DOMAIN k1 = {"occupations", "degauss"} /\ k1.occupations = set.occupations.kind
  BY ONLY TRUE DEF OccupationsKeywords
<1>4. /\ DOMAIN k2 = {"noncolin", "nspin", "totMagnetization", "starting"}
      /\ k2.noncolin = (SpinMode(a.system.magnetic) = "noncollinear")
      /\ k2.nspin = (IF SpinMode(a.system.magnetic) = "collinear" THEN 2 ELSE 1)
      /\ k2.totMagnetization = IF SpinMode(a.system.magnetic) = "collinear" THEN set.occupations.tot ELSE None
  BY ONLY TRUE DEF MagneticKeywords
<1>5. DOMAIN k3 = {"totCharge"}
  BY ONLY TRUE DEF ChargeKeywords
<1> HIDE DEF k0, k1, k2, k3
<1>6. DOMAIN j1 = DOMAIN k0 \cup DOMAIN k1 /\ (\A x \in DOMAIN k0 : j1[x] = k0[x])
      /\ (\A x \in DOMAIN k1 : x \notin DOMAIN k0 => j1[x] = k1[x])
  BY ONLY Joined
<1> HIDE DEF j1
<1>7. DOMAIN j2 = DOMAIN j1 \cup DOMAIN k2 /\ (\A x \in DOMAIN j1 : j2[x] = j1[x])
      /\ (\A x \in DOMAIN k2 : x \notin DOMAIN j1 => j2[x] = k2[x])
  BY ONLY Joined
<1> HIDE DEF j2
<1>8. DOMAIN j3 = DOMAIN j2 \cup DOMAIN k3 /\ (\A x \in DOMAIN j2 : j3[x] = j2[x])
  BY ONLY Joined
<1> HIDE DEF j3
<1>9. DOMAIN j1 = { "nat", "nbnd", "nr", "dftd3Threebody", "d3", "assumeIsolated", "occupations", "degauss" }
  BY ONLY <1>2, <1>3, <1>6
<1>10. DOMAIN j2 = { "nat", "nbnd", "nr", "dftd3Threebody", "d3", "assumeIsolated", "occupations", "degauss",
                     "noncolin", "nspin", "totMagnetization", "starting" }
  BY ONLY <1>4, <1>7, <1>9
<1>11. DOMAIN j3 = { "nat", "nbnd", "nr", "dftd3Threebody", "d3", "assumeIsolated",
                                   "occupations", "degauss", "noncolin", "nspin", "totMagnetization",
                                   "starting", "totCharge" }
  BY ONLY <1>5, <1>8, <1>10
<1>12. /\ j3.nr = k0.nr /\ j3.dftd3Threebody = k0.dftd3Threebody /\ j3.d3 = k0.d3
       /\ j3.assumeIsolated = k0.assumeIsolated /\ j3.occupations = k1.occupations
       /\ j3.noncolin = k2.noncolin /\ j3.nspin = k2.nspin /\ j3.totMagnetization = k2.totMagnetization
  <2>1. /\ j1.nr = k0.nr /\ j1.dftd3Threebody = k0.dftd3Threebody /\ j1.d3 = k0.d3
        /\ j1.assumeIsolated = k0.assumeIsolated /\ j1.occupations = k1.occupations
    BY ONLY <1>6, <1>2, <1>3
  <2>2. /\ j2.nr = j1.nr /\ j2.dftd3Threebody = j1.dftd3Threebody /\ j2.d3 = j1.d3
        /\ j2.assumeIsolated = j1.assumeIsolated /\ j2.occupations = j1.occupations
        /\ j2.noncolin = k2.noncolin /\ j2.nspin = k2.nspin /\ j2.totMagnetization = k2.totMagnetization
    BY ONLY <1>7, <1>9, <1>4
  <2>3. /\ j3.nr = j2.nr /\ j3.dftd3Threebody = j2.dftd3Threebody /\ j3.d3 = j2.d3
        /\ j3.assumeIsolated = j2.assumeIsolated /\ j3.occupations = j2.occupations
        /\ j3.noncolin = j2.noncolin /\ j3.nspin = j2.nspin /\ j3.totMagnetization = j2.totMagnetization
    BY ONLY <1>8, <1>10
  <2> QED
    BY ONLY <2>1, <2>2, <2>3
<1> QED
  BY ONLY <1>1, <1>2, <1>3, <1>4, <1>11, <1>12

\* The input of a step of pw.x, in the keywords that the properties read.
LEMMA InputIs ==
  ASSUME NEW a, NEW set
  PROVE  LET input == Input(a, set)
         IN  /\ input.maxSeconds = set.maxSeconds
             /\ input.nr = set.grid /\ input.dftd3Threebody = set.threebody
             /\ input.d3 = a.system.vdw.value
             /\ input.assumeIsolated = AssumeIsolated(a.system.boundary.value.isolation)
             /\ input.occupations = set.occupations.kind
             /\ input.noncolin = (SpinMode(a.system.magnetic) = "noncollinear")
             /\ input.nspin = (IF SpinMode(a.system.magnetic) = "collinear" THEN 2 ELSE 1)
             /\ input.totMagnetization = (IF SpinMode(a.system.magnetic) = "collinear"
                                          THEN set.occupations.tot ELSE None)
             /\ input.hubbard = HubbardLines(a).hubbard
             /\ input.fixedLayers = AtomicPositions(set).fixedLayers
<1> DEFINE k0 == ControlKeywords(a, set)
           k1 == SystemKeywords(a, set)
           k2 == ElectronsKeywords(set)
           k3 == HubbardLines(a)
           k4 == KPointsCard(a, set)
           k5 == AtomicPositions(set)
           k6 == IF set.relax = None THEN <<>> ELSE IonsKeywords(set.relax)
           k7 == IF IsVcRelax(set.relax) THEN CellKeywords(set.relax) ELSE <<>>
           j1 == k0 ++ k1
           j2 == j1 ++ k2
           j3 == j2 ++ k3
           j4 == j3 ++ k4
           j5 == j4 ++ k5
           j6 == j5 ++ k6
           j7 == j6 ++ k7
           read == { "nr", "dftd3Threebody", "d3", "assumeIsolated", "occupations", "noncolin", "nspin",
                     "totMagnetization" }
<1>1. Input(a, set) = j7
  BY DEF Input
<1>2. DOMAIN k0 = {"calculation", "maxSeconds", "tstress", "nstep"} /\ k0.maxSeconds = set.maxSeconds
  BY ONLY TRUE DEF ControlKeywords
<1>3. DOMAIN k1 = { "nat", "nbnd", "nr", "dftd3Threebody", "d3", "assumeIsolated",
                    "occupations", "degauss", "noncolin", "nspin", "totMagnetization",
                    "starting", "totCharge" }
  BY ONLY SystemKeywordsAre
<1>4. DOMAIN k2 = {"mixingMode"}
  BY ONLY TRUE DEF ElectronsKeywords
<1>5. DOMAIN k3 = {"hubbard"}
  BY ONLY TRUE DEF HubbardLines
<1>6. DOMAIN k4 = {"card", "points"}
  BY ONLY TRUE DEF KPointsCard
<1>7. DOMAIN k5 = {"fixedLayers"}
  BY ONLY TRUE DEF AtomicPositions
<1> HIDE DEF k0, k1, k2, k3, k4, k5, k6, k7
<1>8. DOMAIN j1 = DOMAIN k0 \cup DOMAIN k1 /\ (\A x \in DOMAIN k0 : j1[x] = k0[x])
      /\ (\A x \in DOMAIN k1 : x \notin DOMAIN k0 => j1[x] = k1[x])
  BY ONLY Joined
<1> HIDE DEF j1
<1>9. DOMAIN j2 = DOMAIN j1 \cup DOMAIN k2 /\ (\A x \in DOMAIN j1 : j2[x] = j1[x])
  BY ONLY Joined
<1> HIDE DEF j2
<1>10. DOMAIN j3 = DOMAIN j2 \cup DOMAIN k3 /\ (\A x \in DOMAIN j2 : j3[x] = j2[x])
       /\ (\A x \in DOMAIN k3 : x \notin DOMAIN j2 => j3[x] = k3[x])
  BY ONLY Joined
<1> HIDE DEF j3
<1>11. DOMAIN j4 = DOMAIN j3 \cup DOMAIN k4 /\ (\A x \in DOMAIN j3 : j4[x] = j3[x])
  BY ONLY Joined
<1> HIDE DEF j4
<1>12. DOMAIN j5 = DOMAIN j4 \cup DOMAIN k5 /\ (\A x \in DOMAIN j4 : j5[x] = j4[x])
       /\ (\A x \in DOMAIN k5 : x \notin DOMAIN j4 => j5[x] = k5[x])
  BY ONLY Joined
<1> HIDE DEF j5
<1>13. DOMAIN j6 = DOMAIN j5 \cup DOMAIN k6 /\ (\A x \in DOMAIN j5 : j6[x] = j5[x])
  BY ONLY Joined
<1> HIDE DEF j6
<1>14. DOMAIN j7 = DOMAIN j6 \cup DOMAIN k7 /\ (\A x \in DOMAIN j6 : j7[x] = j6[x])
  BY ONLY Joined
<1> HIDE DEF j7
<1>15. "maxSeconds" \in DOMAIN j1 /\ j1["maxSeconds"] = k0["maxSeconds"]
       /\ \A x \in read : x \in DOMAIN j1 /\ j1[x] = k1[x]
  BY ONLY <1>2, <1>3, <1>8
<1>16. \A x \in DOMAIN j1 : x \in DOMAIN j7 /\ j7[x] = j1[x]
  BY ONLY <1>9, <1>10, <1>11, <1>12, <1>13, <1>14
<1>17. "hubbard" \notin DOMAIN j2 /\ "fixedLayers" \notin DOMAIN j4
  BY ONLY <1>2, <1>3, <1>4, <1>5, <1>6, <1>8, <1>9, <1>10, <1>11
<1>18. j7["hubbard"] = k3["hubbard"]
  <2>1. "hubbard" \in DOMAIN j3 /\ j3["hubbard"] = k3["hubbard"]
    BY ONLY <1>5, <1>10, <1>17
  <2> QED
    BY ONLY <2>1, <1>11, <1>12, <1>13, <1>14
<1>19. j7["fixedLayers"] = k5["fixedLayers"]
  <2>1. "fixedLayers" \in DOMAIN j5 /\ j5["fixedLayers"] = k5["fixedLayers"]
    BY ONLY <1>7, <1>12, <1>17
  <2> QED
    BY ONLY <2>1, <1>13, <1>14
<1>20. j7["maxSeconds"] = k0["maxSeconds"] /\ \A x \in read : j7[x] = k1[x]
  BY ONLY <1>15, <1>16
<1>21. /\ k1.nr = set.grid /\ k1.dftd3Threebody = set.threebody
             /\ k1.d3 = a.system.vdw.value
             /\ k1.assumeIsolated = AssumeIsolated(a.system.boundary.value.isolation)
             /\ k1.occupations = set.occupations.kind
             /\ k1.noncolin = (SpinMode(a.system.magnetic) = "noncollinear")
             /\ k1.nspin = (IF SpinMode(a.system.magnetic) = "collinear" THEN 2 ELSE 1)
             /\ k1.totMagnetization = IF SpinMode(a.system.magnetic) = "collinear"
                                           THEN set.occupations.tot ELSE None
  BY ONLY SystemKeywordsAre DEF k1
<1>22. j7.maxSeconds = set.maxSeconds /\ j7.hubbard = HubbardLines(a).hubbard
       /\ j7.fixedLayers = AtomicPositions(set).fixedLayers
  BY ONLY <1>2, <1>18, <1>19, <1>20 DEF k3, k5
<1>23. /\ j7.nr = k1.nr /\ j7.dftd3Threebody = k1.dftd3Threebody /\ j7.d3 = k1.d3
       /\ j7.assumeIsolated = k1.assumeIsolated /\ j7.occupations = k1.occupations
       /\ j7.noncolin = k1.noncolin /\ j7.nspin = k1.nspin /\ j7.totMagnetization = k1.totMagnetization
  BY ONLY <1>20
<1> QED
  BY ONLY <1>1, <1>21, <1>22, <1>23

\* A job is timed just when it is asked to be.
LEMMA TimerIs ==
  ASSUME NEW s, NEW steps, NEW h, NEW timer, JobResources(s, steps, h, timer).ok
  PROVE  JobResources(s, steps, h, timer).value.timer = timer
<1> DEFINE partition == PickPartition(s, steps, h.partition)
           fitting == FittingNodes(s, steps, partition)
           nodes == CASE h.nodes # None -> h.nodes
                      [] h.nodes = None /\ h.ntasks # None -> Ceil(h.ntasks, partition.cores)
                      [] OTHER -> IF fitting = None THEN partition.maxNodes ELSE fitting
           r == [ partition |-> partition.name, nodes |-> nodes,
                      ntasks |-> IF h.ntasks = None THEN nodes * partition.cores ELSE h.ntasks,
                      walltime |-> IF h.walltime_h = None THEN partition.maxHours ELSE h.walltime_h,
                      timer |-> timer ]
           j == JobResources(s, steps, h, timer)
           unknown == h.partition # None /\ \A p \in Range(Partitions) : p.name # h.partition
<1>1. j = IF unknown THEN Unavailable("partition") ELSE Resolved(r, "heuristic")
  BY DEF JobResources
<1>2. r.timer = timer
  BY ONLY TRUE
<1> HIDE DEF r, unknown, j
<1>3. j = Resolved(r, "heuristic")
  BY <1>1, UnresolvedNot DEF j
<1>4. j.value.timer = timer
  BY ONLY <1>2, <1>3, ResolvedIs
<1> QED
  BY <1>4 DEF j

\* The job of a task is timed just when ph.x, which stops itself, is in it.
LEMMA JobOf ==
  ASSUME NEW s, NEW sys, NEW of, NEW r, NEW h, NEW t, TaskResources(s, sys, of, r, h, t).job.ok
  PROVE  \E steps : TaskResources(s, sys, of, r, h, t).job = JobResources(s, steps, h, t \in PhononTasks)
<1> DEFINE order == {i \in DOMAIN TaskSteps[t] : TaskSteps[t][i] \in PwSteps}
           needs(e) == <<sys.cutoffs, sys.metadata, sys.magnetic, sys.hubbard,
                         e.nbnd, e.nIrrK, e.convergence>>
           found == [i \in order |-> FirstUnresolved(needs(of[TaskSteps[t][i]]))]
           unresolved == FirstUnresolved(found)
           pairs == [step \in DOMAIN of |-> KpointSpinPairs(of[step].nIrrK.value, sys.magnetic)]
           steps == { [ pairs |-> pairs[step], nbnd |-> of[step].nbnd.value,
                        npool |-> StepValue(r, step, "npool"),
                        ndiag |-> StepValue(r, step, "ndiag") ] : step \in DOMAIN of }
           job == IF ~unresolved.ok THEN BlockedBy(unresolved)
                  ELSE IF ~s.projectors THEN Unavailable("projectors")
                  ELSE JobResources(s, steps, h, t \in PhononTasks)
           resources == TaskResources(s, sys, of, r, h, t)
<1>1. resources.job = job
  BY ONLY SMTT(60) DEF TaskResources
<1> HIDE DEF unresolved, steps
<1>2. resources.job = BlockedBy(unresolved) \/ resources.job = Unavailable("projectors")
      \/ resources.job = JobResources(s, steps, h, t \in PhononTasks)
  BY ONLY <1>1
<1>3. resources.job.ok
  OBVIOUS
<1> HIDE DEF resources
<1>4. resources.job = JobResources(s, steps, h, t \in PhononTasks)
  BY ONLY <1>2, <1>3, BlockedIs, UnresolvedNot
<1> QED
  BY <1>4 DEF resources

\* An empty report: so is the job of this task.
LEMMA TimerFits ==
  ASSUME Ready, NEW step \in DOMAIN electronic
  PROVE  shared.resources.job.value.timer = (task \in PhononTasks)
<1> DEFINE job == shared.resources.job
<1>1. job = TaskResources(site, system, electronic, request, human, task).job
  BY ReadyIs DEF SharedIs
<1>2. job.ok
  BY JobWaits
<1> HIDE DEF job
<1>3. \E steps : job = JobResources(site, steps, human, task \in PhononTasks)
  BY ONLY <1>1, <1>2, JobOf
<1>4. PICK steps : job = JobResources(site, steps, human, task \in PhononTasks)
  BY <1>3
<1>5. job.value.timer = (task \in PhononTasks)
  BY ONLY <1>2, <1>4, TimerIs
<1> QED
  BY <1>5 DEF job

\* An empty report: the pools of a step divide its tasks.
LEMMA PoolsFit ==
  ASSUME Ready, NEW step \in DOMAIN electronic
  PROVE  shared.resources.job.value.ntasks % shared.resources.parallel[step].value.npool = 0
<1> DEFINE a == AdviceOf(step)
<1>1. NpoolMustDivideNtasks(a) = {}
  BY NothingFound, RulesMute
<1>2. a.job = shared.resources.job /\ a.parallel = shared.resources.parallel[step]
  BY AdviceIs
<1>3. shared.resources.job.ok /\ shared.resources.parallel[step].ok
  BY JobWaits
<1> HIDE DEF a
<1> QED
  BY ONLY <1>1, <1>2, <1>3 DEF NpoolMustDivideNtasks, If

\* No setting that has a value is the absent one.
LEMMA NotNone ==
  ASSUME NEW x
  PROVE  /\ (x \in Int => x # None) /\ (x \in CellDofrees => x # None) /\ (x \in RelaxValues => x # None)
         /\ (x \in {"plain", "local-TF", "ph", "martyna-tuckerman"} => x # None)
BY NoneAssumption

\* An empty report: each step has a mesh or a path.
LEMMA PointsAreCounted ==
  ASSUME Ready, NEW step \in DOMAIN electronic
  PROVE  electronic[step].sampling.value # None
<1> DEFINE e == electronic[step]
           distance == StepValue(request, step, "k_path_distance")
           mesh == KSamplingOf(system, task, step)
           path == KPathOf(system, distance)
           cell == system.cell.value.cell.cell
<1>1. e.sampling = IF step = "bands" THEN path ELSE mesh
  BY ReadyIs DEF ElectronicIs, ElectronicAdvice
<1>2. e.sampling.ok /\ system.cell.ok
  BY Settled
<1>3. cell.kpoints \in Nat /\ cell.path \in Nat \cup {None}
  BY CellFacts DEF SoundCell, ValidCell
<1>4. distance = None \/ distance \in Nat \ {0}
  <2>1. distance = None \/ ValidSetting("k_path_distance", distance)
    BY StepOk
  <2> HIDE DEF distance
  <2> QED
    BY ONLY <2>1 DEF ValidSetting
<1> HIDE DEF e, distance
<1> DEFINE points == IF distance = None THEN cell.path ELSE distance
<1>5a. path = IF cell.path = None THEN Unavailable("k_path") ELSE Resolved(points, "heuristic")
  BY ONLY <1>2 DEF KPathOf
<1>5. path = Unavailable("k_path") \/ (path = Resolved(points, "heuristic") /\ cell.path # None)
  <2> HIDE DEF path, points
  <2> QED
    BY <1>5a
<1> DEFINE factor == IF Protocol(task, step) = "tetrahedra_opt" THEN 3 ELSE 1
<1>6. mesh = Resolved(cell.kpoints * factor, "heuristic")
  BY ONLY <1>2 DEF KSamplingOf
<1>7. factor \in Nat
  OBVIOUS
<1> HIDE DEF mesh, path, cell, factor, points
<1>8. e.sampling.value \in Int
  <2>1. CASE step = "bands"
    <3>1. path.ok
      BY <1>1, <1>2, <2>1
    <3>2. path = Resolved(points, "heuristic") /\ cell.path # None
      BY ONLY <3>1, <1>5, UnresolvedNot
    <3>3. path.value = IF distance = None THEN cell.path ELSE distance
      BY ONLY <3>2, ResolvedIs DEF points
    <3> QED
      BY ONLY <3>2, <3>3, <1>1, <1>3, <1>4, <2>1
  <2>2. CASE step # "bands"
    <3>1. mesh.value = cell.kpoints * factor
      BY ONLY <1>6, ResolvedIs
    <3> QED
      BY ONLY <3>1, <1>1, <1>3, <1>7, <2>2
  <2> QED
    BY <2>1, <2>2
<1> QED
  BY ONLY <1>8, NotNone DEF e

\* An empty report: each step has a threshold.
LEMMA ConvergenceIs ==
  ASSUME Ready, NEW step \in DOMAIN electronic
  PROVE  electronic[step].convergence.value # None
<1>1. electronic[step].convergence = Convergence(system, analysis.geometry)
  BY ReadyIs DEF ElectronicIs, ElectronicAdvice
<1>2. system.cell.ok
  BY Settled
<1>3. \E v \in {"plain", "local-TF"} : electronic[step].convergence = Resolved(v, "heuristic")
  BY ONLY <1>1, <1>2 DEF Convergence
<1>4. electronic[step].convergence.value \in {"plain", "local-TF"}
  BY ONLY <1>3, ResolvedIs
<1> QED
  BY ONLY <1>4, NotNone

\* An empty report: the writer is not refused its pseudopotentials.
LEMMA PseudosFit ==
  ASSUME Ready, NEW step \in DOMAIN electronic
  PROVE  ~PseudosRefused(AdviceOf(step))
<1> DEFINE a == AdviceOf(step)
           t == PseudoAdvice(site, system.cell, system.functional, human)
           elements == ElementsOf(site)
<1>1. a.system = system /\ a.structure = site
  BY AdviceIs
<1>2. system.metadata = t.metadata /\ system.table = t.table
  BY ReadyIs DEF PseudoIs
<1>3. t.metadata.ok
  BY <1>2, JobWaits
<1>4. /\ t.table.ok
      /\ t.table = SelectTable(human.pseudo_table_id, elements, system.functional.value,
                               system.cell.value.soc)
      /\ DOMAIN t.metadata.value = elements
  BY ONLY <1>3, MetadataIs
<1>5. \E i \in DOMAIN Tables :
           /\ t.table.value = Tables[i]
           /\ TableFits(Tables[i], elements, system.functional.value, system.cell.value.soc)
  BY ONLY <1>4, SelectedTable
<1>6. t.table.value.functional = system.functional.value
  BY ONLY <1>5 DEF TableFits
<1> HIDE DEF a, t
<1>7. ~PseudosRefused(a)
  BY ONLY <1>1, <1>2, <1>4, <1>6 DEF PseudosRefused
<1> QED
  BY <1>7 DEF a

\* The freedom of a cell that relaxes is one of those pw.x knows.
LEMMA DofreeIs ==
  ASSUME NEW h \in Opt(CellDofrees), NEW geometry, CellDofree(h, geometry).ok
  PROVE  CellDofree(h, geometry).value \in CellDofrees
<1>1. \E v \in CellDofrees : \E source : CellDofree(h, geometry) = Resolved(v, source)
  <2> DEFINE d == CellDofree(h, geometry)
  <2>1. "all" \in CellDofrees /\ "2Dxy" \in CellDofrees
    BY DEF CellDofrees
  <2>2. h # None => h \in CellDofrees
    BY DEF Opt
  <2>3. \/ h # None /\ d = Resolved(h, "human")
        \/ d = Resolved("all", "heuristic") \/ d = Resolved("2Dxy", "heuristic")
        \/ d = Blocked("slab_frame") \/ d = Blocked("wire")
    BY ONLY TRUE DEF CellDofree
  <2>4. d.ok
    OBVIOUS
  <2> HIDE DEF d
  <2>5. \/ h # None /\ d = Resolved(h, "human")
        \/ d = Resolved("all", "heuristic") \/ d = Resolved("2Dxy", "heuristic")
    BY ONLY <2>3, <2>4, UnresolvedNot
  <2> QED
    BY <2>1, <2>2, <2>5 DEF d
<1> HIDE DEF CellDofree
<1> QED
  BY <1>1, ResolvedIs

\* An empty report: the settings of a relaxation are those its step takes.
LEMMA RelaxIs ==
  ASSUME Ready, NEW step \in DOMAIN electronic, step \in RelaxSteps
  PROVE  /\ shared.relax[step].value \in RelaxValues
         /\ shared.relax[step].value.cellDofree # None <=> step = "vc-relax"
<1> DEFINE value(key) == StepValue(request, step, key)
           dofree == IF step = "vc-relax" THEN CellDofree(value("cell_dofree"), system.geometryEff)
                     ELSE Resolved(None, "heuristic")
           r == [ ionDynamics |-> IF value("ion_dynamics") = None THEN "bfgs"
                                      ELSE value("ion_dynamics"),
                  fixBottomLayers |-> value("fix_bottom_layers"),
                  cellDofree |-> dofree.value ]
           relax == shared.relax[step]
<1>1. relax = RelaxSettings(step, electronic[step].convergence, system.geometryEff, request)
  BY ReadyIs DEF SharedIs, RelaxOf
<1>2. relax.ok /\ electronic[step].convergence.ok
  BY Settled, JobWaits
<1>3. relax = IF ~dofree.ok THEN dofree ELSE Resolved(r, "heuristic")
  BY ONLY <1>1, <1>2 DEF RelaxSettings
<1>4. /\ value("ion_dynamics") \in Opt(IonDynamics) /\ value("fix_bottom_layers") \in Opt(Nat \ {0})
      /\ value("cell_dofree") \in Opt(CellDofrees)
  BY StepValues
<1>5. dofree.ok => dofree.value \in Opt(CellDofrees) /\ (dofree.value # None <=> step = "vc-relax")
  <2>1. CASE step = "vc-relax"
    <3>1. dofree = CellDofree(value("cell_dofree"), system.geometryEff)
      BY <2>1
    <3> HIDE DEF dofree, value
    <3>2. dofree.ok => dofree.value \in CellDofrees
      BY ONLY <3>1, <1>4, DofreeIs
    <3> QED
      BY <3>2, <2>1, NotNone DEF Opt
  <2>2. CASE step # "vc-relax"
    <3>1. dofree = Resolved(None, "heuristic")
      BY <2>2
    <3> HIDE DEF dofree
    <3>2. dofree.value = None
      BY ONLY <3>1, ResolvedIs
    <3> QED
      BY <3>2, <2>2 DEF Opt
  <2> QED
    BY <2>1, <2>2
<1>6. dofree.ok => r \in RelaxValues /\ r.cellDofree = dofree.value
  <2> HIDE DEF dofree, value
  <2> SUFFICES ASSUME dofree.ok PROVE r \in RelaxValues /\ r.cellDofree = dofree.value
    OBVIOUS
  <2>1. dofree.value \in CellDofrees \cup {None}
    BY <1>5 DEF Opt
  <2>2. (IF value("ion_dynamics") = None THEN "bfgs" ELSE value("ion_dynamics")) \in IonDynamics
    BY <1>4 DEF Opt, IonDynamics
  <2>3. value("fix_bottom_layers") \in (Nat \ {0}) \cup {None}
    BY ONLY <1>4 DEF Opt
  <2> QED
    BY ONLY <2>1, <2>2, <2>3 DEF RelaxValues
<1> HIDE DEF r, dofree, relax
<1>7. relax = Resolved(r, "heuristic") /\ dofree.ok
  BY ONLY <1>2, <1>3
<1>8. relax.value = r
  BY ONLY <1>7, ResolvedIs
<1> QED
  BY ONLY <1>5, <1>6, <1>7, <1>8 DEF relax

\* An empty report: no more layers are held than the slab has.
LEMMA LayersFit ==
  ASSUME Ready, NEW step \in DOMAIN electronic, step \in RelaxSteps
  PROVE  ~LayersRefused(AdviceOf(step), shared.relax[step].value)
<1> DEFINE a == AdviceOf(step)
           relax == shared.relax[step]
<1>1. FixBottomLayersRequiresSlab(a) = {}
  BY NothingFound, RulesMute
<1>2. a.relax = relax /\ a.purpose = step /\ a.system = system
  BY AdviceIs
<1>3. relax.ok /\ system.magnetic.ok
  BY Settled, JobWaits
<1>4. Relaxing(a) /\ a.system.magnetic.ok
  BY <1>2, <1>3 DEF Relaxing
<1> DEFINE layers == SlabLayers(WrittenCell(a))
           fix == relax.value.fixBottomLayers
<1>5. (IF fix = None THEN {} ELSE IF layers = None THEN {FixBottomLayersWithoutSlab}
                                  ELSE If(fix > layers, FixBottomLayersExceeds)) = {}
  <2> HIDE DEF a, relax
  <2> QED
    BY ONLY <1>1, <1>2, <1>4 DEF FixBottomLayersRequiresSlab, fix
<1> HIDE DEF layers, fix
<1>6. ~(fix # None /\ (layers = None \/ fix > layers))
  BY ONLY <1>5 DEF If
<1> QED
  BY <1>6 DEF LayersRefused, layers, fix

\* A step that runs pw.x, in the parts that the properties read.
LEMMA PwStepIs ==
  ASSUME NEW a, NEW set
  PROVE  LET x == PwStep(a, set)
         IN  /\ x.name = a.purpose /\ x.program = "pw.x" /\ x.input = Input(a, set)
             /\ x.npool = set.parallel.npool /\ x.oneTask = FALSE /\ x.stopFile = FALSE
             /\ x.reads = (IF a.purpose \in {"nscf", "bands"} THEN {Save} ELSE {})
             /\ x.writes = {Save, Stdout(a.purpose)}
BY ONLY TRUE DEF PwStep

\* The settings a step is written with are those that were advised.
LEMMA SettingsAre ==
  ASSUME NEW step, NEW relax, NEW grid, NEW threebody
  PROVE  LET set == PwSettings(AdviceOf(step), relax, grid, threebody)
         IN  /\ set.occupations = electronic[step].occupations.value
             /\ set.kSampling = (IF step = "bands" THEN None ELSE electronic[step].sampling.value)
             /\ set.kPath = (IF step = "bands" THEN electronic[step].sampling.value ELSE None)
             /\ set.nbnd = electronic[step].nbnd.value
             /\ set.convergence = electronic[step].convergence.value
             /\ set.parallel = shared.resources.parallel[step].value
             /\ set.maxSeconds = ~shared.resources.job.value.timer
             /\ set.relax = relax /\ set.grid = grid /\ set.threebody = threebody
<1> DEFINE a == AdviceOf(step)
           set == PwSettings(AdviceOf(step), relax, grid, threebody)
<1>1. /\ a.purpose = step /\ a.step = electronic[step] /\ a.job = shared.resources.job
      /\ a.parallel = shared.resources.parallel[step]
  BY AdviceIs
<1> HIDE DEF a
<1>2. /\ set.occupations = a.step.occupations.value
      /\ set.kSampling = (IF a.purpose = "bands" THEN None ELSE a.step.sampling.value)
      /\ set.kPath = (IF a.purpose = "bands" THEN a.step.sampling.value ELSE None)
      /\ set.nbnd = a.step.nbnd.value
      /\ set.convergence = a.step.convergence.value
      /\ set.parallel = a.parallel.value
      /\ set.maxSeconds = ~a.job.value.timer
      /\ set.relax = relax /\ set.grid = grid /\ set.threebody = threebody
  BY ONLY TRUE DEF PwSettings, a
<1> HIDE DEF set
<1> QED
  BY ONLY <1>1, <1>2 DEF set

\* The relaxation that a step is given.
RelaxGiven(step) == IF step \in RelaxSteps THEN shared.relax[step].value ELSE None

\* An empty report: no step of pw.x is refused when it is written.
LEMMA WrittenStep ==
  ASSUME Ready, NEW step \in DOMAIN electronic, NEW grid, NEW threebody,
         step = "bands" => task \notin PhononTasks
  PROVE  Generated(AdviceOf(step), RelaxGiven(step), grid, threebody) =
           << PwStep(AdviceOf(step), PwSettings(AdviceOf(step), RelaxGiven(step), grid, threebody)) >>
<1> DEFINE a == AdviceOf(step)
           relax == RelaxGiven(step)
           set == PwSettings(a, relax, grid, threebody)
           refused == CASE a.purpose = "bands" -> BandsRefused(a, set)
                        [] a.purpose \in RelaxSteps -> RelaxRefused(a, set)
                        [] OTHER -> ScfRefused(a, set)
<1>1. Generated(a, relax, grid, threebody) = << IF refused THEN RefusedStep ELSE PwStep(a, set) >>
  BY ONLY TRUE DEF Generated
<1>2. /\ set.kSampling = (IF step = "bands" THEN None ELSE electronic[step].sampling.value)
      /\ set.kPath = (IF step = "bands" THEN electronic[step].sampling.value ELSE None)
      /\ set.nbnd = electronic[step].nbnd.value
      /\ set.convergence = electronic[step].convergence.value
      /\ set.maxSeconds = ~shared.resources.job.value.timer
      /\ set.relax = relax
  BY SettingsAre
<1>3. a.purpose = step
  BY AdviceIs
<1>4. /\ electronic[step].sampling.value # None /\ electronic[step].nbnd.value # None
      /\ electronic[step].convergence.value # None
  <2>1. electronic[step].nbnd.value \in Int
    BY BandsAreCounted
  <2> QED
    BY <2>1, PointsAreCounted, ConvergenceIs, NotNone
<1>5. ~PseudosRefused(a)
  BY PseudosFit
<1>6. step \in RelaxSteps =>
        /\ relax # None /\ (relax.cellDofree # None <=> step = "vc-relax")
        /\ ~LayersRefused(a, relax)
  <2> SUFFICES ASSUME step \in RelaxSteps
               PROVE  /\ relax # None /\ (relax.cellDofree # None <=> step = "vc-relax")
                      /\ ~LayersRefused(a, relax)
    OBVIOUS
  <2>1. relax = shared.relax[step].value
    BY DEF RelaxGiven
  <2>2. relax \in RelaxValues /\ (relax.cellDofree # None <=> step = "vc-relax")
    BY <2>1, RelaxIs
  <2>3. ~LayersRefused(a, relax)
    BY <2>1, LayersFit
  <2> QED
    BY ONLY <2>2, <2>3, NotNone
<1>7. step \notin RelaxSteps => relax = None
  BY DEF RelaxGiven
<1>8. shared.resources.job.value.timer = (task \in PhononTasks)
  BY TimerFits
<1> HIDE DEF a, set, relax
<1>9. CASE step = "bands"
  <2>1. ~Missing(set, {"kPath", "nbnd", "convergence"})
    BY ONLY <1>2, <1>4, <1>9 DEF Missing
  <2>2. set.maxSeconds
    BY <1>2, <1>8, <1>9
  <2>3. ~BandsRefused(a, set)
    BY ONLY <2>1, <2>2, <1>5 DEF BandsRefused
  <2>4. ~refused
    BY <2>3, <1>3, <1>9 DEF RelaxSteps
  <2> QED
    BY <1>1, <2>4 DEF a, set, relax
<1>10. CASE step \in RelaxSteps
  <2>1. step # "bands"
    BY <1>10 DEF RelaxSteps
  <2>2. ~Missing(set, {"kSampling", "nbnd", "convergence"})
    BY ONLY <1>2, <1>4, <2>1 DEF Missing
  <2>3. IsVcRelax(set.relax) = (a.purpose = "vc-relax")
    BY ONLY <1>2, <1>3, <1>6, <1>10 DEF IsVcRelax
  <2>4. ~RelaxRefused(a, set)
    BY ONLY <2>2, <2>3, <1>2, <1>5, <1>6, <1>10 DEF RelaxRefused
  <2>5. ~refused
    BY <2>4, <2>1, <1>3, <1>10
  <2> QED
    BY <1>1, <2>5 DEF a, set, relax
<1>11. CASE step # "bands" /\ step \notin RelaxSteps
  <2>1. ~Missing(set, {"kSampling", "nbnd", "convergence"})
    BY ONLY <1>2, <1>4, <1>11 DEF Missing
  <2>2. ~ScfRefused(a, set)
    BY ONLY <2>1, <1>2, <1>5, <1>7, <1>11 DEF ScfRefused
  <2>3. ~refused
    BY <2>2, <1>3, <1>11
  <2> QED
    BY <1>1, <2>3 DEF a, set, relax
<1> QED
  BY <1>9, <1>10, <1>11

\* What is written of a step that runs pw.x.
Collinear == SpinMode(system.magnetic) = "collinear"
\* What the properties read of such a step, as it was written.
Wrote(x, step, grid, threebody) ==
  /\ x.name = step /\ x.program = "pw.x" /\ x.oneTask = FALSE /\ x.stopFile = FALSE
  /\ x.reads = (IF step \in {"nscf", "bands"} THEN {Save} ELSE {}) /\ x.writes = {Save, Stdout(step)}
  /\ shared.resources.job.value.ntasks % x.npool = 0
  /\ x.input.maxSeconds # shared.resources.job.value.timer
  /\ x.input.nr = grid /\ x.input.dftd3Threebody = threebody /\ x.input.d3 = system.vdw.value
  /\ x.input.assumeIsolated = AssumeIsolated(system.boundary.value.isolation)
  /\ x.input.occupations = electronic[step].occupations.value.kind
  /\ x.input.noncolin = (SpinMode(system.magnetic) = "noncollinear")
  /\ x.input.nspin = (IF Collinear THEN 2 ELSE 1)
  /\ x.input.totMagnetization = (IF Collinear THEN electronic[step].occupations.value.tot ELSE None)
  /\ x.input.hubbard = HubbardLines(AdviceOf(step)).hubbard
  /\ x.input.fixedLayers = (IF step \in RelaxSteps THEN shared.relax[step].value.fixBottomLayers ELSE None)

\* An empty report: each step of pw.x is written as it was advised.
LEMMA StepIsWritten ==
  ASSUME Ready, NEW step \in DOMAIN electronic, NEW grid, NEW threebody,
         step = "bands" => task \notin PhononTasks
  PROVE  \E x : /\ Generated(AdviceOf(step), RelaxGiven(step), grid, threebody) = <<x>>
                /\ Wrote(x, step, grid, threebody)
<1> DEFINE a == AdviceOf(step)
           relax == RelaxGiven(step)
           set == PwSettings(a, relax, grid, threebody)
           x == PwStep(a, set)
<1>1. Generated(a, relax, grid, threebody) = <<x>>
  BY WrittenStep
<1>2. a.purpose = step /\ a.system = system
  BY AdviceIs
<1>3. /\ set.occupations = electronic[step].occupations.value
      /\ set.parallel = shared.resources.parallel[step].value
      /\ set.maxSeconds = ~shared.resources.job.value.timer
      /\ set.relax = relax /\ set.grid = grid /\ set.threebody = threebody
  BY SettingsAre
<1>4. step \in RelaxSteps => relax # None
  <2>1. step \in RelaxSteps => relax \in RelaxValues
    BY RelaxIs DEF RelaxGiven
  <2> QED
    BY ONLY <2>1, NotNone
<1>5. AtomicPositions(set).fixedLayers =
        IF step \in RelaxSteps THEN shared.relax[step].value.fixBottomLayers ELSE None
  <2> HIDE DEF set, relax
  <2>1. AtomicPositions(set).fixedLayers = IF relax = None THEN None ELSE relax.fixBottomLayers
    BY ONLY <1>3 DEF AtomicPositions
  <2> QED
    BY ONLY <2>1, <1>4 DEF relax, RelaxGiven
<1>6. shared.resources.job.value.ntasks % set.parallel.npool = 0
  <2>1. shared.resources.job.value.ntasks % shared.resources.parallel[step].value.npool = 0
    BY PoolsFit
  <2> HIDE DEF set
  <2> QED
    BY ONLY <2>1, <1>3
<1>7. set.maxSeconds # shared.resources.job.value.timer
  <2>1. shared.resources.job.value.timer = (task \in PhononTasks)
    BY TimerFits
  <2> HIDE DEF set
  <2> QED
    BY ONLY <2>1, <1>3
<1> HIDE DEF a, set
<1>8. /\ x.name = a.purpose /\ x.program = "pw.x" /\ x.input = Input(a, set)
      /\ x.npool = set.parallel.npool /\ x.oneTask = FALSE /\ x.stopFile = FALSE
      /\ x.reads = (IF a.purpose \in {"nscf", "bands"} THEN {Save} ELSE {})
      /\ x.writes = {Save, Stdout(a.purpose)}
  BY ONLY PwStepIs
<1> DEFINE input == Input(a, set)
<1>9. /\ input.maxSeconds = set.maxSeconds
      /\ input.nr = set.grid /\ input.dftd3Threebody = set.threebody
      /\ input.d3 = a.system.vdw.value
      /\ input.assumeIsolated = AssumeIsolated(a.system.boundary.value.isolation)
      /\ input.occupations = set.occupations.kind
      /\ input.noncolin = (SpinMode(a.system.magnetic) = "noncollinear")
      /\ input.nspin = (IF SpinMode(a.system.magnetic) = "collinear" THEN 2 ELSE 1)
      /\ input.totMagnetization = (IF SpinMode(a.system.magnetic) = "collinear"
                                   THEN set.occupations.tot ELSE None)
      /\ input.hubbard = HubbardLines(a).hubbard
      /\ input.fixedLayers = AtomicPositions(set).fixedLayers
  BY ONLY InputIs
<1> HIDE DEF input, x
<1>10. x.input = input
  BY ONLY <1>8 DEF input
<1>11. /\ x.name = step /\ x.program = "pw.x" /\ x.oneTask = FALSE /\ x.stopFile = FALSE
       /\ x.reads = (IF step \in {"nscf", "bands"} THEN {Save} ELSE {}) /\ x.writes = {Save, Stdout(step)}
       /\ shared.resources.job.value.ntasks % x.npool = 0
  BY ONLY <1>2, <1>6, <1>8
<1>12. /\ x.input.maxSeconds # shared.resources.job.value.timer
       /\ x.input.nr = grid /\ x.input.dftd3Threebody = threebody /\ x.input.d3 = system.vdw.value
       /\ x.input.assumeIsolated = AssumeIsolated(system.boundary.value.isolation)
       /\ x.input.occupations = electronic[step].occupations.value.kind
       /\ x.input.hubbard = HubbardLines(AdviceOf(step)).hubbard
  BY ONLY <1>2, <1>3, <1>7, <1>9, <1>10 DEF a
<1>13. x.input.noncolin = (SpinMode(system.magnetic) = "noncollinear")
  BY ONLY <1>2, <1>9, <1>10
<1>14. x.input.nspin = (IF Collinear THEN 2 ELSE 1)
  BY ONLY <1>2, <1>9, <1>10 DEF Collinear
<1>15. x.input.totMagnetization = (IF Collinear THEN electronic[step].occupations.value.tot ELSE None)
  BY ONLY <1>2, <1>3, <1>9, <1>10 DEF Collinear
<1>16. x.input.fixedLayers = (IF step \in RelaxSteps THEN shared.relax[step].value.fixBottomLayers ELSE None)
  BY ONLY <1>5, <1>9, <1>10
<1>17. Wrote(x, step, grid, threebody)
  BY ONLY <1>11, <1>12, <1>13, <1>14, <1>15, <1>16 DEF Wrote
<1> QED
  BY <1>1, <1>17 DEF a

-----------------------------------------------------------------------------
(* Jobs that run.                                                          *)

\* The run whose save a step is to find.
Wanted(program) ==
  CASE program = "bands.x" -> "bands" [] program = "dos.x" -> "nscf" [] OTHER -> FirstStep(task)

\* A step finds the files that it reads, overwrites only the save, and reads the save of the
\* run it is meant for.
Meets(job, i) ==
  /\ job[i].reads \subseteq UNION {job[j].writes : j \in 1 .. i - 1}
  /\ \A j \in 1 .. i - 1 : job[i].writes \cap job[j].writes \subseteq {Save}
  /\ Save \in job[i].reads =>
       \A j \in DOMAIN job : SaveIsOf(job, i, j) => job[j].name = Wanted(job[i].program)

\* A job meets its files when every step of it does.
LEMMA AllMeet ==
  ASSUME NEW job, \A i \in DOMAIN job : Meets(job, i)
  PROVE  FilesMeet(job)
BY DEF FilesMeet, Meets, Wanted

\* A first step that reads nothing has nothing to miss.
LEMMA MeetsFirst ==
  ASSUME NEW job, job[1].reads = {}
  PROVE  Meets(job, 1)
<1>1. 1 .. 1 - 1 = {}
  OBVIOUS
<1> QED
  BY <1>1 DEF Meets

\* How a step is shown to meet its files: by naming the step that wrote each, and the last one
\* that wrote the save.
LEMMA MeetsIs ==
  ASSUME NEW job, DOMAIN job \subseteq Nat, NEW i \in Nat,
         \A f \in job[i].reads : \E j \in 1 .. i - 1 : f \in job[j].writes,
         \A j \in 1 .. i - 1 : \A f \in job[i].writes : f \in job[j].writes => f = Save,
         Save \in job[i].reads =>
           \E k \in 1 .. i - 1 : /\ Save \in job[k].writes /\ job[k].name = Wanted(job[i].program)
                                 /\ \A j \in k + 1 .. i - 1 : Save \notin job[j].writes
  PROVE  Meets(job, i)
<1>1. job[i].reads \subseteq UNION {job[j].writes : j \in 1 .. i - 1}
  OBVIOUS
<1>2. \A j \in 1 .. i - 1 : job[i].writes \cap job[j].writes \subseteq {Save}
  OBVIOUS
<1>3. ASSUME Save \in job[i].reads, NEW j \in DOMAIN job, SaveIsOf(job, i, j)
      PROVE  job[j].name = Wanted(job[i].program)
  <2>1. PICK k \in 1 .. i - 1 : /\ Save \in job[k].writes /\ job[k].name = Wanted(job[i].program)
                                /\ \A m \in k + 1 .. i - 1 : Save \notin job[m].writes
    BY <1>3
  <2>2. /\ j \in Nat /\ j < i /\ Save \in job[j].writes
        /\ \A m \in j + 1 .. i - 1 : Save \notin job[m].writes
    BY <1>3 DEF SaveIsOf
  <2>3. ~(j < k) /\ ~(k < j)
    BY <2>1, <2>2
  <2>4. j = k
    BY ONLY <2>2, <2>3, k \in 1 .. i - 1, i \in Nat
  <2> QED
    BY <2>1, <2>4
<1> QED
  BY ONLY <1>1, <1>2, <1>3 DEF Meets

\* The files of a job are told apart.
LEMMA FilesDiffer ==
  /\ Save # Hessian /\ Save # Matrices /\ Save # ForceConstants /\ Hessian # Matrices
  /\ Hessian # ForceConstants /\ Matrices # ForceConstants
  /\ \A f \in {<<"dos">>, <<"phdos">>, <<"freq">>} : f \notin {Save, Hessian, Matrices, ForceConstants}
  /\ \A c : <<"filband", c>> \notin {Save, Hessian, Matrices, ForceConstants}
  /\ <<"phdos">> # <<"freq">> /\ <<"filband", "up">> # <<"filband", "down">>
  /\ \A n : Stdout(n) \notin {Save, Hessian, Matrices, ForceConstants, <<"dos">>, <<"phdos">>, <<"freq">>}
  /\ \A n, c : Stdout(n) # <<"filband", c>>
  /\ \A m, n : Stdout(m) = Stdout(n) => m = n
<1>1. /\ Save # Hessian /\ Save # Matrices /\ Save # ForceConstants /\ Hessian # Matrices
      /\ Hessian # ForceConstants /\ Matrices # ForceConstants
  BY DEF Save, Hessian, Matrices, ForceConstants
<1>2. \A f \in {<<"dos">>, <<"phdos">>, <<"freq">>} : f \notin {Save, Hessian, Matrices, ForceConstants}
  BY DEF Save, Hessian, Matrices, ForceConstants
<1>3. \A c : <<"filband", c>> \notin {Save, Hessian, Matrices, ForceConstants}
  BY DEF Save, Hessian, Matrices, ForceConstants
<1>4. <<"phdos">> # <<"freq">> /\ <<"filband", "up">> # <<"filband", "down">>
  OBVIOUS
<1>5. \A n : Stdout(n) \notin {Save, Hessian, Matrices, ForceConstants, <<"dos">>, <<"phdos">>, <<"freq">>}
  BY DEF Stdout, Save, Hessian, Matrices, ForceConstants
<1>6. \A n, c : Stdout(n) # <<"filband", c>>
  BY DEF Stdout
<1>7. \A m, n : Stdout(m) = Stdout(n) => m = n
  BY DEF Stdout
<1> QED
  BY ONLY <1>1, <1>2, <1>3, <1>4, <1>5, <1>6, <1>7

\* A step that runs on one task, in the parts that the properties read.
LEMMA OneTaskIs ==
  ASSUME NEW name, NEW program, NEW input, NEW reads, NEW writes
  PROVE  LET x == OneTaskStep(name, program, input, reads, writes)
         IN  /\ x.name = name /\ x.program = program /\ x.oneTask = TRUE /\ x.stopFile = FALSE
             /\ x.reads = reads /\ x.writes = writes \cup {Stdout(name)}
BY ONLY TRUE DEF OneTaskStep

\* The job of a task that ends by itself.
LEMMA JobEnds ==
  ASSUME NEW job, shared.resources.job.value.timer = FALSE,
         \A i \in DOMAIN job : job[i].stopFile = FALSE,
         \A i \in DOMAIN job : ~job[i].oneTask => shared.resources.job.value.ntasks % job[i].npool = 0,
         \A i \in DOMAIN job : job[i].program = "pw.x" =>
           job[i].input.maxSeconds # shared.resources.job.value.timer
  PROVE  JobFits(job)
<1>1. {i \in DOMAIN job : job[i].stopFile} = {}
  OBVIOUS
<1>2. Cardinality({}) = 0
  BY FS_EmptySet
<1> QED
  BY <1>1, <1>2 DEF JobFits, Named

\* The job of a task that a timer stops.
LEMMA JobIsStopped ==
  ASSUME NEW job, shared.resources.job.value.timer = TRUE, NEW k \in DOMAIN job, job[k].stopFile = TRUE,
         \A i \in DOMAIN job : i # k => job[i].stopFile = FALSE,
         \A i \in DOMAIN job : ~job[i].oneTask => shared.resources.job.value.ntasks % job[i].npool = 0,
         \A i \in DOMAIN job : job[i].program = "pw.x" =>
           job[i].input.maxSeconds # shared.resources.job.value.timer
  PROVE  JobFits(job)
<1>1. {i \in DOMAIN job : job[i].stopFile} = {k}
  OBVIOUS
<1>2. Cardinality({k}) = 1
  BY FS_Singleton
<1> QED
  BY <1>1, <1>2 DEF JobFits, Named

\* A job without a program has no step of it.
LEMMA NoneNamed ==
  ASSUME NEW job, NEW program, \A i \in DOMAIN job : job[i].program # program
  PROVE  Named(job, program) = {}
BY DEF Named

\* A job whose steps were all written.
NoneRefused(job) == DOMAIN job # {} /\ \A i \in DOMAIN job : ~Refused(job[i])

\* What ReadyRuns says of the job that is written.
JobRuns(job) == NoneRefused(job) /\ FilesMeet(job) /\ JobFits(job) /\ BandsXRuns(job) /\ PhXRuns(job)

\* The job of one run of pw.x runs.
LEMMA SingleRuns ==
  ASSUME NEW x, NEW step, Wrote(x, step, None, None), step \notin {"nscf", "bands"},
         shared.resources.job.value.timer = FALSE
  PROVE  JobRuns(<<x>>)
<1> DEFINE job == <<x>>
<1>1. DOMAIN job = {1} /\ job[1] = x
  OBVIOUS
<1>2. /\ x.program = "pw.x" /\ x.oneTask = FALSE /\ x.stopFile = FALSE /\ x.reads = {}
      /\ shared.resources.job.value.ntasks % x.npool = 0
      /\ x.input.maxSeconds # shared.resources.job.value.timer
  BY DEF Wrote
<1> HIDE DEF job
<1>3. FilesMeet(job)
  <2>1. Meets(job, 1)
    BY ONLY <1>1, <1>2, MeetsFirst
  <2> QED
    BY ONLY <2>1, <1>1, AllMeet
<1>4. JobFits(job)
  BY ONLY <1>1, <1>2, shared.resources.job.value.timer = FALSE, JobEnds
<1>5. Named(job, "bands.x") = {} /\ Named(job, "ph.x") = {}
  BY ONLY <1>1, <1>2, NoneNamed
<1>6. BandsXRuns(job) /\ PhXRuns(job)
  BY ONLY <1>5 DEF BandsXRuns, PhXRuns
<1>7. NoneRefused(job)
  BY ONLY <1>1, <1>2 DEF NoneRefused, Refused
<1> QED
  BY <1>3, <1>4, <1>6, <1>7 DEF JobRuns, job

\* The job of a density of states runs.
LEMMA DosRuns ==
  ASSUME NEW x, NEW y, Wrote(x, "scf", None, None), Wrote(y, "nscf", None, None), NEW input,
         shared.resources.job.value.timer = FALSE, FirstStep(task) = "scf"
  PROVE  JobRuns(<<x, y, OneTaskStep("dos", "dos.x", input, {Save}, {<<"dos">>})>>)
<1> DEFINE z == OneTaskStep("dos", "dos.x", input, {Save}, {<<"dos">>})
           job == <<x, y, z>>
           dos == <<"dos">>
<1>1. DOMAIN job = {1, 2, 3} /\ job[1] = x /\ job[2] = y /\ job[3] = z
  OBVIOUS
<1>2. /\ x.name = "scf" /\ x.program = "pw.x" /\ x.oneTask = FALSE /\ x.stopFile = FALSE /\ x.reads = {}
      /\ x.writes = {Save, Stdout("scf")}
      /\ shared.resources.job.value.ntasks % x.npool = 0
      /\ x.input.maxSeconds # shared.resources.job.value.timer
  BY DEF Wrote
<1>3. /\ y.name = "nscf" /\ y.program = "pw.x" /\ y.oneTask = FALSE /\ y.stopFile = FALSE /\ y.reads = {Save}
      /\ y.writes = {Save, Stdout("nscf")}
      /\ shared.resources.job.value.ntasks % y.npool = 0
      /\ y.input.maxSeconds # shared.resources.job.value.timer
  BY DEF Wrote
<1>4. /\ z.program = "dos.x" /\ z.oneTask = TRUE /\ z.stopFile = FALSE /\ z.reads = {Save}
      /\ z.writes = {dos} \cup {Stdout("dos")}
  BY ONLY TRUE DEF OneTaskStep
<1> HIDE DEF job, z
<1>5. FilesMeet(job)
  <2>0. Wanted("pw.x") = "scf" /\ Wanted("dos.x") = "nscf"
    BY DEF Wanted
  <2>1. Meets(job, 1)
    BY ONLY <1>1, <1>2, MeetsFirst
  <2>2. Meets(job, 2)
    <3>1. \A f \in job[2].reads : \E j \in 1 .. 2 - 1 : f \in job[j].writes
      BY ONLY <1>1, <1>2, <1>3
    <3>2. \A j \in 1 .. 2 - 1 : \A f \in job[2].writes : f \in job[j].writes => f = Save
      <4>1. Stdout("nscf") # Stdout("scf") /\ Stdout("nscf") # Save
        BY FilesDiffer
      <4> QED
        BY ONLY <4>1, <1>1, <1>2, <1>3
    <3>3. \E k \in 1 .. 2 - 1 : /\ Save \in job[k].writes /\ job[k].name = Wanted(job[2].program)
                                /\ \A j \in k + 1 .. 2 - 1 : Save \notin job[j].writes
      <4>1. Save \in job[1].writes /\ job[1].name = Wanted(job[2].program)
        BY ONLY <1>1, <1>2, <1>3, <2>0
      <4> QED
        BY <4>1
    <3>4. DOMAIN job \subseteq Nat
      BY <1>1
    <3> QED
      BY ONLY <3>1, <3>2, <3>3, <3>4, MeetsIs
  <2>3. Meets(job, 3)
    <3>1. \A f \in job[3].reads : \E j \in 1 .. 3 - 1 : f \in job[j].writes
      BY ONLY <1>1, <1>2, <1>4
    <3>2. \A j \in 1 .. 3 - 1 : \A f \in job[3].writes : f \in job[j].writes => f = Save
      <4>1. Stdout("dos") # Stdout("scf") /\ Stdout("dos") # Stdout("nscf") /\ Stdout("dos") # Save
            /\ dos # Stdout("scf") /\ dos # Stdout("nscf") /\ dos # Save
        BY FilesDiffer
      <4> HIDE DEF dos
      <4> QED
        BY ONLY <4>1, <1>1, <1>2, <1>3, <1>4
    <3>3. \E k \in 1 .. 3 - 1 : /\ Save \in job[k].writes /\ job[k].name = Wanted(job[3].program)
                                /\ \A j \in k + 1 .. 3 - 1 : Save \notin job[j].writes
      <4>1. Save \in job[2].writes /\ job[2].name = Wanted(job[3].program)
        BY ONLY <1>1, <1>3, <1>4, <2>0
      <4> QED
        BY <4>1
    <3>4. DOMAIN job \subseteq Nat
      BY <1>1
    <3> QED
      BY ONLY <3>1, <3>2, <3>3, <3>4, MeetsIs
  <2> QED
    BY ONLY <2>1, <2>2, <2>3, <1>1, AllMeet
<1>6. JobFits(job)
  BY ONLY <1>1, <1>2, <1>3, <1>4, shared.resources.job.value.timer = FALSE, JobEnds
<1>7. Named(job, "bands.x") = {} /\ Named(job, "ph.x") = {}
  BY ONLY <1>1, <1>2, <1>3, <1>4, NoneNamed
<1>8. BandsXRuns(job) /\ PhXRuns(job)
  BY ONLY <1>7 DEF BandsXRuns, PhXRuns
<1>9. NoneRefused(job)
  BY ONLY <1>1, <1>2, <1>3, <1>4 DEF NoneRefused, Refused
<1> QED
  BY <1>5, <1>6, <1>8, <1>9 DEF JobRuns, job, z

\* A run of bands.x, in the parts that the properties read.
LEMMA BandsXIs ==
  ASSUME NEW name, NEW filband, NEW component
  PROVE  LET z == BandsX(name, filband, component)
         IN  /\ z.name = name /\ z.program = "bands.x" /\ z.oneTask = TRUE /\ z.stopFile = FALSE
             /\ z.reads = {Save} /\ z.writes = {<<"filband", filband>>} \cup {Stdout(name)}
BY ONLY TRUE DEF BandsX, OneTaskStep

\* The scf and the bands run of a band task, before its runs of bands.x.
LEMMA BandStart ==
  ASSUME NEW job, NEW x, NEW y, DOMAIN job \subseteq Nat, 1 \in DOMAIN job, 2 \in DOMAIN job,
         job[1] = x, job[2] = y, FirstStep(task) = "scf",
         x.name = "scf", x.program = "pw.x", x.reads = {}, x.writes = {Save, Stdout("scf")},
         y.name = "bands", y.program = "pw.x", y.reads = {Save}, y.writes = {Save, Stdout("bands")}
  PROVE  Meets(job, 1) /\ Meets(job, 2)
<1>1. Meets(job, 1)
  BY MeetsFirst
<1>2. \A f \in job[2].reads : \E j \in 1 .. 2 - 1 : f \in job[j].writes
  OBVIOUS
<1>3. \A j \in 1 .. 2 - 1 : \A f \in job[2].writes : f \in job[j].writes => f = Save
  <2>1. Stdout("bands") # Stdout("scf") /\ Stdout("bands") # Save
    BY FilesDiffer
  <2> QED
    BY <2>1
<1>4. \E k \in 1 .. 2 - 1 : /\ Save \in job[k].writes /\ job[k].name = Wanted(job[2].program)
                            /\ \A j \in k + 1 .. 2 - 1 : Save \notin job[j].writes
  <2>1. Save \in job[1].writes /\ job[1].name = Wanted(job[2].program)
    BY DEF Wanted
  <2> QED
    BY <2>1
<1> QED
  BY ONLY <1>1, <1>2, <1>3, <1>4, DOMAIN job \subseteq Nat, MeetsIs

\* A run of bands.x after them, alone or with the run for the other spin.
LEMMA BandsXMeets ==
  ASSUME NEW job, NEW i \in {3, 4}, NEW name, NEW filband, DOMAIN job \subseteq Nat,
         name \notin {"scf", "bands"},
         job[1].writes = {Save, Stdout("scf")}, job[2].writes = {Save, Stdout("bands")},
         job[2].name = "bands", job[i].program = "bands.x", job[i].reads = {Save},
         job[i].writes = {<<"filband", filband>>} \cup {Stdout(name)},
         i = 4 => \E other, c : /\ job[3].writes = {<<"filband", c>>} \cup {Stdout(other)}
                                /\ other # name /\ <<"filband", c>> # <<"filband", filband>>
  PROVE  Meets(job, i)
<1>1. \A f \in job[i].reads : \E j \in 1 .. i - 1 : f \in job[j].writes
  OBVIOUS
<1>2. /\ Stdout(name) # Stdout("scf") /\ Stdout(name) # Stdout("bands") /\ Stdout(name) # Save
      /\ \A c : <<"filband", c>> # Save /\ \A n : <<"filband", c>> # Stdout(n)
      /\ \A n : n # name => Stdout(n) # Stdout(name)
      /\ \A n : Stdout(n) # Save
  BY ONLY FilesDiffer, name \notin {"scf", "bands"}
<1> DEFINE out == <<"filband", filband>>
<1>3. out # Save /\ \A n : out # Stdout(n)
  BY ONLY <1>2
<1>4. i = 4 => \A f \in job[i].writes : f \notin job[3].writes
  <2> SUFFICES ASSUME i = 4 PROVE \A f \in job[i].writes : f \notin job[3].writes
    OBVIOUS
  <2>1. PICK other : \E c : /\ job[3].writes = {<<"filband", c>>} \cup {Stdout(other)}
                                /\ other # name /\ <<"filband", c>> # out
    OBVIOUS
  <2>2. PICK c : /\ job[3].writes = {<<"filband", c>>} \cup {Stdout(other)}
                 /\ other # name /\ <<"filband", c>> # out
    BY <2>1
  <2>3. <<"filband", c>> # Stdout(name) /\ Stdout(other) # Stdout(name) /\ out # Stdout(other)
    BY ONLY <1>2, <1>3, <2>2
  <2>4. job[i].writes = {out} \cup {Stdout(name)}
    OBVIOUS
  <2> DEFINE p == <<"filband", c>>
  <2>5. job[3].writes = {p} \cup {Stdout(other)} /\ p # out /\ p # Stdout(name)
    BY ONLY <2>2, <2>3
  <2> HIDE DEF p, out
  <2> QED
    BY ONLY <2>3, <2>4, <2>5
<1>5. i = 4 => Save \notin job[3].writes
  <2> SUFFICES ASSUME i = 4 PROVE Save \notin job[3].writes
    OBVIOUS
  <2>1. PICK other : \E c : job[3].writes = {<<"filband", c>>} \cup {Stdout(other)}
    OBVIOUS
  <2>2. PICK c : job[3].writes = {<<"filband", c>>} \cup {Stdout(other)}
    BY <2>1
  <2>3. Stdout(other) # Save /\ <<"filband", c>> # Save
    BY ONLY <1>2
  <2> DEFINE p == <<"filband", c>>
  <2> HIDE DEF p
  <2> QED
    BY ONLY <2>2, <2>3 DEF p
<1>6. \A j \in 1 .. i - 1 : j \in {1, 2} \/ (i = 4 /\ j = 3)
  OBVIOUS
<1>7. \A j \in {1, 2} : \A f \in job[i].writes : f \in job[j].writes => f = Save
  <2>1. job[i].writes = {out} \cup {Stdout(name)}
    OBVIOUS
  <2>2. /\ job[1].writes = {Save, Stdout("scf")} /\ job[2].writes = {Save, Stdout("bands")}
    OBVIOUS
  <2> HIDE DEF out
  <2> QED
    BY ONLY <1>2, <1>3, <2>1, <2>2
<1>8. \A j \in 1 .. i - 1 : \A f \in job[i].writes : f \in job[j].writes => f = Save
  BY ONLY <1>4, <1>6, <1>7
<1>9. \E k \in 1 .. i - 1 : /\ Save \in job[k].writes /\ job[k].name = Wanted(job[i].program)
                            /\ \A j \in k + 1 .. i - 1 : Save \notin job[j].writes
  <2>1. Save \in job[2].writes /\ job[2].name = Wanted(job[i].program)
    BY DEF Wanted
  <2>2. 2 \in 1 .. i - 1 /\ \A j \in 2 + 1 .. i - 1 : i = 4 /\ j = 3
    OBVIOUS
  <2>3. \A j \in 2 + 1 .. i - 1 : Save \notin job[j].writes
    BY ONLY <2>2, <1>5
  <2> QED
    BY ONLY <2>1, <2>2, <2>3
<1>10. i \in Nat
  OBVIOUS
<1> QED
  BY ONLY <1>1, <1>8, <1>9, <1>10, DOMAIN job \subseteq Nat, MeetsIs

\* The job of a band structure runs, one run of bands.x for each spin there is.
LEMMA BandRuns ==
  ASSUME NEW x, NEW y, Wrote(x, "scf", None, None), Wrote(y, "bands", None, None),
         y.input.totMagnetization = None,
         shared.resources.job.value.timer = FALSE, FirstStep(task) = "scf"
  PROVE  IF Collinear
         THEN JobRuns(<<x, y, BandsX("bands_x_up", "up", 1), BandsX("bands_x_down", "down", 2)>>)
         ELSE JobRuns(<<x, y, BandsX("bands_x", "all", None)>>)
<1>2. /\ x.name = "scf" /\ x.program = "pw.x" /\ x.oneTask = FALSE /\ x.stopFile = FALSE /\ x.reads = {}
      /\ x.writes = {Save, Stdout("scf")}
      /\ shared.resources.job.value.ntasks % x.npool = 0
      /\ x.input.maxSeconds # shared.resources.job.value.timer
      /\ x.input.nspin = (IF Collinear THEN 2 ELSE 1)
  BY DEF Wrote
<1>3. /\ y.name = "bands" /\ y.program = "pw.x" /\ y.oneTask = FALSE /\ y.stopFile = FALSE /\ y.reads = {Save}
      /\ y.writes = {Save, Stdout("bands")}
      /\ shared.resources.job.value.ntasks % y.npool = 0
      /\ y.input.maxSeconds # shared.resources.job.value.timer
      /\ y.input.totMagnetization = None
  BY DEF Wrote
<1>4. CASE Collinear
  <2> DEFINE z == BandsX("bands_x_up", "up", 1)
             w == BandsX("bands_x_down", "down", 2)
             job == <<x, y, z, w>>
             up == "up"
             down == "down"
  <2>1. DOMAIN job = {1, 2, 3, 4} /\ job[1] = x /\ job[2] = y /\ job[3] = z /\ job[4] = w
    OBVIOUS
  <2>2. /\ z.program = "bands.x" /\ z.oneTask = TRUE /\ z.stopFile = FALSE /\ z.reads = {Save}
        /\ z.writes = {<<"filband", up>>} \cup {Stdout("bands_x_up")}
    BY ONLY TRUE DEF BandsX, OneTaskStep
  <2>3. /\ w.program = "bands.x" /\ w.oneTask = TRUE /\ w.stopFile = FALSE /\ w.reads = {Save}
        /\ w.writes = {<<"filband", down>>} \cup {Stdout("bands_x_down")}
    BY ONLY TRUE DEF BandsX, OneTaskStep
  <2>4. <<"filband", up>> # <<"filband", down>>
    OBVIOUS
  <2> HIDE DEF job, z, w, up, down
  <2>5. DOMAIN job \subseteq Nat
    BY ONLY <2>1
  <2>6. Meets(job, 1) /\ Meets(job, 2)
    BY ONLY <1>2, <1>3, <2>1, <2>5, FirstStep(task) = "scf", BandStart
  <2>7. Meets(job, 3)
    <3>1. job[3].writes = {<<"filband", up>>} \cup {Stdout("bands_x_up")}
      BY ONLY <2>1, <2>2
    <3>2. job[1].writes = {Save, Stdout("scf")} /\ job[2].writes = {Save, Stdout("bands")}
          /\ job[2].name = "bands" /\ job[3].program = "bands.x" /\ job[3].reads = {Save}
      BY ONLY <1>2, <1>3, <2>1, <2>2
    <3>3. "bands_x_up" \notin {"scf", "bands"} /\ 3 \in {3, 4} /\ ~(3 = 4)
      OBVIOUS
    <3> QED
      BY ONLY <3>1, <3>2, <3>3, <2>5, BandsXMeets
  <2>8. Meets(job, 4)
    <3>1. \E other, c : /\ job[3].writes = {<<"filband", c>>} \cup {Stdout(other)}
                        /\ other # "bands_x_down" /\ <<"filband", c>> # <<"filband", down>>
      <4> WITNESS "bands_x_up", up
      <4> QED
        BY ONLY <2>1, <2>2, <2>4
    <3>2. job[4].writes = {<<"filband", down>>} \cup {Stdout("bands_x_down")}
      BY ONLY <2>1, <2>3
    <3>3. job[1].writes = {Save, Stdout("scf")} /\ job[2].writes = {Save, Stdout("bands")}
          /\ job[2].name = "bands" /\ job[4].program = "bands.x" /\ job[4].reads = {Save}
      BY ONLY <1>2, <1>3, <2>1, <2>3
    <3>4. "bands_x_down" \notin {"scf", "bands"} /\ 4 \in {3, 4}
      OBVIOUS
    <3> QED
      BY ONLY <3>1, <3>2, <3>3, <3>4, <2>5, BandsXMeets
  <2>9. FilesMeet(job)
    BY ONLY <2>1, <2>6, <2>7, <2>8, AllMeet
  <2>10. JobFits(job)
    <3>1. \A i \in DOMAIN job : job[i].stopFile = FALSE
      BY ONLY <1>2, <1>3, <2>1, <2>2, <2>3
    <3>2. \A i \in DOMAIN job : ~job[i].oneTask => shared.resources.job.value.ntasks % job[i].npool = 0
      BY ONLY <1>2, <1>3, <2>1, <2>2, <2>3
    <3>3. \A i \in DOMAIN job : job[i].program = "pw.x" =>
            job[i].input.maxSeconds # shared.resources.job.value.timer
      BY ONLY <1>2, <1>3, <2>1, <2>2, <2>3
    <3> QED
      BY ONLY <3>1, <3>2, <3>3, shared.resources.job.value.timer = FALSE, JobEnds
  <2>11. Named(job, "ph.x") = {}
    BY ONLY <1>2, <1>3, <2>1, <2>2, <2>3, NoneNamed
  <2>12. Named(job, "bands.x") = {3, 4}
    BY ONLY <1>2, <1>3, <2>1, <2>2, <2>3 DEF Named
  <2>13. Cardinality({3, 4}) = 2
    <3>1. IsFiniteSet({4}) /\ Cardinality({4}) = 1
      BY FS_Singleton
    <3>2. Cardinality({4} \cup {3}) = Cardinality({4}) + 1
      BY <3>1, FS_AddElement
    <3>3. {4} \cup {3} = {3, 4}
      OBVIOUS
    <3> QED
      BY ONLY <3>1, <3>2, <3>3
  <2>14. BandsXRuns(job)
    <3>1. \A i \in Named(job, "pw.x") : job[i].name = "bands" => job[i].input.totMagnetization = None
      BY ONLY <1>2, <1>3, <2>1, <2>2, <2>3 DEF Named
    <3> QED
      BY ONLY <3>1, <1>2, <1>4, <2>1, <2>12, <2>13 DEF BandsXRuns
  <2>15. NoneRefused(job)
    BY ONLY <1>2, <1>3, <2>1, <2>2, <2>3 DEF NoneRefused, Refused
  <2>16. JobRuns(job)
    BY ONLY <2>9, <2>10, <2>11, <2>14, <2>15 DEF JobRuns, PhXRuns
  <2> QED
    BY <1>4, <2>16 DEF job, z, w
<1>5. CASE ~Collinear
  <2> DEFINE z == BandsX("bands_x", "all", None)
             job == <<x, y, z>>
  <2>1. DOMAIN job = {1, 2, 3} /\ job[1] = x /\ job[2] = y /\ job[3] = z
    OBVIOUS
  <2> DEFINE all == "all"
  <2>2. /\ z.program = "bands.x" /\ z.oneTask = TRUE /\ z.stopFile = FALSE /\ z.reads = {Save}
        /\ z.writes = {<<"filband", all>>} \cup {Stdout("bands_x")}
    BY ONLY TRUE DEF BandsX, OneTaskStep
  <2> HIDE DEF job, z, all
  <2>5. DOMAIN job \subseteq Nat
    BY ONLY <2>1
  <2>6. Meets(job, 1) /\ Meets(job, 2)
    BY ONLY <1>2, <1>3, <2>1, <2>5, FirstStep(task) = "scf", BandStart
  <2>7. Meets(job, 3)
    <3>1. job[3].writes = {<<"filband", all>>} \cup {Stdout("bands_x")}
      BY ONLY <2>1, <2>2
    <3>2. job[1].writes = {Save, Stdout("scf")} /\ job[2].writes = {Save, Stdout("bands")}
          /\ job[2].name = "bands" /\ job[3].program = "bands.x" /\ job[3].reads = {Save}
      BY ONLY <1>2, <1>3, <2>1, <2>2
    <3>3. "bands_x" \notin {"scf", "bands"} /\ 3 \in {3, 4} /\ ~(3 = 4)
      OBVIOUS
    <3> QED
      BY ONLY <3>1, <3>2, <3>3, <2>5, BandsXMeets
  <2>9. FilesMeet(job)
    BY ONLY <2>1, <2>6, <2>7, AllMeet
  <2>10. JobFits(job)
    BY ONLY <1>2, <1>3, <2>1, <2>2, shared.resources.job.value.timer = FALSE, JobEnds
  <2>11. Named(job, "ph.x") = {}
    BY ONLY <1>2, <1>3, <2>1, <2>2, NoneNamed
  <2>12. Named(job, "bands.x") = {3}
    BY ONLY <1>2, <1>3, <2>1, <2>2 DEF Named
  <2>13. Cardinality({3}) = 1
    BY FS_Singleton
  <2>14. BandsXRuns(job)
    <3>1. \A i \in Named(job, "pw.x") : job[i].name = "bands" => job[i].input.totMagnetization = None
      BY ONLY <1>2, <1>3, <2>1, <2>2 DEF Named
    <3> QED
      BY ONLY <3>1, <1>2, <1>5, <2>1, <2>12, <2>13 DEF BandsXRuns
  <2>15. NoneRefused(job)
    BY ONLY <1>2, <1>3, <2>1, <2>2 DEF NoneRefused, Refused
  <2>16. JobRuns(job)
    BY ONLY <2>9, <2>10, <2>11, <2>14, <2>15 DEF JobRuns, PhXRuns
  <2> QED
    BY <1>5, <2>16 DEF job, z
<1> QED
  BY <1>4, <1>5

-----------------------------------------------------------------------------
(* Jobs of phonons.                                                        *)

\* The files of a phonon job, ph.x at position k, behind d3hess.x at 2 if k is 3.
PhononFiles(job, k, first) ==
  /\ k \in {2, 3} /\ DOMAIN job = 1 .. k + 3
  /\ job[1].name = first /\ job[1].reads = {} /\ job[1].writes = {Save, Stdout(first)}
  /\ k = 3 => /\ job[2].program = "d3hess.x" /\ job[2].reads = {Save}
              /\ job[2].writes = {Hessian, Stdout("d3hess")}
  /\ job[k].program = "ph.x" /\ job[k].reads = (IF k = 3 THEN {Save, Hessian} ELSE {Save})
  /\ job[k].writes = {Matrices, Stdout("ph")}
  /\ job[k + 1].program = "q2r.x" /\ job[k + 1].reads = {Matrices}
  /\ job[k + 1].writes = {ForceConstants, Stdout("q2r")}
  /\ job[k + 2].program = "matdyn.x" /\ job[k + 2].reads = {ForceConstants}
  /\ job[k + 2].writes = {<<"phdos">>, Stdout("phonon_dos")}
  /\ job[k + 3].program = "matdyn.x" /\ job[k + 3].reads = {ForceConstants}
  /\ job[k + 3].writes = {<<"freq">>, Stdout("dispersion")}

\* A job of phonons meets its files, with the run of d3hess.x or without it.
LEMMA PhononMeet ==
  ASSUME NEW job, NEW k, NEW first \in {"scf", "relax", "vc-relax"}, first = FirstStep(task),
         PhononFiles(job, k, first)
  PROVE  FilesMeet(job)
<1> DEFINE phdos == <<"phdos">>
           freq == <<"freq">>
           o(n) == Stdout(n)
<1>1. k \in {2, 3} /\ DOMAIN job = 1 .. k + 3 /\ DOMAIN job \subseteq Nat
  BY DEF PhononFiles
<1>2. /\ job[1].reads = {} /\ job[1].writes = {Save, o(first)} /\ job[1].name = first
      /\ k = 3 => /\ job[2].program = "d3hess.x" /\ job[2].reads = {Save}
                  /\ job[2].writes = {Hessian, o("d3hess")}
      /\ job[k].program = "ph.x" /\ job[k].reads = (IF k = 3 THEN {Save, Hessian} ELSE {Save})
      /\ job[k].writes = {Matrices, o("ph")}
  BY DEF PhononFiles
<1>3. /\ job[k + 1].program = "q2r.x" /\ job[k + 1].reads = {Matrices}
      /\ job[k + 1].writes = {ForceConstants, o("q2r")}
      /\ job[k + 2].program = "matdyn.x" /\ job[k + 2].reads = {ForceConstants}
      /\ job[k + 2].writes = {phdos, o("phonon_dos")}
      /\ job[k + 3].program = "matdyn.x" /\ job[k + 3].reads = {ForceConstants}
      /\ job[k + 3].writes = {freq, o("dispersion")}
  BY DEF PhononFiles
<1>4. /\ Save # Hessian /\ Save # Matrices /\ Save # ForceConstants /\ Hessian # Matrices
      /\ Hessian # ForceConstants /\ Matrices # ForceConstants
      /\ phdos \notin {Save, Hessian, Matrices, ForceConstants}
      /\ freq \notin {Save, Hessian, Matrices, ForceConstants} /\ phdos # freq
      /\ \A n : o(n) \notin {Save, Hessian, Matrices, ForceConstants, phdos, freq}
  BY FilesDiffer
<1>5. \A m, n : o(m) = o(n) => m = n
  BY FilesDiffer
<1> HIDE DEF phdos, freq, o
<1>6. /\ Wanted("ph.x") = first /\ Wanted("d3hess.x") = first
  BY DEF Wanted
<1>7. \A i \in 2 .. k + 3 : Save \notin job[i].writes
  <2>1. \A i \in 2 .. k + 3 : (k = 3 /\ i = 2) \/ i = k \/ i = k + 1 \/ i = k + 2 \/ i = k + 3
    BY ONLY <1>1
  <2> QED
    BY ONLY <2>1, <1>2, <1>3, <1>4
<1>8. \A i \in 1 .. k + 3 : i > 1 =>
        \E l \in 1 .. i - 1 : /\ Save \in job[l].writes /\ job[l].name = first
                              /\ \A j \in l + 1 .. i - 1 : Save \notin job[j].writes
  <2>1. Save \in job[1].writes /\ job[1].name = first
    BY ONLY <1>2
  <2>2. ASSUME NEW i \in 1 .. k + 3, i > 1
        PROVE  1 \in 1 .. i - 1 /\ \A j \in 1 + 1 .. i - 1 : Save \notin job[j].writes
    <3>1. 1 \in 1 .. i - 1 /\ \A j \in 1 + 1 .. i - 1 : j \in 2 .. k + 3
      BY ONLY <1>1, <2>2
    <3> QED
      BY ONLY <3>1, <1>7
  <2> QED
    BY ONLY <2>1, <2>2
<1>9. Meets(job, 1)
  BY ONLY <1>2, MeetsFirst
<1>10. ASSUME k = 3 PROVE Meets(job, 2)
  <2>1. \A f \in job[2].reads : \E j \in 1 .. 2 - 1 : f \in job[j].writes
    BY ONLY <1>2, <1>10
  <2>2. \A j \in 1 .. 2 - 1 : \A f \in job[2].writes : f \in job[j].writes => f = Save
    <3>1. o("d3hess") # o(first)
      BY <1>5
    <3> QED
      BY ONLY <3>1, <1>2, <1>4, <1>10
  <2>3. Save \in job[2].reads =>
          \E l \in 1 .. 2 - 1 : /\ Save \in job[l].writes /\ job[l].name = Wanted(job[2].program)
                                /\ \A j \in l + 1 .. 2 - 1 : Save \notin job[j].writes
    <3>1. 2 \in 1 .. k + 3 /\ 2 > 1
      BY <1>1
    <3>2. \E l \in 1 .. 2 - 1 : /\ Save \in job[l].writes /\ job[l].name = first
                                /\ \A j \in l + 1 .. 2 - 1 : Save \notin job[j].writes
      BY ONLY <3>1, <1>8
    <3>3. Wanted(job[2].program) = first
      BY ONLY <1>2, <1>6, <1>10
    <3> QED
      BY ONLY <3>2, <3>3
  <2>4. 2 \in Nat
    OBVIOUS
  <2> QED
    BY ONLY <2>1, <2>2, <2>3, <2>4, <1>1, MeetsIs
<1>11. Meets(job, k)
  <2>1. \A f \in job[k].reads : \E j \in 1 .. k - 1 : f \in job[j].writes
    BY ONLY <1>1, <1>2
  <2>2. \A j \in 1 .. k - 1 : \A f \in job[k].writes : f \in job[j].writes => f = Save
    <3>1. o("ph") # o(first) /\ o("ph") # o("d3hess")
      BY <1>5
    <3>2. \A j \in 1 .. k - 1 : j = 1 \/ (j = 2 /\ k = 3)
      BY ONLY <1>1
    <3> QED
      BY ONLY <3>1, <3>2, <1>2, <1>4
  <2>3. Save \in job[k].reads =>
          \E l \in 1 .. k - 1 : /\ Save \in job[l].writes /\ job[l].name = Wanted(job[k].program)
                                /\ \A j \in l + 1 .. k - 1 : Save \notin job[j].writes
    <3>1. k \in 1 .. k + 3 /\ k > 1
      BY <1>1
    <3>2. \E l \in 1 .. k - 1 : /\ Save \in job[l].writes /\ job[l].name = first
                                /\ \A j \in l + 1 .. k - 1 : Save \notin job[j].writes
      BY ONLY <3>1, <1>8
    <3>3. Wanted(job[k].program) = first
      BY ONLY <1>2, <1>6
    <3> QED
      BY ONLY <3>2, <3>3
  <2>4. k \in Nat
    BY <1>1
  <2> QED
    BY ONLY <2>1, <2>2, <2>3, <2>4, <1>1, MeetsIs
<1>12. Meets(job, k + 1)
  <2> DEFINE i == k + 1
  <2>0. i \in Nat /\ k \in 1 .. i - 1
    BY <1>1
  <2>1. \A f \in job[i].reads : \E j \in 1 .. i - 1 : f \in job[j].writes
    BY <2>0, <1>2, <1>3
  <2>2. \A j \in 1 .. i - 1 : \A f \in job[i].writes : f \in job[j].writes => f = Save
    <3>1. o("q2r") # o(first) /\ o("q2r") # o("d3hess") /\ o("q2r") # o("ph")
      BY <1>5
    <3>2. \A j \in 1 .. i - 1 : j = 1 \/ (j = 2 /\ k = 3) \/ j = k
      BY ONLY <1>1
    <3> QED
      BY ONLY <3>1, <3>2, <1>2, <1>3, <1>4
  <2>3. Save \notin job[i].reads
    BY ONLY <1>3, <1>4
  <2> QED
    BY ONLY <2>0, <2>1, <2>2, <2>3, <1>1, MeetsIs
<1>13. Meets(job, k + 2)
  <2> DEFINE i == k + 2
  <2>0. i \in Nat /\ k + 1 \in 1 .. i - 1
    BY <1>1
  <2>1. \A f \in job[i].reads : \E j \in 1 .. i - 1 : f \in job[j].writes
    BY ONLY <2>0, <1>3
  <2>2. \A j \in 1 .. i - 1 : \A f \in job[i].writes : f \in job[j].writes => f = Save
    <3>1. /\ o("phonon_dos") # o(first) /\ o("phonon_dos") # o("d3hess") /\ o("phonon_dos") # o("ph")
          /\ o("phonon_dos") # o("q2r")
      BY <1>5
    <3>2. \A j \in 1 .. i - 1 : j = 1 \/ (j = 2 /\ k = 3) \/ j = k \/ j = k + 1
      BY ONLY <1>1
    <3> QED
      BY ONLY <3>1, <3>2, <1>2, <1>3, <1>4
  <2>3. Save \notin job[i].reads
    BY ONLY <1>3, <1>4
  <2> QED
    BY ONLY <2>0, <2>1, <2>2, <2>3, <1>1, MeetsIs
<1>14. Meets(job, k + 3)
  <2> DEFINE i == k + 3
  <2>0. i \in Nat /\ k + 1 \in 1 .. i - 1
    BY <1>1
  <2>1. \A f \in job[i].reads : \E j \in 1 .. i - 1 : f \in job[j].writes
    BY ONLY <2>0, <1>3
  <2>2. \A j \in 1 .. i - 1 : \A f \in job[i].writes : f \in job[j].writes => f = Save
    <3>1. /\ o("dispersion") # o(first) /\ o("dispersion") # o("d3hess") /\ o("dispersion") # o("ph")
          /\ o("dispersion") # o("q2r") /\ o("dispersion") # o("phonon_dos")
      BY <1>5
    <3>2. \A j \in 1 .. i - 1 : j = 1 \/ (j = 2 /\ k = 3) \/ j = k \/ j = k + 1 \/ j = k + 2
      BY ONLY <1>1
    <3> QED
      BY ONLY <3>1, <3>2, <1>2, <1>3, <1>4
  <2>3. Save \notin job[i].reads
    BY ONLY <1>3, <1>4
  <2> QED
    BY ONLY <2>0, <2>1, <2>2, <2>3, <1>1, MeetsIs
<1>15. \A i \in DOMAIN job : i = 1 \/ (k = 3 /\ i = 2) \/ i = k \/ i = k + 1 \/ i = k + 2 \/ i = k + 3
  BY ONLY <1>1
<1>16. \A i \in DOMAIN job : Meets(job, i)
  BY ONLY <1>9, <1>10, <1>11, <1>12, <1>13, <1>14, <1>15
<1> QED
  BY ONLY <1>16, AllMeet

\* What ph.x refuses of the input of a run of pw.x.
PhXTakes(x) ==
  /\ x.input.totMagnetization # None => x.input.occupations = "fixed"
  /\ x.input.hubbard # None => x.input.hubbard = "atomic" /\ ~x.input.noncolin
  /\ x.input.assumeIsolated # "martyna-tuckerman" /\ x.input.fixedLayers = None

\* An empty report: ph.x is given a pinned moment only with fixed occupations.
LEMMA OnePhononMoment ==
  ASSUME Ready, task \in PhononTasks, NEW x, NEW grid, NEW threebody,
         Wrote(x, FirstStep(task), grid, threebody), x.input.totMagnetization # None
  PROVE  x.input.occupations = "fixed"
<1> DEFINE first == FirstStep(task)
           a == AdviceOf(first)
<1>1. first \in DOMAIN electronic /\ PhononRefusesTwoFermiEnergies(a) = {}
  BY PhononIs, PhononRulesMute
<1>2. a.system = system /\ a.step = electronic[first]
  BY AdviceIs
<1>3. electronic[first].occupations.ok /\ system.magnetic.ok
  BY <1>1, Settled, JobWaits
<1>4. /\ x.input.totMagnetization = (IF Collinear THEN electronic[first].occupations.value.tot ELSE None)
      /\ x.input.occupations = electronic[first].occupations.value.kind
  BY DEF Wrote
<1>5. Collinear /\ electronic[first].occupations.value.tot # None
  BY ONLY <1>4, x.input.totMagnetization # None
<1> HIDE DEF a, first
<1>6. a.step.occupations.value.kind = "fixed"
  BY ONLY <1>1, <1>2, <1>3, <1>5 DEF PhononRefusesTwoFermiEnergies, If, Collinear
<1> QED
  BY <1>2, <1>4, <1>6 DEF first

\* An empty report: phonons with a U are of atomic projectors, and not noncollinear.
LEMMA HubbardIs ==
  ASSUME Ready, task \in PhononTasks, system.hubbard.value.elements # {}
  PROVE  system.hubbard.value.projectors = "atomic" /\ SpinMode(system.magnetic) # "noncollinear"
<1> DEFINE first == FirstStep(task)
           a == AdviceOf(first)
           hubbard == system.hubbard
<1>1. first \in DOMAIN electronic /\ PhononHubbard(a) = {}
  BY PhononIs, PhononRulesMute
<1>2. a.system = system
  BY AdviceIs
<1>3. hubbard.ok
  BY <1>1, JobWaits
<1>4. hubbard = HubbardU(site, analysis.needsCorrelation, system.functional.value, human)
  BY ReadyIs DEF MethodIs
<1>5. \E elements : hubbard = Resolved(HubbardDecision(elements, human), "heuristic")
  <2> HIDE DEF hubbard
  <2>1. (\E elements : hubbard = Resolved(HubbardDecision(elements, human), "heuristic"))
        \/ hubbard = BlockedBy(analysis.needsCorrelation)
    BY ONLY <1>4 DEF HubbardU
  <2> QED
    BY ONLY <1>3, <2>1, BlockedIs
<1>6. PICK elements : hubbard = Resolved(HubbardDecision(elements, human), "heuristic")
  BY <1>5
<1> DEFINE u == elements # {}
           projectors == IF elements = {} THEN None
                         ELSE IF human.hubbard_projectors = None THEN "ortho-atomic"
                         ELSE human.hubbard_projectors
           decision == [u |-> u, elements |-> elements, projectors |-> projectors]
<1>7. HubbardDecision(elements, human) = decision
  BY DEF HubbardDecision
<1>8. decision.u = u /\ decision.elements = elements /\ decision.projectors = projectors
  <2> HIDE DEF u, projectors
  <2> QED
    BY ONLY TRUE
<1> HIDE DEF decision
<1>9. hubbard.value = decision
  BY ONLY <1>6, <1>7, ResolvedIs
<1>10. elements # {}
  BY ONLY <1>8, <1>9, system.hubbard.value.elements # {}
<1>11. decision.u
  BY ONLY <1>8, <1>10
<1>12. WithU(a)
  <2> HIDE DEF a
  <2> QED
    BY ONLY <1>2, <1>3, <1>9, <1>11 DEF WithU
<1> HIDE DEF a, hubbard
<1> QED
  BY ONLY <1>1, <1>2, <1>12 DEF PhononHubbard, If

\* So ph.x reads no U that it cannot use.
LEMMA PhononWithU ==
  ASSUME Ready, task \in PhononTasks, NEW x, NEW grid, NEW threebody,
         Wrote(x, FirstStep(task), grid, threebody), x.input.hubbard # None
  PROVE  x.input.hubbard = "atomic" /\ ~x.input.noncolin
<1> DEFINE a == AdviceOf(FirstStep(task))
           hubbard == system.hubbard.value
<1>1. a.system = system /\ a.structure = site
  BY AdviceIs
<1>2. x.input.hubbard = HubbardLines(a).hubbard /\ x.input.noncolin = (SpinMode(system.magnetic) = "noncollinear")
  BY DEF Wrote
<1> HIDE DEF a
<1>3. HubbardLines(a).hubbard =
        IF hubbard.elements \cap ElementsOf(site) = {} THEN None ELSE hubbard.projectors
  BY ONLY <1>1 DEF HubbardLines
<1>4. hubbard.elements # {} /\ x.input.hubbard = hubbard.projectors
  BY ONLY <1>2, <1>3, x.input.hubbard # None
<1>5. hubbard.projectors = "atomic" /\ SpinMode(system.magnetic) # "noncollinear"
  BY <1>4, HubbardIs
<1> QED
  BY ONLY <1>2, <1>4, <1>5

\* An empty report: no phonons of a molecule in a box.
LEMMA NoMoleculeInABox ==
  ASSUME Ready, task \in PhononTasks
  PROVE  AssumeIsolated(system.boundary.value.isolation) # "martyna-tuckerman"
<1> DEFINE first == FirstStep(task)
           a == AdviceOf(first)
<1>1. /\ first \in DOMAIN electronic /\ PhononRefusesAMoleculeInABox(a) = {}
      /\ IsolationMatchesWrittenCell(a) = {}
  BY PhononIs, PhononRulesMute, NothingFound, RulesMute
<1>2. a.system = system
  BY AdviceIs
<1>3. system.boundary.ok /\ system.magnetic.ok
  BY <1>1, Settled, JobWaits
<1> HIDE DEF a, first
<1>4. VacuumAxes(WrittenCell(a)) # Axes
  BY ONLY <1>1, <1>2, <1>3 DEF PhononRefusesAMoleculeInABox, If
<1>5. system.boundary.value.isolation # "isolated"
  BY ONLY <1>1, <1>2, <1>3, <1>4 DEF IsolationMatchesWrittenCell, If
<1>6. None # "martyna-tuckerman"
  BY NotNone
<1> QED
  BY ONLY <1>5, <1>6 DEF AssumeIsolated

\* An empty report: no atom is held in a relaxation that phonons follow.
LEMMA NoAtomIsHeld ==
  ASSUME Ready, task \in PhononTasks, FirstStep(task) \in RelaxSteps
  PROVE  shared.relax[FirstStep(task)].value.fixBottomLayers = None
<1> DEFINE first == FirstStep(task)
           a == AdviceOf(first)
<1>1. first \in DOMAIN electronic /\ PhononRefusesFixBottomLayers(a) = {}
  BY PhononIs, PhononRulesMute
<1>2. a.purpose = first /\ a.relax = shared.relax[first]
  BY AdviceIs
<1>3. shared.relax[first].ok
  BY <1>1, Settled
<1> HIDE DEF a
<1> QED
  BY ONLY <1>1, <1>2, <1>3, FirstStep(task) \in RelaxSteps DEF PhononRefusesFixBottomLayers, If, Relaxing

\* An empty report: a cell that may lose its grid while it relaxes has the grid written.
LEMMA GridIsKept ==
  ASSUME Ready, task \in PhononTasks
  PROVE  system.cell.value.cell.cell.compatible \/ shared.phonon.fftGrid.value.written # None
<1> DEFINE first == FirstStep(task)
           a == AdviceOf(first)
           fftGrid == shared.phonon.fftGrid
           cell == system.cell.value.cell.cell
           written == IF ~cell.compatible /\ first # "vc-relax" THEN "ph" ELSE None
           grid == [fragile |-> cell.fragile, compatible |-> cell.compatible, written |-> written]
           occupations == electronic[first].occupations
<1>1. /\ first \in DOMAIN electronic /\ VcRelaxPhononRefusesFragileCell(a, fftGrid) = {}
      /\ shared.phonon = PhononAdvice(system, occupations, request, first)
  BY PhononIs, PhononRulesMute
<1>2. a.purpose = first
  BY AdviceIs
<1>3. system.cell.ok /\ system.cutoffs.ok /\ ValidCell(cell)
  <2>1. SoundCell(system.cell.value.cell)
    BY <1>1, CellFacts
  <2> QED
    BY <2>1, <1>1, Settled, JobWaits DEF SoundCell
<1>4. fftGrid = FftGridOf(system, first)
  <2> HIDE DEF first, occupations
  <2> QED
    BY ONLY <1>1 DEF PhononAdvice, fftGrid
<1>5. FftGridOf(system, first) = Resolved(grid, "heuristic")
  <2> HIDE DEF first
  <2> QED
    BY ONLY <1>3 DEF FftGridOf
<1>6. grid.fragile = cell.fragile /\ grid.written = written
  <2> HIDE DEF written
  <2> QED
    BY ONLY TRUE
<1> HIDE DEF grid, fftGrid
<1>7. fftGrid.ok /\ fftGrid.value = grid
  BY ONLY <1>4, <1>5, ResolvedIs
<1>8. None # "ph"
  BY NotNone
<1>9. cell.compatible \/ cell.fragile
  BY <1>3 DEF ValidCell
<1> HIDE DEF a, first, cell
<1>10. CASE first = "vc-relax"
  <2>1. ~fftGrid.value.fragile
    BY ONLY <1>1, <1>2, <1>7, <1>10 DEF VcRelaxPhononRefusesFragileCell, If
  <2>2. cell.compatible
    BY ONLY <2>1, <1>6, <1>7, <1>9
  <2> QED
    BY <2>2 DEF cell
<1>11. CASE first # "vc-relax"
  <2>1. cell.compatible \/ written = "ph"
    BY <1>11
  <2> QED
    BY <2>1, <1>6, <1>7, <1>8 DEF cell, fftGrid
<1> QED
  BY <1>10, <1>11

\* So ph.x takes what pw.x wrote.
LEMMA PhXTakesIt ==
  ASSUME Ready, task \in PhononTasks, NEW x, NEW grid, NEW threebody,
         Wrote(x, FirstStep(task), grid, threebody)
  PROVE  PhXTakes(x)
<1>1. x.input.totMagnetization # None => x.input.occupations = "fixed"
  BY OnePhononMoment
<1>2. x.input.hubbard # None => x.input.hubbard = "atomic" /\ ~x.input.noncolin
  BY PhononWithU
<1>3. x.input.assumeIsolated # "martyna-tuckerman"
  BY NoMoleculeInABox DEF Wrote
<1>4. x.input.fixedLayers = None
  BY NoAtomIsHeld DEF Wrote
<1> QED
  BY ONLY <1>1, <1>2, <1>3, <1>4 DEF PhXTakes

\* A job of phonons runs when its files are those above and its first step was written.
LEMMA PhononJobRuns ==
  ASSUME Ready, task \in PhononTasks, NEW job, NEW k, PhononFiles(job, k, FirstStep(task)),
         Wrote(job[1], FirstStep(task), shared.phonon.fftGrid.value.written,
               IF system.vdw.value THEN FALSE ELSE None),
         k = 3 <=> system.vdw.value,
         job[k].oneTask = FALSE, job[k].stopFile = TRUE,
         shared.resources.job.value.ntasks % job[k].npool = 0,
         \A i \in DOMAIN job : i # 1 /\ i # k => job[i].oneTask = TRUE /\ job[i].stopFile = FALSE
  PROVE  JobRuns(job)
<1> DEFINE first == FirstStep(task)
           x == job[1]
<1>1. first \in {"scf", "relax", "vc-relax"} /\ first \in DOMAIN electronic
  BY StepsAre, PhononIs DEF PhononTasks
<1>2. /\ k \in {2, 3} /\ DOMAIN job = 1 .. k + 3
      /\ (k = 3 => job[2].program = "d3hess.x") /\ job[k].program = "ph.x"
      /\ job[k + 1].program = "q2r.x" /\ job[k + 2].program = "matdyn.x" /\ job[k + 3].program = "matdyn.x"
  BY DEF PhononFiles
<1>3. /\ x.program = "pw.x" /\ x.stopFile = FALSE
      /\ shared.resources.job.value.ntasks % x.npool = 0
      /\ x.input.maxSeconds # shared.resources.job.value.timer
      /\ x.input.nr = shared.phonon.fftGrid.value.written
      /\ x.input.dftd3Threebody = (IF system.vdw.value THEN FALSE ELSE None)
      /\ x.input.d3 = system.vdw.value
  BY DEF Wrote
<1>4. \A i \in DOMAIN job : i = 1 \/ (k = 3 /\ i = 2) \/ i = k \/ i = k + 1 \/ i = k + 2 \/ i = k + 3
  BY ONLY <1>2
<1>5. FilesMeet(job)
  BY <1>1, PhononMeet
<1>6. JobFits(job)
  <2>1. shared.resources.job.value.timer = TRUE
    BY <1>1, TimerFits
  <2>2. k \in DOMAIN job /\ k # 1
    BY ONLY <1>2
  <2>3. \A i \in DOMAIN job : i # k => job[i].stopFile = FALSE
    BY <1>3
  <2>4. \A i \in DOMAIN job : ~job[i].oneTask => shared.resources.job.value.ntasks % job[i].npool = 0
    BY <1>3
  <2>5. \A i \in DOMAIN job : job[i].program = "pw.x" =>
          job[i].input.maxSeconds # shared.resources.job.value.timer
    BY ONLY <1>2, <1>3, <1>4
  <2> QED
    BY ONLY <2>1, <2>2, <2>3, <2>4, <2>5, job[k].stopFile = TRUE, JobIsStopped
<1>7. BandsXRuns(job)
  <2>1. Named(job, "bands.x") = {}
    BY ONLY <1>2, <1>3, <1>4, NoneNamed
  <2> QED
    BY ONLY <2>1 DEF BandsXRuns
<1>8. Named(job, "d3hess.x") # {} <=> k = 3
  <2>1. CASE k = 3
    <3>1. 2 \in Named(job, "d3hess.x")
      BY ONLY <1>2, <2>1 DEF Named
    <3> QED
      BY ONLY <3>1, <2>1
  <2>2. CASE k # 3
    BY ONLY <1>2, <1>3, <1>4, <2>2, NoneNamed
  <2> QED
    BY ONLY <2>1, <2>2
<1>9. PhXTakes(x)
  BY PhXTakesIt
<1>10. system.cell.value.cell.cell.compatible \/ x.input.nr # None
  BY <1>3, GridIsKept
<1>11. IF x.input.d3 THEN x.input.dftd3Threebody = FALSE /\ Named(job, "d3hess.x") # {}
       ELSE x.input.dftd3Threebody = None /\ Named(job, "d3hess.x") = {}
  BY ONLY <1>3, <1>8, k = 3 <=> system.vdw.value
<1>12. PhXRuns(job)
  BY ONLY <1>9, <1>10, <1>11 DEF PhXRuns, PhXTakes
<1>13. NoneRefused(job)
  <2>1. 1 \in DOMAIN job
    BY ONLY <1>2
  <2>2. \A i \in DOMAIN job : job[i].program # "none"
    BY ONLY <1>2, <1>3, <1>4
  <2> QED
    BY ONLY <2>1, <2>2 DEF NoneRefused, Refused
<1> QED
  BY ONLY <1>5, <1>6, <1>7, <1>12, <1>13 DEF JobRuns

\* What follows the first step of a phonon task.
LEMMA PhStepIs ==
  ASSUME NEW ph, NEW d3
  PROVE  LET y == PhStep(ph, d3)
         IN  /\ y.program = "ph.x" /\ y.npool = ph.parallel.npool /\ y.oneTask = FALSE
             /\ y.stopFile = TRUE /\ y.reads = (IF d3 THEN {Save, Hessian} ELSE {Save})
             /\ y.writes = {Matrices, Stdout("ph")}
BY ONLY TRUE DEF PhStep

\* The steps of one task that follow, in the parts that the properties read,
LEMMA TailIs ==
  ASSUME NEW q2r
  PROVE  /\ LET y == D3hessStep
            IN  /\ y.program = "d3hess.x" /\ y.oneTask = TRUE /\ y.stopFile = FALSE /\ y.reads = {Save}
                /\ y.writes = {Hessian, Stdout("d3hess")}
         /\ LET y == Q2rStep(q2r)
            IN  /\ y.program = "q2r.x" /\ y.oneTask = TRUE /\ y.stopFile = FALSE /\ y.reads = {Matrices}
                /\ y.writes = {ForceConstants, Stdout("q2r")}
         /\ LET y == PhononDosStep(q2r)
            IN  /\ y.program = "matdyn.x" /\ y.oneTask = TRUE /\ y.stopFile = FALSE
                /\ y.reads = {ForceConstants} /\ y.writes = {<<"phdos">>, Stdout("phonon_dos")}
<1>1. LET y == D3hessStep
      IN  /\ y.program = "d3hess.x" /\ y.oneTask = TRUE /\ y.stopFile = FALSE /\ y.reads = {Save}
          /\ y.writes = {Hessian} \cup {Stdout("d3hess")}
  BY ONLY TRUE DEF D3hessStep, OneTaskStep
<1>2. LET y == Q2rStep(q2r)
      IN  /\ y.program = "q2r.x" /\ y.oneTask = TRUE /\ y.stopFile = FALSE /\ y.reads = {Matrices}
          /\ y.writes = {ForceConstants} \cup {Stdout("q2r")}
  BY ONLY TRUE DEF Q2rStep, OneTaskStep
<1>3. LET y == PhononDosStep(q2r)
      IN  /\ y.program = "matdyn.x" /\ y.oneTask = TRUE /\ y.stopFile = FALSE
          /\ y.reads = {ForceConstants} /\ y.writes = {<<"phdos">>} \cup {Stdout("phonon_dos")}
  BY ONLY TRUE DEF PhononDosStep, OneTaskStep
<1>4. \A f, g : {f} \cup {g} = {f, g}
  OBVIOUS
<1> QED
  BY ONLY <1>1, <1>2, <1>3, <1>4

\* with the last of them.
LEMMA DispersionIs ==
  ASSUME NEW q2r, NEW path
  PROVE  LET y == DispersionStep(q2r, path)
         IN  /\ y.program = "matdyn.x" /\ y.oneTask = TRUE /\ y.stopFile = FALSE
             /\ y.reads = {ForceConstants} /\ y.writes = {<<"freq">>, Stdout("dispersion")}
<1>1. LET y == DispersionStep(q2r, path)
      IN  /\ y.program = "matdyn.x" /\ y.oneTask = TRUE /\ y.stopFile = FALSE
          /\ y.reads = {ForceConstants} /\ y.writes = {<<"freq">>} \cup {Stdout("dispersion")}
  BY ONLY TRUE DEF DispersionStep, OneTaskStep
<1>2. \A f, g : {f} \cup {g} = {f, g}
  OBVIOUS
<1> QED
  BY ONLY <1>1, <1>2

\* The job that is written of phonons runs, with terms of DFT-D3 or without them.
LEMMA PhononRuns ==
  ASSUME Ready, task \in PhononTasks, NEW x, NEW settings, NEW d3hess, NEW d3,
         Wrote(x, FirstStep(task), shared.phonon.fftGrid.value.written,
               IF system.vdw.value THEN FALSE ELSE None),
         settings.ph.parallel.npool = shared.resources.parallel[FirstStep(task)].value.npool,
         d3hess <=> system.vdw.value, d3 <=> system.vdw.value
  PROVE  JobRuns(<<x>> \o WriteQePhonon(settings, d3hess, d3))
<1> DEFINE first == FirstStep(task)
           h == D3hessStep
           y == PhStep(settings.ph, d3)
           q == Q2rStep(settings.q2r)
           p == PhononDosStep(settings.q2r)
           w == DispersionStep(settings.q2r, settings.path)
           phdos == <<"phdos">>
           freq == <<"freq">>
<1>0. shared.resources.job.value.ntasks % settings.ph.parallel.npool = 0
  BY PhononIs, PoolsFit
<1>1. /\ y.program = "ph.x" /\ y.npool = settings.ph.parallel.npool /\ y.oneTask = FALSE
      /\ y.stopFile = TRUE /\ y.reads = (IF d3 THEN {Save, Hessian} ELSE {Save})
      /\ y.writes = {Matrices, Stdout("ph")}
  BY ONLY PhStepIs
<1>2. /\ h.program = "d3hess.x" /\ h.oneTask = TRUE /\ h.stopFile = FALSE /\ h.reads = {Save}
      /\ h.writes = {Hessian, Stdout("d3hess")}
  BY ONLY TailIs
<1>3. /\ q.program = "q2r.x" /\ q.oneTask = TRUE /\ q.stopFile = FALSE /\ q.reads = {Matrices}
      /\ q.writes = {ForceConstants, Stdout("q2r")}
  BY ONLY TailIs
<1>4. /\ p.program = "matdyn.x" /\ p.oneTask = TRUE /\ p.stopFile = FALSE
      /\ p.reads = {ForceConstants} /\ p.writes = {phdos, Stdout("phonon_dos")}
  BY ONLY TailIs
<1>5. /\ w.program = "matdyn.x" /\ w.oneTask = TRUE /\ w.stopFile = FALSE
      /\ w.reads = {ForceConstants} /\ w.writes = {freq, Stdout("dispersion")}
  BY ONLY DispersionIs
<1>6. WriteQePhonon(settings, d3hess, d3) = (IF d3hess THEN <<h>> ELSE <<>>) \o <<y, q, p, w>>
  BY DEF WriteQePhonon
<1>7. x.name = first /\ x.reads = {} /\ x.writes = {Save, Stdout(first)}
  <2>1. first \notin {"nscf", "bands"}
    BY StepsAre DEF PhononTasks
  <2> QED
    BY <2>1 DEF Wrote
<1> HIDE DEF first, h, y, q, p, w, phdos, freq
<1>8. CASE system.vdw.value
  <2> DEFINE job == <<x, h, y, q, p, w>>
  <2>1. <<x>> \o WriteQePhonon(settings, d3hess, d3) = job
    <3>1. (IF d3hess THEN <<h>> ELSE <<>>) = <<h>>
      BY <1>8
    <3>2. <<h>> \o <<y, q, p, w>> = <<h, y, q, p, w>>
      BY ONLY Joins14
    <3>3. <<x>> \o <<h, y, q, p, w>> = job
      BY ONLY Joins15
    <3> QED
      BY ONLY <1>6, <3>1, <3>2, <3>3
  <2>2. /\ DOMAIN job = 1 .. 6 /\ job[1] = x /\ job[2] = h /\ job[3] = y /\ job[4] = q /\ job[5] = p
        /\ job[6] = w
    BY ONLY TRUE
  <2> HIDE DEF job
  <2>3. d3
    BY <1>8
  <2>4. PhononFiles(job, 3, first)
    <3>1. job[3].reads = {Save, Hessian}
      BY ONLY <2>2, <2>3, <1>1
    <3>2. 3 \in {2, 3} /\ DOMAIN job = 1 .. 3 + 3 /\ job[3 + 1] = q /\ job[3 + 2] = p /\ job[3 + 3] = w
      BY ONLY <2>2
    <3> QED
      BY ONLY <1>1, <1>2, <1>3, <1>4, <1>5, <1>7, <2>2, <3>1, <3>2 DEF PhononFiles, phdos, freq
  <2>5. \A i \in DOMAIN job : i # 1 /\ i # 3 => job[i].oneTask = TRUE /\ job[i].stopFile = FALSE
    BY ONLY <1>2, <1>3, <1>4, <1>5, <2>2
  <2>6. job[3].oneTask = FALSE /\ job[3].stopFile = TRUE /\ shared.resources.job.value.ntasks % job[3].npool = 0
    BY ONLY <1>0, <1>1, <2>2
  <2>7. JobRuns(job)
    BY <1>8, <2>2, <2>4, <2>5, <2>6, PhononJobRuns DEF first
  <2> QED
    BY ONLY <2>1, <2>7
<1>9. CASE ~system.vdw.value
  <2> DEFINE job == <<x, y, q, p, w>>
  <2>1. <<x>> \o WriteQePhonon(settings, d3hess, d3) = job
    <3>1. (IF d3hess THEN <<h>> ELSE <<>>) = <<>>
      BY <1>9
    <3>2. <<>> \o <<y, q, p, w>> = <<y, q, p, w>>
      BY ONLY JoinsNone
    <3>3. <<x>> \o <<y, q, p, w>> = job
      BY ONLY Joins14
    <3> QED
      BY ONLY <1>6, <3>1, <3>2, <3>3
  <2>2. /\ DOMAIN job = 1 .. 5 /\ job[1] = x /\ job[2] = y /\ job[3] = q /\ job[4] = p /\ job[5] = w
    BY ONLY TRUE
  <2> HIDE DEF job
  <2>3. ~d3
    BY <1>9
  <2>4. PhononFiles(job, 2, first)
    <3>1. job[2].reads = {Save} /\ ~(2 = 3)
      BY ONLY <2>2, <2>3, <1>1
    <3>2. 2 \in {2, 3} /\ DOMAIN job = 1 .. 2 + 3 /\ job[2 + 1] = q /\ job[2 + 2] = p /\ job[2 + 3] = w
      BY ONLY <2>2
    <3> QED
      BY ONLY <1>1, <1>3, <1>4, <1>5, <1>7, <2>2, <3>1, <3>2 DEF PhononFiles, phdos, freq
  <2>5. \A i \in DOMAIN job : i # 1 /\ i # 2 => job[i].oneTask = TRUE /\ job[i].stopFile = FALSE
    BY ONLY <1>3, <1>4, <1>5, <2>2
  <2>6. job[2].oneTask = FALSE /\ job[2].stopFile = TRUE /\ shared.resources.job.value.ntasks % job[2].npool = 0
    BY ONLY <1>0, <1>1, <2>2
  <2>7. JobRuns(job)
    <3>1. ~(2 = 3) /\ (2 = 3 <=> system.vdw.value)
      BY <1>9
    <3> QED
      BY <3>1, <2>2, <2>4, <2>5, <2>6, PhononJobRuns DEF first
  <2> QED
    BY ONLY <2>1, <2>7
<1> QED
  BY <1>8, <1>9

-----------------------------------------------------------------------------
(* What is generated of an empty report.                                   *)

\* An empty report: only a job of phonons is timed.
LEMMA TimerOff ==
  ASSUME Ready, NEW step \in DOMAIN electronic, task \notin PhononTasks
  PROVE  shared.resources.job.value.timer = FALSE
<1>1. shared.resources.job.value.timer = (task \in PhononTasks)
  BY TimerFits
<1> DEFINE timed == task \in PhononTasks
<1>2. timed = FALSE
  OBVIOUS
<1> HIDE DEF timed
<1>3. shared.resources.job.value.timer = timed
  BY <1>1 DEF timed
<1> QED
  BY ONLY <1>2, <1>3

\* The advice that generate is handed of each step.
LEMMA Handed ==
  ASSUME NEW step \in DOMAIN electronic
  PROVE  Advices[step] = AdviceOf(step)
BY DEF Advices

\* A step that relaxes nothing, with no grid and no terms of its own.
LEMMA PlainStep ==
  ASSUME Ready, NEW step \in DOMAIN electronic, step \notin RelaxSteps, task \notin PhononTasks
  PROVE  \E x : Generated(Advices[step], None, None, None) = <<x>> /\ Wrote(x, step, None, None)
<1>1. RelaxGiven(step) = None
  BY DEF RelaxGiven
<1>2. \E x : /\ Generated(AdviceOf(step), RelaxGiven(step), None, None) = <<x>>
             /\ Wrote(x, step, None, None)
  BY StepIsWritten
<1> QED
  BY ONLY <1>1, <1>2, Handed, step \in DOMAIN electronic

\* An empty report: what is written of each task runs, of a density of states.
LEMMA DosIsWritten ==
  ASSUME Ready, task = "dos"
  PROVE  JobRuns(Written)
<1>1. /\ "scf" \in DOMAIN electronic /\ "nscf" \in DOMAIN electronic /\ FirstStep(task) = "scf"
      /\ task \notin PhononTasks
  BY ReadyIs, StepsAre DEF ElectronicIs, PhononTasks
<1>2. "scf" \notin RelaxSteps /\ "nscf" \notin RelaxSteps
  BY DEF RelaxSteps
<1>3. PICK x : Generated(Advices["scf"], None, None, None) = <<x>> /\ Wrote(x, "scf", None, None)
  BY ONLY <1>1, <1>2, Ready, PlainStep
<1>4. PICK y : Generated(Advices["nscf"], None, None, None) = <<y>> /\ Wrote(y, "nscf", None, None)
  BY ONLY <1>1, <1>2, Ready, PlainStep
<1> DEFINE input == [degauss |-> shared.dos.value.broadened]
           z == OneTaskStep("dos", "dos.x", input, {Save}, {<<"dos">>})
<1>5. WriteQeDos(shared.dos.value) = <<z>>
  BY DEF WriteQeDos
<1>6. Written = (Generated(Advices["scf"], None, None, None) \o Generated(Advices["nscf"], None, None, None))
                  \o WriteQeDos(shared.dos.value)
  BY task = "dos" DEF Written, GenerateTask, GenerateDos, PhononTasks
<1> HIDE DEF input
<1>7. JobRuns(<<x, y, z>>)
  BY <1>1, <1>3, <1>4, TimerOff, DosRuns
<1> HIDE DEF z
<1>8. Written = <<x, y, z>>
  BY ONLY <1>3, <1>4, <1>5, <1>6, Joins11, Joins21
<1> QED
  BY ONLY <1>7, <1>8

\* Of a band structure.
LEMMA BandIsWritten ==
  ASSUME Ready, task = "band"
  PROVE  JobRuns(Written)
<1>1. /\ "scf" \in DOMAIN electronic /\ "bands" \in DOMAIN electronic /\ FirstStep(task) = "scf"
      /\ task \notin PhononTasks
  BY ReadyIs, StepsAre DEF ElectronicIs, PhononTasks
<1>2. "scf" \notin RelaxSteps /\ "bands" \notin RelaxSteps
  BY DEF RelaxSteps
<1>3. PICK x : Generated(Advices["scf"], None, None, None) = <<x>> /\ Wrote(x, "scf", None, None)
  BY ONLY <1>1, <1>2, Ready, PlainStep
<1>4. PICK y : Generated(Advices["bands"], None, None, None) = <<y>> /\ Wrote(y, "bands", None, None)
  BY ONLY <1>1, <1>2, Ready, PlainStep
<1>5. y.input.totMagnetization = None
  <2> DEFINE a == AdviceOf("bands")
             step == "bands"
  <2>1. BandsXRefusesTotMagnetization(a) = {}
    BY <1>1, NothingFound, RulesMute
  <2>2. a.purpose = "bands" /\ a.system = system /\ a.step = electronic["bands"]
    BY AdviceIs
  <2>3. electronic["bands"].occupations.ok /\ system.magnetic.ok
    BY <1>1, Settled, JobWaits
  <2> HIDE DEF a
  <2>4. ~(Collinear /\ electronic["bands"].occupations.value.tot # None)
    BY ONLY <2>1, <2>2, <2>3 DEF BandsXRefusesTotMagnetization, If, Collinear
  <2>5. y.input.totMagnetization = (IF Collinear THEN electronic["bands"].occupations.value.tot ELSE None)
    BY <1>4 DEF Wrote
  <2> QED
    BY ONLY <2>4, <2>5
<1> DEFINE u == BandsX("bands_x_up", "up", 1)
           d == BandsX("bands_x_down", "down", 2)
           z == BandsX("bands_x", "all", None)
<1>6. Advices["scf"].system = system
  BY ONLY <1>1, Handed, AdviceIs
<1>7. WriteQeBandsX(SpinMode(Advices["scf"].system.magnetic)) = IF Collinear THEN <<u, d>> ELSE <<z>>
  BY ONLY <1>6 DEF WriteQeBandsX, Collinear
<1>8. Written = (Generated(Advices["scf"], None, None, None) \o Generated(Advices["bands"], None, None, None))
                  \o WriteQeBandsX(SpinMode(Advices["scf"].system.magnetic))
  BY task = "band" DEF Written, GenerateTask, GenerateBand, PhononTasks
<1>9. IF Collinear THEN JobRuns(<<x, y, u, d>>) ELSE JobRuns(<<x, y, z>>)
  BY <1>1, <1>3, <1>4, <1>5, TimerOff, BandRuns
<1> HIDE DEF u, d, z
<1>10. Written = <<x, y>> \o (IF Collinear THEN <<u, d>> ELSE <<z>>)
  BY ONLY <1>3, <1>4, <1>7, <1>8, Joins11
<1>11. CASE Collinear
  <2>1. Written = <<x, y, u, d>>
    BY ONLY <1>10, <1>11, Joins22
  <2> QED
    BY ONLY <1>9, <1>11, <2>1
<1>12. CASE ~Collinear
  <2>1. Written = <<x, y, z>>
    BY ONLY <1>10, <1>12, Joins21
  <2> QED
    BY ONLY <1>9, <1>12, <2>1
<1> QED
  BY ONLY <1>11, <1>12

\* Of phonons.
LEMMA PhononIsWritten ==
  ASSUME Ready, task \in PhononTasks
  PROVE  JobRuns(Written)
<1> DEFINE first == FirstStep(task)
           a == AdviceOf(first)
           d3 == system.vdw.value
           grid == shared.phonon.fftGrid.value.written
           threebody == IF d3 THEN FALSE ELSE None
           settings == PhononStepSettings(shared.phonon, a)
<1>1. first \in DOMAIN electronic /\ first # "bands" /\ task # "dos" /\ task # "band"
  BY PhononIs, StepsAre DEF PhononTasks
<1>2. /\ a.purpose = first /\ a.relax = shared.relax[first] /\ a.system = system
      /\ a.parallel = shared.resources.parallel[first]
  BY AdviceIs
<1>3. PICK x : Generated(a, RelaxGiven(first), grid, threebody) = <<x>> /\ Wrote(x, first, grid, threebody)
  <2> HIDE DEF grid, threebody, first
  <2> QED
    BY <1>1, StepIsWritten
<1> DEFINE d == ~Refused(x) /\ x.input.d3
<1>4. d <=> d3
  BY <1>3 DEF Wrote, Refused
<1>5. settings.ph.parallel.npool = shared.resources.parallel[first].value.npool
  <2> HIDE DEF a
  <2> QED
    BY ONLY <1>2 DEF PhononStepSettings, settings
<1> DEFINE relax == IF a.purpose \in RelaxSteps THEN a.relax.value ELSE None
           steps == Generated(a, relax, grid, threebody)
<1>6. relax = RelaxGiven(first)
  <2> HIDE DEF a
  <2> QED
    BY ONLY <1>2 DEF RelaxGiven
<1>7. steps = <<x>> /\ steps[1] = x
  <2>1. steps = <<x>>
    BY <1>3, <1>6
  <2> HIDE DEF steps
  <2> QED
    BY ONLY <2>1
<1>8. Written = GeneratePhonon(a, shared.phonon)
  <2>1. Advices[first] = a
    BY <1>1, Handed
  <2>2. Written = GeneratePhonon(Advices[first], shared.phonon)
    BY <1>1 DEF Written, GenerateTask, PhononTasks
  <2> QED
    BY ONLY <2>1, <2>2
<1>9. GeneratePhonon(a, shared.phonon) = steps \o WriteQePhonon(settings, d3, ~Refused(steps[1]) /\ steps[1].input.d3)
  <2>1. a.system.vdw.value = d3
    BY <1>2
  <2> HIDE DEF a, first
  <2> QED
    BY <2>1, Zenon DEF GeneratePhonon
<1> HIDE DEF steps
<1>10. Written = <<x>> \o WriteQePhonon(settings, d3, d)
  BY <1>7, <1>8, <1>9
<1> HIDE DEF d
<1>11. JobRuns(<<x>> \o WriteQePhonon(settings, d3, d))
  <2> HIDE DEF settings
  <2> QED
    BY <1>3, <1>4, <1>5, PhononRuns
<1> QED
  BY ONLY <1>10, <1>11

\* Of a task of one step.
LEMMA SingleIsWritten ==
  ASSUME Ready, task \notin PhononTasks \cup {"dos", "band"}
  PROVE  JobRuns(Written)
<1> DEFINE first == FirstStep(task)
<1>1. first \in DOMAIN electronic /\ first \notin {"nscf", "bands"} /\ task \notin PhononTasks
  <2>1. task \in Tasks /\ DOMAIN electronic = ElectronicSteps(task)
    BY ReadyIs DEF RequestOK, ElectronicIs
  <2> QED
    BY <2>1, TasksAre, StepsAre DEF PhononTasks
<1>2. CASE task \in {"relax", "vc_relax"}
  <2>1. first \in RelaxSteps
    BY <1>2, StepsAre DEF RelaxSteps
  <2>2. Written = GenerateRelax(Advices[first])
    BY <1>2 DEF Written, GenerateTask, PhononTasks
  <2>3. Advices[first].relax.value = RelaxGiven(first) /\ Advices[first] = AdviceOf(first)
    BY <1>1, <2>1, Handed, AdviceIs DEF RelaxGiven
  <2>4. PICK x : Generated(AdviceOf(first), RelaxGiven(first), None, None) = <<x>> /\ Wrote(x, first, None, None)
    BY <1>1, StepIsWritten
  <2>5. Written = <<x>>
    <3> HIDE DEF first
    <3> QED
      BY ONLY <2>2, <2>3, <2>4 DEF GenerateRelax
  <2>6. JobRuns(<<x>>)
    BY <1>1, <2>4, TimerOff, SingleRuns
  <2> QED
    BY ONLY <2>5, <2>6
<1>3. CASE task \notin {"relax", "vc_relax"}
  <2>1. first \notin RelaxSteps
    <3>1. task = "scf_single_point"
      BY <1>3, TasksAre, ReadyIs DEF RequestOK, PhononTasks
    <3> QED
      BY <3>1, StepsAre DEF RelaxSteps
  <2>2. Written = Generated(Advices[first], None, None, None)
    BY <1>3 DEF Written, GenerateTask
  <2>3. PICK x : Generated(Advices[first], None, None, None) = <<x>> /\ Wrote(x, first, None, None)
    BY <1>1, <2>1, PlainStep
  <2>4. JobRuns(<<x>>)
    BY <1>1, <2>3, TimerOff, SingleRuns
  <2> QED
    BY ONLY <2>2, <2>3, <2>4
<1> QED
  BY <1>2, <1>3

\* An empty report: what is written runs.
LEMMA WrittenRuns ==
  ASSUME Ready
  PROVE  JobRuns(Written)
BY DosIsWritten, BandIsWritten, PhononIsWritten, SingleIsWritten

\* So does what has been generated.
LEMMA GeneratedRuns ==
  ASSUME PipelineInv, pc = "generated"
  PROVE  files # <<>> /\ FilesMeet(files) /\ JobFits(files) /\ BandsXRuns(files) /\ PhXRuns(files)
<1>1. FilesAre
  BY DEF PipelineInv
<1>2. Ready
  BY <1>1 DEF Ready, FilesAre, FromChecked
<1>3. JobRuns(Written)
  BY <1>2, WrittenRuns
<1>4. NoneRefused(Written)
  BY ONLY <1>3 DEF JobRuns
<1>5. files = Written
  BY ONLY <1>1, <1>4 DEF FilesAre, NoneRefused
<1>6. files # <<>>
  <2>1. DOMAIN files # {}
    BY ONLY <1>4, <1>5 DEF NoneRefused
  <2> QED
    BY ONLY <2>1
<1> QED
  BY ONLY <1>3, <1>5, <1>6 DEF JobRuns

\* A REPORT THAT IS EMPTY IS A PROMISE (ReadyRuns): whatever was asked, of any structure and
\* after any remedies, a report with nothing to say leaves every field that is read settled,
\* bands for every electron and whole bands for each spin; and what is then generated is
\* refused nowhere and is a job in which each program finds its files, its keywords and its
\* limits (checks.py, generation/_generate.py).
THEOREM ReadyToRun == Spec => []ReadyRuns
<1>1. PipelineInv => ReadyRuns
  <2> SUFFICES ASSUME PipelineInv PROVE ReadyRuns
    OBVIOUS
  <2>1. pc = "checked" /\ report = {} => Ready
    BY DEF Ready, FromChecked
  <2> QED
    BY <2>1, ReportHolds, GeneratedRuns DEF ReadyRuns
<1> QED
  BY <1>1, Pipelined, PTL
=============================================================================
