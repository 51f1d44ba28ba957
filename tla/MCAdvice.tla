------------------------------- MODULE MCAdvice -------------------------------
(***************************************************************************)
(* Structures and requests for Advice: a semiconductor, metals, magnets,   *)
(* layers, a wire and a molecule, asked for each kind of task with one or  *)
(* two settings that concern each other.                                   *)
(***************************************************************************)
EXTENDS Advice

MainGroup(group, metal) ==
  [ kind |-> "main", heavy |-> FALSE, metal |-> metal, outer |-> 0, states |-> {}, group |-> group,
    orders |-> FALSE, open5f |-> FALSE, radius |-> TRUE, tableU |-> FALSE ]

WithShell(kind, outer, states, orders, tableU) ==
  [MainGroup(3, TRUE) EXCEPT !.kind = kind, !.outer = outer, !.states = states, !.orders = orders,
                             !.tableU = tableU]

MCElement ==
  [ Si |-> MainGroup(14, FALSE), Al |-> MainGroup(13, TRUE), H |-> MainGroup(1, FALSE),
    N |-> MainGroup(15, FALSE), O |-> MainGroup(16, FALSE), S |-> MainGroup(16, FALSE),
    Mo |-> WithShell("transition", 6, {4, 6}, FALSE, TRUE),
    Ni |-> WithShell("transition", 10, {2}, TRUE, TRUE),
    Cu |-> WithShell("transition", 11, {1, 2}, FALSE, TRUE),
    Gd |-> WithShell("lanthanoid", 10, {3}, TRUE, FALSE) ]

Pseudo(z) == {[z |-> z, ecutwfc |-> 40, ecutrho |-> 320]}

Sssp == [ Si |-> Pseudo(8), Al |-> Pseudo(6), H |-> Pseudo(2), N |-> Pseudo(10), O |-> Pseudo(12),
          S |-> Pseudo(12), Mo |-> Pseudo(28), Ni |-> Pseudo(36), Cu |-> Pseudo(38),
          Gd |-> Pseudo(36) ]
Dojo == [ Si |-> {[z |-> 8, ecutwfc |-> 40, ecutrho |-> None]}, Al |-> Pseudo(22),
          H |-> Pseudo(2), O |-> Pseudo(12), Ni |-> Pseudo(36), Cu |-> Pseudo(38),
          Mo |-> Pseudo(28), S |-> Pseudo(12) ]

Table(id, functional, relativistic, provider, pseudos, dual) ==
  [ id |-> id, functional |-> functional, relativistic |-> relativistic, provider |-> provider,
    pseudos |-> pseudos, dual |-> dual ]

MCTables ==
  << Table(1, "PBEsol", "scalar", "pseudodojo", Dojo, 4),
     Table(2, "PBEsol", "full", "pseudodojo", Dojo, None),
     Table(3, "PBEsol", "scalar", "sssp", Sssp, None),
     Table(4, "PBE", "scalar", "sssp", Sssp, None) >>

MCPartitions ==
  << [name |-> "small", cores |-> 16, maxNodes |-> 2, memory |-> 250, maxHours |-> 24],
     [name |-> "large", cores |-> 16, maxNodes |-> 3, memory |-> 4000, maxHours |-> 24] >>

-----------------------------------------------------------------------------

Bulk ==
  [ gaps |-> <<0, 0, 0>>, cAlongZ |-> TRUE, abInPlane |-> FALSE, height |-> 500, split |-> FALSE,
    layers |-> 1, reversible |-> Axes, kpoints |-> 10, path |-> 60, leans |-> FALSE,
    breaking |-> {"skewed"}, fragile |-> FALSE, compatible |-> TRUE, rotated |-> FALSE ]

Layer == [Bulk EXCEPT !.gaps = <<0, 0, 2500>>, !.abInPlane = TRUE, !.height = 3100, !.layers = 3]

\* Too close to its images, and polar.
ThinLayer == [Layer EXCEPT !.gaps = <<0, 0, 900>>, !.height = 1300, !.reversible = {1, 2}]

SideLayer == [Bulk EXCEPT !.gaps = <<1500, 0, 0>>, !.abInPlane = TRUE]

LeaningLayer == [Layer EXCEPT !.cAlongZ = FALSE, !.leans = TRUE]

Thread == [Bulk EXCEPT !.gaps = <<1500, 1500, 0>>, !.abInPlane = TRUE]

Box == [Bulk EXCEPT !.gaps = <<1500, 1500, 1500>>, !.abInPlane = TRUE, !.path = None]

Silicon ==
  [ atoms |-> <<"Si", "Si">>, partners |-> << <<2>>, <<1>> >>, oxidation |-> [Si |-> 0], rank |-> 3,
    predicted |-> [metal |-> "non_metal", magnetic |-> "non_magnetic"], cell |-> Bulk,
    primitives |-> 1, enumlib |-> TRUE, afm |-> <<>>, seeded |-> 0, projectors |-> TRUE,
    megabytes |-> 10 ]

Unclassified == [Silicon EXCEPT !.predicted = [metal |-> None, magnetic |-> None]]

Aluminium ==
  [Unclassified EXCEPT !.atoms = <<"Al">>, !.oxidation = [Al |-> 0], !.partners = << <<1>> >>, !.cell.fragile = TRUE,
                       !.cell.compatible = FALSE,
                       !.cell.abInPlane = TRUE]

\* An odd number of electrons, and no moment.
Hydride == [Silicon EXCEPT !.atoms = <<"Si", "H">>, !.oxidation = [Si |-> 1, H |-> -1],
                                   !.cell.rotated = TRUE]

Oxide ==
  [ Silicon EXCEPT
      !.atoms = <<"Ni", "O">>, !.oxidation = [Ni |-> 2, O |-> -2],
      !.predicted = [metal |-> "metal", magnetic |-> "magnetic"], !.seeded = 16,
      !.afm = << [atoms |-> 4, cell |-> [Bulk EXCEPT !.kpoints = 6], compensated |-> TRUE,
                  seeded |-> 0, keepsVacuum |-> TRUE],
                 [atoms |-> 8, cell |-> [Bulk EXCEPT !.fragile = TRUE], compensated |-> FALSE,
                  seeded |-> 8, keepsVacuum |-> TRUE] >> ]

\* A U on an odd shell of a structure classified as non-magnetic.
Cuprate ==
  [ Silicon EXCEPT !.atoms = <<"Cu", "O">>, !.oxidation = [Cu |-> 2, O |-> -2], !.seeded = 8 ]

Nitride ==
  [ Unclassified EXCEPT !.atoms = <<"Gd", "N">>, !.oxidation = [Gd |-> 3, N |-> -3], !.seeded = 28,
                        !.cell.fragile = TRUE, !.cell.compatible = FALSE ]

Disulfide ==
  [ Silicon EXCEPT !.atoms = <<"Mo", "S", "S">>, !.partners = << <<2, 3>>, <<1>>, <<1>> >>,
                   !.oxidation = [Mo |-> 4, S |-> -2], !.rank = 2, !.cell = Layer, !.cell.rotated = TRUE ]

Sheet == [Aluminium EXCEPT !.rank = 2, !.cell = ThinLayer]
Facet == [Unclassified EXCEPT !.rank = 2, !.cell = SideLayer]
Leaning == [Silicon EXCEPT !.rank = 2, !.cell = LeaningLayer]
Wire == [Silicon EXCEPT !.rank = 1, !.cell = Thread]
Oxygen == [Unclassified EXCEPT !.atoms = <<"O", "O">>, !.oxidation = [O |-> 0], !.rank = 0, !.cell = Box, !.seeded = 8]

-----------------------------------------------------------------------------

\* A setting is a slot with a value.
Flat(key, values) == {<< <<"flat", key>>, v >> : v \in values}
Own(step, key, values) == {<< <<step, key>>, v >> : v \in values}

SpinSettings ==
  Flat("occupations", {"fixed", "smearing", "tetrahedra_opt"}) \cup Flat("tot_magnetization", {0, 1, 2, 40})
    \cup Flat("spin_polarized", BOOLEAN) \cup Flat("spin_orbit_coupling", {TRUE})
    \cup Flat("magnetic_ordering", {AnyAfm, 1, 2, 3}) \cup Flat("is_metal", {"metal", "non_metal"})
    \cup Flat("is_magnetic", {"magnetic", "non_magnetic"})
    \cup Flat("hubbard_needs_correlation", BOOLEAN) \cup Flat("hubbard_projectors", {"atomic"})
    \cup Flat("u_by_element", {{"Cu", "Si"}}) \cup Flat("nelec", {12, 15})
    \cup Flat("starting_magnetization", {[by |-> "element", moment |-> 4, balanced |-> FALSE],
                                         [by |-> "label", moment |-> 0, balanced |-> TRUE]})
    \cup Flat("nbnd", {3}) \cup Flat("extra_bands", {-2, -500})
    \cup Own("scf", "occupations", {"fixed"}) \cup Own("nscf", "occupations", {"fixed"})

CellSettings ==
  Flat("isolation", {"isolated", "slab", "periodic"})
    \cup Flat("cell_dofree", {"2Dxy", "xy", "fixc", "all"}) \cup Flat("fix_bottom_layers", {1, 9})
    \cup Flat("use_vdw", {TRUE}) \cup Flat("functional", {"PBE", "vdw-df2"})
    \cup Flat("ion_dynamics", {"damp"}) \cup Flat("q_grid", {"skewed", "huge"})
    \cup Flat("q_distance", {"fine"}) \cup Flat("needs_correlation", {TRUE})
    \cup Own("vc-relax", "cell_dofree", {"2Dshape"})

JobSettings ==
  Flat("ntasks", {3, 6}) \cup Flat("npool", {1, 3}) \cup Flat("ndiag", {16}) \cup Flat("nodes", {1})
    \cup Flat("partition", {"large", "other"}) \cup Flat("nbnd", {5, 900}) \cup Flat("walltime_h", {4})
    \cup Flat("k_path_distance", {50000}) \cup Flat("ngauss", {"mp"}) \cup Flat("broadening", {1})
    \cup Flat("occupations", {"tetrahedra_opt"}) \cup Flat("ecutwfc", {60}) \cup Flat("ecutrho", {480})
    \cup Flat("pseudo_table_id", {3, 4}) \cup Own("nscf", "npool", {3}) \cup Own("bands", "nbnd", {2})

RequestOf(settings) ==
  [slot \in {s[1] : s \in settings} |-> (CHOOSE s \in settings : s[1] = slot)[2]]

\* One or two settings, each given once.
Pairs(settings) ==
  {RequestOf({s, t}) : <<s, t>> \in {p \in settings \X settings : p[1][1] = p[2][1] => p[1] = p[2]}}

Asks(sites, tasks, settings) ==
  [site : sites, task : tasks, request : {<<>>} \cup Pairs(settings)]

MCAsked ==
  Asks({Silicon, Hydride, Oxide, Cuprate, Nitride, Aluminium},
       {"scf_single_point", "band", "dos", "phonon"}, SpinSettings)
  \cup Asks({Silicon, Hydride, Disulfide, Sheet, Facet, Leaning, Wire, Oxygen, Nitride},
            {"relax", "vc_relax", "relax_phonon", "vc_relax_phonon"}, CellSettings)
  \cup Asks({Silicon, Oxide, Oxygen}, {"scf_single_point", "band", "dos"}, JobSettings)
===============================================================================
