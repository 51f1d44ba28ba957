-------------------------------- MODULE Meshes --------------------------------
(***************************************************************************)
(* The k-point and q-point meshes of a step: src/src/goldilocks_core/      *)
(* kmesh.py, advisors/k_sampling.py, q_sampling.py and n_irr_k.py.         *)
(*                                                                         *)
(* Reciprocal lengths and k-distances are whole numbers of the last decimal *)
(* a step of the ladder is rounded to.  A survey of a cell holds what is   *)
(* computed from the cell alone.                                           *)
(***************************************************************************)
EXTENDS Integers, Sequences, FiniteSets, PwSymmetry, Rounding, StepSettings

CONSTANTS
  Hundredth,        \* of an inverse Angstrom, in units of a length: 10^6
  Fine,             \* what a number of divisions is rounded to a part of: 10^5
  MinKDistance,     \* MIN_K_DISTANCE
  MaxQDivisions,    \* MAX_Q_DIVISIONS
  MaxIrreducibleQ   \* MAX_IRREDUCIBLE_Q

\* No value is neither a refusal nor a distance.
ASSUME NoneIsNoRefusal == None \notin {"breaks_symmetry", "too_many_q_points"}
ASSUME NoneIsNoDistance == None \notin Nat

ASSUME HundredthAssumption == Hundredth \in Nat \ {0}
ASSUME FineAssumption == Fine \in Nat \ {0} /\ Fine % 2 = 0
ASSUME MinKDistanceAssumption == MinKDistance \in Nat \ {0}
ASSUME QLimitsAssumption == MaxQDivisions \in Nat \ {0} /\ MaxIrreducibleQ \in Nat \ {0}

MaxQMeshPoints == 48 * MaxIrreducibleQ

\* The k-distances of a metal, an insulator and a density of states, and the
\* q-distance.
Angstrom == 100 * Hundredth
MetalKDistance == 15 * Hundredth
NonMetalKDistance == 30 * Hundredth
DosKDistance == 10 * Hundredth
QDistance == 30 * Hundredth

Points(mesh) == mesh[1] * mesh[2] * mesh[3]

-----------------------------------------------------------------------------
(* kmesh.py                                                                *)

\* _coupled: axes are coupled if the crystal's rotations mix them, directly or
\* through the third; a vacuum axis is coupled to no other.
Coupled(cell) ==
  LET rotations == CrystalRotations(cell)
      Linked(i, j) ==
        \/ i = j
        \/ /\ {i, j} \cap cell.vacuum = {}
           /\ \E r \in rotations : r[i][j] # 0 \/ r[j][i] # 0
  IN  {p \in Axes \X Axes : \E l \in Axes : Linked(p[1], l) /\ Linked(l, p[2])}

\* The reciprocal length of an axis, whose square its cofactor is a measure of.
OwnLength(cell, i) == IntegerRoot(cell.scale * Cofactors(cell.gram)[i][i])

\* Mutant of Lengths: each axis meshed from its own length.
LengthsUncoupled(cell) == [i \in Axes |-> OwnLength(cell, i)]

\* _longest_coupled
Lengths(cell) ==
  LET coupled == Coupled(cell)
  IN  [i \in Axes |-> Max({OwnLength(cell, j) : j \in {l \in Axes : <<i, l>> \in coupled}})]

\* ceil(round(length / distance, 5)), at least one.
Divisions(length, distance) ==
  Max({1, (Rounded(Fine * length, distance) + Fine - 1) \div Fine})

\* _Axes.mesh, of the lengths of a cell.
MeshOf(lengths, vacuum, distance) ==
  [i \in Axes |-> IF i \in vacuum THEN 1 ELSE Divisions(lengths[i], distance)]

\* Mutant of ChangePoints: the steps of an axis replace those of the one before.
ChangePointsOfLast(lengths, vacuum) ==
  IF vacuum = Axes THEN {}
  ELSE LET last == Max(Axes \ vacuum)
       IN  {Rounded(lengths[last], n) : n \in 1 .. Max({1, lengths[last] \div MinKDistance})}

\* _Axes.change_points: the steps of the periodic axes, down to the floor.
ChangePoints(lengths, vacuum) ==
  UNION {{Rounded(lengths[i], n) : n \in 1 .. Max({1, lengths[i] \div MinKDistance})} :
           i \in Axes \ vacuum}

\* The mesh down to a step: of the distance halfway to the next step, or above
\* the last step of one an inverse Angstrom larger.
MeshDownTo(lengths, vacuum, steps, step) ==
  LET above == {s \in steps : s > step}
      doubled == [i \in Axes |-> 2 * lengths[i]]
  IN  MeshOf(doubled, vacuum, IF above = {} THEN 2 * (step + Angstrom) ELSE step + Min(above))

\* A rung goes on below a step if the next mesh repeats its own: a sliver.
RungEnds(lengths, vacuum, steps) ==
  LET Mesh(step) == MeshDownTo(lengths, vacuum, steps, step)
      Below(step) == {s \in steps : s < step}
  IN  {s \in steps : Below(s) = {} \/ Mesh(Max(Below(s))) # Mesh(s)}

Descending(points) ==
  [i \in 1 .. Cardinality(points) |->
     CHOOSE x \in points : Cardinality({y \in points : y > x}) = i - 1]

\* Mutant of Ladder: a sliver is dropped, and a rung ends where it meets one.
LadderDroppingSlivers(lengths, vacuum) ==
  LET steps == ChangePoints(lengths, vacuum)
      Mesh(step) == MeshDownTo(lengths, vacuum, steps, step)
      Above(step) == {s \in steps : s > step}
      begins == Descending({s \in steps : Above(s) = {} \/ Mesh(Min(Above(s))) # Mesh(s)})
  IN  IF steps = {} THEN <<[mesh |-> MeshOf(lengths, vacuum, Angstrom), low |-> 0, high |-> None]>>
      ELSE [i \in 1 .. Len(begins) |->
              [ mesh |-> Mesh(begins[i]), low |-> begins[i],
                high |-> IF i = 1 THEN None ELSE Min(Above(begins[i])) ]]

\* build_gamma_kmesh_entries: the first rung is open above.
Ladder(lengths, vacuum) ==
  LET steps == ChangePoints(lengths, vacuum)
      ends == Descending(RungEnds(lengths, vacuum, steps))
  IN  IF steps = {} THEN <<[mesh |-> MeshOf(lengths, vacuum, Angstrom), low |-> 0, high |-> None]>>
      ELSE [i \in 1 .. Len(ends) |->
              [ mesh |-> MeshDownTo(lengths, vacuum, steps, ends[i]), low |-> ends[i],
                high |-> IF i = 1 THEN None ELSE ends[i - 1] ]]

\* What the advisors compute of the structure they are given.
Survey(cell) ==
  LET lengths == Lengths(cell)
  IN  [ rotations |-> PwRotations(cell), kRotations |-> KRotations(cell), vacuum |-> cell.vacuum,
        lengths |-> lengths, ladder |-> Ladder(lengths, cell.vacuum), predictedK |-> cell.predictedK ]

\* k_distance_to_mesh
KDistanceToMesh(survey, distance) == MeshOf(survey.lengths, survey.vacuum, distance)

-----------------------------------------------------------------------------
(* k_sampling.py, with the user's h.k_grid, h.k_index and h.k_distance.    *)

\* _with_k_index: the rung of the ladder with this mesh.
KIndexOf(survey, mesh) ==
  LET ladder == survey.ladder
      same == {i \in DOMAIN ladder : ladder[i].mesh = mesh}
  IN  IF same = {} THEN None ELSE Min(same)

OfMesh(survey, mesh, distance) ==
  [mesh |-> mesh, k_distance |-> distance, k_index |-> KIndexOf(survey, mesh)]

\* _k_distance_tier: the user's, the protocol's, or one for the metallicity.
\* The predicted one comes before that, if the model is there.
KDistanceTier(isMetal, predicted, human, protocol) ==
  CASE human # None -> Resolved(human, "human")
    [] human = None /\ protocol # None -> Resolved(protocol, "heuristic")
    [] human = None /\ protocol = None /\ predicted # None -> Resolved(predicted, "ml")
    [] OTHER ->
         IF isMetal.status = "blocked" THEN BlockedBy(isMetal)
         ELSE Resolved(
                IF isMetal.ok /\ isMetal.value = "non_metal"
                THEN NonMetalKDistance ELSE MetalKDistance, "heuristic")

\* _tiered
Tiered(isMetal, survey, h, protocol) ==
  LET ladder == survey.ladder
      tier == KDistanceTier(isMetal, survey.predictedK, h.k_distance, protocol)
  IN  CASE h.k_grid # None -> Resolved(OfMesh(survey, h.k_grid, None), "human")
        [] h.k_grid = None /\ h.k_index # None ->
             IF h.k_index > Len(ladder) THEN Blocked("k_index")
             ELSE Resolved([ mesh |-> ladder[h.k_index].mesh, k_distance |-> None,
                             k_index |-> h.k_index ], "human")
        [] OTHER ->
             IF ~tier.ok THEN tier
             ELSE Resolved(OfMesh(survey, KDistanceToMesh(survey, tier.value), tier.value), tier.source)

\* _raised: with fixed occupations at least the q-mesh, or else a multiple of it.
Raised(k, q, kind) ==
  [i \in Axes |-> IF kind = "fixed" THEN Max({k[i], q[i]})
                  ELSE q[i] * ((k[i] + q[i] - 1) \div q[i])]

\* q_mesh
QMesh(survey, q) ==
  IF q.q_grid # None THEN q.q_grid
  ELSE KDistanceToMesh(survey, IF q.q_distance = None THEN QDistance ELSE q.q_distance)

\* _against_q: the k-mesh of a phonon task's scf, unless the user chose it.
AgainstQ(state, survey, occupations, h, qh) ==
  LET q == QMesh(survey, qh)
      raised == Raised(state.value.mesh, q, occupations.value.kind)
      requested == h.k_grid # None \/ h.k_index # None \/ h.k_distance # None
  IN  IF ~occupations.ok THEN BlockedBy(occupations)
      ELSE IF Points(q) > MaxQMeshPoints \/ requested \/ raised = state.value.mesh THEN state
      ELSE Resolved(OfMesh(survey, raised, None), state.source)

\* k_sampling: qh is None in a step no phonon follows.
KSampling(isMetal, survey, occupations, h, protocol, qh) ==
  LET state == Tiered(isMetal, survey, h, protocol)
  IN  IF qh = None \/ ~state.ok THEN state ELSE AgainstQ(state, survey, occupations, h, qh)

\* n_irr_k
NIrrK(survey, kSampling) ==
  IF kSampling.ok THEN Resolved(IrreducibleCount(survey.kRotations, kSampling.value.mesh), "heuristic")
  ELSE BlockedBy(kSampling)

-----------------------------------------------------------------------------
(* q_sampling.py                                                           *)

\* _grid_refusal: a requested grid has one point across the vacuum, is mapped
\* onto itself, and counts mixed axes alike.
GridRefusal(survey, mesh) ==
  LET rotations == survey.rotations
      fits == /\ \A i \in survey.vacuum : mesh[i] = 1
              /\ KeepsMesh(rotations, mesh)
              /\ \A p \in MixingPairs(rotations) :
                   {p[1], p[2]} \cap survey.vacuum = {} => mesh[p[1]] = mesh[p[2]]
  IN  IF fits THEN None ELSE "breaks_symmetry"

\* _size_refusal
SizeRefusal(mesh) ==
  IF (\A i \in Axes : mesh[i] <= MaxQDivisions) /\ Points(mesh) <= MaxQMeshPoints
  THEN None ELSE "too_many_q_points"

\* _counted: at most as many irreducible points as q2r.x reads.
Counted(survey, mesh) ==
  LET count == IrreducibleCount(survey.kRotations, mesh)
  IN  [ mesh |-> mesh, count |-> count,
        refusal |-> IF count > MaxIrreducibleQ THEN "too_many_q_points" ELSE None ]

\* q_sampling: the mesh of a distance is mapped onto itself, unless a vacuum
\* vector leans.
QSampling(survey, q) ==
  LET mesh == QMesh(survey, q)
      refusal == IF q.q_grid # None THEN GridRefusal(survey, mesh) ELSE SizeRefusal(mesh)
  IN  IF q.q_grid = None /\ ~KeepsMesh(survey.rotations, mesh) THEN Blocked("leaning_vacuum")
      ELSE IF refusal = None THEN Resolved(Counted(survey, mesh), "heuristic")
      ELSE Resolved([mesh |-> mesh, count |-> None, refusal |-> refusal], "heuristic")
===============================================================================
