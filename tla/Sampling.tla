------------------------------- MODULE Sampling -------------------------------
(***************************************************************************)
(* What a phonon task's first step and its phonons are sampled on, for one *)
(* cell after another: src/src/goldilocks_core/service/_step_kpoints.py    *)
(* with the meshes of Meshes and the FFT grid of PwSymmetry.               *)
(***************************************************************************)
EXTENDS Meshes

CONSTANTS
  Cells,       \* the cells as they are written
  Requests,    \* what a user says of the meshes, with the metallicity and the
               \* occupations found: [k : [k_grid, k_index, k_distance],
               \* q : [q_grid, q_distance], metal, kind]
  Cutoff       \* the cutoff of the density

\* The lattice vectors of a cell are independent: its Gram matrix is positive
\* definite.
ASSUME LatticeAssumption ==
  \A c \in Cells :
    /\ \A i, j \in Axes : c.gram[i][j] \in Int /\ c.gram[i][j] = c.gram[j][i]
    /\ \A i \in Axes : c.gram[i][i] > 0 /\ Cofactors(c.gram)[i][i] > 0
    /\ Determinant(c.gram) > 0

\* Sites are numbered, and no reciprocal length is nothing.
ASSUME CellsAssumption ==
  \A c \in Cells :
    /\ c.vacuum \subseteq Axes /\ DOMAIN c.sites \subseteq Nat
    /\ \A i \in Axes : OwnLength(c, i) \in Nat \ {0}
    /\ c.predictedK \in {None} \cup (Nat \ {0})

\* The rotations pw.x finds are the crystal's, and those of its k-points form
\* a crystallographic point group.
ASSUME RotationsAssumption ==
  \A c \in Cells :
    /\ PwRotations(c) \subseteq CrystalRotations(c)
    /\ Identity \in KRotations(c) /\ IsFiniteSet(KRotations(c)) /\ Cardinality(KRotations(c)) <= 48

ASSUME CutoffAssumption == Cutoff \in Nat \ {0}

Counts == [Axes -> Nat \ {0}]

ASSUME RequestsAssumption ==
  \A r \in Requests :
    /\ r.k.k_grid \in {None} \cup Counts /\ r.q.q_grid \in {None} \cup Counts
    /\ r.k.k_index \in {None} \cup (Nat \ {0})
    /\ r.k.k_distance \in {None} \cup (Nat \ {0}) /\ r.q.q_distance \in {None} \cup (Nat \ {0})
    /\ r.q # None /\ r.kind \in {"fixed", "smearing"}

VARIABLES
  cell,    \* the cell advised on
  survey,  \* None, or what its geometry says
  asked,   \* the request
  advice   \* None, or what the advisors say

meshVars == <<cell, survey, asked, advice>>

NoRequest == [k_grid |-> None, k_index |-> None, k_distance |-> None]

MeshInit ==
  /\ cell \in Cells
  /\ survey = None
  /\ asked = None
  /\ advice = None

SurveyOf(c) == [geometry |-> Survey(c), fft |-> FftGrid(c, Cutoff, "scf")]

\* The geometry and the symmetry of the cell.
Analyse ==
  /\ survey = None
  /\ survey' = SurveyOf(cell)
  /\ UNCHANGED <<cell, asked, advice>>

AdviceFor(request) ==
  LET occupations == Resolved([kind |-> request.kind], "heuristic")
      k == KSampling(request.metal, survey.geometry, occupations, request.k, None, request.q)
  IN  [k |-> k, q |-> QSampling(survey.geometry, request.q), n_irr_k |-> NIrrK(survey.geometry, k)]

\* _cell_sampling and the grids of the phonon advice.
Advise(request) ==
  /\ survey # None /\ advice = None
  /\ asked' = request
  /\ advice' = AdviceFor(request)
  /\ UNCHANGED <<cell, survey>>

Advised == advice # None /\ UNCHANGED meshVars

MeshNext ==
  \/ Analyse
  \/ \E request \in Requests : Advise(request)
  \/ Advised

-----------------------------------------------------------------------------

\* A rotation pw.x keeps turns a vacuum vector partly along a periodic one.
VacuumLeans ==
  \E p \in MixingPairs(survey.geometry.rotations) : p[1] \in cell.vacuum /\ p[2] \notin cell.vacuum

Unrefused(q) == q.ok /\ q.value.refusal = None

\* pw.x's own rotations map every default mesh onto itself: the k-mesh of any
\* tier or rung, also after it was raised against a q-mesh the user chose, the
\* q-mesh, and the FFT grid that is written.  ph.x stops on a mesh they do not.
\* If it is pw.x's own grid they do not map onto itself, the cell is fragile, and
\* is not relaxed without a finding (advisors/fft_grid.py, checks.py).
MeshesKeepSymmetry ==
  advice # None =>
    LET rotations == survey.geometry.rotations
    IN  /\ (advice.k.ok /\ asked.k.k_grid = None /\ ~VacuumLeans /\ Unrefused(advice.q)) =>
             KeepsMesh(rotations, advice.k.value.mesh)
        /\ Unrefused(advice.q) => KeepsMesh(rotations, advice.q.value.mesh)
        /\ LET grid == IF survey.fft.written = <<>> THEN survey.fft.own ELSE survey.fft.written
           IN  KeepsGrid(rotations, grid) /\ \A i \in Axes : grid[i] >= survey.fft.own[i]
        /\ KeepsGrid(rotations, survey.fft.own) \/ survey.fft.fragile

\* The rungs of a ladder are different meshes, and their intervals cover the
\* k-distances above its last step once: no sliver is lost.  A distance that is
\* further from every step than the roundings reach has the mesh of its rung,
\* unless the rung ends below the floor, where the steps of a longer axis are not
\* listed.
LadderIsWhole ==
  survey # None =>
    LET geometry == survey.geometry
        ladder == geometry.ladder
        steps == ChangePoints(geometry.lengths, geometry.vacuum)
        Holds(i, distance) ==
          ladder[i].low <= distance /\ (ladder[i].high # None => distance < ladder[i].high)
        OffTheSteps(distance) ==
          \A s \in steps : \/ 2 * Fine * (distance - s) > 2 * s + Fine
                           \/ 2 * Fine * (s - distance) > 2 * s + Fine
    IN  /\ \A i, j \in DOMAIN ladder : ladder[i].mesh = ladder[j].mesh => i = j
        /\ \A distance \in 1 .. ladder[1].low + Angstrom :
             distance >= ladder[Len(ladder)].low =>
               \E i \in DOMAIN ladder :
                 /\ Holds(i, distance)
                 /\ \A j \in DOMAIN ladder : Holds(j, distance) => i = j
                 /\ (ladder[i].low >= MinKDistance \/ steps = {}) /\ OffTheSteps(distance) =>
                      KDistanceToMesh(geometry, distance) = ladder[i].mesh

\* "Consecutive rungs differ by at most one k-point on each axis and no reachable
\* mesh is skipped" (kmesh.py:314), but where a rung ends below the floor: the
\* only step of a long axis may be there, and the steps of the others are not.
RungsDifferByOne ==
  survey # None =>
    LET ladder == survey.geometry.ladder
    IN  \A i \in 1 .. Len(ladder) - 1 : \A j \in Axes :
          ladder[i + 1].low >= MinKDistance =>
            ladder[i + 1].mesh[j] - ladder[i].mesh[j] \in {0, 1}

\* "Every rung is a distinct mesh the point group of structure maps onto itself"
\* (kmesh.py:304): not if a vacuum vector leans.
RungsKeepSymmetry ==
  survey # None => \A i \in DOMAIN survey.geometry.ladder : KeepsMesh(survey.geometry.rotations, survey.geometry.ladder[i].mesh)

\* Raising a default k-mesh makes it commensurate and no coarser: with smearing
\* every q-point is a difference of k-points, and no axis loses points.
RaisedForPhonons ==
  (advice # None /\ advice.k.ok /\ asked.k = NoRequest /\ Unrefused(advice.q)) =>
    LET k == advice.k.value.mesh
        q == advice.q.value.mesh
        own == Tiered(asked.metal, survey.geometry, asked.k, None).value.mesh
    IN  \A i \in Axes :
          k[i] >= q[i] /\ k[i] >= own[i] /\ (asked.kind = "smearing" => k[i] % q[i] = 0)
===============================================================================
