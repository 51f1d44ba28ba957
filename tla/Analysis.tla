------------------------------ MODULE Analysis ------------------------------
(***************************************************************************)
(* What is read off an uploaded structure before any setting is advised:   *)
(* src/src/goldilocks_core/analysis/.                                      *)
(*                                                                         *)
(* A structure is a record: the element of each atom, the neighbours the   *)
(* bond rule finds for each atom, the oxidation states guessed, the rank   *)
(* of its bonded network, the widest gap along each axis in hundredths of  *)
(* an angstrom, how its cell lies, and what the models predict of it.      *)
(***************************************************************************)
EXTENDS Integers, FiniteSets, Sequences, Functions, StepSettings

CONSTANT Element  \* the periodic table: a record for each symbol

ElementsOf(s) == {s.atoms[i] : i \in DOMAIN s.atoms}

\* A cell no strain can make unfit for ph.x's FFT grids is fit for them now.
ValidCell(cell) ==
  /\ cell.kpoints \in Nat /\ cell.path \in Nat \cup {None}
  /\ cell.fragile \in BOOLEAN /\ cell.compatible \in BOOLEAN /\ (cell.compatible \/ cell.fragile)

\* A structure has atoms and a cell, and a cell for each of its orderings.
ValidStructure(s) ==
  /\ s.atoms \in Seq(DOMAIN Element) /\ s.atoms # <<>>
  /\ ValidCell(s.cell) /\ s.seeded \in Int
  /\ \A i \in DOMAIN s.afm :
       s.afm[i].atoms \in Nat /\ ValidCell(s.afm[i].cell) /\ s.afm[i].seeded \in Int

(* composition.py, needs_correlation.py and needs_soc.py                   *)

Correlated(e) == Element[e].kind \in {"transition", "lanthanoid", "actinoid"}

\* _correlated_elements
CorrelatedElements(s) == {e \in ElementsOf(s) : Correlated(e)}

NeedsCorrelation(s, human) ==
  IF human # None THEN Resolved(human, "human")
  ELSE Resolved(CorrelatedElements(s) # {} /\ ElementsOf(s) \cap {"O", "F"} # {}, "heuristic")

NeedsSoc(s) == Resolved(\E e \in ElementsOf(s) : Element[e].heavy, "heuristic")

-----------------------------------------------------------------------------
(* is_metal.py: the user, then the model, then the elements.               *)

AllMetallic(s) == \A e \in ElementsOf(s) : Element[e].metal

IsMetal(s, human) ==
  CASE human # None -> Resolved(human, "human")
    [] human = None /\ s.predicted.metal # None -> Resolved(s.predicted.metal, "ml")
    [] OTHER ->
         IF AllMetallic(s) THEN Resolved("metal", "heuristic") ELSE Unavailable("is_metal")

-----------------------------------------------------------------------------
(* local_moments.py                                                        *)

IonicAnions == {"O", "S", "Se", "Te", "F", "Cl", "Br", "I"}

Capacity(e) == IF Element[e].kind = "transition" THEN 10 ELSE 14

\* _shell_count: Element[e].outer is the group, or Z less the core's 54 or 86.
ShellCount(e, state) ==
  LET count == Element[e].outer - state IN IF count > Capacity(e) THEN Capacity(e) ELSE count

IsOpen(e, count) == 0 < count /\ count < Capacity(e)

\* _open_in_every_common_state
OpenInEveryState(e) ==
  /\ Element[e].states # {}
  /\ \A state \in Element[e].states : IsOpen(e, ShellCount(e, state))

\* _ionic_moments: by the guessed state, or if every common state agrees.
IonicMoments(s) ==
  LET guessed == CorrelatedElements(s) \cap DOMAIN s.oxidation
      unguessed == CorrelatedElements(s) \ DOMAIN s.oxidation
  IN  IF \E e \in unguessed : ~OpenInEveryState(e) THEN Unavailable("local_moments")
      ELSE Resolved({e \in guessed : IsOpen(e, ShellCount(e, s.oxidation[e]))} \cup unguessed,
                    "ionic")

\* _metallic_moments
MetallicMoments(s) ==
  {e \in ElementsOf(s) : Element[e].orders \/ (Element[e].open5f /\ Cardinality(ElementsOf(s)) > 1)}

\* _triplet_dimer
TripletDimer(s, i) ==
  /\ s.atoms[i] \in {"O", "S"}
  /\ Len(s.partners[i]) = 1
  /\ LET j == s.partners[i][1] IN s.atoms[j] = s.atoms[i] /\ Len(s.partners[j]) = 1

\* _radical: a lone open-shell atom of a main group, or a triplet dimer.
OpenShellAtoms(s) == {i \in DOMAIN s.atoms : Element[s.atoms[i]].group \in {1, 13, 14, 15, 16, 17}}

Radical(s) == \E i \in OpenShellAtoms(s) : s.partners[i] = <<>> \/ TripletDimer(s, i)

MomentsOf(s, found) ==
  IF OpenShellAtoms(s) # {} /\ \E e \in ElementsOf(s) : ~Element[e].radius
  THEN Unavailable("covalent_radius")
  ELSE IF ~found.ok THEN found
  ELSE Resolved([ elements |-> found.value, radical |-> Radical(s), rule |-> found.source,
                  counts |-> [e \in CorrelatedElements(s) \cap DOMAIN s.oxidation |->
                                ShellCount(e, s.oxidation[e])] ], "heuristic")

\* local_moments
LocalMoments(s) ==
  MomentsOf(s, IF ElementsOf(s) \cap IonicAnions # {} THEN IonicMoments(s)
               ELSE Resolved(MetallicMoments(s), "metallic"))

\* is_magnetic.py
IsMagnetic(s, moments, human) ==
  CASE human # None -> Resolved(human, "human")
    [] human = None /\ s.predicted.magnetic # None -> Resolved(s.predicted.magnetic, "ml")
    [] OTHER ->
         IF ~moments.ok THEN moments
         ELSE Resolved(IF moments.value.elements # {} \/ moments.value.radical
                       THEN "magnetic" ELSE "non_magnetic", "heuristic")

-----------------------------------------------------------------------------
(* geometry.py                                                             *)

VacuumGap == 500         \* hundredths of an angstrom
TwoDMinHeight == 1111    \* 21 bohr
TwoDVacuumMargin == 1058 \* 20 bohr

Axes == {1, 2, 3}

\* _axes_wider_than_the_gap
VacuumAxes(cell) == {axis \in Axes : cell.gaps[axis] > VacuumGap}

\* two_d_truncation_obstacles
TruncationFits(cell) ==
  /\ cell.cAlongZ
  /\ cell.height >= TwoDMinHeight
  /\ cell.gaps[3] >= (cell.height - cell.gaps[3]) + TwoDVacuumMargin

\* _slab: a cell with one vacuum axis.
Slab(cell) ==
  IF Cardinality(VacuumAxes(cell)) # 1 THEN None
  ELSE LET axis == CHOOSE a \in Axes : VacuumAxes(cell) = {a}
           inPlane == axis = 3 /\ cell.abInPlane
       IN  [axis |-> axis, xyFrame |-> inPlane, fits2D |-> inPlane /\ TruncationFits(cell)]

\* slab_layers: how many layers there are, unless a second gap splits them.
SlabLayers(cell) == IF Slab(cell) = None \/ cell.split THEN None ELSE cell.layers

\* geometry, and with_vacuum_of for the cell that is written.
Geometry(s, cell) ==
  IF s.rank = None THEN Unavailable("dimensionality")
  ELSE Resolved([ rank |-> s.rank, lowDimensional |-> s.rank < 3,
                  vacuumAxes |-> VacuumAxes(cell), slab |-> Slab(cell) ], "heuristic")

\* symmetry.py: the axes whose normal some operation reverses.
Symmetry(cell) ==
  IF cell.reversible = None THEN Unavailable("symmetry") ELSE Resolved(cell.reversible, "heuristic")

\* analyze, and the local moments the advisors read off the structure again.
Analyze(s, moments, h) ==
  [ geometry |-> Geometry(s, s.cell), symmetry |-> Symmetry(s.cell),
    isMetal |-> IsMetal(s, h.is_metal), isMagnetic |-> IsMagnetic(s, moments, h.is_magnetic),
    needsSoc |-> NeedsSoc(s), needsCorrelation |-> NeedsCorrelation(s, h.needs_correlation),
    moments |-> moments ]
=============================================================================
