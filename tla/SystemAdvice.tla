---------------------------- MODULE SystemAdvice ----------------------------
(***************************************************************************)
(* What a task settles once for its structure: the functional, the Hubbard *)
(* U, the magnetic cell, the pseudopotentials and what follows from them:  *)
(* src/src/goldilocks_core/service/_system.py, _magnetic.py and _pseudo.py *)
(* with the advisors they call.                                            *)
(***************************************************************************)
EXTENDS Spin

CONSTANTS
  Tables,        \* the pseudopotential tables in the order of their ids
  Installed,     \* the ids of the tables in the asset store
  FetchMissing   \* whether a request installs a table it lacks

\* A pseudopotential may not say how many valence electrons it has.
ASSUME TablesAssumption ==
  /\ Tables \in Seq(Range(Tables))
  /\ \A i \in DOMAIN Tables : \A e \in DOMAIN Tables[i].pseudos :
       \A p \in Tables[i].pseudos[e] : p.z \in Nat \cup {None}

(* functional.py and functionals.py                                        *)

Functional(h) ==
  IF h.functional # None THEN Resolved(h.functional, "human") ELSE Resolved("PBEsol", "heuristic")

HasD3BJParameters(functional) == functional \in {"PBE", "PBEsol"}

\* _is_vdw_inclusive: "vdw" or "vv10" is in the name.
VdwInclusive == {"vdw-df2", "rvv10"}

-----------------------------------------------------------------------------
(* hubbard_u.py: the elements that take a U, and the projectors if any.    *)

HubbardDecision(elements, h) ==
  [ u |-> elements # {}, elements |-> elements,
    projectors |-> IF elements = {} THEN None
                   ELSE IF h.hubbard_projectors = None THEN "ortho-atomic"
                   ELSE h.hubbard_projectors ]

Tabulated(s) == {e \in CorrelatedElements(s) : Element[e].tableU}

HubbardU(s, needsCorrelation, functional, h) ==
  LET elements ==
        CASE functional = "hybrid" -> {}
          [] functional # "hybrid" /\ h.hubbard_needs_correlation = FALSE -> {}
          [] functional # "hybrid" /\ h.hubbard_needs_correlation # FALSE /\ h.u_by_element # None ->
               h.u_by_element \cap ElementsOf(s)
          [] OTHER ->
               IF h.hubbard_needs_correlation = TRUE \/ (needsCorrelation.ok /\ needsCorrelation.value)
               THEN Tabulated(s) ELSE {}
      settled == \/ functional = "hybrid"
                 \/ h.hubbard_needs_correlation # None
                 \/ h.u_by_element # None
  IN  IF settled \/ needsCorrelation.ok THEN Resolved(HubbardDecision(elements, h), "heuristic")
      ELSE BlockedBy(needsCorrelation)

-----------------------------------------------------------------------------
(* pseudo_selection.py and service/_pseudo.py                              *)

RequiresSssp(elements) == \E e \in elements : Element[e].kind \in {"lanthanoid", "actinoid"}

\* _table_problems: the table fits the functional, the treatment of
\* relativity and the elements.
TableFits(table, elements, functional, soc) ==
  /\ table.functional = functional
  /\ table.relativistic = IF soc THEN "full" ELSE "scalar"
  /\ RequiresSssp(elements) => table.provider = "sssp"
  /\ elements \subseteq DOMAIN table.pseudos

\* _select_automatic_table: the preferred provider first, then by id.
PreferredTable(matches, elements) ==
  LET provider == IF RequiresSssp(elements) THEN "sssp" ELSE "pseudodojo"
      preferred == {i \in matches : Tables[i].provider = provider}
      among == IF preferred = {} THEN matches ELSE preferred
  IN  Tables[CHOOSE i \in among : \A j \in among : i <= j]

\* select_pseudopotential_table
SelectTable(pinned, elements, functional, soc) ==
  LET matches == {i \in DOMAIN Tables : TableFits(Tables[i], elements, functional, soc)}
      named == {i \in matches : Tables[i].id = pinned}
  IN  CASE pinned # None /\ named # {} -> Resolved(Tables[CHOOSE i \in named : TRUE], "human")
        [] pinned = None /\ matches # {} -> Resolved(PreferredTable(matches, elements), "heuristic")
        [] OTHER -> Unavailable("pseudo_table")

\* select_metadata_for_elements: exactly one pseudopotential of each element.
SelectMetadata(table, elements) ==
  IF \E e \in elements : Cardinality(table.pseudos[e]) # 1 THEN Unavailable("pseudopotentials")
  ELSE Resolved([e \in elements |-> CHOOSE p \in table.pseudos[e] : TRUE], "heuristic")

\* resolve_pseudopotentials: a table that is not installed is fetched if the
\* request may.
Metadata(table, elements) ==
  IF table.id \in Installed \/ FetchMissing THEN SelectMetadata(table, elements)
  ELSE Unavailable("not_installed")

PseudosOf(table, elements, soc) ==
  IF ~table.ok
  THEN [table |-> table, metadata |-> BlockedBy(table), relativistic |-> BlockedBy(table)]
  ELSE [ table |-> table, metadata |-> Metadata(table.value, elements),
         relativistic |-> Resolved(IF soc THEN "full" ELSE "scalar", "heuristic") ]

ResolvePseudopotentials(pinned, elements, functional, soc) ==
  PseudosOf(SelectTable(pinned, elements, functional, soc), elements, soc)

-----------------------------------------------------------------------------
(* service/_magnetic.py                                                    *)

\* _seeded: a cell whose pseudopotentials cannot be chosen has no magnetism.
Seeded(cell, metadata) ==
  IF metadata.status = "blocked" THEN metadata
  ELSE MagneticConfig(cell, metadata.ok
                              /\ \A e \in DOMAIN metadata.value : metadata.value[e].z # None)

\* magnetic_advice, in the order it settles its fields.
MethodAdvice(s, analysis, functional, h) ==
  [ functional |-> functional,
    hubbard |-> HubbardU(s, analysis.needsCorrelation, functional.value, h) ]

CellAdvice(s, cell) ==
  [ cell |-> cell,
    symmetryEff |-> IF cell.ok THEN Symmetry(cell.value.cell.cell) ELSE BlockedBy(cell),
    geometryEff |-> IF cell.ok THEN Geometry(s, cell.value.cell.cell) ELSE BlockedBy(cell) ]

PseudoAdvice(s, cell, functional, h) ==
  IF cell.ok
  THEN ResolvePseudopotentials(h.pseudo_table_id, ElementsOf(s), functional.value, cell.value.soc)
  ELSE [table |-> BlockedBy(cell), metadata |-> BlockedBy(cell), relativistic |-> BlockedBy(cell)]

-----------------------------------------------------------------------------
(* cutoffs.py, electron_count.py, vdw_method.py and boundary.py            *)

\* cutoffs: the largest published, the density's derived if one lacks it.
Cutoffs(metadata, table, h) ==
  LET pseudos == Range(metadata.value)
      wanting(part) == \E p \in pseudos : p[part] = None
  IN  CASE h.ecutwfc # None /\ h.ecutrho # None -> Resolved([written |-> "human"], "human")
        [] (h.ecutwfc = None \/ h.ecutrho = None) /\ ~metadata.ok -> BlockedBy(metadata)
        [] OTHER ->
             IF wanting("ecutwfc") THEN Blocked("ecutwfc")
             ELSE IF h.ecutrho = None /\ wanting("ecutrho") /\ table.value.dual = None
                  THEN Blocked("ecutrho")
             ELSE Resolved([ written |-> IF h.ecutrho = None /\ wanting("ecutrho")
                                         THEN "derived" ELSE "published" ], "heuristic")

\* The valence electrons of a cell, in halves.
NeutralCount(s, metadata, atoms) ==
  LET of[i \in 0 .. Len(s.atoms)] == IF i = 0 THEN 0 ELSE of[i - 1] + metadata[s.atoms[i]].z
  IN  (of[Len(s.atoms)] * atoms) \div Len(s.atoms)

\* electron_count: a count of the user is of the uploaded cell.
ElectronCount(s, cell, metadata, h) ==
  CASE ~cell.ok -> BlockedBy(cell)
    [] cell.ok /\ h.nelec # None /\ cell.value.cell.atoms # Len(s.atoms) -> Blocked("nelec")
    [] cell.ok /\ ~(h.nelec # None /\ cell.value.cell.atoms # Len(s.atoms)) /\ ~metadata.ok ->
         BlockedBy(metadata)
    [] OTHER ->
         IF \E e \in ElementsOf(s) : metadata.value[e].z = None THEN Blocked("z_valence")
         ELSE IF h.nelec # None THEN Resolved(h.nelec, "human")
         ELSE Resolved(NeutralCount(s, metadata.value, cell.value.cell.atoms), "heuristic")

\* vdw_method
VdwMethod(geometry, functional, h) ==
  CASE h.use_vdw # None -> Resolved(h.use_vdw, "human")
    [] h.use_vdw = None /\ functional \in VdwInclusive -> Resolved(FALSE, "heuristic")
    [] OTHER ->
         IF ~geometry.ok THEN BlockedBy(geometry)
         ELSE Resolved(geometry.value.lowDimensional /\ HasD3BJParameters(functional), "heuristic")

\* boundary, with the notice of a polar slab.
Boundary(geometry, symmetry, h) ==
  LET polar == /\ geometry.value.slab # None /\ symmetry.ok
               /\ geometry.value.slab.axis \notin symmetry.value
  IN  CASE h.isolation # None -> Resolved([isolation |-> h.isolation, polar |-> FALSE], "human")
        [] h.isolation = None /\ ~geometry.ok -> BlockedBy(geometry)
        [] OTHER ->
             IF geometry.value.vacuumAxes = Axes
             THEN Resolved([isolation |-> "isolated", polar |-> FALSE], "heuristic")
             ELSE Resolved([isolation |-> "periodic", polar |-> polar], "heuristic")

\* system_advice, of the fields that follow from the cell and its
\* pseudopotentials.
RestAdvice(s, analysis, system, h) ==
  [ magnetic |-> Seeded(system.cell, system.metadata),
    cutoffs |-> Cutoffs(system.metadata, system.table, h),
    electronCount |-> ElectronCount(s, system.cell, system.metadata, h),
    vdw |-> VdwMethod(analysis.geometry, system.functional.value, h),
    boundary |-> Boundary(system.geometryEff, analysis.symmetry, h) ]

\* SystemAdvice.field_states: what the readiness of a task looks at.
SystemStates(system) ==
  << system.table, system.metadata, system.relativistic, system.symmetryEff,
     system.cutoffs, system.hubbard >>
=============================================================================
