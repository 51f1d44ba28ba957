-------------------------------- MODULE Spin --------------------------------
(***************************************************************************)
(* The spin of a calculation, its occupations and its bands:               *)
(* src/src/goldilocks_core/advisors/magnetic_config.py, occupations.py and *)
(* nbnd.py.                                                                *)
(*                                                                         *)
(* Electrons and moments are counted in halves, so that 3 is one and a     *)
(* half.  A structure is a record of what its analysis found.              *)
(***************************************************************************)
EXTENDS Analysis

Larger(a, b) == IF a >= b THEN a ELSE b

\* _nint: n / d rounded, halves away from zero.
Nint(n, d) ==
  IF n >= 0 THEN (2 * n + d) \div (2 * d) ELSE -((d - 2 * n) \div (2 * d))

Whole(halves) == halves % 2 = 0

Magnitude(x) == IF x < 0 THEN -x ELSE x

-----------------------------------------------------------------------------
(* magnetic_config.py                                                      *)

MaxMagneticSites == 8  \* _MAX_MAGNETIC_SITES_FOR_AFM_ENUMERATION

\* _afm_sublattice: the atoms of one primitive cell that carry a moment.
MomentSites(s, moments) ==
  IF ~moments.ok THEN 0
  ELSE Cardinality({i \in DOMAIN s.atoms : s.atoms[i] \in moments.value.elements}) \div s.primitives

\* _afm_candidates: the antiferromagnetic cells of a structure that keep its
\* vacuum, by their places in the list, smallest first; none if enumlib cannot
\* list them.
AfmCandidates(s, moments) ==
  IF MomentSites(s, moments) \notin 1 .. MaxMagneticSites \/ ~s.enumlib THEN {}
  ELSE {i \in DOMAIN s.afm : VacuumAxes(s.cell) # {} => s.afm[i].keepsVacuum}

\* The candidate that has a number among them, if any.
Numbered(candidates, n) == {i \in candidates : Cardinality({j \in candidates : j <= i}) = n}

\* An ordering is ferromagnetic, any antiferromagnetic one, or one by number.
Fm == 0
AnyAfm == -1

FmCell(s) ==
  [ applied |-> Fm, atoms |-> Len(s.atoms), cell |-> s.cell, compensated |-> FALSE,
    seeded |-> s.seeded ]

\* _ordered: the cell of the requested ordering.  A plain "afm" falls back on
\* ferromagnetic order, a numbered one that is not listed is refused.
Ordered(s, candidates, requested) ==
  LET index == IF requested = AnyAfm THEN 1 ELSE requested
      named == Numbered(candidates, index)
      afm == s.afm[CHOOSE i \in named : TRUE]
  IN  CASE requested = Fm -> Resolved(FmCell(s), "heuristic")
        [] requested # Fm /\ named # {} ->
             Resolved([ applied |-> index, atoms |-> afm.atoms, cell |-> afm.cell,
                        compensated |-> afm.compensated, seeded |-> afm.seeded ], "human")
        [] OTHER ->
             IF requested = AnyAfm THEN Resolved(FmCell(s), "heuristic")
             ELSE Blocked("magnetic_ordering")

\* _seeded_split: seeds name the labels of the cell that is written, or an
\* element whose sites its ordering seeds alike.
SeedsFit(seeds, applied) ==
  seeds # None => (seeds.by = "element" <=> applied = Fm)

\* _spin_requests: settings that ask for a moment.
SpinRequested(h) ==
  \/ h.tot_magnetization # None
  \/ h.starting_magnetization # None
  \/ h.magnetic_ordering # None

\* _resolve_spin_polarized: a choice of the user, what a request implies, the
\* magnetism found, and polarized if none was.
SpinChoice(h, isMagnetic) ==
  IF h.spin_polarized # None THEN [on |-> h.spin_polarized, from |-> "human"]
  ELSE IF SpinRequested(h) THEN [on |-> TRUE, from |-> "human"]
  ELSE IF isMagnetic.ok THEN [on |-> isMagnetic.value = "magnetic", from |-> "is_magnetic"]
  ELSE [on |-> TRUE, from |-> "is_magnetic"]

\* _odd_shells: a U acts on an odd number of d or f electrons.
OddShells(moments, hubbard) ==
  /\ hubbard.ok /\ moments.ok
  /\ \E e \in hubbard.value.elements \cap DOMAIN moments.value.counts :
       moments.value.counts[e] \in {1, 3, 5, 7, 9, 11, 13}

\* _hubbard_spin: such a U turns spin polarization on, unless the user chose.
HubbardSpin(choice, moments, hubbard) ==
  IF ~choice.on /\ choice.from # "human" /\ OddShells(moments, hubbard)
  THEN [on |-> TRUE, from |-> "hubbard"]
  ELSE choice

\* magnetic_cell, of the choice of spin and the ordered cell.
CellWritten(s, h, isMagnetic, choice, ordered) ==
  LET soc == h.spin_orbit_coupling # None /\ h.spin_orbit_coupling
      tot == IF choice.on THEN h.tot_magnetization ELSE None
      cell == IF choice.on THEN ordered.value ELSE FmCell(s)
  IN  CASE isMagnetic.status = "blocked" -> isMagnetic
        [] isMagnetic.status # "blocked" /\ tot # None /\ soc -> Blocked("tot_magnetization")
        [] OTHER ->
             IF choice.on /\ ~ordered.ok THEN ordered
             ELSE IF choice.on /\ ~SeedsFit(h.starting_magnetization, ordered.value.applied)
             THEN Blocked("starting_magnetization")
             ELSE Resolved([ polarized |-> choice.on, soc |-> soc, tot |-> tot, from |-> choice.from,
                             cell |-> cell, seeds |-> h.starting_magnetization ], choice.from)

MagneticCell(s, h, isMagnetic, moments, hubbard) ==
  CellWritten(s, h, isMagnetic, HubbardSpin(SpinChoice(h, isMagnetic), moments, hubbard),
              Ordered(s, AfmCandidates(s, moments),
                      IF h.magnetic_ordering = None THEN Fm ELSE h.magnetic_ordering))

\* magnetic_config: an ordering other than fm whose seeds a time reversal maps
\* onto each other is compensated; the seeded moment needs the valences.
MagneticConfig(cell, valencesKnown) ==
  IF ~cell.ok THEN BlockedBy(cell)
  ELSE LET m == cell.value
       IN  Resolved(
             [ polarized |-> m.polarized, soc |-> m.soc, tot |-> m.tot, from |-> m.from,
               atoms |-> m.cell.atoms, cell |-> m.cell.cell,
               ordering |-> m.cell.applied,
               compensated |-> /\ m.polarized /\ m.cell.compensated
                               /\ m.seeds # None => m.seeds.balanced,
               seeded |-> IF ~m.polarized \/ ~valencesKnown THEN None
                          ELSE IF m.seeds # None THEN m.seeds.moment
                          ELSE m.cell.seeded ],
             cell.source)

\* MagneticConfigFacts.spin_mode
SpinMode(magnetic) ==
  IF ~magnetic.ok THEN "none"
  ELSE IF magnetic.value.soc THEN "noncollinear"
  ELSE IF magnetic.value.polarized THEN "collinear" ELSE "none"

\* unpolarized_if_non_magnetic: calling the structure non-magnetic would turn
\* the spin polarization off.
UnpolarizedIfNonMagnetic(moments, magnetic, hubbard) ==
  /\ magnetic.ok /\ magnetic.value.from = "is_magnetic"
  /\ ~OddShells(moments, hubbard)

-----------------------------------------------------------------------------
(* occupations.py                                                          *)

\* whole_spin_channels
WholeSpinChannels(nelec, moment) == (nelec + moment) % 4 = 0 /\ (nelec - moment) % 4 = 0

SpinOf(magnetic, nelec, unpinned) ==
  [ mode |-> SpinMode(magnetic),
    polarized |-> magnetic.ok /\ magnetic.value.polarized,
    requested |-> IF magnetic.ok THEN magnetic.value.tot ELSE None,
    compensated |-> magnetic.ok /\ magnetic.value.compensated,
    nelec |-> IF nelec.ok THEN nelec.value ELSE None,
    unpinned |-> unpinned ]

\* _Spin.fixed_moment: the moment fixed occupations hold in a collinear run.
FixedMoment(spin) ==
  IF spin.mode # "collinear" THEN None
  ELSE IF spin.requested # None THEN spin.requested
  ELSE IF spin.compensated /\ ~spin.unpinned /\ spin.nelec # None /\ WholeSpinChannels(spin.nelec, 0)
  THEN 0
  ELSE None

\* _Spin.fixed_runs: pw.x accepts fixed occupations.
FixedRuns(spin) ==
  \/ spin.mode = "noncollinear" /\ spin.polarized
  \/ LET moment == IF spin.polarized THEN FixedMoment(spin) ELSE 0
     IN  /\ moment # None /\ Whole(moment)
         /\ spin.nelec # None => WholeSpinChannels(spin.nelec, moment)

\* fixed_occupations_run
FixedOccupationsRun(magnetic, nelec) == FixedRuns(SpinOf(magnetic, nelec, FALSE))

\* _decision_for, _fixed_decision and _smearing_decision: fixed occupations
\* hold a moment, derived or requested, the others only a requested one.
OccupationsDecision(choice, spin) ==
  [kind |-> choice, tot |-> IF choice = "fixed" THEN FixedMoment(spin) ELSE spin.requested]

\* Mutant of Occupations: fixed occupations for every insulator.
OccupationsOfMetallicity(isMetal, magnetic, nelec, human, protocol) ==
  LET spin == SpinOf(magnetic, nelec, protocol = "unpinned")
  IN  IF human # None THEN Resolved(OccupationsDecision(human, spin), "human")
      ELSE IF protocol \in {"tetrahedra_opt"}
      THEN Resolved(OccupationsDecision(protocol, spin), "heuristic")
      ELSE IF isMetal.status = "blocked" THEN isMetal
      ELSE Resolved(
             OccupationsDecision(
               IF isMetal.ok /\ isMetal.value = "non_metal" THEN "fixed" ELSE "smearing", spin),
             "heuristic")

\* occupations: what the user sets, what the step's protocol does, and fixed
\* occupations for an insulator that runs with them.
Occupations(isMetal, magnetic, nelec, human, protocol) ==
  LET spin == SpinOf(magnetic, nelec, protocol = "unpinned")
  IN  IF human # None THEN Resolved(OccupationsDecision(human, spin), "human")
      ELSE IF protocol \in {"tetrahedra_opt"}
      THEN Resolved(OccupationsDecision(protocol, spin), "heuristic")
      ELSE IF isMetal.status = "blocked" THEN isMetal
      ELSE Resolved(
             OccupationsDecision(
               IF isMetal.ok /\ isMetal.value = "non_metal" /\ FixedRuns(spin)
               THEN "fixed" ELSE "smearing", spin),
             "heuristic")

\* bands_occupations: tetrahedra need an automatic grid of k-points.
BandsOccupations(scf) ==
  IF scf.ok /\ scf.value.kind = "tetrahedra_opt"
  THEN Resolved([scf.value EXCEPT !.kind = "smearing"], "heuristic")
  ELSE IF scf.ok THEN Resolved(scf.value, "heuristic") ELSE scf

-----------------------------------------------------------------------------
(* nbnd.py                                                                 *)

\* _spin_inputs: only a collinear run has a moment of its own.
SpinInputs(occupations, magnetic) ==
  LET mode == SpinMode(magnetic)
  IN  [ mode |-> mode,
        tot |-> IF mode = "collinear" THEN occupations.tot ELSE None,
        seeded |-> IF mode = "collinear" THEN magnetic.value.seeded ELSE None ]

\* _spin_channels: the electrons of each spin, in quarters of an electron.
SpinChannels(nelec, tot) ==
  IF tot = None
  THEN LET up == IF Whole(nelec) THEN 4 * ((nelec \div 2 + 1) \div 2) ELSE nelec
       IN  <<up, 2 * nelec - up>>
  ELSE <<nelec + tot, nelec - tot>>

\* _seeded_channels: room for the moment the seeds start from.
SeededChannels(nelec, channels, seeded) ==
  LET up == nelec + Magnitude(seeded)
  IN  IF up <= channels[1] THEN channels ELSE <<up, 2 * nelec - up>>

\* _qe_default_nbnd
DefaultNbnd(nelec, channels, metalLike, mode) ==
  LET filled == Larger(Nint(nelec, 4), Larger(Nint(channels[1], 4), Nint(channels[2], 4)))
      room == Larger(Nint(12 * nelec, 40),
                     Larger(Nint(12 * channels[1], 40), Nint(12 * channels[2], 40)))
      bands == IF metalLike THEN Larger(room, filled + 4) ELSE filled
  IN  IF mode = "noncollinear" THEN 2 * bands ELSE bands

\* _protocol_default: three times the occupied bands, and four more.
ProtocolNbnd(nelec, mode, default) ==
  LET twice == IF mode = "noncollinear" THEN 2 * nelec ELSE nelec
  IN  Larger(default, Larger((3 * twice) \div 4, twice \div 4 + 4))

\* nbnd
Nbnd(nelec, occupations, magnetic, human, extra, protocol) ==
  LET in == SpinInputs(occupations.value, magnetic)
      metalLike == occupations.value.kind # "fixed"
      seeded == in.mode = "collinear" /\ metalLike /\ in.tot = None
      own == SpinChannels(nelec.value, in.tot)
      channels == IF seeded THEN SeededChannels(nelec.value, own, in.seeded) ELSE own
      default == DefaultNbnd(nelec.value, channels, metalLike, in.mode)
      sized == IF protocol = "bands" THEN ProtocolNbnd(nelec.value, in.mode, default) ELSE default
      total == sized + (IF extra = None THEN 0 ELSE extra)
  IN  CASE ~nelec.ok -> BlockedBy(nelec)
        [] nelec.ok /\ human # None -> Resolved(human, "human")
        [] nelec.ok /\ human = None /\ ~occupations.ok -> BlockedBy(occupations)
        [] nelec.ok /\ human = None /\ occupations.ok /\ seeded /\ in.seeded = None ->
             Blocked("seeded_moment")
        [] OTHER -> IF total <= 0 THEN Unavailable("nbnd") ELSE Resolved(total, "heuristic")

\* band_floors: the least number of bands pw.x takes.
BandFloor(nelec, occupations, magnetic) ==
  LET in == SpinInputs(occupations, magnetic)
      channels == SpinChannels(nelec, in.tot)
      paired == Larger(Nint(nelec, 4), Larger(Nint(channels[1], 4), Nint(channels[2], 4)))
  IN  IF in.mode = "noncollinear" THEN Larger(paired, Nint(nelec, 2)) ELSE paired
=============================================================================
