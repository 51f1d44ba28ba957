------------------------------ MODULE PwSymmetry ------------------------------
(***************************************************************************)
(* The symmetry pw.x finds in a cell as it is written, and the meshes and  *)
(* FFT grids that symmetry maps onto themselves:                           *)
(* src/src/goldilocks_core/pw_symmetry.py and pw_fft.py.                   *)
(*                                                                         *)
(* A cell has the Gram matrix of its lattice vectors, in integers, and     *)
(* sites at twelfths of them; lengths are compared by their squares.  It   *)
(* is straight if its frame lets pw.x's fixed rotations meet the lattice.  *)
(***************************************************************************)
EXTENDS Integers, Sequences, FiniteSets, FiniteSetsExt

Axes == 1 .. 3
Grid == 12  \* fractional coordinates are multiples of a twelfth

Vectors == {<<x, y, z>> : x, y, z \in -1 .. 1}

\* v . G w
Inner(gram, v, w) ==
  LET Row(i) == v[i] * (gram[i][1] * w[1] + gram[i][2] * w[2] + gram[i][3] * w[3])
  IN  Row(1) + Row(2) + Row(3)

\* A rotation is the sequence of its rows; its columns are the images of the
\* lattice vectors.
Turned(rotation, v) ==
  [i \in Axes |-> rotation[i][1] * v[1] + rotation[i][2] * v[2] + rotation[i][3] * v[3]]

Transposed(m) == [i \in Axes |-> [j \in Axes |-> m[j][i]]]

Minus(m) == [i \in Axes |-> [j \in Axes |-> -m[i][j]]]

Identity == [i \in Axes |-> [j \in Axes |-> IF i = j THEN 1 ELSE 0]]

\* The next axis, and the one after it.
After(i) == (i % 3) + 1

\* The cofactors of a matrix.
Cofactors(m) ==
  [i \in Axes |-> [j \in Axes |->
     m[After(i)][After(j)] * m[After(After(i))][After(After(j))]
       - m[After(i)][After(After(j))] * m[After(After(i))][After(j)]]]

Determinant(m) ==
  LET c == Cofactors(m)
  IN  m[1][1] * c[1][1] + m[1][2] * c[1][2] + m[1][3] * c[1][3]

-----------------------------------------------------------------------------
(* _operations.                                                            *)

\* The integer matrices that keep the lengths of the lattice.
PointGroup(gram) ==
  LET Images(i) == {v \in Vectors : Inner(gram, v, v) = gram[i][i]}
      Kept == {c \in Images(1) \X Images(2) \X Images(3) :
                 \A i, j \in Axes : i < j => Inner(gram, c[i], c[j]) = gram[i][j]}
  IN  {Transposed(c) : c \in Kept}

\* _lattice_rotations: those of pw.x's fixed rotations that meet the lattice.
LatticeRotations(cell) ==
  IF cell.straight THEN PointGroup(cell.gram) ELSE {Identity, Minus(Identity)}

\* _types: the sites of one species are alike.
Kinds(cell) == {cell.sites[s].kind : s \in DOMAIN cell.sites}

OfKind(cell, s) == {t \in DOMAIN cell.sites : cell.sites[t].kind = cell.sites[s].kind}

\* Where a rotation and a translation send a site: _landing.
Landing(cell, rotation, shift, s) ==
  LET image == Turned(rotation, cell.sites[s].at)
  IN  {t \in OfKind(cell, s) :
         \A i \in Axes : (image[i] + shift[i] - cell.sites[t].at[i]) % Grid = 0}

Lands(cell, rotation, shift) ==
  \A s \in DOMAIN cell.sites : Landing(cell, rotation, shift, s) # {}

\* A coordinate in (-6, 6].
Centred(x) == IF x % Grid > 6 THEN (x % Grid) - Grid ELSE x % Grid

\* The translation that sends site t, turned, onto site 1.
ShiftOnto(cell, rotation, t) ==
  LET image == Turned(rotation, cell.sites[t].at)
  IN  [i \in Axes |-> Centred(cell.sites[1].at[i] - image[i])]

NoShift == <<0, 0, 0>>

\* _supercell: a translation alone maps the cell onto itself.
Supercell(cell) ==
  \E t \in OfKind(cell, 1) \ {1} : Lands(cell, Identity, ShiftOnto(cell, Identity, t))

\* _allowed_translation: every component is 0, 1/2, 1/3, 1/4 or 1/6.
AllowedTranslation(shift) ==
  \A i \in Axes : shift[i] \in {0, 2, 3, 4, 6, -2, -3, -4}

Shifts(cell, rotation) ==
  IF Lands(cell, rotation, NoShift) THEN {NoShift}
  ELSE IF Supercell(cell) THEN {}
  ELSE LET fit == {t \in OfKind(cell, 1) :
                     /\ AllowedTranslation(ShiftOnto(cell, rotation, t))
                     /\ Lands(cell, rotation, ShiftOnto(cell, rotation, t))}
       IN  IF fit = {} THEN {} ELSE {ShiftOnto(cell, rotation, Min(fit))}

Operations(cell) ==
  UNION {{[rotation |-> r, shift |-> t] : t \in Shifts(cell, r)} : r \in LatticeRotations(cell)}

\* _magnetic: a noncollinear run keeps the operations that map every moment
\* onto the moment of the atom it lands on (sign 1) or onto its opposite (-1).
Magnetic(cell, sign) ==
  LET Moment(s, factor) == [i \in Axes |-> factor * cell.sites[s].spin * cell.axis[i]]
  IN  {op \in Operations(cell) :
         \A s \in DOMAIN cell.sites : \A t \in Landing(cell, op.rotation, op.shift, s) :
           Turned(op.rotation, Moment(s, Determinant(op.rotation))) = Moment(t, sign)}

\* The moments have a direction: a noncollinear run of a magnetic cell.
HasMoments(cell) == cell.axis # NoShift /\ \E s \in DOMAIN cell.sites : cell.sites[s].spin # 0

\* pw_rotations: the rotations pw.x keeps.
PwRotations(cell) ==
  {op.rotation : op \in IF HasMoments(cell) THEN Magnetic(cell, 1) \cup Magnetic(cell, -1)
                        ELSE Operations(cell)}

\* What they do to k-points: an operation that turns the moments over takes k
\* to -k with it, and without moments k and -k are alike.
KRotations(cell) ==
  LET Of(ops) == {op.rotation : op \in ops}
      Reversed(ops) == {Minus(op.rotation) : op \in ops}
  IN  IF HasMoments(cell) THEN Of(Magnetic(cell, 1)) \cup Reversed(Magnetic(cell, -1) \ Magnetic(cell, 1))
      ELSE Of(Operations(cell)) \cup Reversed(Operations(cell))

\* The whole point group of the crystal, with any translation: spglib.
CrystalRotations(cell) ==
  {r \in PointGroup(cell.gram) :
     \E t \in OfKind(cell, 1) : Lands(cell, r, ShiftOnto(cell, r, t))}

-----------------------------------------------------------------------------
(* Grids.                                                                  *)

\* _maps_onto_itself: a mesh of points the rotations map onto itself.
KeepsMesh(rotations, mesh) ==
  \A r \in rotations : \A i, j \in Axes : (r[i][j] * mesh[j]) % mesh[i] = 0

\* grid_is_compatible: the same of an FFT grid, in direct space.
KeepsGrid(rotations, grid) ==
  \A r \in rotations : \A i, j \in Axes : (r[i][j] * grid[i]) % grid[j] = 0

\* mixing_axis_pairs: <<i, j>> if a rotation turns vector i partly along j.
MixingPairs(rotations) ==
  {p \in Axes \X Axes : p[1] # p[2] /\ \E r \in rotations : r[p[2]][p[1]] # 0}

\* irreducible_kpoint_count: the orbits of an unshifted mesh; a rotation that
\* takes a point off the mesh joins it to nothing.
IrreducibleCount(rotations, mesh) ==
  LET points == (0 .. mesh[1] - 1) \X (0 .. mesh[2] - 1) \X (0 .. mesh[3] - 1)
      share == <<mesh[2] * mesh[3], mesh[3] * mesh[1], mesh[1] * mesh[2]>>
      turns == {[i \in Axes |-> [j \in Axes |-> r[j][i] * share[j]]] : r \in rotations}
      Orbit(p) ==
        {<<(v[1] \div share[1]) % mesh[1], (v[2] \div share[2]) % mesh[2], (v[3] \div share[3]) % mesh[3]>> :
           v \in {w \in {Turned(m, p) : m \in turns} : \A i \in Axes : w[i] % share[i] = 0}}
  IN  Cardinality({Orbit(p) : p \in points})

-----------------------------------------------------------------------------
(* pw_fft.py                                                               *)

Product(grid) == grid[1] * grid[2] * grid[3]

\* _five_smooth: no prime factor above 5.
FiveSmooth(n) == \A p \in 2 .. n : n % p = 0 => p % 2 = 0 \/ p % 3 = 0 \/ p % 5 = 0

\* good_fft_order: the next length with small factors that is a multiple of the
\* factor.  There is one below twice the first multiple.
GoodFftOrder(length, factor) ==
  LET Good(n) == n % factor = 0 /\ FiveSmooth(n)
  IN  CHOOSE n \in length .. 2 * factor * length : Good(n) /\ \A m \in length .. n - 1 : ~Good(m)

Lcm(a, b) == Min({n \in 1 .. a * b : n % a = 0 /\ n % b = 0})

\* fft_factors: every translation maps the points of the grid onto each other.
FftFactors(cell) ==
  LET Of(i) == {Grid \div (IF op.shift[i] < 0 THEN -op.shift[i] ELSE op.shift[i]) :
                  op \in {o \in Operations(cell) : o.shift[i] # 0}}
  IN  [i \in Axes |-> Min({n \in 1 .. Grid : \A f \in Of(i) : n % f = 0})]

IntegerRoot(x) == CHOOSE n \in 0 .. x : n * n <= x /\ x < (n + 1) * (n + 1)

\* _miller_reach: the largest index along each axis of the vectors below a
\* cutoff, sought as far as the length of the axis lets one be.
MillerReach(cell, cutoff) ==
  LET reciprocal == Cofactors(cell.gram)
      Most(i) == IntegerRoot((cutoff * cell.gram[i][i]) \div Determinant(cell.gram)) + 1
      box == (-Most(1) .. Most(1)) \X (-Most(2) .. Most(2)) \X (-Most(3) .. Most(3))
      inside == {m \in box : Inner(reciprocal, m, m) < cutoff}
  IN  [i \in Axes |-> Max({n \in 0 .. Most(i) : \E m \in inside : m[i] = n})]

\* dense_fft_grid
DenseFftGrid(cell, cutoff) ==
  LET factors == FftFactors(cell)
      reach == MillerReach(cell, cutoff)
  IN  [i \in Axes |-> GoodFftOrder(2 * reach[i] + 1, factors[i])]

\* ph_fft_grid: pw.x's own grid, or the smallest above it that ph.x accepts.
PhFftGrid(cell, cutoff) ==
  LET own == DenseFftGrid(cell, cutoff)
      factors == FftFactors(cell)
      top == GoodFftOrder(Max({own[1], own[2], own[3]}), Lcm(factors[1], Lcm(factors[2], factors[3])))
      Lengths(i) == {n \in own[i] .. top : n % factors[i] = 0 /\ FiveSmooth(n)}
      fit == {g \in Lengths(1) \X Lengths(2) \X Lengths(3) : KeepsGrid(PwRotations(cell), g)}
  IN  IF KeepsGrid(PwRotations(cell), own) THEN own
      ELSE CHOOSE g \in fit : \A h \in fit : Product(g) <= Product(h)

\* fragile_axis_pairs: mixed axes no rotation exchanges, or of unequal factors.
FragileAxes(cell) ==
  LET rotations == PwRotations(cell)
      factors == FftFactors(cell)
      Exchanged(i, j) ==
        \E r \in rotations : r[j][i] # 0 /\ \A l \in Axes \ {j} : r[l][i] = 0
  IN  {p \in MixingPairs(rotations) :
         (~Exchanged(p[1], p[2]) /\ ~Exchanged(p[2], p[1])) \/ factors[p[1]] # factors[p[2]]}

\* fft_grid: what is written for the first step of a phonon task.
FftGrid(cell, cutoff, firstStep) ==
  LET own == DenseFftGrid(cell, cutoff)
  IN  [ own |-> own,
        written |-> IF KeepsGrid(PwRotations(cell), own) \/ firstStep = "vc-relax"
                    THEN <<>> ELSE PhFftGrid(cell, cutoff),
        fragile |-> FragileAxes(cell) # {} ]
===============================================================================
