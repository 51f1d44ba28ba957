------------------------------ MODULE MCKPoints ------------------------------
(***************************************************************************)
(* Cells and layers for KPoints.  Cells: cubic, diamond, hexagonal,        *)
(* centred, orthorhombic and leaning lattices, one with a long axis, slabs,*)
(* moments along an axis, and a frame that hides symmetry.  Layers:        *)
(* hexagonal, square, rectangular, centred and oblique ones, each in several*)
(* bases, with all of their point group, its proper part or one mirror of it.*)
(***************************************************************************)
EXTENDS KPoints

Site(at, kind, spin) == [at |-> at, kind |-> kind, spin |-> spin]
Diagonal(a, b, c) == <<<<a, 0, 0>>, <<0, b, 0>>, <<0, 0, c>>>>

Cubic ==
  [ gram |-> Diagonal(4, 4, 4), scale |-> 7500, straight |-> TRUE, vacuum |-> {},
    axis |-> NoShift, sites |-> <<Site(<<0, 0, 0>>, "A", 0)>>, predictedK |-> None ]

Diamond ==
  [Cubic EXCEPT !.gram = <<<<2, 1, 1>>, <<1, 2, 1>>, <<1, 1, 2>>>>, !.scale = 75000,
                !.sites = <<Site(<<0, 0, 0>>, "A", 0), Site(<<3, 3, 3>>, "A", 0)>>]

Hexagonal ==
  [Cubic EXCEPT !.gram = <<<<2, -1, 0>>, <<-1, 2, 0>>, <<0, 0, 5>>>>, !.scale = 15000,
                !.sites = <<Site(<<4, 8, 0>>, "A", 0), Site(<<8, 4, 6>>, "A", 0)>>]

\* A body-centred tetragonal cell in its reduced basis: axes of unequal length
\* that the group mixes.
BodyCentred ==
  [Cubic EXCEPT !.gram = <<<<4, 0, 2>>, <<0, 4, 2>>, <<2, 2, 7>>>>, !.scale = 10000]

Slab == [Hexagonal EXCEPT !.vacuum = {3}, !.gram[3][3] = 30, !.scale = 2500]

\* A slab whose vacuum vector is not perpendicular to it.
LeaningSlab ==
  [Cubic EXCEPT !.gram = <<<<4, 0, 2>>, <<0, 4, 0>>, <<2, 0, 26>>>>, !.vacuum = {3}, !.scale = 2500]

Wire == [Cubic EXCEPT !.gram = Diagonal(8, 8, 4), !.vacuum = {1, 2}, !.scale = 2500]

Molecule == [Cubic EXCEPT !.vacuum = Axes]

Magnet ==
  [Cubic EXCEPT !.axis = <<0, 0, 1>>,
                !.sites = <<Site(<<0, 0, 0>>, "A", 1), Site(<<6, 6, 6>>, "B", -1)>>]

Hidden == [BodyCentred EXCEPT !.straight = FALSE]

\* A cell with axes whose steps nearly meet, and one with an axis beyond the
\* ladder's floor.
Orthorhombic == [Cubic EXCEPT !.gram = Diagonal(16, 63, 30), !.scale = 200]

LongAxis == [Cubic EXCEPT !.gram = Diagonal(1, 1, 64), !.scale = 2500]

Modelled == [Diamond EXCEPT !.predictedK = 20 * Hundredth]

MCCells ==
  {Cubic, Diamond, Hexagonal, BodyCentred, Slab, LeaningSlab, Wire, Molecule, Magnet, Hidden,
   Orthorhombic, LongAxis, Modelled}

Default ==
  [ k |-> NoRequest, q |-> [q_grid |-> None, q_distance |-> None],
    metal |-> Resolved("non_metal", "heuristic"), kind |-> "fixed" ]

KRequests ==
  { [NoRequest EXCEPT !.k_grid = <<3, 3, 2>>], [NoRequest EXCEPT !.k_index = 2],
    [NoRequest EXCEPT !.k_index = 9], [NoRequest EXCEPT !.k_distance = 25 * Hundredth] }

QRequests ==
  { Default.q, [Default.q EXCEPT !.q_distance = 17 * Hundredth], [Default.q EXCEPT !.q_grid = <<2, 2, 1>>],
    [Default.q EXCEPT !.q_grid = <<2, 2, 2>>], [Default.q EXCEPT !.q_grid = <<1, 1, 3>>] }

Metals == {Default.metal, Unavailable("is_metal"), Blocked("is_metal")}

\* Every q-request against the default k-meshes, and every k-request alone.
MCRequests ==
  {[Default EXCEPT !.q = q, !.metal = m, !.kind = kind] :
     q \in QRequests, m \in Metals, kind \in {"fixed", "smearing"}}
  \cup {[Default EXCEPT !.k = k] : k \in KRequests}

-----------------------------------------------------------------------------

Entries == -1 .. 1
Matrices == {<<<<a, b>>, <<c, d>>>> : a, b, c, d \in Entries}

\* A basis that is far from reduced, and its neighbours.
Bases == {<<<<1, 0>>, <<0, 1>>>>, <<<<0, 1>>, <<1, 0>>>>, <<<<1, 0>>, <<1, 1>>>>, <<<<1, 1>>, <<0, 1>>>>,
          <<<<2, 1>>, <<1, 1>>>>, <<<<3, 1>>, <<2, 1>>>>, <<<<3, -2>>, <<-1, 1>>>>, <<<<-1, 0>>, <<2, 1>>>>}

Entry(m, n, i, j) == m[i][1] * n[1][j] + m[i][2] * n[2][j]

Multiplied(m, n) == << <<Entry(m, n, 1, 1), Entry(m, n, 1, 2)>>, <<Entry(m, n, 2, 1), Entry(m, n, 2, 2)>> >>

Flipped(m) == << <<m[1][1], m[2][1]>>, <<m[1][2], m[2][2]>> >>

Inverse2(m) ==
  LET d == Det(m)
  IN  <<<<d * m[2][2], -d * m[1][2]>>, <<-d * m[2][1], d * m[1][1]>>>>

Grams == {<<<<2, -1>>, <<-1, 2>>>>, <<<<1, 0>>, <<0, 1>>>>, <<<<2, 0>>, <<0, 5>>>>,
          <<<<5, 3>>, <<3, 5>>>>, <<<<3, -1>>, <<-1, 4>>>>, <<<<2, 1>>, <<1, 5>>>>}

Group(gram) == {m \in Matrices : Abs(Det(m)) = 1 /\ Multiplied(Flipped(m), Multiplied(gram, m)) = gram}

Turns(group) == {m \in group : Det(m) = 1}

Rebased(gram, group, basis) ==
  [ gram |-> Multiplied(basis, Multiplied(gram, Flipped(basis))),
    blocks |-> {Multiplied(Inverse2(Flipped(basis)), Multiplied(m, Flipped(basis))) : m \in group} ]

\* The groups a layer on such a lattice may have: all of its group, the turns
\* alone, or the identity with one mirror.
Groups(gram) ==
  {Group(gram), Turns(Group(gram))}
    \cup {{Own, m} : m \in {b \in Group(gram) : Det(b) = -1}}

MCLayers == UNION {{Rebased(g, group, b) : group \in Groups(g)} : g \in Grams, b \in Bases}

\* Two labels of one point, and two more.
MCBulkVertices == {<<"G", "G">>, <<"X", "X">>, <<"X_1", "X">>, <<"Y", "Y">>}
=============================================================================
