--------------------------------- MODULE KPath ---------------------------------
(***************************************************************************)
(* The high-symmetry path of a bands or dispersion step,                   *)
(* src/src/goldilocks_core/advisors/k_path.py: the standard cell of a      *)
(* layer, found by reducing its lattice, and the branches made of the      *)
(* sub-paths of a table, one vertex at a time.                             *)
(*                                                                         *)
(* A vertex is a label and the point it stands for: two labels may stand   *)
(* for one.  The table of a bulk cell is pymatgen's.                       *)
(***************************************************************************)
EXTENDS Integers, Sequences, SequencesExt, FiniteSets, Rounding

CONSTANTS
  Layers,        \* the in-plane lattices of layers: [gram, blocks]
  BulkVertices,  \* vertices of a bulk table
  MaxVertices    \* vertices in the sub-paths of a bulk table

ASSUME MaxVerticesAssumption == MaxVertices \in Nat

\* A layer has two independent lattice vectors, and its blocks, whose columns
\* are the images of those, keep their products and form a group.
ASSUME LayersAssumption ==
  \A l \in Layers :
    LET Pairing(v, w) ==
          v[1] * (l.gram[1][1] * w[1] + l.gram[1][2] * w[2])
            + v[2] * (l.gram[2][1] * w[1] + l.gram[2][2] * w[2])
        Column(b, j) == <<b[1][j], b[2][j]>>
    IN  /\ l.gram[1][1] \in Nat \ {0} /\ l.gram[2][2] \in Nat /\ l.gram[1][2] \in Int
        /\ l.gram[2][1] = l.gram[1][2]
        /\ l.gram[1][1] * l.gram[2][2] - l.gram[1][2] * l.gram[2][1] > 0
        /\ \A b \in l.blocks :
             /\ b \in (Int \X Int) \X (Int \X Int)
             /\ \A i, j \in 1 .. 2 : Pairing(Column(b, i), Column(b, j)) = l.gram[i][j]
             /\ \A c \in l.blocks :
                  << <<b[1][1] * c[1][1] + b[1][2] * c[2][1], b[1][1] * c[1][2] + b[1][2] * c[2][2]>>,
                     <<b[2][1] * c[1][1] + b[2][2] * c[2][1], b[2][1] * c[1][2] + b[2][2] * c[2][2]>> >>
                    \in l.blocks

VARIABLES
  vacuum,    \* the number of vacuum axes of the cell
  layer,     \* its in-plane lattice
  pc,        \* where k_path stands
  rows,      \* the integer rows of the basis in the layer's own
  left,      \* the vertices of a layer's or wire's table not yet merged
  fed,       \* the vertices of the table merged so far: [at, opens]
  branches   \* the branches made of them

pathVars == <<vacuum, layer, pc, rows, left, fed, branches>>

Own == <<<<1, 0>>, <<0, 1>>>>

PathInit ==
  /\ vacuum \in 0 .. 3
  /\ layer \in IF vacuum = 1 THEN Layers ELSE {[gram |-> Own, blocks |-> {Own}]}
  /\ pc = "start" /\ rows = Own
  /\ left = <<>> /\ fed = <<>> /\ branches = <<>>

-----------------------------------------------------------------------------
(* The lattice of a layer.                                                 *)

\* v . G w
Dot(v, w) ==
  v[1] * (layer.gram[1][1] * w[1] + layer.gram[1][2] * w[2])
    + v[2] * (layer.gram[2][1] * w[1] + layer.gram[2][2] * w[2])

Plus(v, w) == <<v[1] + w[1], v[2] + w[2]>>
Times(n, v) == <<n * v[1], n * v[2]>>
Abs(n) == IF n < 0 THEN -n ELSE n
Det(m) == m[1][1] * m[2][2] - m[1][2] * m[2][1]

Trace(m) == m[1][1] + m[2][2]

\* _bravais_2d
Bravais ==
  LET kinds == {<<Det(b), Trace(b)>> : b \in layer.blocks}
  IN  IF kinds \cap {<<1, 1>>, <<1, -1>>} # {} THEN "hexagonal"
      ELSE IF <<1, 0>> \in kinds THEN "square"
      ELSE IF \E k \in kinds : k[1] = -1 THEN "rectangular" ELSE "oblique"

\* _line_vector: the shortest lattice vector a reflection maps to sign times it.
LineVector(reflection, sign) ==
  LET Image(unit) == Plus(unit, Times(sign, <<reflection[1][1] * unit[1] + reflection[1][2] * unit[2],
                                              reflection[2][1] * unit[1] + reflection[2][2] * unit[2]>>))
      vector == IF Image(<<1, 0>>) # <<0, 0>> THEN Image(<<1, 0>>) ELSE Image(<<0, 1>>)
      Divides(d) == vector[1] % d = 0 /\ vector[2] % d = 0
      gcd == CHOOSE d \in 1 .. Abs(vector[1]) + Abs(vector[2]) :
               Divides(d) /\ \A e \in d + 1 .. Abs(vector[1]) + Abs(vector[2]) : ~Divides(e)
  IN  <<vector[1] \div gcd, vector[2] \div gcd>>

\* _rectangular: the vectors along and across the mirror, the shorter first, or
\* half their sum and difference if they span only every other lattice vector.
Along == rows[1]
Across == rows[2]
Primitive == Abs(Det(rows)) = 1
Short == IF Dot(Across, Across) < Dot(Along, Along) THEN Across ELSE Along
Long == IF Short = Along THEN Across ELSE Along
Half(v) == <<v[1] \div 2, v[2] \div 2>>

Rectangular ==
  IF Primitive THEN <<Short, Long>> ELSE <<Half(Plus(Long, Short)), Half(Plus(Long, Times(-1, Short)))>>

\* _ASE_PATHS
AsePath ==
  [ HEX2D |-> <<"Gamma", "M", "K", "Gamma">>, SQR |-> <<"M", "Gamma", "X", "M">>,
    RECT |-> <<"Gamma", "X", "S", "Y", "Gamma", "S">>,
    CRECT |-> <<"Gamma", "X", "A_1", "Y", "Gamma">>,
    OBL |-> <<"Gamma", "Y", "H", "C", "H_1", "X", "Gamma">> ]

\* _ase_points, those at multiples of a twelfth, of the standard cell.
AsePoint ==
  [ HEX2D |-> [Gamma |-> <<0, 0>>, M |-> <<6, 0>>, K |-> <<4, 4>>],
    SQR |-> [Gamma |-> <<0, 0>>, X |-> <<0, 6>>, M |-> <<6, 6>>],
    RECT |-> [Gamma |-> <<0, 0>>, X |-> <<6, 0>>, S |-> <<6, 6>>, Y |-> <<0, 6>>],
    CRECT |-> [Gamma |-> <<0, 0>>, Y |-> <<6, 6>>],
    OBL |-> [Gamma |-> <<0, 0>>, Y |-> <<0, 6>>, C |-> <<6, 6>>, X |-> <<6, 0>>] ]

\* On a right angle H, C and H_1 of the oblique path are one point, and A_1 and Y
\* of the centred one.
Vertices(name, basis) ==
  LET isRight == Dot(basis[1], basis[2]) = 0
      Point(label) == CASE name = "OBL" /\ isRight /\ label \in {"H", "H_1"} -> "C"
                        [] name = "CRECT" /\ isRight /\ label = "A_1" -> "Y"
                        [] OTHER -> label
  IN  [i \in DOMAIN AsePath[name] |-> <<AsePath[name][i], Point(AsePath[name][i])>>]

Merge(vertices) ==
  pc' = "merge" /\ left' = vertices

\* A cell that is not resolved, or a molecule, has no path; pymatgen may give
\* none for a bulk cell, or none that corresponds to it.
Start ==
  /\ pc = "start"
  /\ \/ pc' = "blocked" /\ UNCHANGED <<rows, left>>
     \/ vacuum = 0 /\ pc' = "failed" /\ UNCHANGED <<rows, left>>
     \/ vacuum = 2 /\ Merge(<< <<"Gamma", "Gamma">>, <<"Z", "Z">> >>) /\ UNCHANGED rows
     \/ vacuum = 0 /\ Merge(<<>>) /\ UNCHANGED rows
     \/ /\ vacuum = 1 /\ Bravais = "rectangular"
        /\ \E b \in layer.blocks :
             /\ Det(b) = -1
             /\ rows' = <<LineVector(b, 1), LineVector(b, -1)>>
        /\ pc' = "mirror" /\ UNCHANGED left
     \/ vacuum = 1 /\ Bravais # "rectangular" /\ pc' = "reduce" /\ UNCHANGED <<rows, left>>
  /\ UNCHANGED <<vacuum, layer, fed, branches>>

\* A mirror's rectangular basis, found.
Mirror ==
  /\ pc = "mirror"
  /\ rows' = Rectangular
  /\ Merge(Vertices(IF Primitive THEN "RECT" ELSE "CRECT", Rectangular))
  /\ UNCHANGED <<vacuum, layer, fed, branches>>

\* Mutant of Shorter: equal lengths are swapped.
ShorterOrEqual == Dot(rows[2], rows[2]) <= Dot(rows[1], rows[1])

\* _reduced: the second vector is the shorter.
Shorter == Dot(rows[2], rows[2]) < Dot(rows[1], rows[1])

\* The projection of the second on the first is at most half the first.
ProjectsShort == 2 * Abs(Dot(rows[1], rows[2])) <= Dot(rows[1], rows[1])

Reducing == pc = "reduce" /\ UNCHANGED <<vacuum, layer, fed, branches>>

Swap ==
  /\ Reducing /\ Shorter
  /\ rows' = <<rows[2], rows[1]>>
  /\ UNCHANGED <<pc, left>>

Subtract ==
  /\ Reducing /\ ~Shorter /\ ~ProjectsShort
  /\ rows' = [rows EXCEPT ![2] =
       Plus(@, Times(-Rounded(Dot(rows[1], rows[2]), Dot(rows[1], rows[1])), rows[1]))]
  /\ UNCHANGED <<pc, left>>

\* Mutant of Standard: the reduced basis as it is.
StandardAsReduced(system) == rows

\* _standard_2d: the pair at 120 degrees, and at most 90 degrees if oblique.
Standard(system) ==
  CASE system = "hexagonal" /\ Dot(rows[1], rows[2]) > 0 ->
         <<rows[1], Plus(rows[2], Times(-1, rows[1]))>>
    [] system = "oblique" /\ Dot(rows[1], rows[2]) < 0 -> <<rows[1], Times(-1, rows[2])>>
    [] OTHER -> rows

NameOf(system) == [hexagonal |-> "HEX2D", square |-> "SQR", oblique |-> "OBL"][system]

Reduced ==
  /\ Reducing /\ ~Shorter /\ ProjectsShort
  /\ rows' = Standard(Bravais)
  /\ Merge(Vertices(NameOf(Bravais), Standard(Bravais)))

-----------------------------------------------------------------------------
(* The branches.                                                           *)

Same(v, w) == v[2] = w[2]

Tip == branches[Len(branches)]

\* Mutant of Opened: a branch of two vertices is dropped too.
OpenedDroppingPairs(v) ==
  LET kept == IF branches # <<>> /\ Len(Tip) <= 2 THEN Front(branches) ELSE branches
  IN  IF kept # <<>> /\ Same(Last(kept[Len(kept)]), v) THEN kept ELSE Append(kept, <<v>>)

\* _open: a branch of one vertex is dropped, and one that ends here goes on.
Opened(v) ==
  LET kept == IF branches # <<>> /\ Len(Tip) < 2 THEN Front(branches) ELSE branches
  IN  IF kept # <<>> /\ Same(Last(kept[Len(kept)]), v) THEN kept ELSE Append(kept, <<v>>)

\* Mutant of Merged: a new branch whenever the last is not one vertex long.
MergedForgetting(v, opens) ==
  IF branches # <<>> /\ Same(Last(Tip), v) THEN branches
  ELSE IF ~opens THEN [branches EXCEPT ![Len(branches)] = Append(@, v)]
  ELSE Append(branches, <<v>>)

\* _merged: one vertex of a sub-path.
Merged(v, opens) ==
  LET turning == branches # <<>> /\ Len(Tip) > 1 /\ Same(Tip[Len(Tip) - 1], v)
  IN  IF branches # <<>> /\ Same(Last(Tip), v) THEN branches
      ELSE IF ~opens /\ ~turning THEN [branches EXCEPT ![Len(branches)] = Append(@, v)]
      ELSE Opened(v)

Take(v, opens) ==
  /\ pc = "merge"
  /\ branches' = Merged(v, opens)
  /\ fed' = Append(fed, [at |-> v, opens |-> opens])
  /\ UNCHANGED <<vacuum, layer, pc, rows>>

TakeOwn ==
  /\ left # <<>>
  /\ Take(Head(left), fed = <<>>)
  /\ left' = Tail(left)

\* A bulk table has several sub-paths.
TakeBulk ==
  /\ vacuum = 0 /\ Len(fed) < MaxVertices
  /\ \E v \in BulkVertices, opens \in BOOLEAN :
       (fed = <<>> => opens) /\ Take(v, opens)
  /\ UNCHANGED left

\* A branch left with one vertex is dropped.
WithSegments(paths) ==
  LET kept == {i \in DOMAIN paths : Len(paths[i]) > 1}
  IN  [n \in 1 .. Cardinality(kept) |->
         paths[CHOOSE i \in kept : Cardinality({j \in kept : j <= i}) = n]]

Finish ==
  /\ pc = "merge" /\ left = <<>>
  /\ branches' = WithSegments(branches)
  /\ pc' = "done"
  /\ UNCHANGED <<vacuum, layer, rows, left, fed>>

PathEnded == pc \in {"blocked", "failed", "done"} /\ UNCHANGED pathVars

\* A loop goes on until it returns; a table is read to its end.
MakePath == Start \/ Mirror \/ Swap \/ Subtract \/ Reduced \/ TakeOwn \/ TakeBulk \/ Finish

PathNext == MakePath \/ PathEnded

-----------------------------------------------------------------------------

Edges(path) == {{path[i][2], path[i + 1][2]} : i \in 1 .. Len(path) - 1}

\* The segments of the table: between neighbours of one sub-path.
Walked ==
  {{fed[i].at[2], fed[i + 1].at[2]} : i \in {j \in 1 .. Len(fed) - 1 : ~fed[j + 1].opens}}

\* The branches cover the segments of the table and no others.
CoversTheTable ==
  pc = "done" =>
    UNION {Edges(branches[i]) : i \in DOMAIN branches} = {e \in Walked : Cardinality(e) = 2}

\* No two consecutive points coincide, in a branch or across two, and no branch
\* turns back: bands.x would drop its plot file.
NeverRepeats ==
  pc = "done" =>
    /\ \A i \in DOMAIN branches : LET b == branches[i] IN
         /\ \A j \in 1 .. Len(b) - 1 : ~Same(b[j], b[j + 1])
         /\ \A j \in 1 .. Len(b) - 2 : ~Same(b[j], b[j + 2])
    /\ \A i \in 1 .. Len(branches) - 1 : ~Same(Last(branches[i]), Head(branches[i + 1]))

\* The name of the layer's lattice, by the labels on its path.
LayerName == CHOOSE name \in DOMAIN AsePath : AsePath[name] = [i \in DOMAIN fed |-> fed[i].at[1]]

\* The point of a label in the layer's own basis: the rows' inverse, times it.
InOwnBasis(point) ==
  LET d == Det(rows)
  IN  << d * (rows[2][2] * point[1] - rows[1][2] * point[2]),
         d * (rows[1][1] * point[2] - rows[2][1] * point[1]) >>

\* The symmetry operations of a layer that fix a point, up to whole vectors.
Fixing(point) ==
  LET k == InOwnBasis(point)
  IN  {b \in layer.blocks :
         /\ (k[1] * b[1][1] + k[2] * b[2][1] - k[1]) % 12 = 0
         /\ (k[1] * b[1][2] + k[2] * b[2][2] - k[2]) % 12 = 0}

\* K keeps the threefold rotations of a hexagon, M of a square, and the labels of a
\* rectangular layer all its operations; the others at least what maps k to -k.
Special(name, label) ==
  LET fixing == Fixing(AsePoint[name][label])
      turns == {b \in layer.blocks : Det(b) = 1}
  IN  CASE label = "Gamma" -> layer.blocks = fixing
        [] label = "K" -> {b \in turns : Trace(b) = -1} \subseteq fixing
        [] label # "Gamma" /\ name \in {"RECT", "CRECT"} -> fixing = layer.blocks
        [] label = "M" /\ name = "SQR" -> fixing = layer.blocks
        [] OTHER -> {b \in turns : Trace(b) = -2} \subseteq fixing

\* Whatever basis a layer is given in, its standard basis spans its lattice and
\* the labels of its path stand at points of special symmetry.
LabelsAreSpecial ==
  pc = "done" /\ vacuum = 1 =>
    /\ Abs(Det(rows)) = 1
    /\ \A label \in DOMAIN AsePoint[LayerName] : Special(LayerName, label)

\* The reduction ends, and a path is made of every cell that has one.
PathIsMade == pc = "start" ~> pc \in {"blocked", "failed", "done"}
================================================================================
