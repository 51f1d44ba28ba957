---------------------------- MODULE KPointsProofs ----------------------------
(***************************************************************************)
(* Proofs about what a step is sampled on.  For every table of vertices,   *)
(* of any length, the branches of a path are the segments of the table and *)
(* never repeat a point.  For every cell and every request, the meshes and *)
(* the FFT grid that are advised are ones pw.x's rotations keep, a phonon  *)
(* run's default k-mesh fits its q-mesh, and the rungs of a ladder cut the *)
(* k-distances into intervals of one mesh each.  For every layer, in any   *)
(* basis, the labels of its path stand at points of special symmetry.      *)
(***************************************************************************)
EXTENDS KPoints, SequenceTheorems, FunctionTheorems, FiniteSetTheorems, WellFoundedInduction, TLAPS

-----------------------------------------------------------------------------
(* PATHS.                                                                  *)

LayerLabels ==
  {"Gamma", "M", "K", "X", "S", "Y", "A_1", "H", "C", "H_1", "Z"}

\* The vertices of any table.
V == BulkVertices \cup (LayerLabels \X LayerLabels)

Fed == [at : V, opens : BOOLEAN]

-----------------------------------------------------------------------------
(* Branches.                                                               *)

\* No two neighbours of a branch coincide, nor two at a distance of two.
GoesOn(b) ==
  /\ \A j \in 1 .. Len(b) - 1 : ~Same(b[j], b[j + 1])
  /\ \A j \in 1 .. Len(b) - 2 : ~Same(b[j], b[j + 2])

Apart(paths) == \A i \in 1 .. Len(paths) - 1 : ~Same(Last(paths[i]), Head(paths[i + 1]))

\* Branches without repetitions, of which only the last may have one vertex.
WellFormed(paths) ==
  /\ paths \in Seq(Seq(V))
  /\ \A i \in 1 .. Len(paths) : Len(paths[i]) >= 1 /\ GoesOn(paths[i])
  /\ \A i \in 1 .. Len(paths) - 1 : Len(paths[i]) >= 2
  /\ Apart(paths)

Segments(paths) == UNION {Edges(paths[i]) : i \in DOMAIN paths}

LEMMA BranchTypes ==
  ASSUME NEW paths \in Seq(Seq(V))
  PROVE  /\ Len(paths) \in Nat /\ DOMAIN paths = 1 .. Len(paths)
         /\ \A i \in 1 .. Len(paths) :
              /\ paths[i] \in Seq(V) /\ Len(paths[i]) \in Nat
              /\ DOMAIN paths[i] = 1 .. Len(paths[i])
BY LenProperties, ElementOfSeq

LEMMA SegmentsAre ==
  ASSUME NEW paths \in Seq(Seq(V)), NEW n, n = Len(paths), NEW e
  PROVE  e \in Segments(paths) <=> \E i \in 1 .. n : e \in Edges(paths[i])
BY BranchTypes, Zenon DEF Segments

\* One element more at the end of an interval.
LEMMA OneMore ==
  ASSUME NEW n \in Nat, NEW i
  PROVE  i \in 1 .. n + 1 <=> i \in 1 .. n \/ i = n + 1
OBVIOUS

LEMMA NotAlone ==
  ASSUME NEW n \in Nat, n > 0
  PROVE  /\ n - 1 \in Nat /\ n - 1 + 1 = n
         /\ \A i : i \in 1 .. n <=> i \in 1 .. n - 1 \/ i = n
OBVIOUS

\* The parts of WellFormed, one by one.
LEMMA WellFormedParts ==
  ASSUME NEW paths, WellFormed(paths)
  PROVE  /\ paths \in Seq(Seq(V)) /\ Len(paths) \in Nat
         /\ paths # <<>> <=> Len(paths) > 0
         /\ \A i \in 1 .. Len(paths) :
              /\ paths[i] \in Seq(V) /\ Len(paths[i]) \in Nat /\ Len(paths[i]) >= 1
              /\ GoesOn(paths[i])
         /\ \A i \in 1 .. Len(paths) - 1 : Len(paths[i]) >= 2
         /\ \A i \in 1 .. Len(paths) - 1 : ~Same(Last(paths[i]), Head(paths[i + 1]))
<1>1. paths \in Seq(Seq(V))
  BY DEF WellFormed
<1>2. paths # <<>> <=> Len(paths) > 0
  BY <1>1, EmptySeq, LenProperties
<1> QED
  BY <1>1, <1>2, BranchTypes DEF WellFormed, Apart

\* A branch of one vertex is opened behind whole branches that end elsewhere.
LEMMA OpenedBehind ==
  ASSUME NEW paths, WellFormed(paths), NEW v \in V,
         paths # <<>> => Len(paths[Len(paths)]) >= 2 /\ ~Same(Last(paths[Len(paths)]), v)
  PROVE  /\ WellFormed(Append(paths, <<v>>)) /\ Len(Append(paths, <<v>>)) = Len(paths) + 1
         /\ Append(paths, <<v>>)[Len(paths) + 1] = <<v>>
         /\ Segments(Append(paths, <<v>>)) = Segments(paths)
<1> DEFINE n == Len(paths)
           more == Append(paths, <<v>>)
<1>1. /\ paths \in Seq(Seq(V)) /\ n \in Nat /\ (paths # <<>> <=> n > 0)
      /\ \A i \in 1 .. n : Len(paths[i]) \in Nat /\ Len(paths[i]) >= 1 /\ GoesOn(paths[i])
      /\ \A i \in 1 .. n - 1 : Len(paths[i]) >= 2
      /\ \A i \in 1 .. n - 1 : ~Same(Last(paths[i]), Head(paths[i + 1]))
  BY WellFormedParts
<1>2. /\ more \in Seq(Seq(V)) /\ Len(more) = n + 1 /\ more[n + 1] = <<v>>
      /\ \A i \in 1 .. n : more[i] = paths[i]
  BY <1>1, AppendProperties
<1>3. Len(<<v>>) = 1 /\ Head(<<v>>) = v /\ GoesOn(<<v>>)
  BY DEF GoesOn
<1>h. n > 0 => Len(paths[n]) >= 2 /\ ~Same(Last(paths[n]), v)
  BY <1>1
<1> HIDE DEF n, more
<1>4. \A i \in 1 .. n + 1 : Len(more[i]) >= 1 /\ GoesOn(more[i])
  <2>1. Len(<<v>>) >= 1
    BY <1>3
  <2> QED
    BY ONLY <1>1, <1>2, <1>3, <2>1, OneMore, Zenon
<1>5. \A i \in 1 .. n : Len(more[i]) >= 2
  <2>1. \A i \in 1 .. n : i \in 1 .. n - 1 \/ (i = n /\ n > 0)
    BY <1>1
  <2> QED
    BY ONLY <1>1, <1>2, <1>h, <2>1, Zenon
<1>6. \A i \in 1 .. n : ~Same(Last(more[i]), Head(more[i + 1]))
  <2> SUFFICES ASSUME NEW i \in 1 .. n PROVE ~Same(Last(more[i]), Head(more[i + 1]))
    OBVIOUS
  <2>1. CASE i < n
    <3>1. i \in 1 .. n - 1 /\ i + 1 \in 1 .. n
      BY ONLY <1>1, <2>1, i \in 1 .. n
    <3>2. more[i] = paths[i] /\ more[i + 1] = paths[i + 1]
      BY <1>2, <3>1
    <3> QED
      BY <1>1, <3>1, <3>2
  <2>2. CASE i = n
    BY <1>1, <1>2, <1>3, <1>h, <2>2
  <2> QED
    BY <1>1, <2>1, <2>2
<1>7. Segments(more) = Segments(paths)
  <2> SUFFICES ASSUME NEW e PROVE e \in Segments(more) <=> e \in Segments(paths)
    OBVIOUS
  <2>1. e \in Segments(more) <=> \E i \in 1 .. n + 1 : e \in Edges(more[i])
    BY <1>2, SegmentsAre
  <2>2. e \in Segments(paths) <=> \E i \in 1 .. n : e \in Edges(paths[i])
    BY <1>1, SegmentsAre DEF n
  <2>3. Edges(<<v>>) = {}
    BY <1>3 DEF Edges
  <2> QED
    BY ONLY <1>1, <1>2, <2>1, <2>2, <2>3, OneMore, Zenon
<1>8. n = Len(paths) /\ more = Append(paths, <<v>>)
  BY DEF n, more
<1>9. WellFormed(more)
  <2>1. Len(more) - 1 = n
    BY ONLY <1>1, <1>2
  <2> QED
    BY <1>2, <1>4, <1>5, <1>6, <2>1 DEF WellFormed, Apart
<1> QED
  BY ONLY <1>2, <1>7, <1>8, <1>9

\* Dropping the last branch, of one vertex, loses no segment.
LEMMA DroppedLast ==
  ASSUME NEW paths, WellFormed(paths), paths # <<>>
  PROVE  /\ WellFormed(Front(paths)) /\ Len(Front(paths)) = Len(paths) - 1
         /\ \A i \in 1 .. Len(paths) - 1 : Front(paths)[i] = paths[i] /\ Len(paths[i]) >= 2
         /\ Len(paths[Len(paths)]) < 2 => Segments(Front(paths)) = Segments(paths)
<1> DEFINE n == Len(paths)
           less == Front(paths)
<1>1. /\ paths \in Seq(Seq(V)) /\ n \in Nat /\ n > 0
      /\ \A i \in 1 .. n : Len(paths[i]) \in Nat /\ Len(paths[i]) >= 1 /\ GoesOn(paths[i])
      /\ \A i \in 1 .. n - 1 : Len(paths[i]) >= 2
      /\ \A i \in 1 .. n - 1 : ~Same(Last(paths[i]), Head(paths[i + 1]))
  BY WellFormedParts
<1>2. /\ less \in Seq(Seq(V)) /\ Len(less) = n - 1
      /\ \A i \in 1 .. n - 1 : less[i] = paths[i]
  <2>1. 1 \in 1 .. n + 1 /\ n - 1 \in 0 .. n /\ n - 1 \in Int /\ n - 1 - 1 + 1 = n - 1
    BY <1>1
  <2>2. /\ less \in Seq(Seq(V))
        /\ Len(less) = IF 1 <= n - 1 THEN n - 1 - 1 + 1 ELSE 0
        /\ \A i \in 1 .. n - 1 - 1 + 1 : less[i] = paths[1 + i - 1]
    BY <1>1, <2>1, SubSeqProperties DEF Front
  <2>3. \A i \in 1 .. n - 1 : 1 + i - 1 = i
    OBVIOUS
  <2>4. Len(less) = n - 1
    <3> HIDE DEF n, less
    <3> QED
      BY ONLY <1>1, <2>2
  <2> HIDE DEF n, less
  <2> QED
    BY <1>1, <2>2, <2>3, <2>4
<1>h. less = Front(paths) /\ n = Len(paths)
  OBVIOUS
<1> HIDE DEF n, less
<1>3. \A i \in 1 .. n - 1 : Len(less[i]) >= 2 /\ GoesOn(less[i])
  <2>1. \A i \in 1 .. n - 1 : i \in 1 .. n
    BY ONLY <1>1
  <2> QED
    BY ONLY <1>1, <1>2, <2>1, Zenon
<1>4. \A i \in 1 .. n - 2 : ~Same(Last(less[i]), Head(less[i + 1]))
  <2> SUFFICES ASSUME NEW i \in 1 .. n - 2 PROVE ~Same(Last(less[i]), Head(less[i + 1]))
    OBVIOUS
  <2>1. i \in 1 .. n - 1 /\ i + 1 \in 1 .. n - 1
    BY ONLY <1>1, i \in 1 .. n - 2
  <2> QED
    BY <1>1, <1>2, <2>1
<1>5. ASSUME Len(paths[n]) < 2 PROVE Segments(less) = Segments(paths)
  <2> SUFFICES ASSUME NEW e PROVE e \in Segments(less) <=> e \in Segments(paths)
    OBVIOUS
  <2>1. e \in Segments(less) <=> \E i \in 1 .. n - 1 : e \in Edges(less[i])
    BY <1>2, SegmentsAre
  <2>2. e \in Segments(paths) <=> \E i \in 1 .. n : e \in Edges(paths[i])
    BY <1>1, SegmentsAre DEF n
  <2>3. Edges(paths[n]) = {}
    <3>1. 1 .. Len(paths[n]) - 1 = {}
      <4>1. n \in 1 .. n
        BY ONLY <1>1
      <4>2. Len(paths[n]) \in Nat /\ Len(paths[n]) < 2
        BY <1>1, <1>5, <4>1
      <4> QED
        BY ONLY <4>2
    <3> QED
      BY ONLY <3>1 DEF Edges
  <2> QED
    BY ONLY <1>1, <1>2, <2>1, <2>2, <2>3, NotAlone, Zenon
<1>6. WellFormed(less)
  BY <1>1, <1>2, <1>3, <1>4 DEF WellFormed, Apart
<1> QED
  BY ONLY <1>1, <1>2, <1>5, <1>6, <1>h, Zenon

\* The last branch goes on.
Longer(paths, v) == [paths EXCEPT ![Len(paths)] = Append(@, v)]

\* The last branch goes on to a vertex that is neither its last nor the one
\* before: one segment more.
LEMMA Extended ==
  ASSUME NEW paths, WellFormed(paths), paths # <<>>, NEW v \in V,
         NEW tip, tip = paths[Len(paths)], ~Same(Last(tip), v),
         Len(tip) > 1 => ~Same(tip[Len(tip) - 1], v)
  PROVE  LET more == Longer(paths, v) IN
         /\ WellFormed(more) /\ Len(more) = Len(paths)
         /\ more[Len(more)] = Append(tip, v) /\ Last(more[Len(more)]) = v
         /\ Segments(more) = Segments(paths) \cup {{Last(tip)[2], v[2]}}
<1> DEFINE n == Len(paths)
           m == Len(tip)
           long == Append(tip, v)
           more == Longer(paths, v)
<1>1. /\ paths \in Seq(Seq(V)) /\ n \in Nat /\ n > 0 /\ n \in 1 .. n
      /\ \A i \in 1 .. n : Len(paths[i]) \in Nat /\ Len(paths[i]) >= 1 /\ GoesOn(paths[i])
      /\ \A i \in 1 .. n - 1 : Len(paths[i]) >= 2
      /\ \A i \in 1 .. n - 1 : ~Same(Last(paths[i]), Head(paths[i + 1]))
  BY WellFormedParts
<1>a. /\ DOMAIN paths = 1 .. n /\ tip = paths[n]
      /\ tip \in Seq(V) /\ m \in Nat /\ m >= 1 /\ GoesOn(tip)
  BY <1>1, WellFormedParts, BranchTypes
<1>2. /\ long \in Seq(V) /\ Len(long) = m + 1 /\ long[m + 1] = v
      /\ \A j \in 1 .. m : long[j] = tip[j]
  BY <1>a, AppendProperties
<1>3. /\ more \in Seq(Seq(V)) /\ Len(more) = n /\ more[n] = long
      /\ \A i \in 1 .. n - 1 : more[i] = paths[i]
  <2>1. more = [paths EXCEPT ![n] = long]
    BY <1>1, <1>a DEF Longer
  <2>2. more \in Seq(Seq(V)) /\ Len(more) = n
    BY <1>1, <1>2, <2>1, ExceptSeq
  <2>3. DOMAIN paths = 1 .. n /\ n \in 1 .. n /\ \A i \in 1 .. n - 1 : i \in 1 .. n /\ i # n
    <3>1. DOMAIN paths = 1 .. n /\ n \in 1 .. n
      BY <1>1, <1>a
    <3> HIDE DEF n
    <3> QED
      BY ONLY <1>1, <3>1
  <2> HIDE DEF n, more, long
  <2> QED
    BY <2>1, <2>2, <2>3
<1>4. /\ GoesOn(tip) /\ Last(tip) = tip[m] /\ ~Same(tip[m], v)
      /\ m > 1 => ~Same(tip[m - 1], v)
  BY <1>a DEF Last
<1>h. /\ n = Len(paths) /\ m = Len(tip) /\ more = Longer(paths, v)
      /\ long = Append(tip, v)
  OBVIOUS
<1> HIDE DEF n, m, long, more
<1>5. GoesOn(long)
  <2>1. ASSUME NEW j \in 1 .. m PROVE ~Same(long[j], long[j + 1])
    <3>1. CASE j < m
      <4>1. j \in 1 .. m - 1 /\ j + 1 \in 1 .. m
        BY ONLY <1>a, <3>1, j \in 1 .. m
      <4>2. long[j] = tip[j] /\ long[j + 1] = tip[j + 1]
        BY <1>2, <4>1
      <4> QED
        BY <1>4, <1>h, <4>1, <4>2 DEF GoesOn
    <3>2. CASE j = m
      BY <1>2, <1>4, <1>a, <3>2
    <3> QED
      BY <1>a, <3>1, <3>2
  <2>2. ASSUME NEW j \in 1 .. m - 1 PROVE ~Same(long[j], long[j + 2])
    <3>1. CASE j < m - 1
      <4>1. j \in 1 .. m - 2 /\ j \in 1 .. m /\ j + 2 \in 1 .. m
        BY ONLY <1>a, <3>1, j \in 1 .. m - 1
      <4>2. long[j] = tip[j] /\ long[j + 2] = tip[j + 2]
        BY <1>2, <4>1
      <4> QED
        BY <1>4, <1>h, <4>1, <4>2 DEF GoesOn
    <3>2. CASE j = m - 1
      <4>1. j \in 1 .. m /\ j + 2 = m + 1 /\ m > 1
        BY ONLY <1>a, <3>2, j \in 1 .. m - 1
      <4> QED
        BY <1>2, <1>4, <3>2, <4>1
    <3> QED
      BY <1>a, <3>1, <3>2
  <2>3. /\ \A j \in 1 .. Len(long) - 1 : ~Same(long[j], long[j + 1])
        /\ \A j \in 1 .. Len(long) - 2 : ~Same(long[j], long[j + 2])
    <3>1. Len(long) - 1 = m /\ Len(long) - 2 = m - 1
      BY ONLY <1>2, <1>a
    <3> QED
      BY <2>1, <2>2, <3>1
  <2> QED
    BY <2>3 DEF GoesOn
<1>6. \A i \in 1 .. n : Len(more[i]) >= 1 /\ GoesOn(more[i])
  <2> SUFFICES ASSUME NEW i \in 1 .. n PROVE Len(more[i]) >= 1 /\ GoesOn(more[i])
    OBVIOUS
  <2>1. CASE i = n
    BY <1>2, <1>3, <1>5, <1>a, <2>1
  <2>2. CASE i # n
    <3>1. i \in 1 .. n - 1
      BY ONLY <1>1, <2>2, i \in 1 .. n
    <3> QED
      BY <1>1, <1>3, <3>1
  <2> QED
    BY <2>1, <2>2
<1>7. \A i \in 1 .. n - 1 : Len(more[i]) >= 2
  BY ONLY <1>1, <1>3
<1>8. \A i \in 1 .. n - 1 : ~Same(Last(more[i]), Head(more[i + 1]))
  <2> SUFFICES ASSUME NEW i \in 1 .. n - 1 PROVE ~Same(Last(more[i]), Head(more[i + 1]))
    OBVIOUS
  <2>1. ~Same(Last(paths[i]), Head(paths[i + 1])) /\ more[i] = paths[i]
    BY <1>1, <1>3
  <2>2. CASE i + 1 < n
    <3>1. i + 1 \in 1 .. n - 1
      BY ONLY <1>1, <2>2, i \in 1 .. n - 1
    <3> QED
      BY <1>3, <2>1, <3>1
  <2>3. CASE i + 1 = n
    <3>1. Head(long) = long[1] /\ Head(tip) = tip[1] /\ long[1] = tip[1]
      BY <1>2, <1>a
    <3> QED
      BY <1>3, <1>a, <2>1, <2>3, <3>1
  <2> QED
    BY <1>1, <2>2, <2>3
<1>9. Segments(more) = Segments(paths) \cup {{Last(tip)[2], v[2]}}
  <2> DEFINE new == {Last(tip)[2], v[2]}
  <2> SUFFICES ASSUME NEW e PROVE e \in Segments(more) <=> e \in Segments(paths) \/ e = new
    OBVIOUS
  <2>1. e \in Segments(more) <=> \E i \in 1 .. n : e \in Edges(more[i])
    BY <1>3, SegmentsAre
  <2>2. e \in Segments(paths) <=> \E i \in 1 .. n : e \in Edges(paths[i])
    BY <1>1, SegmentsAre DEF n
  <2>3. e \in Edges(long) <=> e \in Edges(tip) \/ e = new
    <3>1. e \in Edges(long) <=> \E j \in 1 .. m : e = {long[j][2], long[j + 1][2]}
      <4>1. Len(long) - 1 = m
        BY ONLY <1>2, <1>a
      <4> QED
        BY <4>1 DEF Edges
    <3>2. e \in Edges(tip) <=> \E j \in 1 .. m - 1 : e = {tip[j][2], tip[j + 1][2]}
      BY <1>h DEF Edges
    <3>3. \A j \in 1 .. m - 1 : long[j] = tip[j] /\ long[j + 1] = tip[j + 1]
      <4>1. \A j \in 1 .. m - 1 : j \in 1 .. m /\ j + 1 \in 1 .. m
        BY ONLY <1>a
      <4> QED
        BY <1>2, <4>1
    <3>4. long[m] = Last(tip) /\ long[m + 1] = v
      BY <1>2, <1>4, <1>a
    <3>5. \A j : j \in 1 .. m <=> j \in 1 .. m - 1 \/ j = m
      BY ONLY <1>a
    <3> QED
      BY ONLY <3>1, <3>2, <3>3, <3>4, <3>5 DEF new
  <2>4. \A i : i \in 1 .. n <=> i \in 1 .. n - 1 \/ i = n
    BY ONLY <1>1
  <2> HIDE DEF new
  <2> QED
    BY ONLY <1>a, <1>3, <2>1, <2>2, <2>3, <2>4, Zenon
<1>10. WellFormed(more)
  BY <1>3, <1>6, <1>7, <1>8 DEF WellFormed, Apart
<1>11. Last(more[n]) = v
  BY <1>2, <1>3 DEF Last
<1> QED
  BY ONLY <1>3, <1>9, <1>10, <1>11, <1>h, Zenon

\* A pair has two elements if they differ.
LEMMA PairSize ==
  ASSUME NEW x, NEW y
  PROVE  Cardinality({x, y}) = 2 <=> x # y
<1>1. IsFiniteSet({x}) /\ Cardinality({x}) = 1
  BY FS_Singleton
<1>2. CASE x = y
  <2>1. {x, y} = {x}
    BY <1>2
  <2> QED
    BY <1>1, <1>2, <2>1
<1>3. CASE x # y
  <2>1. {x, y} = {x} \cup {y} /\ y \notin {x}
    BY <1>3
  <2>2. Cardinality({x} \cup {y}) = Cardinality({x}) + 1
    BY <1>1, <2>1, FS_AddElement
  <2> QED
    BY <1>1, <1>3, <2>1, <2>2
<1> QED
  BY <1>2, <1>3

\* Of branches of which the first n have segments and the others none, the
\* first n are left.
LEMMA FirstAreKept ==
  ASSUME NEW paths \in Seq(Seq(V)), NEW n \in Nat, n <= Len(paths),
         \A i \in 1 .. Len(paths) : Len(paths[i]) > 1 <=> i <= n
  PROVE  WithSegments(paths) = [i \in 1 .. n |-> paths[i]]
<1> DEFINE kept == {i \in DOMAIN paths : Len(paths[i]) > 1}
           Nth(k) == CHOOSE i \in kept : Cardinality({j \in kept : j <= i}) = k
<1>1. kept = 1 .. n
  BY BranchTypes
<1>2. Cardinality(kept) = n
  <2>1. Cardinality(1 .. n) = n
    BY FS_Interval
  <2> QED
    BY <1>1, <2>1
<1>3. \A i \in 1 .. n : Cardinality({j \in kept : j <= i}) = i
  <2> SUFFICES ASSUME NEW i \in 1 .. n PROVE Cardinality({j \in kept : j <= i}) = i
    OBVIOUS
  <2>1. {j \in kept : j <= i} = 1 .. i
    BY <1>1
  <2>2. Cardinality(1 .. i) = i
    BY FS_Interval
  <2> QED
    BY <2>1, <2>2
<1>4. \A k \in 1 .. n : Nth(k) = k
  <2> SUFFICES ASSUME NEW k \in 1 .. n PROVE Nth(k) = k
    OBVIOUS
  <2>1. k \in kept /\ Cardinality({j \in kept : j <= k}) = k
    BY <1>1, <1>3
  <2>2. \A i \in kept : Cardinality({j \in kept : j <= i}) = k => i = k
    BY <1>1, <1>3
  <2> HIDE DEF kept
  <2> QED
    BY <2>1, <2>2
<1>5. WithSegments(paths) = [k \in 1 .. Cardinality(kept) |-> paths[Nth(k)]]
  BY DEF WithSegments
<1> HIDE DEF kept, Nth
<1> QED
  BY <1>2, <1>4, <1>5

\* What is left of the branches in the end.
LEMMA Finished ==
  ASSUME NEW paths, WellFormed(paths)
  PROVE  /\ WellFormed(WithSegments(paths)) /\ Segments(WithSegments(paths)) = Segments(paths)
<1> DEFINE n == Len(paths)
<1>1. /\ paths \in Seq(Seq(V)) /\ n \in Nat /\ (paths # <<>> <=> n > 0)
      /\ \A i \in 1 .. n : Len(paths[i]) \in Nat
      /\ \A i \in 1 .. n - 1 : Len(paths[i]) >= 2
  BY WellFormedParts
<1>2. CASE n > 0 => Len(paths[n]) >= 2
  <2>1. \A i \in 1 .. n : Len(paths[i]) > 1 <=> i <= n
    <3> SUFFICES ASSUME NEW i \in 1 .. n PROVE Len(paths[i]) > 1
      OBVIOUS
    <3>1. i \in 1 .. n - 1 \/ (i = n /\ n > 0)
      BY <1>1
    <3> QED
      BY <1>1, <1>2, <3>1
  <2>2. WithSegments(paths) = [i \in 1 .. n |-> paths[i]]
    BY <1>1, <2>1, FirstAreKept
  <2>3. paths = [i \in 1 .. n |-> paths[i]]
    BY <1>1, LenProperties
  <2> QED
    BY <2>2, <2>3
<1>3. CASE n > 0 /\ Len(paths[n]) < 2
  <2>1. \A i \in 1 .. n : Len(paths[i]) > 1 <=> i <= n - 1
    <3> SUFFICES ASSUME NEW i \in 1 .. n PROVE Len(paths[i]) > 1 <=> i <= n - 1
      OBVIOUS
    <3>1. i \in 1 .. n - 1 \/ i = n
      BY <1>1
    <3>2. CASE i \in 1 .. n - 1
      BY <1>1, <3>2
    <3>3. CASE i = n
      <4>1. Len(paths[n]) \in Nat /\ ~(n <= n - 1) /\ ~(Len(paths[n]) > 1)
        BY <1>1, <1>3
      <4> HIDE DEF n
      <4> QED
        BY <3>3, <4>1
    <3> QED
      BY <3>1, <3>2, <3>3
  <2>2. WithSegments(paths) = [i \in 1 .. n - 1 |-> paths[i]]
    <3>1. n - 1 \in Nat /\ n - 1 <= n
      BY <1>1, <1>3
    <3> QED
      BY <1>1, <2>1, <3>1, FirstAreKept
  <2>3. /\ WellFormed(Front(paths)) /\ Len(Front(paths)) = n - 1
        /\ \A i \in 1 .. n - 1 : Front(paths)[i] = paths[i]
        /\ Segments(Front(paths)) = Segments(paths)
    BY <1>1, <1>3, DroppedLast
  <2>4. Front(paths) = [i \in 1 .. n - 1 |-> Front(paths)[i]]
    <3>1. Front(paths) \in Seq(Seq(V))
      BY <2>3, WellFormedParts
    <3> HIDE DEF n
    <3> QED
      BY <2>3, <3>1, LenProperties
  <2>5. Front(paths) = WithSegments(paths)
    BY <2>2, <2>3, <2>4
  <2> QED
    BY <2>3, <2>5
<1> QED
  <2>1. n > 0 => Len(paths[n]) \in Nat
    BY <1>1
  <2> QED
    BY <1>2, <1>3, <2>1

\* One vertex merged: the branches end there, and hold its segment.
LEMMA MergedGrows ==
  ASSUME WellFormed(branches), NEW v \in V, NEW opens \in BOOLEAN, branches = <<>> => opens,
         NEW more, more = Merged(v, opens)
  PROVE  /\ WellFormed(more) /\ more # <<>> /\ Same(Last(more[Len(more)]), v)
         /\ \A e : e \in Segments(more) <=>
              e \in Segments(branches) \/ (~opens /\ ~Same(Last(Tip), v) /\ e = {Last(Tip)[2], v[2]})
<1> DEFINE turning == branches # <<>> /\ Len(Tip) > 1 /\ Same(Tip[Len(Tip) - 1], v)
           n == Len(branches)
           Ends == more # <<>> /\ Same(Last(more[Len(more)]), v)
<1>1. /\ branches \in Seq(Seq(V)) /\ n \in Nat /\ (branches # <<>> <=> n > 0)
      /\ branches # <<>> => n \in 1 .. n /\ Len(Tip) \in Nat /\ Len(Tip) >= 1
  BY WellFormedParts DEF Tip
<1>2. CASE branches # <<>> /\ Same(Last(Tip), v)
  <2>1. more = branches
    BY <1>2 DEF Merged
  <2> QED
    BY <1>2, <2>1 DEF Tip
<1>3. CASE ~(branches # <<>> /\ Same(Last(Tip), v)) /\ ~opens /\ ~turning
  <2>1. /\ branches # <<>> /\ ~Same(Last(Tip), v)
        /\ Len(Tip) > 1 => ~Same(Tip[Len(Tip) - 1], v)
    BY <1>3
  <2>2. more = Longer(branches, v)
    BY <1>3 DEF Merged, Longer
  <2>3. /\ WellFormed(more) /\ Len(more) = n /\ Last(more[Len(more)]) = v
        /\ Segments(more) = Segments(branches) \cup {{Last(Tip)[2], v[2]}}
    <3>1. Tip = branches[Len(branches)]
      BY DEF Tip
    <3> QED
      BY <2>1, <2>2, <3>1, Extended
  <2>4. more # <<>>
    BY <1>1, <2>1, <2>3, WellFormedParts
  <2> QED
    BY <1>3, <2>1, <2>3, <2>4 DEF Same
<1>4. CASE ~(branches # <<>> /\ Same(Last(Tip), v)) /\ (opens \/ turning)
  <2>1. more = Opened(v)
    BY <1>4 DEF Merged
  <2> DEFINE kept == IF branches # <<>> /\ Len(Tip) < 2 THEN Front(branches) ELSE branches
  <2>2. more = IF kept # <<>> /\ Same(Last(kept[Len(kept)]), v) THEN kept ELSE Append(kept, <<v>>)
    BY <2>1 DEF Opened
  <2>3. /\ WellFormed(kept) /\ Segments(kept) = Segments(branches)
        /\ kept # <<>> => Len(kept[Len(kept)]) >= 2
    <3>1. CASE branches # <<>> /\ Len(Tip) < 2
      <4>1. /\ WellFormed(kept) /\ Len(kept) = n - 1 /\ Segments(kept) = Segments(branches)
            /\ \A i \in 1 .. n - 1 : kept[i] = branches[i] /\ Len(branches[i]) >= 2
        BY <3>1, DroppedLast DEF Tip
      <4>2. kept # <<>> => n - 1 \in 1 .. n - 1
        <5>1. kept # <<>> <=> Len(kept) > 0
          BY <4>1, WellFormedParts
        <5> HIDE DEF kept, n
        <5> QED
          BY <1>1, <4>1, <5>1
      <4> HIDE DEF kept, n
      <4> QED
        BY <4>1, <4>2
    <3>2. CASE ~(branches # <<>> /\ Len(Tip) < 2)
      BY <1>1, <3>2 DEF Tip
    <3> QED
      BY <3>1, <3>2
  <2>4. \A e : ~opens /\ e = {Last(Tip)[2], v[2]} => e \in Segments(branches)
    <3> SUFFICES ASSUME NEW e, ~opens, e = {Last(Tip)[2], v[2]} PROVE e \in Segments(branches)
      OBVIOUS
    <3>1. turning /\ Tip \in Seq(V) /\ Len(Tip) \in Nat /\ Len(Tip) > 1
      BY <1>1, <1>4, WellFormedParts DEF Tip
    <3>2. /\ Len(Tip) - 1 \in 1 .. Len(Tip) - 1 /\ Len(Tip) - 1 + 1 = Len(Tip)
          /\ Last(Tip) = Tip[Len(Tip)] /\ v[2] = Tip[Len(Tip) - 1][2]
      BY <3>1 DEF Last, Same
    <3>3. e = {Tip[Len(Tip) - 1][2], Tip[Len(Tip) - 1 + 1][2]}
      BY <3>2
    <3>4. e \in Edges(Tip)
      BY <3>2, <3>3 DEF Edges
    <3>5. n \in 1 .. n
      BY <1>1, <3>1
    <3> QED
      BY <1>1, <3>4, <3>5, SegmentsAre DEF Tip
  <2> HIDE DEF kept, turning
  <2>5. CASE kept # <<>> /\ Same(Last(kept[Len(kept)]), v)
    BY <2>2, <2>3, <2>4, <2>5
  <2>6. CASE ~(kept # <<>> /\ Same(Last(kept[Len(kept)]), v))
    <3>1. more = Append(kept, <<v>>)
      BY <2>2, <2>6
    <3>2. /\ WellFormed(more) /\ Len(more) = Len(kept) + 1
          /\ more[Len(kept) + 1] = <<v>> /\ Segments(more) = Segments(kept)
      BY <2>3, <2>6, <3>1, OpenedBehind
    <3>3. more # <<>>
      BY <2>3, <3>2, WellFormedParts
    <3>4. Last(more[Len(more)]) = v
      BY <3>2 DEF Last
    <3> QED
      BY <2>3, <2>4, <3>2, <3>3, <3>4 DEF Same
  <2> QED
    BY <2>5, <2>6
<1> QED
  BY <1>2, <1>3, <1>4

\* The paths of the tables and their vertices.
LEMMA TableVertices ==
  ASSUME NEW name \in {"HEX2D", "SQR", "RECT", "CRECT", "OBL"}, NEW basis
  PROVE  Vertices(name, basis) \in Seq(V)
<1>1. AsePath[name] \in Seq(LayerLabels)
  <2>1. CASE name = "HEX2D"
    BY <2>1 DEF AsePath, LayerLabels
  <2>2. CASE name = "SQR"
    BY <2>2 DEF AsePath, LayerLabels
  <2>3. CASE name = "RECT"
    BY <2>3 DEF AsePath, LayerLabels
  <2>4. CASE name = "CRECT"
    BY <2>4 DEF AsePath, LayerLabels
  <2>5. CASE name = "OBL"
    BY <2>5 DEF AsePath, LayerLabels
  <2> QED
    BY <2>1, <2>2, <2>3, <2>4, <2>5
<1> DEFINE p == AsePath[name]
<1>2. /\ DOMAIN p = 1 .. Len(p) /\ Len(p) \in Nat
      /\ \A i \in 1 .. Len(p) : p[i] \in LayerLabels
  BY <1>1, LenProperties, ElementOfSeq
<1>3. "C" \in LayerLabels /\ "Y" \in LayerLabels
  BY DEF LayerLabels
<1>4. DOMAIN Vertices(name, basis) = 1 .. Len(p)
  BY <1>2 DEF Vertices
<1>5. \A i \in 1 .. Len(p) : Vertices(name, basis)[i] \in V
  <2> SUFFICES ASSUME NEW i \in 1 .. Len(p) PROVE Vertices(name, basis)[i] \in V
    OBVIOUS
  <2>1. \E point \in {"C", "Y", p[i]} : Vertices(name, basis)[i] = <<p[i], point>>
    BY <1>2 DEF Vertices
  <2> HIDE DEF p
  <2> QED
    BY <1>2, <1>3, <2>1 DEF V
<1>6. Vertices(name, basis) = [i \in 1 .. Len(p) |-> Vertices(name, basis)[i]]
  BY <1>2 DEF Vertices
<1> HIDE DEF p
<1> QED
  BY <1>2, <1>5, <1>6, IsASeq

-----------------------------------------------------------------------------
(* The merging of a table.                                                 *)

\* The branches hold the segments of the table taken so far and end where it
\* does.
Follows ==
  /\ fed \in Seq(Fed)
  /\ WellFormed(branches)
  /\ Segments(branches) = {e \in Walked : Cardinality(e) = 2}
  /\ pc # "done" =>
       /\ fed = <<>> <=> branches = <<>>
       /\ fed # <<>> => Same(Last(Tip), Last(fed).at)

IInv ==
  /\ Follows
  /\ left \in Seq(V)
  /\ pc = "reduce" => Bravais # "rectangular"

LEMMA WalkedIs ==
  ASSUME NEW e
  PROVE  e \in Walked <=>
           \E i \in 1 .. Len(fed) - 1 :
             ~fed[i + 1].opens /\ e = {fed[i].at[2], fed[i + 1].at[2]}
BY DEF Walked

\* One vertex more of the table.
LEMMA WalkedGrows ==
  ASSUME fed \in Seq(Fed), NEW v \in V, NEW opens \in BOOLEAN,
         fed' = Append(fed, [at |-> v, opens |-> opens]), NEW e
  PROVE  e \in Walked' <=>
           e \in Walked \/ (fed # <<>> /\ ~opens /\ e = {Last(fed).at[2], v[2]})
<1> DEFINE n == Len(fed)
           new == [at |-> v, opens |-> opens]
<1>1. n \in Nat /\ (fed # <<>> <=> n > 0)
  BY EmptySeq, LenProperties
<1>2. new \in Fed /\ new.at = v /\ (new.opens <=> opens)
  BY DEF Fed
<1>3. Len(fed') = n + 1 /\ fed'[n + 1] = new /\ \A i \in 1 .. n : fed'[i] = fed[i]
  BY <1>1, <1>2, AppendProperties
<1> HIDE DEF new
<1> DEFINE Joins(s, i) == ~s[i + 1].opens /\ e = {s[i].at[2], s[i + 1].at[2]}
<1>4. e \in Walked <=> \E i \in 1 .. n - 1 : Joins(fed, i)
  BY WalkedIs
<1>5. e \in Walked' <=> \E i \in 1 .. n : Joins(fed', i)
  <2>1. Len(fed') - 1 = n
    BY <1>1, <1>3
  <2> QED
    BY <2>1 DEF Walked
<1>6. \A i \in 1 .. n - 1 : Joins(fed', i) <=> Joins(fed, i)
  <2>1. \A i \in 1 .. n - 1 : i \in 1 .. n /\ i + 1 \in 1 .. n
    BY <1>1
  <2> QED
    BY <1>3, <2>1
<1>7. n > 0 => (Joins(fed', n) <=> ~opens /\ e = {Last(fed).at[2], v[2]})
  <2> SUFFICES ASSUME n > 0 PROVE Joins(fed', n) <=> ~opens /\ e = {Last(fed).at[2], v[2]}
    OBVIOUS
  <2>1. fed'[n] = Last(fed) /\ fed'[n + 1] = new
    BY <1>1, <1>3 DEF Last
  <2> HIDE DEF n
  <2> QED
    BY <1>2, <2>1
<1>8. \A i : i \in 1 .. n <=> i \in 1 .. n - 1 \/ (i = n /\ n > 0)
  BY <1>1
<1> HIDE DEF Joins, n
<1>9. (\E i \in 1 .. n : Joins(fed', i)) <=> (\E i \in 1 .. n - 1 : Joins(fed, i)) \/ (n > 0 /\ Joins(fed', n))
  <2>1. ASSUME NEW i \in 1 .. n, Joins(fed', i)
        PROVE  (\E j \in 1 .. n - 1 : Joins(fed, j)) \/ (n > 0 /\ Joins(fed', n))
    <3>1. CASE i = n
      BY <1>8, <2>1, <3>1
    <3>2. CASE i \in 1 .. n - 1
      BY ONLY <1>6, <2>1, <3>2, Zenon
    <3> QED
      BY <1>8, <3>1, <3>2
  <2>2. ASSUME NEW i \in 1 .. n - 1, Joins(fed, i) PROVE \E j \in 1 .. n : Joins(fed', j)
    BY ONLY <1>6, <1>8, <2>2, Zenon
  <2>3. n > 0 => n \in 1 .. n
    BY ONLY <1>1
  <2> QED
    BY ONLY <2>1, <2>2, <2>3, Zenon
<1> QED
  BY ONLY <1>1, <1>4, <1>5, <1>7, <1>9, Zenon

\* Whatever vertex is taken next, the branches follow.
LEMMA Taken ==
  ASSUME Follows, pc = "merge", NEW v \in V, NEW opens \in BOOLEAN, fed = <<>> => opens,
         Take(v, opens)
  PROVE  Follows'
<1> DEFINE new == [at |-> v, opens |-> opens]
<1>1. branches' = Merged(v, opens) /\ fed' = Append(fed, new) /\ pc' = pc
  BY DEF Take
<1>2. /\ fed \in Seq(Fed) /\ WellFormed(branches) /\ (fed = <<>> <=> branches = <<>>)
      /\ Segments(branches) = {e \in Walked : Cardinality(e) = 2}
      /\ fed # <<>> => Same(Last(Tip), Last(fed).at)
  BY DEF Follows
<1>3. fed' \in Seq(Fed) /\ fed' # <<>> /\ Last(fed').at = v
  <2>1. new \in Fed /\ new.at = v
    BY DEF Fed
  <2> HIDE DEF new
  <2>2. /\ fed' \in Seq(Fed) /\ Len(fed) \in Nat /\ Len(fed') = Len(fed) + 1
        /\ fed'[Len(fed) + 1] = new
    BY <1>1, <1>2, <2>1, AppendProperties
  <2>3. fed' # <<>>
    BY <2>2, EmptySeq
  <2> QED
    BY <2>1, <2>2, <2>3 DEF Last
<1>4. /\ WellFormed(branches') /\ branches' # <<>> /\ Same(Last(branches'[Len(branches')]), v)
      /\ \A e : e \in Segments(branches') <=>
           e \in Segments(branches) \/ (~opens /\ ~Same(Last(Tip), v) /\ e = {Last(Tip)[2], v[2]})
  <2>1. branches = <<>> => opens
    BY <1>2
  <2> QED
    BY <1>1, <1>2, <2>1, MergedGrows
<1>5. Segments(branches') = {e \in Walked' : Cardinality(e) = 2}
  <2> SUFFICES ASSUME NEW e
               PROVE  e \in Segments(branches') <=> e \in Walked' /\ Cardinality(e) = 2
    OBVIOUS
  <2>1. e \in Walked' <=> e \in Walked \/ (fed # <<>> /\ ~opens /\ e = {Last(fed).at[2], v[2]})
    BY <1>1, <1>2, WalkedGrows
  <2>2. e \in Segments(branches) <=> e \in Walked /\ Cardinality(e) = 2
    BY <1>2
  <2>3. CASE opens
    BY <1>4, <2>1, <2>2, <2>3
  <2>4. CASE ~opens
    <3>1. fed # <<>> /\ Last(fed).at[2] = Last(Tip)[2]
      BY <1>2, <2>4 DEF Same
    <3>2. e = {Last(Tip)[2], v[2]} => (Cardinality(e) = 2 <=> ~Same(Last(Tip), v))
      <4>1. Cardinality({Last(Tip)[2], v[2]}) = 2 <=> Last(Tip)[2] # v[2]
        BY PairSize
      <4> QED
        BY <4>1 DEF Same
    <3> QED
      BY <1>4, <2>1, <2>2, <2>4, <3>1, <3>2
  <2> QED
    BY <2>3, <2>4
<1>6. Tip' = branches'[Len(branches')]
  BY DEF Tip
<1> QED
  BY <1>3, <1>4, <1>5, <1>6 DEF Follows, Same

-----------------------------------------------------------------------------
(* The invariant.                                                          *)

\* A state that has taken no vertex and one of which nothing is asked.
LEMMA NothingTaken ==
  ASSUME fed = <<>>, branches = <<>>
  PROVE  Follows
<1>1. fed \in Seq(Fed) /\ branches \in Seq(Seq(V)) /\ Len(fed) = 0 /\ Len(branches) = 0
  BY EmptySeq
<1>2. WellFormed(branches)
  BY <1>1 DEF WellFormed, Apart
<1>3. Segments(branches) = {} /\ Walked = {}
  <2>1. DOMAIN branches = {}
    BY <1>1
  <2>2. 1 .. Len(fed) - 1 = {}
    BY <1>1
  <2> QED
    BY <2>1, <2>2 DEF Segments, Walked
<1> QED
  BY <1>1, <1>2, <1>3 DEF Follows

LEMMA Names ==
  ASSUME Bravais # "rectangular"
  PROVE  NameOf(Bravais) \in {"HEX2D", "SQR", "RECT", "CRECT", "OBL"}
<1>1. Bravais \in {"hexagonal", "square", "oblique"}
  BY DEF Bravais
<1> HIDE DEF Bravais
<1> QED
  BY <1>1 DEF NameOf

LEMMA Inductive ==
  ASSUME IInv, Next
  PROVE  IInv'
<1>1. Follows /\ left \in Seq(V) /\ (pc = "reduce" => Bravais # "rectangular")
  BY DEF IInv
<1>2. ASSUME UNCHANGED <<fed, branches>>, pc # "done", pc' # "done" PROVE Follows'
  BY <1>1, <1>2 DEF Follows, Walked, Tip
<1>3. ASSUME UNCHANGED pathVars PROVE IInv'
  BY <1>1, <1>3 DEF IInv, Follows, Walked, Tip, pathVars, Bravais
<1>4. CASE Start
  <2>1. Follows'
    BY <1>1, <1>2, <1>4 DEF Start, Merge
  <2>2. left' \in Seq(V)
    <3>1. << <<"Gamma", "Gamma">>, <<"Z", "Z">> >> \in Seq(V)
      <4>1. <<"Gamma", "Gamma">> \in V /\ <<"Z", "Z">> \in V
        BY DEF V, LayerLabels
      <4> QED
        BY <4>1
    <3>2. << >> \in Seq(V)
      BY EmptySeq
    <3> QED
      BY <1>1, <1>4, <3>1, <3>2 DEF Start, Merge
  <2>3. pc' = "reduce" => Bravais' # "rectangular"
    BY <1>4 DEF Start, Merge, Bravais
  <2> QED
    BY <2>1, <2>2, <2>3 DEF IInv
<1>5. CASE Mirror
  <2>1. Vertices(IF Primitive THEN "RECT" ELSE "CRECT", Rectangular) \in Seq(V)
    <3>1. (IF Primitive THEN "RECT" ELSE "CRECT") \in {"HEX2D", "SQR", "RECT", "CRECT", "OBL"}
      OBVIOUS
    <3> QED
      BY <3>1, TableVertices
  <2>2. Follows'
    BY <1>1, <1>2, <1>5 DEF Mirror, Merge
  <2> QED
    BY <1>5, <2>1, <2>2 DEF IInv, Mirror, Merge
<1>6. CASE Swap
  <2>1. Follows'
    BY <1>1, <1>2, <1>6 DEF Swap, Reducing
  <2> QED
    BY <1>1, <1>6, <2>1 DEF IInv, Swap, Reducing, Bravais
<1>7. CASE Subtract
  <2>1. Follows'
    BY <1>1, <1>2, <1>7 DEF Subtract, Reducing
  <2> QED
    BY <1>1, <1>7, <2>1 DEF IInv, Subtract, Reducing, Bravais
<1>8. CASE Reduced
  <2>1. Vertices(NameOf(Bravais), Standard(Bravais)) \in Seq(V)
    BY <1>1, <1>8, Names, TableVertices DEF Reduced, Reducing
  <2>2. Follows'
    BY <1>1, <1>2, <1>8 DEF Reduced, Reducing, Merge
  <2> QED
    BY <1>8, <2>1, <2>2 DEF IInv, Reduced, Merge
<1>9. CASE TakeOwn
  <2>1. Head(left) \in V /\ Tail(left) \in Seq(V)
    BY <1>1, <1>9, HeadTailProperties DEF TakeOwn
  <2>2. Follows'
    BY <1>1, <1>9, <2>1, Taken DEF TakeOwn, Take
  <2> QED
    BY <1>9, <2>1, <2>2 DEF IInv, TakeOwn, Take
<1>10. CASE TakeBulk
  <2>1. PICK v \in BulkVertices, opens \in BOOLEAN : (fed = <<>> => opens) /\ Take(v, opens)
    BY <1>10 DEF TakeBulk
  <2>2. v \in V /\ pc = "merge"
    BY <2>1 DEF V, Take
  <2>3. Follows'
    BY <1>1, <2>1, <2>2, Taken
  <2> QED
    BY <1>1, <1>10, <2>1, <2>2, <2>3 DEF IInv, TakeBulk, Take
<1>11. CASE Finish
  <2>1. WellFormed(branches') /\ Segments(branches') = Segments(branches)
    BY <1>1, <1>11, Finished DEF Finish, Follows
  <2>2. Follows'
    BY <1>1, <1>11, <2>1 DEF Follows, Finish, Walked
  <2> QED
    BY <1>1, <1>11, <2>2 DEF IInv, Finish
<1> QED
  BY <1>3, <1>4, <1>5, <1>6, <1>7, <1>8, <1>9, <1>10, <1>11
     DEF Next, PathNext, MakePath, PathEnded

LEMMA Invariance == Spec => []IInv
<1>1. Init => IInv
  <2>1. ASSUME Init PROVE fed = <<>> /\ branches = <<>> /\ left = <<>> /\ pc # "reduce"
    BY <2>1 DEF Init, NoPath, PathInit
  <2> QED
    BY <2>1, NothingTaken, EmptySeq DEF IInv
<1>2. IInv /\ UNCHANGED vars => IInv'
  BY DEF IInv, Follows, Walked, Tip, vars, pathVars, Bravais
<1> QED
  BY <1>1, <1>2, Inductive, PTL DEF Spec

\* The branches of a finished path, _merged in advisors/k_path.py, are the
\* segments of its table and no others, whatever the table.
THEOREM PathCoversTheTable == Spec => []CoversTheTable
<1>1. IInv => CoversTheTable
  BY DEF IInv, Follows, CoversTheTable, Segments
<1> QED
  BY <1>1, Invariance, PTL

\* A finished path has no two consecutive points alike, in a branch or across
\* two, and no branch turns back: bands.x has no reason to drop its plot file.
THEOREM PathNeverRepeats == Spec => []NeverRepeats
<1>1. IInv => NeverRepeats
  <2> SUFFICES ASSUME IInv PROVE NeverRepeats
    OBVIOUS
  <2>1. WellFormed(branches)
    BY DEF IInv, Follows
  <2>2. DOMAIN branches = 1 .. Len(branches)
    BY <2>1, WellFormedParts, BranchTypes
  <2> QED
    BY <2>1, <2>2 DEF WellFormed, GoesOn, Apart, NeverRepeats
<1> QED
  BY <1>1, Invariance, PTL

-----------------------------------------------------------------------------
(* MESHES.                                                                 *)

-----------------------------------------------------------------------------
(* The least and the greatest of a set of numbers.                         *)

LEMMA LessIsWellFounded ==
  \E R : IsWellFoundedOn(R, Nat) /\ \A x, y \in Nat : x < y => <<x, y>> \in R
<1> DEFINE R == OpToRel(<, Nat)
<1>1. IsWellFoundedOn(R, Nat)
  BY NatLessThanWellFounded, Zenon
<1>2. \A x, y \in Nat : x < y => <<x, y>> \in R
  BY DEF OpToRel
<1> HIDE DEF R
<1> QED
  BY <1>1, <1>2

LEMMA Minimal ==
  ASSUME NEW R, NEW S, IsWellFoundedOn(R, S), NEW T, T \subseteq S, T # {}
  PROVE  \E x \in T : \A y \in T : ~(<<y, x>> \in R)
BY WFMin, Zenon

\* Every set of numbers has a least one.
LEMMA LeastOf ==
  ASSUME NEW S \in SUBSET Nat, S # {}
  PROVE  \E x \in S : \A y \in S : x <= y
<1>1. PICK R : IsWellFoundedOn(R, Nat) /\ \A x, y \in Nat : x < y => <<x, y>> \in R
  BY LessIsWellFounded
<1>2. IsWellFoundedOn(R, Nat)
  BY ONLY <1>1
<1>3. \E x \in S : \A y \in S : ~(<<y, x>> \in R)
  BY <1>2, Minimal
<1>4. PICK x \in S : \A y \in S : ~(<<y, x>> \in R)
  BY <1>3
<1>5. \A y \in S : ~(y < x)
  BY ONLY <1>1, <1>4, S \in SUBSET Nat
<1> QED
  BY <1>5

LEMMA MinIs ==
  ASSUME NEW S \in SUBSET Nat, S # {}
  PROVE  Min(S) \in S /\ \A y \in S : Min(S) <= y
BY LeastOf DEF Min

LEMMA MaxIs ==
  ASSUME NEW S \in SUBSET Nat, S # {}, NEW b \in Nat, \A x \in S : x <= b
  PROVE  Max(S) \in S /\ \A y \in S : Max(S) >= y
<1> DEFINE T == {b - x : x \in S}
<1>1. T \in SUBSET Nat /\ T # {}
  <2>1. \A x \in S : b - x \in Nat
    OBVIOUS
  <2>2. PICK x \in S : TRUE
    OBVIOUS
  <2> QED
    BY <2>1, <2>2
<1>2. PICK t \in T : \A u \in T : t <= u
  BY <1>1, LeastOf
<1>3. PICK x \in S : t = b - x
  BY <1>2
<1>4. \A y \in S : x >= y
  <2> SUFFICES ASSUME NEW y \in S PROVE x >= y
    OBVIOUS
  <2>1. b - x <= b - y
    BY <1>2, <1>3
  <2> QED
    BY <2>1
<1> QED
  BY <1>4 DEF Max

LEMMA MaxOfTwo ==
  ASSUME NEW a \in Nat, NEW b \in Nat
  PROVE  Max({a, b}) = IF a >= b THEN a ELSE b
<1>1. Max({a, b}) \in {a, b} /\ \A y \in {a, b} : Max({a, b}) >= y
  <2>1. {a, b} \in SUBSET Nat /\ {a, b} # {} /\ a + b \in Nat /\ \A x \in {a, b} : x <= a + b
    OBVIOUS
  <2> QED
    BY <2>1, MaxIs
<1> QED
  BY <1>1

-----------------------------------------------------------------------------
(* Meshes.                                                                 *)

Positive == Nat \ {0}

\* A rounded quotient is within a half of it, and even if it is rounded up a half.
LEMMA RoundedNear ==
  ASSUME NEW a \in Nat, NEW d \in Positive, NEW r, r = Rounded(a, d)
  PROVE  /\ r \in Int /\ d * (2 * r - 1) <= 2 * a /\ 2 * a <= d * (2 * r + 1)
         /\ d * (2 * r - 1) = 2 * a => r % 2 = 0
<1>1. d \in Nat /\ d >= 1
  BY DEF Positive
<1>2. PICK up \in Nat, e \in Nat :
        /\ up = (2 * a + d) \div (2 * d) /\ e = (2 * a + d) % (2 * d)
        /\ 2 * a + d = (2 * d) * up + e /\ e < 2 * d
  BY <1>1
<1>3. r = IF e = 0 /\ up % 2 = 1 THEN up - 1 ELSE up
  BY <1>2 DEF Rounded
<1>4. (2 * d) * up = 2 * (d * up) /\ d * (2 * up - 1) = 2 * (d * up) - d /\ d * (2 * up + 1) = 2 * (d * up) + d
  BY <1>1, <1>2
<1>5. PICK x \in Int : x = d * up
  BY <1>1, <1>2
<1>6. CASE e = 0 /\ up % 2 = 1
  <2>1. r = up - 1 /\ r \in Int /\ r % 2 = 0
    BY <1>2, <1>3, <1>6
  <2>2. d * (2 * r - 1) = 2 * (d * up) - 3 * d /\ d * (2 * r + 1) = 2 * (d * up) - d
    BY <1>1, <1>2, <2>1
  <2> QED
    BY <1>1, <1>2, <1>4, <1>5, <1>6, <2>1, <2>2
<1>7. CASE ~(e = 0 /\ up % 2 = 1)
  <2>1. r = up /\ r \in Int
    BY <1>2, <1>3, <1>7
  <2>2. up % 2 = 0 \/ up % 2 = 1
    BY <1>2
  <2> QED
    BY <1>1, <1>2, <1>4, <1>5, <1>7, <2>1, <2>2
<1> QED
  BY <1>6, <1>7

\* So many divisions are enough.
Enough(length, distance, n) == 2 * Fine * length <= distance * (2 * Fine * n + 1)

\* A rounded quotient is at most a multiple of Fine if so many divisions are enough.
LEMMA EnoughIs ==
  ASSUME NEW length \in Positive, NEW distance \in Positive, NEW m \in Positive,
         NEW r, r = Rounded(Fine * length, distance)
  PROVE  Enough(length, distance, m) <=> r <= m * Fine
<1>1. Fine \in Nat /\ Fine >= 1 /\ Fine % 2 = 0 /\ length \in Nat /\ distance \in Nat /\ distance >= 1
      /\ m \in Nat /\ m >= 1
  BY FineAssumption DEF Positive
<1>2. PICK a \in Nat : a = Fine * length
  BY <1>1
<1>3. PICK k \in Nat : k = m * Fine
  BY <1>1
<1>4. k % 2 = 0
  <2>1. PICK h \in Nat : Fine = 2 * h
    <3>1. Fine = 2 * (Fine \div 2) /\ Fine \div 2 \in Nat
      BY <1>1
    <3> QED
      BY <3>1
  <2>2. m * Fine = 2 * (m * h)
    BY <1>1, <2>1
  <2>3. PICK x \in Nat : x = m * h
    BY <1>1
  <2>4. k = 2 * x
    BY <1>3, <2>2, <2>3
  <2> QED
    BY <2>4
<1>5. /\ r \in Int /\ distance * (2 * r - 1) <= 2 * a /\ 2 * a <= distance * (2 * r + 1)
      /\ distance * (2 * r - 1) = 2 * a => r % 2 = 0
  BY <1>2, RoundedNear
<1>6. Enough(length, distance, m) <=> 2 * a <= distance * (2 * k + 1)
  <2>1. 2 * Fine * length = 2 * (Fine * length) /\ 2 * Fine * m = 2 * (m * Fine)
    BY <1>1
  <2> QED
    BY <1>2, <1>3, <2>1 DEF Enough
<1>7. ASSUME r <= k PROVE 2 * a <= distance * (2 * k + 1)
  <2>1. distance * (2 * r + 1) <= distance * (2 * k + 1)
    BY <1>1, <1>5, <1>7
  <2> QED
    BY <1>1, <1>2, <1>5, <2>1
<1>8. ASSUME 2 * a <= distance * (2 * k + 1) PROVE r <= k
  <2> SUFFICES ASSUME r >= k + 1 PROVE FALSE
    BY <1>5
  <2>1. distance * (2 * k + 1) <= distance * (2 * r - 1)
    BY <1>1, <1>5
  <2>2. distance * (2 * r - 1) = 2 * a
    BY <1>1, <1>2, <1>5, <1>8, <2>1
  <2>3. r # k + 1
    BY <1>4, <1>5, <2>2
  <2>4. r >= k + 2
    BY <1>5, <2>3
  <2>5. distance * (2 * k + 3) <= distance * (2 * r - 1)
    BY <1>1, <1>5, <2>4
  <2>6. distance * (2 * k + 3) = distance * (2 * k + 1) + 2 * distance
    BY <1>1
  <2>7. distance * (2 * k + 1) \in Int /\ distance * (2 * r - 1) \in Int
    BY <1>1, <1>5
  <2> QED
    BY <1>1, <1>8, <2>2, <2>5, <2>6, <2>7
<1> QED
  BY <1>3, <1>6, <1>7, <1>8

\* A mesh has enough divisions, and no fewer are.
LEMMA DivisionsIs ==
  ASSUME NEW length \in Positive, NEW distance \in Positive, NEW n,
         n = Divisions(length, distance)
  PROVE  /\ n \in Positive /\ Enough(length, distance, n)
         /\ \A m \in Positive : Enough(length, distance, m) => n <= m
<1> DEFINE rounded == Rounded(Fine * length, distance)
           up == (rounded + Fine - 1) \div Fine
<1>1. Fine \in Nat /\ Fine >= 1
  BY FineAssumption
<1>2. rounded \in Nat
  <2>1. Fine * length \in Nat /\ distance \in Nat /\ distance >= 1
    BY <1>1 DEF Positive
  <2>2. rounded \in Int /\ 2 * (Fine * length) <= distance * (2 * rounded + 1)
    BY <2>1, RoundedNear
  <2> HIDE DEF rounded
  <2>3. rounded <= -1 => distance * (2 * rounded + 1) < 0
    BY <2>1, <2>2
  <2>4. distance * (2 * rounded + 1) \in Int
    BY <2>1, <2>2
  <2> QED
    BY <2>1, <2>2, <2>3, <2>4
<1>3. \A m \in Positive : Enough(length, distance, m) <=> rounded <= m * Fine
  BY EnoughIs
<1> HIDE DEF rounded
<1>4. up \in Nat /\ rounded <= up * Fine /\ up * Fine <= rounded + Fine - 1
  <2>1. PICK e \in Nat : rounded + Fine - 1 = Fine * up + e /\ e <= Fine - 1 /\ up \in Nat
    <3>1. /\ rounded + Fine - 1 \in Nat
          /\ rounded + Fine - 1 = Fine * up + ((rounded + Fine - 1) % Fine)
          /\ (rounded + Fine - 1) % Fine \in 0 .. Fine - 1 /\ up \in Nat
      BY <1>1, <1>2
    <3> QED
      BY <1>1, <3>1
  <2> HIDE DEF up
  <2>2. Fine * up = up * Fine /\ up * Fine \in Nat
    BY <1>1, <2>1
  <2> QED
    BY <1>1, <1>2, <2>1, <2>2
<1>5. n = IF 1 >= up THEN 1 ELSE up
  <2>1. n = Max({1, up})
    BY DEF Divisions, rounded
  <2> HIDE DEF up
  <2> QED
    BY <1>4, <2>1, MaxOfTwo
<1> HIDE DEF up
<1>6. n \in Positive /\ n \in Nat /\ up <= n
  BY <1>4, <1>5 DEF Positive
<1>7. rounded <= n * Fine
  <2>1. up * Fine <= n * Fine /\ up * Fine \in Nat /\ n * Fine \in Nat
    BY <1>1, <1>4, <1>6
  <2> QED
    BY <1>2, <1>4, <2>1
<1>8. ASSUME NEW m \in Positive, rounded <= m * Fine PROVE n <= m
  <2>1. m \in Nat /\ m >= 1
    BY DEF Positive
  <2>2. ~(m + 1 <= up)
    <3> SUFFICES ASSUME m + 1 <= up PROVE FALSE
      OBVIOUS
    <3>1. (m + 1) * Fine <= up * Fine /\ (m + 1) * Fine = m * Fine + Fine
      BY <1>1, <1>4, <2>1
    <3>2. m * Fine \in Nat /\ up * Fine \in Nat
      BY <1>1, <1>4, <2>1
    <3> QED
      BY <1>1, <1>2, <1>4, <1>8, <3>1, <3>2
  <2> QED
    BY <1>4, <1>5, <2>1, <2>2
<1> QED
  BY <1>3, <1>6, <1>7, <1>8

\* What a survey says of the axes and of the rotations.
Shape(g) ==
  /\ g.vacuum \subseteq Axes
  /\ g.lengths \in [Axes -> Positive]
  /\ \A r \in g.rotations : \A i, j \in Axes : r[i][j] \in -1 .. 1
  /\ \A p \in MixingPairs(g.rotations) :
       p[1] \notin g.vacuum /\ p[2] \notin g.vacuum => g.lengths[p[1]] = g.lengths[p[2]]

\* Counts of which one axis across a vacuum has one and mixed axes have equal ones.
Even(g, mesh) ==
  /\ mesh \in Counts
  /\ \A i \in g.vacuum : mesh[i] = 1
  /\ \A p \in MixingPairs(g.rotations) :
       p[1] \notin g.vacuum /\ p[2] \notin g.vacuum => mesh[p[1]] = mesh[p[2]]

LEMMA PointGroupEntries ==
  ASSUME NEW gram, NEW r \in PointGroup(gram), NEW i \in Axes, NEW j \in Axes
  PROVE  r[i][j] \in -1 .. 1
<1> DEFINE Images(k) == {v \in Vectors : Inner(gram, v, v) = gram[k][k]}
<1>1. PICK c \in Images(1) \X Images(2) \X Images(3) : r = Transposed(c)
  BY DEF PointGroup
<1>2. c[1] \in Vectors /\ c[2] \in Vectors /\ c[3] \in Vectors
  BY <1>1
<1>3. \A v \in Vectors : \A k \in Axes : v[k] \in -1 .. 1
  BY DEF Vectors, Axes
<1>4. c[j] \in Vectors
  BY <1>2 DEF Axes
<1>5. r[i][j] = c[j][i]
  BY <1>1 DEF Transposed
<1> QED
  BY <1>3, <1>4, <1>5

\* Axes are coupled symmetrically, and through a third axis only.
LEMMA CoupledAlike ==
  ASSUME NEW c, NEW i \in Axes, NEW j \in Axes, i \notin c.vacuum, j \notin c.vacuum,
         NEW r \in CrystalRotations(c), r[i][j] # 0 \/ r[j][i] # 0, NEW l \in Axes
  PROVE  <<i, l>> \in Coupled(c) <=> <<j, l>> \in Coupled(c)
<1> DEFINE Linked(x, y) ==
             \/ x = y
             \/ /\ {x, y} \cap c.vacuum = {}
                /\ \E s \in CrystalRotations(c) : s[x][y] # 0 \/ s[y][x] # 0
<1>1. \A x, y \in Axes : <<x, y>> \in Coupled(c) <=> \E m \in Axes : Linked(x, m) /\ Linked(m, y)
  BY DEF Coupled
<1>2. \A x, y : Linked(x, y) => Linked(y, x)
  OBVIOUS
<1>3. Linked(i, j) /\ \A x : Linked(x, x)
  OBVIOUS
<1> HIDE DEF Linked
<1>4. ASSUME NEW x \in Axes, NEW y \in Axes, Linked(x, y), NEW m \in Axes, Linked(x, m), Linked(m, l)
      PROVE  \E k \in Axes : Linked(y, k) /\ Linked(k, l)
  <2>1. Linked(y, x) /\ Linked(l, l)
    BY <1>2, <1>3, <1>4
  <2>2. x = m \/ m = l \/ x = l \/ y = m \/ y = l \/ y = x
    BY DEF Axes
  <2> QED
    BY <1>2, <1>3, <1>4, <2>1, <2>2
<1>5. Linked(j, i)
  BY <1>2, <1>3
<1> QED
  BY <1>1, <1>3, <1>4, <1>5

LEMMA SurveyShape ==
  ASSUME NEW c \in Cells
  PROVE  Shape(Survey(c))
<1> DEFINE g == Survey(c)
           Class(i) == {l \in Axes : <<i, l>> \in Coupled(c)}
           LengthsNear(i) == {OwnLength(c, j) : j \in Class(i)}
<1>1. g.vacuum = c.vacuum /\ g.rotations = PwRotations(c) /\ g.lengths = [i \in Axes |-> Max(LengthsNear(i))]
  BY DEF Survey, Lengths
<1>2. c.vacuum \subseteq Axes /\ \A i \in Axes : OwnLength(c, i) \in Positive
  BY CellsAssumption DEF Positive
<1>3. PwRotations(c) \subseteq CrystalRotations(c)
  BY RotationsAssumption
<1>4. \A r \in PwRotations(c) : \A i, j \in Axes : r[i][j] \in -1 .. 1
  BY <1>3, PointGroupEntries DEF CrystalRotations
<1>5. \A i \in Axes : Max(LengthsNear(i)) \in Positive
  <2> SUFFICES ASSUME NEW i \in Axes PROVE Max(LengthsNear(i)) \in Positive
    OBVIOUS
  <2>1. i \in Class(i)
    BY DEF Coupled
  <2>2. LengthsNear(i) \subseteq Positive /\ LengthsNear(i) # {}
    BY <1>2, <2>1
  <2> DEFINE b == OwnLength(c, 1) + OwnLength(c, 2) + OwnLength(c, 3)
  <2>3. b \in Nat /\ \A j \in Axes : OwnLength(c, j) <= b
    <3>1. OwnLength(c, 1) \in Positive /\ OwnLength(c, 2) \in Positive /\ OwnLength(c, 3) \in Positive
      BY <1>2 DEF Axes
    <3>2. \A j \in Axes : j = 1 \/ j = 2 \/ j = 3
      BY DEF Axes
    <3> QED
      BY <3>1, <3>2 DEF Positive
  <2>4. \A x \in LengthsNear(i) : x <= b
    BY <2>3
  <2> HIDE DEF LengthsNear, b
  <2>5. LengthsNear(i) \in SUBSET Nat
    BY <2>2 DEF Positive
  <2> QED
    BY <2>2, <2>3, <2>4, <2>5, MaxIs
<1>6. ASSUME NEW p \in MixingPairs(PwRotations(c)), p[1] \notin c.vacuum, p[2] \notin c.vacuum
      PROVE  Max(LengthsNear(p[1])) = Max(LengthsNear(p[2])) /\ p[1] \in Axes /\ p[2] \in Axes
  <2>1. p[1] \in Axes /\ p[2] \in Axes
    BY DEF MixingPairs
  <2>2. PICK r \in PwRotations(c) : r[p[2]][p[1]] # 0
    BY DEF MixingPairs
  <2>3. \A l \in Axes : <<p[1], l>> \in Coupled(c) <=> <<p[2], l>> \in Coupled(c)
    BY <1>3, <1>6, <2>1, <2>2, CoupledAlike
  <2>4. Class(p[1]) = Class(p[2])
    BY <2>3
  <2> QED
    BY <2>1, <2>4
<1> HIDE DEF g, LengthsNear
<1>7. g.lengths \in [Axes -> Positive]
  BY <1>1, <1>5
<1>8. \A p \in MixingPairs(PwRotations(c)) :
        p[1] \notin c.vacuum /\ p[2] \notin c.vacuum => g.lengths[p[1]] = g.lengths[p[2]]
  BY <1>1, <1>6
<1> QED
  BY <1>1, <1>2, <1>4, <1>7, <1>8 DEF Shape, g

\* A mesh of one distance is even.
LEMMA MeshIsEven ==
  ASSUME NEW g, Shape(g), NEW distance \in Positive
  PROVE  Even(g, MeshOf(g.lengths, g.vacuum, distance))
<1> DEFINE mesh == MeshOf(g.lengths, g.vacuum, distance)
<1>1. \A i \in Axes : mesh[i] = IF i \in g.vacuum THEN 1 ELSE Divisions(g.lengths[i], distance)
  BY DEF MeshOf
<1>2. \A i \in Axes : Divisions(g.lengths[i], distance) \in Positive
  <2>1. \A i \in Axes : g.lengths[i] \in Positive
    BY DEF Shape
  <2> QED
    BY <2>1, DivisionsIs
<1>3. mesh \in Counts
  <2>1. \A i \in Axes : mesh[i] \in Nat \ {0}
    BY <1>1, <1>2 DEF Positive
  <2>2. mesh = [i \in Axes |-> mesh[i]]
    BY DEF MeshOf
  <2> HIDE DEF mesh
  <2> QED
    BY <2>1, <2>2 DEF Counts
<1>4. \A i \in g.vacuum : mesh[i] = 1
  BY <1>1 DEF Shape
<1>5. \A p \in MixingPairs(g.rotations) :
        p[1] \notin g.vacuum /\ p[2] \notin g.vacuum => mesh[p[1]] = mesh[p[2]]
  <2>1. \A p \in MixingPairs(g.rotations) : p[1] \in Axes /\ p[2] \in Axes
    BY DEF MixingPairs
  <2> HIDE DEF mesh
  <2> QED
    BY <1>1, <2>1 DEF Shape
<1> QED
  BY <1>3, <1>4, <1>5 DEF Even

\* The rotations keep an even mesh unless a vacuum vector leans.
LEMMA EvenIsKept ==
  ASSUME NEW g, Shape(g), NEW mesh, Even(g, mesh),
         \A p \in MixingPairs(g.rotations) : ~(p[1] \in g.vacuum /\ p[2] \notin g.vacuum)
  PROVE  KeepsMesh(g.rotations, mesh)
<1> SUFFICES ASSUME NEW r \in g.rotations, NEW i \in Axes, NEW j \in Axes
             PROVE  (r[i][j] * mesh[j]) % mesh[i] = 0
  BY DEF KeepsMesh
<1>1. r[i][j] \in -1 .. 1 /\ mesh[i] \in Nat \ {0} /\ mesh[j] \in Nat \ {0}
  BY DEF Shape, Even, Counts
<1>2. CASE r[i][j] = 0
  BY <1>1, <1>2
<1>3. CASE mesh[i] = 1
  BY <1>1, <1>3
<1>4. CASE mesh[i] = mesh[j]
  <2>1. r[i][j] = 0 \/ r[i][j] = 1 \/ r[i][j] = -1
    BY <1>1
  <2>2. r[i][j] * mesh[j] \in {0, mesh[i], -mesh[i]}
    BY <1>1, <1>4, <2>1
  <2>3. 0 % mesh[i] = 0 /\ mesh[i] % mesh[i] = 0 /\ (-mesh[i]) % mesh[i] = 0
    BY <1>1
  <2> QED
    BY <2>2, <2>3
<1>5. CASE r[i][j] # 0 /\ i # j /\ i \notin g.vacuum
  <2>1. <<j, i>> \in MixingPairs(g.rotations)
    BY <1>5 DEF MixingPairs
  <2>2. j \notin g.vacuum
    BY <1>5, <2>1
  <2> QED
    BY <1>4, <1>5, <2>1, <2>2 DEF Even
<1> QED
  BY <1>2, <1>3, <1>4, <1>5 DEF Even

-----------------------------------------------------------------------------
(* The ladder.                                                             *)

Greater(S, x) == {y \in S : y > x}

LEMMA GreaterShrinks ==
  ASSUME NEW S \in SUBSET Nat, IsFiniteSet(S), NEW x \in S, NEW y \in S, x < y
  PROVE  Cardinality(Greater(S, y)) < Cardinality(Greater(S, x))
<1>1. Greater(S, y) \in SUBSET Greater(S, x) /\ Greater(S, x) \in SUBSET S
  <2>1. \A z \in S : z > y => z > x
    OBVIOUS
  <2> QED
    BY <2>1 DEF Greater
<1>2. y \in Greater(S, x) /\ y \notin Greater(S, y)
  BY DEF Greater
<1>3. IsFiniteSet(Greater(S, x))
  BY <1>1, FS_Subset
<1>4. /\ IsFiniteSet(Greater(S, y)) /\ Cardinality(Greater(S, y)) <= Cardinality(Greater(S, x))
      /\ Cardinality(Greater(S, x)) = Cardinality(Greater(S, y)) => Greater(S, x) = Greater(S, y)
  BY <1>1, <1>3, FS_Subset
<1>5. Cardinality(Greater(S, x)) \in Nat /\ Cardinality(Greater(S, y)) \in Nat
  BY <1>3, <1>4, FS_CardinalityType
<1> QED
  BY <1>2, <1>4, <1>5

\* A finite set of numbers, in descending order.
LEMMA DescendingIs ==
  ASSUME NEW S \in SUBSET Nat, IsFiniteSet(S), NEW n, n = Cardinality(S)
  PROVE  /\ n \in Nat /\ Descending(S) \in [1 .. n -> S]
         /\ \A i \in 1 .. n : Cardinality(Greater(S, Descending(S)[i])) = i - 1
         /\ \A x \in S : \E i \in 1 .. n : Descending(S)[i] = x
<1> DEFINE f == [x \in S |-> Cardinality(Greater(S, x)) + 1]
           T == 1 .. n
<1>1. n \in Nat /\ IsFiniteSet(T) /\ Cardinality(T) = n
  <2>1. n \in Nat
    BY FS_CardinalityType
  <2> QED
    BY <2>1, FS_Interval
<1>2. \A x \in S : Cardinality(Greater(S, x)) + 1 \in T
  <2> SUFFICES ASSUME NEW x \in S PROVE Cardinality(Greater(S, x)) + 1 \in T
    OBVIOUS
  <2>1. Greater(S, x) \in SUBSET S /\ x \notin Greater(S, x)
    BY DEF Greater
  <2>2. /\ IsFiniteSet(Greater(S, x)) /\ Cardinality(Greater(S, x)) <= n
        /\ n = Cardinality(Greater(S, x)) => S = Greater(S, x)
    BY <2>1, FS_Subset
  <2>3. Cardinality(Greater(S, x)) \in Nat
    BY <2>2, FS_CardinalityType
  <2> QED
    BY <1>1, <2>1, <2>2, <2>3
<1>3. \A x, y \in S : f[x] = f[y] => x = y
  <2> SUFFICES ASSUME NEW x \in S, NEW y \in S, f[x] = f[y] PROVE x = y
    OBVIOUS
  <2>1. f[x] \in T /\ f[y] \in T /\ f[x] = Cardinality(Greater(S, x)) + 1
        /\ f[y] = Cardinality(Greater(S, y)) + 1
    BY <1>2
  <2>2. Cardinality(Greater(S, x)) = Cardinality(Greater(S, y))
    <3>1. Cardinality(Greater(S, x)) + 1 = Cardinality(Greater(S, y)) + 1
      BY <2>1
    <3>2. Cardinality(Greater(S, x)) \in Nat /\ Cardinality(Greater(S, y)) \in Nat
      <4>1. \A z \in S : Greater(S, z) \in SUBSET S
        BY DEF Greater
      <4> QED
        BY <4>1, FS_Subset, FS_CardinalityType
    <3> QED
      BY <3>1, <3>2
  <2>3. ~(x < y) /\ ~(y < x)
    <3>1. \A z \in S : Cardinality(Greater(S, z)) \in Nat
      <4>1. \A z \in S : Greater(S, z) \in SUBSET S
        BY DEF Greater
      <4> QED
        BY <4>1, FS_Subset, FS_CardinalityType
    <3> QED
      BY <2>2, <3>1, GreaterShrinks
  <2> QED
    BY <2>3
<1>4. f \in Injection(S, T)
  BY <1>2, <1>3 DEF Injection, IsInjective
<1>5. f \in Surjection(S, T)
  BY <1>1, <1>4, FS_Injection
<1>6. \A i \in T : \E x \in S : Cardinality(Greater(S, x)) = i - 1
  <2> SUFFICES ASSUME NEW i \in T PROVE \E x \in S : Cardinality(Greater(S, x)) = i - 1
    OBVIOUS
  <2>1. PICK x \in S : f[x] = i
    BY <1>5 DEF Surjection
  <2>2. Cardinality(Greater(S, x)) + 1 = i /\ Cardinality(Greater(S, x)) + 1 \in T
    BY <1>2, <2>1
  <2>3. Cardinality(Greater(S, x)) \in Nat
    <3>1. Greater(S, x) \in SUBSET S
      BY DEF Greater
    <3> QED
      BY <3>1, FS_Subset, FS_CardinalityType
  <2> QED
    BY <2>2, <2>3
<1> DEFINE At(i) == CHOOSE x \in S : Cardinality(Greater(S, x)) = i - 1
<1>7. Descending(S) = [i \in T |-> At(i)]
  BY DEF Descending, Greater
<1>8. \A i \in T : At(i) \in S /\ Cardinality(Greater(S, At(i))) = i - 1
  BY <1>6
<1> HIDE DEF At
<1>9. \A x \in S : \E i \in T : At(i) = x
  <2> SUFFICES ASSUME NEW x \in S PROVE \E i \in T : At(i) = x
    OBVIOUS
  <2>1. f[x] \in T /\ f[x] = Cardinality(Greater(S, x)) + 1
    BY <1>2
  <2>2. At(f[x]) \in S /\ Cardinality(Greater(S, At(f[x]))) = f[x] - 1
    BY <1>8, <2>1
  <2>3. f[At(f[x])] = f[x] - 1 + 1
    BY <2>2
  <2>4. f[At(f[x])] = f[x]
    BY <2>1, <2>3
  <2> HIDE DEF f
  <2> QED
    BY <1>3, <2>1, <2>2, <2>4
<1> QED
  BY <1>1, <1>7, <1>8, <1>9

\* Farther apart, no more divisions.
LEMMA FewerFarther ==
  ASSUME NEW length \in Positive, NEW d \in Positive, NEW e \in Positive, d <= e
  PROVE  Divisions(length, e) <= Divisions(length, d)
<1>1. PICK n \in Positive : n = Divisions(length, d) /\ Enough(length, d, n)
  BY DivisionsIs
<1>2. Enough(length, e, n)
  <2>1. Fine \in Nat /\ n \in Nat /\ d \in Nat /\ e \in Nat /\ length \in Nat
    BY FineAssumption DEF Positive
  <2>2. PICK x \in Nat : x = 2 * Fine * n + 1
    BY <2>1
  <2>3. d * x <= e * x
    BY <2>1, <2>2
  <2>4. 2 * Fine * length \in Nat /\ d * x \in Nat /\ e * x \in Nat
    BY <2>1, <2>2
  <2>5. 2 * Fine * length <= d * x
    BY <1>1, <2>2 DEF Enough
  <2>6. 2 * Fine * length <= e * x
    BY <2>3, <2>4, <2>5
  <2> QED
    BY <2>2, <2>6 DEF Enough
<1> QED
  BY <1>1, <1>2, DivisionsIs

\* The numbers of divisions whose steps are listed: down to the floor.
Listed(length) == 1 .. Max({1, length \div MinKDistance})

LEMMA ListedIs ==
  ASSUME NEW length \in Positive, NEW k \in Positive
  PROVE  /\ k * MinKDistance <= length => k \in Listed(length)
         /\ k \in Listed(length) => k = 1 \/ k * MinKDistance <= length
         /\ 1 \in Listed(length)
<1>1. MinKDistance \in Nat /\ MinKDistance >= 1 /\ length \in Nat /\ length >= 1 /\ k \in Nat /\ k >= 1
  BY MinKDistanceAssumption DEF Positive
<1>2. PICK v \in Nat : v = length \div MinKDistance /\ v * MinKDistance <= length /\ length < (v + 1) * MinKDistance
  <2> DEFINE v == length \div MinKDistance
             e == length % MinKDistance
  <2>1. v \in Nat /\ e \in Nat /\ length = MinKDistance * v + e /\ e < MinKDistance
    BY <1>1
  <2> HIDE DEF v, e
  <2>2. v * MinKDistance = MinKDistance * v /\ (v + 1) * MinKDistance = MinKDistance * v + MinKDistance
    BY <1>1, <2>1
  <2>3. MinKDistance * v \in Nat
    BY <1>1, <2>1
  <2>4. v * MinKDistance <= length /\ length < (v + 1) * MinKDistance
    BY <1>1, <2>1, <2>2, <2>3
  <2> QED
    BY <2>1, <2>4 DEF v
<1>3. PICK m \in Nat : m = (IF 1 >= v THEN 1 ELSE v) /\ Listed(length) = 1 .. m
  BY <1>2, MaxOfTwo DEF Listed
<1>4. k <= v <=> k * MinKDistance <= length
  <2>1. k <= v => k * MinKDistance <= v * MinKDistance
    BY <1>1, <1>2
  <2>2. k >= v + 1 => k * MinKDistance >= (v + 1) * MinKDistance
    BY <1>1, <1>2
  <2>3. k * MinKDistance \in Nat /\ v * MinKDistance \in Nat /\ (v + 1) * MinKDistance \in Nat
    BY <1>1, <1>2
  <2> QED
    BY <1>1, <1>2, <2>1, <2>2, <2>3
<1> QED
  BY <1>1, <1>2, <1>3, <1>4

\* A step, and how near it is to where the divisions change.
LEMMA StepNear ==
  ASSUME NEW length \in Positive, NEW k \in Listed(length), NEW c, c = Rounded(length, k)
  PROVE  /\ k \in Positive /\ c \in Positive /\ c <= length
         /\ k * (2 * c - 1) <= 2 * length /\ 2 * length <= k * (2 * c + 1)
<1>1. k \in Nat /\ k >= 1
  <2>1. length \div MinKDistance \in Nat
    BY MinKDistanceAssumption DEF Positive
  <2>2. Max({1, length \div MinKDistance}) \in Nat
    BY <2>1, MaxOfTwo
  <2> QED
    BY <2>2 DEF Listed
<1>2. length \in Nat /\ length >= 1 /\ k \in Positive
  BY <1>1 DEF Positive
<1>3. c \in Int /\ k * (2 * c - 1) <= 2 * length /\ 2 * length <= k * (2 * c + 1)
  BY <1>2, RoundedNear
<1>4. k <= length
  <2>1. k = 1 \/ k * MinKDistance <= length
    BY <1>2, ListedIs
  <2>2. MinKDistance \in Nat /\ MinKDistance >= 1
    BY MinKDistanceAssumption
  <2>3. k <= k * MinKDistance /\ k * MinKDistance \in Nat
    BY <1>1, <2>2
  <2> QED
    BY <1>1, <1>2, <2>1, <2>3
<1>5. c >= 1
  <2>1. c <= 0 => k * (2 * c + 1) <= k * 1
    BY <1>1, <1>3
  <2>2. k * (2 * c + 1) \in Int
    BY <1>1, <1>3
  <2> QED
    BY <1>1, <1>2, <1>3, <1>4, <2>1, <2>2
<1>6. c <= length
  <2>1. c >= length + 1 => 2 * c - 1 >= 2 * length + 1
    BY <1>2, <1>3
  <2>2. c >= 1 => 2 * c - 1 <= k * (2 * c - 1)
    BY <1>1, <1>3
  <2>3. k * (2 * c - 1) \in Int
    BY <1>1, <1>3
  <2> QED
    BY <1>2, <1>3, <1>5, <2>1, <2>2, <2>3
<1> QED
  BY <1>2, <1>3, <1>5, <1>6 DEF Positive

LEMMA PointsAre ==
  ASSUME NEW g, NEW x
  PROVE  x \in ChangePoints(g.lengths, g.vacuum) <=>
           \E i \in Axes \ g.vacuum : \E n \in Listed(g.lengths[i]) : x = Rounded(g.lengths[i], n)
<1> DEFINE At(i) == {Rounded(g.lengths[i], n) : n \in Listed(g.lengths[i])}
<1>1. ChangePoints(g.lengths, g.vacuum) = UNION {At(i) : i \in Axes \ g.vacuum}
  BY DEF ChangePoints, Listed
<1>2. \A i : x \in At(i) <=> \E n \in Listed(g.lengths[i]) : x = Rounded(g.lengths[i], n)
  OBVIOUS
<1> HIDE DEF At
<1>3. x \in UNION {At(i) : i \in Axes \ g.vacuum} <=> \E i \in Axes \ g.vacuum : x \in At(i)
  OBVIOUS
<1> QED
  BY <1>1, <1>2, <1>3

LEMMA PointsArePositive ==
  ASSUME NEW g, Shape(g), NEW S, S = ChangePoints(g.lengths, g.vacuum)
  PROVE  S \in SUBSET Nat /\ S \subseteq Positive /\ IsFiniteSet(S)
<1>1. \A i \in Axes : g.lengths[i] \in Positive
  BY DEF Shape
<1> DEFINE b == g.lengths[1] + g.lengths[2] + g.lengths[3]
<1>2. b \in Nat /\ \A i \in Axes : g.lengths[i] <= b /\ g.lengths[i] \in Nat
  <2>1. \A i \in Axes : i = 1 \/ i = 2 \/ i = 3
    BY DEF Axes
  <2>2. g.lengths[1] \in Positive /\ g.lengths[2] \in Positive /\ g.lengths[3] \in Positive
    BY <1>1 DEF Axes
  <2> QED
    BY <2>1, <2>2 DEF Positive
<1>3. \A x \in S : x \in Positive /\ x <= b
  <2> SUFFICES ASSUME NEW x \in S PROVE x \in Positive /\ x <= b
    OBVIOUS
  <2>1. PICK i \in Axes \ g.vacuum : \E n \in Listed(g.lengths[i]) : x = Rounded(g.lengths[i], n)
    BY PointsAre
  <2>2. PICK n \in Listed(g.lengths[i]) : x = Rounded(g.lengths[i], n)
    BY <2>1
  <2>3. x \in Positive /\ x <= g.lengths[i]
    BY <1>1, <2>2, StepNear
  <2> HIDE DEF b
  <2> QED
    BY <1>2, <2>3 DEF Positive
<1> HIDE DEF b
<1> QED
  BY <1>2, <1>3, FS_BoundedSetOfNaturals DEF Positive

\* The greatest step of an axis is its length.
LEMMA LengthIsAStep ==
  ASSUME NEW g, Shape(g), NEW i \in Axes \ g.vacuum
  PROVE  g.lengths[i] \in ChangePoints(g.lengths, g.vacuum)
<1> DEFINE length == g.lengths[i]
<1>1. length \in Positive
  BY DEF Shape
<1>2. 1 \in Listed(length)
  BY <1>1, ListedIs DEF Positive
<1> HIDE DEF length
<1>3. Rounded(length, 1) = length
  <2>1. PICK c \in Int : c = Rounded(length, 1) /\ 2 * c - 1 <= 2 * length /\ 2 * length <= 2 * c + 1
    BY <1>1, <1>2, StepNear DEF Positive
  <2> QED
    BY <1>1, <2>1 DEF Positive
<1>4. \E n \in Listed(g.lengths[i]) : length = Rounded(g.lengths[i], n)
  BY <1>2, <1>3 DEF length
<1> QED
  BY <1>4, PointsAre DEF length

\* A distance further from a step than the roundings reach.
OffStep(distance, step) ==
  \/ 2 * Fine * (distance - step) > 2 * step + Fine
  \/ 2 * Fine * (step - distance) > 2 * step + Fine

\* Within a stretch of no steps, enough divisions are enough in its middle.
LEMMA EnoughInside ==
  ASSUME NEW length \in Positive, NEW lo \in Positive, NEW up \in Positive, NEW d \in Positive,
         MinKDistance <= lo, lo < d, d < up,
         \A k \in Listed(length) : Rounded(length, k) <= lo \/ Rounded(length, k) >= up,
         \A k \in Listed(length) : OffStep(d, Rounded(length, k)),
         NEW n \in Positive, Enough(length, d, n)
  PROVE  Enough(2 * length, lo + up, n)
<1>1. Fine \in Nat /\ Fine >= 1 /\ length \in Nat /\ length >= 1 /\ lo \in Nat /\ lo >= 1 /\ up \in Nat
      /\ d \in Nat /\ n \in Nat /\ n >= 1 /\ MinKDistance \in Nat
  BY FineAssumption, MinKDistanceAssumption DEF Positive
<1>2. PICK p \in Nat : p = Fine * n /\ p >= Fine
  <2>1. Fine * n \in Nat /\ Fine * n >= Fine
    BY <1>1
  <2> QED
    BY <2>1
<1>3. PICK a \in Nat : a = Fine * length
  BY <1>1
<1>4. 2 * a <= d * (2 * p + 1)
  <2>1. 2 * Fine * length = 2 * (Fine * length) /\ 2 * Fine * n = 2 * (Fine * n)
    BY <1>1
  <2> QED
    BY <1>2, <1>3, <2>1 DEF Enough
<1>5. SUFFICES 4 * a <= (lo + up) * (2 * p + 1)
  <2>1. 2 * Fine * (2 * length) = 4 * (Fine * length) /\ 2 * Fine * n = 2 * (Fine * n)
    BY <1>1
  <2> QED
    BY <1>2, <1>3, <2>1 DEF Enough
<1>6. CASE n \in Listed(length)
  <2>1. PICK c \in Positive : /\ c = Rounded(length, n) /\ n * (2 * c - 1) <= 2 * length
                              /\ 2 * length <= n * (2 * c + 1)
    BY <1>6, StepNear
  <2>2. c \in Nat /\ c >= 1
    BY DEF Positive
  <2>3. c <= lo \/ c >= up
    BY <1>6, <2>1
  <2>4. OffStep(d, c)
    BY <1>6, <2>1
  <2>5. p * (2 * c - 1) <= 2 * a /\ 2 * a <= p * (2 * c + 1)
    <3>1. /\ Fine * (n * (2 * c - 1)) <= Fine * (2 * length)
          /\ Fine * (2 * length) <= Fine * (n * (2 * c + 1))
      <4>1. \A x, y \in Int : x <= y => Fine * x <= Fine * y
        BY <1>1
      <4>2. n * (2 * c - 1) \in Int /\ n * (2 * c + 1) \in Int /\ 2 * length \in Int
        BY <1>1, <2>2
      <4> QED
        BY <2>1, <4>1, <4>2
    <3>2. /\ Fine * (n * (2 * c - 1)) = (Fine * n) * (2 * c - 1)
          /\ Fine * (n * (2 * c + 1)) = (Fine * n) * (2 * c + 1)
          /\ Fine * (2 * length) = 2 * (Fine * length)
      BY <1>1, <2>2
    <3> QED
      BY <1>2, <1>3, <3>1, <3>2
  <2>6. CASE c <= lo
    <3>1. 2 * c + 1 <= lo + up
      BY <1>1, <2>2, <2>6
    <3>2. p * (2 * c + 1) <= p * (lo + up)
      BY <1>1, <1>2, <2>2, <3>1
    <3>3. (lo + up) * (2 * p + 1) = 2 * (p * (lo + up)) + lo + up
      BY <1>1, <1>2
    <3>4. p * (2 * c + 1) \in Int /\ p * (lo + up) \in Int
      BY <1>1, <1>2, <2>2
    <3> QED
      BY <1>1, <1>3, <2>5, <3>2, <3>3, <3>4
  <2>7. CASE c >= up
    <3>1. PICK w \in Int : w = 2 * c - 1 - 2 * d
      BY <1>1, <2>2
    <3>2. Fine * w > 2 * c
      <4>1. ~(2 * Fine * (d - c) > 2 * c + Fine)
        <5>1. d - c <= 0
          BY <1>1, <2>2, <2>7
        <5>2. 2 * Fine * (d - c) <= 0
          BY <1>1, <2>2, <5>1
        <5>3. 2 * Fine * (d - c) \in Int
          BY <1>1, <2>2
        <5> QED
          BY <1>1, <2>2, <5>2, <5>3
      <4>2. 2 * Fine * (c - d) > 2 * c + Fine
        BY <2>4, <4>1 DEF OffStep
      <4>3. Fine * w = 2 * Fine * (c - d) - Fine
        BY <1>1, <2>2, <3>1
      <4>4. 2 * Fine * (c - d) \in Int
        BY <1>1, <2>2
      <4> QED
        BY <1>1, <2>2, <4>2, <4>3, <4>4
    <3>3. w >= 1
      <4>1. w <= 0 => Fine * w <= 0
        BY <1>1, <3>1
      <4>2. Fine * w \in Int
        BY <1>1, <3>1
      <4> QED
        BY <2>2, <3>1, <3>2, <4>1, <4>2
    <3>4. p * w >= Fine * w
      BY <1>1, <1>2, <3>1, <3>3
    <3>5. p * w = p * (2 * c - 1) - 2 * (p * d) /\ d * (2 * p + 1) = 2 * (p * d) + d
      BY <1>1, <1>2, <2>2, <3>1
    <3>6. p * w \in Int /\ Fine * w \in Int /\ p * (2 * c - 1) \in Int /\ p * d \in Int
      BY <1>1, <1>2, <2>2, <3>1
    <3>7. p * w <= d
      BY <1>1, <1>3, <1>4, <2>5, <3>5, <3>6
    <3> QED
      BY <1>1, <2>2, <2>7, <3>2, <3>4, <3>6, <3>7
  <2> QED
    BY <2>3, <2>6, <2>7
<1>7. CASE n \notin Listed(length)
  <2>1. length < n * MinKDistance
    <3>1. ~(n * MinKDistance <= length)
      BY <1>7, ListedIs
    <3>2. n * MinKDistance \in Nat
      BY <1>1
    <3> QED
      BY <1>1, <3>1, <3>2
  <2>2. n * MinKDistance <= n * lo
    BY <1>1
  <2>3. length <= n * lo
    <3>1. n * MinKDistance \in Nat /\ n * lo \in Nat
      BY <1>1
    <3> QED
      BY <1>1, <2>1, <2>2, <3>1
  <2>4. a <= p * lo
    <3>1. Fine * length <= Fine * (n * lo) /\ Fine * (n * lo) = (Fine * n) * lo
      <4>1. \A x, y \in Int : x <= y => Fine * x <= Fine * y
        BY <1>1
      <4>2. n * lo \in Int
        BY <1>1
      <4> QED
        BY <1>1, <2>3, <4>1, <4>2
    <3> QED
      BY <1>2, <1>3, <3>1
  <2>5. p * (2 * lo) <= p * (lo + up)
    BY <1>1, <1>2
  <2>6. (lo + up) * (2 * p + 1) = 2 * (p * (lo + up)) + lo + up /\ p * (2 * lo) = 2 * (p * lo)
    BY <1>1, <1>2
  <2>7. p * lo \in Nat /\ p * (lo + up) \in Nat
    BY <1>1, <1>2
  <2> QED
    BY <1>1, <1>3, <2>4, <2>5, <2>6, <2>7
<1> QED
  BY <1>6, <1>7

\* And too few of them are too few.
LEMMA FewerInside ==
  ASSUME NEW length \in Positive, NEW lo \in Positive, NEW up \in Positive, NEW d \in Positive,
         MinKDistance <= lo, lo < d, d < up, OffStep(d, lo), OffStep(d, up),
         \A k \in Listed(length) : Rounded(length, k) <= lo \/ Rounded(length, k) >= up,
         NEW m \in Positive, ~Enough(length, d, m)
  PROVE  ~Enough(2 * length, lo + up, m)
<1>1. Fine \in Nat /\ Fine >= 1 /\ length \in Nat /\ length >= 1 /\ lo \in Nat /\ lo >= 1 /\ up \in Nat
      /\ d \in Nat /\ m \in Nat /\ m >= 1 /\ MinKDistance \in Nat
  BY FineAssumption, MinKDistanceAssumption DEF Positive
<1>2. PICK q \in Nat : q = Fine * m /\ q >= Fine
  <2>1. Fine * m \in Nat /\ Fine * m >= Fine
    BY <1>1
  <2> QED
    BY <2>1
<1>3. PICK a \in Nat : a = Fine * length
  BY <1>1
<1>4. d * (2 * q + 1) < 2 * a
  <2>1. 2 * Fine * length = 2 * (Fine * length) /\ 2 * Fine * m = 2 * (Fine * m)
    BY <1>1
  <2>2. ~(2 * a <= d * (2 * q + 1))
    BY <1>2, <1>3, <2>1 DEF Enough
  <2>3. d * (2 * q + 1) \in Int
    BY <1>1, <1>2
  <2> QED
    BY <1>3, <2>2, <2>3
<1>5. SUFFICES (lo + up) * (2 * q + 1) < 4 * a
  <2>1. 2 * Fine * (2 * length) = 4 * (Fine * length) /\ 2 * Fine * m = 2 * (Fine * m)
    BY <1>1
  <2>2. (lo + up) * (2 * q + 1) \in Int
    BY <1>1, <1>2
  <2> QED
    BY <1>2, <1>3, <2>1, <2>2 DEF Enough
<1>6. m \in Listed(length)
  <2>1. d * (2 * q + 1) = 2 * (q * d) + d /\ q * d \in Nat
    BY <1>1, <1>2
  <2>2. q * d < a
    BY <1>1, <1>3, <1>4, <2>1
  <2>3. q * d = Fine * (m * d)
    BY <1>1, <1>2
  <2>4. m * d < length
    <3>1. \A x, y \in Int : x <= y => Fine * x <= Fine * y
      BY <1>1
    <3>2. m * d \in Int
      BY <1>1
    <3>3. length <= m * d => Fine * length <= Fine * (m * d)
      BY <1>1, <3>1, <3>2
    <3>4. ~(length <= m * d)
      BY <1>3, <2>1, <2>2, <2>3, <3>3
    <3> QED
      BY <1>1, <3>2, <3>4
  <2>5. m * MinKDistance <= m * d
    BY <1>1
  <2>6. m * MinKDistance <= length
    <3>1. m * MinKDistance \in Nat /\ m * d \in Nat
      BY <1>1
    <3> QED
      BY <1>1, <2>4, <2>5, <3>1
  <2> QED
    BY <2>6, ListedIs
<1>7. PICK c \in Positive : /\ c = Rounded(length, m) /\ m * (2 * c - 1) <= 2 * length
                            /\ 2 * length <= m * (2 * c + 1)
  BY <1>6, StepNear
<1>8. c \in Nat /\ c >= 1
  BY DEF Positive
<1>9. q * (2 * c - 1) <= 2 * a /\ 2 * a <= q * (2 * c + 1)
  <2>1. /\ Fine * (m * (2 * c - 1)) <= Fine * (2 * length)
        /\ Fine * (2 * length) <= Fine * (m * (2 * c + 1))
    <3>1. \A x, y \in Int : x <= y => Fine * x <= Fine * y
      BY <1>1
    <3>2. m * (2 * c - 1) \in Int /\ m * (2 * c + 1) \in Int /\ 2 * length \in Int
      BY <1>1, <1>8
    <3> QED
      BY <1>7, <3>1, <3>2
  <2>2. /\ Fine * (m * (2 * c - 1)) = (Fine * m) * (2 * c - 1)
        /\ Fine * (m * (2 * c + 1)) = (Fine * m) * (2 * c + 1)
        /\ Fine * (2 * length) = 2 * (Fine * length)
    BY <1>1, <1>8
  <2> QED
    BY <1>2, <1>3, <2>1, <2>2
<1>10. c >= up
  <2>1. d <= c
    <3> SUFFICES ASSUME c + 1 <= d PROVE FALSE
      BY <1>1, <1>8
    <3>1. q * (2 * c + 1) <= q * (2 * d - 1)
      BY <1>1, <1>2, <1>8
    <3>2. q * (2 * d - 1) = 2 * (q * d) - q /\ d * (2 * q + 1) = 2 * (q * d) + d
      BY <1>1, <1>2
    <3>3. q * (2 * c + 1) \in Int /\ q * d \in Int
      BY <1>1, <1>2, <1>8
    <3> QED
      BY <1>1, <1>2, <1>3, <1>4, <1>9, <3>1, <3>2, <3>3
  <2>2. c <= lo \/ c >= up
    BY <1>6, <1>7
  <2> QED
    BY <1>1, <1>8, <2>1, <2>2
<1>11. PICK w \in Int : w = up - lo - 1
  BY <1>1
<1>12. Fine * w > lo + up
  <2>1. 2 * Fine * (d - lo) > 2 * lo + Fine
    <3>1. 2 * Fine * (lo - d) <= 0
      BY <1>1
    <3>2. 2 * Fine * (lo - d) \in Int
      BY <1>1
    <3>3. ~(2 * Fine * (lo - d) > 2 * lo + Fine)
      BY <1>1, <3>1, <3>2
    <3> QED
      BY <3>3 DEF OffStep
  <2>2. 2 * Fine * (up - d) > 2 * up + Fine
    <3>1. 2 * Fine * (d - up) <= 0
      BY <1>1
    <3>2. 2 * Fine * (d - up) \in Int
      BY <1>1
    <3>3. ~(2 * Fine * (d - up) > 2 * up + Fine)
      BY <1>1, <3>1, <3>2
    <3> QED
      BY <3>3 DEF OffStep
  <2>3. 2 * (Fine * w) = 2 * Fine * (d - lo) + 2 * Fine * (up - d) - 2 * Fine
    BY <1>1, <1>11
  <2>4. Fine * w \in Int /\ 2 * Fine * (d - lo) \in Int /\ 2 * Fine * (up - d) \in Int
    BY <1>1, <1>11
  <2> QED
    BY <1>1, <2>1, <2>2, <2>3, <2>4
<1>13. w >= 1
  <2>1. w <= 0 => Fine * w <= 0
    BY <1>1, <1>11
  <2>2. Fine * w \in Int
    BY <1>1, <1>11
  <2> QED
    BY <1>1, <1>11, <1>12, <2>1, <2>2
<1>14. q * w >= Fine * w
  BY <1>1, <1>2, <1>11, <1>13
<1>15. q * (2 * up - 1) <= q * (2 * c - 1)
  BY <1>1, <1>2, <1>8, <1>10
<1>16. 2 * (q * (2 * up - 1)) = (lo + up) * (2 * q + 1) + 2 * (q * w) - (lo + up)
  BY <1>1, <1>2, <1>11
<1>17. /\ q * w \in Int /\ Fine * w \in Int /\ q * (2 * up - 1) \in Int /\ q * (2 * c - 1) \in Int
       /\ (lo + up) * (2 * q + 1) \in Int
  BY <1>1, <1>2, <1>8, <1>11
<1>18. 2 * (q * (2 * up - 1)) <= 4 * a
  BY <1>3, <1>9, <1>15, <1>17
<1> QED
  BY <1>1, <1>3, <1>12, <1>14, <1>16, <1>17, <1>18

\* Twice the distance at which a rung's mesh is read: halfway to the next step.
Middle(S, s) == IF Greater(S, s) = {} THEN 2 * (s + Angstrom) ELSE s + Min(Greater(S, s))

LEMMA NextIs ==
  ASSUME NEW S \in SUBSET Positive, NEW s \in Positive, Greater(S, s) # {}
  PROVE  /\ Min(Greater(S, s)) \in S /\ Min(Greater(S, s)) \in Positive /\ Min(Greater(S, s)) > s
         /\ \A x \in S : x <= s \/ x >= Min(Greater(S, s))
<1>1. Greater(S, s) \in SUBSET Nat /\ Greater(S, s) \subseteq S /\ \A x \in Greater(S, s) : x > s
  BY DEF Greater, Positive
<1>2. Min(Greater(S, s)) \in Greater(S, s) /\ \A x \in Greater(S, s) : Min(Greater(S, s)) <= x
  BY <1>1, MinIs
<1>3. \A x \in S : x \in Greater(S, s) \/ x <= s
  BY DEF Greater, Positive
<1>4. PICK m \in Positive : m = Min(Greater(S, s))
  BY <1>1, <1>2
<1> QED
  BY <1>1, <1>2, <1>3, <1>4 DEF Positive

LEMMA MiddleIs ==
  ASSUME NEW S \in SUBSET Positive, NEW s \in Positive
  PROVE  Middle(S, s) \in Positive /\ Middle(S, s) > 2 * s
<1>1. Angstrom \in Positive
  BY HundredthAssumption DEF Angstrom, Positive
<1>2. CASE Greater(S, s) = {}
  BY <1>1, <1>2 DEF Middle, Positive
<1>3. CASE Greater(S, s) # {}
  <2>1. PICK m \in Positive : m = Min(Greater(S, s)) /\ m > s
    BY <1>3, NextIs
  <2>2. Middle(S, s) = s + m
    BY <1>3, <2>1 DEF Middle
  <2> QED
    BY <2>1, <2>2 DEF Positive
<1> QED
  BY <1>2, <1>3

LEMMA MiddleGrows ==
  ASSUME NEW S \in SUBSET Positive, NEW s \in S, NEW t \in S, s < t
  PROVE  Middle(S, s) <= Middle(S, t)
<1>1. s \in Positive /\ t \in Positive /\ t \in Greater(S, s)
  BY DEF Greater
<1>2. PICK m \in Positive : m = Min(Greater(S, s)) /\ m > s /\ \A x \in S : x <= s \/ x >= m
  BY <1>1, NextIs
<1>3. m <= t
  BY <1>1, <1>2 DEF Positive
<1>4. Middle(S, s) = s + m
  BY <1>1, <1>2 DEF Middle
<1>5. PICK z \in Positive : z = Middle(S, t) /\ z > 2 * t
  BY <1>1, MiddleIs
<1> QED
  BY <1>1, <1>2, <1>3, <1>4, <1>5 DEF Positive

\* The same survey, of lengths twice as long.
Doubled(g) ==
  [rotations |-> g.rotations, vacuum |-> g.vacuum, lengths |-> [i \in Axes |-> 2 * g.lengths[i]]]

\* The mesh down to a step of a survey's own.
DownTo(g, s) == MeshDownTo(g.lengths, g.vacuum, ChangePoints(g.lengths, g.vacuum), s)

LEMMA DownToIs ==
  ASSUME NEW g, NEW s
  PROVE  DownTo(g, s) = MeshOf(Doubled(g).lengths, g.vacuum, Middle(ChangePoints(g.lengths, g.vacuum), s))
BY DEF DownTo, MeshDownTo, Doubled, Middle, Greater

LEMMA DoubledShape ==
  ASSUME NEW g, Shape(g)
  PROVE  Shape(Doubled(g))
<1>1. \A i \in Axes : 2 * g.lengths[i] \in Positive
  BY DEF Shape, Positive
<1>2. Doubled(g).lengths \in [Axes -> Positive] /\ \A i \in Axes : Doubled(g).lengths[i] = 2 * g.lengths[i]
  BY <1>1 DEF Doubled
<1>3. Doubled(g).rotations = g.rotations /\ Doubled(g).vacuum = g.vacuum
  BY DEF Doubled
<1>4. \A p \in MixingPairs(g.rotations) : p[1] \in Axes /\ p[2] \in Axes
  BY DEF MixingPairs
<1> HIDE DEF Doubled
<1> QED
  BY <1>2, <1>3, <1>4 DEF Shape

\* The mesh of a rung is even.
LEMMA DownToIsEven ==
  ASSUME NEW g, Shape(g), NEW s \in ChangePoints(g.lengths, g.vacuum)
  PROVE  Even(g, DownTo(g, s))
<1> DEFINE S == ChangePoints(g.lengths, g.vacuum)
           e == Doubled(g)
<1>1. Shape(e) /\ e.vacuum = g.vacuum /\ e.rotations = g.rotations
  BY DoubledShape DEF Doubled
<1>2. Middle(S, s) \in Positive
  BY PointsArePositive, MiddleIs
<1>3. DownTo(g, s) = MeshOf(e.lengths, e.vacuum, Middle(S, s))
  BY <1>1, DownToIs
<1> HIDE DEF S, e
<1>4. Even(e, DownTo(g, s))
  BY <1>1, <1>2, <1>3, MeshIsEven
<1> QED
  BY <1>1, <1>4 DEF Even

\* Down to a lower step there are no fewer divisions.
LEMMA DenserBelow ==
  ASSUME NEW g, Shape(g), NEW s \in ChangePoints(g.lengths, g.vacuum),
         NEW t \in ChangePoints(g.lengths, g.vacuum), s <= t, NEW i \in Axes
  PROVE  /\ DownTo(g, s)[i] \in Nat /\ DownTo(g, t)[i] \in Nat
         /\ DownTo(g, t)[i] <= DownTo(g, s)[i]
<1> DEFINE S == ChangePoints(g.lengths, g.vacuum)
           low == Middle(S, s)
           high == Middle(S, t)
           lengths == Doubled(g).lengths
<1>1. S \in SUBSET Positive /\ s \in Positive /\ t \in Positive
  BY PointsArePositive
<1>2. low \in Positive /\ high \in Positive /\ low <= high
  <2>1. low \in Positive /\ high \in Positive
    BY <1>1, MiddleIs
  <2>2. s < t \/ s = t
    BY <1>1 DEF Positive
  <2>3. s < t => low <= high
    BY <1>1, MiddleGrows
  <2> HIDE DEF low, high
  <2>4. s = t => low = high
    BY DEF low, high
  <2> QED
    BY <2>1, <2>2, <2>3, <2>4 DEF Positive
<1>3. lengths[i] \in Positive
  BY DoubledShape DEF Shape
<1>4. /\ DownTo(g, s)[i] = IF i \in g.vacuum THEN 1 ELSE Divisions(lengths[i], low)
      /\ DownTo(g, t)[i] = IF i \in g.vacuum THEN 1 ELSE Divisions(lengths[i], high)
  BY DownToIs DEF MeshOf
<1> HIDE DEF S, low, high, lengths
<1>5. Divisions(lengths[i], low) \in Positive /\ Divisions(lengths[i], high) \in Positive
  BY <1>2, <1>3, DivisionsIs
<1>6. Divisions(lengths[i], high) <= Divisions(lengths[i], low)
  BY <1>2, <1>3, FewerFarther
<1> QED
  BY <1>4, <1>5, <1>6 DEF Positive

\* Between two steps the mesh is that of the middle, above the floor.
LEMMA SteadyInside ==
  ASSUME NEW g, Shape(g), NEW S, S = ChangePoints(g.lengths, g.vacuum), NEW p \in S, MinKDistance <= p,
         NEW d \in Positive, p < d, \A x \in S : x <= p \/ d < x, \A x \in S : OffStep(d, x)
  PROVE  MeshOf(g.lengths, g.vacuum, d) = DownTo(g, p)
<1>1. S \in SUBSET Positive /\ p \in Positive
  BY PointsArePositive
<1> DEFINE middle == Middle(S, p)
<1>2. middle \in Positive
  BY <1>1, MiddleIs
<1>3. ASSUME NEW i \in Axes \ g.vacuum
      PROVE  Divisions(g.lengths[i], d) = Divisions(2 * g.lengths[i], middle)
  <2>1. PICK length \in Positive : length = g.lengths[i]
    BY DEF Shape
  <2>2. \A k \in Listed(length) : Rounded(length, k) \in S
    <3>1. \A k \in Listed(length) : \E n \in Listed(g.lengths[i]) : Rounded(length, k) = Rounded(g.lengths[i], n)
      BY <2>1
    <3> QED
      BY <3>1, PointsAre
  <2>3. 2 * length \in Positive
    BY DEF Positive
  <2>4. PICK n \in Positive : /\ n = Divisions(length, d) /\ Enough(length, d, n)
                              /\ \A m \in Positive : Enough(length, d, m) => n <= m
    BY DivisionsIs
  <2>5. PICK k \in Positive : /\ k = Divisions(2 * length, middle) /\ Enough(2 * length, middle, k)
                              /\ \A m \in Positive : Enough(2 * length, middle, m) => k <= m
    BY <1>2, <2>3, DivisionsIs
  <2> HIDE DEF middle
  <2>6. CASE Greater(S, p) # {}
    <3>1. PICK up \in Positive : /\ up = Min(Greater(S, p)) /\ up \in S /\ up > p
                                 /\ \A x \in S : x <= p \/ x >= up
      BY <1>1, <2>6, NextIs
    <3>2. middle = p + up
      BY <2>6, <3>1 DEF middle, Middle
    <3>3. d < up /\ OffStep(d, p) /\ OffStep(d, up)
      BY <1>1, <3>1 DEF Positive
    <3>4. /\ \A j \in Listed(length) : Rounded(length, j) <= p \/ Rounded(length, j) >= up
          /\ \A j \in Listed(length) : OffStep(d, Rounded(length, j))
      BY <2>2, <3>1
    <3>5. Enough(2 * length, middle, n)
      BY <1>1, <2>4, <3>2, <3>3, <3>4, EnoughInside
    <3>6. Enough(length, d, k)
      <4> SUFFICES ASSUME ~Enough(length, d, k) PROVE FALSE
        OBVIOUS
      <4>1. ~Enough(2 * length, p + up, k)
        BY <1>1, <3>3, <3>4, FewerInside
      <4> QED
        BY <2>5, <3>2, <4>1
    <3>7. n <= k /\ k <= n
      BY <2>4, <2>5, <3>5, <3>6
    <3> QED
      BY <2>1, <2>4, <2>5, <3>7 DEF Positive
  <2>7. CASE Greater(S, p) = {}
    <3>1. length <= p
      <4>1. length \in S
        BY <2>1, LengthIsAStep
      <4>2. ~(length > p)
        BY <2>7, <4>1 DEF Greater
      <4> QED
        BY <1>1, <4>2 DEF Positive
    <3>2. middle = 2 * (p + Angstrom) /\ Angstrom \in Nat
      BY <2>7, HundredthAssumption DEF middle, Middle, Angstrom
    <3>3. Enough(length, d, 1) /\ Enough(2 * length, middle, 1)
      <4>1. length \in Nat /\ d \in Nat /\ middle \in Nat /\ Fine \in Nat /\ p \in Nat
        BY <1>1, <1>2, FineAssumption DEF Positive
      <4>2. length <= d /\ 2 * length <= middle
        BY <3>1, <3>2, <4>1
      <4>3. \A x, y \in Nat : x <= y => 2 * Fine * x <= y * (2 * Fine * 1 + 1)
        <5> SUFFICES ASSUME NEW x \in Nat, NEW y \in Nat, x <= y
                     PROVE  2 * Fine * x <= y * (2 * Fine * 1 + 1)
          OBVIOUS
        <5>1. 2 * Fine * x <= 2 * Fine * y
          BY <4>1
        <5>2. y * (2 * Fine * 1 + 1) = 2 * Fine * y + y
          BY <4>1
        <5>3. 2 * Fine * x \in Nat /\ 2 * Fine * y \in Nat
          BY <4>1
        <5> QED
          BY <5>1, <5>2, <5>3
      <4> QED
        BY <4>1, <4>2, <4>3 DEF Enough
    <3>4. n <= 1 /\ k <= 1
      BY <2>4, <2>5, <3>3 DEF Positive
    <3> QED
      BY <2>1, <2>4, <2>5, <3>4 DEF Positive
  <2> QED
    BY <2>6, <2>7
<1>4. DownTo(g, p) = [i \in Axes |-> IF i \in g.vacuum THEN 1 ELSE Divisions(2 * g.lengths[i], middle)]
  BY DownToIs DEF MeshOf, Doubled
<1> HIDE DEF middle
<1> QED
  BY <1>3, <1>4 DEF MeshOf

Lower(S, s) == {x \in S : x < s}

LEMMA PreviousIs ==
  ASSUME NEW S \in SUBSET Positive, NEW s \in Positive, Lower(S, s) # {}
  PROVE  /\ Max(Lower(S, s)) \in S /\ Max(Lower(S, s)) \in Positive /\ Max(Lower(S, s)) < s
         /\ \A x \in S : x < s => x <= Max(Lower(S, s))
<1>1. Lower(S, s) \in SUBSET Nat /\ Lower(S, s) \subseteq S /\ \A x \in Lower(S, s) : x < s /\ x <= s
  <2>1. \A x \in S : x \in Nat /\ (x < s => x <= s)
    BY DEF Positive
  <2>2. \A x \in Lower(S, s) : x \in S /\ x < s
    BY DEF Lower
  <2> QED
    BY <2>1, <2>2
<1>2. s \in Nat
  BY DEF Positive
<1>3. Max(Lower(S, s)) \in Lower(S, s) /\ \A x \in Lower(S, s) : Max(Lower(S, s)) >= x
  BY <1>1, <1>2, MaxIs
<1>4. \A x \in S : x < s => x \in Lower(S, s)
  BY DEF Lower
<1>5. PICK m \in Positive : m = Max(Lower(S, s))
  BY <1>1, <1>3
<1> QED
  BY <1>1, <1>3, <1>4, <1>5 DEF Positive

\* The steps at which a rung ends below.
LowEnds(g) == RungEnds(g.lengths, g.vacuum, ChangePoints(g.lengths, g.vacuum))

LEMMA EndsAre ==
  ASSUME NEW g, NEW S, S = ChangePoints(g.lengths, g.vacuum)
  PROVE  /\ LowEnds(g) \subseteq S
         /\ \A s \in S : s \in LowEnds(g) <=> Lower(S, s) = {} \/ DownTo(g, Max(Lower(S, s))) # DownTo(g, s)
BY DEF LowEnds, RungEnds, DownTo, Lower

\* There is a rung, since the least step ends one.
LEMMA LeastEnds ==
  ASSUME NEW g, Shape(g), ChangePoints(g.lengths, g.vacuum) # {}
  PROVE  LowEnds(g) # {}
<1> DEFINE S == ChangePoints(g.lengths, g.vacuum)
<1>1. S \in SUBSET Nat
  BY PointsArePositive
<1>2. PICK x \in S : \A y \in S : x <= y
  BY <1>1, LeastOf
<1>3. Lower(S, x) = {}
  BY <1>1, <1>2 DEF Lower
<1> QED
  BY <1>2, <1>3, EndsAre

\* Two rungs have different meshes.
LEMMA EndsDiffer ==
  ASSUME NEW g, Shape(g), NEW r \in LowEnds(g), NEW t \in LowEnds(g), r < t
  PROVE  DownTo(g, r) # DownTo(g, t)
<1> DEFINE S == ChangePoints(g.lengths, g.vacuum)
<1>1. S \in SUBSET Positive /\ r \in S /\ t \in S /\ r \in Positive /\ t \in Positive
  BY PointsArePositive, EndsAre
<1>2. Lower(S, t) # {}
  BY <1>1 DEF Lower
<1>3. PICK b \in S : b = Max(Lower(S, t)) /\ b < t /\ r <= b
  BY <1>1, <1>2, PreviousIs
<1>4. DownTo(g, b) # DownTo(g, t)
  BY <1>1, <1>2, <1>3, EndsAre
<1>5. DownTo(g, b) \in Counts /\ DownTo(g, t) \in Counts
  BY <1>1, <1>3, DownToIsEven DEF Even
<1>6. b <= t
  BY <1>1, <1>3 DEF Positive
<1> SUFFICES ASSUME DownTo(g, r) = DownTo(g, t) PROVE FALSE
  OBVIOUS
<1>7. \A i \in Axes : DownTo(g, b)[i] = DownTo(g, t)[i]
  <2> SUFFICES ASSUME NEW i \in Axes PROVE DownTo(g, b)[i] = DownTo(g, t)[i]
    OBVIOUS
  <2>1. /\ DownTo(g, b)[i] \in Nat /\ DownTo(g, t)[i] \in Nat
        /\ DownTo(g, t)[i] <= DownTo(g, b)[i]
    BY <1>1, <1>3, <1>6, DenserBelow
  <2>2. DownTo(g, b)[i] <= DownTo(g, r)[i]
    BY <1>1, <1>3, DenserBelow
  <2> QED
    BY <2>1, <2>2
<1>8. DownTo(g, b) = DownTo(g, t)
  BY <1>5, <1>7 DEF Counts
<1> QED
  BY <1>4, <1>8

\* Above the end of a rung, up to the next end, every step has the rung's mesh.
LEMMA OneRung ==
  ASSUME NEW g, Shape(g), NEW r \in LowEnds(g), NEW p \in ChangePoints(g.lengths, g.vacuum), r <= p,
         \A s \in LowEnds(g) : s <= r \/ s > p
  PROVE  DownTo(g, p) = DownTo(g, r)
<1> DEFINE S == ChangePoints(g.lengths, g.vacuum)
           Other == {s \in S : r <= s /\ s <= p /\ DownTo(g, s) # DownTo(g, r)}
<1>1. S \in SUBSET Positive /\ S \in SUBSET Nat /\ r \in S /\ r \in Positive /\ p \in Positive
  BY PointsArePositive, EndsAre
<1> SUFFICES ASSUME DownTo(g, p) # DownTo(g, r) PROVE FALSE
  OBVIOUS
<1>2. p \in Other /\ Other \in SUBSET Nat
  BY <1>1 DEF Positive
<1>3. PICK t \in Other : \A s \in Other : t <= s
  BY <1>2, LeastOf
<1>4. t \in S /\ t \in Positive /\ r <= t /\ t <= p /\ DownTo(g, t) # DownTo(g, r)
  BY <1>1, <1>3
<1>5. r < t
  <2>1. r # t
    BY <1>4
  <2> QED
    BY <1>1, <1>4, <2>1 DEF Positive
<1>6. t \notin LowEnds(g)
  BY <1>1, <1>4, <1>5 DEF Positive
<1>7. Lower(S, t) # {}
  BY <1>1, <1>5 DEF Lower
<1>8. DownTo(g, Max(Lower(S, t))) = DownTo(g, t)
  BY <1>4, <1>6, EndsAre
<1>9. PICK b \in Positive : b = Max(Lower(S, t)) /\ b \in S /\ b < t /\ r <= b
  BY <1>1, <1>4, <1>5, <1>7, PreviousIs
<1>10. b <= p
  BY <1>1, <1>4, <1>9 DEF Positive
<1>11. b \in Other
  BY <1>4, <1>8, <1>9, <1>10
<1>12. t <= b
  BY <1>3, <1>11
<1> QED
  BY <1>4, <1>9, <1>12 DEF Positive

LEMMA PointsDescend ==
  ASSUME NEW S \in SUBSET Nat, IsFiniteSet(S), NEW i \in 1 .. Cardinality(S), NEW j \in 1 .. Cardinality(S), i < j
  PROVE  Descending(S)[i] > Descending(S)[j]
<1> DEFINE x == Descending(S)[i]
           y == Descending(S)[j]
<1>1. x \in S /\ y \in S /\ Cardinality(S) \in Nat
  BY DescendingIs
<1>2. Cardinality(Greater(S, x)) = i - 1 /\ Cardinality(Greater(S, y)) = j - 1
  BY DescendingIs
<1> HIDE DEF x, y
<1>3. x # y
  BY <1>1, <1>2
<1>4. ~(x < y)
  <2> SUFFICES ASSUME x < y PROVE FALSE
    OBVIOUS
  <2>1. Cardinality(Greater(S, y)) < Cardinality(Greater(S, x))
    BY <1>1, GreaterShrinks
  <2> QED
    BY <1>1, <1>2, <2>1
<1>5. x > y
  BY <1>1, <1>3, <1>4
<1> QED
  BY <1>5 DEF x, y

\* A cell with vacuum along every axis has one rung, and one mesh.
LEMMA LadderOfNoSteps ==
  ASSUME NEW g, Shape(g), ChangePoints(g.lengths, g.vacuum) = {}, NEW d
  PROVE  /\ Ladder(g.lengths, g.vacuum) =
              <<[mesh |-> MeshOf(g.lengths, g.vacuum, Angstrom), low |-> 0, high |-> None]>>
         /\ MeshOf(g.lengths, g.vacuum, d) = MeshOf(g.lengths, g.vacuum, Angstrom)
<1>1. Axes \ g.vacuum = {}
  BY LengthIsAStep
<1>2. \A x : MeshOf(g.lengths, g.vacuum, x) = [i \in Axes |-> 1]
  BY <1>1 DEF MeshOf
<1> QED
  BY <1>2 DEF Ladder

\* Each of the n ends of rungs begins one, down the ladder.
GoesDown(g, S, n, ends, ladder) ==
  /\ n \in Positive /\ Len(ladder) = n /\ DOMAIN ladder = 1 .. n
  /\ LowEnds(g) \in SUBSET Nat /\ IsFiniteSet(LowEnds(g))
  /\ \A i \in 1 .. n :
       /\ ends[i] \in LowEnds(g) /\ ends[i] \in S /\ ends[i] \in Positive
       /\ ladder[i].low = ends[i] /\ ladder[i].high = IF i = 1 THEN None ELSE ends[i - 1]
       /\ ladder[i].mesh = DownTo(g, ends[i])
  /\ \A x \in LowEnds(g) : \E i \in 1 .. n : ends[i] = x

\* The rungs: each ends below at a step, with the mesh down to it.
LEMMA LadderIs ==
  ASSUME NEW g, Shape(g), NEW S, S = ChangePoints(g.lengths, g.vacuum), S # {},
         NEW n, n = Cardinality(LowEnds(g)), NEW ends, ends = Descending(LowEnds(g)),
         NEW ladder, ladder = Ladder(g.lengths, g.vacuum)
  PROVE  GoesDown(g, S, n, ends, ladder)
<1>1. S \in SUBSET Nat /\ S \subseteq Positive /\ IsFiniteSet(S)
  BY PointsArePositive
<1>2. LowEnds(g) \subseteq S /\ LowEnds(g) \in SUBSET Nat /\ IsFiniteSet(LowEnds(g)) /\ LowEnds(g) # {}
  BY <1>1, EndsAre, LeastEnds, FS_Subset
<1>3. n \in Nat /\ ends \in [1 .. n -> LowEnds(g)] /\ \A x \in LowEnds(g) : \E i \in 1 .. n : ends[i] = x
  BY <1>2, DescendingIs
<1>4. n \in Positive
  <2>1. PICK x \in LowEnds(g) : TRUE
    BY <1>2
  <2>2. PICK i \in 1 .. n : ends[i] = x
    BY <1>3, <2>1
  <2> QED
    BY <1>3, <2>2 DEF Positive
<1>5. Len(ends) = n
  <2>1. ends \in Seq(LowEnds(g))
    BY <1>3, IsASeq
  <2>2. DOMAIN ends = 1 .. Len(ends) /\ Len(ends) \in Nat /\ DOMAIN ends = 1 .. n
    BY <1>3, <2>1, LenProperties
  <2> QED
    BY <1>3, <2>2
<1>6. ladder = [k \in 1 .. n |->
                 [ mesh |-> DownTo(g, ends[k]), low |-> ends[k],
                   high |-> IF k = 1 THEN None ELSE ends[k - 1] ]]
  <2>1. ladder = [k \in 1 .. Len(ends) |->
                   [ mesh |-> DownTo(g, ends[k]), low |-> ends[k],
                     high |-> IF k = 1 THEN None ELSE ends[k - 1] ]]
    BY DEF Ladder, LowEnds, DownTo
  <2> QED
    BY <1>5, <2>1
<1>7. Len(ladder) = n /\ DOMAIN ladder = 1 .. n
  <2> DEFINE T == {ladder[k] : k \in 1 .. n}
  <2>1. ladder \in [1 .. n -> T]
    BY <1>6
  <2> HIDE DEF T
  <2>2. ladder \in Seq(T)
    BY <1>3, <2>1, IsASeq
  <2>3. DOMAIN ladder = 1 .. Len(ladder) /\ Len(ladder) \in Nat /\ DOMAIN ladder = 1 .. n
    BY <1>6, <2>2, LenProperties
  <2> QED
    BY <1>3, <2>3
<1>8. \A i \in 1 .. n : ends[i] \in LowEnds(g) /\ ends[i] \in S /\ ends[i] \in Positive
  BY <1>1, <1>2, <1>3
<1>9. \A i \in 1 .. n :
        /\ ladder[i].low = ends[i] /\ ladder[i].high = IF i = 1 THEN None ELSE ends[i - 1]
        /\ ladder[i].mesh = DownTo(g, ends[i])
  BY <1>6
<1> QED
  BY <1>2, <1>3, <1>4, <1>7, <1>8, <1>9 DEF GoesDown

LEMMA LadderLength ==
  ASSUME NEW g, Shape(g), NEW ladder, ladder = Ladder(g.lengths, g.vacuum)
  PROVE  Len(ladder) \in Nat /\ DOMAIN ladder = 1 .. Len(ladder)
<1>1. CASE ChangePoints(g.lengths, g.vacuum) = {}
  BY <1>1, LadderOfNoSteps
<1>2. CASE ChangePoints(g.lengths, g.vacuum) # {}
  BY <1>2, LadderIs DEF Positive, GoesDown
<1> QED
  BY <1>1, <1>2

\* The mesh of every rung is even.
LEMMA LadderIsEven ==
  ASSUME NEW g, Shape(g), NEW i \in DOMAIN Ladder(g.lengths, g.vacuum)
  PROVE  Even(g, Ladder(g.lengths, g.vacuum)[i].mesh)
<1> DEFINE S == ChangePoints(g.lengths, g.vacuum)
<1> DEFINE ladder == Ladder(g.lengths, g.vacuum)
           n == Cardinality(LowEnds(g))
           ends == Descending(LowEnds(g))
<1>1. CASE S = {}
  <2>1. ladder = <<[mesh |-> MeshOf(g.lengths, g.vacuum, Angstrom), low |-> 0, high |-> None]>>
    BY <1>1, LadderOfNoSteps
  <2>2. DOMAIN ladder = {1} /\ ladder[1].mesh = MeshOf(g.lengths, g.vacuum, Angstrom)
    BY <2>1
  <2>3. ladder[i].mesh = MeshOf(g.lengths, g.vacuum, Angstrom)
    BY <2>2
  <2>4. Angstrom \in Positive
    BY HundredthAssumption DEF Angstrom, Positive
  <2> QED
    BY <2>3, <2>4, MeshIsEven
<1>2. CASE S # {}
  <2> HIDE DEF S, ladder, n, ends
  <2>1. DOMAIN ladder = 1 .. n /\ \A j \in 1 .. n : ends[j] \in S /\ ladder[j].mesh = DownTo(g, ends[j])
    <3>1. /\ S = ChangePoints(g.lengths, g.vacuum) /\ n = Cardinality(LowEnds(g))
          /\ ends = Descending(LowEnds(g)) /\ ladder = Ladder(g.lengths, g.vacuum)
      BY DEF S, ladder, n, ends
    <3> QED
      BY <1>2, <3>1, LadderIs DEF GoesDown
  <2>2. i \in 1 .. n
    BY <2>1 DEF ladder
  <2> QED
    BY <2>1, <2>2, DownToIsEven DEF S, ladder
<1> QED
  BY <1>1, <1>2

-----------------------------------------------------------------------------
(* The mesh a phonon run is raised to.                                     *)

LEMMA Multiple ==
  ASSUME NEW a \in Positive, NEW b \in Positive, NEW m, m = b * ((a + b - 1) \div b)
  PROVE  m \in Positive /\ m >= a /\ m >= b /\ m % b = 0
<1> DEFINE d == (a + b - 1) \div b
           c == (a + b - 1) % b
<1>1. /\ a \in Nat /\ a >= 1 /\ b \in Nat /\ b >= 1 /\ a + b - 1 \in Nat /\ a + b - 1 >= b
  BY DEF Positive
<1>2. d \in Nat /\ c \in 0 .. b - 1 /\ a + b - 1 = b * d + c
  BY <1>1
<1>3. m = b * d
  OBVIOUS
<1> HIDE DEF c, d
<1>4. m >= a
  <2>1. b * d \in Nat
    BY <1>1, <1>2
  <2> QED
    BY <1>1, <1>2, <1>3, <2>1
<1>5. d >= 1
  <2>1. d = 0 => b * d = 0
    BY <1>1
  <2> QED
    BY <1>1, <1>2, <1>3, <1>4, <2>1
<1>6. m >= b
  BY <1>1, <1>2, <1>3, <1>5
<1>7. m % b = 0
  BY <1>1, <1>2, <1>3
<1> QED
  BY <1>1, <1>2, <1>3, <1>4, <1>6, <1>7 DEF Positive

LEMMA RaisedIs ==
  ASSUME NEW k \in Counts, NEW q \in Counts, NEW kind \in {"fixed", "smearing"}
  PROVE  /\ Raised(k, q, kind) \in Counts
         /\ \A i \in Axes :
              /\ Raised(k, q, kind)[i] >= k[i] /\ Raised(k, q, kind)[i] >= q[i]
              /\ kind = "smearing" => Raised(k, q, kind)[i] % q[i] = 0
<1> DEFINE r == Raised(k, q, kind)
<1>1. \A i \in Axes : k[i] \in Positive /\ q[i] \in Positive
  BY DEF Counts, Positive
<1>2. \A i \in Axes :
        /\ r[i] \in Positive /\ r[i] >= k[i] /\ r[i] >= q[i]
        /\ kind = "smearing" => r[i] % q[i] = 0
  <2>1. CASE kind = "fixed"
    <3>1. \A i \in Axes : r[i] = Max({k[i], q[i]})
      BY <2>1 DEF Raised
    <3>2. \A i \in Axes : Max({k[i], q[i]}) = IF k[i] >= q[i] THEN k[i] ELSE q[i]
      BY <1>1, MaxOfTwo DEF Positive
    <3> HIDE DEF r
    <3>3. kind # "smearing"
      BY <2>1
    <3> SUFFICES ASSUME NEW i \in Axes PROVE r[i] \in Positive /\ r[i] >= k[i] /\ r[i] >= q[i]
      BY <3>3, Zenon
    <3>4. k[i] \in Nat \ {0} /\ q[i] \in Nat \ {0} /\ r[i] = IF k[i] >= q[i] THEN k[i] ELSE q[i]
      BY <1>1, <3>1, <3>2 DEF Positive
    <3> QED
      BY ONLY <3>4 DEF Positive
  <2>2. CASE kind = "smearing"
    <3>1. \A i \in Axes : r[i] = q[i] * ((k[i] + q[i] - 1) \div q[i])
      BY <2>2 DEF Raised
    <3> HIDE DEF r
    <3> QED
      BY <1>1, <3>1, Multiple
  <2> QED
    BY <2>1, <2>2
<1>3. r = [i \in Axes |-> r[i]]
  BY DEF Raised
<1> HIDE DEF r
<1> QED
  BY <1>2, <1>3 DEF Counts, Positive, r

LEMMA RaisedIsEven ==
  ASSUME NEW g, Shape(g), NEW k, Even(g, k), NEW q, Even(g, q), NEW kind \in {"fixed", "smearing"}
  PROVE  Even(g, Raised(k, q, kind))
<1>1. k \in Counts /\ q \in Counts
  BY DEF Even
<1>2. Raised(k, q, kind) \in Counts
  BY <1>1, RaisedIs
<1>3. \A i \in g.vacuum : Raised(k, q, kind)[i] = 1
  <2> SUFFICES ASSUME NEW i \in g.vacuum PROVE Raised(k, q, kind)[i] = 1
    OBVIOUS
  <2>1. i \in Axes /\ k[i] = 1 /\ q[i] = 1
    BY DEF Even, Shape
  <2>2. Max({1, 1}) = 1
    BY MaxOfTwo
  <2>3. 1 * ((1 + 1 - 1) \div 1) = 1
    OBVIOUS
  <2> QED
    BY <2>1, <2>2, <2>3 DEF Raised
<1>4. \A p \in MixingPairs(g.rotations) :
        p[1] \notin g.vacuum /\ p[2] \notin g.vacuum =>
          Raised(k, q, kind)[p[1]] = Raised(k, q, kind)[p[2]]
  <2>1. \A p \in MixingPairs(g.rotations) : p[1] \in Axes /\ p[2] \in Axes
    BY DEF MixingPairs
  <2> QED
    BY <2>1 DEF Even, Raised
<1> QED
  BY <1>2, <1>3, <1>4 DEF Even

-----------------------------------------------------------------------------
(* The advice.                                                             *)

\* A request as users make them.
LEMMA RequestTypes ==
  ASSUME NEW request \in Requests
  PROVE  /\ request.k.k_grid \in {None} \cup Counts /\ request.q.q_grid \in {None} \cup Counts
         /\ request.k.k_index \in {None} \cup Positive
         /\ request.k.k_distance \in {None} \cup Positive
         /\ request.q.q_distance \in {None} \cup Positive
         /\ request.q # None /\ request.kind \in {"fixed", "smearing"}
BY RequestsAssumption DEF Positive

\* The k-mesh of a tier is even, unless the user gave it.
LEMMA TieredIsEven ==
  ASSUME NEW c \in Cells, NEW request \in Requests, request.k.k_grid = None,
         NEW state, state = Tiered(request.metal, Survey(c), request.k, None), state.ok
  PROVE  Even(Survey(c), state.value.mesh)
<1> DEFINE g == Survey(c)
           h == request.k
           tier == KDistanceTier(request.metal, g.predictedK, h.k_distance, None)
<1>1. Shape(g)
  BY SurveyShape
<1>2. g.ladder = Ladder(g.lengths, g.vacuum) /\ g.predictedK = c.predictedK
  BY DEF Survey
<1>3. /\ h.k_index \in {None} \cup Positive /\ h.k_distance \in {None} \cup Positive
      /\ c.predictedK \in {None} \cup Positive
  BY RequestTypes, CellsAssumption DEF Positive
<1>4. DOMAIN g.ladder = 1 .. Len(g.ladder)
  <2> HIDE DEF g
  <2> QED
    BY <1>1, <1>2, LadderLength
<1> HIDE DEF g, h
<1>5. CASE h.k_index # None
  <2>1. state = IF h.k_index > Len(g.ladder) THEN Blocked("k_index")
                ELSE Resolved([ mesh |-> g.ladder[h.k_index].mesh, k_distance |-> None,
                                k_index |-> h.k_index ], "human")
    BY <1>5 DEF Tiered, g, h
  <2>2. ~(h.k_index > Len(g.ladder)) /\ state.value.mesh = g.ladder[h.k_index].mesh
    BY <2>1 DEF Blocked, Resolved
  <2>3. h.k_index \in DOMAIN g.ladder
    BY <1>1, <1>2, <1>3, <1>4, <1>5, <2>2, LadderLength DEF Positive
  <2> QED
    BY <1>1, <1>2, <2>2, <2>3, LadderIsEven DEF g
<1>6. CASE h.k_index = None
  <2>1. state = IF ~tier.ok THEN tier
                ELSE Resolved(OfMesh(g, KDistanceToMesh(g, tier.value), tier.value), tier.source)
    BY <1>6 DEF Tiered, g, h
  <2>2. tier.ok => tier.value \in Positive
    <3>1. NonMetalKDistance \in Positive /\ MetalKDistance \in Positive
      BY HundredthAssumption DEF NonMetalKDistance, MetalKDistance, Positive
    <3>2. CASE h.k_distance # None
      BY <1>3, <3>2 DEF KDistanceTier, Resolved
    <3>3. CASE h.k_distance = None /\ g.predictedK # None
      BY <1>2, <1>3, <3>3 DEF KDistanceTier, Resolved
    <3>4. CASE h.k_distance = None /\ g.predictedK = None
      <4>1. tier = IF request.metal.status = "blocked" THEN BlockedBy(request.metal)
                   ELSE Resolved(
                          IF request.metal.ok /\ request.metal.value = "non_metal"
                          THEN NonMetalKDistance ELSE MetalKDistance, "heuristic")
        BY <3>4 DEF KDistanceTier
      <4> QED
        BY <3>1, <4>1 DEF BlockedBy, Blocked, Resolved
    <3> QED
      BY <3>2, <3>3, <3>4
  <2> HIDE DEF tier
  <2>3. tier.ok /\ state.value.mesh = KDistanceToMesh(g, tier.value)
    BY <2>1 DEF Resolved, OfMesh
  <2> QED
    BY <1>1, <2>2, <2>3, MeshIsEven DEF KDistanceToMesh, g
<1> QED
  BY <1>5, <1>6

\* The q-mesh is even, or q_sampling refuses it.
LEMMA QMeshIsEven ==
  ASSUME NEW c \in Cells, NEW request \in Requests,
         NEW q, q = QSampling(Survey(c), request.q), q.ok, q.value.refusal = None
  PROVE  /\ Even(Survey(c), QMesh(Survey(c), request.q))
         /\ q.value.mesh = QMesh(Survey(c), request.q)
         /\ KeepsMesh(Survey(c).rotations, q.value.mesh)
<1> DEFINE g == Survey(c)
           qh == request.q
           mesh == QMesh(g, qh)
           refusal == IF qh.q_grid # None THEN GridRefusal(g, mesh) ELSE SizeRefusal(mesh)
<1>1. Shape(g) /\ qh.q_grid \in {None} \cup Counts /\ qh.q_distance \in {None} \cup Positive
  BY SurveyShape, RequestTypes
<1>2. q = IF qh.q_grid = None /\ ~KeepsMesh(g.rotations, mesh) THEN Blocked("leaning_vacuum")
          ELSE IF refusal = None THEN Resolved(Counted(g, mesh), "heuristic")
          ELSE Resolved([mesh |-> mesh, count |-> None, refusal |-> refusal], "heuristic")
  BY DEF QSampling
<1> HIDE DEF g, qh, mesh, refusal
<1>3. (qh.q_grid = None => KeepsMesh(g.rotations, mesh)) /\ refusal = None /\ q.value.mesh = mesh
  BY <1>2 DEF Blocked, Resolved, Counted
<1>4. CASE qh.q_grid = None
  <2> DEFINE distance == IF qh.q_distance = None THEN QDistance ELSE qh.q_distance
  <2>1. distance \in Positive
    BY <1>1, HundredthAssumption DEF QDistance, Positive
  <2>2. mesh = MeshOf(g.lengths, g.vacuum, distance)
    BY <1>4 DEF QMesh, KDistanceToMesh, mesh
  <2> HIDE DEF distance
  <2> QED
    BY <1>1, <1>3, <1>4, <2>1, <2>2, MeshIsEven DEF g, mesh, qh
<1>5. CASE qh.q_grid # None
  <2>1. mesh = qh.q_grid /\ mesh \in Counts
    BY <1>1, <1>5 DEF QMesh, mesh
  <2>2. GridRefusal(g, mesh) = None
    BY <1>3, <1>5 DEF refusal
  <2>3. /\ \A i \in g.vacuum : mesh[i] = 1
        /\ KeepsMesh(g.rotations, mesh)
        /\ \A p \in MixingPairs(g.rotations) :
             {p[1], p[2]} \cap g.vacuum = {} => mesh[p[1]] = mesh[p[2]]
    <3> DEFINE fits ==
          /\ \A i \in g.vacuum : mesh[i] = 1
          /\ KeepsMesh(g.rotations, mesh)
          /\ \A p \in MixingPairs(g.rotations) :
               {p[1], p[2]} \cap g.vacuum = {} => mesh[p[1]] = mesh[p[2]]
    <3>1. GridRefusal(g, mesh) = IF fits THEN None ELSE "breaks_symmetry"
      BY DEF GridRefusal
    <3>2. "breaks_symmetry" # None
      BY NoneIsNoRefusal
    <3> HIDE DEF fits
    <3>3. fits
      BY <2>2, <3>1, <3>2
    <3> QED
      BY <3>3 DEF fits
  <2>4. \A p \in MixingPairs(g.rotations) :
          p[1] \notin g.vacuum /\ p[2] \notin g.vacuum => mesh[p[1]] = mesh[p[2]]
    BY <2>3
  <2> QED
    BY <1>3, <2>1, <2>3, <2>4 DEF Even, g, mesh, qh
<1> QED
  BY <1>4, <1>5

\* The k-mesh a phonon run is advised, raised or not.
LEMMA KSamplingIs ==
  ASSUME NEW c \in Cells, NEW request \in Requests, NEW occupations,
         occupations = Resolved([kind |-> request.kind], "heuristic"),
         NEW k, k = KSampling(request.metal, Survey(c), occupations, request.k, None, request.q), k.ok,
         NEW own, own = Tiered(request.metal, Survey(c), request.k, None),
         NEW q, q = QMesh(Survey(c), request.q)
  PROVE  /\ own.ok
         /\ \/ k = own
            \/ k.value.mesh = Raised(own.value.mesh, q, request.kind)
         /\ request.k = NoRequest /\ ~(Points(q) > MaxQMeshPoints) =>
              k.value.mesh = Raised(own.value.mesh, q, request.kind)
<1> DEFINE raised == Raised(own.value.mesh, q, request.kind)
           requested == request.k.k_grid # None \/ request.k.k_index # None \/ request.k.k_distance # None
<1>1. occupations.ok /\ occupations.value.kind = request.kind
  BY DEF Resolved
<1>2. request.q # None
  BY RequestTypes
<1>3. k = IF ~own.ok THEN own ELSE AgainstQ(own, Survey(c), occupations, request.k, request.q)
  BY <1>2 DEF KSampling
<1>4. AgainstQ(own, Survey(c), occupations, request.k, request.q) =
        IF ~occupations.ok THEN BlockedBy(occupations)
        ELSE IF Points(q) > MaxQMeshPoints \/ requested \/ raised = own.value.mesh THEN own
        ELSE Resolved(OfMesh(Survey(c), raised, None), own.source)
  BY <1>1 DEF AgainstQ
<1>5. Resolved(OfMesh(Survey(c), raised, None), own.source).value.mesh = raised
  BY DEF Resolved, OfMesh
<1> HIDE DEF raised, requested
<1>6. own.ok /\ k = IF Points(q) > MaxQMeshPoints \/ requested \/ raised = own.value.mesh THEN own
                    ELSE Resolved(OfMesh(Survey(c), raised, None), own.source)
  BY <1>1, <1>3, <1>4
<1>7. k = own \/ k.value.mesh = raised
  BY <1>5, <1>6
<1>8. request.k = NoRequest => ~requested
  BY DEF requested, NoRequest
<1>9. request.k = NoRequest /\ ~(Points(q) > MaxQMeshPoints) => k.value.mesh = raised
  BY <1>5, <1>6, <1>8
<1> QED
  BY <1>6, <1>7, <1>9 DEF raised

-----------------------------------------------------------------------------
(* Orbits.                                                                 *)

LEMMA InjectionInto ==
  ASSUME NEW S, IsFiniteSet(S), NEW n \in Nat, Cardinality(S) <= n
  PROVE  \E f : f \in [S -> 1 .. n] /\ \A x, y \in S : f[x] = f[y] => x = y
<1> DEFINE m == Cardinality(S)
<1>1. m \in Nat /\ ExistsBijection(1 .. m, S)
  BY FS_CardinalityType
<1>2. ExistsBijection(S, 1 .. m)
  BY <1>1, Fun_ExistsBijSymmetric
<1>3. PICK f : f \in Bijection(S, 1 .. m)
  BY <1>2 DEF ExistsBijection
<1>4. f \in [S -> 1 .. m] /\ \A x, y \in S : f[x] = f[y] => x = y
  BY <1>3 DEF Bijection, Injection, IsInjective
<1>5. \A x \in S : f[x] \in 1 .. n
  BY <1>1, <1>4
<1> QED
  BY <1>4, <1>5

\* Points that each lie in their own orbit, of at most n points, are at most n
\* to an orbit.
LEMMA OrbitsCover ==
  ASSUME NEW points, IsFiniteSet(points), NEW orbit, DOMAIN orbit = points, NEW n \in Nat,
         \A p \in points : p \in orbit[p] /\ IsFiniteSet(orbit[p]) /\ Cardinality(orbit[p]) <= n,
         NEW orbits, orbits = {orbit[p] : p \in points}
  PROVE  IsFiniteSet(orbits) /\ Cardinality(points) <= Cardinality(orbits) * n
<1>1. IsFiniteSet(orbits)
  <2>1. [p \in points |-> orbit[p]] \in Surjection(points, orbits)
    BY DEF Surjection
  <2> QED
    BY <2>1, FS_Surjection
<1> DEFINE Numbering(o) == CHOOSE f : f \in [o -> 1 .. n] /\ \A x, y \in o : f[x] = f[y] => x = y
           place == [p \in points |-> <<orbit[p], Numbering(orbit[p])[p]>>]
<1>2. \A p \in points : /\ Numbering(orbit[p]) \in [orbit[p] -> 1 .. n]
                        /\ \A x, y \in orbit[p] : Numbering(orbit[p])[x] = Numbering(orbit[p])[y] => x = y
  BY InjectionInto
<1> HIDE DEF Numbering
<1>3. \A p \in points : place[p] \in orbits \X (1 .. n)
  BY <1>2
<1>4. \A p, r \in points : place[p] = place[r] => p = r
  BY <1>2
<1>5. place \in Injection(points, orbits \X (1 .. n))
  BY <1>3, <1>4 DEF Injection, IsInjective
<1> HIDE DEF place
<1>6. IsFiniteSet(1 .. n) /\ Cardinality(1 .. n) = n
  BY FS_Interval
<1>7. IsFiniteSet(orbits \X (1 .. n)) /\ Cardinality(orbits \X (1 .. n)) = Cardinality(orbits) * n
  BY <1>1, <1>6, FS_Product
<1> QED
  BY <1>1, <1>5, <1>7, FS_Injection

\* The points of a mesh.
Box(mesh) == (0 .. mesh[1] - 1) \X (0 .. mesh[2] - 1) \X (0 .. mesh[3] - 1)

LEMMA BoxSize ==
  ASSUME NEW mesh \in Counts
  PROVE  IsFiniteSet(Box(mesh)) /\ Cardinality(Box(mesh)) = Points(mesh)
<1> DEFINE A(i) == 0 .. mesh[i] - 1
           nested == (A(1) \X A(2)) \X A(3)
           f == [p \in nested |-> <<p[1][1], p[1][2], p[2]>>]
<1>1. \A i \in Axes : IsFiniteSet(A(i)) /\ Cardinality(A(i)) = mesh[i]
  <2> SUFFICES ASSUME NEW i \in Axes PROVE IsFiniteSet(A(i)) /\ Cardinality(A(i)) = mesh[i]
    OBVIOUS
  <2>1. mesh[i] \in Nat /\ mesh[i] > 0
    BY DEF Counts
  <2>2. 0 \in Int /\ mesh[i] - 1 \in Int /\ ~(0 > mesh[i] - 1) /\ mesh[i] - 1 - 0 + 1 = mesh[i]
    BY <2>1
  <2> QED
    BY <2>2, FS_Interval
<1>2. 1 \in Axes /\ 2 \in Axes /\ 3 \in Axes
  BY DEF Axes
<1> HIDE DEF A
<1>3. IsFiniteSet(nested) /\ Cardinality(nested) = mesh[1] * mesh[2] * mesh[3]
  <2>1. IsFiniteSet(A(1) \X A(2)) /\ Cardinality(A(1) \X A(2)) = mesh[1] * mesh[2]
    BY <1>1, <1>2, FS_Product
  <2> QED
    BY <1>1, <1>2, <2>1, FS_Product
<1>4. Box(mesh) = A(1) \X A(2) \X A(3)
  BY DEF Box, A
<1>5. f \in Bijection(nested, Box(mesh))
  <2>1. \A p \in nested : f[p] \in A(1) \X A(2) \X A(3)
    OBVIOUS
  <2>2. \A p, q \in nested : f[p] = f[q] => p = q
    OBVIOUS
  <2>3. \A t \in A(1) \X A(2) \X A(3) : \E p \in nested : f[p] = t
    <3> SUFFICES ASSUME NEW t \in A(1) \X A(2) \X A(3) PROVE \E p \in nested : f[p] = t
      OBVIOUS
    <3>1. << <<t[1], t[2]>>, t[3]>> \in nested /\ f[<< <<t[1], t[2]>>, t[3]>>] = t
      OBVIOUS
    <3> QED
      BY <3>1
  <2> HIDE DEF f, nested
  <2>4. f \in [nested -> Box(mesh)]
    BY <1>4, <2>1 DEF f
  <2> QED
    BY <1>4, <2>2, <2>3, <2>4 DEF Bijection, Injection, IsInjective, Surjection
<1>6. ExistsBijection(nested, Box(mesh))
  BY <1>5 DEF ExistsBijection
<1> HIDE DEF nested
<1> QED
  BY <1>3, <1>6, FS_Bijection DEF Points

\* Dividing what was multiplied.
LEMMA Undone ==
  ASSUME NEW x \in Nat, NEW s \in Positive, NEW m \in Positive, x < m
  PROVE  (x * s) % s = 0 /\ ((x * s) \div s) % m = x
<1>1. s \in Nat /\ s > 0 /\ m \in Nat /\ m > 0
  BY DEF Positive
<1> DEFINE d == (x * s) \div s
           c == (x * s) % s
<1>2. d \in Nat /\ c \in 0 .. s - 1 /\ x * s = s * d + c
  <2>1. x * s \in Nat
    BY <1>1
  <2>2. d = (x * s) \div s /\ c = (x * s) % s
    OBVIOUS
  <2> HIDE DEF d, c
  <2>3. PICK y \in Nat : y = x * s
    BY <2>1
  <2>4. d = y \div s /\ c = y % s
    BY <2>2, <2>3
  <2>5. d \in Nat /\ c \in 0 .. s - 1 /\ y = s * d + c
    BY ONLY <1>1, <2>4, y \in Nat
  <2> QED
    BY ONLY <2>3, <2>5
<1> HIDE DEF d, c
<1>3. d = x
  <2>1. CASE d > x
    <3>1. d >= x + 1 /\ s * d >= s * (x + 1) /\ s * (x + 1) = x * s + s
      BY <1>1, <1>2, <2>1
    <3>2. s * d \in Nat /\ x * s \in Nat
      BY <1>1, <1>2
    <3> QED
      BY <1>1, <1>2, <3>1, <3>2
  <2>2. CASE d < x
    <3>1. d + 1 <= x /\ s * (d + 1) <= s * x /\ s * (d + 1) = s * d + s /\ s * x = x * s
      BY <1>1, <1>2, <2>2
    <3>2. s * d \in Nat /\ x * s \in Nat
      BY <1>1, <1>2
    <3> QED
      BY <1>1, <1>2, <3>1, <3>2
  <2> QED
    BY <1>2, <2>1, <2>2
<1>4. c = 0
  <2>1. x * s = s * d /\ s * d \in Nat
    BY <1>1, <1>2, <1>3
  <2> QED
    BY <1>1, <1>2, <2>1
<1>5. x % m = x
  BY <1>1
<1> QED
  BY <1>3, <1>4, <1>5 DEF d, c

\* No more points than the group has operations share an orbit.
LEMMA CountIs ==
  ASSUME NEW R, IsFiniteSet(R), Cardinality(R) <= 48, Identity \in R, NEW mesh \in Counts
  PROVE  /\ Points(mesh) \in Nat /\ IrreducibleCount(R, mesh) \in Nat
         /\ Points(mesh) <= IrreducibleCount(R, mesh) * 48
<1> DEFINE share == <<mesh[2] * mesh[3], mesh[3] * mesh[1], mesh[1] * mesh[2]>>
           Turn(r) == [i \in Axes |-> [j \in Axes |-> r[j][i] * share[j]]]
           turns == {Turn(r) : r \in R}
           OnMesh(w) == \A i \in Axes : w[i] % share[i] = 0
           Image(v) == <<(v[1] \div share[1]) % mesh[1], (v[2] \div share[2]) % mesh[2],
                         (v[3] \div share[3]) % mesh[3]>>
           Orbit(p) == {Image(v) : v \in {w \in {Turned(m, p) : m \in turns} : OnMesh(w)}}
           orbits == {Orbit(p) : p \in Box(mesh)}
<1>1. IrreducibleCount(R, mesh) = Cardinality(orbits)
  BY DEF IrreducibleCount, Box
<1>2. /\ mesh[1] \in Nat /\ mesh[2] \in Nat /\ mesh[3] \in Nat
      /\ mesh[1] > 0 /\ mesh[2] > 0 /\ mesh[3] > 0
  BY DEF Counts, Axes
<1>3. share[1] \in Positive /\ share[2] \in Positive /\ share[3] \in Positive
  BY <1>2 DEF Positive
<1> DEFINE At(r, p) == Turned(Turn(r), p)
<1>4. ASSUME NEW p, NEW x
      PROVE  x \in Orbit(p) <=> \E r \in R : OnMesh(At(r, p)) /\ x = Image(At(r, p))
  <2> HIDE DEF OnMesh, Image, Turn
  <2>1. x \in Orbit(p) <=> \E v \in {w \in {Turned(m, p) : m \in turns} : OnMesh(w)} : x = Image(v)
    OBVIOUS
  <2>2. \A w : w \in {Turned(m, p) : m \in turns} <=> \E r \in R : w = At(r, p)
    OBVIOUS
  <2> HIDE DEF At, turns, Orbit
  <2> QED
    BY <2>1, <2>2, Zenon
<1>5. ASSUME NEW p \in Box(mesh) PROVE OnMesh(At(Identity, p)) /\ Image(At(Identity, p)) = p
  <2>1. /\ p[1] \in Nat /\ p[2] \in Nat /\ p[3] \in Nat
        /\ p[1] < mesh[1] /\ p[2] < mesh[2] /\ p[3] < mesh[3] /\ p = <<p[1], p[2], p[3]>>
    BY <1>2 DEF Box
  <2> DEFINE w == At(Identity, p)
  <2>2. share[1] \in Nat /\ share[2] \in Nat /\ share[3] \in Nat
    BY <1>3 DEF Positive
  <2> HIDE DEF share
  <2>3. w[1] = p[1] * share[1] /\ w[2] = p[2] * share[2] /\ w[3] = p[3] * share[3]
    <3>1. 1 \in Axes /\ 2 \in Axes /\ 3 \in Axes
      BY DEF Axes
    <3>2. \A i \in Axes : w[i] = Turn(Identity)[i][1] * p[1] + Turn(Identity)[i][2] * p[2]
                                   + Turn(Identity)[i][3] * p[3]
      BY DEF Turned
    <3>3. \A i, j \in Axes : Turn(Identity)[i][j] = (IF i = j THEN 1 ELSE 0) * share[j]
      BY DEF Identity
    <3> HIDE DEF Turn, w
    <3>4. /\ w[1] = 1 * share[1] * p[1] + 0 * share[2] * p[2] + 0 * share[3] * p[3]
          /\ w[2] = 0 * share[1] * p[1] + 1 * share[2] * p[2] + 0 * share[3] * p[3]
          /\ w[3] = 0 * share[1] * p[1] + 0 * share[2] * p[2] + 1 * share[3] * p[3]
      BY <3>1, <3>2, <3>3
    <3>5. /\ 0 * share[1] * p[1] = 0 /\ 0 * share[2] * p[2] = 0 /\ 0 * share[3] * p[3] = 0
          /\ 1 * share[1] * p[1] = p[1] * share[1] /\ 1 * share[2] * p[2] = p[2] * share[2]
          /\ 1 * share[3] * p[3] = p[3] * share[3]
      BY <2>1, <2>2
    <3>6. p[1] * share[1] \in Nat /\ p[2] * share[2] \in Nat /\ p[3] * share[3] \in Nat
      BY <2>1, <2>2
    <3> QED
      BY <3>4, <3>5, <3>6
  <2> HIDE DEF w
  <2>4. mesh[1] \in Positive /\ mesh[2] \in Positive /\ mesh[3] \in Positive
    BY <1>2 DEF Positive
  <2>5. OnMesh(w)
    BY <1>3, <2>1, <2>3, <2>4, Undone DEF Axes
  <2>6. Image(w) = <<p[1], p[2], p[3]>>
    BY <1>3, <2>1, <2>3, <2>4, Undone
  <2> QED
    BY <2>1, <2>5, <2>6 DEF w
<1> HIDE DEF At, Image, OnMesh
<1>6. ASSUME NEW p \in Box(mesh) PROVE p \in Orbit(p)
  BY <1>4, <1>5
<1>7. ASSUME NEW p \in Box(mesh) PROVE IsFiniteSet(Orbit(p)) /\ Cardinality(Orbit(p)) <= 48
  <2> DEFINE near == {s \in R : OnMesh(At(s, p))}
             f == [r \in near |-> Image(At(r, p))]
  <2>1. IsFiniteSet(near) /\ Cardinality(near) <= Cardinality(R)
    BY FS_Subset
  <2>2. f \in Surjection(near, Orbit(p))
    <3>1. \A r \in near : Image(At(r, p)) \in Orbit(p)
      BY <1>4
    <3>2. \A x \in Orbit(p) : \E r \in near : x = Image(At(r, p))
      BY <1>4
    <3> HIDE DEF near, Orbit
    <3> QED
      BY <3>1, <3>2 DEF Surjection
  <2> HIDE DEF near, f, Orbit
  <2>3. IsFiniteSet(Orbit(p)) /\ Cardinality(Orbit(p)) <= Cardinality(near)
    BY <2>1, <2>2, FS_Surjection
  <2>4. Cardinality(Orbit(p)) \in Nat /\ Cardinality(near) \in Nat /\ Cardinality(R) \in Nat
    BY <2>1, <2>3, FS_CardinalityType
  <2> QED
    BY <2>1, <2>3, <2>4
<1> HIDE DEF Orbit
<1>8. IsFiniteSet(Box(mesh)) /\ Cardinality(Box(mesh)) = Points(mesh)
  BY BoxSize
<1> DEFINE orbit == [p \in Box(mesh) |-> Orbit(p)]
<1>9. orbits = {orbit[p] : p \in Box(mesh)} /\ DOMAIN orbit = Box(mesh)
  OBVIOUS
<1>10. \A p \in Box(mesh) : p \in orbit[p] /\ IsFiniteSet(orbit[p]) /\ Cardinality(orbit[p]) <= 48
  BY <1>6, <1>7
<1> HIDE DEF orbit, orbits
<1>11. IsFiniteSet(orbits) /\ Cardinality(Box(mesh)) <= Cardinality(orbits) * 48
  BY <1>8, <1>9, <1>10, OrbitsCover
<1> QED
  BY <1>1, <1>8, <1>11, FS_CardinalityType

-----------------------------------------------------------------------------
(* The FFT grid.                                                           *)

Factors == {1, 2, 3, 4, 6, 12}

LEMMA ShiftIs ==
  ASSUME NEW c \in Cells, NEW r, NEW shift \in Shifts(c, r)
  PROVE  shift = NoShift \/ AllowedTranslation(shift)
<1> DEFINE fit == {t \in OfKind(c, 1) :
                     /\ AllowedTranslation(ShiftOnto(c, r, t))
                     /\ Lands(c, r, ShiftOnto(c, r, t))}
<1>1. fit \in SUBSET Nat
  BY CellsAssumption DEF OfKind
<1>2. CASE Lands(c, r, NoShift)
  BY <1>2 DEF Shifts
<1>3. CASE ~Lands(c, r, NoShift)
  <2>1. fit # {} /\ shift = ShiftOnto(c, r, Min(fit))
    BY <1>3 DEF Shifts
  <2>2. Min(fit) \in fit
    BY <1>1, <2>1, MinIs
  <2> QED
    BY <2>1, <2>2
<1> QED
  BY <1>2, <1>3

LEMMA FactorIs ==
  ASSUME NEW c \in Cells, NEW i \in Axes
  PROVE  FftFactors(c)[i] \in Factors
<1> DEFINE Size(x) == IF x < 0 THEN -x ELSE x
           F == {12 \div Size(op.shift[i]) : op \in {o \in Operations(c) : o.shift[i] # 0}}
           S == {n \in 1 .. 12 : \A f \in F : n % f = 0}
           m == FftFactors(c)[i]
<1>1. m = Min(S)
  BY DEF FftFactors, Grid
<1>2. F \subseteq {2, 3, 4, 6}
  <2> SUFFICES ASSUME NEW op \in Operations(c), op.shift[i] # 0
               PROVE  12 \div Size(op.shift[i]) \in {2, 3, 4, 6}
    OBVIOUS
  <2>1. PICK r \in LatticeRotations(c) : \E t \in Shifts(c, r) : op = [rotation |-> r, shift |-> t]
    BY DEF Operations
  <2>2. op.shift \in Shifts(c, r)
    BY <2>1
  <2>3. op.shift = NoShift \/ AllowedTranslation(op.shift)
    BY <2>2, ShiftIs
  <2>4. NoShift[i] = 0
    BY DEF NoShift, Axes
  <2>5. op.shift[i] \in {2, 3, 4, 6, -2, -3, -4}
    BY <2>3, <2>4 DEF AllowedTranslation
  <2> QED
    BY <2>5
<1> HIDE DEF F, m
<1>3. S \in SUBSET Nat /\ 12 \in S
  <2>1. \A f \in {2, 3, 4, 6} : 12 % f = 0
    OBVIOUS
  <2> QED
    BY <1>2, <2>1
<1>4. m \in S /\ \A n \in S : m <= n
  BY <1>1, <1>3, MinIs
<1>5. m \in 1 .. 12 /\ \A f \in F : m % f = 0
  BY <1>4
<1>6. \A n \in 1 .. 12 : (\A f \in F : n % f = 0) => m <= n
  BY <1>4
<1> HIDE DEF S
<1>7. CASE m \in {5, 7, 11}
  <2>1. \A f \in {2, 3, 4, 6} : m % f # 0
    BY <1>7
  <2>2. F = {}
    BY <1>2, <1>5, <2>1
  <2> QED
    BY <1>6, <1>7, <2>2
<1>8. CASE m = 8
  <2>1. \A f \in {2, 3, 4, 6} : 8 % f = 0 => 4 % f = 0
    OBVIOUS
  <2> QED
    BY <1>2, <1>5, <1>6, <1>8, <2>1
<1>9. CASE m = 9
  <2>1. \A f \in {2, 3, 4, 6} : 9 % f = 0 => 3 % f = 0
    OBVIOUS
  <2> QED
    BY <1>2, <1>5, <1>6, <1>9, <2>1
<1>10. CASE m = 10
  <2>1. \A f \in {2, 3, 4, 6} : 10 % f = 0 => 2 % f = 0
    OBVIOUS
  <2> QED
    BY <1>2, <1>5, <1>6, <1>10, <2>1
<1> QED
  BY <1>5, <1>7, <1>8, <1>9, <1>10 DEF Factors, m

\* A divisor of a length with small prime factors has one of them.
LEMMA SmoothAt ==
  ASSUME NEW n \in Positive, FiveSmooth(n), NEW p \in Nat, p >= 2, NEW h \in Int, n = p * h
  PROVE  p % 2 = 0 \/ p % 3 = 0 \/ p % 5 = 0
<1>1. n \in Nat /\ n >= 1
  BY DEF Positive
<1>2. h >= 1
  <2>1. h <= 0 => p * h <= 0
    OBVIOUS
  <2> QED
    BY <1>1, <2>1
<1>3. p <= n
  <2>1. p * h = p * (h - 1) + p /\ p * (h - 1) >= 0
    BY <1>2
  <2> QED
    BY <2>1
<1>4. n % p = 0
  BY <1>1, <1>2
<1>5. p \in 2 .. n
  BY <1>1, <1>3
<1> QED
  BY <1>4, <1>5 DEF FiveSmooth

\* A length whose divisors all have a small prime factor, and that length times
\* two or three.
LEMMA Twice ==
  ASSUME NEW n \in Positive, FiveSmooth(n)
  PROVE  FiveSmooth(2 * n)
<1> SUFFICES ASSUME NEW p \in 2 .. 2 * n, (2 * n) % p = 0, p % 2 # 0, p % 3 # 0, p % 5 # 0
             PROVE  FALSE
  BY DEF FiveSmooth
<1>1. n \in Nat /\ n >= 1 /\ p \in Nat /\ p >= 2
  BY DEF Positive
<1>2. PICK k \in Int : 2 * n = p * k
  <2>1. 2 * n = p * ((2 * n) \div p)
    BY <1>1
  <2> QED
    BY <1>1, <2>1
<1>3. PICK j \in Int : p = 2 * j + 1
  <2>1. p = 2 * (p \div 2) + 1
    BY <1>1
  <2> QED
    BY <1>1, <2>1
<1>4. PICK h \in Int : h = n - j * k
  BY <1>1
<1>5. k = 2 * h
  <2>1. p * k = 2 * (j * k) + k
    BY <1>3
  <2> QED
    BY <1>1, <1>2, <1>4, <2>1
<1>6. n = p * h
  <2>1. p * (2 * h) = 2 * (p * h)
    BY <1>1
  <2> QED
    BY <1>1, <1>2, <1>5, <2>1
<1> QED
  BY <1>1, <1>6, SmoothAt

LEMMA Thrice ==
  ASSUME NEW n \in Positive, FiveSmooth(n)
  PROVE  FiveSmooth(3 * n)
<1> SUFFICES ASSUME NEW p \in 2 .. 3 * n, (3 * n) % p = 0, p % 2 # 0, p % 3 # 0, p % 5 # 0
             PROVE  FALSE
  BY DEF FiveSmooth
<1>1. n \in Nat /\ n >= 1 /\ p \in Nat /\ p >= 2
  BY DEF Positive
<1>2. PICK k \in Int : 3 * n = p * k
  <2>1. 3 * n = p * ((3 * n) \div p)
    BY <1>1
  <2> QED
    BY <1>1, <2>1
<1>3. PICK j \in Int : p = 3 * j + 1 \/ p = 3 * j + 2
  <2>1. p = 3 * (p \div 3) + 1 \/ p = 3 * (p \div 3) + 2
    BY <1>1
  <2> QED
    BY <1>1, <2>1
<1>4. PICK x \in Int : x = n - j * k
  BY <1>1
<1>5. \E h \in Int : k = 3 * h
  <2>1. CASE p = 3 * j + 1
    <3>1. p * k = 3 * (j * k) + k
      BY <2>1
    <3>2. k = 3 * x
      BY <1>1, <1>2, <1>4, <3>1
    <3> QED
      BY <3>2
  <2>2. CASE p = 3 * j + 2
    <3>1. p * k = 3 * (j * k) + 2 * k
      BY <2>2
    <3>2. k = 3 * (k - x)
      BY <1>1, <1>2, <1>4, <3>1
    <3>3. k - x \in Int
      OBVIOUS
    <3> WITNESS k - x \in Int
    <3> QED
      BY <3>2
  <2> QED
    BY <1>3, <2>1, <2>2
<1>6. PICK h \in Int : k = 3 * h
  BY <1>5
<1>7. n = p * h
  <2>1. p * (3 * h) = 3 * (p * h)
    BY <1>1
  <2> QED
    BY <1>1, <1>2, <1>6, <2>1
<1> QED
  BY <1>1, <1>7, SmoothAt

LEMMA Multiplied ==
  ASSUME NEW n \in Positive, FiveSmooth(n), NEW factor \in Factors
  PROVE  FiveSmooth(factor * n)
<1>1. 2 * n \in Positive /\ 3 * n \in Positive /\ 2 * (2 * n) \in Positive
  BY DEF Positive
<1>2. FiveSmooth(2 * n) /\ FiveSmooth(3 * n)
  BY Twice, Thrice
<1>3. FiveSmooth(2 * (2 * n)) /\ FiveSmooth(3 * (2 * n))
  BY <1>1, <1>2, Twice, Thrice
<1>4. FiveSmooth(3 * (2 * (2 * n)))
  BY <1>1, <1>3, Thrice
<1>5. /\ 1 * n = n /\ 2 * (2 * n) = 4 * n /\ 3 * (2 * n) = 6 * n /\ 3 * (2 * (2 * n)) = 12 * n
  BY DEF Positive
<1>6. factor \in {1, 2, 3, 4, 6, 12}
  BY DEF Factors
<1> QED
  BY <1>2, <1>3, <1>4, <1>5, <1>6

\* Between a number and its double there is one with small prime factors.
SmoothNear(k) == \E m \in k .. 2 * k - 1 : FiveSmooth(m)

LEMMA NearFromHalf ==
  ASSUME NEW k \in Nat, k >= 2, NEW h \in Nat, h >= 1, k = 2 * h \/ k = 2 * h - 1, SmoothNear(h)
  PROVE  SmoothNear(k)
<1>1. PICK m \in h .. 2 * h - 1 : FiveSmooth(m)
  BY DEF SmoothNear
<1>2. m \in Positive /\ m \in Nat /\ m >= h /\ m <= 2 * h - 1
  BY DEF Positive
<1>3. FiveSmooth(2 * m)
  BY <1>1, <1>2, Twice
<1>4. CASE 2 * m <= 2 * k - 1
  <2>1. 2 * m \in k .. 2 * k - 1
    BY <1>2, <1>4
  <2> QED
    BY <1>3, <2>1 DEF SmoothNear
<1>5. CASE 2 * m > 2 * k - 1
  <2>1. m = k
    BY <1>2, <1>5
  <2>2. k \in k .. 2 * k - 1
    OBVIOUS
  <2> QED
    BY <1>1, <2>1, <2>2 DEF SmoothNear
<1> QED
  BY <1>2, <1>4, <1>5

LEMMA AlwaysNear ==
  ASSUME NEW k \in Positive
  PROVE  SmoothNear(k)
<1> DEFINE Lost == {n \in Positive : ~SmoothNear(n)}
<1> SUFFICES Lost = {}
  OBVIOUS
<1> SUFFICES ASSUME Lost # {} PROVE FALSE
  OBVIOUS
<1>1. Lost \in SUBSET Nat
  BY DEF Positive
<1>2. PICK n \in Lost : \A y \in Lost : n <= y
  BY <1>1, LeastOf
<1>3. n \in Nat /\ n >= 1 /\ ~SmoothNear(n)
  BY <1>2 DEF Positive
<1>4. n # 1
  <2>1. FiveSmooth(1)
    BY DEF FiveSmooth
  <2>2. 1 \in 1 .. 2 * 1 - 1
    OBVIOUS
  <2>3. SmoothNear(1)
    BY <2>1, <2>2 DEF SmoothNear
  <2> QED
    BY <1>3, <2>3
<1>5. PICK h \in Nat : n = 2 * h \/ n = 2 * h - 1
  <2>1. n = 2 * ((n + 1) \div 2) \/ n = 2 * ((n + 1) \div 2) - 1
    BY <1>3
  <2>2. (n + 1) \div 2 \in Nat
    BY <1>3
  <2> QED
    BY <2>1, <2>2
<1>6. h >= 1 /\ h < n /\ n >= 2
  BY <1>3, <1>4, <1>5
<1>7. SmoothNear(h)
  <2> SUFFICES ASSUME ~SmoothNear(h) PROVE FALSE
    OBVIOUS
  <2>1. h \in Lost
    BY <1>6 DEF Positive
  <2>2. n <= h
    BY <1>2, <2>1
  <2> QED
    BY <1>3, <1>6, <2>2
<1> QED
  BY <1>3, <1>5, <1>6, <1>7, NearFromHalf

\* The search for a good length ends.
LEMMA OrderIs ==
  ASSUME NEW length \in Nat, length >= 1, NEW factor \in Factors,
         NEW n, n = GoodFftOrder(length, factor)
  PROVE  n \in Nat /\ n >= length /\ n % factor = 0 /\ FiveSmooth(n)
<1> DEFINE Good(m) == m % factor = 0 /\ FiveSmooth(m)
           S == {m \in length .. 2 * factor * length : Good(m)}
<1>1. factor \in Nat /\ factor >= 1
  BY DEF Factors
<1>2. PICK k \in Nat : length <= factor * k /\ k >= 1 /\ k <= length
  <2>1. factor * length = (factor - 1) * length + length /\ (factor - 1) * length >= 0
    BY <1>1
  <2>2. length <= factor * length
    BY <1>1, <2>1
  <2> DEFINE T == {k \in Nat : length <= factor * k}
  <2>3. length \in T /\ T \in SUBSET Nat
    BY <2>2
  <2>4. PICK k \in T : \A y \in T : k <= y
    BY <2>3, LeastOf
  <2>5. k \in Nat /\ length <= factor * k /\ k <= length
    BY <2>3, <2>4
  <2>6. k >= 1
    <3>1. k = 0 => factor * k = 0
      BY <1>1
    <3> QED
      BY <2>5, <3>1
  <2> QED
    BY <2>5, <2>6
<1>3. PICK m \in k .. 2 * k - 1 : FiveSmooth(m)
  <2>1. SmoothNear(k)
    BY <1>2, AlwaysNear DEF Positive
  <2> QED
    BY <2>1 DEF SmoothNear
<1>4. m \in Positive /\ m \in Nat /\ m >= k /\ m <= 2 * length
  BY <1>2, <1>3 DEF Positive
<1>5. factor * m \in S
  <2>1. FiveSmooth(factor * m)
    BY <1>3, <1>4, Multiplied
  <2>2. (factor * m) % factor = 0
    BY <1>1, <1>4
  <2>3. factor * m >= factor * k /\ factor * m <= factor * (2 * length)
    BY <1>1, <1>2, <1>4
  <2>4. factor * (2 * length) = 2 * factor * length /\ factor * m \in Nat /\ factor * k \in Nat
    BY <1>1, <1>2, <1>4
  <2>5. factor * m \in length .. 2 * factor * length
    BY <1>1, <1>2, <2>3, <2>4
  <2> QED
    BY <2>1, <2>2, <2>5
<1>6. PICK x \in S : \A y \in S : x <= y
  <2>1. S \in SUBSET Nat /\ S # {}
    BY <1>5
  <2> HIDE DEF S
  <2> QED
    BY <2>1, LeastOf
<1>7. \A y \in length .. x - 1 : ~Good(y)
  <2> SUFFICES ASSUME NEW y \in length .. x - 1, Good(y) PROVE FALSE
    OBVIOUS
  <2>1. y \in S
    BY <1>1, <1>6
  <2>2. x <= y
    BY <1>6, <2>1
  <2> QED
    BY <1>6, <2>2
<1>8. x \in length .. 2 * factor * length /\ Good(x)
  BY <1>6
<1>9. n = CHOOSE z \in length .. 2 * factor * length : Good(z) /\ \A y \in length .. z - 1 : ~Good(y)
  BY DEF GoodFftOrder
<1> HIDE DEF Good
<1>10. n \in length .. 2 * factor * length /\ Good(n)
  BY <1>7, <1>8, <1>9
<1> QED
  BY <1>10 DEF Good

LEMMA Divided ==
  ASSUME NEW m \in Factors, NEW a \in Factors, m % a = 0, NEW n \in Nat, n % m = 0
  PROVE  n % a = 0
<1>1. CASE m = 1
  <2>1. a = 1
    BY <1>1 DEF Factors
  <2> QED
    BY <1>1, <2>1
<1>2. CASE m = 2
  <2>1. a \in {1, 2}
    BY <1>2 DEF Factors
  <2> QED
    BY <1>2, <2>1
<1>3. CASE m = 3
  <2>1. a \in {1, 3}
    BY <1>3 DEF Factors
  <2> QED
    BY <1>3, <2>1
<1>4. CASE m = 4
  <2>1. a \in {1, 2, 4}
    BY <1>4 DEF Factors
  <2> QED
    BY <1>4, <2>1
<1>5. CASE m = 6
  <2>1. a \in {1, 2, 3, 6}
    BY <1>5 DEF Factors
  <2> QED
    BY <1>5, <2>1
<1>6. CASE m = 12
  <2>1. a \in {1, 2, 3, 4, 6, 12}
    BY <1>6 DEF Factors
  <2> QED
    BY <1>6, <2>1
<1> QED
  BY <1>1, <1>2, <1>3, <1>4, <1>5, <1>6 DEF Factors

LEMMA LcmIs ==
  ASSUME NEW a \in Factors, NEW b \in Factors
  PROVE  /\ Lcm(a, b) \in Factors
         /\ \A n \in Nat : n % Lcm(a, b) = 0 => n % a = 0 /\ n % b = 0
<1> DEFINE S == {n \in 1 .. a * b : n % a = 0 /\ n % b = 0}
           m == Lcm(a, b)
<1>1. m = Min(S)
  BY DEF Lcm
<1>2. \A w \in Factors : w <= a * b /\ w % a = 0 /\ w % b = 0 => w \in S
  BY DEF Factors
<1>3. \E w \in Factors : w <= a * b /\ w % a = 0 /\ w % b = 0
  <2>1. CASE a = 1
    BY <2>1 DEF Factors
  <2>2. CASE a = 2
    BY <2>2 DEF Factors
  <2>3. CASE a = 3
    BY <2>3 DEF Factors
  <2>4. CASE a = 4
    BY <2>4 DEF Factors
  <2>5. CASE a = 6
    BY <2>5 DEF Factors
  <2>6. CASE a = 12
    BY <2>6 DEF Factors
  <2> QED
    BY <2>1, <2>2, <2>3, <2>4, <2>5, <2>6 DEF Factors
<1>4. m \in S /\ \A n \in S : m <= n
  <2>1. S \in SUBSET Nat
    OBVIOUS
  <2>2. S # {}
    BY <1>2, <1>3
  <2> HIDE DEF S, m
  <2> QED
    BY <1>1, <2>1, <2>2, MinIs
<1>5. m \in Nat /\ m >= 1 /\ m <= a * b /\ m % a = 0 /\ m % b = 0
  BY <1>4 DEF Factors
<1>6. m <= 12
  BY <1>2, <1>3, <1>4, <1>5 DEF Factors
<1>7. \A w \in Factors : w % a = 0 /\ w % b = 0 => m <= w
  <2> SUFFICES ASSUME NEW w \in Factors, w % a = 0, w % b = 0 PROVE m <= w
    OBVIOUS
  <2>1. w \in Nat /\ a * b \in Nat
    BY DEF Factors
  <2>2. CASE w <= a * b
    BY <1>2, <1>4, <2>2
  <2>3. CASE w > a * b
    <3> HIDE DEF m
    <3> QED
      BY <1>5, <2>1, <2>3
  <2> QED
    BY <2>1, <2>2, <2>3
<1> HIDE DEF S, m
<1>8. m \in Factors
  <2>1. CASE m \in {5, 7, 11}
    <3>1. a = 1 /\ b = 1
      BY <1>5, <2>1 DEF Factors
    <3>2. 1 \in Factors /\ 1 % 1 = 0
      BY DEF Factors
    <3> QED
      BY <1>7, <2>1, <3>1, <3>2
  <2>2. CASE m = 8
    <3>1. a \in {1, 2, 4} /\ b \in {1, 2, 4}
      BY <1>5, <2>2 DEF Factors
    <3>2. 4 \in Factors /\ 4 % a = 0 /\ 4 % b = 0
      BY <3>1 DEF Factors
    <3> QED
      BY <1>7, <2>2, <3>2
  <2>3. CASE m = 9
    <3>1. a \in {1, 3} /\ b \in {1, 3}
      BY <1>5, <2>3 DEF Factors
    <3>2. 3 \in Factors /\ 3 % a = 0 /\ 3 % b = 0
      BY <3>1 DEF Factors
    <3> QED
      BY <1>7, <2>3, <3>2
  <2>4. CASE m = 10
    <3>1. a \in {1, 2} /\ b \in {1, 2}
      BY <1>5, <2>4 DEF Factors
    <3>2. 2 \in Factors /\ 2 % a = 0 /\ 2 % b = 0
      BY <3>1 DEF Factors
    <3> QED
      BY <1>7, <2>4, <3>2
  <2> QED
    BY <1>5, <1>6, <2>1, <2>2, <2>3, <2>4 DEF Factors
<1>9. \A n \in Nat : n % m = 0 => n % a = 0 /\ n % b = 0
  BY <1>5, <1>8, Divided
<1> QED
  BY <1>8, <1>9 DEF m

\* The rotations keep a grid that is the same along every axis.
LEMMA EqualIsKept ==
  ASSUME NEW c \in Cells, NEW n \in Positive
  PROVE  KeepsGrid(PwRotations(c), <<n, n, n>>)
<1> SUFFICES ASSUME NEW r \in PwRotations(c), NEW i \in Axes, NEW j \in Axes
             PROVE  (r[i][j] * <<n, n, n>>[i]) % <<n, n, n>>[j] = 0
  BY DEF KeepsGrid
<1>1. r[i][j] \in -1 .. 1
  BY RotationsAssumption, PointGroupEntries DEF CrystalRotations
<1>2. <<n, n, n>>[i] = n /\ <<n, n, n>>[j] = n
  BY DEF Axes
<1>3. r[i][j] = 0 \/ r[i][j] = 1 \/ r[i][j] = -1
  BY <1>1
<1>4. r[i][j] * n \in {0, n, -n}
  BY <1>3 DEF Positive
<1>5. 0 % n = 0 /\ n % n = 0 /\ (-n) % n = 0
  BY DEF Positive
<1> QED
  BY <1>2, <1>4, <1>5

-----------------------------------------------------------------------------
(* Matrices of three rows.                                                 *)

IsMatrix(m) == \A i, j \in Axes : m[i][j] \in Int

IsVector(v) == \A i \in Axes : v[i] \in Int

Multiply(a, b) ==
  [i \in Axes |-> [j \in Axes |-> a[i][1] * b[1][j] + a[i][2] * b[2][j] + a[i][3] * b[3][j]]]

LEMMA EntriesAre ==
  ASSUME NEW m, IsMatrix(m)
  PROVE  /\ m[1][1] \in Int /\ m[1][2] \in Int /\ m[1][3] \in Int
         /\ m[2][1] \in Int /\ m[2][2] \in Int /\ m[2][3] \in Int
         /\ m[3][1] \in Int /\ m[3][2] \in Int /\ m[3][3] \in Int
BY DEF IsMatrix, Axes

LEMMA CofactorsAre ==
  ASSUME NEW m
  PROVE  /\ Cofactors(m)[1][1] = m[2][2] * m[3][3] - m[2][3] * m[3][2]
         /\ Cofactors(m)[1][2] = m[2][3] * m[3][1] - m[2][1] * m[3][3]
         /\ Cofactors(m)[1][3] = m[2][1] * m[3][2] - m[2][2] * m[3][1]
         /\ Cofactors(m)[2][1] = m[3][2] * m[1][3] - m[3][3] * m[1][2]
         /\ Cofactors(m)[2][2] = m[3][3] * m[1][1] - m[3][1] * m[1][3]
         /\ Cofactors(m)[2][3] = m[3][1] * m[1][2] - m[3][2] * m[1][1]
         /\ Cofactors(m)[3][1] = m[1][2] * m[2][3] - m[1][3] * m[2][2]
         /\ Cofactors(m)[3][2] = m[1][3] * m[2][1] - m[1][1] * m[2][3]
         /\ Cofactors(m)[3][3] = m[1][1] * m[2][2] - m[1][2] * m[2][1]
<1>1. After(1) = 2 /\ After(2) = 3 /\ After(3) = 1
  BY DEF After
<1>2. \A i, j \in Axes :
        Cofactors(m)[i][j] = m[After(i)][After(j)] * m[After(After(i))][After(After(j))]
                             - m[After(i)][After(After(j))] * m[After(After(i))][After(j)]
  BY DEF Cofactors
<1>3. 1 \in Axes /\ 2 \in Axes /\ 3 \in Axes
  BY DEF Axes
<1> QED
  BY <1>1, <1>2, <1>3

LEMMA CofactorsMatrix ==
  ASSUME NEW m, IsMatrix(m)
  PROVE  IsMatrix(Cofactors(m))
<1>1. \A i, j \in Axes : i \in {1, 2, 3} /\ j \in {1, 2, 3}
  BY DEF Axes
<1> QED
  BY <1>1, EntriesAre, CofactorsAre DEF IsMatrix

LEMMA DeterminantIs ==
  ASSUME NEW m
  PROVE  Determinant(m) = m[1][1] * (m[2][2] * m[3][3] - m[2][3] * m[3][2])
                          + m[1][2] * (m[2][3] * m[3][1] - m[2][1] * m[3][3])
                          + m[1][3] * (m[2][1] * m[3][2] - m[2][2] * m[3][1])
BY CofactorsAre DEF Determinant

LEMMA MultiplyIs ==
  ASSUME NEW a, NEW b, IsMatrix(a), IsMatrix(b)
  PROVE  /\ IsMatrix(Multiply(a, b))
         /\ \A i, j \in Axes :
              Multiply(a, b)[i][j] = a[i][1] * b[1][j] + a[i][2] * b[2][j] + a[i][3] * b[3][j]
<1>1. 1 \in Axes /\ 2 \in Axes /\ 3 \in Axes
  BY DEF Axes
<1>2. \A i, j \in Axes :
        Multiply(a, b)[i][j] = a[i][1] * b[1][j] + a[i][2] * b[2][j] + a[i][3] * b[3][j]
  BY DEF Multiply
<1>3. ASSUME NEW i \in Axes, NEW j \in Axes PROVE Multiply(a, b)[i][j] \in Int
  <2>1. /\ a[i][1] \in Int /\ a[i][2] \in Int /\ a[i][3] \in Int
        /\ b[1][j] \in Int /\ b[2][j] \in Int /\ b[3][j] \in Int
    BY <1>1 DEF IsMatrix
  <2> QED
    BY <1>2, <2>1
<1> QED
  BY <1>2, <1>3 DEF IsMatrix

\* The nine entries of a product.
LEMMA MultiplyEntries ==
  ASSUME NEW a, NEW b, IsMatrix(a), IsMatrix(b), NEW m, m = Multiply(a, b)
  PROVE  /\ m[1][1] = a[1][1] * b[1][1] + a[1][2] * b[2][1] + a[1][3] * b[3][1]
         /\ m[1][2] = a[1][1] * b[1][2] + a[1][2] * b[2][2] + a[1][3] * b[3][2]
         /\ m[1][3] = a[1][1] * b[1][3] + a[1][2] * b[2][3] + a[1][3] * b[3][3]
         /\ m[2][1] = a[2][1] * b[1][1] + a[2][2] * b[2][1] + a[2][3] * b[3][1]
         /\ m[2][2] = a[2][1] * b[1][2] + a[2][2] * b[2][2] + a[2][3] * b[3][2]
         /\ m[2][3] = a[2][1] * b[1][3] + a[2][2] * b[2][3] + a[2][3] * b[3][3]
         /\ m[3][1] = a[3][1] * b[1][1] + a[3][2] * b[2][1] + a[3][3] * b[3][1]
         /\ m[3][2] = a[3][1] * b[1][2] + a[3][2] * b[2][2] + a[3][3] * b[3][2]
         /\ m[3][3] = a[3][1] * b[1][3] + a[3][2] * b[2][3] + a[3][3] * b[3][3]
<1>1. 1 \in Axes /\ 2 \in Axes /\ 3 \in Axes
  BY DEF Axes
<1> QED
  BY <1>1, MultiplyIs

\* What a matrix of integers consists of.
LEMMA NineEntries ==
  ASSUME NEW m, IsMatrix(m)
  PROVE  \E m11, m12, m13, m21, m22, m23, m31, m32, m33 \in Int :
           /\ m[1][1] = m11 /\ m[1][2] = m12 /\ m[1][3] = m13
           /\ m[2][1] = m21 /\ m[2][2] = m22 /\ m[2][3] = m23
           /\ m[3][1] = m31 /\ m[3][2] = m32 /\ m[3][3] = m33
BY EntriesAre

LEMMA DeterminantOfProduct ==
  ASSUME NEW a, NEW b, IsMatrix(a), IsMatrix(b)
  PROVE  Determinant(Multiply(a, b)) = Determinant(a) * Determinant(b)
<1> DEFINE m == Multiply(a, b)
<1>1. PICK a1, a2, a3, b1, b2, b3, c1, c2, c3 \in Int :
        /\ a[1][1] = a1 /\ a[1][2] = a2 /\ a[1][3] = a3
        /\ a[2][1] = b1 /\ a[2][2] = b2 /\ a[2][3] = b3
        /\ a[3][1] = c1 /\ a[3][2] = c2 /\ a[3][3] = c3
  BY NineEntries
<1>2. PICK x1, x2, x3, y1, y2, y3, z1, z2, z3 \in Int :
        /\ b[1][1] = x1 /\ b[1][2] = x2 /\ b[1][3] = x3
        /\ b[2][1] = y1 /\ b[2][2] = y2 /\ b[2][3] = y3
        /\ b[3][1] = z1 /\ b[3][2] = z2 /\ b[3][3] = z3
  BY NineEntries
<1>3. /\ Determinant(a) = a1 * (b2 * c3 - b3 * c2) + a2 * (b3 * c1 - b1 * c3) + a3 * (b1 * c2 - b2 * c1)
      /\ Determinant(b) = x1 * (y2 * z3 - y3 * z2) + x2 * (y3 * z1 - y1 * z3) + x3 * (y1 * z2 - y2 * z1)
  BY <1>1, <1>2, DeterminantIs
<1> HIDE DEF m
<1>4. /\ m[1][1] = a1 * x1 + a2 * y1 + a3 * z1
      /\ m[1][2] = a1 * x2 + a2 * y2 + a3 * z2
      /\ m[1][3] = a1 * x3 + a2 * y3 + a3 * z3
      /\ m[2][1] = b1 * x1 + b2 * y1 + b3 * z1
      /\ m[2][2] = b1 * x2 + b2 * y2 + b3 * z2
      /\ m[2][3] = b1 * x3 + b2 * y3 + b3 * z3
      /\ m[3][1] = c1 * x1 + c2 * y1 + c3 * z1
      /\ m[3][2] = c1 * x2 + c2 * y2 + c3 * z2
      /\ m[3][3] = c1 * x3 + c2 * y3 + c3 * z3
  BY <1>1, <1>2, MultiplyEntries DEF m
<1>5. Determinant(m) =
      (a1 * x1 + a2 * y1 + a3 * z1)
      * ((b1 * x2 + b2 * y2 + b3 * z2) * (c1 * x3 + c2 * y3 + c3 * z3)
         - (b1 * x3 + b2 * y3 + b3 * z3) * (c1 * x2 + c2 * y2 + c3 * z2))
      + (a1 * x2 + a2 * y2 + a3 * z2)
        * ((b1 * x3 + b2 * y3 + b3 * z3) * (c1 * x1 + c2 * y1 + c3 * z1)
           - (b1 * x1 + b2 * y1 + b3 * z1) * (c1 * x3 + c2 * y3 + c3 * z3))
      + (a1 * x3 + a2 * y3 + a3 * z3)
        * ((b1 * x1 + b2 * y1 + b3 * z1) * (c1 * x2 + c2 * y2 + c3 * z2)
           - (b1 * x2 + b2 * y2 + b3 * z2) * (c1 * x1 + c2 * y1 + c3 * z1))
  BY <1>4, DeterminantIs
<1>6. (a1 * x1 + a2 * y1 + a3 * z1)
      * ((b1 * x2 + b2 * y2 + b3 * z2) * (c1 * x3 + c2 * y3 + c3 * z3)
         - (b1 * x3 + b2 * y3 + b3 * z3) * (c1 * x2 + c2 * y2 + c3 * z2))
      + (a1 * x2 + a2 * y2 + a3 * z2)
        * ((b1 * x3 + b2 * y3 + b3 * z3) * (c1 * x1 + c2 * y1 + c3 * z1)
           - (b1 * x1 + b2 * y1 + b3 * z1) * (c1 * x3 + c2 * y3 + c3 * z3))
      + (a1 * x3 + a2 * y3 + a3 * z3)
        * ((b1 * x1 + b2 * y1 + b3 * z1) * (c1 * x2 + c2 * y2 + c3 * z2)
           - (b1 * x2 + b2 * y2 + b3 * z2) * (c1 * x1 + c2 * y1 + c3 * z1))
      = (a1 * (b2 * c3 - b3 * c2) + a2 * (b3 * c1 - b1 * c3) + a3 * (b1 * c2 - b2 * c1))
        * (x1 * (y2 * z3 - y3 * z2) + x2 * (y3 * z1 - y1 * z3) + x3 * (y1 * z2 - y2 * z1))
  OBVIOUS
<1> QED
  BY <1>3, <1>5, <1>6, Zenon DEF m

\* The cofactors of a product are the product of the cofactors.
LEMMA CofactorsOfProduct ==
  ASSUME NEW a, NEW b, IsMatrix(a), IsMatrix(b), NEW i \in Axes, NEW j \in Axes
  PROVE  Cofactors(Multiply(a, b))[i][j] = Multiply(Cofactors(a), Cofactors(b))[i][j]
<1> DEFINE m == Multiply(a, b)
           ca == Cofactors(a)
           cb == Cofactors(b)
           n == Multiply(ca, cb)
<1>1. IsMatrix(ca) /\ IsMatrix(cb)
  BY CofactorsMatrix
<1>2. i \in {1, 2, 3} /\ j \in {1, 2, 3}
  BY DEF Axes
<1> HIDE DEF m, n
<1>3. /\ Cofactors(m)[1][1] = n[1][1] /\ Cofactors(m)[1][2] = n[1][2] /\ Cofactors(m)[1][3] = n[1][3]
      /\ Cofactors(m)[2][1] = n[2][1] /\ Cofactors(m)[2][2] = n[2][2] /\ Cofactors(m)[2][3] = n[2][3]
      /\ Cofactors(m)[3][1] = n[3][1] /\ Cofactors(m)[3][2] = n[3][2] /\ Cofactors(m)[3][3] = n[3][3]
  BY <1>1, CofactorsAre, MultiplyEntries, EntriesAre DEF m, n
<1> QED
  BY <1>2, <1>3 DEF m, n
\* The determinant and the cofactors are those of the entries.
LEMMA SameDeterminant ==
  ASSUME NEW a, NEW b, \A i, j \in Axes : a[i][j] = b[i][j]
  PROVE  Determinant(a) = Determinant(b)
<1>1. /\ a[1][1] = b[1][1] /\ a[1][2] = b[1][2] /\ a[1][3] = b[1][3]
      /\ a[2][1] = b[2][1] /\ a[2][2] = b[2][2] /\ a[2][3] = b[2][3]
      /\ a[3][1] = b[3][1] /\ a[3][2] = b[3][2] /\ a[3][3] = b[3][3]
  BY DEF Axes
<1> QED
  BY <1>1, DeterminantIs

LEMMA SameCofactors ==
  ASSUME NEW a, NEW b, \A i, j \in Axes : a[i][j] = b[i][j], NEW k \in Axes, NEW l \in Axes
  PROVE  Cofactors(a)[k][l] = Cofactors(b)[k][l]
<1>1. /\ a[1][1] = b[1][1] /\ a[1][2] = b[1][2] /\ a[1][3] = b[1][3]
      /\ a[2][1] = b[2][1] /\ a[2][2] = b[2][2] /\ a[2][3] = b[2][3]
      /\ a[3][1] = b[3][1] /\ a[3][2] = b[3][2] /\ a[3][3] = b[3][3]
  BY DEF Axes
<1>2. k \in {1, 2, 3} /\ l \in {1, 2, 3}
  BY DEF Axes
<1> QED
  BY <1>1, <1>2, CofactorsAre

LEMMA TransposedIs ==
  ASSUME NEW m, IsMatrix(m)
  PROVE  /\ IsMatrix(Transposed(m)) /\ \A i, j \in Axes : Transposed(m)[i][j] = m[j][i]
         /\ Determinant(Transposed(m)) = Determinant(m)
         /\ \A i, j \in Axes : Cofactors(Transposed(m))[i][j] = Cofactors(m)[j][i]
<1> DEFINE t == Transposed(m)
<1>1. IsMatrix(t) /\ \A i, j \in Axes : t[i][j] = m[j][i]
  BY DEF Transposed, IsMatrix
<1> HIDE DEF t
<1>2. /\ t[1][1] = m[1][1] /\ t[1][2] = m[2][1] /\ t[1][3] = m[3][1]
      /\ t[2][1] = m[1][2] /\ t[2][2] = m[2][2] /\ t[2][3] = m[3][2]
      /\ t[3][1] = m[1][3] /\ t[3][2] = m[2][3] /\ t[3][3] = m[3][3]
  BY <1>1 DEF Axes
<1>3. Determinant(t) = Determinant(m)
  BY <1>2, DeterminantIs, EntriesAre
<1>4. \A i, j \in Axes : i \in {1, 2, 3} /\ j \in {1, 2, 3}
  BY DEF Axes
<1>5. \A i, j \in Axes : Cofactors(t)[i][j] = Cofactors(m)[j][i]
  BY <1>2, <1>4, CofactorsAre, EntriesAre
<1> QED
  BY <1>1, <1>3, <1>5 DEF t

-----------------------------------------------------------------------------
(* Lengths.                                                                *)

\* The Gram matrix of independent vectors.
Definite(gram) ==
  /\ IsMatrix(gram) /\ \A i, j \in Axes : gram[i][j] = gram[j][i]
  /\ \A i \in Axes : gram[i][i] > 0 /\ Cofactors(gram)[i][i] > 0
  /\ Determinant(gram) > 0

\* A rotation of a lattice turns its vectors into vectors of the same products.
LEMMA RotationKeepsGram ==
  ASSUME NEW gram, Definite(gram), NEW r \in PointGroup(gram)
  PROVE  /\ IsMatrix(r)
         /\ \A i, j \in Axes : Multiply(Transposed(r), Multiply(gram, r))[i][j] = gram[i][j]
<1> DEFINE Images(k) == {v \in Vectors : Inner(gram, v, v) = gram[k][k]}
           t == Transposed(r)
           p == Multiply(gram, r)
<1>1. IsMatrix(r)
  BY PointGroupEntries DEF IsMatrix
<1>2. PICK c \in Images(1) \X Images(2) \X Images(3) :
        r = Transposed(c) /\ \A i, j \in Axes : i < j => Inner(gram, c[i], c[j]) = gram[i][j]
  BY DEF PointGroup
<1>3. \A i \in Axes : Inner(gram, c[i], c[i]) = gram[i][i]
  <2>1. c[1] \in Images(1) /\ c[2] \in Images(2) /\ c[3] \in Images(3)
    BY <1>2
  <2> QED
    BY <2>1 DEF Axes
<1>4. \A i, j \in Axes : r[i][j] = c[j][i]
  BY <1>2 DEF Transposed
<1>5. IsMatrix(gram) /\ IsMatrix(t) /\ \A i, j \in Axes : t[i][j] = r[j][i] /\ gram[i][j] = gram[j][i]
  BY <1>1, TransposedIs DEF Definite
<1> HIDE DEF t
<1>6. IsMatrix(p) /\ \A i, j \in Axes : p[i][j] = gram[i][1] * r[1][j] + gram[i][2] * r[2][j] + gram[i][3] * r[3][j]
  BY <1>1, <1>5, MultiplyIs
<1> HIDE DEF p
<1>7. 1 \in Axes /\ 2 \in Axes /\ 3 \in Axes
  BY DEF Axes
<1> SUFFICES ASSUME NEW i \in Axes, NEW j \in Axes PROVE Multiply(t, p)[i][j] = gram[i][j]
  BY <1>1 DEF t, p
<1> DEFINE Column(x, y) ==
             r[1][x] * (gram[1][1] * r[1][y] + gram[1][2] * r[2][y] + gram[1][3] * r[3][y])
             + r[2][x] * (gram[2][1] * r[1][y] + gram[2][2] * r[2][y] + gram[2][3] * r[3][y])
             + r[3][x] * (gram[3][1] * r[1][y] + gram[3][2] * r[2][y] + gram[3][3] * r[3][y])
<1>8. Multiply(t, p)[i][j] = Column(i, j)
  BY <1>5, <1>6, <1>7, MultiplyIs
<1>9. \A x, y \in Axes : Inner(gram, c[x], c[y]) = Column(x, y)
  BY <1>4, <1>7 DEF Inner
<1>10. Column(i, j) = Column(j, i)
  <2>1. /\ r[1][i] \in Int /\ r[2][i] \in Int /\ r[3][i] \in Int
        /\ r[1][j] \in Int /\ r[2][j] \in Int /\ r[3][j] \in Int
    BY <1>1, <1>7 DEF IsMatrix
  <2>2. gram[2][1] = gram[1][2] /\ gram[3][1] = gram[1][3] /\ gram[3][2] = gram[2][3]
    BY <1>5, <1>7
  <2>3. /\ gram[1][1] \in Int /\ gram[1][2] \in Int /\ gram[1][3] \in Int
        /\ gram[2][2] \in Int /\ gram[2][3] \in Int /\ gram[3][3] \in Int
    BY <1>5, EntriesAre
  <2> QED
    BY ONLY <2>1, <2>2, <2>3
<1> HIDE DEF Column
<1>11. \A x, y \in Axes : x < y => Column(x, y) = gram[x][y]
  BY <1>2, <1>9
<1>12. \A x \in Axes : Column(x, x) = gram[x][x]
  BY <1>3, <1>9
<1>13. i < j \/ i = j \/ j < i
  BY DEF Axes
<1>14. Column(i, j) = gram[i][j]
  BY <1>5, <1>10, <1>11, <1>12, <1>13
<1> QED
  BY <1>8, <1>14

\* A rotation turns the lattice right side round or over.
LEMMA RotationDeterminant ==
  ASSUME NEW gram, Definite(gram), NEW r \in PointGroup(gram)
  PROVE  Determinant(r) = 1 \/ Determinant(r) = -1
<1> DEFINE t == Transposed(r)
           p == Multiply(gram, r)
           d == Determinant(gram)
           e == Determinant(r)
<1>1. IsMatrix(r) /\ IsMatrix(gram) /\ \A i, j \in Axes : Multiply(t, p)[i][j] = gram[i][j]
  BY RotationKeepsGram DEF Definite
<1>2. IsMatrix(t) /\ Determinant(t) = e /\ IsMatrix(p)
  BY <1>1, TransposedIs, MultiplyIs
<1>3. Determinant(Multiply(t, p)) = d
  BY <1>1, SameDeterminant
<1>4. Determinant(p) = d * e
  BY <1>1, DeterminantOfProduct
<1> HIDE DEF t, p
<1>5. e * Determinant(p) = d
  BY <1>2, <1>3, DeterminantOfProduct
<1>6. d \in Int /\ d > 0 /\ e \in Int
  BY <1>1, DeterminantIs, EntriesAre DEF Definite
<1> HIDE DEF d, e
<1>7. d * (e * e - 1) = 0
  BY <1>4, <1>5, <1>6
<1>8. e * e = 1
  BY <1>6, <1>7
<1>9. e = 1 \/ e = -1
  BY <1>6, <1>8
<1> QED
  BY <1>9 DEF e

LEMMA TurnedIs ==
  ASSUME NEW m, IsMatrix(m), NEW v, IsVector(v)
  PROVE  /\ IsVector(Turned(m, v))
         /\ Turned(m, v)[1] = m[1][1] * v[1] + m[1][2] * v[2] + m[1][3] * v[3]
         /\ Turned(m, v)[2] = m[2][1] * v[1] + m[2][2] * v[2] + m[2][3] * v[3]
         /\ Turned(m, v)[3] = m[3][1] * v[1] + m[3][2] * v[2] + m[3][3] * v[3]
<1> DEFINE w == Turned(m, v)
<1>1. 1 \in Axes /\ 2 \in Axes /\ 3 \in Axes /\ \A i \in Axes : i \in {1, 2, 3}
  BY DEF Axes
<1>2. /\ w[1] = m[1][1] * v[1] + m[1][2] * v[2] + m[1][3] * v[3]
      /\ w[2] = m[2][1] * v[1] + m[2][2] * v[2] + m[2][3] * v[3]
      /\ w[3] = m[3][1] * v[1] + m[3][2] * v[2] + m[3][3] * v[3]
  BY <1>1 DEF Turned
<1> HIDE DEF w
<1>3. v[1] \in Int /\ v[2] \in Int /\ v[3] \in Int
  BY <1>1 DEF IsVector
<1>4. w[1] \in Int /\ w[2] \in Int /\ w[3] \in Int
  BY <1>2, <1>3, EntriesAre
<1>5. IsVector(w)
  BY <1>1, <1>4 DEF IsVector
<1> QED
  BY <1>2, <1>5 DEF w

\* What the transpose of a matrix and its cofactors do undo each other, up to
\* the determinant.
LEMMA CofactorsUndo ==
  ASSUME NEW r, IsMatrix(r), NEW v, IsVector(v), NEW i \in Axes
  PROVE  /\ Turned(Transposed(r), Turned(Cofactors(r), v))[i] = Determinant(r) * v[i]
         /\ Turned(Cofactors(r), Turned(Transposed(r), v))[i] = Determinant(r) * v[i]
<1> DEFINE c == Cofactors(r)
           t == Transposed(r)
           d == Determinant(r)
<1>1. i \in {1, 2, 3} /\ 1 \in Axes /\ 2 \in Axes /\ 3 \in Axes
  BY DEF Axes
<1>2. PICK a1, a2, a3, b1, b2, b3, c1, c2, c3 \in Int :
        /\ r[1][1] = a1 /\ r[1][2] = a2 /\ r[1][3] = a3
        /\ r[2][1] = b1 /\ r[2][2] = b2 /\ r[2][3] = b3
        /\ r[3][1] = c1 /\ r[3][2] = c2 /\ r[3][3] = c3
  BY NineEntries
<1>3. PICK x, y, z \in Int : v[1] = x /\ v[2] = y /\ v[3] = z
  BY <1>1 DEF IsVector
<1>4. d = a1 * (b2 * c3 - b3 * c2) + a2 * (b3 * c1 - b1 * c3) + a3 * (b1 * c2 - b2 * c1)
  BY <1>2, DeterminantIs
<1>5. /\ c[1][1] = b2 * c3 - b3 * c2 /\ c[1][2] = b3 * c1 - b1 * c3 /\ c[1][3] = b1 * c2 - b2 * c1
      /\ c[2][1] = c2 * a3 - c3 * a2 /\ c[2][2] = c3 * a1 - c1 * a3 /\ c[2][3] = c1 * a2 - c2 * a1
      /\ c[3][1] = a2 * b3 - a3 * b2 /\ c[3][2] = a3 * b1 - a1 * b3 /\ c[3][3] = a1 * b2 - a2 * b1
  BY <1>2, CofactorsAre
<1>6. /\ t[1][1] = a1 /\ t[1][2] = b1 /\ t[1][3] = c1
      /\ t[2][1] = a2 /\ t[2][2] = b2 /\ t[2][3] = c2
      /\ t[3][1] = a3 /\ t[3][2] = b3 /\ t[3][3] = c3
  BY <1>1, <1>2, TransposedIs
<1>7. IsMatrix(c) /\ IsMatrix(t)
  BY CofactorsMatrix, TransposedIs
<1> HIDE DEF c, t, d
<1>8. IsVector(Turned(c, v)) /\ IsVector(Turned(t, v))
  BY <1>7, TurnedIs
<1>9. /\ Turned(t, Turned(c, v))[1] = d * x
      /\ Turned(t, Turned(c, v))[2] = d * y
      /\ Turned(t, Turned(c, v))[3] = d * z
  <2> DEFINE w == Turned(c, v)
             u == Turned(t, w)
  <2>1. /\ w[1] = (b2 * c3 - b3 * c2) * x + (b3 * c1 - b1 * c3) * y + (b1 * c2 - b2 * c1) * z
        /\ w[2] = (c2 * a3 - c3 * a2) * x + (c3 * a1 - c1 * a3) * y + (c1 * a2 - c2 * a1) * z
        /\ w[3] = (a2 * b3 - a3 * b2) * x + (a3 * b1 - a1 * b3) * y + (a1 * b2 - a2 * b1) * z
    BY <1>3, <1>5, <1>7, TurnedIs
  <2> HIDE DEF w
  <2>2. /\ u[1] = a1 * w[1] + b1 * w[2] + c1 * w[3]
        /\ u[2] = a2 * w[1] + b2 * w[2] + c2 * w[3]
        /\ u[3] = a3 * w[1] + b3 * w[2] + c3 * w[3]
    BY <1>6, <1>7, <1>8, TurnedIs DEF w
  <2> HIDE DEF u
  <2>3. u[1] = d * x /\ u[2] = d * y /\ u[3] = d * z
    BY ONLY <1>4, <2>1, <2>2
  <2> QED
    BY <2>3 DEF u, w
<1>10. /\ Turned(c, Turned(t, v))[1] = d * x
       /\ Turned(c, Turned(t, v))[2] = d * y
       /\ Turned(c, Turned(t, v))[3] = d * z
  <2> DEFINE w == Turned(t, v)
             u == Turned(c, w)
  <2>1. /\ w[1] = a1 * x + b1 * y + c1 * z
        /\ w[2] = a2 * x + b2 * y + c2 * z
        /\ w[3] = a3 * x + b3 * y + c3 * z
    BY <1>3, <1>6, <1>7, TurnedIs
  <2> HIDE DEF w
  <2>2. /\ u[1] = (b2 * c3 - b3 * c2) * w[1] + (b3 * c1 - b1 * c3) * w[2] + (b1 * c2 - b2 * c1) * w[3]
        /\ u[2] = (c2 * a3 - c3 * a2) * w[1] + (c3 * a1 - c1 * a3) * w[2] + (c1 * a2 - c2 * a1) * w[3]
        /\ u[3] = (a2 * b3 - a3 * b2) * w[1] + (a3 * b1 - a1 * b3) * w[2] + (a1 * b2 - a2 * b1) * w[3]
    BY <1>5, <1>7, <1>8, TurnedIs DEF w
  <2> HIDE DEF u
  <2>3. u[1] = d * x /\ u[2] = d * y /\ u[3] = d * z
    BY ONLY <1>4, <2>1, <2>2
  <2> QED
    BY <2>3 DEF u, w
<1> QED
  BY <1>1, <1>3, <1>9, <1>10 DEF c, t, d

\* A quadratic form and the one a matrix makes of it.
LEMMA FormTurned ==
  ASSUME NEW h, IsMatrix(h), NEW c, IsMatrix(c), NEW v, IsVector(v),
         NEW g, \A i, j \in Axes : g[i][j] = Multiply(Transposed(c), Multiply(h, c))[i][j]
  PROVE  Inner(h, Turned(c, v), Turned(c, v)) = Inner(g, v, v)
<1> DEFINE t == Transposed(c)
           p == Multiply(h, c)
           w == Turned(c, v)
           Row(k) == h[k][1] * w[1] + h[k][2] * w[2] + h[k][3] * w[3]
<1>1. 1 \in Axes /\ 2 \in Axes /\ 3 \in Axes
  BY DEF Axes
<1>2. IsMatrix(t) /\ IsMatrix(p) /\ \A i, j \in Axes : t[i][j] = c[j][i]
  BY TransposedIs, MultiplyIs
<1>3. PICK x, y, z \in Int : v[1] = x /\ v[2] = y /\ v[3] = z
  BY <1>1 DEF IsVector
<1>4. \A k \in Axes : h[k][1] \in Int /\ h[k][2] \in Int /\ h[k][3] \in Int
  BY <1>1 DEF IsMatrix
<1>5. PICK a1, a2, a3, b1, b2, b3, c1, c2, c3 \in Int :
        /\ c[1][1] = a1 /\ c[1][2] = a2 /\ c[1][3] = a3
        /\ c[2][1] = b1 /\ c[2][2] = b2 /\ c[2][3] = b3
        /\ c[3][1] = c1 /\ c[3][2] = c2 /\ c[3][3] = c3
  BY NineEntries
<1>6. w[1] = a1 * x + a2 * y + a3 * z /\ w[2] = b1 * x + b2 * y + b3 * z /\ w[3] = c1 * x + c2 * y + c3 * z
  BY <1>3, <1>5, TurnedIs
<1>7. \A k \in Axes :
        /\ p[k][1] = h[k][1] * a1 + h[k][2] * b1 + h[k][3] * c1
        /\ p[k][2] = h[k][1] * a2 + h[k][2] * b2 + h[k][3] * c2
        /\ p[k][3] = h[k][1] * a3 + h[k][2] * b3 + h[k][3] * c3
  BY <1>1, <1>5, MultiplyIs
<1> HIDE DEF w, p, t
<1>8. ASSUME NEW k \in Axes
      PROVE  p[k][1] * x + p[k][2] * y + p[k][3] * z = Row(k)
  <2>1. PICK e, f, n \in Int : h[k][1] = e /\ h[k][2] = f /\ h[k][3] = n
    BY <1>4
  <2>2. /\ p[k][1] = e * a1 + f * b1 + n * c1
        /\ p[k][2] = e * a2 + f * b2 + n * c2
        /\ p[k][3] = e * a3 + f * b3 + n * c3
    BY <1>7, <2>1
  <2>3. Row(k) = e * w[1] + f * w[2] + n * w[3]
    BY <2>1
  <2> QED
    BY ONLY <1>6, <2>2, <2>3
<1>9. /\ g[1][1] = a1 * p[1][1] + b1 * p[2][1] + c1 * p[3][1]
      /\ g[1][2] = a1 * p[1][2] + b1 * p[2][2] + c1 * p[3][2]
      /\ g[1][3] = a1 * p[1][3] + b1 * p[2][3] + c1 * p[3][3]
      /\ g[2][1] = a2 * p[1][1] + b2 * p[2][1] + c2 * p[3][1]
      /\ g[2][2] = a2 * p[1][2] + b2 * p[2][2] + c2 * p[3][2]
      /\ g[2][3] = a2 * p[1][3] + b2 * p[2][3] + c2 * p[3][3]
      /\ g[3][1] = a3 * p[1][1] + b3 * p[2][1] + c3 * p[3][1]
      /\ g[3][2] = a3 * p[1][2] + b3 * p[2][2] + c3 * p[3][2]
      /\ g[3][3] = a3 * p[1][3] + b3 * p[2][3] + c3 * p[3][3]
  BY <1>1, <1>2, <1>5, MultiplyIs DEF t, p
<1>10. PICK p1, p2, p3, q1, q2, q3, s1, s2, s3 \in Int :
         /\ p[1][1] = p1 /\ p[1][2] = p2 /\ p[1][3] = p3
         /\ p[2][1] = q1 /\ p[2][2] = q2 /\ p[2][3] = q3
         /\ p[3][1] = s1 /\ p[3][2] = s2 /\ p[3][3] = s3
  BY <1>2, NineEntries
<1>11. /\ Row(1) = p1 * x + p2 * y + p3 * z
       /\ Row(2) = q1 * x + q2 * y + q3 * z
       /\ Row(3) = s1 * x + s2 * y + s3 * z
  BY <1>1, <1>8, <1>10
<1>12. Inner(h, w, w) = w[1] * Row(1) + w[2] * Row(2) + w[3] * Row(3)
  BY DEF Inner
<1>13. Inner(g, v, v) = x * (g[1][1] * x + g[1][2] * y + g[1][3] * z)
                        + y * (g[2][1] * x + g[2][2] * y + g[2][3] * z)
                        + z * (g[3][1] * x + g[3][2] * y + g[3][3] * z)
  BY <1>3 DEF Inner
<1> HIDE DEF Row
<1>14. Inner(h, w, w) = (a1 * x + a2 * y + a3 * z) * (p1 * x + p2 * y + p3 * z)
                        + (b1 * x + b2 * y + b3 * z) * (q1 * x + q2 * y + q3 * z)
                        + (c1 * x + c2 * y + c3 * z) * (s1 * x + s2 * y + s3 * z)
  BY <1>6, <1>11, <1>12
<1>15. Inner(g, v, v) =
         x * ((a1 * p1 + b1 * q1 + c1 * s1) * x + (a1 * p2 + b1 * q2 + c1 * s2) * y + (a1 * p3 + b1 * q3 + c1 * s3) * z)
         + y * ((a2 * p1 + b2 * q1 + c2 * s1) * x + (a2 * p2 + b2 * q2 + c2 * s2) * y + (a2 * p3 + b2 * q3 + c2 * s3) * z)
         + z * ((a3 * p1 + b3 * q1 + c3 * s1) * x + (a3 * p2 + b3 * q2 + c3 * s2) * y + (a3 * p3 + b3 * q3 + c3 * s3) * z)
  <2>1. /\ g[1][1] = a1 * p1 + b1 * q1 + c1 * s1
        /\ g[1][2] = a1 * p2 + b1 * q2 + c1 * s2
        /\ g[1][3] = a1 * p3 + b1 * q3 + c1 * s3
        /\ g[2][1] = a2 * p1 + b2 * q1 + c2 * s1
        /\ g[2][2] = a2 * p2 + b2 * q2 + c2 * s2
        /\ g[2][3] = a2 * p3 + b2 * q3 + c2 * s3
        /\ g[3][1] = a3 * p1 + b3 * q1 + c3 * s1
        /\ g[3][2] = a3 * p2 + b3 * q2 + c3 * s2
        /\ g[3][3] = a3 * p3 + b3 * q3 + c3 * s3
    BY ONLY <1>9, <1>10
  <2> QED
    BY ONLY <1>13, <2>1
<1>16. (a1 * x + a2 * y + a3 * z) * (p1 * x + p2 * y + p3 * z)
       + (b1 * x + b2 * y + b3 * z) * (q1 * x + q2 * y + q3 * z)
       + (c1 * x + c2 * y + c3 * z) * (s1 * x + s2 * y + s3 * z)
       = x * ((a1 * p1 + b1 * q1 + c1 * s1) * x + (a1 * p2 + b1 * q2 + c1 * s2) * y + (a1 * p3 + b1 * q3 + c1 * s3) * z)
         + y * ((a2 * p1 + b2 * q1 + c2 * s1) * x + (a2 * p2 + b2 * q2 + c2 * s2) * y + (a2 * p3 + b2 * q3 + c2 * s3) * z)
         + z * ((a3 * p1 + b3 * q1 + c3 * s1) * x + (a3 * p2 + b3 * q2 + c3 * s2) * y + (a3 * p3 + b3 * q3 + c3 * s3) * z)
  OBVIOUS
<1> QED
  BY <1>14, <1>15, <1>16, Zenon DEF w

\* The cofactors of a rotation turn a reciprocal vector into one of its length.
LEMMA CofactorsKeepLength ==
  ASSUME NEW gram, Definite(gram), NEW r \in PointGroup(gram), NEW v, IsVector(v)
  PROVE  Inner(Cofactors(gram), Turned(Cofactors(r), v), Turned(Cofactors(r), v)) = Inner(Cofactors(gram), v, v)
<1> DEFINE t == Transposed(r)
           p == Multiply(gram, r)
           h == Cofactors(gram)
           c == Cofactors(r)
           s == Transposed(c)
           hc == Multiply(h, c)
<1>1. IsMatrix(r) /\ IsMatrix(gram) /\ \A i, j \in Axes : Multiply(t, p)[i][j] = gram[i][j]
  BY RotationKeepsGram DEF Definite
<1>2. /\ IsMatrix(t) /\ IsMatrix(p) /\ IsMatrix(c) /\ IsMatrix(h)
      /\ \A i, j \in Axes : Cofactors(t)[i][j] = c[j][i]
  <2>1. IsMatrix(t) /\ \A i, j \in Axes : Cofactors(t)[i][j] = c[j][i]
    BY <1>1, TransposedIs
  <2>2. IsMatrix(p)
    BY <1>1, MultiplyIs
  <2>3. IsMatrix(c) /\ IsMatrix(h)
    BY <1>1, CofactorsMatrix
  <2> QED
    BY <2>1, <2>2, <2>3
<1>3. IsMatrix(s) /\ IsMatrix(hc) /\ \A i, j \in Axes : s[i][j] = c[j][i]
  <2>1. IsMatrix(s) /\ \A i, j \in Axes : s[i][j] = c[j][i]
    BY <1>2, TransposedIs
  <2>2. IsMatrix(hc)
    BY <1>2, MultiplyIs
  <2> QED
    BY <2>1, <2>2
<1>4. \A i, j \in Axes : Cofactors(p)[i][j] = hc[i][j]
  BY <1>1, CofactorsOfProduct
<1> HIDE DEF t, p, c, s, hc
<1>5. \A i, j \in Axes : Cofactors(Multiply(t, p))[i][j] = h[i][j]
  BY <1>1, SameCofactors
<1> HIDE DEF h
<1>6. ASSUME NEW i \in Axes, NEW j \in Axes PROVE h[i][j] = Multiply(s, hc)[i][j]
  <2>1. h[i][j] = Multiply(Cofactors(t), Cofactors(p))[i][j]
    BY <1>2, <1>5, CofactorsOfProduct
  <2>2. IsMatrix(Cofactors(t)) /\ IsMatrix(Cofactors(p))
    BY <1>2, CofactorsMatrix
  <2>3. h[i][j] = Cofactors(t)[i][1] * Cofactors(p)[1][j] + Cofactors(t)[i][2] * Cofactors(p)[2][j]
                  + Cofactors(t)[i][3] * Cofactors(p)[3][j]
    BY <2>1, <2>2, MultiplyIs
  <2>4. Multiply(s, hc)[i][j] = s[i][1] * hc[1][j] + s[i][2] * hc[2][j] + s[i][3] * hc[3][j]
    BY <1>3, MultiplyIs
  <2>5. 1 \in Axes /\ 2 \in Axes /\ 3 \in Axes
    BY DEF Axes
  <2> QED
    BY <1>2, <1>3, <1>4, <2>3, <2>4, <2>5
<1> QED
  BY <1>2, <1>6, FormTurned DEF h, c, s, hc

\* A form of independent vectors is at least what one component makes of it.
LEMMA FormBounds ==
  ASSUME NEW a \in Int, NEW b \in Int, NEW c \in Int, NEW d \in Int, NEW e \in Int, NEW f \in Int,
         NEW x \in Int, NEW y \in Int, NEW z \in Int, NEW det \in Int, NEW form \in Int,
         det = a * (b * c - f * f) + d * (f * e - d * c) + e * (d * f - b * e),
         form = x * ((b * c - f * f) * x + (f * e - d * c) * y + (d * f - b * e) * z)
                + y * ((f * e - d * c) * x + (c * a - e * e) * y + (e * d - f * a) * z)
                + z * ((d * f - b * e) * x + (e * d - f * a) * y + (a * b - d * d) * z),
         a > 0, a * b - d * d > 0, det > 0
  PROVE  det * (x * x) <= a * form
<1> DEFINE k == a * b - d * d
           l == (d * f - b * e) * x + (e * d - f * a) * y + k * z
           m == a * y - d * x
<1>1. k \in Int /\ l \in Int /\ m \in Int /\ k > 0
  OBVIOUS
<1>2. a * (k * form) = a * (l * l) + det * (m * m) + det * (k * (x * x))
  OBVIOUS
<1> HIDE DEF k, l, m
<1>3. l * l >= 0 /\ m * m >= 0
  BY <1>1
<1>4. a * (l * l) >= 0 /\ det * (m * m) >= 0
  <2>1. \A p, q \in Int : p > 0 /\ q >= 0 => p * q >= 0
    OBVIOUS
  <2> QED
    BY <1>1, <1>3, <2>1
<1>5. k * (a * form - det * (x * x)) = a * (l * l) + det * (m * m)
  BY <1>1, <1>2
<1>6. k * (a * form - det * (x * x)) >= 0
  <2>1. \A p, q \in Int : p >= 0 /\ q >= 0 => p + q >= 0
    OBVIOUS
  <2>2. a * (l * l) \in Int /\ det * (m * m) \in Int
    BY <1>1
  <2> QED
    BY ONLY <1>4, <1>5, <2>1, <2>2
<1>7. a * form - det * (x * x) >= 0
  <2>1. \A q \in Int : k * q >= 0 => q >= 0
    BY <1>1
  <2>2. a * form - det * (x * x) \in Int
    OBVIOUS
  <2> DEFINE q == a * form - det * (x * x)
  <2> HIDE DEF q
  <2> QED
    BY <1>6, <2>1, <2>2 DEF q
<1> QED
  BY <1>7

\* No index of a vector is larger than the length of its axis and that of the
\* vector let it be.
LEMMA IndexBound ==
  ASSUME NEW gram, Definite(gram), NEW v, IsVector(v), NEW i \in Axes
  PROVE  /\ Inner(Cofactors(gram), v, v) \in Int
         /\ Determinant(gram) * (v[i] * v[i]) <= gram[i][i] * Inner(Cofactors(gram), v, v)
<1> DEFINE h == Cofactors(gram)
           form == Inner(h, v, v)
           det == Determinant(gram)
<1>1. 1 \in Axes /\ 2 \in Axes /\ 3 \in Axes /\ i \in {1, 2, 3}
  BY DEF Axes
<1>2. PICK x, y, z \in Int : v[1] = x /\ v[2] = y /\ v[3] = z
  BY <1>1 DEF IsVector
<1>3. PICK a, b, c, d, e, f \in Int :
        /\ gram[1][1] = a /\ gram[1][2] = d /\ gram[1][3] = e
        /\ gram[2][1] = d /\ gram[2][2] = b /\ gram[2][3] = f
        /\ gram[3][1] = e /\ gram[3][2] = f /\ gram[3][3] = c
  BY <1>1 DEF Definite, IsMatrix
<1>4. /\ h[1][1] = b * c - f * f /\ h[1][2] = f * e - d * c /\ h[1][3] = d * f - b * e
      /\ h[2][1] = f * e - c * d /\ h[2][2] = c * a - e * e /\ h[2][3] = e * d - f * a
      /\ h[3][1] = d * f - e * b /\ h[3][2] = e * d - a * f /\ h[3][3] = a * b - d * d
  BY <1>3, CofactorsAre
<1>5. det = a * (b * c - f * f) + d * (f * e - d * c) + e * (d * f - b * e)
  BY <1>3, DeterminantIs
<1>6. a > 0 /\ b > 0 /\ c > 0 /\ h[1][1] > 0 /\ h[2][2] > 0 /\ h[3][3] > 0 /\ det > 0
  BY <1>1, <1>3 DEF Definite
<1>7. form = x * (h[1][1] * x + h[1][2] * y + h[1][3] * z)
             + y * (h[2][1] * x + h[2][2] * y + h[2][3] * z)
             + z * (h[3][1] * x + h[3][2] * y + h[3][3] * z)
  BY <1>2 DEF Inner
<1> HIDE DEF h, form, det
<1>8. form = x * ((b * c - f * f) * x + (f * e - d * c) * y + (d * f - b * e) * z)
             + y * ((f * e - d * c) * x + (c * a - e * e) * y + (e * d - f * a) * z)
             + z * ((d * f - b * e) * x + (e * d - f * a) * y + (a * b - d * d) * z)
  BY ONLY <1>4, <1>7
<1>9. det \in Int /\ form \in Int
  BY <1>5, <1>8
<1>10. b * c - f * f > 0 /\ c * a - e * e > 0 /\ a * b - d * d > 0
  BY <1>4, <1>6
<1>11. det * (x * x) <= a * form
  BY <1>5, <1>6, <1>8, <1>9, <1>10, FormBounds
<1>12. det * (y * y) <= b * form
  <2>1. det = b * (c * a - e * e) + f * (e * d - f * a) + d * (f * e - c * d)
    BY <1>5
  <2>2. form = y * ((c * a - e * e) * y + (e * d - f * a) * z + (f * e - c * d) * x)
               + z * ((e * d - f * a) * y + (a * b - d * d) * z + (d * f - e * b) * x)
               + x * ((f * e - c * d) * y + (d * f - e * b) * z + (b * c - f * f) * x)
    BY <1>8
  <2> QED
    BY <1>6, <1>9, <1>10, <2>1, <2>2, FormBounds
<1>13. det * (z * z) <= c * form
  <2>1. det = c * (a * b - d * d) + e * (d * f - e * b) + f * (e * d - a * f)
    BY <1>5
  <2>2. form = z * ((a * b - d * d) * z + (d * f - e * b) * x + (e * d - a * f) * y)
               + x * ((d * f - e * b) * z + (b * c - f * f) * x + (f * e - d * c) * y)
               + y * ((e * d - a * f) * z + (f * e - d * c) * x + (c * a - e * e) * y)
    BY <1>8
  <2>3. c * a - e * e > 0
    BY <1>10
  <2> QED
    BY <1>6, <1>9, <2>1, <2>2, <2>3, FormBounds
<1>14. det * (v[i] * v[i]) <= gram[i][i] * form
  BY <1>1, <1>2, <1>3, <1>11, <1>12, <1>13
<1> QED
  BY <1>9, <1>14 DEF h, form, det

LEMMA FormOfOpposite ==
  ASSUME NEW h, IsMatrix(h), NEW v, IsVector(v), NEW s \in {1, -1}, NEW w, \A k \in Axes : w[k] = s * v[k]
  PROVE  IsVector(w) /\ Inner(h, w, w) = Inner(h, v, v)
<1>1. 1 \in Axes /\ 2 \in Axes /\ 3 \in Axes
  BY DEF Axes
<1>2. IsVector(w)
  BY DEF IsVector
<1>3. PICK x, y, z \in Int : v[1] = x /\ v[2] = y /\ v[3] = z
  BY <1>1 DEF IsVector
<1>4. PICK n \in Int : n = s /\ (n = 1 \/ n = -1)
  OBVIOUS
<1>5. PICK a1, a2, a3, b1, b2, b3, c1, c2, c3 \in Int :
        /\ h[1][1] = a1 /\ h[1][2] = a2 /\ h[1][3] = a3
        /\ h[2][1] = b1 /\ h[2][2] = b2 /\ h[2][3] = b3
        /\ h[3][1] = c1 /\ h[3][2] = c2 /\ h[3][3] = c3
  BY NineEntries
<1>6. w[1] = n * x /\ w[2] = n * y /\ w[3] = n * z
  BY <1>1, <1>3, <1>4
<1>7. Inner(h, w, w) = (n * x) * (a1 * (n * x) + a2 * (n * y) + a3 * (n * z))
                       + (n * y) * (b1 * (n * x) + b2 * (n * y) + b3 * (n * z))
                       + (n * z) * (c1 * (n * x) + c2 * (n * y) + c3 * (n * z))
  BY <1>5, <1>6 DEF Inner
<1>8. Inner(h, v, v) = x * (a1 * x + a2 * y + a3 * z) + y * (b1 * x + b2 * y + b3 * z)
                       + z * (c1 * x + c2 * y + c3 * z)
  BY <1>3, <1>5 DEF Inner
<1>9. Inner(h, w, w) = (n * n) * Inner(h, v, v)
  BY ONLY <1>7, <1>8
<1>10. n * n = 1 /\ Inner(h, v, v) \in Int
  BY <1>4, <1>8
<1> QED
  BY <1>2, <1>9, <1>10

LEMMA RootIs ==
  ASSUME NEW x \in Nat
  PROVE  IntegerRoot(x) \in Nat /\ \A n \in Nat : n * n <= x => n <= IntegerRoot(x)
<1> DEFINE T == {n \in Nat : x < (n + 1) * (n + 1)}
           Root(n) == n * n <= x /\ x < (n + 1) * (n + 1)
<1>1. x \in T
  <2>1. (x + 1) * (x + 1) = x * x + 2 * x + 1 /\ x * x \in Nat
    OBVIOUS
  <2> QED
    BY <2>1
<1>2. PICK r \in T : \A n \in T : r <= n
  <2>1. T \in SUBSET Nat /\ T # {}
    BY <1>1
  <2> HIDE DEF T
  <2> QED
    BY <2>1, LeastOf
<1>3. r \in Nat /\ x < (r + 1) * (r + 1) /\ r <= x
  BY <1>1, <1>2
<1>4. r * r <= x
  <2>1. CASE r = 0
    BY <2>1
  <2>2. CASE r # 0
    <3>1. r - 1 \in Nat /\ ~(r <= r - 1)
      BY <1>3, <2>2
    <3>2. r - 1 \notin T
      BY <1>2, <3>1
    <3>3. ~(x < (r - 1 + 1) * (r - 1 + 1))
      BY <3>1, <3>2
    <3>4. r - 1 + 1 = r /\ r * r \in Nat
      BY <1>3
    <3> QED
      BY <3>3, <3>4
  <2> QED
    BY <2>1, <2>2
<1>5. PICK root \in 0 .. x : root = IntegerRoot(x) /\ Root(root)
  <2>1. r \in 0 .. x /\ Root(r)
    BY <1>3, <1>4
  <2>2. IntegerRoot(x) = CHOOSE n \in 0 .. x : Root(n)
    BY DEF IntegerRoot
  <2> HIDE DEF Root
  <2> QED
    BY <2>1, <2>2
<1>6. ASSUME NEW n \in Nat, n * n <= x PROVE n <= root
  <2> SUFFICES ASSUME n >= root + 1 PROVE FALSE
    OBVIOUS
  <2>1. n * n >= (root + 1) * (root + 1)
    <3>1. n * n >= n * (root + 1) /\ n * (root + 1) >= (root + 1) * (root + 1)
      OBVIOUS
    <3> QED
      BY <3>1
  <2>2. n * n \in Nat /\ (root + 1) * (root + 1) \in Nat
    OBVIOUS
  <2> QED
    BY <1>5, <1>6, <2>1, <2>2
<1> QED
  BY <1>5, <1>6

-----------------------------------------------------------------------------
(* The reach of a cell.                                                    *)

Within(c, v) == IsVector(v) /\ Inner(Cofactors(c.gram), v, v) < Cutoff

\* The bound of an axis in MillerReach.
Most(c, i) == IntegerRoot((Cutoff * c.gram[i][i]) \div Determinant(c.gram)) + 1

\* The box of indices holds every vector below the cutoff.
LEMMA BoxHoldsAll ==
  ASSUME NEW c \in Cells, NEW v, Within(c, v), NEW i \in Axes
  PROVE  Most(c, i) \in Nat /\ v[i] \in -Most(c, i) .. Most(c, i)
<1> DEFINE g == c.gram[i][i]
           det == Determinant(c.gram)
           form == Inner(Cofactors(c.gram), v, v)
           X == (Cutoff * g) \div det
           s == v[i] * v[i]
<1>1. Definite(c.gram)
  BY LatticeAssumption DEF Definite, IsMatrix
<1>2. /\ g \in Int /\ g > 0 /\ det > 0 /\ v[i] \in Int
      /\ form \in Int /\ form < Cutoff /\ det * s <= g * form
  BY <1>1, IndexBound DEF Within, IsVector, Definite, IsMatrix
<1>3. det \in Int
  BY <1>1, DeterminantIs, EntriesAre DEF Definite
<1>4. Cutoff \in Nat
  BY CutoffAssumption
<1>5. s \in Nat
  BY <1>2
<1> HIDE DEF g, det, form, s
<1>6. det * s <= Cutoff * g
  <2>1. g * form <= g * Cutoff
    BY <1>2, <1>4
  <2> QED
    BY <1>2, <1>3, <1>4, <1>5, <2>1
<1>7. X \in Nat /\ s <= X
  <2>1. Cutoff * g \in Nat
    BY <1>2, <1>4
  <2>2. \A n, d, q \in Int : d > 0 /\ n >= 0 /\ q >= 0 /\ d * q <= n => n \div d \in Nat /\ q <= n \div d
    OBVIOUS
  <2> QED
    BY <1>2, <1>3, <1>5, <1>6, <2>1, <2>2
<1> DEFINE root == IntegerRoot(X)
<1>8. root \in Nat /\ \A n \in Nat : n * n <= X => n <= root
  BY <1>7, RootIs
<1> HIDE DEF root, X
<1>9. v[i] \in -root .. root
  <2>1. CASE v[i] >= 0
    <3>1. v[i] \in Nat /\ v[i] * v[i] <= X
      BY <1>2, <1>7, <2>1 DEF s
    <3> QED
      BY <1>8, <3>1
  <2>2. CASE v[i] < 0
    <3>1. -v[i] \in Nat /\ (-v[i]) * (-v[i]) <= X
      BY <1>2, <1>7, <2>2 DEF s
    <3>2. -v[i] <= root
      BY <1>8, <3>1
    <3> QED
      BY <1>2, <1>8, <2>2, <3>2
  <2> QED
    BY <1>2, <2>1, <2>2
<1>10. Most(c, i) = root + 1
  BY DEF Most, root, X, g, det
<1> QED
  BY <1>8, <1>9, <1>10

\* The reach along an axis is the largest index of a vector below the cutoff.
LEMMA ReachIs ==
  ASSUME NEW c \in Cells, NEW i \in Axes, NEW reach, reach = MillerReach(c, Cutoff)[i]
  PROVE  /\ reach \in Nat
         /\ \E v : Within(c, v) /\ v[i] = reach
         /\ \A v : Within(c, v) => v[i] <= reach
<1> DEFINE box == (-Most(c, 1) .. Most(c, 1)) \X (-Most(c, 2) .. Most(c, 2)) \X (-Most(c, 3) .. Most(c, 3))
           inside == {m \in box : Inner(Cofactors(c.gram), m, m) < Cutoff}
           S == {n \in 0 .. Most(c, i) : \E m \in inside : m[i] = n}
<1>1. reach = Max(S)
  BY DEF MillerReach, Most
<1>2. 1 \in Axes /\ 2 \in Axes /\ 3 \in Axes /\ \A k \in Axes : k \in {1, 2, 3}
  BY DEF Axes
<1>3. ASSUME NEW v, Within(c, v), v[i] >= 0
      PROVE  v[i] \in S
  <2> DEFINE m == <<v[1], v[2], v[3]>>
  <2>1. \A k \in Axes : v[k] \in -Most(c, k) .. Most(c, k) /\ Most(c, k) \in Nat /\ v[k] \in Int
    BY <1>3, BoxHoldsAll DEF Within, IsVector
  <2>2. m \in box
    BY <1>2, <2>1
  <2>3. m[1] = v[1] /\ m[2] = v[2] /\ m[3] = v[3]
    OBVIOUS
  <2>4. Inner(Cofactors(c.gram), m, m) = Inner(Cofactors(c.gram), v, v)
    BY <2>3 DEF Inner
  <2>5. m \in inside
    BY <1>3, <2>2, <2>4 DEF Within
  <2>6. m[i] = v[i]
    BY <1>2, <2>3
  <2>7. v[i] \in 0 .. Most(c, i)
    BY <1>3, <2>1
  <2> HIDE DEF m, inside
  <2> QED
    BY <2>5, <2>6, <2>7
<1>4. Within(c, <<0, 0, 0>>)
  <2>1. IsVector(<<0, 0, 0>>)
    BY <1>2 DEF IsVector
  <2>2. IsMatrix(Cofactors(c.gram))
    BY LatticeAssumption, CofactorsMatrix DEF IsMatrix
  <2>3. Inner(Cofactors(c.gram), <<0, 0, 0>>, <<0, 0, 0>>) = 0
    BY <2>2, EntriesAre DEF Inner
  <2> QED
    BY <2>1, <2>3, CutoffAssumption DEF Within
<1>5. Most(c, i) \in Nat
  BY <1>4, BoxHoldsAll
<1>6. S \in SUBSET Nat /\ S # {} /\ \A n \in S : n <= Most(c, i)
  <2>1. <<0, 0, 0>>[i] = 0
    BY <1>2
  <2>2. 0 \in S
    BY <1>3, <1>4, <2>1
  <2> HIDE DEF inside
  <2>3. \A n \in S : n \in 0 .. Most(c, i)
    OBVIOUS
  <2> QED
    BY <1>5, <2>2, <2>3
<1>7. Max(S) \in S /\ \A n \in S : Max(S) >= n
  <2> HIDE DEF S
  <2> QED
    BY <1>5, <1>6, MaxIs
<1>8. reach \in Nat
  BY <1>1, <1>6, <1>7
<1>9. \E v : Within(c, v) /\ v[i] = reach
  <2>1. PICK m \in inside : m[i] = reach
    <3> HIDE DEF inside
    <3> QED
      BY <1>1, <1>7
  <2>2. \A k \in Axes : Most(c, k) \in Nat
    BY <1>4, BoxHoldsAll
  <2>3. m \in box
    OBVIOUS
  <2>4. m[1] \in Int /\ m[2] \in Int /\ m[3] \in Int
    BY <1>2, <2>2, <2>3
  <2>5. IsVector(m)
    BY <1>2, <2>4 DEF IsVector
  <2> QED
    BY <2>1, <2>5 DEF Within
<1>10. ASSUME NEW v, Within(c, v) PROVE v[i] <= reach
  <2>1. v[i] \in Int
    BY <1>10 DEF Within, IsVector
  <2>2. CASE v[i] >= 0
    <3>1. v[i] \in S
      BY <1>3, <1>10, <2>2
    <3> HIDE DEF S
    <3> QED
      BY <1>1, <1>6, <1>7, <3>1
  <2> QED
    BY <1>8, <2>1, <2>2
<1> QED
  BY <1>8, <1>9, <1>10

\* Axes a rotation exchanges are reached alike: along the other one, the turned
\* vector or its opposite has the same index.
LEMMA ExchangedReachAlike ==
  ASSUME NEW c \in Cells, NEW r \in PwRotations(c), NEW i \in Axes, NEW j \in Axes,
         r[j][i] # 0, \A l \in Axes \ {j} : r[l][i] = 0
  PROVE  MillerReach(c, Cutoff)[i] = MillerReach(c, Cutoff)[j]
<1> DEFINE h == Cofactors(c.gram)
           C == Cofactors(r)
           t == Transposed(r)
           e == Determinant(r)
           n == r[j][i]
           ri == MillerReach(c, Cutoff)[i]
           rj == MillerReach(c, Cutoff)[j]
<1>1. Definite(c.gram) /\ r \in PointGroup(c.gram)
  BY LatticeAssumption, RotationsAssumption DEF Definite, IsMatrix, CrystalRotations
<1>2. IsMatrix(r) /\ IsMatrix(t) /\ IsMatrix(C) /\ IsMatrix(h) /\ \A k, l \in Axes : t[k][l] = r[l][k]
  <2>1. IsMatrix(r) /\ IsMatrix(c.gram)
    BY <1>1, RotationKeepsGram DEF Definite
  <2>2. IsMatrix(t) /\ \A k, l \in Axes : t[k][l] = r[l][k]
    BY <2>1, TransposedIs
  <2> QED
    BY <2>1, <2>2, CofactorsMatrix
<1>3. e \in {1, -1}
  BY <1>1, RotationDeterminant
<1>4. n \in {1, -1}
  BY <1>1, PointGroupEntries
<1> HIDE DEF e, C, t
<1>5. ASSUME NEW v, IsVector(v) PROVE Turned(t, v)[i] = n * v[j]
  <2>1. Turned(t, v)[i] = t[i][1] * v[1] + t[i][2] * v[2] + t[i][3] * v[3]
    BY DEF Turned
  <2>2. /\ t[i][1] = r[1][i] /\ t[i][2] = r[2][i] /\ t[i][3] = r[3][i]
        /\ v[1] \in Int /\ v[2] \in Int /\ v[3] \in Int
        /\ r[1][i] \in Int /\ r[2][i] \in Int /\ r[3][i] \in Int
    BY <1>2, <1>5 DEF Axes, IsVector, IsMatrix
  <2>3. /\ j # 1 => r[1][i] = 0
        /\ j # 2 => r[2][i] = 0
        /\ j # 3 => r[3][i] = 0
    BY DEF Axes
  <2>4. PICK x, y, z, p, q, s \in Int :
          /\ v[1] = x /\ v[2] = y /\ v[3] = z
          /\ r[1][i] = p /\ r[2][i] = q /\ r[3][i] = s
    BY <2>2
  <2>5. Turned(t, v)[i] = p * x + q * y + s * z
    BY <2>1, <2>2, <2>4
  <2>6. CASE j = 1
    <3>1. q = 0 /\ s = 0 /\ n = p /\ v[j] = x
      BY <2>3, <2>4, <2>6
    <3> QED
      BY ONLY <2>5, <3>1
  <2>7. CASE j = 2
    <3>1. p = 0 /\ s = 0 /\ n = q /\ v[j] = y
      BY <2>3, <2>4, <2>7
    <3> QED
      BY ONLY <2>5, <3>1
  <2>8. CASE j = 3
    <3>1. p = 0 /\ q = 0 /\ n = s /\ v[j] = z
      BY <2>3, <2>4, <2>8
    <3> QED
      BY ONLY <2>5, <3>1
  <2> QED
    BY <2>6, <2>7, <2>8 DEF Axes
<1>6. ASSUME NEW v, IsVector(v)
      PROVE  Inner(h, Turned(C, v), Turned(C, v)) = Inner(h, v, v)
  BY <1>1, <1>6, CofactorsKeepLength DEF C
<1> HIDE DEF h, n
<1>7. ASSUME NEW v, Within(c, v), NEW s \in {1, -1}, NEW k \in Axes
      PROVE  s * v[k] <= MillerReach(c, Cutoff)[k]
  <2> DEFINE w == [l \in Axes |-> s * v[l]]
  <2>1. \A l \in Axes : w[l] = s * v[l]
    OBVIOUS
  <2> HIDE DEF w
  <2>2. Within(c, w)
    BY <1>2, <1>7, <2>1, FormOfOpposite DEF Within, h
  <2> QED
    BY <2>1, <2>2, ReachIs
<1>8. ri \in Nat /\ rj \in Nat
  BY ReachIs
<1>9. rj <= ri
  <2>1. PICK v : Within(c, v) /\ v[j] = rj
    BY ReachIs
  <2> DEFINE u == Turned(t, v)
  <2>2. IsVector(v) /\ Inner(h, v, v) < Cutoff
    BY <2>1 DEF Within, h
  <2>3. IsVector(u)
    BY <1>2, <2>2, TurnedIs
  <2>4. u[i] = n * rj
    BY <1>5, <2>1, <2>2
  <2>5. \A k \in Axes : Turned(C, u)[k] = e * v[k]
    BY <1>2, <2>2, CofactorsUndo DEF C, t, e
  <2> HIDE DEF u
  <2>6. Inner(h, Turned(C, u), Turned(C, u)) = Inner(h, v, v)
    BY <1>2, <1>3, <2>2, <2>5, FormOfOpposite
  <2>7. Inner(h, Turned(C, u), Turned(C, u)) = Inner(h, u, u)
    BY <1>6, <2>3
  <2>8. Within(c, u)
    BY <2>2, <2>3, <2>6, <2>7 DEF Within, h
  <2>9. n * u[i] <= ri
    BY <1>4, <1>7, <2>8
  <2> QED
    BY <1>4, <1>8, <2>4, <2>9
<1>10. ri <= rj
  <2>1. PICK v : Within(c, v) /\ v[i] = ri
    BY ReachIs
  <2> DEFINE u == Turned(C, v)
  <2>2. IsVector(v) /\ Inner(h, v, v) < Cutoff
    BY <2>1 DEF Within, h
  <2>3. IsVector(u)
    BY <1>2, <2>2, TurnedIs
  <2>4. Turned(t, u)[i] = e * v[i]
    BY <1>2, <2>2, CofactorsUndo DEF C, t, e
  <2>5. Inner(h, u, u) = Inner(h, v, v)
    BY <1>6, <2>2
  <2> HIDE DEF u
  <2>6. n * u[j] = e * ri
    BY <1>5, <2>1, <2>3, <2>4
  <2>7. Within(c, u)
    BY <2>2, <2>3, <2>5 DEF Within, h
  <2>8. 1 * u[j] <= rj /\ (-1) * u[j] <= rj
    BY <1>7, <2>7
  <2>9. u[j] \in Int
    BY <2>3 DEF IsVector
  <2> QED
    BY <1>3, <1>4, <1>8, <2>6, <2>8, <2>9
<1> QED
  BY <1>8, <1>9, <1>10

LEMMA DenseIs ==
  ASSUME NEW c \in Cells, NEW own, own = DenseFftGrid(c, Cutoff), NEW i \in Axes
  PROVE  /\ own[i] \in Nat /\ own[i] >= 1
         /\ own[i] % FftFactors(c)[i] = 0 /\ FiveSmooth(own[i])
<1>1. own[i] = GoodFftOrder(2 * MillerReach(c, Cutoff)[i] + 1, FftFactors(c)[i])
  BY DEF DenseFftGrid
<1> DEFINE length == 2 * MillerReach(c, Cutoff)[i] + 1
<1>2. length \in Nat /\ length >= 1
  BY ReachIs
<1> HIDE DEF length
<1>3. own[i] \in Nat /\ own[i] >= length /\ own[i] % FftFactors(c)[i] = 0 /\ FiveSmooth(own[i])
  BY <1>1, <1>2, FactorIs, OrderIs DEF length
<1> QED
  BY <1>2, <1>3

\* The grid ph.x is given is kept, and none of its lengths is below pw.x's own.
LEMMA PhGridIs ==
  ASSUME NEW c \in Cells, NEW own, own = DenseFftGrid(c, Cutoff), NEW grid, grid = PhFftGrid(c, Cutoff)
  PROVE  /\ KeepsGrid(PwRotations(c), grid) /\ \A i \in Axes : grid[i] >= own[i]
         /\ DOMAIN grid = Axes
<1> DEFINE factors == FftFactors(c)
           top == GoodFftOrder(Max({own[1], own[2], own[3]}), Lcm(factors[1], Lcm(factors[2], factors[3])))
           Lengths3(i) == {n \in own[i] .. top : n % factors[i] = 0 /\ FiveSmooth(n)}
           fit == {g \in Lengths3(1) \X Lengths3(2) \X Lengths3(3) : KeepsGrid(PwRotations(c), g)}
<1>1. grid = IF KeepsGrid(PwRotations(c), own) THEN own
             ELSE CHOOSE g \in fit : \A h \in fit : Product(g) <= Product(h)
  BY DEF PhFftGrid
<1>2. \A i \in Axes : own[i] \in Nat /\ own[i] >= 1
  BY DenseIs
<1>3. own[1] \in Nat /\ own[2] \in Nat /\ own[3] \in Nat
      /\ own[1] >= 1
  BY <1>2 DEF Axes
<1> DEFINE most == Max({own[1], own[2], own[3]})
<1>4. most \in Nat /\ most >= 1 /\ \A i \in Axes : own[i] <= most
  <2> DEFINE S == {own[1], own[2], own[3]}
  <2> DEFINE sum == own[1] + own[2] + own[3]
  <2>1. S \in SUBSET Nat /\ S # {} /\ sum \in Nat /\ \A x \in S : x <= sum
    BY <1>3
  <2>2. \A i \in Axes : own[i] \in S
    BY DEF Axes
  <2>3. own[1] \in S
    OBVIOUS
  <2>4. most = Max(S)
    OBVIOUS
  <2> HIDE DEF S, most, sum
  <2>5. most \in S /\ \A y \in S : most >= y
    BY <2>1, <2>4, MaxIs
  <2>6. most \in Nat
    BY <2>1, <2>5
  <2>7. most >= 1
    BY <1>3, <2>3, <2>5, <2>6
  <2>8. \A i \in Axes : own[i] <= most
    BY <1>2, <2>2, <2>5, <2>6
  <2> QED
    BY <2>6, <2>7, <2>8
<1> DEFINE inner == Lcm(factors[2], factors[3])
           all == Lcm(factors[1], inner)
<1>5. \A i \in Axes : factors[i] \in Factors
  BY FactorIs
<1>6. factors[1] \in Factors /\ factors[2] \in Factors /\ factors[3] \in Factors
  BY <1>5 DEF Axes
<1> HIDE DEF factors
<1>7. inner \in Factors /\ \A n \in Nat : n % inner = 0 => n % factors[2] = 0 /\ n % factors[3] = 0
  BY <1>6, LcmIs
<1> HIDE DEF inner
<1>8. all \in Factors /\ \A n \in Nat : n % all = 0 => n % factors[1] = 0 /\ n % inner = 0
  BY <1>6, <1>7, LcmIs
<1>9. top = GoodFftOrder(most, all)
  BY DEF inner
<1> HIDE DEF all, most, top
<1>10. top \in Nat /\ top >= most /\ top % all = 0 /\ FiveSmooth(top)
  BY <1>4, <1>8, <1>9, OrderIs
<1>11. top \in Nat /\ top >= 1
  BY <1>4, <1>10
<1>12. \A i \in Axes : top % factors[i] = 0
  BY <1>7, <1>8, <1>10, <1>11 DEF Axes
<1>13. \A i \in Axes : top \in Lengths3(i)
  <2>1. \A i \in Axes : top \in own[i] .. top
    BY <1>2, <1>4, <1>10, <1>11
  <2> QED
    BY <1>10, <1>12, <2>1
<1>14. \A i \in Axes : \A n \in Lengths3(i) : n \in Nat /\ n >= own[i]
  BY <1>2, <1>11
<1>15. <<top, top, top>> \in fit
  <2>1. KeepsGrid(PwRotations(c), <<top, top, top>>)
    BY <1>11, EqualIsKept DEF Positive
  <2>2. top \in Lengths3(1) /\ top \in Lengths3(2) /\ top \in Lengths3(3)
    BY <1>13 DEF Axes
  <2> HIDE DEF Lengths3
  <2> QED
    BY <2>1, <2>2
<1>16. \A g \in fit : Product(g) \in Nat /\ KeepsGrid(PwRotations(c), g) /\ \A i \in Axes : g[i] >= own[i]
  <2> SUFFICES ASSUME NEW g \in fit
               PROVE  Product(g) \in Nat /\ KeepsGrid(PwRotations(c), g) /\ \A i \in Axes : g[i] >= own[i]
    OBVIOUS
  <2>1. g[1] \in Lengths3(1) /\ g[2] \in Lengths3(2) /\ g[3] \in Lengths3(3)
    <3> HIDE DEF Lengths3
    <3> QED
      OBVIOUS
  <2>2. KeepsGrid(PwRotations(c), g)
    OBVIOUS
  <2>3. 1 \in Axes /\ 2 \in Axes /\ 3 \in Axes /\ \A i \in Axes : i = 1 \/ i = 2 \/ i = 3
    BY DEF Axes
  <2> HIDE DEF Lengths3, fit
  <2>4. /\ g[1] \in Nat /\ g[1] >= own[1] /\ g[2] \in Nat /\ g[2] >= own[2]
        /\ g[3] \in Nat /\ g[3] >= own[3]
    BY <1>14, <2>1, <2>3
  <2>5. Product(g) \in Nat
    BY <2>4 DEF Product
  <2> QED
    BY <2>2, <2>3, <2>4, <2>5
<1> HIDE DEF fit
<1>17. \E g \in fit : \A h \in fit : Product(g) <= Product(h)
  <2> DEFINE P == {Product(g) : g \in fit}
  <2>1. P \in SUBSET Nat /\ P # {}
    BY <1>15, <1>16
  <2>2. PICK x \in P : \A y \in P : x <= y
    BY <2>1, LeastOf
  <2> QED
    BY <2>2
<1>18. CASE KeepsGrid(PwRotations(c), own)
  <2>1. DOMAIN own = Axes
    BY DEF DenseFftGrid
  <2> QED
    BY <1>1, <1>2, <1>18, <2>1
<1>19. CASE ~KeepsGrid(PwRotations(c), own)
  <2>1. grid \in fit
    BY <1>1, <1>17, <1>19
  <2>2. DOMAIN grid = Axes
    <3>1. \E x, y, z : grid = <<x, y, z>>
      <4> HIDE DEF Lengths3
      <4> QED
        BY <2>1 DEF fit
    <3> QED
      BY ONLY <3>1 DEF Axes
  <2> QED
    BY <1>16, <2>1, <2>2
<1> QED
  BY <1>18, <1>19

\* "pw.x's own grid stays compatible ... of a cell that is not fragile": axes
\* the rotations mix are exchanged by one of them and have the same factor, and
\* so as many points.
LEMMA SturdyIsKept ==
  ASSUME NEW c \in Cells, FragileAxes(c) = {}
  PROVE  KeepsGrid(PwRotations(c), DenseFftGrid(c, Cutoff))
<1> DEFINE R == PwRotations(c)
           own == DenseFftGrid(c, Cutoff)
           reach == MillerReach(c, Cutoff)
           factors == FftFactors(c)
           Exchanged(i, j) == \E r \in R : r[j][i] # 0 /\ \A l \in Axes \ {j} : r[l][i] = 0
<1>1. \A p \in MixingPairs(R) :
        (Exchanged(p[1], p[2]) \/ Exchanged(p[2], p[1])) /\ factors[p[1]] = factors[p[2]]
  BY DEF FragileAxes
<1>2. \A i, j \in Axes : Exchanged(i, j) => reach[i] = reach[j]
  BY ExchangedReachAlike
<1>3. \A i \in Axes : own[i] = GoodFftOrder(2 * reach[i] + 1, factors[i])
  BY DEF DenseFftGrid
<1>4. \A i \in Axes : own[i] \in Nat /\ own[i] >= 1
  BY DenseIs
<1> HIDE DEF R, own, reach, factors, Exchanged
<1> SUFFICES ASSUME NEW r \in R, NEW i \in Axes, NEW j \in Axes
             PROVE  (r[i][j] * own[i]) % own[j] = 0
  BY DEF KeepsGrid, R, own
<1>5. r[i][j] \in -1 .. 1
  BY RotationsAssumption, PointGroupEntries DEF CrystalRotations, R
<1>6. CASE r[i][j] = 0
  <2>1. r[i][j] * own[i] = 0 /\ 0 % own[j] = 0
    BY <1>4, <1>6
  <2> QED
    BY <2>1
<1>7. CASE r[i][j] # 0
  <2>1. own[i] = own[j]
    <3>1. CASE i = j
      BY <3>1
    <3>2. CASE i # j
      <4>1. <<j, i>> \in MixingPairs(R)
        BY <1>7, <3>2 DEF MixingPairs
      <4>2. (Exchanged(j, i) \/ Exchanged(i, j)) /\ factors[j] = factors[i]
        BY <1>1, <4>1
      <4>3. reach[i] = reach[j]
        BY <1>2, <4>2
      <4> QED
        BY <1>3, <4>2, <4>3
    <3> QED
      BY <3>1, <3>2
  <2>2. r[i][j] = 1 \/ r[i][j] = -1
    BY <1>5, <1>7
  <2>3. r[i][j] * own[i] = own[j] \/ r[i][j] * own[i] = -own[j]
    BY <1>4, <2>1, <2>2
  <2>4. own[j] % own[j] = 0 /\ (-own[j]) % own[j] = 0
    BY <1>4
  <2> QED
    BY <2>3, <2>4
<1> QED
  BY <1>6, <1>7

-----------------------------------------------------------------------------
(* The FFT grid and the q-mesh.                                            *)

\* The grid of the first step of a phonon task.
LEMMA FftIs ==
  ASSUME NEW c \in Cells, NEW fft, fft = FftGrid(c, Cutoff, "scf"),
         NEW grid, grid = IF fft.written = <<>> THEN fft.own ELSE fft.written
  PROVE  KeepsGrid(PwRotations(c), grid) /\ \A i \in Axes : grid[i] >= fft.own[i]
<1> DEFINE own == DenseFftGrid(c, Cutoff)
           wider == PhFftGrid(c, Cutoff)
           kept == KeepsGrid(PwRotations(c), own)
<1>1. fft.own = own /\ fft.written = IF kept THEN <<>> ELSE wider
  BY DEF FftGrid
<1>2. /\ KeepsGrid(PwRotations(c), wider) /\ \A i \in Axes : wider[i] >= own[i]
      /\ DOMAIN wider = Axes
  BY PhGridIs
<1>3. \A i \in Axes : own[i] \in Nat
  BY DenseIs
<1> HIDE DEF wider, own
<1>4. CASE kept
  BY <1>1, <1>3, <1>4
<1>5. CASE ~kept
  <2>1. wider # <<>>
    <3>1. DOMAIN wider = Axes /\ 1 \in Axes
      BY <1>2 DEF Axes
    <3>2. DOMAIN <<>> = {}
      OBVIOUS
    <3> QED
      BY ONLY <3>1, <3>2
  <2> QED
    BY <1>1, <1>2, <1>5, <2>1
<1> QED
  BY <1>4, <1>5

\* A q-mesh that is not refused is one a k-mesh is raised against: it has at
\* most as many points as 48 times the irreducible ones q2r.x reads.
LEMMA SizeIsBounded ==
  ASSUME NEW c \in Cells, NEW request \in Requests,
         NEW q, q = QSampling(Survey(c), request.q), q.ok, q.value.refusal = None,
         NEW mesh, mesh = QMesh(Survey(c), request.q)
  PROVE  ~(Points(mesh) > MaxQMeshPoints)
<1> DEFINE R == KRotations(c)
           refusal == IF request.q.q_grid # None THEN GridRefusal(Survey(c), mesh) ELSE SizeRefusal(mesh)
<1>1. Even(Survey(c), mesh)
  BY QMeshIsEven
<1>2. mesh \in Counts
  BY <1>1 DEF Even
<1>3. Identity \in R /\ IsFiniteSet(R) /\ Cardinality(R) <= 48
  BY RotationsAssumption
<1>4. Survey(c).kRotations = R
  BY DEF Survey
<1> HIDE DEF R
<1>5. refusal = None /\ q = Resolved(Counted(Survey(c), mesh), "heuristic")
  BY DEF QSampling, Blocked, Resolved
<1>6. Counted(Survey(c), mesh).refusal = None
  BY <1>5 DEF Resolved
<1>7. ~(IrreducibleCount(R, mesh) > MaxIrreducibleQ)
  <2>1. Counted(Survey(c), mesh).refusal =
          IF IrreducibleCount(R, mesh) > MaxIrreducibleQ THEN "too_many_q_points" ELSE None
    BY <1>4 DEF Counted
  <2> QED
    BY <1>6, <2>1, NoneIsNoRefusal
<1>8. /\ Points(mesh) \in Nat /\ IrreducibleCount(R, mesh) \in Nat
      /\ Points(mesh) <= IrreducibleCount(R, mesh) * 48
  BY <1>2, <1>3, CountIs
<1> QED
  BY <1>7, <1>8, QLimitsAssumption DEF MaxQMeshPoints

-----------------------------------------------------------------------------
(* The invariant of the meshes.                                            *)

\* What is surveyed is the cell, and what is advised is what the advisors make
\* of the survey and the request.
MeshInv ==
  /\ sampled = "mesh" => cell \in Cells
  /\ survey # None => sampled = "mesh" /\ survey = SurveyOf(cell)
  /\ advice # None => survey # None /\ asked \in Requests /\ advice = AdviceFor(asked)

LEMMA MeshInvariance == Spec => []MeshInv
<1>1. Init => MeshInv
  BY DEF Init, MeshInit, NoMesh, MeshInv
<1>2. MeshInv /\ [Next]_vars => MeshInv'
  <2> SUFFICES ASSUME MeshInv, [Next]_vars PROVE MeshInv'
    OBVIOUS
  <2>1. CASE sampled = "mesh" /\ Analyse /\ UNCHANGED <<sampled, pathVars>>
    <3>1. survey = None /\ survey' = SurveyOf(cell)
      BY <2>1 DEF Analyse
    <3>2. cell' = cell /\ asked' = asked /\ advice' = advice /\ sampled' = sampled /\ sampled = "mesh"
      BY <2>1 DEF Analyse
    <3>3. advice = None
      BY <3>1 DEF MeshInv
    <3>4. SurveyOf(cell)' = SurveyOf(cell)
      BY <3>2
    <3> QED
      BY <3>1, <3>2, <3>3, <3>4 DEF MeshInv
  <2>2. ASSUME NEW request \in Requests, sampled = "mesh", Advise(request), UNCHANGED <<sampled, pathVars>>
        PROVE  MeshInv'
    <3>1. survey # None /\ asked' = request /\ advice' = AdviceFor(request)
      BY <2>2 DEF Advise
    <3>2. cell' = cell /\ survey' = survey /\ sampled' = sampled
      BY <2>2 DEF Advise
    <3>3. AdviceFor(asked)' = AdviceFor(request)
      BY <3>1, <3>2 DEF AdviceFor
    <3>4. SurveyOf(cell)' = SurveyOf(cell)
      BY <3>2
    <3> QED
      BY <3>1, <3>2, <3>3, <3>4 DEF MeshInv
  <2>3. CASE UNCHANGED <<sampled, meshVars>>
    <3>1. cell' = cell /\ survey' = survey /\ asked' = asked /\ advice' = advice /\ sampled' = sampled
      BY <2>3 DEF meshVars
    <3>2. SurveyOf(cell)' = SurveyOf(cell) /\ AdviceFor(asked)' = AdviceFor(asked)
      BY <3>1 DEF AdviceFor
    <3> QED
      BY <3>1, <3>2 DEF MeshInv
  <2>4. CASE UNCHANGED vars
    BY <2>3, <2>4 DEF vars
  <2>5. CASE Next
    BY <2>1, <2>2, <2>3, <2>5 DEF Next, MeshNext, Advised
  <2> QED
    BY <2>4, <2>5
<1> QED
  BY <1>1, <1>2, PTL DEF Spec

\* Unless a vacuum vector leans, pw.x's own rotations map onto itself every
\* k-mesh k_sampling.py chooses or raises, and in every case each q-mesh
\* q_sampling.py does not refuse and the FFT grid pw_fft.py writes; and pw.x's
\* own FFT grid unless the cell is fragile.
THEOREM AdvisedMeshesKeepSymmetry == Spec => []MeshesKeepSymmetry
<1>1. MeshInv => MeshesKeepSymmetry
  <2> SUFFICES ASSUME MeshInv, advice # None PROVE MeshesKeepSymmetry
    BY DEF MeshesKeepSymmetry
  <2> DEFINE g == Survey(cell)
             occupations == Resolved([kind |-> asked.kind], "heuristic")
             grid == IF survey.fft.written = <<>> THEN survey.fft.own ELSE survey.fft.written
             q == QMesh(g, asked.q)
             own == Tiered(asked.metal, g, asked.k, None)
  <2>1. cell \in Cells /\ asked \in Requests /\ survey = SurveyOf(cell) /\ advice = AdviceFor(asked)
    BY DEF MeshInv
  <2>2. survey.geometry = g /\ survey.fft = FftGrid(cell, Cutoff, "scf")
    BY <2>1 DEF SurveyOf
  <2>3. /\ advice.k = KSampling(asked.metal, g, occupations, asked.k, None, asked.q)
        /\ advice.q = QSampling(g, asked.q)
    BY <2>1, <2>2 DEF AdviceFor
  <2>4. g.rotations = PwRotations(cell) /\ g.vacuum = cell.vacuum
    BY DEF Survey
  <2>5. Shape(g)
    BY <2>1, SurveyShape
  <2> HIDE DEF g, occupations, grid
  <2>6. KeepsGrid(g.rotations, grid) /\ \A i \in Axes : grid[i] >= survey.fft.own[i]
    BY <2>1, <2>2, <2>4, FftIs DEF grid
  <2>7. ASSUME Unrefused(advice.q)
        PROVE  Even(g, q) /\ KeepsMesh(g.rotations, advice.q.value.mesh)
    BY <2>1, <2>3, <2>7, QMeshIsEven DEF Unrefused, g
  <2>8. ASSUME advice.k.ok, asked.k.k_grid = None, ~VacuumLeans, Unrefused(advice.q)
        PROVE  KeepsMesh(g.rotations, advice.k.value.mesh)
    <3>1. own.ok /\ (advice.k = own \/ advice.k.value.mesh = Raised(own.value.mesh, q, asked.kind))
      BY <2>1, <2>3, <2>8, KSamplingIs DEF g, occupations
    <3>2. Even(g, own.value.mesh)
      BY <2>1, <2>8, <3>1, TieredIsEven DEF g
    <3>3. asked.kind \in {"fixed", "smearing"}
      BY <2>1, RequestTypes
    <3> HIDE DEF own, q
    <3>4. Even(g, advice.k.value.mesh)
      BY <2>5, <2>7, <2>8, <3>1, <3>2, <3>3, RaisedIsEven
    <3>5. \A p \in MixingPairs(g.rotations) : ~(p[1] \in g.vacuum /\ p[2] \notin g.vacuum)
      BY <2>2, <2>4, <2>8 DEF VacuumLeans
    <3> QED
      BY <2>5, <3>4, <3>5, EvenIsKept
  <2>9. KeepsGrid(g.rotations, survey.fft.own) \/ survey.fft.fragile
    <3>1. /\ survey.fft.own = DenseFftGrid(cell, Cutoff)
          /\ survey.fft.fragile = (FragileAxes(cell) # {})
      BY <2>2 DEF FftGrid
    <3>2. FragileAxes(cell) = {} => KeepsGrid(PwRotations(cell), DenseFftGrid(cell, Cutoff))
      BY <2>1, SturdyIsKept
    <3> QED
      BY <2>4, <3>1, <3>2
  <2> QED
    BY <2>2, <2>6, <2>7, <2>8, <2>9 DEF MeshesKeepSymmetry, grid
<1> QED
  BY <1>1, MeshInvariance, PTL

\* A default k-mesh, raised by _raised against the q-mesh of the phonons, is on
\* no axis coarser than it was or than the q-mesh, and with smearing a multiple
\* of it: a q-mesh the code accepts is never too large to raise against.
THEOREM DefaultMeshesAreRaised == Spec => []RaisedForPhonons
<1>1. MeshInv => RaisedForPhonons
  <2> SUFFICES ASSUME MeshInv, advice # None, advice.k.ok, asked.k = NoRequest, Unrefused(advice.q)
               PROVE  RaisedForPhonons
    BY DEF RaisedForPhonons
  <2> DEFINE g == Survey(cell)
             occupations == Resolved([kind |-> asked.kind], "heuristic")
             q == QMesh(g, asked.q)
             own == Tiered(asked.metal, g, asked.k, None)
  <2>1. cell \in Cells /\ asked \in Requests /\ survey = SurveyOf(cell) /\ advice = AdviceFor(asked)
    BY DEF MeshInv
  <2>2. survey.geometry = g
    BY <2>1 DEF SurveyOf
  <2>3. /\ advice.k = KSampling(asked.metal, g, occupations, asked.k, None, asked.q)
        /\ advice.q = QSampling(g, asked.q)
    BY <2>1, <2>2 DEF AdviceFor
  <2>4. asked.k.k_grid = None /\ asked.kind \in {"fixed", "smearing"}
    BY <2>1, RequestTypes DEF NoRequest
  <2>5. Even(g, q) /\ advice.q.value.mesh = q
    BY <2>1, <2>3, QMeshIsEven DEF Unrefused
  <2>6. own.ok /\ (~(Points(q) > MaxQMeshPoints) =>
                     advice.k.value.mesh = Raised(own.value.mesh, q, asked.kind))
    BY <2>1, <2>3, KSamplingIs
  <2>7. Even(g, own.value.mesh)
    BY <2>1, <2>4, <2>6, TieredIsEven
  <2>8. ~(Points(q) > MaxQMeshPoints)
    BY <2>1, <2>3, <2>5, SizeIsBounded DEF Unrefused
  <2> HIDE DEF own, q, g
  <2>9. /\ advice.k.value.mesh = Raised(own.value.mesh, q, asked.kind)
        /\ own.value.mesh \in Counts /\ q \in Counts
    BY <2>5, <2>6, <2>7, <2>8 DEF Even
  <2>10. \A i \in Axes :
           /\ advice.k.value.mesh[i] >= q[i] /\ advice.k.value.mesh[i] >= own.value.mesh[i]
           /\ asked.kind = "smearing" => advice.k.value.mesh[i] % q[i] = 0
    BY <2>4, <2>9, RaisedIs
  <2> QED
    BY <2>2, <2>5, <2>10 DEF RaisedForPhonons, own
<1> QED
  BY <1>1, MeshInvariance, PTL

\* The rungs of a ladder are different meshes, and the k-distances down to the
\* last rung's are cut into the rungs' intervals.  Above the floor, a distance
\* further from every step than the roundings reach has its rung's mesh
\* (build_gamma_kmesh_entries against k_distance_to_mesh).
THEOREM LadderCoversDistances == Spec => []LadderIsWhole
<1>1. MeshInv => LadderIsWhole
  <2> SUFFICES ASSUME MeshInv, survey # None PROVE LadderIsWhole
    BY DEF LadderIsWhole
  <2> DEFINE g == survey.geometry
             S == ChangePoints(g.lengths, g.vacuum)
             n == Cardinality(LowEnds(g))
             ends == Descending(LowEnds(g))
             ladder == g.ladder
             Meets(i, d) == ladder[i].low <= d /\ (ladder[i].high # None => d < ladder[i].high)
             Kept(d) == \E i \in DOMAIN ladder :
                          /\ Meets(i, d)
                          /\ \A j \in DOMAIN ladder : Meets(j, d) => i = j
                          /\ ((ladder[i].low >= MinKDistance \/ S = {}) /\ \A s \in S : OffStep(d, s)) =>
                               KDistanceToMesh(g, d) = ladder[i].mesh
  <2>1. cell \in Cells /\ g = Survey(cell)
    BY DEF MeshInv, SurveyOf
  <2>2. g.vacuum = cell.vacuum /\ ladder = Ladder(g.lengths, g.vacuum)
    BY <2>1 DEF Survey
  <2>3. Shape(g)
    BY <2>1, SurveyShape
  <2>4. S \in SUBSET Nat /\ S \subseteq Positive /\ IsFiniteSet(S)
    BY <2>3, PointsArePositive
  <2>5. SUFFICES /\ \A i, j \in DOMAIN ladder : ladder[i].mesh = ladder[j].mesh => i = j
                 /\ \A d \in 1 .. ladder[1].low + Angstrom : d >= ladder[Len(ladder)].low => Kept(d)
    BY DEF LadderIsWhole, OffStep
  <2>6. CASE S = {}
    <3>1. /\ ladder = <<[mesh |-> MeshOf(g.lengths, g.vacuum, Angstrom), low |-> 0, high |-> None]>>
          /\ \A d : MeshOf(g.lengths, g.vacuum, d) = MeshOf(g.lengths, g.vacuum, Angstrom)
      BY <2>2, <2>3, <2>6, LadderOfNoSteps
    <3>2. DOMAIN ladder = {1} /\ ladder[1].mesh = MeshOf(g.lengths, g.vacuum, Angstrom)
          /\ ladder[1].low = 0 /\ ladder[1].high = None
      BY <3>1
    <3>3. ASSUME NEW d \in 1 .. ladder[1].low + Angstrom PROVE Kept(d)
      <4>1. d \in Nat
        BY <3>2, HundredthAssumption DEF Angstrom
      <4>2. MeshOf(g.lengths, g.vacuum, d) = ladder[1].mesh
        BY <3>1, <3>2
      <4>3. Meets(1, d)
        BY <3>2, <4>1
      <4> HIDE DEF g, S, ladder
      <4> QED
        BY <3>2, <4>2, <4>3 DEF KDistanceToMesh
    <3> QED
      BY <3>2, <3>3
  <2>7. CASE S # {}
    <3>1. /\ n \in Positive /\ Len(ladder) = n /\ DOMAIN ladder = 1 .. n
          /\ LowEnds(g) \in SUBSET Nat /\ IsFiniteSet(LowEnds(g))
          /\ \A i \in 1 .. n :
               /\ ends[i] \in LowEnds(g) /\ ends[i] \in S /\ ends[i] \in Positive
               /\ ladder[i].low = ends[i] /\ ladder[i].high = IF i = 1 THEN None ELSE ends[i - 1]
               /\ ladder[i].mesh = DownTo(g, ends[i])
          /\ \A x \in LowEnds(g) : \E i \in 1 .. n : ends[i] = x
      <4>1. S = ChangePoints(g.lengths, g.vacuum) /\ n = Cardinality(LowEnds(g)) /\ ends = Descending(LowEnds(g))
        OBVIOUS
      <4> HIDE DEF g, ladder, S, n, ends
      <4> QED
        <5>1. GoesDown(g, S, n, ends, ladder)
          BY <2>2, <2>3, <2>7, <4>1, LadderIs
        <5> QED
          BY <5>1 DEF GoesDown
    <3>2. \A i, j \in 1 .. n : i < j => ends[i] > ends[j]
      BY <3>1, PointsDescend
    <3>0. n \in Nat /\ n >= 1 /\ \A i \in 1 .. n : ends[i] \in Nat /\ ends[i] >= 1
      BY <3>1 DEF Positive
    <3>3. \A r, t \in LowEnds(g) : r < t => DownTo(g, r) # DownTo(g, t)
      BY <2>3, EndsDiffer
    <3>4. S = ChangePoints(g.lengths, g.vacuum)
      OBVIOUS
    <3> HIDE DEF g, S, n, ends, ladder
    <3>5. ASSUME NEW i \in 1 .. n, NEW j \in 1 .. n, i < j PROVE ladder[i].mesh # ladder[j].mesh
      <4>1. ends[j] < ends[i] /\ ends[i] \in LowEnds(g) /\ ends[j] \in LowEnds(g)
        BY <3>1, <3>2, <3>5 DEF Positive
      <4> QED
        BY <3>1, <3>3, <4>1
    <3>6. \A i, j \in DOMAIN ladder : ladder[i].mesh = ladder[j].mesh => i = j
      <4>1. \A i, j \in 1 .. n : i < j \/ j < i \/ i = j
        BY <3>1 DEF Positive
      <4> QED
        BY <3>1, <3>5, <4>1
    <3>7. \A d \in 1 .. ladder[1].low + Angstrom : d \in Nat
      <4>1. ladder[1].low \in Nat
        BY <3>1 DEF Positive
      <4> QED
        BY <4>1, HundredthAssumption DEF Angstrom
    <3>8. ASSUME NEW d \in Nat, d >= ends[n] PROVE Kept(d)
      <4> DEFINE Met == {i \in 1 .. n : ends[i] <= d}
      <4>1. n \in Met /\ Met \in SUBSET Nat
        BY <3>1, <3>8 DEF Positive
      <4>2. PICK i \in Met : \A j \in Met : i <= j
        BY <4>1, LeastOf
      <4>3. i \in 1 .. n /\ ends[i] <= d
        BY <4>2
      <4>4. \A j \in 1 .. n : j < i => d < ends[j]
        <5> SUFFICES ASSUME NEW j \in 1 .. n, j < i PROVE d < ends[j]
          OBVIOUS
        <5>1. ~(i <= j)
          BY <4>3
        <5>2. ~(ends[j] <= d)
          BY <4>2, <5>1
        <5> QED
          BY <3>1, <3>8, <5>2 DEF Positive
      <4>5. Meets(i, d)
        <5>1. i # 1 => i - 1 \in 1 .. n /\ i - 1 < i
          BY <3>1, <4>3 DEF Positive
        <5> QED
          BY <3>1, <4>3, <4>4, <5>1
      <4>6. ASSUME NEW j \in 1 .. n, Meets(j, d) PROVE i = j
        <5>1. ends[j] <= d
          BY <3>1, <4>6
        <5>2. i <= j
          BY <4>2, <5>1
        <5>3. ASSUME i < j PROVE FALSE
          <6>1. j # 1 /\ j - 1 \in 1 .. n /\ (i = j - 1 \/ i < j - 1)
            BY <3>0, <4>3, <5>3
          <6>2. ladder[j].high = ends[j - 1] /\ ends[j - 1] \in Nat
            BY <3>1, <6>1 DEF Positive
          <6>3. d < ends[j - 1]
            BY <4>6, <6>2, NoneIsNoDistance
          <6>4. ends[j - 1] <= ends[i]
            BY <3>1, <3>2, <4>3, <6>1 DEF Positive
          <6> QED
            BY <3>1, <3>8, <4>3, <6>1, <6>3, <6>4 DEF Positive
        <5> QED
          BY <3>1, <4>3, <5>2, <5>3 DEF Positive
      <4>7. ASSUME ladder[i].low >= MinKDistance, \A s \in S : OffStep(d, s)
            PROVE  MeshOf(g.lengths, g.vacuum, d) = ladder[i].mesh
        <5> DEFINE Reached == {s \in S : s <= d}
                   r == ends[i]
        <5>1. r \in LowEnds(g) /\ r \in S /\ r \in Positive /\ MinKDistance <= r /\ r <= d
          BY <3>1, <4>3, <4>7
        <5>2. PICK p \in Reached : \A s \in Reached : p >= s
          <6>1. Reached \in SUBSET Nat /\ Reached # {} /\ \A s \in Reached : s <= d
            BY <2>4, <5>1
          <6> QED
            BY <3>8, <6>1, MaxIs
        <5>3. p \in S /\ p \in Positive /\ p <= d /\ r <= p
          BY <2>4, <5>1, <5>2
        <5>4. \A s \in S : s <= p \/ d < s
          BY <2>4, <3>8, <5>2
        <5>5. p # d
          <6>1. OffStep(d, p)
            BY <4>7, <5>3
          <6>2. p = d => d - p = 0 /\ p - d = 0
            BY <3>8
          <6>3. 2 * Fine * 0 = 0 /\ Fine \in Nat
            BY FineAssumption
          <6> QED
            BY <5>3, <6>1, <6>2, <6>3 DEF OffStep, Positive
        <5>6. d \in Positive /\ p < d
          BY <3>8, <5>3, <5>5 DEF Positive
        <5>7. MinKDistance <= p
          BY <5>1, <5>3, MinKDistanceAssumption DEF Positive
        <5>8. MeshOf(g.lengths, g.vacuum, d) = DownTo(g, p)
          BY <2>3, <3>4, <4>7, <5>3, <5>4, <5>6, <5>7, SteadyInside
        <5>9. \A s \in LowEnds(g) : s <= r \/ s > p
          <6> SUFFICES ASSUME NEW s \in LowEnds(g) PROVE s <= r \/ s > p
            OBVIOUS
          <6>1. PICK k \in 1 .. n : ends[k] = s
            BY <3>1
          <6>2. k < i \/ k = i \/ i < k
            BY <3>1, <4>3 DEF Positive
          <6>3. k < i => s > p
            BY <3>1, <3>8, <4>4, <5>3, <6>1 DEF Positive
          <6>4. i < k => s <= r
            BY <3>0, <3>2, <4>3, <6>1
          <6>5. k = i => s <= r
            BY <3>0, <6>1
          <6> QED
            BY <6>2, <6>3, <6>4, <6>5
        <5>10. DownTo(g, p) = DownTo(g, r)
          BY <2>3, <3>4, <5>1, <5>3, <5>9, OneRung
        <5> QED
          BY <3>1, <4>3, <5>8, <5>10
      <4> QED
        BY <2>7, <3>1, <4>3, <4>5, <4>6, <4>7 DEF KDistanceToMesh
    <3>9. \A d \in 1 .. ladder[1].low + Angstrom : d >= ladder[Len(ladder)].low => Kept(d)
      <4>1. ladder[Len(ladder)].low = ends[n]
        BY <3>1 DEF Positive
      <4> HIDE DEF Kept
      <4> QED
        BY <3>7, <3>8, <4>1
    <3> QED
      BY <3>6, <3>9
  <2> QED
    BY <2>6, <2>7
<1> QED
  BY <1>1, MeshInvariance, PTL
-----------------------------------------------------------------------------
(* LAYERS.                                                                 *)

-----------------------------------------------------------------------------
(* A form A x^2 + 2 B x y + C y^2, and the matrices p q / r s that keep it. *)

LEMMA NoZeroFactor ==
  ASSUME NEW m \in Int, NEW n \in Int, m * n = 0, m # 0
  PROVE  n = 0
OBVIOUS

LEMMA Cancelled ==
  ASSUME NEW m \in Int, m # 0, NEW x \in Int, NEW y \in Int, m * x = m * y
  PROVE  x = y
<1>1. m * (x - y) = 0
  OBVIOUS
<1>2. x - y = 0
  BY <1>1, NoZeroFactor
<1> QED
  BY <1>2

\* A matrix keeps a form that is positive.
Keeps(A, B, C, p, q, r, s) ==
  /\ A > 0 /\ A * C - B * B > 0
  /\ p * (A * p + B * r) + r * (B * p + C * r) = A
  /\ p * (A * q + B * s) + r * (B * q + C * s) = B
  /\ q * (A * q + B * s) + s * (B * q + C * s) = C

\* What is left of that for a turn.
TurnOf(A, B, C, p, q, r, s) ==
  /\ A > 0 /\ A * C - B * B > 0
  /\ p * s - q * r = 1 /\ A * (s - p) = 2 * (B * r) /\ A * q = -(C * r)

\* What is left of that for a reflection.
MirrorOf(p, q, r, s) == p * s - q * r = -1 /\ s = -p

\* What a matrix that keeps a form says of the form.
LEMMA Relations ==
  ASSUME NEW A \in Int, NEW B \in Int, NEW C \in Int,
         NEW p \in Int, NEW q \in Int, NEW r \in Int, NEW s \in Int,
         Keeps(A, B, C, p, q, r, s)
  PROVE  TurnOf(A, B, C, p, q, r, s) \/ MirrorOf(p, q, r, s)
<1>0. /\ A > 0 /\ A * C - B * B > 0
      /\ p * (A * p + B * r) + r * (B * p + C * r) = A
      /\ p * (A * q + B * s) + r * (B * q + C * s) = B
      /\ q * (A * q + B * s) + s * (B * q + C * s) = C
  BY DEF Keeps
<1>e. PICK e \in Int : e = p * s - q * r
  OBVIOUS
<1> DEFINE D == A * C - B * B
<1>1. PICK P, Q, S, T \in Int :
        P = A * p + B * r /\ Q = B * p + C * r /\ S = A * q + B * s /\ T = B * q + C * s
  OBVIOUS
<1>2. A = p * P + r * Q /\ B = p * S + r * T /\ B = q * P + s * Q /\ C = q * S + s * T
  <2>1. q * (A * p + B * r) + s * (B * p + C * r) = p * (A * q + B * s) + r * (B * q + C * s)
    OBVIOUS
  <2> QED
    BY <1>0, <1>1, <2>1
<1>3. e * P = s * A - r * B
  <2>1. s * (p * P + r * Q) - r * (q * P + s * Q) = (p * s - q * r) * P
    OBVIOUS
  <2> QED
    BY <1>2, <1>e, <2>1
<1>4. e * S = s * B - r * C
  <2>1. s * (p * S + r * T) - r * (q * S + s * T) = (p * s - q * r) * S
    OBVIOUS
  <2> QED
    BY <1>2, <1>e, <2>1
<1>5. D * (e * e) = D
  <2>1. P * T - Q * S = D * e
    <3>1. (A * p + B * r) * (B * q + C * s) - (B * p + C * r) * (A * q + B * s)
          = (A * C - B * B) * (p * s - q * r)
      OBVIOUS
    <3> QED
      BY <1>1, <1>e, <3>1
  <2>2. e * (P * T - Q * S) = D
    <3>1. (p * P + r * Q) * (q * S + s * T) - (q * P + s * Q) * (p * S + r * T)
          = (p * s - q * r) * (P * T - Q * S)
      OBVIOUS
    <3> QED
      BY <1>2, <1>e, <3>1
  <2>3. D \in Int /\ e * (D * e) = D * (e * e)
    OBVIOUS
  <2> QED
    BY <2>1, <2>2, <2>3
<1>6. e * e = 1
  <2>1. D * (e * e) = D * 1
    BY <1>5
  <2>2. e * e \in Int /\ D # 0
    BY <1>0
  <2>3. D \in Int
    OBVIOUS
  <2> HIDE DEF D
  <2> QED
    BY <2>1, <2>2, <2>3, Cancelled
<1>7. e = 1 \/ e = -1
  BY <1>6
<1>8. ASSUME e = 1 PROVE A * (s - p) = 2 * (B * r) /\ A * q = -(C * r)
  <2>1. P = s * A - r * B /\ S = s * B - r * C
    <3>1. 1 * P = P /\ 1 * S = S
      OBVIOUS
    <3> QED
      BY <1>3, <1>4, <1>8, <3>1
  <2> QED
    BY <1>1, <2>1
<1>9. ASSUME e = -1 PROVE s = -p
  <2>1. -P = s * A - r * B
    BY <1>3, <1>9
  <2>2. A * (p + s) = 0
    BY <1>1, <2>1
  <2>3. p + s = 0
    BY <1>0, <2>2, NoZeroFactor
  <2> QED
    BY <2>3
<1> QED
  BY <1>0, <1>e, <1>7, <1>8, <1>9 DEF TurnOf, MirrorOf

\* The identity, the half turn, or a turn by a quarter, a third or a sixth.
SmallTurn(p, q, r, s) ==
  \/ q = 0 /\ r = 0 /\ p = s /\ (p = 1 \/ p = -1)
  \/ r # 0 /\ p + s \in -1 .. 1

\* A turn other than the identity and the half turn has a small trace.
LEMMA SmallTrace ==
  ASSUME NEW A \in Int, NEW B \in Int, NEW C \in Int,
         NEW p \in Int, NEW q \in Int, NEW r \in Int, NEW s \in Int,
         TurnOf(A, B, C, p, q, r, s)
  PROVE  SmallTurn(p, q, r, s)
<1> DEFINE D == A * C - B * B
           t == p + s
<1>0. /\ A > 0 /\ A * C - B * B > 0
      /\ p * s - q * r = 1 /\ A * (s - p) = 2 * (B * r) /\ A * q = -(C * r)
  BY DEF TurnOf
<1>1. CASE r = 0
  <2>1. A * q = 0 /\ A * (s - p) = 0
    BY <1>0, <1>1
  <2>2. q = 0 /\ s - p = 0
    BY <1>0, <2>1, NoZeroFactor
  <2>3. p = s /\ p * p = 1
    BY <1>0, <1>1, <2>2
  <2> QED
    BY <1>1, <2>2, <2>3 DEF SmallTurn
<1>2. CASE r # 0
  <2>1. 4 * (r * r * D) = A * A * (4 - t * t)
    <3>1. 4 * (r * r * (A * C)) = -(4 * (A * A * (q * r)))
      <4>1. C * r = -(A * q)
        BY <1>0
      <4>2. 4 * (r * r * (A * C)) = 4 * (A * r * (C * r))
        OBVIOUS
      <4> QED
        BY <4>1, <4>2
    <3>2. 4 * (r * r * (B * B)) = A * A * ((s - p) * (s - p))
      <4>1. 4 * (r * r * (B * B)) = (2 * (B * r)) * (2 * (B * r))
        OBVIOUS
      <4>2. (2 * (B * r)) * (2 * (B * r)) = (A * (s - p)) * (A * (s - p))
        BY <1>0
      <4> QED
        BY <1>0, <4>1, <4>2
    <3>3. 4 * (r * r * D) = -(4 * (A * A * (q * r))) - A * A * ((s - p) * (s - p))
      BY <3>1, <3>2
    <3>4. q * r = p * s - 1
      BY <1>0
    <3> QED
      BY <3>3, <3>4
  <2>2. r * r > 0 /\ D > 0 /\ D \in Int
    BY <1>0, <1>2
  <2>3. r * r * D > 0
    <3>1. \A m, n \in Int : m > 0 /\ n > 0 => m * n > 0
      OBVIOUS
    <3> HIDE DEF D
    <3> QED
      BY <2>2, <3>1
  <2>4. A * A * (4 - t * t) > 0
    BY <2>1, <2>3
  <2>5. 4 - t * t > 0
    <3>1. \A m, n \in Int : m * n > 0 /\ m > 0 => n > 0
      OBVIOUS
    <3>2. A * A \in Int /\ A * A > 0 /\ 4 - t * t \in Int
      BY <1>0
    <3> HIDE DEF t
    <3> QED
      BY <2>4, <3>1, <3>2
  <2>6. t \in Int
    OBVIOUS
  <2> HIDE DEF t
  <2>7. t \in -1 .. 1
    <3>1. ASSUME t >= 2 PROVE FALSE
      <4>1. t * t >= 2 * t
        BY <2>6, <3>1
      <4> QED
        BY <2>5, <2>6, <3>1, <4>1
    <3>2. ASSUME t <= -2 PROVE FALSE
      <4>1. t * t >= -(2 * t)
        BY <2>6, <3>2
      <4> QED
        BY <2>5, <2>6, <3>2, <4>1
    <3> QED
      BY <2>6, <3>1, <3>2
  <2> QED
    BY <1>2, <2>7 DEF t, SmallTurn
<1> QED
  BY <1>1, <1>2

\* What a turn's entries are beside each other when the basis is reduced.
LEMMA LongerSide ==
  ASSUME NEW A \in Int, NEW C \in Int, NEW q \in Int, NEW r \in Int,
         A > 0, A <= C, A * q = -(C * r)
  PROVE  r * r <= -(q * r)
<1>1. A * (-(q * r)) = C * (r * r)
  <2>1. A * (-(q * r)) = -((A * q) * r)
    OBVIOUS
  <2>2. -((-(C * r)) * r) = C * (r * r)
    OBVIOUS
  <2> QED
    BY <2>1, <2>2
<1>2. PICK m \in Int : m = r * r /\ m >= 0
  OBVIOUS
<1>3. PICK n \in Int : n = -(q * r)
  OBVIOUS
<1>4. A * m <= C * m
  BY <1>2
<1>5. A * (n - m) >= 0
  BY <1>1, <1>2, <1>3, <1>4
<1>6. n - m >= 0
  BY ONLY <1>2, <1>3, <1>5, A \in Int, A > 0, m \in Int, n \in Int
<1> QED
  BY <1>2, <1>3, <1>6

LEMMA ShorterSide ==
  ASSUME NEW A \in Int, NEW B \in Int, NEW r \in Int, NEW u \in Int,
         A > 0, 2 * B <= A, -(2 * B) <= A, A * u = 2 * (B * r)
  PROVE  u * u <= r * r
<1>1. (A * A) * (u * u) = (4 * (B * B)) * (r * r)
  <2>1. (A * A) * (u * u) = (A * u) * (A * u)
    OBVIOUS
  <2>2. (2 * (B * r)) * (2 * (B * r)) = (4 * (B * B)) * (r * r)
    OBVIOUS
  <2> QED
    BY <2>1, <2>2
<1>2. A * A - 4 * (B * B) >= 0
  <2>1. (A - 2 * B) * (A + 2 * B) >= 0
    <3>1. PICK m \in Int, n \in Int : m = A - 2 * B /\ n = A + 2 * B
      OBVIOUS
    <3>2. m >= 0 /\ n >= 0
      BY <3>1
    <3>3. m * n >= 0
      BY <3>2
    <3> QED
      BY <3>1, <3>3
  <2>2. (A - 2 * B) * (A + 2 * B) = A * A - 4 * (B * B)
    OBVIOUS
  <2> QED
    BY <2>1, <2>2
<1>3. PICK a \in Int, f \in Int, m \in Int, n \in Int :
        a = A * A /\ f = 4 * (B * B) /\ m = u * u /\ n = r * r
  OBVIOUS
<1>4. a > 0 /\ n >= 0 /\ f <= a /\ a * m = f * n
  BY <1>1, <1>2, <1>3
<1>5. f * n <= a * n
  BY <1>4
<1>6. a * (n - m) >= 0
  BY <1>4, <1>5
<1>7. n - m >= 0
  BY ONLY <1>4, <1>6, a \in Int, m \in Int, n \in Int
<1> QED
  BY <1>3, <1>7

\* The form of a reduced basis.
ReducedForm(A, B, C) == A <= C /\ 2 * B <= A /\ -(2 * B) <= A

\* A quarter turn of a reduced basis makes it a square.
LEMMA SquareShape ==
  ASSUME NEW A \in Int, NEW B \in Int, NEW C \in Int,
         NEW p \in Int, NEW q \in Int, NEW r \in Int, NEW s \in Int,
         TurnOf(A, B, C, p, q, r, s), ReducedForm(A, B, C), p + s = 0
  PROVE  B = 0 /\ A = C
<1>0. /\ A > 0 /\ p * s - q * r = 1 /\ A * (s - p) = 2 * (B * r) /\ A * q = -(C * r)
      /\ A <= C /\ 2 * B <= A /\ -(2 * B) <= A
  BY DEF TurnOf, ReducedForm
<1>1. PICK u \in Int : u = s - p
  OBVIOUS
<1>2. r * r <= -(q * r) /\ u * u <= r * r
  BY <1>0, <1>1, LongerSide, ShorterSide
<1>3. u = -(2 * p) /\ u * u = 4 * (p * p) /\ p * s = -(p * p)
  <2>1. s = -p
    OBVIOUS
  <2> QED
    BY <1>1, <2>1
<1>4. PICK Q \in Int, P \in Int, R \in Int : Q = -(q * r) /\ P = p * p /\ R = r * r /\ P >= 0
  OBVIOUS
<1>5. Q - P = 1 /\ R <= Q /\ 4 * P <= R
  BY <1>0, <1>2, <1>3, <1>4
<1>6. Q = 1 /\ P = 0
  BY <1>4, <1>5
<1>7. p = 0 /\ r # 0 /\ r * r <= 1
  BY <1>0, <1>4, <1>5, <1>6
<1>8. r = 1 \/ r = -1
  BY <1>7
<1>9. u = 0 /\ B * r = 0
  BY <1>0, <1>1, <1>3, <1>7
<1>10. B = 0
  BY <1>7, <1>9, NoZeroFactor
<1>11. CASE r = 1
  <2>1. q = -1
    BY <1>0, <1>4, <1>6, <1>11
  <2> QED
    BY <1>0, <1>10, <1>11, <2>1
<1>12. CASE r = -1
  <2>1. q = 1
    BY <1>0, <1>4, <1>6, <1>12
  <2> QED
    BY <1>0, <1>10, <1>12, <2>1
<1> QED
  BY <1>8, <1>11, <1>12

\* A turn by a third or a sixth makes it the two sides of a triangle.
LEMMA HexagonShape ==
  ASSUME NEW A \in Int, NEW B \in Int, NEW C \in Int,
         NEW p \in Int, NEW q \in Int, NEW r \in Int, NEW s \in Int,
         TurnOf(A, B, C, p, q, r, s), ReducedForm(A, B, C), p + s = 1 \/ p + s = -1
  PROVE  A = C /\ (2 * B = A \/ 2 * B = -A)
<1>0. /\ A > 0 /\ p * s - q * r = 1 /\ A * (s - p) = 2 * (B * r) /\ A * q = -(C * r)
      /\ A <= C /\ 2 * B <= A /\ -(2 * B) <= A
  BY DEF TurnOf, ReducedForm
<1>1. PICK u \in Int : u = s - p
  OBVIOUS
<1>2. r * r <= -(q * r) /\ u * u <= r * r
  BY <1>0, <1>1, LongerSide, ShorterSide
<1>3. 4 * (p * s) = 1 - u * u
  <2>1. 4 * (p * s) = (p + s) * (p + s) - (s - p) * (s - p)
    OBVIOUS
  <2>2. (p + s) * (p + s) = 1
    OBVIOUS
  <2> QED
    BY <1>0, <1>1, <2>1, <2>2
<1>4. PICK Q \in Int, U \in Int, R \in Int : Q = -(q * r) /\ U = u * u /\ R = r * r /\ U >= 0 /\ R >= 0
  OBVIOUS
<1>5. 4 * Q = 3 + U /\ R <= Q /\ U <= R
  BY <1>0, <1>2, <1>3, <1>4
<1>6. Q = 1 /\ R = 1 /\ U = 1
  BY <1>4, <1>5
<1>7. (r = 1 \/ r = -1) /\ (u = 1 \/ u = -1)
  BY <1>4, <1>6
<1>8. q = -r
  BY <1>0, <1>4, <1>6, <1>7
<1>9. A = C
  BY <1>0, <1>7, <1>8
<1>10. A * u = 2 * (B * r)
  BY <1>0, <1>1
<1>11. 2 * B = A \/ 2 * B = -A
  <2>1. CASE r = 1
    BY <1>7, <1>10, <2>1
  <2>2. CASE r = -1
    BY <1>7, <1>10, <2>2
  <2> QED
    BY <1>7, <2>1, <2>2
<1> QED
  BY <1>9, <1>11

\* b maps the vector x to p x + r y, and y to q x + s y.
Images(b, x, y, p, q, r, s) ==
  /\ b[1][1] * x[1] + b[1][2] * x[2] = p * x[1] + r * y[1]
  /\ b[2][1] * x[1] + b[2][2] * x[2] = p * x[2] + r * y[2]
  /\ b[1][1] * y[1] + b[1][2] * y[2] = q * x[1] + s * y[1]
  /\ b[2][1] * y[1] + b[2][2] * y[2] = q * x[2] + s * y[2]

Moves(b, x, y, p, q, r, s) ==
  /\ Images(b, x, y, p, q, r, s)
  /\ p * s - q * r = Det(b)
  /\ p + s = Trace(b)

\* A matrix in another basis of the lattice, its coordinates spelled out.
LEMMA InScalars ==
  ASSUME NEW x1 \in Int, NEW x2 \in Int, NEW y1 \in Int, NEW y2 \in Int,
         NEW b11 \in Int, NEW b12 \in Int, NEW b21 \in Int, NEW b22 \in Int,
         NEW d \in Int, d = x1 * y2 - x2 * y1, d = 1 \/ d = -1,
         NEW p \in Int, NEW q \in Int, NEW r \in Int, NEW s \in Int,
         NEW e1 \in Int, NEW e2 \in Int, NEW f1 \in Int, NEW f2 \in Int,
         e1 = b11 * x1 + b12 * x2, e2 = b21 * x1 + b22 * x2,
         f1 = b11 * y1 + b12 * y2, f2 = b21 * y1 + b22 * y2,
         p = d * (e1 * y2 - e2 * y1), r = d * (x1 * e2 - x2 * e1),
         q = d * (f1 * y2 - f2 * y1), s = d * (x1 * f2 - x2 * f1)
  PROVE  /\ e1 = p * x1 + r * y1 /\ e2 = p * x2 + r * y2
         /\ f1 = q * x1 + s * y1 /\ f2 = q * x2 + s * y2
         /\ p * s - q * r = b11 * b22 - b12 * b21 /\ p + s = b11 + b22
<1>1. d = x1 * y2 - x2 * y1 /\ d * d = 1
  OBVIOUS
<1>2. /\ e1 = b11 * x1 + b12 * x2 /\ e2 = b21 * x1 + b22 * x2
      /\ f1 = b11 * y1 + b12 * y2 /\ f2 = b21 * y1 + b22 * y2
  OBVIOUS
<1>3. /\ p = d * (e1 * y2 - e2 * y1) /\ r = d * (x1 * e2 - x2 * e1)
      /\ q = d * (f1 * y2 - f2 * y1) /\ s = d * (x1 * f2 - x2 * f1)
  OBVIOUS
<1>4. \A v1, v2 \in Int : /\ d * (v1 * y2 - v2 * y1) * x1 + d * (x1 * v2 - x2 * v1) * y1 = v1
                          /\ d * (v1 * y2 - v2 * y1) * x2 + d * (x1 * v2 - x2 * v1) * y2 = v2
  <2> SUFFICES ASSUME NEW v1 \in Int, NEW v2 \in Int
               PROVE  /\ d * (v1 * y2 - v2 * y1) * x1 + d * (x1 * v2 - x2 * v1) * y1 = v1
                      /\ d * (v1 * y2 - v2 * y1) * x2 + d * (x1 * v2 - x2 * v1) * y2 = v2
    OBVIOUS
  <2>1. d * (v1 * y2 - v2 * y1) * x1 + d * (x1 * v2 - x2 * v1) * y1 = d * (x1 * y2 - x2 * y1) * v1
    OBVIOUS
  <2>2. d * (v1 * y2 - v2 * y1) * x2 + d * (x1 * v2 - x2 * v1) * y2 = d * (x1 * y2 - x2 * y1) * v2
    OBVIOUS
  <2>3. d * (x1 * y2 - x2 * y1) = 1
    BY <1>1
  <2> QED
    BY <2>1, <2>2, <2>3
<1>5. e1 = p * x1 + r * y1 /\ e2 = p * x2 + r * y2 /\ f1 = q * x1 + s * y1 /\ f2 = q * x2 + s * y2
  BY <1>3, <1>4
<1>6. p * s - q * r = b11 * b22 - b12 * b21
  <2>1. p * s - q * r = (d * d) * ((e1 * f2 - e2 * f1) * (x1 * y2 - x2 * y1))
    <3>1. p * s - q * r = (d * (e1 * y2 - e2 * y1)) * (d * (x1 * f2 - x2 * f1))
                          - (d * (f1 * y2 - f2 * y1)) * (d * (x1 * e2 - x2 * e1))
      BY <1>3
    <3>2. (d * (e1 * y2 - e2 * y1)) * (d * (x1 * f2 - x2 * f1))
          - (d * (f1 * y2 - f2 * y1)) * (d * (x1 * e2 - x2 * e1))
          = (d * d) * ((e1 * f2 - e2 * f1) * (x1 * y2 - x2 * y1))
      OBVIOUS
    <3> QED
      BY <3>1, <3>2
  <2>2. e1 * f2 - e2 * f1 = (b11 * b22 - b12 * b21) * d
    <3>1. (b11 * x1 + b12 * x2) * (b21 * y1 + b22 * y2) - (b21 * x1 + b22 * x2) * (b11 * y1 + b12 * y2)
          = (b11 * b22 - b12 * b21) * (x1 * y2 - x2 * y1)
      OBVIOUS
    <3> QED
      BY <1>1, <1>2, <3>1
  <2>3. PICK D \in Int : D = b11 * b22 - b12 * b21
    OBVIOUS
  <2>4. p * s - q * r = (d * d) * ((D * d) * d)
    BY <1>1, <2>1, <2>2, <2>3
  <2>5. (d * d) * ((D * d) * d) = (d * d) * (d * d) * D
    OBVIOUS
  <2> QED
    BY <1>1, <2>3, <2>4, <2>5
<1>7. p + s = b11 + b22
  <2>1. p + s = d * ((e1 * y2 - e2 * y1) + (x1 * f2 - x2 * f1))
    BY <1>3
  <2>2. (e1 * y2 - e2 * y1) + (x1 * f2 - x2 * f1) = (b11 + b22) * d
    <3>1. ((b11 * x1 + b12 * x2) * y2 - (b21 * x1 + b22 * x2) * y1)
          + (x1 * (b21 * y1 + b22 * y2) - x2 * (b11 * y1 + b12 * y2))
          = (b11 + b22) * (x1 * y2 - x2 * y1)
      OBVIOUS
    <3> QED
      BY <1>1, <1>2, <3>1
  <2>3. PICK t \in Int : t = b11 + b22
    OBVIOUS
  <2>4. d * (t * d) = t * (d * d)
    OBVIOUS
  <2> QED
    BY <1>1, <2>1, <2>2, <2>3, <2>4
<1> QED
  BY <1>5, <1>6, <1>7

LEMMA InBasis ==
  ASSUME NEW b \in (Int \X Int) \X (Int \X Int), NEW x \in Int \X Int, NEW y \in Int \X Int,
         x[1] * y[2] - x[2] * y[1] = 1 \/ x[1] * y[2] - x[2] * y[1] = -1
  PROVE  \E p, q, r, s \in Int : Moves(b, x, y, p, q, r, s)
<1>1. PICK x1 \in Int, x2 \in Int, y1 \in Int, y2 \in Int :
        x1 = x[1] /\ x2 = x[2] /\ y1 = y[1] /\ y2 = y[2]
  OBVIOUS
<1>2. PICK b11 \in Int, b12 \in Int, b21 \in Int, b22 \in Int :
        b11 = b[1][1] /\ b12 = b[1][2] /\ b21 = b[2][1] /\ b22 = b[2][2]
  OBVIOUS
<1>3. PICK d \in Int : d = x1 * y2 - x2 * y1
  OBVIOUS
<1>4. d = 1 \/ d = -1
  BY <1>1, <1>3
<1>5. PICK e1 \in Int, e2 \in Int, f1 \in Int, f2 \in Int :
        /\ e1 = b11 * x1 + b12 * x2 /\ e2 = b21 * x1 + b22 * x2
        /\ f1 = b11 * y1 + b12 * y2 /\ f2 = b21 * y1 + b22 * y2
  OBVIOUS
<1>6. PICK p \in Int, q \in Int, r \in Int, s \in Int :
        /\ p = d * (e1 * y2 - e2 * y1) /\ r = d * (x1 * e2 - x2 * e1)
        /\ q = d * (f1 * y2 - f2 * y1) /\ s = d * (x1 * f2 - x2 * f1)
  OBVIOUS
<1>7. /\ e1 = p * x1 + r * y1 /\ e2 = p * x2 + r * y2
      /\ f1 = q * x1 + s * y1 /\ f2 = q * x2 + s * y2
      /\ p * s - q * r = b11 * b22 - b12 * b21 /\ p + s = b11 + b22
  BY ONLY <1>3, <1>4, <1>5, <1>6, InScalars,
     x1 \in Int, x2 \in Int, y1 \in Int, y2 \in Int, d \in Int,
     b11 \in Int, b12 \in Int, b21 \in Int, b22 \in Int, p \in Int, q \in Int, r \in Int, s \in Int,
     e1 \in Int, e2 \in Int, f1 \in Int, f2 \in Int
<1>8. Moves(b, x, y, p, q, r, s)
  BY ONLY <1>1, <1>2, <1>5, <1>7 DEF Moves, Images, Det, Trace
<1> QED
  BY <1>8

-----------------------------------------------------------------------------
(* The products of a layer's vectors and its operations.                   *)

\* A layer of the instance.
OfLayers == layer \in Layers

LEMMA LayerIs ==
  ASSUME OfLayers
  PROVE  /\ layer.gram[1][1] \in Int /\ layer.gram[1][2] \in Int /\ layer.gram[2][2] \in Int
         /\ layer.gram[2][1] = layer.gram[1][2] /\ layer.gram[1][1] > 0
         /\ layer.gram[1][1] * layer.gram[2][2] - layer.gram[1][2] * layer.gram[1][2] > 0
         /\ \A b \in layer.blocks : b \in (Int \X Int) \X (Int \X Int)
BY LayersAssumption DEF OfLayers

LEMMA BlockProducts ==
  ASSUME OfLayers, NEW b \in layer.blocks, NEW c \in layer.blocks
  PROVE  << <<b[1][1] * c[1][1] + b[1][2] * c[2][1], b[1][1] * c[1][2] + b[1][2] * c[2][2]>>,
            <<b[2][1] * c[1][1] + b[2][2] * c[2][1], b[2][1] * c[1][2] + b[2][2] * c[2][2]>> >>
           \in layer.blocks
BY LayersAssumption DEF OfLayers

LEMMA BlockKeeps ==
  ASSUME OfLayers, NEW b \in layer.blocks
  PROVE  /\ Dot(<<b[1][1], b[2][1]>>, <<b[1][1], b[2][1]>>) = layer.gram[1][1]
         /\ Dot(<<b[1][1], b[2][1]>>, <<b[1][2], b[2][2]>>) = layer.gram[1][2]
         /\ Dot(<<b[1][2], b[2][2]>>, <<b[1][2], b[2][2]>>) = layer.gram[2][2]
<1> DEFINE Pairing(v, w) ==
             v[1] * (layer.gram[1][1] * w[1] + layer.gram[1][2] * w[2])
               + v[2] * (layer.gram[2][1] * w[1] + layer.gram[2][2] * w[2])
           Column(j) == <<b[1][j], b[2][j]>>
<1>1. \A i, j \in 1 .. 2 : Pairing(Column(i), Column(j)) = layer.gram[i][j]
  BY LayersAssumption DEF OfLayers
<1>2. 1 \in 1 .. 2 /\ 2 \in 1 .. 2
  OBVIOUS
<1>3. /\ Pairing(Column(1), Column(1)) = layer.gram[1][1]
      /\ Pairing(Column(1), Column(2)) = layer.gram[1][2]
      /\ Pairing(Column(2), Column(2)) = layer.gram[2][2]
  <2> HIDE DEF Pairing, Column
  <2> QED
    BY <1>1, <1>2
<1> QED
  BY <1>3, Zenon DEF Dot

LEMMA Bilinear ==
  ASSUME NEW a \in Int, NEW h \in Int, NEW c \in Int,
         NEW v1 \in Int, NEW v2 \in Int, NEW w1 \in Int, NEW w2 \in Int,
         NEW m \in Int, NEW n \in Int, NEW i \in Int, NEW j \in Int,
         NEW A \in Int, NEW B \in Int, NEW C \in Int,
         A = v1 * (a * v1 + h * v2) + v2 * (h * v1 + c * v2),
         B = v1 * (a * w1 + h * w2) + v2 * (h * w1 + c * w2),
         C = w1 * (a * w1 + h * w2) + w2 * (h * w1 + c * w2)
  PROVE  (m * v1 + n * w1) * (a * (i * v1 + j * w1) + h * (i * v2 + j * w2))
           + (m * v2 + n * w2) * (h * (i * v1 + j * w1) + c * (i * v2 + j * w2))
         = m * (A * i + B * j) + n * (B * i + C * j)
<1>1. (m * v1 + n * w1) * (a * (i * v1 + j * w1) + h * (i * v2 + j * w2))
        + (m * v2 + n * w2) * (h * (i * v1 + j * w1) + c * (i * v2 + j * w2))
      = m * ((v1 * (a * v1 + h * v2) + v2 * (h * v1 + c * v2)) * i
             + (v1 * (a * w1 + h * w2) + v2 * (h * w1 + c * w2)) * j)
        + n * ((v1 * (a * w1 + h * w2) + v2 * (h * w1 + c * w2)) * i
               + (w1 * (a * w1 + h * w2) + w2 * (h * w1 + c * w2)) * j)
  OBVIOUS
<1> QED
  BY <1>1

\* The products of two sums of the same two vectors.
LEMMA DotOfSums ==
  ASSUME OfLayers, NEW v \in Int \X Int, NEW w \in Int \X Int,
         NEW m \in Int, NEW n \in Int, NEW i \in Int, NEW j \in Int,
         NEW x, NEW y, x = <<m * v[1] + n * w[1], m * v[2] + n * w[2]>>,
         y = <<i * v[1] + j * w[1], i * v[2] + j * w[2]>>
  PROVE  Dot(x, y) = m * (Dot(v, v) * i + Dot(v, w) * j) + n * (Dot(v, w) * i + Dot(w, w) * j)
<1>1. PICK a \in Int, h \in Int, c \in Int :
        a = layer.gram[1][1] /\ h = layer.gram[1][2] /\ c = layer.gram[2][2] /\ h = layer.gram[2][1]
  BY LayerIs
<1>2. PICK v1 \in Int, v2 \in Int, w1 \in Int, w2 \in Int :
        v1 = v[1] /\ v2 = v[2] /\ w1 = w[1] /\ w2 = w[2]
  OBVIOUS
<1>3. PICK A \in Int, B \in Int, C \in Int :
        /\ A = v1 * (a * v1 + h * v2) + v2 * (h * v1 + c * v2)
        /\ B = v1 * (a * w1 + h * w2) + v2 * (h * w1 + c * w2)
        /\ C = w1 * (a * w1 + h * w2) + w2 * (h * w1 + c * w2)
  OBVIOUS
<1>4. A = Dot(v, v) /\ B = Dot(v, w) /\ C = Dot(w, w)
  BY ONLY <1>1, <1>2, <1>3 DEF Dot
<1>5. Dot(x, y) = (m * v1 + n * w1) * (a * (i * v1 + j * w1) + h * (i * v2 + j * w2))
                    + (m * v2 + n * w2) * (h * (i * v1 + j * w1) + c * (i * v2 + j * w2))
  <2>1. x[1] = m * v1 + n * w1 /\ x[2] = m * v2 + n * w2 /\ y[1] = i * v1 + j * w1 /\ y[2] = i * v2 + j * w2
    BY <1>2
  <2> QED
    BY ONLY <1>1, <2>1 DEF Dot
<1>6. (m * v1 + n * w1) * (a * (i * v1 + j * w1) + h * (i * v2 + j * w2))
        + (m * v2 + n * w2) * (h * (i * v1 + j * w1) + c * (i * v2 + j * w2))
      = m * (A * i + B * j) + n * (B * i + C * j)
  BY ONLY <1>3, Bilinear, a \in Int, h \in Int, c \in Int, v1 \in Int, v2 \in Int, w1 \in Int, w2 \in Int,
     m \in Int, n \in Int, i \in Int, j \in Int, A \in Int, B \in Int, C \in Int
<1> QED
  BY ONLY <1>4, <1>5, <1>6

LEMMA DotIs ==
  ASSUME OfLayers, NEW v \in Int \X Int, NEW w \in Int \X Int
  PROVE  /\ Dot(v, w) \in Int /\ Dot(w, v) = Dot(v, w)
         /\ (v[1] * w[2] - v[2] * w[1] # 0 => Dot(v, v) > 0)
         /\ (v[1] * w[2] - v[2] * w[1] # 0 => Dot(v, v) * Dot(w, w) - Dot(v, w) * Dot(v, w) > 0)
<1>1. PICK a \in Int, h \in Int, c \in Int :
        a = layer.gram[1][1] /\ h = layer.gram[1][2] /\ c = layer.gram[2][2] /\ h = layer.gram[2][1]
  BY LayerIs
<1>2. a > 0 /\ a * c - h * h > 0
  BY LayerIs, <1>1
<1>3. PICK v1 \in Int, v2 \in Int, w1 \in Int, w2 \in Int :
        v1 = v[1] /\ v2 = v[2] /\ w1 = w[1] /\ w2 = w[2]
  OBVIOUS
<1>4. /\ Dot(v, v) = v1 * (a * v1 + h * v2) + v2 * (h * v1 + c * v2)
      /\ Dot(v, w) = v1 * (a * w1 + h * w2) + v2 * (h * w1 + c * w2)
      /\ Dot(w, v) = w1 * (a * v1 + h * v2) + w2 * (h * v1 + c * v2)
      /\ Dot(w, w) = w1 * (a * w1 + h * w2) + w2 * (h * w1 + c * w2)
  BY ONLY <1>1, <1>3 DEF Dot
<1>5. Dot(v, w) \in Int /\ Dot(w, v) = Dot(v, w)
  BY ONLY <1>4, a \in Int, h \in Int, c \in Int, v1 \in Int, v2 \in Int, w1 \in Int, w2 \in Int
<1>6. PICK A \in Int, B \in Int, C \in Int, D \in Int, E \in Int :
        /\ A = Dot(v, v) /\ B = Dot(v, w) /\ C = Dot(w, w)
        /\ D = a * c - h * h /\ E = v1 * w2 - v2 * w1
  BY ONLY <1>4, a \in Int, h \in Int, c \in Int, v1 \in Int, v2 \in Int, w1 \in Int, w2 \in Int
<1>7. A * C - B * B = D * (E * E)
  <2>1. (v1 * (a * v1 + h * v2) + v2 * (h * v1 + c * v2)) * (w1 * (a * w1 + h * w2) + w2 * (h * w1 + c * w2))
        - (v1 * (a * w1 + h * w2) + v2 * (h * w1 + c * w2)) * (v1 * (a * w1 + h * w2) + v2 * (h * w1 + c * w2))
        = (a * c - h * h) * ((v1 * w2 - v2 * w1) * (v1 * w2 - v2 * w1))
    BY ONLY a \in Int, h \in Int, c \in Int, v1 \in Int, v2 \in Int, w1 \in Int, w2 \in Int
  <2> QED
    BY ONLY <1>4, <1>6, <2>1
<1>8. \A m, n \in Int : m > 0 /\ n > 0 => m * n > 0
  OBVIOUS
<1>9. ASSUME E # 0 PROVE A > 0 /\ A * C - B * B > 0
  <2>1. E * E > 0 /\ E * E \in Int
    BY ONLY <1>9, E \in Int
  <2>2. D > 0
    BY <1>2, <1>6
  <2>3. D * (E * E) > 0
    BY ONLY <1>8, <2>1, <2>2, D \in Int
  <2>4. a * A > 0
    <3>1. a * (v1 * (a * v1 + h * v2) + v2 * (h * v1 + c * v2))
          = (a * v1 + h * v2) * (a * v1 + h * v2) + (a * c - h * h) * (v2 * v2)
      BY ONLY a \in Int, h \in Int, c \in Int, v1 \in Int, v2 \in Int
    <3>2. PICK m \in Int : m = a * v1 + h * v2
      OBVIOUS
    <3>3. a * A = m * m + D * (v2 * v2)
      BY ONLY <1>4, <1>6, <3>1, <3>2
    <3>4. m * m >= 0
      OBVIOUS
    <3>5. CASE v2 = 0
      <4>1. v1 # 0
        BY <1>6, <1>9, <3>5
      <4>2. m = a * v1 /\ m # 0
        <5>1. m = a * v1
          BY <3>2, <3>5
        <5> QED
          BY ONLY <1>2, <4>1, <5>1, a \in Int, v1 \in Int, NoZeroFactor
      <4>3. m * m > 0 /\ D * (v2 * v2) = 0
        BY ONLY <3>5, <4>2, m \in Int, D \in Int
      <4> QED
        BY ONLY <3>3, <4>3, m \in Int, D \in Int, v2 \in Int
    <3>6. CASE v2 # 0
      <4>1. v2 * v2 > 0 /\ v2 * v2 \in Int
        BY ONLY <3>6, v2 \in Int
      <4>2. D * (v2 * v2) > 0 /\ D * (v2 * v2) \in Int
        BY ONLY <1>8, <2>2, <4>1, D \in Int
      <4> QED
        BY ONLY <3>3, <3>4, <4>2, m \in Int
    <3> QED
      BY <3>5, <3>6
  <2>5. A > 0
    BY ONLY <1>2, <2>4, a \in Int, A \in Int
  <2> QED
    BY <1>7, <2>3, <2>5
<1>10. E = v[1] * w[2] - v[2] * w[1]
  BY <1>3, <1>6
<1> QED
  BY <1>5, <1>6, <1>9, <1>10

\* An operation of a layer in a basis of its lattice.
LEMMA OperationIs ==
  ASSUME OfLayers, NEW b \in layer.blocks, NEW x \in Int \X Int, NEW y \in Int \X Int,
         NEW A \in Int, NEW B \in Int, NEW C \in Int,
         x[1] * y[2] - x[2] * y[1] = 1 \/ x[1] * y[2] - x[2] * y[1] = -1,
         A = Dot(x, x), B = Dot(x, y), C = Dot(y, y)
  PROVE  \E p, q, r, s \in Int : Moves(b, x, y, p, q, r, s) /\ Keeps(A, B, C, p, q, r, s)
<1>1. b \in (Int \X Int) \X (Int \X Int)
  BY LayerIs
<1>2. PICK p \in Int, q \in Int, r \in Int, s \in Int : Moves(b, x, y, p, q, r, s)
  BY <1>1, InBasis
<1> DEFINE v == <<b[1][1], b[2][1]>>
           w == <<b[1][2], b[2][2]>>
           bx == <<x[1] * v[1] + x[2] * w[1], x[1] * v[2] + x[2] * w[2]>>
           by == <<y[1] * v[1] + y[2] * w[1], y[1] * v[2] + y[2] * w[2]>>
<1>3. v \in Int \X Int /\ w \in Int \X Int /\ x[1] \in Int /\ x[2] \in Int /\ y[1] \in Int /\ y[2] \in Int
  BY <1>1
<1>4. /\ Dot(v, v) = layer.gram[1][1] /\ Dot(v, w) = layer.gram[1][2] /\ Dot(w, w) = layer.gram[2][2]
  BY BlockKeeps
<1>5. Dot(bx, bx) = A /\ Dot(bx, by) = B /\ Dot(by, by) = C
  <2>1. PICK x1 \in Int, x2 \in Int, y1 \in Int, y2 \in Int :
          x1 = x[1] /\ x2 = x[2] /\ y1 = y[1] /\ y2 = y[2]
    BY <1>3
  <2>2. bx = <<x1 * v[1] + x2 * w[1], x1 * v[2] + x2 * w[2]>> /\ by = <<y1 * v[1] + y2 * w[1], y1 * v[2] + y2 * w[2]>>
    BY <2>1
  <2> HIDE DEF v, w, bx, by
  <2>3. Dot(bx, bx) = x1 * (Dot(v, v) * x1 + Dot(v, w) * x2) + x2 * (Dot(v, w) * x1 + Dot(w, w) * x2)
    BY ONLY <1>3, <2>2, OfLayers, DotOfSums, x1 \in Int, x2 \in Int
  <2>4. Dot(bx, by) = x1 * (Dot(v, v) * y1 + Dot(v, w) * y2) + x2 * (Dot(v, w) * y1 + Dot(w, w) * y2)
    BY ONLY <1>3, <2>2, OfLayers, DotOfSums, x1 \in Int, x2 \in Int, y1 \in Int, y2 \in Int
  <2>5. Dot(by, by) = y1 * (Dot(v, v) * y1 + Dot(v, w) * y2) + y2 * (Dot(v, w) * y1 + Dot(w, w) * y2)
    BY ONLY <1>3, <2>2, OfLayers, DotOfSums, y1 \in Int, y2 \in Int
  <2> QED
    BY ONLY <1>4, <2>1, <2>3, <2>4, <2>5, LayerIs, OfLayers, A = Dot(x, x), B = Dot(x, y), C = Dot(y, y) DEF Dot
<1>6. bx = <<p * x[1] + r * y[1], p * x[2] + r * y[2]>> /\ by = <<q * x[1] + s * y[1], q * x[2] + s * y[2]>>
  <2>1. /\ x[1] * v[1] + x[2] * w[1] = p * x[1] + r * y[1] /\ x[1] * v[2] + x[2] * w[2] = p * x[2] + r * y[2]
        /\ y[1] * v[1] + y[2] * w[1] = q * x[1] + s * y[1] /\ y[1] * v[2] + y[2] * w[2] = q * x[2] + s * y[2]
    <3>1. PICK b11 \in Int, b12 \in Int, b21 \in Int, b22 \in Int :
            b11 = b[1][1] /\ b12 = b[1][2] /\ b21 = b[2][1] /\ b22 = b[2][2]
      BY <1>1
    <3> QED
      BY <1>2, <1>3, <3>1 DEF Moves, Images
  <2> HIDE DEF v, w
  <2> QED
    BY ONLY <2>1
<1>7. /\ p * (A * p + B * r) + r * (B * p + C * r) = A
      /\ p * (A * q + B * s) + r * (B * q + C * s) = B
      /\ q * (A * q + B * s) + s * (B * q + C * s) = C
  <2> HIDE DEF v, w, bx, by
  <2>1. Dot(bx, bx) = p * (Dot(x, x) * p + Dot(x, y) * r) + r * (Dot(x, y) * p + Dot(y, y) * r)
    BY ONLY <1>6, OfLayers, DotOfSums, x \in Int \X Int, y \in Int \X Int, p \in Int, q \in Int, r \in Int, s \in Int
  <2>2. Dot(bx, by) = p * (Dot(x, x) * q + Dot(x, y) * s) + r * (Dot(x, y) * q + Dot(y, y) * s)
    BY ONLY <1>6, OfLayers, DotOfSums, x \in Int \X Int, y \in Int \X Int, p \in Int, q \in Int, r \in Int, s \in Int
  <2>3. Dot(by, by) = q * (Dot(x, x) * q + Dot(x, y) * s) + s * (Dot(x, y) * q + Dot(y, y) * s)
    BY ONLY <1>6, OfLayers, DotOfSums, x \in Int \X Int, y \in Int \X Int, p \in Int, q \in Int, r \in Int, s \in Int
  <2> QED
    BY ONLY <1>5, <2>1, <2>2, <2>3, A = Dot(x, x), B = Dot(x, y), C = Dot(y, y)
<1>8. A > 0 /\ A * C - B * B > 0
  <2>1. x[1] * y[2] - x[2] * y[1] # 0
    BY <1>3
  <2> QED
    BY ONLY <2>1, DotIs, OfLayers, x \in Int \X Int, y \in Int \X Int, A = Dot(x, x), B = Dot(x, y), C = Dot(y, y)
<1>9. Keeps(A, B, C, p, q, r, s)
  BY ONLY <1>7, <1>8 DEF Keeps
<1> QED
  BY <1>2, <1>9

-----------------------------------------------------------------------------
(* The points of special symmetry.                                         *)

\* The rows are a basis of the lattice.
Spanning == rows \in (Int \X Int) \X (Int \X Int) /\ (Det(rows) = 1 \/ Det(rows) = -1)

\* A point moves by whole vectors.
Whole(point, p, q, r, s) ==
  ((p - 1) * point[1] + r * point[2]) % 12 = 0 /\ (q * point[1] + (s - 1) * point[2]) % 12 = 0

\* An operation fixes a point if its transpose moves it by whole vectors.
LEMMA FixedBy ==
  ASSUME OfLayers, Spanning, NEW b \in layer.blocks, NEW point \in Int \X Int,
         NEW p \in Int, NEW q \in Int, NEW r \in Int, NEW s \in Int,
         Images(b, rows[1], rows[2], p, q, r, s), Whole(point, p, q, r, s)
  PROVE  b \in Fixing(point)
<1>1. PICK x1 \in Int, x2 \in Int, y1 \in Int, y2 \in Int :
        x1 = rows[1][1] /\ x2 = rows[1][2] /\ y1 = rows[2][1] /\ y2 = rows[2][2]
  BY DEF Spanning
<1>2. PICK b11 \in Int, b12 \in Int, b21 \in Int, b22 \in Int :
        b11 = b[1][1] /\ b12 = b[1][2] /\ b21 = b[2][1] /\ b22 = b[2][2]
  <2>1. b \in (Int \X Int) \X (Int \X Int)
    BY LayerIs
  <2> QED
    BY <2>1
<1>3. PICK d \in Int : d = x1 * y2 - x2 * y1 /\ d = Det(rows)
  BY <1>1 DEF Det
<1>4. d = 1 \/ d = -1
  BY <1>3 DEF Spanning
<1>5. PICK P \in Int, Q \in Int : P = point[1] /\ Q = point[2]
  OBVIOUS
<1>6. PICK k1 \in Int, k2 \in Int : k1 = d * (y2 * P - x2 * Q) /\ k2 = d * (x1 * Q - y1 * P)
  OBVIOUS
<1>7. InOwnBasis(point) = <<k1, k2>>
  BY ONLY <1>1, <1>3, <1>5, <1>6 DEF InOwnBasis
<1>8. k1 * x1 + k2 * x2 = P /\ k1 * y1 + k2 * y2 = Q
  <2>1. d * (x1 * y2 - x2 * y1) = 1
    BY <1>3, <1>4
  <2>2. k1 * x1 + k2 * x2 = (d * (x1 * y2 - x2 * y1)) * P
    BY <1>6
  <2>3. k1 * y1 + k2 * y2 = (d * (x1 * y2 - x2 * y1)) * Q
    BY <1>6
  <2> QED
    BY <2>1, <2>2, <2>3
<1>9. /\ b11 * x1 + b12 * x2 = p * x1 + r * y1 /\ b21 * x1 + b22 * x2 = p * x2 + r * y2
      /\ b11 * y1 + b12 * y2 = q * x1 + s * y1 /\ b21 * y1 + b22 * y2 = q * x2 + s * y2
  BY <1>1, <1>2 DEF Images
<1>10. PICK z1 \in Int, z2 \in Int : z1 = k1 * b11 + k2 * b21 - k1 /\ z2 = k1 * b12 + k2 * b22 - k2
  OBVIOUS
<1>11. PICK m \in Int, n \in Int : (p - 1) * P + r * Q = 12 * m /\ q * P + (s - 1) * Q = 12 * n
  <2>1. PICK u \in Int, v \in Int : u = (p - 1) * P + r * Q /\ v = q * P + (s - 1) * Q
    OBVIOUS
  <2>2. u % 12 = 0 /\ v % 12 = 0
    BY <1>5, <2>1 DEF Whole
  <2>3. u = 12 * (u \div 12) /\ v = 12 * (v \div 12)
    BY ONLY <2>2, u \in Int, v \in Int
  <2>4. u \div 12 \in Int /\ v \div 12 \in Int
    OBVIOUS
  <2> QED
    BY ONLY <2>1, <2>3, <2>4
<1>12. z1 * x1 + z2 * x2 = 12 * m
  <2>1. (k1 * b11 + k2 * b21 - k1) * x1 + (k1 * b12 + k2 * b22 - k2) * x2
        = k1 * (b11 * x1 + b12 * x2) + k2 * (b21 * x1 + b22 * x2) - (k1 * x1 + k2 * x2)
    OBVIOUS
  <2>2. k1 * (p * x1 + r * y1) + k2 * (p * x2 + r * y2) - (k1 * x1 + k2 * x2)
        = (p - 1) * (k1 * x1 + k2 * x2) + r * (k1 * y1 + k2 * y2)
    OBVIOUS
  <2> QED
    BY <1>8, <1>9, <1>10, <1>11, <2>1, <2>2
<1>13. z1 * y1 + z2 * y2 = 12 * n
  <2>1. (k1 * b11 + k2 * b21 - k1) * y1 + (k1 * b12 + k2 * b22 - k2) * y2
        = k1 * (b11 * y1 + b12 * y2) + k2 * (b21 * y1 + b22 * y2) - (k1 * y1 + k2 * y2)
    OBVIOUS
  <2>2. k1 * (q * x1 + s * y1) + k2 * (q * x2 + s * y2) - (k1 * y1 + k2 * y2)
        = q * (k1 * x1 + k2 * x2) + (s - 1) * (k1 * y1 + k2 * y2)
    OBVIOUS
  <2> QED
    BY <1>8, <1>9, <1>10, <1>11, <2>1, <2>2
<1>14. z1 % 12 = 0 /\ z2 % 12 = 0
  <2>2. d * (x1 * y2 - x2 * y1) = 1
    BY <1>3, <1>4
  <2>3. z1 = 12 * (d * (m * y2 - n * x2))
    <3>1. (d * (x1 * y2 - x2 * y1)) * z1 = d * ((z1 * x1 + z2 * x2) * y2 - (z1 * y1 + z2 * y2) * x2)
      OBVIOUS
    <3>2. d * ((12 * m) * y2 - (12 * n) * x2) = 12 * (d * (m * y2 - n * x2))
      OBVIOUS
    <3> QED
      BY <1>12, <1>13, <2>2, <3>1, <3>2
  <2>4. z2 = 12 * (d * (x1 * n - y1 * m))
    <3>1. (d * (x1 * y2 - x2 * y1)) * z2 = d * (x1 * (z1 * y1 + z2 * y2) - y1 * (z1 * x1 + z2 * x2))
      OBVIOUS
    <3>2. d * (x1 * (12 * n) - y1 * (12 * m)) = 12 * (d * (x1 * n - y1 * m))
      OBVIOUS
    <3> QED
      BY <1>12, <1>13, <2>2, <3>1, <3>2
  <2>5. PICK i \in Int, j \in Int : i = d * (m * y2 - n * x2) /\ j = d * (x1 * n - y1 * m)
    OBVIOUS
  <2>6. z1 = 12 * i /\ z2 = 12 * j
    BY ONLY <2>3, <2>4, <2>5
  <2> QED
    BY ONLY <2>6, i \in Int, j \in Int
<1> QED
  BY <1>2, <1>7, <1>10, <1>14 DEF Fixing

\* Every operation keeps the centre of the zone.
LEMMA GammaIsKept ==
  ASSUME OfLayers, Spanning
  PROVE  Fixing(<<0, 0>>) = layer.blocks
<1>1. InOwnBasis(<<0, 0>>) = <<0, 0>>
  <2>1. PICK x1 \in Int, x2 \in Int, y1 \in Int, y2 \in Int, d \in Int :
          /\ x1 = rows[1][1] /\ x2 = rows[1][2] /\ y1 = rows[2][1] /\ y2 = rows[2][2]
          /\ d = Det(rows)
    BY DEF Spanning, Det
  <2>2. d * (y2 * 0 - x2 * 0) = 0 /\ d * (x1 * 0 - y1 * 0) = 0
    OBVIOUS
  <2> QED
    BY <2>1, <2>2 DEF InOwnBasis
<1>2. \A b \in layer.blocks : b \in Fixing(<<0, 0>>)
  <2> SUFFICES ASSUME NEW b \in layer.blocks PROVE b \in Fixing(<<0, 0>>)
    OBVIOUS
  <2>1. b \in (Int \X Int) \X (Int \X Int)
    BY LayerIs
  <2> QED
    BY <1>1, <2>1 DEF Fixing
<1> QED
  BY <1>2 DEF Fixing

\* The products of the rows.
RowForm(A, B, C) ==
  A = Dot(rows[1], rows[1]) /\ B = Dot(rows[1], rows[2]) /\ C = Dot(rows[2], rows[2])

\* An operation of the layer in the basis of the rows.
LEMMA RowsMove ==
  ASSUME OfLayers, Spanning, NEW b \in layer.blocks,
         NEW A \in Int, NEW B \in Int, NEW C \in Int, RowForm(A, B, C)
  PROVE  \E p, q, r, s \in Int :
           Moves(b, rows[1], rows[2], p, q, r, s) /\ Keeps(A, B, C, p, q, r, s)
<1>1. rows[1] \in Int \X Int /\ rows[2] \in Int \X Int
  BY DEF Spanning
<1>2. rows[1][1] * rows[2][2] - rows[1][2] * rows[2][1] = 1 \/ rows[1][1] * rows[2][2] - rows[1][2] * rows[2][1] = -1
  BY DEF Spanning, Det
<1> QED
  BY <1>1, <1>2, OperationIs DEF RowForm

LEMMA TurnIs ==
  ASSUME OfLayers, Spanning, NEW b \in layer.blocks, Det(b) = 1,
         NEW A \in Int, NEW B \in Int, NEW C \in Int, RowForm(A, B, C)
  PROVE  \E p, q, r, s \in Int :
           Images(b, rows[1], rows[2], p, q, r, s) /\ TurnOf(A, B, C, p, q, r, s) /\ p + s = Trace(b)
<1>3. PICK p \in Int, q \in Int, r \in Int, s \in Int :
        Moves(b, rows[1], rows[2], p, q, r, s) /\ Keeps(A, B, C, p, q, r, s)
  BY RowsMove, Zenon
<1>4. TurnOf(A, B, C, p, q, r, s)
  <2>1. p * s - q * r = 1
    BY <1>3 DEF Moves
  <2>2. TurnOf(A, B, C, p, q, r, s) \/ MirrorOf(p, q, r, s)
    BY <1>3, Relations, Zenon
  <2> QED
    BY <2>1, <2>2 DEF MirrorOf
<1>5. Images(b, rows[1], rows[2], p, q, r, s) /\ TurnOf(A, B, C, p, q, r, s) /\ p + s = Trace(b)
  BY <1>3, <1>4 DEF Moves
<1> QED
  BY <1>5

LEMMA RowProducts ==
  ASSUME OfLayers, Spanning
  PROVE  /\ Dot(rows[1], rows[1]) \in Int /\ Dot(rows[1], rows[2]) \in Int /\ Dot(rows[2], rows[2]) \in Int
         /\ Dot(rows[1], rows[1]) > 0 /\ Dot(rows[2], rows[2]) > 0
<1>1. rows[1] \in Int \X Int /\ rows[2] \in Int \X Int
  BY DEF Spanning
<1>2. rows[1][1] * rows[2][2] - rows[1][2] * rows[2][1] # 0 /\ rows[2][1] * rows[1][2] - rows[2][2] * rows[1][1] # 0
  <2>1. PICK x1 \in Int, x2 \in Int, y1 \in Int, y2 \in Int :
          x1 = rows[1][1] /\ x2 = rows[1][2] /\ y1 = rows[2][1] /\ y2 = rows[2][2]
    BY <1>1
  <2>2. x1 * y2 - x2 * y1 # 0
    BY <2>1 DEF Spanning, Det
  <2> QED
    BY ONLY <2>1, <2>2, x1 \in Int, x2 \in Int, y1 \in Int, y2 \in Int
<1> QED
  BY <1>1, <1>2, DotIs

\* A half turn keeps the points at halves of the reciprocal vectors.
LEMMA HalvesAreKept ==
  ASSUME OfLayers, Spanning, NEW point \in {<<6, 0>>, <<0, 6>>, <<6, 6>>}
  PROVE  {b \in {c \in layer.blocks : Det(c) = 1} : Trace(b) = -2} \subseteq Fixing(point)
<1> SUFFICES ASSUME NEW b \in layer.blocks, Det(b) = 1, Trace(b) = -2 PROVE b \in Fixing(point)
  OBVIOUS
<1>1. PICK A \in Int, B \in Int, C \in Int : RowForm(A, B, C)
  BY RowProducts DEF RowForm
<1>2. PICK p \in Int, q \in Int, r \in Int, s \in Int :
        Images(b, rows[1], rows[2], p, q, r, s) /\ TurnOf(A, B, C, p, q, r, s) /\ p + s = Trace(b)
  BY <1>1, TurnIs, Zenon
<1>2a. SmallTurn(p, q, r, s)
  BY <1>2, SmallTrace, Zenon
<1>3. p = -1 /\ s = -1 /\ q = 0 /\ r = 0
  BY <1>2, <1>2a DEF SmallTurn
<1>4. point \in Int \X Int /\ point[1] \in {0, 6} /\ point[2] \in {0, 6}
  OBVIOUS
<1>5. ((p - 1) * point[1] + r * point[2]) % 12 = 0 /\ (q * point[1] + (s - 1) * point[2]) % 12 = 0
  BY <1>3, <1>4
<1> QED
  BY <1>2, <1>4, <1>5, FixedBy DEF Whole

\* The basis is reduced.
ReducedRows ==
  /\ Dot(rows[1], rows[1]) <= Dot(rows[2], rows[2])
  /\ 2 * Dot(rows[1], rows[2]) <= Dot(rows[1], rows[1])
  /\ -(2 * Dot(rows[1], rows[2])) <= Dot(rows[1], rows[1])

\* Every operation of a square keeps its corner.
LEMMA CornerIsKept ==
  ASSUME OfLayers, Spanning, ReducedRows, NEW turn \in layer.blocks, Det(turn) = 1, Trace(turn) = 0
  PROVE  Fixing(<<6, 6>>) = layer.blocks
<1>1. PICK A \in Int, B \in Int, C \in Int : RowForm(A, B, C)
  BY RowProducts DEF RowForm
<1>2. A > 0 /\ ReducedForm(A, B, C)
  BY <1>1, RowProducts DEF ReducedRows, ReducedForm, RowForm
<1>3. B = 0 /\ A = C
  <2>1. PICK p \in Int, q \in Int, r \in Int, s \in Int :
          Images(turn, rows[1], rows[2], p, q, r, s) /\ TurnOf(A, B, C, p, q, r, s) /\ p + s = Trace(turn)
    BY <1>1, TurnIs, Zenon
  <2> QED
    <3>1. p + s = 0
      BY <2>1
    <3> QED
      BY <1>2, <2>1, <3>1, SquareShape, Zenon
<1>4. \A b \in layer.blocks : b \in Fixing(<<6, 6>>)
  <2> SUFFICES ASSUME NEW b \in layer.blocks PROVE b \in Fixing(<<6, 6>>)
    OBVIOUS
  <2>3. PICK p \in Int, q \in Int, r \in Int, s \in Int :
          Moves(b, rows[1], rows[2], p, q, r, s) /\ Keeps(A, B, C, p, q, r, s)
    BY <1>1, RowsMove, Zenon
  <2>4. A * (p * p + r * r) = A * 1 /\ A * (q * q + s * s) = A * 1
    <3>1. /\ p * (A * p + B * r) + r * (B * p + C * r) = A
          /\ q * (A * q + B * s) + s * (B * q + C * s) = C
      BY <2>3 DEF Keeps
    <3>2. p * (A * p + 0 * r) + r * (0 * p + A * r) = A /\ q * (A * q + 0 * s) + s * (0 * q + A * s) = A
      BY ONLY <1>3, <3>1
    <3> QED
      BY ONLY <3>2, A \in Int, p \in Int, q \in Int, r \in Int, s \in Int
  <2>5. p * p + r * r = 1 /\ q * q + s * s = 1
    <3>1. p * p + r * r \in Int /\ q * q + s * s \in Int /\ A # 0
      BY <1>2
    <3> QED
      BY ONLY <2>4, <3>1, Cancelled, A \in Int
  <2>6. \A m, n \in Int : m * m + n * n = 1 => m \in -1 .. 1 /\ n \in -1 .. 1 /\ (m = 0 <=> n # 0)
    <3> SUFFICES ASSUME NEW m \in Int, NEW n \in Int, m * m + n * n = 1
                 PROVE  m \in -1 .. 1 /\ n \in -1 .. 1 /\ (m = 0 <=> n # 0)
      OBVIOUS
    <3>1. m * m >= 0 /\ n * n >= 0
      OBVIOUS
    <3>2. m * m <= 1 /\ n * n <= 1
      BY <3>1
    <3>3. m \in -1 .. 1 /\ n \in -1 .. 1
      BY <3>2
    <3> QED
      BY <3>3
  <2>7. /\ p \in -1 .. 1 /\ r \in -1 .. 1 /\ (p = 0 <=> r # 0)
        /\ q \in -1 .. 1 /\ s \in -1 .. 1 /\ (q = 0 <=> s # 0)
    BY <2>5, <2>6
  <2>8. ((p - 1) * 6 + r * 6) % 12 = 0 /\ (q * 6 + (s - 1) * 6) % 12 = 0
    BY ONLY <2>7
  <2>9. Images(b, rows[1], rows[2], p, q, r, s)
    BY <2>3 DEF Moves
  <2> QED
    <3>1. Whole(<<6, 6>>, p, q, r, s) /\ <<6, 6>> \in Int \X Int
      BY <2>8 DEF Whole
    <3> QED
      BY <2>9, <3>1, FixedBy
<1> QED
  BY <1>4 DEF Fixing

\* A turn by a third of a hexagon at 120 degrees keeps the corner of its zone.
LEMMA KIsKept ==
  ASSUME OfLayers, Spanning, Dot(rows[1], rows[1]) = Dot(rows[2], rows[2]),
         2 * Dot(rows[1], rows[2]) = -Dot(rows[1], rows[1])
  PROVE  {b \in {c \in layer.blocks : Det(c) = 1} : Trace(b) = -1} \subseteq Fixing(<<4, 4>>)
<1> SUFFICES ASSUME NEW b \in layer.blocks, Det(b) = 1, Trace(b) = -1 PROVE b \in Fixing(<<4, 4>>)
  OBVIOUS
<1>1. PICK A \in Int, B \in Int, C \in Int : RowForm(A, B, C)
  BY RowProducts DEF RowForm
<1>2. A > 0 /\ A = C /\ 2 * B = -A
  BY <1>1, RowProducts DEF RowForm
<1>3. PICK p \in Int, q \in Int, r \in Int, s \in Int :
        Images(b, rows[1], rows[2], p, q, r, s) /\ TurnOf(A, B, C, p, q, r, s) /\ p + s = Trace(b)
  BY <1>1, TurnIs, Zenon
<1>4. A * (s - p) = 2 * (B * r) /\ A * q = -(C * r) /\ p + s = -1
  BY <1>3 DEF TurnOf
<1>5. A * (s - p) = A * (-r) /\ A * q = A * (-r)
  <2>1. 2 * (B * r) = (2 * B) * r /\ -(A * r) = A * (-r) /\ (-A) * r = A * (-r)
    OBVIOUS
  <2> QED
    BY <1>2, <1>4, <2>1
<1>6. s - p = -r /\ q = -r
  <2>1. s - p \in Int /\ -r \in Int /\ A # 0
    BY <1>2
  <2> QED
    BY ONLY <1>5, <2>1, Cancelled, A \in Int, q \in Int
<1>7. ((p - 1) * 4 + r * 4) % 12 = 0 /\ (q * 4 + (s - 1) * 4) % 12 = 0
  BY ONLY <1>4, <1>6, p \in Int, q \in Int, r \in Int, s \in Int
<1>8. Whole(<<4, 4>>, p, q, r, s) /\ <<4, 4>> \in Int \X Int
  BY <1>7 DEF Whole
<1> QED
  BY <1>3, <1>8, FixedBy

-----------------------------------------------------------------------------
(* Vectors along lines.                                                    *)

LEMMA Quotient ==
  ASSUME NEW d \in Nat \ {0}, NEW x \in Int
  PROVE  /\ x \div d \in Int /\ x % d \in Int /\ 0 <= x % d /\ x % d < d
         /\ x = d * (x \div d) + (x % d)
OBVIOUS

LEMMA MultipleIs ==
  ASSUME NEW d \in Nat \ {0}, NEW a \in Int
  PROVE  (d * a) % d = 0
<1>1. PICK x \in Int : x = d * a
  OBVIOUS
<1>2. PICK q \in Int, r \in Int : x = d * q + r /\ 0 <= r /\ r < d /\ r = x % d
  BY Quotient
<1>3. d * (a - q) = r
  BY <1>1, <1>2
<1>4. a - q = 0
  <2>1. PICK u \in Int : u = a - q
    OBVIOUS
  <2>2. d * u = r
    BY <1>3, <2>1
  <2>3. u >= 1 => d * u >= d
    OBVIOUS
  <2>4. u <= -1 => d * u <= -d
    OBVIOUS
  <2> QED
    BY <1>2, <2>1, <2>2, <2>3, <2>4
<1>5. a = q
  BY <1>4
<1>6. r = 0
  BY <1>3, <1>5
<1> QED
  BY <1>1, <1>2, <1>6

\* No number but one divides both.
Coprime(x, y) == \A e \in Nat : e > 1 => ~(x % e = 0 /\ y % e = 0)

LEMMA Bezout ==
  ASSUME NEW x \in Int, NEW y \in Int, Coprime(x, y)
  PROVE  \E i, j \in Int : i * x + j * y = 1
<1> DEFINE S == {n \in Nat \ {0} : \E i, j \in Int : n = i * x + j * y}
<1>1. x # 0 \/ y # 0
  <2>1. ~(x % 2 = 0 /\ y % 2 = 0)
    BY DEF Coprime
  <2> QED
    BY <2>1
<1>2. S \in SUBSET Nat /\ S # {}
  <2>1. PICK n \in Int : n = x * x + y * y
    OBVIOUS
  <2>2. n \in Nat \ {0}
    <3>1. x * x >= 0 /\ y * y >= 0 /\ (x # 0 => x * x > 0) /\ (y # 0 => y * y > 0)
      OBVIOUS
    <3> QED
      BY <1>1, <2>1, <3>1
  <2>3. n \in S
    BY <2>1, <2>2
  <2> QED
    BY <2>3
<1>3. PICK g \in S : \A n \in S : g <= n
  <2> HIDE DEF S
  <2> QED
    BY <1>2, LeastOf
<1>4. g \in Nat \ {0}
  OBVIOUS
<1>5. PICK i \in Int, j \in Int : g = i * x + j * y
  OBVIOUS
<1> DEFINE Combined(z) == \E m, n \in Int : z = m * x + n * y
<1>6. ASSUME NEW z \in Int, Combined(z) PROVE z % g = 0
  <2>0. PICK m \in Int, n \in Int : z = m * x + n * y
    BY <1>6
  <2>1. PICK q \in Int, r \in Int : z = g * q + r /\ 0 <= r /\ r < g /\ r = z % g
    BY <1>4, Quotient
  <2>2. PICK k \in Int, l \in Int : k = m - q * i /\ l = n - q * j
    OBVIOUS
  <2>3. r = k * x + l * y
    <3>1. (m * x + n * y) - (i * x + j * y) * q = k * x + l * y
      BY ONLY <2>2, x \in Int, y \in Int, m \in Int, n \in Int, q \in Int, i \in Int, j \in Int
    <3>2. r = z - g * q
      BY <1>4, <2>1
    <3> QED
      BY ONLY <1>5, <2>0, <3>1, <3>2
  <2>4. ASSUME r # 0 PROVE FALSE
    <3>1. r \in Nat \ {0}
      BY <2>1, <2>4
    <3>2. r \in S
      BY <2>3, <3>1
    <3>3. g <= r
      BY <1>3, <3>2
    <3> QED
      BY ONLY <1>4, <2>1, <3>3, r \in Int
  <2> QED
    BY <2>1, <2>4
<1>7. x % g = 0 /\ y % g = 0
  <2>1. x = 1 * x + 0 * y /\ y = 0 * x + 1 * y
    OBVIOUS
  <2>2. Combined(x) /\ Combined(y)
    BY <2>1
  <2> HIDE DEF Combined
  <2> QED
    BY <1>6, <2>2
<1>8. g = 1
  BY <1>4, <1>7 DEF Coprime
<1> QED
  BY <1>5, <1>8

Parallel(x, y, v, w) == x * w = y * v

IsMultiple(x, y, v, w) == \E k \in Int : v = k * x /\ w = k * y

\* A vector along a line is a multiple of the shortest one.
LEMMA Collinear ==
  ASSUME NEW x \in Int, NEW y \in Int, Coprime(x, y), NEW v \in Int, NEW w \in Int, Parallel(x, y, v, w)
  PROVE  IsMultiple(x, y, v, w)
<1>0. x * w = y * v
  BY DEF Parallel
<1>1. PICK i \in Int, j \in Int : i * x + j * y = 1
  BY Bezout
<1>2. PICK k \in Int : k = i * v + j * w
  OBVIOUS
<1>3. k * x = v
  <2>1. (i * v + j * w) * x = (i * x + j * y) * v + j * (x * w - y * v)
    OBVIOUS
  <2> QED
    BY <1>0, <1>1, <1>2, <2>1
<1>4. k * y = w
  <2>1. (i * v + j * w) * y = (i * x + j * y) * w - i * (x * w - y * v)
    OBVIOUS
  <2> QED
    BY <1>0, <1>1, <1>2, <2>1
<1> QED
  BY <1>3, <1>4 DEF IsMultiple

\* g is the greatest common divisor of two numbers of at most n.
Greatest(g, v, w, n) ==
  /\ g \in 1 .. n /\ v % g = 0 /\ w % g = 0
  /\ \A e \in g + 1 .. n : ~(v % e = 0 /\ w % e = 0)
  /\ (v # 0 \/ w # 0) /\ v <= n /\ -v <= n /\ w <= n /\ -w <= n

\* Dividing by it leaves no common divisor.
LowestTerms(g, v, w) ==
  /\ v \div g \in Int /\ w \div g \in Int /\ Coprime(v \div g, w \div g)
  /\ v = g * (v \div g) /\ w = g * (w \div g)

LEMMA Shortest ==
  ASSUME NEW v \in Int, NEW w \in Int, NEW n \in Nat, NEW g, Greatest(g, v, w, n)
  PROVE  LowestTerms(g, v, w)
<1>0. /\ g \in 1 .. n /\ v % g = 0 /\ w % g = 0
      /\ \A e \in g + 1 .. n : ~(v % e = 0 /\ w % e = 0)
      /\ (v # 0 \/ w # 0) /\ v <= n /\ -v <= n /\ w <= n /\ -w <= n
  BY DEF Greatest
<1>1. g \in Nat \ {0}
  BY <1>0
<1>2. PICK x \in Int, y \in Int : x = v \div g /\ y = w \div g /\ v = g * x /\ w = g * y
  <2>1. v = g * (v \div g) + 0 /\ w = g * (w \div g) + 0 /\ v \div g \in Int /\ w \div g \in Int
    BY <1>0, <1>1, Quotient
  <2> QED
    BY <1>1, <2>1
<1>3. Coprime(x, y)
  <2> SUFFICES ASSUME NEW e \in Nat, e > 1, x % e = 0, y % e = 0 PROVE FALSE
    BY DEF Coprime
  <2>1. e \in Nat \ {0}
    OBVIOUS
  <2>2. PICK i \in Int, j \in Int : x = e * i /\ y = e * j
    <3>1. x = e * (x \div e) + (x % e) /\ y = e * (y \div e) + (y % e) /\ x \div e \in Int /\ y \div e \in Int
      BY <2>1, Quotient
    <3>2. x = e * (x \div e) /\ y = e * (y \div e)
      BY <2>1, <3>1
    <3> QED
      BY <3>1, <3>2
  <2>3. PICK d \in Int : d = g * e
    BY <1>1
  <2>4. d > g /\ d \in Nat \ {0}
    <3>1. g * e >= g * 2
      BY <1>1
    <3> QED
      BY <1>1, <2>3, <3>1
  <2>5. v = d * i /\ w = d * j
    <3>1. v = g * (e * i) /\ w = g * (e * j)
      BY ONLY <1>2, <2>2
    <3> QED
      BY ONLY <2>3, <3>1, <1>1, e \in Nat, i \in Int, j \in Int
  <2>6. v % d = 0 /\ w % d = 0
    BY <2>4, <2>5, MultipleIs
  <2>7. \A k \in Int : (k >= 1 => d * k >= d) /\ (k <= -1 => d * k <= -d)
    BY <2>4
  <2>8. i # 0 \/ j # 0
    BY <1>0, <2>4, <2>5
  <2>9. d <= n
    BY <1>0, <2>4, <2>5, <2>7, <2>8
  <2>10. d \in g + 1 .. n
    BY <1>0, <2>4, <2>9
  <2> QED
    BY <1>0, <2>6, <2>10
<1> QED
  BY <1>2, <1>3 DEF LowestTerms

\* The greatest number up to n that divides both.
LEMMA GreatestDivisor ==
  ASSUME NEW v \in Int, NEW w \in Int, NEW n \in Nat, n >= 1
  PROVE  \E g \in 1 .. n : (v % g = 0 /\ w % g = 0) /\ \A e \in g + 1 .. n : ~(v % e = 0 /\ w % e = 0)
<1> DEFINE S == {d \in 1 .. n : v % d = 0 /\ w % d = 0}
<1>1. S \in SUBSET Nat /\ 1 \in S /\ \A x \in S : x <= n
  <2>1. v % 1 = 0 /\ w % 1 = 0
    OBVIOUS
  <2> QED
    BY <2>1
<1>2. PICK g \in S : \A y \in S : g >= y
  <2> HIDE DEF S
  <2> QED
    BY <1>1, MaxIs
<1>3. \A e \in g + 1 .. n : ~(v % e = 0 /\ w % e = 0)
  <2> SUFFICES ASSUME NEW e \in g + 1 .. n, v % e = 0, w % e = 0 PROVE FALSE
    OBVIOUS
  <2>1. e \in S
    OBVIOUS
  <2> QED
    BY <1>2, <2>1
<1> QED
  BY <1>2, <1>3

\* A reflection of the lattice.
Reflection(m) ==
  /\ m \in (Int \X Int) \X (Int \X Int)
  /\ m[2][2] = -m[1][1] /\ m[1][1] * m[1][1] + m[1][2] * m[2][1] = 1

\* It maps a vector to itself or to its opposite.
Along2(m, sign, x, y) ==
  m[1][1] * x + m[1][2] * y = sign * x /\ m[2][1] * x + m[2][2] * y = sign * y

LEMMA LineVectorIs ==
  ASSUME NEW m, Reflection(m), NEW sign \in {1, -1}
  PROVE  \E x, y \in Int : LineVector(m, sign) = <<x, y>> /\ Coprime(x, y) /\ Along2(m, sign, x, y)
<1>1. PICK p \in Int, q \in Int, r \in Int :
        p = m[1][1] /\ q = m[1][2] /\ r = m[2][1] /\ m[2][2] = -p /\ p * p + q * r = 1
  BY DEF Reflection
<1>a. sign \in Int /\ sign * sign = 1
  OBVIOUS
<1> DEFINE Image(unit) ==
             Plus(unit, Times(sign, <<m[1][1] * unit[1] + m[1][2] * unit[2],
                                      m[2][1] * unit[1] + m[2][2] * unit[2]>>))
           vector == IF Image(<<1, 0>>) # <<0, 0>> THEN Image(<<1, 0>>) ELSE Image(<<0, 1>>)
           n == Abs(vector[1]) + Abs(vector[2])
           Divides(d) == vector[1] % d = 0 /\ vector[2] % d = 0
           gcd == CHOOSE d \in 1 .. n : Divides(d) /\ \A e \in d + 1 .. n : ~Divides(e)
<1>2. Image(<<1, 0>>) = <<1 + sign * p, sign * r>> /\ Image(<<0, 1>>) = <<sign * q, 1 - sign * p>>
  <2>1. Image(<<1, 0>>) = Plus(<<1, 0>>, Times(sign, <<p * 1 + q * 0, r * 1 + (-p) * 0>>))
    BY <1>1
  <2>2. Image(<<0, 1>>) = Plus(<<0, 1>>, Times(sign, <<p * 0 + q * 1, r * 0 + (-p) * 1>>))
    BY <1>1
  <2>3. p * 1 + q * 0 = p /\ r * 1 + (-p) * 0 = r /\ p * 0 + q * 1 = q /\ r * 0 + (-p) * 1 = -p
    OBVIOUS
  <2>4. 0 + sign * r = sign * r /\ 0 + sign * q = sign * q /\ 1 + sign * (-p) = 1 - sign * p
    BY <1>a
  <2> HIDE DEF Image
  <2> QED
    BY ONLY <2>1, <2>2, <2>3, <2>4 DEF Plus, Times
<1>3. PICK v \in Int, w \in Int :
        vector = <<v, w>> /\ (v # 0 \/ w # 0) /\ p * v + q * w = sign * v /\ r * v - p * w = sign * w
  <2>1. CASE Image(<<1, 0>>) # <<0, 0>>
    <3>1. vector = <<1 + sign * p, sign * r>>
      BY <1>2, <2>1
    <3>2. 1 + sign * p # 0 \/ sign * r # 0
      BY <1>2, <2>1
    <3>3. p * (1 + sign * p) + q * (sign * r) = sign * (1 + sign * p)
      <4>1. p * (1 + sign * p) + q * (sign * r) = p + sign * (p * p + q * r)
        BY <1>a
      <4>2. sign * (1 + sign * p) = sign + (sign * sign) * p
        BY <1>a
      <4> QED
        BY ONLY <1>1, <1>a, <4>1, <4>2, p \in Int, q \in Int, r \in Int
    <3>4. r * (1 + sign * p) - p * (sign * r) = sign * (sign * r)
      <4>1. r * (1 + sign * p) - p * (sign * r) = r
        BY <1>a
      <4>2. sign * (sign * r) = (sign * sign) * r
        BY <1>a
      <4> QED
        BY ONLY <1>1, <1>a, <4>1, <4>2, p \in Int, q \in Int, r \in Int
    <3>5. PICK v \in Int, w \in Int : v = 1 + sign * p /\ w = sign * r
      OBVIOUS
    <3> QED
      BY ONLY <3>1, <3>2, <3>3, <3>4, <3>5, v \in Int, w \in Int
  <2>2. CASE Image(<<1, 0>>) = <<0, 0>>
    <3>1. vector = <<sign * q, 1 - sign * p>>
      BY <1>2, <2>2
    <3>2. 1 + sign * p = 0 /\ sign * r = 0
      BY <1>2, <2>2
    <3>3. 1 - sign * p # 0
      BY <3>2
    <3>4. p * (sign * q) + q * (1 - sign * p) = sign * (sign * q)
      <4>1. p * (sign * q) + q * (1 - sign * p) = q
        BY <1>a
      <4>2. sign * (sign * q) = (sign * sign) * q
        BY <1>a
      <4> QED
        BY ONLY <1>1, <1>a, <4>1, <4>2, p \in Int, q \in Int, r \in Int
    <3>5. r * (sign * q) - p * (1 - sign * p) = sign * (1 - sign * p)
      <4>1. r * (sign * q) - p * (1 - sign * p) = sign * (p * p + q * r) - p
        BY <1>a
      <4>2. sign * (1 - sign * p) = sign - (sign * sign) * p
        BY <1>a
      <4> QED
        BY ONLY <1>1, <1>a, <4>1, <4>2, p \in Int, q \in Int, r \in Int
    <3>6. PICK v \in Int, w \in Int : v = sign * q /\ w = 1 - sign * p
      OBVIOUS
    <3> QED
      BY ONLY <3>1, <3>3, <3>4, <3>5, <3>6, v \in Int, w \in Int
  <2> QED
    BY <2>1, <2>2
<1> HIDE DEF Image
<1>4. LineVector(m, sign) = <<vector[1] \div gcd, vector[2] \div gcd>>
  BY DEF LineVector, Image
<1> HIDE DEF vector
<1>5. n \in Nat /\ n >= 1 /\ v <= n /\ -v <= n /\ w <= n /\ -w <= n
  BY <1>3 DEF Abs
<1> HIDE DEF n
<1>6. gcd \in 1 .. n /\ (v % gcd = 0 /\ w % gcd = 0) /\ \A e \in gcd + 1 .. n : ~(v % e = 0 /\ w % e = 0)
  <2>1. \A d : Divides(d) <=> v % d = 0 /\ w % d = 0
    BY <1>3
  <2>2. \E d \in 1 .. n : (v % d = 0 /\ w % d = 0) /\ \A e \in d + 1 .. n : ~(v % e = 0 /\ w % e = 0)
    BY <1>5, GreatestDivisor
  <2> HIDE DEF Divides
  <2>3. \E d \in 1 .. n : Divides(d) /\ \A e \in d + 1 .. n : ~Divides(e)
    BY <2>1, <2>2
  <2>4. gcd \in 1 .. n /\ Divides(gcd) /\ \A e \in gcd + 1 .. n : ~Divides(e)
    BY <2>3
  <2> HIDE DEF gcd
  <2> QED
    BY <2>1, <2>4
<1> HIDE DEF gcd
<1>7. PICK x \in Int, y \in Int, g \in Int :
        x = v \div gcd /\ y = w \div gcd /\ g = gcd /\ Coprime(x, y) /\ v = g * x /\ w = g * y
  <2>1. PICK g \in 1 .. n : g = gcd
    BY <1>6
  <2>2. Greatest(g, v, w, n)
    BY <1>3, <1>5, <1>6, <2>1 DEF Greatest
  <2>3. LowestTerms(g, v, w)
    BY <1>5, <2>2, Shortest, Zenon
  <2>4. g \in Int
    BY <1>5
  <2> QED
    BY ONLY <2>1, <2>3, <2>4 DEF LowestTerms
<1>8. g # 0
  BY <1>5, <1>6, <1>7
<1>9. p * x + q * y = sign * x
  <2>1. g * (p * x + q * y) = p * (g * x) + q * (g * y)
    OBVIOUS
  <2>2. sign * (g * x) = g * (sign * x)
    OBVIOUS
  <2>3. g * (p * x + q * y) = g * (sign * x)
    BY ONLY <1>3, <1>7, <2>1, <2>2
  <2>4. p * x + q * y \in Int /\ sign * x \in Int
    OBVIOUS
  <2> QED
    BY ONLY <1>8, <2>3, <2>4, g \in Int, Cancelled
<1>10. r * x - p * y = sign * y
  <2>1. g * (r * x - p * y) = r * (g * x) - p * (g * y)
    OBVIOUS
  <2>2. sign * (g * y) = g * (sign * y)
    OBVIOUS
  <2>3. g * (r * x - p * y) = g * (sign * y)
    BY ONLY <1>3, <1>7, <2>1, <2>2
  <2>4. r * x - p * y \in Int /\ sign * y \in Int
    OBVIOUS
  <2> QED
    BY ONLY <1>8, <2>3, <2>4, g \in Int, Cancelled
<1>11. Along2(m, sign, x, y)
  <2>1. (-p) * y = -(p * y)
    OBVIOUS
  <2> QED
    BY <1>1, <1>9, <1>10, <2>1 DEF Along2
<1>12. LineVector(m, sign) = <<x, y>>
  BY <1>3, <1>4, <1>7
<1> QED
  BY <1>7, <1>11, <1>12

-----------------------------------------------------------------------------
(* The mirrors of a rectangular layer.                                     *)

\* An operation is a turn or a reflection.
LEMMA OwnOperation ==
  ASSUME OfLayers, NEW b \in layer.blocks
  PROVE  \/ /\ Det(b) = 1
            /\ TurnOf(layer.gram[1][1], layer.gram[1][2], layer.gram[2][2],
                      b[1][1], b[1][2], b[2][1], b[2][2])
         \/ Det(b) = -1 /\ Reflection(b)
<1> DEFINE x == <<1, 0>>
           y == <<0, 1>>
<1>1. x \in Int \X Int /\ y \in Int \X Int /\ x[1] * y[2] - x[2] * y[1] = 1
  OBVIOUS
<1>2. PICK b11 \in Int, b12 \in Int, b21 \in Int, b22 \in Int :
        b11 = b[1][1] /\ b12 = b[1][2] /\ b21 = b[2][1] /\ b22 = b[2][2]
  BY LayerIs
<1>3. PICK A \in Int, B \in Int, C \in Int :
        A = layer.gram[1][1] /\ B = layer.gram[1][2] /\ B = layer.gram[2][1] /\ C = layer.gram[2][2]
  BY LayerIs
<1>4. A = Dot(x, x) /\ B = Dot(x, y) /\ C = Dot(y, y)
  <2>1. /\ Dot(x, x) = 1 * (A * 1 + B * 0) + 0 * (B * 1 + C * 0)
        /\ Dot(x, y) = 1 * (A * 0 + B * 1) + 0 * (B * 0 + C * 1)
        /\ Dot(y, y) = 0 * (A * 0 + B * 1) + 1 * (B * 0 + C * 1)
    BY ONLY <1>3 DEF Dot
  <2> QED
    BY <2>1
<1> HIDE DEF x, y
<1>5. PICK p \in Int, q \in Int, r \in Int, s \in Int : Moves(b, x, y, p, q, r, s) /\ Keeps(A, B, C, p, q, r, s)
  BY <1>1, <1>4, OperationIs
<1>6. p = b11 /\ q = b12 /\ r = b21 /\ s = b22
  <2>1. /\ b11 * 1 + b12 * 0 = p * 1 + r * 0 /\ b21 * 1 + b22 * 0 = p * 0 + r * 1
        /\ b11 * 0 + b12 * 1 = q * 1 + s * 0 /\ b21 * 0 + b22 * 1 = q * 0 + s * 1
    BY ONLY <1>2, <1>5 DEF Moves, Images, x, y
  <2> QED
    BY <2>1
<1>7. TurnOf(A, B, C, p, q, r, s) \/ MirrorOf(p, q, r, s)
  BY <1>5, Relations, Zenon
<1>8. Det(b) = p * s - q * r
  BY <1>5 DEF Moves
<1>9. CASE TurnOf(A, B, C, p, q, r, s)
  <2>1. Det(b) = 1
    BY <1>8, <1>9 DEF TurnOf
  <2> QED
    BY <1>2, <1>3, <1>6, <1>9, <2>1
<1>10. CASE MirrorOf(p, q, r, s)
  <2>1. Det(b) = -1
    BY <1>8, <1>10 DEF MirrorOf
  <2>2. Reflection(b)
    <3>1. b22 = -b11 /\ b11 * b22 - b12 * b21 = -1
      BY <1>6, <1>10 DEF MirrorOf
    <3>2. b11 * b11 + b12 * b21 = 1
      BY <3>1
    <3>3. b \in (Int \X Int) \X (Int \X Int)
      BY LayerIs
    <3> QED
      BY <1>2, <3>1, <3>2, <3>3 DEF Reflection
  <2> QED
    BY <2>1, <2>2
<1> QED
  BY <1>7, <1>9, <1>10

\* The turns of a rectangular layer are the identity and the half turn.
LEMMA HalfTurnsOnly ==
  ASSUME OfLayers, Bravais = "rectangular", NEW b \in layer.blocks, Det(b) = 1
  PROVE  b[1][2] = 0 /\ b[2][1] = 0 /\ b[1][1] = b[2][2] /\ (b[1][1] = 1 \/ b[1][1] = -1)
<1>1. PICK p \in Int, q \in Int, r \in Int, s \in Int :
        p = b[1][1] /\ q = b[1][2] /\ r = b[2][1] /\ s = b[2][2]
  BY LayerIs
<1>2. PICK A \in Int, B \in Int, C \in Int :
        A = layer.gram[1][1] /\ B = layer.gram[1][2] /\ C = layer.gram[2][2]
  BY LayerIs
<1>3. TurnOf(A, B, C, p, q, r, s)
  <2>1. TurnOf(layer.gram[1][1], layer.gram[1][2], layer.gram[2][2], b[1][1], b[1][2], b[2][1], b[2][2])
    BY OwnOperation
  <2> QED
    BY ONLY <1>1, <1>2, <2>1
<1>4. SmallTurn(p, q, r, s)
  BY <1>3, SmallTrace, Zenon
<1>5. Trace(b) = p + s
  BY <1>1 DEF Trace
<1>6. Trace(b) \notin -1 .. 1
  <2> DEFINE kinds == {<<Det(c), Trace(c)>> : c \in layer.blocks}
  <2>1. <<1, Trace(b)>> \in kinds
    OBVIOUS
  <2> HIDE DEF kinds
  <2>2. kinds \cap {<<1, 1>>, <<1, -1>>} = {} /\ <<1, 0>> \notin kinds
    BY DEF Bravais, kinds
  <2> QED
    BY <2>1, <2>2
<1> QED
  BY <1>1, <1>4, <1>5, <1>6 DEF SmallTurn

\* The reflections of a rectangular layer are one of them and its opposite.
LEMMA OneMirror ==
  ASSUME OfLayers, Bravais = "rectangular", NEW m \in layer.blocks, Det(m) = -1,
         NEW b \in layer.blocks, Det(b) = -1
  PROVE  \E e \in {1, -1} : /\ b[1][1] = e * m[1][1] /\ b[1][2] = e * m[1][2]
                            /\ b[2][1] = e * m[2][1] /\ b[2][2] = e * m[2][2]
<1>1. Reflection(m) /\ Reflection(b)
  BY OwnOperation
<1>2. PICK p \in Int, q \in Int, r \in Int :
        p = m[1][1] /\ q = m[1][2] /\ r = m[2][1] /\ m[2][2] = -p /\ p * p + q * r = 1
  BY <1>1 DEF Reflection
<1>3. PICK i \in Int, j \in Int, k \in Int :
        i = b[1][1] /\ j = b[1][2] /\ k = b[2][1] /\ b[2][2] = -i /\ i * i + j * k = 1
  BY <1>1 DEF Reflection
<1> DEFINE c == << <<b[1][1] * m[1][1] + b[1][2] * m[2][1], b[1][1] * m[1][2] + b[1][2] * m[2][2]>>,
                   <<b[2][1] * m[1][1] + b[2][2] * m[2][1], b[2][1] * m[1][2] + b[2][2] * m[2][2]>> >>
<1>4. c \in layer.blocks
  BY BlockProducts
<1>5. PICK c11 \in Int, c12 \in Int, c21 \in Int, c22 \in Int :
        c11 = i * p + j * r /\ c12 = i * q - j * p /\ c21 = k * p - i * r /\ c22 = k * q + i * p
  OBVIOUS
<1>6. c[1][1] = c11 /\ c[1][2] = c12 /\ c[2][1] = c21 /\ c[2][2] = c22
  <2>1. c = << <<i * p + j * r, i * q + j * (-p)>>, <<k * p + (-i) * r, k * q + (-i) * (-p)>> >>
    BY <1>2, <1>3
  <2>2. i * q + j * (-p) = c12 /\ k * p + (-i) * r = c21 /\ k * q + (-i) * (-p) = c22
    BY <1>5
  <2> HIDE DEF c
  <2> QED
    BY ONLY <1>5, <2>1, <2>2
<1> HIDE DEF c
<1>7. Det(c) = 1
  <2>1. (i * p + j * r) * (k * q + i * p) - (i * q - j * p) * (k * p - i * r) = (i * i + j * k) * (p * p + q * r)
    OBVIOUS
  <2>2. Det(c) = c11 * c22 - c12 * c21
    BY <1>6 DEF Det
  <2> QED
    BY ONLY <1>2, <1>3, <1>5, <2>1, <2>2
<1>8. c12 = 0 /\ c21 = 0 /\ c11 = c22 /\ (c11 = 1 \/ c11 = -1)
  BY <1>4, <1>6, <1>7, HalfTurnsOnly
<1>9. i = c11 * p /\ j = c11 * q /\ k = c11 * r
  <2>1. p * p + q * r = 1
    BY <1>2
  <2>2. i * p + j * r = c11 /\ i * q - j * p = 0 /\ k * p - i * r = 0 /\ k * q + i * p = c11
    BY ONLY <1>5, <1>8
  <2>3. i * (p * p + q * r) = (i * p + j * r) * p + (i * q - j * p) * r
    OBVIOUS
  <2>4. j * (p * p + q * r) = (i * p + j * r) * q - (i * q - j * p) * p
    OBVIOUS
  <2>5. k * (p * p + q * r) = (k * p - i * r) * p + (k * q + i * p) * r
    OBVIOUS
  <2>6. i * 1 = c11 * p + 0 * r /\ j * 1 = c11 * q - 0 * p /\ k * 1 = 0 * p + c11 * r
    BY ONLY <2>1, <2>2, <2>3, <2>4, <2>5
  <2> QED
    BY ONLY <2>6, i \in Int, j \in Int, k \in Int, p \in Int, q \in Int, r \in Int, c11 \in Int
<1>10. -i = c11 * (-p)
  BY <1>8, <1>9
<1>11. c11 \in {1, -1} /\ b[1][1] = c11 * m[1][1] /\ b[1][2] = c11 * m[1][2]
       /\ b[2][1] = c11 * m[2][1] /\ b[2][2] = c11 * m[2][2]
  BY ONLY <1>2, <1>3, <1>8, <1>9, <1>10
<1> QED
  BY <1>11

\* a1, a2 along a mirror and c1, c2 across it, neither longer than it must be.
Lines(m, a1, a2, c1, c2) ==
  /\ Coprime(a1, a2) /\ Along2(m, 1, a1, a2)
  /\ Coprime(c1, c2) /\ Along2(m, -1, c1, c2)

\* They span the lattice or every other vector of it.
Spanned(a1, a2, c1, c2) ==
  \/ a1 * c2 - a2 * c1 = 1 \/ a1 * c2 - a2 * c1 = -1
  \/ /\ a1 * c2 - a2 * c1 = 2 \/ a1 * c2 - a2 * c1 = -2
     /\ (a1 + c1) % 2 = 0 /\ (a2 + c2) % 2 = 0

\* Coprime coordinates are not both even.
LEMMA NotBothEven ==
  ASSUME NEW x \in Int, NEW y \in Int, Coprime(x, y)
  PROVE  ~(x % 2 = 0 /\ y % 2 = 0)
BY DEF Coprime

\* Vectors with an even determinant, neither of them even, have an even sum.
LEMMA EvenSum ==
  ASSUME NEW a1 \in Int, NEW a2 \in Int, NEW c1 \in Int, NEW c2 \in Int, NEW D \in Int,
         Coprime(a1, a2), Coprime(c1, c2), D = a1 * c2 - a2 * c1, D % 2 = 0
  PROVE  (a1 + c1) % 2 = 0 /\ (a2 + c2) % 2 = 0
<1>1. \A x \in Int : \E k \in Int, i \in {0, 1} : x = 2 * k + i
  <2> SUFFICES ASSUME NEW x \in Int PROVE \E k \in Int, i \in {0, 1} : x = 2 * k + i
    OBVIOUS
  <2>1. x = 2 * (x \div 2) + (x % 2) /\ x \div 2 \in Int /\ x % 2 \in {0, 1}
    OBVIOUS
  <2> QED
    BY <2>1
<1>2. PICK k1 \in Int, i1 \in {0, 1} : a1 = 2 * k1 + i1
  BY <1>1
<1>3. PICK k2 \in Int, i2 \in {0, 1} : a2 = 2 * k2 + i2
  BY <1>1
<1>4. PICK l1 \in Int, j1 \in {0, 1} : c1 = 2 * l1 + j1
  BY <1>1
<1>5. PICK l2 \in Int, j2 \in {0, 1} : c2 = 2 * l2 + j2
  BY <1>1
<1>6. i1 = 1 \/ i2 = 1
  BY <1>2, <1>3, NotBothEven
<1>7. j1 = 1 \/ j2 = 1
  BY <1>4, <1>5, NotBothEven
<1>8. PICK n \in Int : n = 2 * (k1 * l2) + k1 * j2 + i1 * l2 - 2 * (k2 * l1) - k2 * j1 - i2 * l1
  OBVIOUS
<1>9. D = 2 * n + (i1 * j2 - i2 * j1)
  <2>1. (2 * k1 + i1) * (2 * l2 + j2) - (2 * k2 + i2) * (2 * l1 + j1)
        = 2 * (2 * (k1 * l2) + k1 * j2 + i1 * l2 - 2 * (k2 * l1) - k2 * j1 - i2 * l1) + (i1 * j2 - i2 * j1)
    OBVIOUS
  <2> QED
    BY ONLY <1>2, <1>3, <1>4, <1>5, <1>8, <2>1, D = a1 * c2 - a2 * c1
<1>10. i1 * j2 - i2 * j1 = 0
  <2>1. i1 * j2 - i2 * j1 \in {-1, 0, 1}
    OBVIOUS
  <2>2. PICK z \in {-1, 0, 1} : z = i1 * j2 - i2 * j1
    BY <2>1
  <2>3. D = 2 * n + z
    BY <1>9, <2>2
  <2>4. z = 0
    BY <2>3
  <2> QED
    BY <2>2, <2>4
<1>11. i1 = j1 /\ i2 = j2
  BY ONLY <1>6, <1>7, <1>10, i1 \in {0, 1}, i2 \in {0, 1}, j1 \in {0, 1}, j2 \in {0, 1}
<1> QED
  BY <1>2, <1>3, <1>4, <1>5, <1>11

\* The shortest vectors along and across a mirror.
LEMMA TwoLines ==
  ASSUME NEW m, Reflection(m), NEW a1 \in Int, NEW a2 \in Int, NEW c1 \in Int, NEW c2 \in Int,
         Lines(m, a1, a2, c1, c2)
  PROVE  Spanned(a1, a2, c1, c2)
<1>1. PICK p \in Int, q \in Int, r \in Int :
        p = m[1][1] /\ q = m[1][2] /\ r = m[2][1] /\ m[2][2] = -p /\ p * p + q * r = 1
  BY DEF Reflection
<1>2. p * a1 + q * a2 = a1 /\ r * a1 - p * a2 = a2 /\ p * c1 + q * c2 = -c1 /\ r * c1 - p * c2 = -c2
  <2>1. /\ p * a1 + q * a2 = 1 * a1 /\ r * a1 + (-p) * a2 = 1 * a2
        /\ p * c1 + q * c2 = (-1) * c1 /\ r * c1 + (-p) * c2 = (-1) * c2
    BY <1>1 DEF Lines, Along2
  <2> QED
    BY <2>1
<1>3. Coprime(a1, a2) /\ Coprime(c1, c2)
  BY DEF Lines
<1> DEFINE Kept(v, w) == p * v + q * w = v /\ r * v - p * w = w
           Opposed(v, w) == p * v + q * w = -v /\ r * v - p * w = -w
<1>4. ASSUME NEW v \in Int, NEW w \in Int, Kept(v, w) PROVE IsMultiple(a1, a2, v, w)
  <2>1. PICK d \in Int : d = a1 * w - a2 * v
    OBVIOUS
  <2>2. (p * a1 + q * a2) * (r * v - p * w) - (r * a1 - p * a2) * (p * v + q * w)
        = -((p * p + q * r) * (a1 * w - a2 * v))
    OBVIOUS
  <2>3. d = -(1 * d)
    BY ONLY <1>1, <1>2, <1>4, <2>1, <2>2
  <2>4. Parallel(a1, a2, v, w)
    BY <2>1, <2>3 DEF Parallel
  <2> QED
    BY <1>3, <2>4, Collinear, Zenon
<1>5. ASSUME NEW v \in Int, NEW w \in Int, Opposed(v, w) PROVE IsMultiple(c1, c2, v, w)
  <2>1. PICK d \in Int : d = c1 * w - c2 * v
    OBVIOUS
  <2>2. (p * c1 + q * c2) * (r * v - p * w) - (r * c1 - p * c2) * (p * v + q * w)
        = -((p * p + q * r) * (c1 * w - c2 * v))
    OBVIOUS
  <2>3. (-c1) * (-w) - (-c2) * (-v) = c1 * w - c2 * v
    OBVIOUS
  <2>4. d = -(1 * d)
    BY ONLY <1>1, <1>2, <1>5, <2>1, <2>2, <2>3
  <2>5. Parallel(c1, c2, v, w)
    BY <2>1, <2>4 DEF Parallel
  <2> QED
    BY <1>3, <2>5, Collinear, Zenon
<1>a. Kept(1 + p, r) /\ Kept(q, 1 - p)
  <2>1. p * (1 + p) + q * r = p + (p * p + q * r) /\ r * (1 + p) - p * r = r
    OBVIOUS
  <2>2. p * q + q * (1 - p) = q /\ r * q - p * (1 - p) = (p * p + q * r) - p
    OBVIOUS
  <2>3. p + 1 = 1 + p
    OBVIOUS
  <2> QED
    BY ONLY <1>1, <2>1, <2>2, <2>3
<1>b. Opposed(1 - p, -r) /\ Opposed(-q, 1 + p)
  <2>1. p * (1 - p) + q * (-r) = p - (p * p + q * r)
    OBVIOUS
  <2>2. r * (1 - p) - p * (-r) = -(-r)
    OBVIOUS
  <2>3. p * (-q) + q * (1 + p) = -(-q)
    OBVIOUS
  <2>4. r * (-q) - p * (1 + p) = -(p * p + q * r) - p
    OBVIOUS
  <2>5. p - 1 = -(1 - p) /\ -1 - p = -(1 + p)
    OBVIOUS
  <2> QED
    BY ONLY <1>1, <2>1, <2>2, <2>3, <2>4, <2>5
<1>c. 1 + p \in Int /\ 1 - p \in Int /\ -r \in Int /\ -q \in Int
  OBVIOUS
<1> HIDE DEF Kept, Opposed
<1>6. PICK k1 \in Int : 1 + p = k1 * a1 /\ r = k1 * a2
  BY <1>4, <1>a, <1>c DEF IsMultiple
<1>7. PICK k2 \in Int : q = k2 * a1 /\ 1 - p = k2 * a2
  BY <1>4, <1>a, <1>c DEF IsMultiple
<1>8. PICK n1 \in Int : 1 - p = n1 * c1 /\ -r = n1 * c2
  BY <1>5, <1>b, <1>c DEF IsMultiple
<1>9. PICK n2 \in Int : -q = n2 * c1 /\ 1 + p = n2 * c2
  BY <1>5, <1>b, <1>c DEF IsMultiple
<1>10. PICK D \in Int, K \in Int : D = a1 * c2 - a2 * c1 /\ K = k1 * n2 - k2 * n1
  OBVIOUS
<1>11. K * D = 4
  <2>1. (k1 * n2 - k2 * n1) * (a1 * c2 - a2 * c1)
        = (k1 * a1 + n1 * c1) * (k2 * a2 + n2 * c2) - (k1 * a2 + n1 * c2) * (k2 * a1 + n2 * c1)
    OBVIOUS
  <2>2. k1 * a1 + n1 * c1 = 2 /\ k1 * a2 + n1 * c2 = 0 /\ k2 * a1 + n2 * c1 = 0 /\ k2 * a2 + n2 * c2 = 2
    BY ONLY <1>6, <1>7, <1>8, <1>9, p \in Int, q \in Int, r \in Int
  <2> QED
    BY ONLY <1>10, <2>1, <2>2
<1>12. D \in {1, -1, 2, -2, 4, -4} /\ (D = 4 => K = 1) /\ (D = -4 => K = -1)
  <2>1. D # 0 /\ K # 0
    BY <1>11
  <2>2. ASSUME D >= 5 PROVE FALSE
    <3>1. K >= 1 => K * D >= 5
      BY <2>2
    <3>2. K <= -1 => K * D <= -5
      BY <2>2
    <3> QED
      BY <1>11, <2>1, <3>1, <3>2
  <2>3. ASSUME D <= -5 PROVE FALSE
    <3>1. K >= 1 => K * D <= -5
      BY <2>3
    <3>2. K <= -1 => K * D >= 5
      BY <2>3
    <3> QED
      BY <1>11, <2>1, <3>1, <3>2
  <2>4. D \in -4 .. 4
    BY <2>2, <2>3
  <2>5. D # 3 /\ D # -3
    <3>1. D = 3 => 3 * K = 4
      BY <1>11
    <3>2. D = -3 => 3 * K = -4
      BY <1>11
    <3> QED
      BY <3>1, <3>2
  <2>6. (D = 4 => 4 * K = 4) /\ (D = -4 => 4 * K = -4)
    BY <1>11
  <2> QED
    BY <2>1, <2>4, <2>5, <2>6
<1>13. D # 4 /\ D # -4
  <2>1. K * a1 = 2 * n2 /\ K * a2 = -(2 * n1)
    <3>1. (k1 * n2 - k2 * n1) * a1 = n2 * (k1 * a1 + n1 * c1) - n1 * (k2 * a1 + n2 * c1)
      OBVIOUS
    <3>2. (k1 * n2 - k2 * n1) * a2 = n2 * (k1 * a2 + n1 * c2) - n1 * (k2 * a2 + n2 * c2)
      OBVIOUS
    <3>3. k1 * a1 + n1 * c1 = 2 /\ k1 * a2 + n1 * c2 = 0 /\ k2 * a1 + n2 * c1 = 0 /\ k2 * a2 + n2 * c2 = 2
      BY ONLY <1>6, <1>7, <1>8, <1>9, p \in Int, q \in Int, r \in Int
    <3>4. K * a1 = n2 * 2 - n1 * 0 /\ K * a2 = n2 * 0 - n1 * 2
      BY ONLY <1>10, <3>1, <3>2, <3>3
    <3> QED
      BY ONLY <3>4, K \in Int, a1 \in Int, a2 \in Int, n1 \in Int, n2 \in Int
  <2>2. ~(a1 % 2 = 0 /\ a2 % 2 = 0)
    BY <1>3, NotBothEven
  <2>3. K = 1 => a1 = 2 * n2 /\ a2 = -(2 * n1)
    BY <2>1
  <2>4. K = -1 => a1 = -(2 * n2) /\ a2 = 2 * n1
    BY <2>1
  <2> QED
    BY <1>12, <2>2, <2>3, <2>4
<1>14. CASE D = 2 \/ D = -2
  <2>1. D % 2 = 0
    BY <1>14
  <2>2. (a1 + c1) % 2 = 0 /\ (a2 + c2) % 2 = 0
    BY <1>3, <1>10, <2>1, EvenSum
  <2> QED
    BY <1>10, <1>14, <2>2 DEF Spanned
<1>15. CASE D = 1 \/ D = -1
  BY <1>10, <1>15 DEF Spanned
<1> QED
  BY <1>12, <1>13, <1>14, <1>15

-----------------------------------------------------------------------------
(* The standard basis of each lattice.                                     *)

\* m keeps the first row of a basis and turns the second around.
MirrorRows ==
  /\ rows \in (Int \X Int) \X (Int \X Int)
  /\ \E m \in layer.blocks :
       /\ Det(m) = -1
       /\ Along2(m, 1, rows[1][1], rows[1][2]) /\ Along2(m, -1, rows[2][1], rows[2][2])
       /\ Spanned(rows[1][1], rows[1][2], rows[2][1], rows[2][2])

LEMMA MirrorFound ==
  ASSUME OfLayers, NEW b \in layer.blocks, Det(b) = -1
  PROVE  \E a1, a2, c1, c2 \in Int :
           /\ LineVector(b, 1) = <<a1, a2>> /\ LineVector(b, -1) = <<c1, c2>>
           /\ Along2(b, 1, a1, a2) /\ Along2(b, -1, c1, c2) /\ Spanned(a1, a2, c1, c2)
<1>1. Reflection(b)
  BY OwnOperation
<1>2. PICK a1 \in Int, a2 \in Int :
        LineVector(b, 1) = <<a1, a2>> /\ Coprime(a1, a2) /\ Along2(b, 1, a1, a2)
  <2>1. 1 \in {1, -1}
    OBVIOUS
  <2> QED
    BY <1>1, <2>1, LineVectorIs
<1>3. PICK c1 \in Int, c2 \in Int :
        LineVector(b, -1) = <<c1, c2>> /\ Coprime(c1, c2) /\ Along2(b, -1, c1, c2)
  <2>1. -1 \in {1, -1}
    OBVIOUS
  <2> QED
    BY <1>1, <2>1, LineVectorIs
<1>4. Lines(b, a1, a2, c1, c2)
  BY <1>2, <1>3 DEF Lines
<1>5. Spanned(a1, a2, c1, c2)
  BY <1>1, <1>4, TwoLines, Zenon
<1> QED
  BY <1>2, <1>3, <1>5

\* The rows of a rectangle are along and across a mirror, those of a rhombus
\* are its images of each other.
Mirrored(p, q, r, s) ==
  \E m \in layer.blocks : Det(m) = -1 /\ Images(m, rows[1], rows[2], p, q, r, s)

Rectangle == Mirrored(1, 0, 0, -1) \/ Mirrored(-1, 0, 0, 1)
Rhombus == Mirrored(0, 1, 1, 0) \/ Mirrored(0, -1, -1, 0)

\* The rows of a hexagon are two sides of a triangle, at 120 degrees.
Triangle ==
  /\ Dot(rows[1], rows[1]) = Dot(rows[2], rows[2])
  /\ 2 * Dot(rows[1], rows[2]) = -Dot(rows[1], rows[1])

\* A turn by a quarter.
Quarter == \E b \in layer.blocks : Det(b) = 1 /\ Trace(b) = 0

\* What the basis of each lattice is.
Shaped(name) ==
  /\ Spanning
  /\ name = "HEX2D" => Triangle
  /\ name = "SQR" => ReducedRows /\ Quarter
  /\ name = "RECT" => Bravais = "rectangular" /\ Rectangle
  /\ name = "CRECT" => Bravais = "rectangular" /\ Rhombus

\* All the operations of a rectangular layer keep a point that the half turn
\* and the two mirrors keep.
LEMMA MirrorsKeep ==
  ASSUME OfLayers, Spanning, Bravais = "rectangular", NEW point \in {0, 6} \X {0, 6},
         NEW p \in Int, NEW q \in Int, NEW r \in Int, NEW s \in Int, Mirrored(p, q, r, s),
         NEW i \in Int, NEW j \in Int, NEW k \in Int, NEW l \in Int,
         p + i = 0, q + j = 0, r + k = 0, s + l = 0,
         Whole(point, p, q, r, s), Whole(point, i, j, k, l)
  PROVE  Fixing(point) = layer.blocks
<1>1. PICK m \in layer.blocks : Det(m) = -1 /\ Images(m, rows[1], rows[2], p, q, r, s)
  BY DEF Mirrored
<1>2. point \in Int \X Int
  OBVIOUS
<1>3. PICK x1 \in Int, x2 \in Int, y1 \in Int, y2 \in Int :
        x1 = rows[1][1] /\ x2 = rows[1][2] /\ y1 = rows[2][1] /\ y2 = rows[2][2]
  BY DEF Spanning
<1>4. PICK m11 \in Int, m12 \in Int, m21 \in Int, m22 \in Int :
        m11 = m[1][1] /\ m12 = m[1][2] /\ m21 = m[2][1] /\ m22 = m[2][2]
  BY LayerIs
<1>5. ASSUME NEW b \in layer.blocks, Det(b) = 1 PROVE b \in Fixing(point)
  <2>1. b[1][2] = 0 /\ b[2][1] = 0 /\ b[1][1] = b[2][2] /\ (b[1][1] = 1 \/ b[1][1] = -1)
    BY <1>5, HalfTurnsOnly
  <2>2. PICK e \in Int : e = b[1][1] /\ (e = 1 \/ e = -1)
    BY <2>1
  <2>3. e * x1 + 0 * x2 = e * x1 + 0 * y1 /\ 0 * x1 + e * x2 = e * x2 + 0 * y2
        /\ e * y1 + 0 * y2 = 0 * x1 + e * y1 /\ 0 * y1 + e * y2 = 0 * x2 + e * y2
    OBVIOUS
  <2>4. Images(b, rows[1], rows[2], e, 0, 0, e)
    BY ONLY <1>3, <2>1, <2>2, <2>3 DEF Images
  <2>5. PICK P \in {0, 6}, Q \in {0, 6} : P = point[1] /\ Q = point[2]
    OBVIOUS
  <2>6. ((e - 1) * P + 0 * Q) % 12 = 0 /\ (0 * P + (e - 1) * Q) % 12 = 0
    <3>1. ((1 - 1) * P + 0 * Q) % 12 = 0 /\ (0 * P + (1 - 1) * Q) % 12 = 0
      BY ONLY P \in {0, 6}, Q \in {0, 6}
    <3>2. ((-1 - 1) * P + 0 * Q) % 12 = 0 /\ (0 * P + (-1 - 1) * Q) % 12 = 0
      BY ONLY P \in {0, 6}, Q \in {0, 6}
    <3> QED
      BY ONLY <2>2, <3>1, <3>2
  <2>7. Whole(point, e, 0, 0, e)
    BY ONLY <2>5, <2>6 DEF Whole
  <2>8. 0 \in Int
    OBVIOUS
  <2> QED
    BY <1>2, <2>4, <2>7, <2>8, FixedBy
<1>6. ASSUME NEW b \in layer.blocks, Det(b) = -1 PROVE b \in Fixing(point)
  <2>1. PICK e \in {1, -1} : /\ b[1][1] = e * m[1][1] /\ b[1][2] = e * m[1][2]
                             /\ b[2][1] = e * m[2][1] /\ b[2][2] = e * m[2][2]
    BY <1>1, <1>6, OneMirror
  <2>2. /\ m11 * x1 + m12 * x2 = p * x1 + r * y1 /\ m21 * x1 + m22 * x2 = p * x2 + r * y2
        /\ m11 * y1 + m12 * y2 = q * x1 + s * y1 /\ m21 * y1 + m22 * y2 = q * x2 + s * y2
    BY ONLY <1>1, <1>3, <1>4 DEF Images
  <2>3. CASE e = 1
    <3>1. b[1][1] = m11 /\ b[1][2] = m12 /\ b[2][1] = m21 /\ b[2][2] = m22
      BY <1>4, <2>1, <2>3
    <3>2. Images(b, rows[1], rows[2], p, q, r, s)
      BY ONLY <1>3, <2>2, <3>1 DEF Images
    <3> QED
      BY <1>2, <3>2, FixedBy
  <2>4. CASE e = -1
    <3>1. b[1][1] = -m11 /\ b[1][2] = -m12 /\ b[2][1] = -m21 /\ b[2][2] = -m22
      BY <1>4, <2>1, <2>4
    <3>2. /\ (-m11) * x1 + (-m12) * x2 = i * x1 + k * y1 /\ (-m21) * x1 + (-m22) * x2 = i * x2 + k * y2
          /\ (-m11) * y1 + (-m12) * y2 = j * x1 + l * y1 /\ (-m21) * y1 + (-m22) * y2 = j * x2 + l * y2
      <4>1. i = -p /\ j = -q /\ k = -r /\ l = -s
        OBVIOUS
      <4> QED
        BY <2>2, <4>1
    <3>3. Images(b, rows[1], rows[2], i, j, k, l)
      BY ONLY <1>3, <3>1, <3>2 DEF Images
    <3> QED
      BY <1>2, <3>3, FixedBy
  <2> QED
    BY <2>1, <2>3, <2>4
<1>7. \A b \in layer.blocks : Det(b) = 1 \/ Det(b) = -1
  BY OwnOperation
<1> QED
  BY <1>5, <1>6, <1>7 DEF Fixing

LEMMA RectanglesStand ==
  ASSUME OfLayers, Spanning, Bravais = "rectangular", Rectangle, NEW point \in {0, 6} \X {0, 6}
  PROVE  Fixing(point) = layer.blocks
<1>1. PICK P \in {0, 6}, Q \in {0, 6} : P = point[1] /\ Q = point[2]
  OBVIOUS
<1>3. Whole(point, 1, 0, 0, -1) /\ Whole(point, -1, 0, 0, 1)
  <2>1. /\ ((1 - 1) * P + 0 * Q) % 12 = 0 /\ (0 * P + ((-1) - 1) * Q) % 12 = 0
        /\ (((-1) - 1) * P + 0 * Q) % 12 = 0 /\ (0 * P + (1 - 1) * Q) % 12 = 0
    OBVIOUS
  <2> QED
    BY ONLY <1>1, <2>1 DEF Whole
<1>4. 1 \in Int /\ 0 \in Int /\ -1 \in Int /\ 1 + (-1) = 0 /\ -1 + 1 = 0 /\ 0 + 0 = 0
  OBVIOUS
<1>5. CASE Mirrored(1, 0, 0, -1)
  BY <1>3, <1>4, <1>5, MirrorsKeep
<1>6. CASE Mirrored(-1, 0, 0, 1)
  BY <1>3, <1>4, <1>6, MirrorsKeep
<1> QED
  BY <1>5, <1>6 DEF Rectangle

LEMMA RhombusesStand ==
  ASSUME OfLayers, Spanning, Bravais = "rectangular", Rhombus
  PROVE  Fixing(<<6, 6>>) = layer.blocks
<1>1. <<6, 6>> \in {0, 6} \X {0, 6}
  OBVIOUS
<1>2. Whole(<<6, 6>>, 0, 1, 1, 0) /\ Whole(<<6, 6>>, 0, -1, -1, 0)
  <2>1. /\ ((0 - 1) * 6 + 1 * 6) % 12 = 0 /\ (1 * 6 + (0 - 1) * 6) % 12 = 0
        /\ ((0 - 1) * 6 + (-1) * 6) % 12 = 0 /\ ((-1) * 6 + (0 - 1) * 6) % 12 = 0
    OBVIOUS
  <2> QED
    BY <2>1 DEF Whole
<1>3. 1 \in Int /\ 0 \in Int /\ -1 \in Int /\ 1 + (-1) = 0 /\ -1 + 1 = 0 /\ 0 + 0 = 0
  OBVIOUS
<1>4. CASE Mirrored(0, 1, 1, 0)
  BY <1>1, <1>2, <1>3, <1>4, MirrorsKeep
<1>5. CASE Mirrored(0, -1, -1, 0)
  BY <1>1, <1>2, <1>3, <1>5, MirrorsKeep
<1> QED
  BY <1>4, <1>5 DEF Rhombus

\* The labels of a path stand at points of special symmetry.
LEMMA StandsFor ==
  ASSUME OfLayers, NEW name \in {"HEX2D", "SQR", "RECT", "CRECT", "OBL"}, Shaped(name),
         NEW label \in DOMAIN AsePoint[name]
  PROVE  Special(name, label)
<1>1. Spanning
  BY DEF Shaped
<1>2. CASE label = "Gamma"
  <2>1. AsePoint[name]["Gamma"] = <<0, 0>>
    BY DEF AsePoint
  <2> QED
    BY <1>1, <1>2, <2>1, GammaIsKept DEF Special
<1>3. ASSUME NEW point \in {<<6, 0>>, <<0, 6>>, <<6, 6>>}
      PROVE  {b \in {c \in layer.blocks : Det(c) = 1} : Trace(b) = -2} \subseteq Fixing(point)
  BY <1>1, HalvesAreKept
<1>4. CASE name = "HEX2D" /\ label # "Gamma"
  <2>1. label \in {"M", "K"} /\ AsePoint["HEX2D"]["M"] = <<6, 0>> /\ AsePoint["HEX2D"]["K"] = <<4, 4>>
    BY <1>4 DEF AsePoint
  <2>2. {b \in {c \in layer.blocks : Det(c) = 1} : Trace(b) = -1} \subseteq Fixing(<<4, 4>>)
    BY <1>1, <1>4, KIsKept DEF Shaped, Triangle
  <2>3. CASE label = "K"
    BY <1>4, <2>1, <2>2, <2>3 DEF Special
  <2>4. CASE label = "M"
    BY <1>3, <1>4, <2>1, <2>4 DEF Special
  <2> QED
    BY <2>1, <2>3, <2>4
<1>5. CASE name = "SQR" /\ label # "Gamma"
  <2>1. label \in {"M", "X"} /\ AsePoint["SQR"]["M"] = <<6, 6>> /\ AsePoint["SQR"]["X"] = <<0, 6>>
    BY <1>5 DEF AsePoint
  <2>2. Fixing(<<6, 6>>) = layer.blocks
    BY <1>1, <1>5, CornerIsKept DEF Shaped, Quarter
  <2>3. CASE label = "M"
    BY <1>5, <2>1, <2>2, <2>3 DEF Special
  <2>4. CASE label = "X"
    BY <1>3, <1>5, <2>1, <2>4 DEF Special
  <2> QED
    BY <2>1, <2>3, <2>4
<1>6. CASE name = "RECT" /\ label # "Gamma"
  <2>1. label \in {"X", "S", "Y"} /\ AsePoint["RECT"][label] \in {0, 6} \X {0, 6}
    BY <1>6 DEF AsePoint
  <2>2. Fixing(AsePoint["RECT"][label]) = layer.blocks
    BY <1>1, <1>6, <2>1, RectanglesStand DEF Shaped
  <2> QED
    BY <1>6, <2>1, <2>2 DEF Special
<1>7. CASE name = "CRECT" /\ label # "Gamma"
  <2>1. label = "Y" /\ AsePoint["CRECT"]["Y"] = <<6, 6>>
    BY <1>7 DEF AsePoint
  <2>2. Fixing(<<6, 6>>) = layer.blocks
    BY <1>1, <1>7, RhombusesStand DEF Shaped
  <2> QED
    BY <1>7, <2>1, <2>2 DEF Special
<1>8. CASE name = "OBL" /\ label # "Gamma"
  <2>1. label \in {"Y", "C", "X"} /\ AsePoint["OBL"][label] \in {<<6, 0>>, <<0, 6>>, <<6, 6>>}
    BY <1>8 DEF AsePoint
  <2> QED
    BY <1>3, <1>8, <2>1 DEF Special
<1> QED
  BY <1>2, <1>4, <1>5, <1>6, <1>7, <1>8

-----------------------------------------------------------------------------
(* The steps of the reduction.                                             *)

LEMMA SpanningParts ==
  ASSUME Spanning
  PROVE  \E x1, x2, y1, y2 \in Int :
           /\ rows = <<<<x1, x2>>, <<y1, y2>>>>
           /\ x1 * y2 - x2 * y1 = 1 \/ x1 * y2 - x2 * y1 = -1
<1>1. PICK x1 \in Int, x2 \in Int, y1 \in Int, y2 \in Int :
        x1 = rows[1][1] /\ x2 = rows[1][2] /\ y1 = rows[2][1] /\ y2 = rows[2][2]
  BY DEF Spanning
<1>2. rows = <<<<x1, x2>>, <<y1, y2>>>>
  BY <1>1 DEF Spanning
<1>3. x1 * y2 - x2 * y1 = 1 \/ x1 * y2 - x2 * y1 = -1
  BY <1>1 DEF Spanning, Det
<1> QED
  BY <1>2, <1>3

\* A basis and its determinant.
Unimodular(s) == s \in (Int \X Int) \X (Int \X Int) /\ (Det(s) = 1 \/ Det(s) = -1)

LEMMA SwapSpans ==
  ASSUME Spanning
  PROVE  Unimodular(<<rows[2], rows[1]>>)
<1>1. PICK x1 \in Int, x2 \in Int, y1 \in Int, y2 \in Int :
        /\ rows = <<<<x1, x2>>, <<y1, y2>>>>
        /\ x1 * y2 - x2 * y1 = 1 \/ x1 * y2 - x2 * y1 = -1
  BY SpanningParts
<1>2. Det(<<rows[2], rows[1]>>) = y1 * x2 - y2 * x1
  BY <1>1 DEF Det
<1>3. y1 * x2 - y2 * x1 = -(x1 * y2 - x2 * y1)
  OBVIOUS
<1> QED
  BY <1>1, <1>2, <1>3 DEF Unimodular

\* A multiple of the first row added to the second.
LEMMA ShearSpans ==
  ASSUME Spanning, NEW n \in Int, NEW s, s = <<rows[1], Plus(rows[2], Times(n, rows[1]))>>
  PROVE  Unimodular(s)
<1>1. PICK x1 \in Int, x2 \in Int, y1 \in Int, y2 \in Int :
        /\ rows = <<<<x1, x2>>, <<y1, y2>>>>
        /\ x1 * y2 - x2 * y1 = 1 \/ x1 * y2 - x2 * y1 = -1
  BY SpanningParts
<1>2. s = <<<<x1, x2>>, <<y1 + n * x1, y2 + n * x2>>>>
  BY <1>1 DEF Plus, Times
<1>3. Det(s) = x1 * (y2 + n * x2) - x2 * (y1 + n * x1)
  BY <1>2 DEF Det
<1>4. x1 * (y2 + n * x2) - x2 * (y1 + n * x1) = x1 * y2 - x2 * y1
  OBVIOUS
<1> QED
  BY <1>1, <1>2, <1>3, <1>4 DEF Unimodular

LEMMA FlipSpans ==
  ASSUME Spanning
  PROVE  Unimodular(<<rows[1], Times(-1, rows[2])>>)
<1>1. PICK x1 \in Int, x2 \in Int, y1 \in Int, y2 \in Int :
        /\ rows = <<<<x1, x2>>, <<y1, y2>>>>
        /\ x1 * y2 - x2 * y1 = 1 \/ x1 * y2 - x2 * y1 = -1
  BY SpanningParts
<1>2. <<rows[1], Times(-1, rows[2])>> = <<<<x1, x2>>, <<-1 * y1, -1 * y2>>>>
  BY <1>1 DEF Times
<1>3. Det(<<<<x1, x2>>, <<-1 * y1, -1 * y2>>>>) = x1 * (-1 * y2) - x2 * (-1 * y1)
  BY DEF Det
<1>4. x1 * (-1 * y2) - x2 * (-1 * y1) = -(x1 * y2 - x2 * y1)
  OBVIOUS
<1> QED
  BY <1>1, <1>2, <1>3, <1>4 DEF Unimodular

LEMMA RoundedIs ==
  ASSUME NEW n \in Int, NEW d \in Int, d > 0
  PROVE  Rounded(n, d) \in Int
<1>1. PICK a \in Int, b \in Nat \ {0} : a = 2 * n + d /\ b = 2 * d
  OBVIOUS
<1>2. PICK up \in Int : up = a \div b
  BY Quotient
<1>3. Rounded(n, d) \in {up, up - 1}
  BY <1>1, <1>2 DEF Rounded
<1> QED
  BY <1>2, <1>3

\* A turn by a third or a sixth.
LEMMA HexagonTurns ==
  ASSUME Bravais = "hexagonal"
  PROVE  \E b \in layer.blocks : Det(b) = 1 /\ (Trace(b) = 1 \/ Trace(b) = -1)
<1> DEFINE kinds == {<<Det(c), Trace(c)>> : c \in layer.blocks}
<1>1. kinds \cap {<<1, 1>>, <<1, -1>>} # {}
  BY DEF Bravais
<1> QED
  BY <1>1

LEMMA SquareTurns ==
  ASSUME Bravais = "square"
  PROVE  Quarter
<1> DEFINE kinds == {<<Det(c), Trace(c)>> : c \in layer.blocks}
<1>1. <<1, 0>> \in kinds
  BY DEF Bravais
<1> QED
  BY <1>1 DEF Quarter

\* The standard basis of a hexagonal layer.
LEMMA HexagonStandard ==
  ASSUME OfLayers, Spanning, ReducedRows, Bravais = "hexagonal", NEW s, s = Standard("hexagonal")
  PROVE  Unimodular(s) /\ Dot(s[1], s[1]) = Dot(s[2], s[2]) /\ 2 * Dot(s[1], s[2]) = -Dot(s[1], s[1])
<1>1. PICK A \in Int, B \in Int, C \in Int : RowForm(A, B, C)
  BY RowProducts DEF RowForm
<1>2. A > 0 /\ ReducedForm(A, B, C)
  BY <1>1, RowProducts DEF RowForm, ReducedRows, ReducedForm
<1>3. PICK b \in layer.blocks : Det(b) = 1 /\ (Trace(b) = 1 \/ Trace(b) = -1)
  BY HexagonTurns
<1>4. PICK p \in Int, q \in Int, r \in Int, t \in Int :
        Images(b, rows[1], rows[2], p, q, r, t) /\ TurnOf(A, B, C, p, q, r, t) /\ p + t = Trace(b)
  BY <1>1, <1>3, TurnIs, Zenon
<1>5. A = C /\ (2 * B = A \/ 2 * B = -A)
  <2>1. p + t = 1 \/ p + t = -1
    BY <1>3, <1>4
  <2> QED
    BY <1>2, <1>4, <2>1, HexagonShape, Zenon
<1>6. rows[1] \in Int \X Int /\ rows[2] \in Int \X Int
  BY DEF Spanning
<1>7. CASE 2 * B = A
  <2>1. B > 0
    BY <1>2, <1>7
  <2>2. s = <<rows[1], Plus(rows[2], Times(-1, rows[1]))>>
    BY <1>1, <2>1 DEF Standard, RowForm
  <2>3. Unimodular(s)
    <3>1. -1 \in Int
      OBVIOUS
    <3> QED
      BY <2>2, <3>1, ShearSpans
  <2> DEFINE v == rows[1]
             w == rows[2]
  <2>4. s[1] = <<1 * v[1] + 0 * w[1], 1 * v[2] + 0 * w[2]>> /\ s[2] = <<(-1) * v[1] + 1 * w[1], (-1) * v[2] + 1 * w[2]>>
    <3>1. PICK x1 \in Int, x2 \in Int, y1 \in Int, y2 \in Int : v = <<x1, x2>> /\ w = <<y1, y2>>
      BY <1>6
    <3>2. s = << <<x1, x2>>, <<y1 + (-1) * x1, y2 + (-1) * x2>> >>
      BY ONLY <2>2, <3>1 DEF Plus, Times, v, w
    <3> HIDE DEF v, w
    <3> QED
      BY <3>1, <3>2
  <2>5. /\ Dot(s[1], s[1]) = 1 * (A * 1 + B * 0) + 0 * (B * 1 + C * 0)
        /\ Dot(s[1], s[2]) = 1 * (A * (-1) + B * 1) + 0 * (B * (-1) + C * 1)
        /\ Dot(s[2], s[2]) = (-1) * (A * (-1) + B * 1) + 1 * (B * (-1) + C * 1)
    <3>1. v \in Int \X Int /\ w \in Int \X Int
      BY <1>6
    <3>2. A = Dot(v, v) /\ B = Dot(v, w) /\ C = Dot(w, w)
      BY <1>1 DEF RowForm
    <3>3. PICK o \in Int, e \in Int, f \in Int : o = 0 /\ e = 1 /\ f = -1
      OBVIOUS
    <3> HIDE DEF v, w
    <3>4. s[1] = <<e * v[1] + o * w[1], e * v[2] + o * w[2]>> /\ s[2] = <<f * v[1] + e * w[1], f * v[2] + e * w[2]>>
      BY ONLY <2>4, <3>3
    <3>5. Dot(s[1], s[1]) = e * (Dot(v, v) * e + Dot(v, w) * o) + o * (Dot(v, w) * e + Dot(w, w) * o)
      BY ONLY <3>1, <3>4, OfLayers, DotOfSums, o \in Int, e \in Int
    <3>6. Dot(s[1], s[2]) = e * (Dot(v, v) * f + Dot(v, w) * e) + o * (Dot(v, w) * f + Dot(w, w) * e)
      BY ONLY <3>1, <3>4, OfLayers, DotOfSums, o \in Int, e \in Int, f \in Int
    <3>7. Dot(s[2], s[2]) = f * (Dot(v, v) * f + Dot(v, w) * e) + e * (Dot(v, w) * f + Dot(w, w) * e)
      BY ONLY <3>1, <3>4, OfLayers, DotOfSums, e \in Int, f \in Int
    <3> QED
      BY ONLY <3>2, <3>3, <3>5, <3>6, <3>7
  <2> HIDE DEF v, w
  <2>6. Dot(s[1], s[1]) = A /\ Dot(s[1], s[2]) = B - A /\ Dot(s[2], s[2]) = A - 2 * B + C
    BY ONLY <2>5, A \in Int, B \in Int, C \in Int
  <2> QED
    BY ONLY <1>5, <1>7, <2>3, <2>6, A \in Int, B \in Int, C \in Int
<1>8. CASE 2 * B = -A
  <2>1. ~(B > 0)
    BY <1>2, <1>8
  <2>2. s = rows
    BY <1>1, <2>1 DEF Standard, RowForm
  <2> QED
    BY <1>1, <1>5, <1>8, <2>2 DEF RowForm, Spanning, Unimodular
<1> QED
  BY <1>5, <1>7, <1>8

LEMMA ObliqueStandard ==
  ASSUME Spanning
  PROVE  Unimodular(Standard("oblique"))
<1>1. Standard("oblique") = <<rows[1], Times(-1, rows[2])>> \/ Standard("oblique") = rows
  BY DEF Standard
<1> QED
  BY <1>1, FlipSpans DEF Spanning, Unimodular

LEMMA SquareStandard ==
  Standard("square") = rows
BY DEF Standard

\* A mirror maps the shorter vector to e times itself, the longer to f times.
Sides(m, e, f, x1, x2, y1, y2) ==
  /\ (e = 1 /\ f = -1) \/ (e = -1 /\ f = 1)
  /\ Along2(m, e, x1, x2) /\ Along2(m, f, y1, y2) /\ Spanned(x1, x2, y1, y2)
  /\ Short = <<x1, x2>> /\ Long = <<y1, y2>>
  /\ Primitive <=> (x1 * y2 - x2 * y1 = 1 \/ x1 * y2 - x2 * y1 = -1)

\* The same of the two, their entries spelled out.
Mirrors(m11, m12, m21, m22, e, f, x1, x2, y1, y2) ==
  /\ f = -e
  /\ m11 * x1 + m12 * x2 = e * x1 /\ m21 * x1 + m22 * x2 = e * x2
  /\ m11 * y1 + m12 * y2 = f * y1 /\ m21 * y1 + m22 * y2 = f * y2

EveryOther(x1, x2, y1, y2) ==
  /\ x1 * y2 - x2 * y1 = 2 \/ x1 * y2 - x2 * y1 = -2
  /\ (x1 + y1) % 2 = 0 /\ (x2 + y2) % 2 = 0

\* n and k are half the sum and half the difference of y and x.
Halves(x1, x2, y1, y2, n1, n2, k1, k2) ==
  /\ y1 + x1 = 2 * n1 /\ y2 + x2 = 2 * n2 /\ y1 + (-1) * x1 = 2 * k1 /\ y2 + (-1) * x2 = 2 * k2
  /\ n1 * k2 - n2 * k1 = 1 \/ n1 * k2 - n2 * k1 = -1

\* A matrix maps them to f times each other.
Swaps(m11, m12, m21, m22, f, n1, n2, k1, k2) ==
  /\ m11 * n1 + m12 * n2 = f * k1 /\ m21 * n1 + m22 * n2 = f * k2
  /\ m11 * k1 + m12 * k2 = f * n1 /\ m21 * k1 + m22 * k2 = f * n2

LEMMA SpannedEitherWay ==
  ASSUME NEW x1 \in Int, NEW x2 \in Int, NEW y1 \in Int, NEW y2 \in Int, Spanned(x1, x2, y1, y2)
  PROVE  Spanned(y1, y2, x1, x2)
<1>1. y1 * x2 - y2 * x1 = -(x1 * y2 - x2 * y1)
  OBVIOUS
<1>2. y1 + x1 = x1 + y1 /\ y2 + x2 = x2 + y2
  OBVIOUS
<1>3. PICK d \in Int, f \in Int : d = x1 * y2 - x2 * y1 /\ f = y1 * x2 - y2 * x1 /\ f = -d
  BY <1>1
<1>4. /\ \/ d = 1 \/ d = -1
         \/ (d = 2 \/ d = -2) /\ (x1 + y1) % 2 = 0 /\ (x2 + y2) % 2 = 0
  BY <1>3 DEF Spanned
<1>5. \/ f = 1 \/ f = -1
      \/ (f = 2 \/ f = -2) /\ (y1 + x1) % 2 = 0 /\ (y2 + x2) % 2 = 0
  BY ONLY <1>2, <1>3, <1>4
<1> QED
  BY ONLY <1>3, <1>5 DEF Spanned

\* The shorter of the two and the longer.
LEMMA ShortAndLong ==
  ASSUME OfLayers, MirrorRows
  PROVE  \E m \in layer.blocks : \E e, f, x1, x2, y1, y2 \in Int :
           Det(m) = -1 /\ Sides(m, e, f, x1, x2, y1, y2)
<1>1. PICK m \in layer.blocks :
        /\ Det(m) = -1
        /\ Along2(m, 1, rows[1][1], rows[1][2]) /\ Along2(m, -1, rows[2][1], rows[2][2])
        /\ Spanned(rows[1][1], rows[1][2], rows[2][1], rows[2][2])
  BY DEF MirrorRows
<1>2. PICK a1 \in Int, a2 \in Int, c1 \in Int, c2 \in Int :
        a1 = rows[1][1] /\ a2 = rows[1][2] /\ c1 = rows[2][1] /\ c2 = rows[2][2]
  BY DEF MirrorRows
<1>3. Along = <<a1, a2>> /\ Across = <<c1, c2>>
  BY <1>2 DEF MirrorRows, Along, Across
<1>4. Along2(m, 1, a1, a2) /\ Along2(m, -1, c1, c2) /\ Spanned(a1, a2, c1, c2)
  BY <1>1, <1>2
<1>5. PICK d \in Int, f \in Int : d = a1 * c2 - a2 * c1 /\ f = c1 * a2 - c2 * a1 /\ f = -d
  <2>1. c1 * a2 - c2 * a1 = -(a1 * c2 - a2 * c1)
    OBVIOUS
  <2> QED
    BY <2>1
<1>6. Primitive <=> (d = 1 \/ d = -1)
  <2>1. Det(rows) = d
    BY ONLY <1>2, <1>5 DEF Det
  <2>2. (IF d < 0 THEN -d ELSE d) = 1 <=> (d = 1 \/ d = -1)
    OBVIOUS
  <2> QED
    BY ONLY <2>1, <2>2 DEF Primitive, Abs
<1>7. 1 \in Int /\ -1 \in Int
  OBVIOUS
<1>8. CASE Short = Along
  <2>1. Short = <<a1, a2>> /\ Long = <<c1, c2>>
    BY <1>3, <1>8 DEF Long
  <2>2. Primitive <=> (a1 * c2 - a2 * c1 = 1 \/ a1 * c2 - a2 * c1 = -1)
    BY <1>5, <1>6
  <2>3. Sides(m, 1, -1, a1, a2, c1, c2)
    BY ONLY <1>4, <2>1, <2>2 DEF Sides
  <2> QED
    BY <1>1, <1>7, <2>3, Zenon
<1>9. CASE Short # Along
  <2>1. Short = <<c1, c2>> /\ Long = <<a1, a2>>
    BY <1>3, <1>9 DEF Long, Short
  <2>2. Primitive <=> (c1 * a2 - c2 * a1 = 1 \/ c1 * a2 - c2 * a1 = -1)
    BY <1>5, <1>6
  <2>3. Spanned(c1, c2, a1, a2)
    BY <1>4, SpannedEitherWay
  <2>4. Sides(m, -1, 1, c1, c2, a1, a2)
    BY ONLY <1>4, <2>1, <2>2, <2>3 DEF Sides
  <2> QED
    BY <1>1, <1>7, <2>4, Zenon
<1> QED
  BY <1>8, <1>9

\* The half sum and half difference of the two.
LEMMA HalvesOf ==
  ASSUME NEW x1 \in Int, NEW x2 \in Int, NEW y1 \in Int, NEW y2 \in Int,
         NEW m11 \in Int, NEW m12 \in Int, NEW m21 \in Int, NEW m22 \in Int,
         NEW e \in Int, NEW f \in Int, Mirrors(m11, m12, m21, m22, e, f, x1, x2, y1, y2),
         EveryOther(x1, x2, y1, y2)
  PROVE  \E n1, n2, k1, k2 \in Int :
           Halves(x1, x2, y1, y2, n1, n2, k1, k2) /\ Swaps(m11, m12, m21, m22, f, n1, n2, k1, k2)
<1>0. /\ f = -e
      /\ m11 * x1 + m12 * x2 = e * x1 /\ m21 * x1 + m22 * x2 = e * x2
      /\ m11 * y1 + m12 * y2 = f * y1 /\ m21 * y1 + m22 * y2 = f * y2
      /\ x1 * y2 - x2 * y1 = 2 \/ x1 * y2 - x2 * y1 = -2
      /\ (x1 + y1) % 2 = 0 /\ (x2 + y2) % 2 = 0
  BY DEF Mirrors, EveryOther
<1>1. PICK n1 \in Int, n2 \in Int : x1 + y1 = 2 * n1 /\ x2 + y2 = 2 * n2
  BY <1>0
<1>2. PICK k1 \in Int, k2 \in Int : k1 = n1 - x1 /\ k2 = n2 - x2
  OBVIOUS
<1>3. x1 = n1 - k1 /\ y1 = n1 + k1 /\ x2 = n2 - k2 /\ y2 = n2 + k2
  BY <1>1, <1>2
<1>4. n1 * k2 - n2 * k1 = 1 \/ n1 * k2 - n2 * k1 = -1
  <2>1. (n1 - k1) * (n2 + k2) - (n2 - k2) * (n1 + k1) = 2 * (n1 * k2 - n2 * k1)
    OBVIOUS
  <2>2. PICK d \in Int : d = n1 * k2 - n2 * k1
    OBVIOUS
  <2>3. 2 * d = 2 \/ 2 * d = -2
    BY <1>0, <1>3, <2>1, <2>2
  <2> QED
    BY <2>2, <2>3
<1>5. \A i, j \in Int :
        /\ i * x1 + j * x2 = (i * n1 + j * n2) - (i * k1 + j * k2)
        /\ i * y1 + j * y2 = (i * n1 + j * n2) + (i * k1 + j * k2)
  <2> SUFFICES ASSUME NEW i \in Int, NEW j \in Int
               PROVE  /\ i * x1 + j * x2 = (i * n1 + j * n2) - (i * k1 + j * k2)
                      /\ i * y1 + j * y2 = (i * n1 + j * n2) + (i * k1 + j * k2)
    OBVIOUS
  <2>1. /\ i * (n1 - k1) + j * (n2 - k2) = (i * n1 + j * n2) - (i * k1 + j * k2)
        /\ i * (n1 + k1) + j * (n2 + k2) = (i * n1 + j * n2) + (i * k1 + j * k2)
    OBVIOUS
  <2> QED
    BY ONLY <1>3, <2>1
<1>6. PICK u1 \in Int, u2 \in Int, v1 \in Int, v2 \in Int :
        /\ u1 = m11 * n1 + m12 * n2 /\ u2 = m21 * n1 + m22 * n2
        /\ v1 = m11 * k1 + m12 * k2 /\ v2 = m21 * k1 + m22 * k2
  OBVIOUS
<1>7. /\ u1 - v1 = e * x1 /\ u2 - v2 = e * x2
      /\ u1 + v1 = f * y1 /\ u2 + v2 = f * y2
  <2>1. /\ m11 * x1 + m12 * x2 = u1 - v1 /\ m11 * y1 + m12 * y2 = u1 + v1
        /\ m21 * x1 + m22 * x2 = u2 - v2 /\ m21 * y1 + m22 * y2 = u2 + v2
    BY <1>5, <1>6
  <2> QED
    BY <1>0, <2>1
<1>8. /\ e * x1 = e * n1 - e * k1 /\ e * x2 = e * n2 - e * k2
      /\ f * y1 = -(e * n1 + e * k1) /\ f * y2 = -(e * n2 + e * k2)
  <2>1. /\ e * (n1 - k1) = e * n1 - e * k1 /\ e * (n2 - k2) = e * n2 - e * k2
        /\ (-e) * (n1 + k1) = -(e * n1 + e * k1) /\ (-e) * (n2 + k2) = -(e * n2 + e * k2)
    OBVIOUS
  <2>2. f = -e
    BY <1>0
  <2> QED
    BY ONLY <1>3, <2>1, <2>2
<1>9. PICK p1 \in Int, p2 \in Int, q1 \in Int, q2 \in Int :
        p1 = e * n1 /\ p2 = e * n2 /\ q1 = e * k1 /\ q2 = e * k2
  OBVIOUS
<1>10. /\ u1 = -q1 /\ u2 = -q2 /\ v1 = -p1 /\ v2 = -p2
  <2>1. /\ u1 - v1 = p1 - q1 /\ u2 - v2 = p2 - q2
        /\ u1 + v1 = -(p1 + q1) /\ u2 + v2 = -(p2 + q2)
    BY ONLY <1>7, <1>8, <1>9
  <2> QED
    BY ONLY <2>1, u1 \in Int, u2 \in Int, v1 \in Int, v2 \in Int, p1 \in Int, p2 \in Int, q1 \in Int, q2 \in Int
<1>11. /\ f * k1 = -(e * k1) /\ f * k2 = -(e * k2) /\ f * n1 = -(e * n1) /\ f * n2 = -(e * n2)
  <2>1. f = -e
    BY <1>0
  <2>2. \A i \in Int : (-e) * i = -(e * i)
    OBVIOUS
  <2> QED
    BY ONLY <2>1, <2>2, n1 \in Int, n2 \in Int, k1 \in Int, k2 \in Int
<1>12. /\ m11 * n1 + m12 * n2 = f * k1 /\ m21 * n1 + m22 * n2 = f * k2
       /\ m11 * k1 + m12 * k2 = f * n1 /\ m21 * k1 + m22 * k2 = f * n2
  BY ONLY <1>6, <1>9, <1>10, <1>11
<1>13. /\ y1 + x1 = 2 * n1 /\ y2 + x2 = 2 * n2 /\ y1 + (-1) * x1 = 2 * k1 /\ y2 + (-1) * x2 = 2 * k2
  BY <1>1, <1>2
<1>14. Halves(x1, x2, y1, y2, n1, n2, k1, k2) /\ Swaps(m11, m12, m21, m22, f, n1, n2, k1, k2)
  BY ONLY <1>4, <1>12, <1>13 DEF Halves, Swaps
<1> QED
  BY <1>14, Zenon

\* The rows a mirror's basis ends with.
LEMMA RectangularShape ==
  ASSUME OfLayers, MirrorRows, NEW s, s = Rectangular
  PROVE  /\ Unimodular(s)
         /\ Primitive => \E m \in layer.blocks :
              Det(m) = -1 /\ (Images(m, s[1], s[2], 1, 0, 0, -1) \/ Images(m, s[1], s[2], -1, 0, 0, 1))
         /\ ~Primitive => \E m \in layer.blocks :
              Det(m) = -1 /\ (Images(m, s[1], s[2], 0, 1, 1, 0) \/ Images(m, s[1], s[2], 0, -1, -1, 0))
<1>1. PICK m \in layer.blocks, e \in Int, f \in Int, x1 \in Int, x2 \in Int, y1 \in Int, y2 \in Int :
        Det(m) = -1 /\ Sides(m, e, f, x1, x2, y1, y2)
  BY ShortAndLong, Zenon
<1>2. PICK m11 \in Int, m12 \in Int, m21 \in Int, m22 \in Int :
        m11 = m[1][1] /\ m12 = m[1][2] /\ m21 = m[2][1] /\ m22 = m[2][2]
  BY LayerIs
<1>3. /\ (e = 1 /\ f = -1) \/ (e = -1 /\ f = 1)
      /\ m11 * x1 + m12 * x2 = e * x1 /\ m21 * x1 + m22 * x2 = e * x2
      /\ m11 * y1 + m12 * y2 = f * y1 /\ m21 * y1 + m22 * y2 = f * y2
      /\ Short = <<x1, x2>> /\ Long = <<y1, y2>>
      /\ Primitive <=> (x1 * y2 - x2 * y1 = 1 \/ x1 * y2 - x2 * y1 = -1)
  BY ONLY <1>1, <1>2 DEF Sides, Along2
<1>4. CASE Primitive
  <2>1. s = <<<<x1, x2>>, <<y1, y2>>>>
    BY <1>3, <1>4 DEF Rectangular
  <2>2. Unimodular(s)
    BY <1>3, <1>4, <2>1 DEF Unimodular, Det
  <2>3. Images(m, s[1], s[2], 1, 0, 0, -1) \/ Images(m, s[1], s[2], -1, 0, 0, 1)
    <3>1. /\ 1 * x1 + 0 * y1 = x1 /\ 1 * x2 + 0 * y2 = x2 /\ 0 * x1 + (-1) * y1 = -y1 /\ 0 * x2 + (-1) * y2 = -y2
          /\ (-1) * x1 + 0 * y1 = -x1 /\ (-1) * x2 + 0 * y2 = -x2 /\ 0 * x1 + 1 * y1 = y1 /\ 0 * x2 + 1 * y2 = y2
      OBVIOUS
    <3>2. CASE e = 1
      <4>1. m11 * x1 + m12 * x2 = x1 /\ m21 * x1 + m22 * x2 = x2 /\ m11 * y1 + m12 * y2 = -y1 /\ m21 * y1 + m22 * y2 = -y2
        BY <1>3, <3>2
      <4> QED
        BY ONLY <1>2, <2>1, <3>1, <4>1 DEF Images
    <3>3. CASE e = -1
      <4>1. m11 * x1 + m12 * x2 = -x1 /\ m21 * x1 + m22 * x2 = -x2 /\ m11 * y1 + m12 * y2 = y1 /\ m21 * y1 + m22 * y2 = y2
        BY <1>3, <3>3
      <4> QED
        BY ONLY <1>2, <2>1, <3>1, <4>1 DEF Images
    <3> QED
      BY <1>3, <3>2, <3>3
  <2>4. \E b \in layer.blocks :
          Det(b) = -1 /\ (Images(b, s[1], s[2], 1, 0, 0, -1) \/ Images(b, s[1], s[2], -1, 0, 0, 1))
    BY ONLY <1>1, <2>3, Zenon
  <2> QED
    BY ONLY <1>4, <2>2, <2>4, Zenon
<1>5. CASE ~Primitive
  <2>1. (x1 * y2 - x2 * y1 = 2 \/ x1 * y2 - x2 * y1 = -2) /\ (x1 + y1) % 2 = 0 /\ (x2 + y2) % 2 = 0
    BY ONLY <1>1, <1>3, <1>5 DEF Sides, Spanned
  <2>2. PICK n1 \in Int, n2 \in Int, k1 \in Int, k2 \in Int :
          Halves(x1, x2, y1, y2, n1, n2, k1, k2) /\ Swaps(m11, m12, m21, m22, f, n1, n2, k1, k2)
    <3>1. f = -e
      BY <1>3
    <3>2. Mirrors(m11, m12, m21, m22, e, f, x1, x2, y1, y2) /\ EveryOther(x1, x2, y1, y2)
      BY ONLY <1>3, <2>1, <3>1 DEF Mirrors, EveryOther
    <3> QED
      BY <3>2, HalvesOf, Zenon
  <2>3. Half(Plus(Long, Short)) = <<n1, n2>>
    <3>1. Plus(Long, Short) = <<2 * n1, 2 * n2>>
      BY <1>3, <2>2 DEF Plus, Halves
    <3>2. (2 * n1) \div 2 = n1 /\ (2 * n2) \div 2 = n2
      OBVIOUS
    <3> QED
      BY <3>1, <3>2 DEF Half
  <2>4. Half(Plus(Long, Times(-1, Short))) = <<k1, k2>>
    <3>1. Plus(Long, Times(-1, Short)) = <<2 * k1, 2 * k2>>
      BY <1>3, <2>2 DEF Plus, Times, Halves
    <3>2. (2 * k1) \div 2 = k1 /\ (2 * k2) \div 2 = k2
      OBVIOUS
    <3> QED
      BY <3>1, <3>2 DEF Half
  <2>5. s = <<<<n1, n2>>, <<k1, k2>>>>
    BY <1>5, <2>3, <2>4 DEF Rectangular
  <2>6. Unimodular(s)
    BY <2>2, <2>5 DEF Unimodular, Det, Halves
  <2>7. Images(m, s[1], s[2], 0, 1, 1, 0) \/ Images(m, s[1], s[2], 0, -1, -1, 0)
    <3>1. /\ 0 * n1 + 1 * k1 = k1 /\ 0 * n2 + 1 * k2 = k2 /\ 1 * n1 + 0 * k1 = n1 /\ 1 * n2 + 0 * k2 = n2
          /\ 0 * n1 + (-1) * k1 = -k1 /\ 0 * n2 + (-1) * k2 = -k2
          /\ (-1) * n1 + 0 * k1 = -n1 /\ (-1) * n2 + 0 * k2 = -n2
      OBVIOUS
    <3>2. CASE e = -1
      <4>1. m11 * n1 + m12 * n2 = k1 /\ m21 * n1 + m22 * n2 = k2 /\ m11 * k1 + m12 * k2 = n1 /\ m21 * k1 + m22 * k2 = n2
        BY <1>3, <2>2, <3>2 DEF Swaps
      <4> QED
        BY ONLY <1>2, <2>5, <3>1, <4>1 DEF Images
    <3>3. CASE e = 1
      <4>1. m11 * n1 + m12 * n2 = -k1 /\ m21 * n1 + m22 * n2 = -k2 /\ m11 * k1 + m12 * k2 = -n1 /\ m21 * k1 + m22 * k2 = -n2
        BY <1>3, <2>2, <3>3 DEF Swaps
      <4> QED
        BY ONLY <1>2, <2>5, <3>1, <4>1 DEF Images
    <3> QED
      BY <1>3, <3>2, <3>3
  <2>8. \E b \in layer.blocks :
          Det(b) = -1 /\ (Images(b, s[1], s[2], 0, 1, 1, 0) \/ Images(b, s[1], s[2], 0, -1, -1, 0))
    BY ONLY <1>1, <2>7, Zenon
  <2> QED
    BY ONLY <1>5, <2>6, <2>8, Zenon
<1> QED
  BY <1>4, <1>5

-----------------------------------------------------------------------------
(* The path of a layer.                                                    *)

Lattices == {"HEX2D", "SQR", "RECT", "CRECT", "OBL"}

\* The vertices taken and those left are the labels of one table, in order.
Fits(name) ==
  /\ Len(fed) + Len(left) = Len(AsePath[name])
  /\ \A i \in 1 .. Len(fed) : fed[i].at[1] = AsePath[name][i]
  /\ \A i \in 1 .. Len(left) : left[i][1] = AsePath[name][Len(fed) + i]

\* Where the reduction of a layer's lattice stands.
OnItsWay ==
  \/ pc = "blocked"
  \/ pc = "start" /\ fed = <<>>
  \/ pc = "reduce" /\ Spanning /\ fed = <<>>
  \/ pc = "mirror" /\ MirrorRows /\ Bravais = "rectangular" /\ fed = <<>>
  \/ /\ pc \in {"merge", "done"}
     /\ \E name \in Lattices : Shaped(name) /\ Fits(name)
     /\ pc = "done" => left = <<>>

LayerInv == vacuum = 1 => OfLayers /\ OnItsWay /\ (pc = "start" => rows = Own)

LEMMA AsePathIs ==
  ASSUME NEW name \in Lattices
  PROVE  AsePath[name] \in Seq(LayerLabels)
<1>1. CASE name = "HEX2D"
  BY <1>1 DEF AsePath, LayerLabels
<1>2. CASE name = "SQR"
  BY <1>2 DEF AsePath, LayerLabels
<1>3. CASE name = "RECT"
  BY <1>3 DEF AsePath, LayerLabels
<1>4. CASE name = "CRECT"
  BY <1>4 DEF AsePath, LayerLabels
<1>5. CASE name = "OBL"
  BY <1>5 DEF AsePath, LayerLabels
<1> QED
  BY <1>1, <1>2, <1>3, <1>4, <1>5 DEF Lattices

\* A table that nothing is taken of.
LEMMA TableFits ==
  ASSUME NEW name \in Lattices, NEW basis, fed' = <<>>, left' = Vertices(name, basis)
  PROVE  Fits(name)'
<1> DEFINE p == AsePath[name]
<1>1. DOMAIN p = 1 .. Len(p) /\ Len(p) \in Nat
  BY AsePathIs, LenProperties
<1>2. Vertices(name, basis) \in Seq(V)
  BY TableVertices DEF Lattices
<1>3. DOMAIN Vertices(name, basis) = 1 .. Len(p) /\ \A i \in 1 .. Len(p) : Vertices(name, basis)[i][1] = p[i]
  BY <1>1 DEF Vertices
<1>4. Len(Vertices(name, basis)) = Len(p)
  BY <1>1, <1>2, <1>3, LenProperties
<1> HIDE DEF p
<1>5. Len(fed') = 0
  BY EmptySeq
<1>6. \A i \in 1 .. Len(p) : 0 + i = i
  BY <1>1
<1>7. /\ Len(fed') + Len(left') = Len(p)
      /\ \A i \in 1 .. Len(fed') : fed'[i].at[1] = p[i]
      /\ \A i \in 1 .. Len(left') : left'[i][1] = p[Len(fed') + i]
  BY <1>1, <1>3, <1>4, <1>5, <1>6
<1> QED
  BY <1>7 DEF Fits, p, AsePath

\* The first of those left is taken.
LEMMA OneTaken ==
  ASSUME fed \in Seq(Fed), left \in Seq(V), left # <<>>, NEW name \in Lattices, Fits(name),
         NEW opens \in BOOLEAN, fed' = Append(fed, [at |-> Head(left), opens |-> opens]),
         left' = Tail(left)
  PROVE  Fits(name)'
<1> DEFINE p == AsePath[name]
           new == [at |-> Head(left), opens |-> opens]
           n == Len(fed)
           k == Len(left)
<1>1. Head(left) \in V /\ Tail(left) \in Seq(V) /\ k \in Nat /\ k > 0 /\ Head(left) = left[1]
      /\ Len(Tail(left)) = k - 1 /\ \A i \in 1 .. k - 1 : Tail(left)[i] = left[i + 1]
  BY HeadTailProperties, LenProperties, EmptySeq
<1>2. new \in Fed /\ new.at = Head(left)
  BY <1>1 DEF Fed
<1>3. n \in Nat
  BY LenProperties
<1>4. Len(fed') = n + 1 /\ fed'[n + 1] = new /\ \A i \in 1 .. n : fed'[i] = fed[i]
  BY <1>2, <1>3, AppendProperties
<1> HIDE DEF new
<1>5. /\ n + k = Len(p)
      /\ \A i \in 1 .. n : fed[i].at[1] = p[i]
      /\ \A i \in 1 .. k : left[i][1] = p[n + i]
  BY DEF Fits
<1> HIDE DEF p, n, k
<1>6. \A i \in 1 .. n + 1 : fed'[i].at[1] = p[i]
  <2>1. 1 \in 1 .. k
    BY <1>1
  <2>2. fed'[n + 1].at[1] = p[n + 1]
    BY <1>1, <1>2, <1>4, <1>5, <2>1
  <2>3. \A i \in 1 .. n + 1 : i = n + 1 \/ i \in 1 .. n
    BY <1>3
  <2> QED
    BY <1>4, <1>5, <2>2, <2>3
<1>7. \A i \in 1 .. k - 1 : Tail(left)[i][1] = p[(n + 1) + i]
  <2> SUFFICES ASSUME NEW i \in 1 .. k - 1 PROVE Tail(left)[i][1] = p[(n + 1) + i]
    OBVIOUS
  <2>1. i + 1 \in 1 .. k /\ n + (i + 1) = (n + 1) + i
    BY <1>1, <1>3
  <2>2. left[i + 1][1] = p[n + (i + 1)]
    BY ONLY <1>5, <2>1
  <2> QED
    BY <1>1, <2>1, <2>2
<1>8. (n + 1) + (k - 1) = n + k
  BY <1>1, <1>3
<1>9. /\ Len(fed') + Len(left') = Len(p)
      /\ \A i \in 1 .. Len(fed') : fed'[i].at[1] = p[i]
      /\ \A i \in 1 .. Len(left') : left'[i][1] = p[Len(fed') + i]
  BY <1>1, <1>4, <1>5, <1>6, <1>7, <1>8
<1> QED
  BY <1>9 DEF Fits, p, AsePath

\* The shape of a basis is that of its rows.
LEMMA ShapeStays ==
  ASSUME UNCHANGED <<layer, rows>>, NEW name, Shaped(name)
  PROVE  Shaped(name)'
<1>1. Spanning' /\ (Bravais = "rectangular" => (Bravais = "rectangular")')
  BY DEF Shaped, Spanning, Det, Bravais, Trace
<1>2. Triangle => Triangle'
  BY DEF Triangle, Dot
<1>3. ReducedRows => ReducedRows'
  BY DEF ReducedRows, Dot
<1>4. Quarter => Quarter'
  BY DEF Quarter, Det, Trace
<1>5. Rectangle => Rectangle'
  BY DEF Rectangle, Mirrored, Det, Images
<1>6. Rhombus => Rhombus'
  BY DEF Rhombus, Mirrored, Det, Images
<1> QED
  BY <1>1, <1>2, <1>3, <1>4, <1>5, <1>6 DEF Shaped

\* The basis that the reduction of a lattice without a mirror alone ends with.
LEMMA StandardShape ==
  ASSUME OfLayers, Spanning, ReducedRows, Bravais # "rectangular",
         layer' = layer, rows' = Standard(Bravais), NEW name, name = NameOf(Bravais)
  PROVE  name \in Lattices /\ Shaped(name)'
<1>1. Bravais \in {"hexagonal", "square", "oblique"}
  BY DEF Bravais
<1>2. CASE Bravais = "hexagonal"
  <2>1. name = "HEX2D"
    BY ONLY <1>2, name = NameOf(Bravais) DEF NameOf
  <2>2. Unimodular(rows') /\ Dot(rows'[1], rows'[1]) = Dot(rows'[2], rows'[2])
        /\ 2 * Dot(rows'[1], rows'[2]) = -Dot(rows'[1], rows'[1])
    BY <1>2, HexagonStandard
  <2>3. Spanning'
    BY <2>2 DEF Unimodular, Spanning, Det
  <2>4. Triangle'
    BY <2>2 DEF Triangle, Dot
  <2> QED
    BY <2>1, <2>3, <2>4 DEF Shaped, Lattices
<1>3. CASE Bravais = "square"
  <2>1. name = "SQR"
    BY ONLY <1>3, name = NameOf(Bravais) DEF NameOf
  <2>2. rows' = rows
    BY <1>3, SquareStandard
  <2>3. Shaped("SQR")
    BY <1>3, SquareTurns DEF Shaped
  <2> QED
    BY <2>1, <2>2, <2>3, ShapeStays DEF Lattices
<1>4. CASE Bravais = "oblique"
  <2>1. name = "OBL"
    BY ONLY <1>4, name = NameOf(Bravais) DEF NameOf
  <2>2. Unimodular(rows')
    BY <1>4, ObliqueStandard
  <2>3. Spanning'
    BY <2>2 DEF Unimodular, Spanning, Det
  <2> QED
    BY <2>1, <2>3 DEF Shaped, Lattices
<1> QED
  BY <1>1, <1>2, <1>3, <1>4

\* The basis a mirror's ends with.
LEMMA MirrorShape ==
  ASSUME OfLayers, MirrorRows, Bravais = "rectangular", layer' = layer, rows' = Rectangular,
         NEW name, name = IF Primitive THEN "RECT" ELSE "CRECT"
  PROVE  Shaped(name)'
<1>1. Unimodular(rows')
  BY RectangularShape
<1>2. Spanning'
  BY <1>1 DEF Unimodular, Spanning, Det
<1>3. (Bravais = "rectangular")'
  BY DEF Bravais, Det, Trace
<1>4. Primitive => Rectangle'
  <2> SUFFICES ASSUME Primitive PROVE Rectangle'
    OBVIOUS
  <2>1. PICK m \in layer.blocks :
          Det(m) = -1 /\ (Images(m, rows'[1], rows'[2], 1, 0, 0, -1) \/ Images(m, rows'[1], rows'[2], -1, 0, 0, 1))
    BY RectangularShape, Zenon
  <2> QED
    BY ONLY <2>1, layer' = layer DEF Rectangle, Mirrored
<1>5. ~Primitive => Rhombus'
  <2> SUFFICES ASSUME ~Primitive PROVE Rhombus'
    OBVIOUS
  <2>1. PICK m \in layer.blocks :
          Det(m) = -1 /\ (Images(m, rows'[1], rows'[2], 0, 1, 1, 0) \/ Images(m, rows'[1], rows'[2], 0, -1, -1, 0))
    BY RectangularShape, Zenon
  <2> QED
    BY ONLY <2>1, layer' = layer DEF Rhombus, Mirrored
<1>6. (name = "RECT" /\ Primitive) \/ (name = "CRECT" /\ ~Primitive)
  OBVIOUS
<1> QED
  BY ONLY <1>2, <1>3, <1>4, <1>5, <1>6 DEF Shaped

LEMMA ReductionStep ==
  ASSUME IInv, LayerInv, vacuum = 1, PathNext
  PROVE  LayerInv'
<1>1. /\ fed \in Seq(Fed) /\ left \in Seq(V) /\ OfLayers /\ OnItsWay /\ (pc = "start" => rows = Own)
      /\ (pc = "reduce" => Bravais # "rectangular")
  BY DEF IInv, Follows, LayerInv
<1>2. CASE PathEnded
  <2>1. OfLayers' /\ (pc' = "start" => rows' = Own)
    BY <1>1, <1>2 DEF PathEnded, pathVars, OfLayers
  <2>2. CASE pc = "blocked"
    BY <1>2, <2>1, <2>2 DEF PathEnded, pathVars, LayerInv, OnItsWay
  <2>3. CASE pc = "done"
    <3>1. pc' = "done" /\ left' = <<>>
      BY <1>1, <1>2, <2>3 DEF PathEnded, pathVars, OnItsWay
    <3>2. PICK name \in Lattices : Shaped(name) /\ Fits(name)
      BY <1>1, <2>3 DEF OnItsWay
    <3>3. Shaped(name)'
      BY <1>2, <3>2, ShapeStays DEF PathEnded, pathVars
    <3>4. Fits(name)'
      BY <1>2, <3>2 DEF PathEnded, pathVars, Fits, AsePath
    <3> QED
      BY <2>1, <3>1, <3>3, <3>4 DEF LayerInv, OnItsWay
  <2> QED
    BY <1>1, <1>2, <2>2, <2>3 DEF PathEnded, OnItsWay
<1>3. CASE Start
  <2>1. OfLayers' /\ fed' = <<>> /\ pc' # "start"
    BY <1>1, <1>3 DEF Start, Merge, OfLayers, OnItsWay
  <2>2. CASE pc' = "reduce"
    <3>1. rows' = Own
      BY <1>1, <1>3, <2>2 DEF Start, Merge
    <3>2. Spanning'
      BY <3>1 DEF Spanning, Own, Det
    <3> QED
      BY <2>1, <2>2, <3>2 DEF LayerInv, OnItsWay
  <2>3. CASE pc' = "mirror"
    <3>1. PICK b \in layer.blocks : Det(b) = -1 /\ rows' = <<LineVector(b, 1), LineVector(b, -1)>>
      BY <1>3, <2>3 DEF Start, Merge
    <3>2. PICK a1 \in Int, a2 \in Int, c1 \in Int, c2 \in Int :
            /\ LineVector(b, 1) = <<a1, a2>> /\ LineVector(b, -1) = <<c1, c2>>
            /\ Along2(b, 1, a1, a2) /\ Along2(b, -1, c1, c2) /\ Spanned(a1, a2, c1, c2)
      BY <1>1, <3>1, MirrorFound, Zenon
    <3>3. rows' = <<<<a1, a2>>, <<c1, c2>>>>
      BY <3>1, <3>2
    <3>4. rows' \in (Int \X Int) \X (Int \X Int) /\ layer' = layer
      BY <1>3, <3>3 DEF Start
    <3>5. rows'[1][1] = a1 /\ rows'[1][2] = a2 /\ rows'[2][1] = c1 /\ rows'[2][2] = c2
      BY <3>3
    <3>6. MirrorRows'
      BY ONLY <3>1, <3>2, <3>4, <3>5, b \in layer.blocks DEF MirrorRows
    <3>7. (Bravais = "rectangular")'
      <4>1. Bravais = "rectangular"
        BY <1>3, <2>3 DEF Start, Merge
      <4> QED
        BY <3>4, <4>1 DEF Bravais, Det, Trace
    <3> QED
      BY <2>1, <2>3, <3>6, <3>7 DEF LayerInv, OnItsWay
  <2>4. CASE pc' = "blocked"
    BY <2>1, <2>4 DEF LayerInv, OnItsWay
  <2> QED
    BY <1>3, <2>2, <2>3, <2>4 DEF Start, Merge
<1>4. CASE Mirror
  <2>1. OfLayers' /\ fed' = <<>> /\ pc' = "merge" /\ layer' = layer /\ rows' = Rectangular
        /\ MirrorRows /\ Bravais = "rectangular"
    BY <1>1, <1>4 DEF Mirror, Merge, OfLayers, OnItsWay
  <2>2. PICK name \in Lattices : name = IF Primitive THEN "RECT" ELSE "CRECT"
    BY DEF Lattices
  <2>3. Shaped(name)'
    BY <1>1, <2>1, <2>2, MirrorShape
  <2>4. PICK basis : left' = Vertices(name, basis)
    BY <1>4, <2>2 DEF Mirror, Merge
  <2>5. Fits(name)'
    BY <2>1, <2>4, TableFits
  <2> QED
    BY <2>1, <2>3, <2>5 DEF LayerInv, OnItsWay
<1>5. CASE Swap
  <2>1. OfLayers' /\ fed' = <<>> /\ pc' = "reduce" /\ Spanning
    BY <1>1, <1>5 DEF Swap, Reducing, OfLayers, OnItsWay
  <2>2. Unimodular(rows')
    BY <1>5, <2>1, SwapSpans DEF Swap
  <2>3. Spanning'
    BY <2>2 DEF Unimodular, Spanning, Det
  <2> QED
    BY <2>1, <2>3 DEF LayerInv, OnItsWay
<1>6. CASE Subtract
  <2>1. OfLayers' /\ fed' = <<>> /\ pc' = "reduce" /\ Spanning
    BY <1>1, <1>6 DEF Subtract, Reducing, OfLayers, OnItsWay
  <2>2. PICK n \in Int : n = -Rounded(Dot(rows[1], rows[2]), Dot(rows[1], rows[1]))
    <3>1. Rounded(Dot(rows[1], rows[2]), Dot(rows[1], rows[1])) \in Int
      BY <1>1, <2>1, RowProducts, RoundedIs
    <3> QED
      BY <3>1
  <2>3. rows' = <<rows[1], Plus(rows[2], Times(n, rows[1]))>>
    BY <1>6, <2>1, <2>2 DEF Subtract, Spanning
  <2>4. Unimodular(rows')
    BY <2>1, <2>3, ShearSpans
  <2>5. Spanning'
    BY <2>4 DEF Unimodular, Spanning, Det
  <2> QED
    BY <2>1, <2>5 DEF LayerInv, OnItsWay
<1>7. CASE Reduced
  <2>1. OfLayers' /\ fed' = <<>> /\ pc' = "merge" /\ Spanning /\ layer' = layer /\ Bravais # "rectangular"
        /\ rows' = Standard(Bravais) /\ left' = Vertices(NameOf(Bravais), Standard(Bravais)) /\ ~Shorter /\ ProjectsShort
    BY <1>1, <1>7 DEF Reduced, Reducing, Merge, OfLayers, OnItsWay
  <2>2. ReducedRows
    BY <1>1, <2>1, RowProducts DEF Shorter, ProjectsShort, Abs, ReducedRows
  <2>3. PICK name : name = NameOf(Bravais)
    OBVIOUS
  <2>4. name \in Lattices /\ Shaped(name)'
    BY <1>1, <2>1, <2>2, <2>3, StandardShape
  <2>5. Fits(name)'
    BY <2>1, <2>3, <2>4, TableFits
  <2> QED
    BY <2>1, <2>4, <2>5 DEF LayerInv, OnItsWay
<1>8. CASE TakeOwn
  <2>1. /\ OfLayers' /\ pc = "merge" /\ pc' = "merge" /\ UNCHANGED <<layer, rows>> /\ left # <<>>
        /\ fed' = Append(fed, [at |-> Head(left), opens |-> fed = <<>>]) /\ left' = Tail(left)
    BY <1>1, <1>8 DEF TakeOwn, Take, OfLayers, OnItsWay
  <2>2. PICK name \in Lattices : Shaped(name) /\ Fits(name)
    BY <1>1, <2>1 DEF OnItsWay
  <2>3. Shaped(name)'
    BY <2>1, <2>2, ShapeStays
  <2>4. Fits(name)'
    BY <1>1, <2>1, <2>2, OneTaken
  <2> QED
    BY <2>1, <2>3, <2>4 DEF LayerInv, OnItsWay
<1>9. CASE TakeBulk
  BY <1>9 DEF TakeBulk
<1>10. CASE Finish
  <2>1. /\ OfLayers' /\ pc = "merge" /\ pc' = "done" /\ UNCHANGED <<layer, rows, fed, left>> /\ left' = <<>>
    BY <1>1, <1>10 DEF Finish, OfLayers, OnItsWay
  <2>2. PICK name \in Lattices : Shaped(name) /\ Fits(name)
    BY <1>1, <2>1 DEF OnItsWay
  <2>3. Shaped(name)'
    BY <2>1, <2>2, ShapeStays
  <2>4. Fits(name)'
    BY <2>1, <2>2 DEF Fits, AsePath
  <2> QED
    BY <2>1, <2>3, <2>4 DEF LayerInv, OnItsWay
<1> QED
  BY <1>2, <1>3, <1>4, <1>5, <1>6, <1>7, <1>8, <1>9, <1>10 DEF PathNext, MakePath

\* A number of vacuum axes stays as it is.
LEMMA VacuumStays ==
  ASSUME PathNext
  PROVE  vacuum' = vacuum
BY DEF PathNext, MakePath, PathEnded, pathVars, Start, Mirror, Swap, Subtract, Reduced, Reducing, TakeOwn,
       TakeBulk, Take, Finish

LEMMA UnchangedLayer ==
  ASSUME LayerInv, UNCHANGED pathVars
  PROVE  LayerInv'
<1> SUFFICES ASSUME vacuum = 1 PROVE OfLayers' /\ OnItsWay' /\ (pc' = "start" => rows' = Own)
  BY DEF LayerInv, pathVars
<1>1. OfLayers' /\ (pc' = "start" => rows' = Own)
  BY DEF LayerInv, pathVars, OfLayers
<1>2. OnItsWay
  BY DEF LayerInv
<1>3. CASE pc = "start" /\ fed = <<>>
  BY <1>1, <1>3 DEF OnItsWay, pathVars
<1>4. CASE pc = "reduce" /\ Spanning /\ fed = <<>>
  <2>1. Spanning'
    BY <1>4 DEF Spanning, Det, pathVars
  <2> QED
    BY <1>1, <1>4, <2>1 DEF OnItsWay, pathVars
<1>5. CASE pc = "mirror" /\ MirrorRows /\ Bravais = "rectangular" /\ fed = <<>>
  <2>1. MirrorRows' /\ (Bravais = "rectangular")'
    BY <1>5 DEF MirrorRows, pathVars, Bravais, Det, Trace
  <2> QED
    BY <1>1, <1>5, <2>1 DEF OnItsWay, pathVars
<1>6. CASE /\ pc \in {"merge", "done"}
           /\ \E name \in Lattices : Shaped(name) /\ Fits(name)
           /\ pc = "done" => left = <<>>
  <2>1. PICK name \in Lattices : Shaped(name) /\ Fits(name)
    BY <1>6
  <2>2. Shaped(name)'
    BY <2>1, ShapeStays DEF pathVars
  <2>3. Fits(name)'
    BY <2>1 DEF Fits, pathVars, AsePath
  <2> QED
    BY <1>1, <1>6, <2>2, <2>3 DEF OnItsWay, pathVars
<1>7. CASE pc = "blocked"
  BY <1>1, <1>7 DEF OnItsWay, pathVars
<1> QED
  BY <1>2, <1>3, <1>4, <1>5, <1>6, <1>7 DEF OnItsWay

LEMMA LayerInvariance == Spec => []LayerInv
<1>1. Init => LayerInv
  <2>1. ASSUME sampled = "mesh", NoPath PROVE LayerInv
    <3>1. vacuum # 1
      BY <2>1, NoneIsNoDistance DEF NoPath
    <3> QED
      BY <3>1 DEF LayerInv
  <2>2. ASSUME PathInit PROVE LayerInv
    BY <2>2 DEF PathInit, LayerInv, OfLayers, OnItsWay
  <2> QED
    BY <2>1, <2>2 DEF Init
<1>2. IInv /\ LayerInv /\ [Next]_vars => LayerInv'
  <2> SUFFICES ASSUME IInv, LayerInv, [Next]_vars PROVE LayerInv'
    OBVIOUS
  <2>1. CASE UNCHANGED pathVars
    BY <2>1, UnchangedLayer
  <2>2. CASE PathNext
    <3>1. vacuum # 1 => LayerInv'
      BY <2>2, VacuumStays DEF LayerInv
    <3> QED
      BY <2>2, <3>1, ReductionStep
  <2> QED
    BY <2>1, <2>2 DEF Next, vars
<1> QED
  BY <1>1, <1>2, Invariance, PTL DEF Spec

\* Each table is recognised by its labels.
LEMMA TablesDiffer ==
  ASSUME NEW name \in Lattices, NEW other \in Lattices, AsePath[name] = AsePath[other]
  PROVE  name = other
<1> DEFINE Ends(p) == <<Len(p), p[1]>>
<1>1. /\ Ends(AsePath["HEX2D"]) = <<4, "Gamma">> /\ Ends(AsePath["SQR"]) = <<4, "M">>
      /\ Ends(AsePath["RECT"]) = <<6, "Gamma">> /\ Ends(AsePath["CRECT"]) = <<5, "Gamma">>
      /\ Ends(AsePath["OBL"]) = <<7, "Gamma">>
  BY DEF AsePath
<1>2. Ends(AsePath[name]) = Ends(AsePath[other])
  OBVIOUS
<1> HIDE DEF Ends
<1> QED
  BY <1>1, <1>2 DEF Lattices

LEMMA NameOfTheLayer ==
  ASSUME fed \in Seq(Fed), left = <<>>, NEW name \in Lattices, Fits(name)
  PROVE  LayerName = name
<1> DEFINE p == AsePath[name]
           taken == [i \in DOMAIN fed |-> fed[i].at[1]]
<1>1. DOMAIN fed = 1 .. Len(fed) /\ Len(fed) \in Nat
  BY LenProperties
<1>2. DOMAIN p = 1 .. Len(p) /\ Len(p) \in Nat /\ p = [i \in 1 .. Len(p) |-> p[i]]
  <2>1. p \in Seq(LayerLabels)
    BY AsePathIs
  <2> HIDE DEF p
  <2>2. Len(p) \in Nat /\ p \in [1 .. Len(p) -> LayerLabels]
    BY <2>1, LenProperties
  <2> QED
    BY <2>2
<1>3. Len(fed) = Len(p) /\ \A i \in 1 .. Len(fed) : fed[i].at[1] = p[i]
  <2>1. Len(left) = 0
    BY EmptySeq
  <2> QED
    BY <1>1, <1>2, <2>1 DEF Fits
<1> HIDE DEF p
<1>4. taken = p
  <2>1. taken = [i \in 1 .. Len(p) |-> fed[i].at[1]]
    BY <1>1, <1>3
  <2> QED
    BY <1>2, <1>3, <2>1
<1>5. DOMAIN AsePath = Lattices
  BY DEF AsePath, Lattices
<1> HIDE DEF taken
<1>6. \E n \in Lattices : AsePath[n] = taken
  BY <1>4 DEF p
<1>7. LayerName = CHOOSE n \in Lattices : AsePath[n] = taken
  BY <1>5 DEF LayerName, taken
<1>8. LayerName \in Lattices /\ AsePath[LayerName] = taken
  BY <1>6, <1>7
<1> QED
  BY <1>4, <1>8, TablesDiffer DEF p

\* The standard basis of a layer spans its lattice and the labels of its path
\* stand at points of special symmetry, whatever basis the layer is given in and
\* whichever its symmetry operations are: _layer_path in advisors/k_path.py.
THEOREM LabelsStandOnSymmetry == Spec => []LabelsAreSpecial
<1>1. IInv /\ LayerInv => LabelsAreSpecial
  <2> SUFFICES ASSUME IInv, LayerInv, pc = "done", vacuum = 1
               PROVE  /\ Abs(Det(rows)) = 1
                      /\ \A label \in DOMAIN AsePoint[LayerName] : Special(LayerName, label)
    BY DEF LabelsAreSpecial
  <2>1. OfLayers /\ OnItsWay /\ left = <<>> /\ fed \in Seq(Fed)
    BY DEF LayerInv, OnItsWay, IInv, Follows
  <2>2. PICK name \in Lattices : Shaped(name) /\ Fits(name)
    BY <2>1 DEF OnItsWay
  <2>3. LayerName = name
    BY <2>1, <2>2, NameOfTheLayer
  <2>4. Abs(Det(rows)) = 1
    <3>1. Det(rows) = 1 \/ Det(rows) = -1
      BY <2>2 DEF Shaped, Spanning
    <3> QED
      BY <3>1 DEF Abs
  <2>5. \A label \in DOMAIN AsePoint[name] : Special(name, label)
    BY <2>1, <2>2, StandsFor DEF Lattices
  <2> QED
    BY <2>3, <2>4, <2>5
<1> QED
  BY <1>1, Invariance, LayerInvariance, PTL
=============================================================================
