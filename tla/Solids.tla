------------------------------- MODULE Solids -------------------------------
(***************************************************************************)
(* The solids of a scene: cuboids, chess boards, thin rings and meshes of  *)
(* triangles, the unions, intersections, complements and differences built *)
(* of them, how they are moved and turned, what they contain, where a ray  *)
(* crosses them, and what is left of them after the archive in which the   *)
(* server sends a scene.                                                   *)
(*                                                                         *)
(* A number of the code is an integer here (one unit is any length much    *)
(* larger than EPSILON), or a fraction where two are divided: <<p, w>>     *)
(* stands for the point p / w.  Turns are by a quarter.                    *)
(***************************************************************************)
EXTENDS Integers, Sequences, FiniteSets

REFRACTION_VACUUM == 1
REFRACTION_GLASS == 3

Abs(n) == IF n < 0 THEN -n ELSE n
-----------------------------------------------------------------------------
(* Vectors. *)

Origin == <<0, 0, 0>>
Plus(v, w) == <<v[1] + w[1], v[2] + w[2], v[3] + w[3]>>
Times(k, v) == <<k * v[1], k * v[2], k * v[3]>>
Minus(v, w) == Plus(v, Times(-1, w))
DotProduct(v, w) == v[1] * w[1] + v[2] * w[2] + v[3] * w[3]
CrossProduct(v, w) == <<v[2] * w[3] - v[3] * w[2], v[3] * w[1] - v[1] * w[3],
                        v[1] * w[2] - v[2] * w[1]>>

\* Of a vector along an axis; of any other, some vector in its direction.
Sign(n) == IF n > 0 THEN 1 ELSE IF n < 0 THEN -1 ELSE 0
UnitVector(v) ==
  IF Cardinality({i \in 1 .. 3 : v[i] # 0}) = 1
    THEN <<Sign(v[1]), Sign(v[2]), Sign(v[3])>> ELSE v

Axes == 1 .. 3
Basis == <<<<1, 0, 0>>, <<0, 1, 0>>, <<0, 0, 1>>>>

\* A quarter turn, counterclockwise: a = cos(90) = 0 and b = sin(90) = 1.
Spin(axis, v) ==
  CASE axis = 1 -> <<v[1], -v[3], v[2]>>
    [] axis = 2 -> <<v[3], v[2], -v[1]>>
    [] axis = 3 -> <<-v[2], v[1], v[3]>>
-----------------------------------------------------------------------------
(* The classes, and the fields each serialize() names. *)

Cuboids == {"Cuboid", "ChessBoard"}
Reorientable == Cuboids \union {"ThinRing"}
Leaves == Reorientable \union {"TriangleMesh"}
BinaryOperators == {"SetUnion", "SetIntersection"}

Archived ==
  [Cuboid          |-> {"center", "optics", "index", "dirs", "size"},
   ChessBoard      |-> {"center", "optics", "index", "dirs", "size",
                        "innerSize", "light", "dark"},
   ThinRing        |-> {"center", "optics", "index", "dirs", "r1"},
   TriangleMesh    |-> {"center", "optics", "index", "points", "triangles"},
   SetUnion        |-> {"center", "optics", "index", "left", "right"},
   SetIntersection |-> {"center", "optics", "index", "left", "right"},
   SetComplement   |-> {"center", "optics", "index", "other"}]

\* Opacity, matte and gloss of a surface; the parts that a set gives its
\* own surface are never looked at.
Plain == [opacity |-> 0, matte |-> 0, gloss |-> 0]

Cuboid(a, b, c, optics) ==
  [kind |-> "Cuboid", center |-> Origin, optics |-> optics,
   index |-> REFRACTION_GLASS, dirs |-> Basis,
   size |-> <<a, b, c>>]

\* innerSize and the borders are even.
ChessBoard(innerSize, xBorder, yBorder, thickness, light, dark, optics) ==
  [kind |-> "ChessBoard", center |-> Origin, optics |-> optics,
   index |-> REFRACTION_GLASS, dirs |-> Basis,
   size |-> <<innerSize \div 2 + xBorder, innerSize \div 2 + yBorder,
              thickness \div 2>>,
   innerSize |-> innerSize, light |-> light, dark |-> dark]

ThinRing(r1, r2, optics) ==
  [kind |-> "ThinRing", center |-> Origin, optics |-> optics,
   index |-> REFRACTION_GLASS, dirs |-> Basis,
   r1 |-> r1, r2 |-> r2]

\* Points are numbered from 1.  A triangle's corners are in counterclockwise
\* order as seen from outside.
TriangleMesh(center, points, triangles) ==
  [kind |-> "TriangleMesh", center |-> center, optics |-> Plain,
   index |-> REFRACTION_GLASS, points |-> points, triangles |-> triangles]

Triangle(a, b, c, optics) == [a |-> a, b |-> b, c |-> c, optics |-> optics]
Quad(a, b, c, d, optics) == <<Triangle(a, b, c, optics), Triangle(c, d, a, optics)>>

\* What AddPoint and AddTriangle refuse.
ValidMesh(s) ==
  \A n \in DOMAIN s.triangles :
    LET t == s.triangles[n]
    IN  {t.a, t.b, t.c} \subseteq DOMAIN s.points /\ Cardinality({t.a, t.b, t.c}) = 3

Binary(kind, center, left, right) ==
  [kind |-> kind, center |-> center, optics |-> Plain,
   index |-> REFRACTION_GLASS, left |-> left, right |-> right]

SetUnion(center, left, right) == Binary("SetUnion", center, left, right)
SetIntersection(center, left, right) ==
  Binary("SetIntersection", center, left, right)

SetComplement(other) ==
  [kind |-> "SetComplement", center |-> other.center, optics |-> Plain,
   index |-> REFRACTION_GLASS, other |-> other]

SetDifference(center, left, right) ==
  SetIntersection(center, left, SetComplement(right))

SetRefraction(s, n) == [s EXCEPT !.index = n]
-----------------------------------------------------------------------------
(* Moving and turning. *)

RECURSIVE Translate(_, _), Rotate(_, _)

\* Mistakes one could make in what follows.

\* a set that moves keeps the center it turns about
TranslateOperandsOnly(s, d) ==
  CASE s.kind \in Reorientable    -> [s EXCEPT !.center = Plus(@, d)]
    [] s.kind = "TriangleMesh"    ->
         [s EXCEPT !.center = Plus(@, d),
                   !.points = [n \in DOMAIN @ |-> Plus(@[n], d)]]
    [] s.kind = "SetComplement"   -> [s EXCEPT !.other = Translate(@, d)]
    [] s.kind \in BinaryOperators -> [s EXCEPT !.left = Translate(@, d),
                                               !.right = Translate(@, d)]

Translate(s, d) ==
  LET moved == [s EXCEPT !.center = Plus(@, d)] IN
  CASE s.kind \in Reorientable    -> moved
    [] s.kind = "TriangleMesh"    ->
         [moved EXCEPT !.points = [n \in DOMAIN @ |-> Plus(@[n], d)]]
    [] s.kind = "SetComplement"   -> [moved EXCEPT !.other = Translate(@, d)]
    [] s.kind \in BinaryOperators -> [moved EXCEPT !.left = Translate(@, d),
                                                   !.right = Translate(@, d)]

Move(s, c) == Translate(s, Minus(c, s.center))

\* The operand is turned about its own center, which is then turned about
\* the center of the set.
NestedRotate(nested, axis, c) ==
  Move(Rotate(nested, axis), Plus(c, Spin(axis, Minus(nested.center, c))))

Rotate(s, axis) ==
  CASE s.kind \in Reorientable ->
         [s EXCEPT !.dirs = <<Spin(axis, @[1]), Spin(axis, @[2]), Spin(axis, @[3])>>]
    [] s.kind = "TriangleMesh" ->
         [s EXCEPT !.points = [n \in DOMAIN @ |->
                     Plus(s.center, Spin(axis, Minus(@[n], s.center)))]]
    [] s.kind = "SetComplement" ->
         [s EXCEPT !.other = Rotate(@, axis)]
    [] s.kind \in BinaryOperators ->
         [s EXCEPT !.left = NestedRotate(@, axis, s.center),
                   !.right = NestedRotate(@, axis, s.center)]

\* 1/100 of the code's unit.
ConcreteBlock(center, optics) ==
  LET hole(y) == Move(Cuboid(600, 650, 801, optics), <<0, y, 0>>)
  IN  Move(SetDifference(Origin, Cuboid(800, 1600, 800, optics),
                         SetUnion(Origin, hole(750), hole(-750))), center)
-----------------------------------------------------------------------------
(* Camera space and object space. *)

ObjectDirFromCameraDir(s, v) ==
  <<DotProduct(v, s.dirs[1]), DotProduct(v, s.dirs[2]), DotProduct(v, s.dirs[3])>>

ObjectPointFromCameraPoint(s, p, w) ==
  ObjectDirFromCameraDir(s, Minus(p, Times(w, s.center)))

\* The inverse of the turn is its transpose.
UpdateInverseRotation(s) ==
  LET column(i) == <<s.dirs[1][i], s.dirs[2][i], s.dirs[3][i]>>
  IN  <<column(1), column(2), column(3)>>

CameraDirFromObjectDir(s, v) ==
  LET dirs == UpdateInverseRotation(s)
  IN  <<DotProduct(v, dirs[1]), DotProduct(v, dirs[2]), DotProduct(v, dirs[3])>>

CameraPointFromObjectPoint(s, p, w) ==
  Plus(Times(w, s.center), CameraDirFromObjectDir(s, p))
-----------------------------------------------------------------------------
(* Crossings: a ray from v in direction d is at v + (num / den) d, which is *)
(* point / den, on a surface of solid, whose outward normal is normal; the  *)
(* context is a triangle.                                                  *)

\* den is positive.
Fraction(num, den) ==
  IF num % den = 0 THEN <<num \div den, 1>> ELSE <<num, den>>

\* SolveLinearEquations finds u, v, w with  u d + v (A-B) + w (A-C) = A - p,
\* unless one of the numbers it divides by is zero.
Solves(d, ab, ac) ==
  LET b == ab[1] * ac[2] - ac[1] * ab[2]
      a == d[1] * ac[2] - ac[1] * d[2]
      dd == d[2] * ac[3] - ac[2] * d[3]
      e == ab[2] * ac[3] - ac[2] * ab[3]
  IN  ac[1] # 0 /\ b # 0 /\ a * e - b * dd # 0

\* The solution, which is unique, by Cramer's rule.
Solution(sign, det, d, ab, ac, ap) ==
  [det |-> sign * det,
   u |-> sign * DotProduct(ap, CrossProduct(ab, ac)),
   v |-> sign * DotProduct(d, CrossProduct(ap, ac)),
   w |-> sign * DotProduct(d, CrossProduct(ab, ap))]

Determinant(d, ab, ac) == DotProduct(d, CrossProduct(ab, ac))

SolveLinearEquations(d, ab, ac, ap) ==
  IF Solves(d, ab, ac)
    THEN <<Solution(Sign(Determinant(d, ab, ac)), Determinant(d, ab, ac),
                    d, ab, ac, ap)>>
    ELSE <<>>

AttemptPlaneIntersection(p, d, A, B, C) ==
  SolveLinearEquations(d, Minus(A, B), Minus(A, C), Minus(A, p))

\* The attempts that succeed, of the three orders of the corners.
Attempts(p, d, A, B, C) ==
  AttemptPlaneIntersection(p, d, A, B, C) \o AttemptPlaneIntersection(p, d, B, C, A)
    \o AttemptPlaneIntersection(p, d, C, A, B)

IsInside(x) == x.v >= 0 /\ x.w >= 0 /\ x.v + x.w <= x.det /\ x.u > 0

HitAt(u, s, t, p, d, normal) ==
  [num |-> u[1], den |-> u[2], solid |-> s, context |-> t,
   normal |-> normal, point |-> Plus(Times(u[2], p), Times(u[1], d))]

FirstInside(attempts, s, t, p, d, normal) ==
  IF attempts # <<>> /\ IsInside(attempts[1])
    THEN <<HitAt(Fraction(attempts[1].u, attempts[1].det), s, t, p, d, normal)>>
    ELSE <<>>

CornersMet(A, B, C, s, t, p, d) ==
  FirstInside(Attempts(p, d, A, B, C), s, t, p, d,
              UnitVector(CrossProduct(Minus(B, A), Minus(C, B))))

\* The mesh scaled by w.
TriangleIntersection(s, t, p, d, w) ==
  CornersMet(Times(w, s.points[t.a]), Times(w, s.points[t.b]),
             Times(w, s.points[t.c]), s, t, p, d)

RECURSIVE MeshIntersections(_, _, _, _, _)
MeshIntersections(s, triangles, p, d, w) ==
  IF triangles = <<>> THEN <<>>
  ELSE TriangleIntersection(s, Head(triangles), p, d, w) \o
       MeshIntersections(s, Tail(triangles), p, d, w)
-----------------------------------------------------------------------------
(* Containment. *)

Squared(p) == p[1] * p[1] + p[2] * p[2]

ObjectSpace_Contains(s, p, w) ==
  IF s.kind \in Cuboids
    THEN \A i \in Axes : Abs(p[i]) <= w * s.size[i]
    ELSE /\ p[3] = 0
         /\ (w * s.r1) * (w * s.r1) <= Squared(p)
         /\ Squared(p) <= (w * s.r2) * (w * s.r2)

\* A mistake: every crossing counts as one out of the mesh.
Crossed(s, p, w) == Len(MeshIntersections(s, s.triangles, p, Basis[3], w))

LeavesLessEntries(hits) ==
  Cardinality({n \in DOMAIN hits : hits[n].normal[3] > 0}) -
  Cardinality({n \in DOMAIN hits : hits[n].normal[3] < 0})

\* How often a ray upwards leaves the mesh, less how often it enters it.
Enclosure(s, p, w) ==
  LeavesLessEntries(MeshIntersections(s, s.triangles, p, Basis[3], w))

RECURSIVE Contains(_, _, _), ContainsThrows(_, _, _)
Contains(s, p, w) ==
  CASE s.kind \in Reorientable ->
         ObjectSpace_Contains(s, ObjectPointFromCameraPoint(s, p, w), w)
    [] s.kind = "TriangleMesh" -> Enclosure(s, p, w) = 1
    [] s.kind = "SetUnion" -> Contains(s.left, p, w) \/ Contains(s.right, p, w)
    [] s.kind = "SetIntersection" ->
         Contains(s.left, p, w) /\ Contains(s.right, p, w)
    [] s.kind = "SetComplement" -> ~Contains(s.other, p, w)

\* "Cannot determine containment."
ContainsThrows(s, p, w) ==
  CASE s.kind \in Reorientable -> FALSE
    [] s.kind = "TriangleMesh" -> Enclosure(s, p, w) \notin {0, 1}
    [] s.kind = "SetUnion" ->
         \/ ContainsThrows(s.left, p, w)
         \/ ~Contains(s.left, p, w) /\ ContainsThrows(s.right, p, w)
    [] s.kind = "SetIntersection" ->
         \/ ContainsThrows(s.left, p, w)
         \/ Contains(s.left, p, w) /\ ContainsThrows(s.right, p, w)
    [] s.kind = "SetComplement" -> ContainsThrows(s.other, p, w)
-----------------------------------------------------------------------------
(* The color of a surface. *)

SquareCoordinate(s, xy, w) ==
  LET square == (8 * xy + 4 * s.innerSize * w) \div (s.innerSize * w)
  IN  IF square < 0 THEN 0 ELSE IF square > 7 THEN 7 ELSE square

\* optics of a chess board is that of its border.
ObjectSpace_SurfaceOptics(s, p, w) ==
  IF /\ s.kind = "ChessBoard"
     /\ p[3] >= w * s.size[3]
     /\ \A i \in {1, 2} : 2 * Abs(p[i]) < w * s.innerSize
    THEN LET x == SquareCoordinate(s, p[1], w)
             y == SquareCoordinate(s, p[2], w)
         IN  [s.optics EXCEPT !.matte = IF (x + y) % 2 = 0 THEN s.dark
                                                           ELSE s.light]
    ELSE s.optics

SurfaceOptics(h) ==
  IF h.solid.kind = "TriangleMesh" THEN h.context.optics
  ELSE ObjectSpace_SurfaceOptics(
         h.solid, ObjectPointFromCameraPoint(h.solid, h.point, h.den), h.den)
-----------------------------------------------------------------------------
(* Where a ray crosses other solids. *)

\* Where the ray meets the plane p[i] = at.
OnPlane(s, v, d, i, at, normal) ==
  LET den == Abs(d[i])
      num == IF d[i] > 0 THEN at - v[i] ELSE v[i] - at
  IN  [num |-> num, den |-> den, normal |-> normal, solid |-> s,
       context |-> <<>>, point |-> Plus(Times(den, v), Times(num, d))]

Faces == <<<<1, 1>>, <<1, -1>>, <<2, 1>>, <<2, -1>>, <<3, 1>>, <<3, -1>>>>

CuboidIntersections(s, v, d) ==
  LET faces == SelectSeq(Faces, LAMBDA f : d[f[1]] # 0)
      meets == [n \in DOMAIN faces |->
                  LET i == faces[n][1]  side == faces[n][2]
                  IN  OnPlane(s, v, d, i, side * s.size[i], Times(side, Basis[i]))]
  IN  SelectSeq(meets, LAMBDA h :
        h.num > 0 /\ ObjectSpace_Contains(s, h.point, h.den))

\* The side of the ring that is seen is the one the ray comes from.
RingIntersections(s, v, d) ==
  LET h == OnPlane(s, v, d, 3, 0, <<0, 0, IF v[3] >= 0 THEN 1 ELSE -1>>)
  IN  IF d[3] # 0 /\ h.num > 0 /\ ObjectSpace_Contains(s, h.point, h.den)
        THEN <<h>> ELSE <<>>

InCameraSpace(s, hits) ==
  [n \in DOMAIN hits |->
    [hits[n] EXCEPT
       !.point = CameraPointFromObjectPoint(s, @, hits[n].den),
       !.normal = CameraDirFromObjectDir(s, @)]]

ObjectSpace_AppendAllIntersections(s, v, d) ==
  IF s.kind \in Cuboids THEN CuboidIntersections(s, v, d)
                        ELSE RingIntersections(s, v, d)

ReorientableIntersections(s, vantage, direction) ==
  InCameraSpace(s, ObjectSpace_AppendAllIntersections(
                     s, ObjectPointFromCameraPoint(s, vantage, 1),
                     ObjectDirFromCameraDir(s, direction)))

\* The normals of a complement point to where the other solid is not.
Inverted(hits) ==
  [n \in DOMAIN hits |-> [hits[n] EXCEPT !.normal = Times(-1, @)]]

RECURSIVE AppendAllIntersections(_, _, _)

\* A mistake: a hit with one operand is one with the set wherever it is.
AppendAnyIntersections(a, b, v, d) == AppendAllIntersections(a, v, d)

AppendOverlappingIntersections(a, b, v, d) ==
  SelectSeq(AppendAllIntersections(a, v, d),
            LAMBDA h : Contains(b, h.point, h.den))

AppendAllIntersections(s, v, d) ==
  CASE s.kind \in Reorientable -> ReorientableIntersections(s, v, d)
    [] s.kind = "TriangleMesh" -> MeshIntersections(s, s.triangles, v, d, 1)
    [] s.kind = "SetUnion" ->
         AppendAllIntersections(s.left, v, d) \o
         AppendAllIntersections(s.right, v, d)
    [] s.kind = "SetIntersection" ->
         AppendOverlappingIntersections(s.left, s.right, v, d) \o
         AppendOverlappingIntersections(s.right, s.left, v, d)
    [] s.kind = "SetComplement" ->
         Inverted(AppendAllIntersections(s.other, v, d))

\* Containment in the other operand cannot be determined.
OverlapThrows(hits, b) ==
  \E n \in DOMAIN hits : ContainsThrows(b, hits[n].point, hits[n].den)

RECURSIVE AppendThrows(_, _, _)
AppendThrows(s, v, d) ==
  CASE s.kind \in Leaves -> FALSE
    [] s.kind = "SetComplement" -> AppendThrows(s.other, v, d)
    [] s.kind = "SetUnion" ->
         AppendThrows(s.left, v, d) \/ AppendThrows(s.right, v, d)
    [] s.kind = "SetIntersection" ->
         \/ AppendThrows(s.left, v, d) \/ AppendThrows(s.right, v, d)
         \/ OverlapThrows(AppendAllIntersections(s.left, v, d), s.right)
         \/ OverlapThrows(AppendAllIntersections(s.right, v, d), s.left)
-----------------------------------------------------------------------------
(* The archive: the receiver constructs an object of the class by default  *)
(* and overwrites the fields that serialize() names.                       *)

DefaultField(field) ==
  CASE field \in {"r1", "r2", "innerSize", "light", "dark"} -> 0
    [] field = "size"   -> Origin
    [] field = "center" -> Origin
    [] field \in {"points", "triangles"} -> <<>>
    [] field = "dirs"   -> Basis
    [] field = "optics" -> Plain
    [] field = "index"  -> REFRACTION_GLASS

RECURSIVE Load(_)
Load(s) ==
  [field \in DOMAIN s |->
     CASE field = "kind" -> s[field]
       [] field \notin Archived[s.kind] -> DefaultField(field)
       [] field \in {"left", "right", "other"} -> Load(s[field])
       [] OTHER -> s[field]]
=============================================================================
