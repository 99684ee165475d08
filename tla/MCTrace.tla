------------------------------ MODULE MCTrace ------------------------------
(* Small scenes for Trace. *)
EXTENDS Trace

Glass == [opacity |-> 0, matte |-> 0, gloss |-> 0]
Mirror == [opacity |-> 64, matte |-> 0, gloss |-> 64]
Paint == [opacity |-> 64, matte |-> 64, gloss |-> 0]
Tinted == [opacity |-> 32, matte |-> 32, gloss |-> 32]

\* The board is painted in two shades.
Surfaces_ == {Glass, Mirror, Paint, Tinted, [Paint EXCEPT !.matte = 16]}

X == <<1, 0, 0>>  Y == <<0, 1, 0>>  Z == <<0, 0, 1>>
At3(s, x, y, z) == Move(s, <<x, y, z>>)

\* The block of the program's own tests, of glass, through a wall, through
\* the holes and between them.
Block ==
  [solids |-> <<ConcreteBlock(<<0, 0, -5000>>, Glass)>>,
   light |-> Nothing,
   rays |-> {<<<<-3000, 750, -5000>>, X>>, <<<<100, 3000, -5100>>, Times(-1, Y)>>,
             <<<<700, 100, 0>>, Times(-1, Z)>>, <<<<100, 750, 0>>, Times(-1, Z)>>},
   probes |-> {<<<<0, 750, -5000>>, <<1, 1, 0>>>>, <<<<-900, -1700, -4100>>, <<1, 2, -1>>>>},
   places |-> {<<0, 0, -6000>>, <<1000, 200, -5000>>}]

\* Two mirrors that face each other, the camera between them.
Mirrors ==
  [solids |-> <<At3(Cuboid(4, 4, 1, Mirror), 0, 0, -10),
                At3(Cuboid(4, 4, 1, Mirror), 0, 0, 10)>>,
   light |-> Nothing,
   rays |-> {<<Origin, Z>>, <<<<2, 0, 0>>, Y>>},
   probes |-> {<<Origin, <<1, 1, 2>>>>},
   places |-> {<<0, 5, -7>>}]

\* A union of tinted cuboids that overlap, and a lamp.
Lens ==
  [solids |-> <<SetUnion(<<1, 0, -8>>, At3(Cuboid(3, 2, 3, Tinted), 0, 0, -8),
                         At3(Cuboid(3, 4, 5, Tinted), 2, 1, -9))>>,
   light |-> <<0, 0, 6>>,
   rays |-> {<<Origin, Times(-1, Z)>>, <<<<1, 1, 0>>, Times(-1, Z)>>},
   probes |-> {<<<<-6, 0, -8>>, X>>, <<<<-6, -5, -9>>, <<2, 1, 0>>>>},
   places |-> {<<0, 0, -14>>}]

\* Glass, and in it the bite of a cuboid out of another, filled with ice.
Nested ==
  [solids |-> <<SetRefraction(At3(Cuboid(2, 9, 2, Glass), 1, 0, -11), 2),
                SetDifference(<<0, 0, -11>>, At3(Cuboid(5, 5, 7, Glass), 0, 0, -11),
                              At3(Cuboid(3, 6, 3, Glass), 0, 0, -12))>>,
   light |-> Nothing,
   rays |-> {<<Origin, Times(-1, Z)>>, <<<<-20, 1, -12>>, X>>, <<<<0, 20, -12>>, Times(-1, Y)>>},
   probes |-> {<<<<-9, -9, -11>>, <<1, 1, 0>>>>},
   places |-> {<<0, 1, -9>>, <<2, 0, -13>>}]

\* A board under a lamp and cuboids that touch it and each other.
Board ==
  [solids |-> <<At3(ChessBoard(8, 2, 2, 2, 64, 16, Paint), 0, 0, -9),
                At3(Cuboid(1, 1, 2, Tinted), 1, 1, -6),
                At3(Cuboid(1, 2, 2, Glass), 3, 1, -6)>>,
   light |-> <<1, 3, 4>>,
   rays |-> {<<<<1, 3, 0>>, Times(-1, Z)>>, <<<<1, 1, 0>>, Times(-1, Z)>>,
             <<<<2, 1, 0>>, Times(-1, Z)>>, <<<<9, 1, -6>>, Times(-1, X)>>},
   probes |-> {<<<<-7, -7, 0>>, <<1, 1, -1>>>>, <<<<2, -5, 0>>, <<0, 1, -1>>>>},
   places |-> {<<2, 1, -6>>}]

\* Saturn, its ring around a cuboid.
Saturn ==
  [solids |-> <<SetUnion(Origin, Cuboid(2, 2, 2, Paint), ThinRing(3, 6, Paint))>>,
   light |-> <<20, 0, 20>>,
   rays |-> {<<<<4, 0, 20>>, Times(-1, Z)>>, <<<<0, 0, 20>>, Times(-1, Z)>>},
   probes |-> {<<<<9, 0, 5>>, <<-1, 0, -1>>>>},
   places |-> {<<0, 0, -10>>}]

\* A pyramid without its top, of quads.
FrustumMesh(c, top, bottom, optics) ==
  TriangleMesh(c,
    <<Plus(c, <<top, top, 1>>), Plus(c, <<-top, top, 1>>),
      Plus(c, <<-top, -top, 1>>), Plus(c, <<top, -top, 1>>),
      Plus(c, <<bottom, bottom, -1>>), Plus(c, <<-bottom, bottom, -1>>),
      Plus(c, <<-bottom, -bottom, -1>>), Plus(c, <<bottom, -bottom, -1>>)>>,
    Quad(1, 2, 3, 4, optics) \o Quad(8, 7, 6, 5, optics) \o
    Quad(1, 5, 6, 2, optics) \o Quad(2, 6, 7, 3, optics) \o
    Quad(3, 7, 8, 4, optics) \o Quad(4, 8, 5, 1, optics))

\* It stands alone, through its face and through an edge, and a cuboid is
\* cut out of one.
Frustum ==
  [solids |-> <<FrustumMesh(<<0, 0, -7>>, 2, 4, Glass)>>,
   light |-> Nothing,
   rays |-> {<<<<1, 0, 0>>, Times(-1, Z)>>, <<<<1, 0, -20>>, Z>>, <<<<1, 1, -20>>, Z>>},
   probes |-> {<<<<1, 2, -7>>, <<1, 0, 0>>>>, <<<<-9, 1, -7>>, X>>},
   places |-> {<<2, 1, -9>>}]
Cut ==
  [solids |-> <<SetIntersection(<<0, 0, -7>>, FrustumMesh(<<0, 0, -7>>, 2, 4, Tinted),
                                At3(Cuboid(1, 3, 4, Tinted), 0, 1, -8))>>,
   light |-> <<0, 1, 3>>,
   rays |-> {<<<<1, 0, 0>>, Times(-1, Z)>>, <<<<0, 0, -20>>, Z>>, <<<<-9, 0, -7>>, X>>},
   probes |-> {<<<<1, 2, -7>>, <<1, 1, 0>>>>},
   places |-> {<<0, 0, -9>>}]

\* A block of quads.
Box ==
  [solids |-> <<FrustumMesh(<<0, 0, -7>>, 2, 2, Glass)>>,
   light |-> Nothing,
   rays |-> {<<<<1, 0, 0>>, Times(-1, Z)>>},
   probes |-> {<<<<-9, 1, -7>>, <<3, 0, 0>>>>},
   places |-> {<<2, 1, -9>>}]

Scenes_ == {Block, Mirrors, Lens, Nested, Board, Frustum, Cut}
Rings == {Saturn}
Boxes == {Box}
=============================================================================
