------------------------------- MODULE Trace -------------------------------
(***************************************************************************)
(* A ray through a scene: a scene is composed of solids that are moved and *)
(* turned, sent to a client, and traced there by the recursion of TraceRay,*)
(* CalculateLighting, CalculateRefraction and CalculateReflection.         *)
(*                                                                         *)
(* The recursion and its light are those of RayTree; here is what it asks  *)
(* of the scene, and where each ray of the stack is.  Rays run along the   *)
(* axes and meet faces at right angles.                                    *)
(***************************************************************************)
EXTENDS Solids, RayTree

CONSTANTS Scenes,   \* records of the solids of a scene, its light, the rays
                    \* of its camera (along an axis), other rays to probe it
                    \* with, and the places its composer moves solids to
          MaxMoves  \* how many moves and turns a composer makes

RECURSIVE LeavesOf(_)
LeavesOf(s) ==
  CASE s.kind \in Leaves          -> <<s>>
    [] s.kind = "SetComplement"   -> LeavesOf(s.other)
    [] s.kind \in BinaryOperators -> LeavesOf(s.left) \o LeavesOf(s.right)

Range(s) == {s[i] : i \in DOMAIN s}

ASSUME ScenesAssumption ==
  \A scene \in Scenes : \A s \in Range(scene.solids) :
    \A leaf \in Range(LeavesOf(s)) :
      IF leaf.kind = "TriangleMesh"
        THEN ValidMesh(leaf) /\ \A t \in Range(leaf.triangles) : t.optics \in Surfaces
        ELSE leaf.optics \in Surfaces
ASSUME MovesAssumption == MaxMoves \in Nat

VARIABLES
  scene,   \* the scene as it was given, for its light, rays and places
  world,   \* the solids of the server's scene, in order of insertion
  pose,    \* for each solid, where its center should be and how it was turned
  moves,   \* moves and turns so far
  loaded,  \* the solids of the client's scene
  camera,  \* the ray that is traced
  rays     \* for each frame of the stack, where its ray is from, where it
           \* goes, in which medium, and what it hits

composed == <<scene, world, pose, moves>>
vars == <<composed, loaded, camera, rays, treeVars>>

Nothing == <<>>

Ray == rays[Len(rays)]
RaysBelow == SubSeq(rays, 1, Len(rays) - 1)

\* The other arguments of TraceRay, and the intersection it finds.
RayFrom(vantage, direction, index) ==
  [vantage |-> vantage, direction |-> direction, index |-> index, hit |-> Nothing]

Init ==
  /\ scene \in Scenes /\ world = scene.solids
  /\ pose = [i \in DOMAIN world |-> [at |-> world[i].center, turns |-> <<>>]]
  /\ moves = 0 /\ loaded = <<>> /\ camera = Nothing /\ rays = <<>>
  /\ TreeInit
-----------------------------------------------------------------------------
(* The scene. *)

MoveSolid(i, center) ==
  /\ phase = "compose" /\ moves < MaxMoves
  /\ world' = [world EXCEPT ![i] = Move(@, center)]
  /\ pose' = [pose EXCEPT ![i].at = center]
  /\ moves' = moves + 1
  /\ UNCHANGED <<scene, loaded, camera, rays, treeVars>>

RotateSolid(i, axis) ==
  /\ phase = "compose" /\ moves < MaxMoves
  /\ world' = [world EXCEPT ![i] = Rotate(@, axis)]
  /\ pose' = [pose EXCEPT ![i].turns = Append(@, axis)]
  /\ moves' = moves + 1
  /\ UNCHANGED <<scene, loaded, camera, rays, treeVars>>

SendScene ==
  /\ TreeLoad
  /\ loaded' = [i \in DOMAIN world |-> Load(world[i])]
  /\ UNCHANGED <<composed, camera, rays>>
-----------------------------------------------------------------------------
(* What a ray meets. *)

RECURSIVE IntersectionsOf(_, _, _)
IntersectionsOf(solids, v, d) ==
  IF solids = <<>> THEN <<>>
  ELSE AppendAllIntersections(Head(solids), v, d) \o
       IntersectionsOf(Tail(solids), v, d)

Closer(h, g) == h.num * g.den < g.num * h.den

ClosestOf(hits) ==
  {n \in DOMAIN hits : \A m \in DOMAIN hits : ~Closer(hits[m], hits[n])}

PickClosestIntersections(hits) == {<<n, hits[n]>> : n \in ClosestOf(hits)}

FindClosestIntersections(v, d) ==
  PickClosestIntersections(IntersectionsOf(loaded, v, d))

Containers(p, w) == {i \in DOMAIN loaded : Contains(loaded[i], p, w)}

First(places) == CHOOSE i \in places : \A j \in places : i <= j

\* The ambient refraction is that of vacuum.
RefractiveIndex(containers) ==
  IF containers = {} THEN REFRACTION_VACUUM ELSE loaded[First(containers)].index

TargetRefractiveIndex(p, w) == RefractiveIndex(Containers(p, w))

\* The squares of the distances are compared in the code.
Blocks(s, p, q) ==
  \E h \in Range(AppendAllIntersections(s, p, Minus(q, p))) : h.num < h.den

HasClearLineOfSight(p, q) == \A s \in Range(loaded) : ~Blocks(s, p, q)

\* The scan for a blocker meets a solid that throws.
LineOfSightThrows(p, q) ==
  \E i \in DOMAIN loaded :
    /\ AppendThrows(loaded[i], p, Minus(q, p))
    /\ \A j \in 1 .. i - 1 : ~Blocks(loaded[j], p, q)

\* The scan for a container meets a solid that throws.
PrimaryContainerThrows(p, w) ==
  \E i \in DOMAIN loaded :
    /\ ContainsThrows(loaded[i], p, w)
    /\ \A j \in Containers(p, w) : j >= i
-----------------------------------------------------------------------------
(* Light. *)

\* One lamp; how much of it arrives is not told apart.
CalculateMatte(h) ==
  IF /\ scene.light # Nothing
     /\ HasClearLineOfSight(h.point, scene.light)
     /\ DotProduct(h.normal, Minus(scene.light, h.point)) > 0
    THEN One ELSE 0

\* The part of the light that an interface reflects, of either polarization.
Reflected(numer, denom) ==
  IF denom = 0 \/ numer > denom THEN One ELSE (One * numer) \div denom

PolarizedReflection(n1, n2, cos_a1, cos_a2) ==
  Reflected((n1 * cos_a1 - n2 * cos_a2) * (n1 * cos_a1 - n2 * cos_a2),
            (n1 * cos_a1 + n2 * cos_a2) * (n1 * cos_a1 + n2 * cos_a2))
-----------------------------------------------------------------------------
(* The camera. *)

Shoot(ray) ==
  /\ TreeShoot
  /\ camera' = ray
  /\ rays' = <<RayFrom(ray[1], ray[2], REFRACTION_VACUUM)>>
  /\ UNCHANGED <<composed, loaded>>
-----------------------------------------------------------------------------
(* TraceRay. *)

FindThrows == \E s \in Range(loaded) : AppendThrows(s, Ray.vantage, Ray.direction)

TraceThrows == At("trace") /\ FindThrows /\ TreeFails /\ UNCHANGED rays

Background(closest) == closest = {} /\ TreeBackground /\ rays' = RaysBelow

Ambiguous(closest) ==
  Cardinality(closest) > 1 /\ TreeLeave("ambiguous") /\ rays' = <<>>

\* The model follows a ray that meets a face at a right angle.
Followed(h) == h.den = 1 /\ DotProduct(h.normal, Ray.direction) \in {-1, 1}

Hit(closest) ==
  \E h \in closest :
    /\ closest = {h} /\ Followed(h[2])
    /\ TreeHit(SurfaceOptics(h[2]))
    /\ rays' = Append(RaysBelow, [Ray EXCEPT !.hit = h[2]])

Slanted(closest) ==
  /\ \E h \in closest : closest = {h} /\ ~Followed(h[2])
  /\ TreeLeave("slanted") /\ rays' = <<>>

TraceRay ==
  /\ At("trace") /\ ~FindThrows
  /\ \E closest \in {FindClosestIntersections(Ray.vantage, Ray.direction)} :
       \/ Background(closest) \/ Ambiguous(closest)
       \/ Hit(closest) \/ Slanted(closest)
-----------------------------------------------------------------------------
(* CalculateLighting. *)

\* A little farther on, here half a unit, is what the ray passes into.
testPoint == Plus(Times(2, Ray.hit.point), Ray.direction)

\* The matte light of the lamp cannot be told, or where the ray goes.
MatteThrows ==
  /\ Top.optics.opacity > 0 /\ scene.light # Nothing
  /\ LineOfSightThrows(Ray.hit.point, scene.light)
RefractionThrows == transparency > 0 /\ PrimaryContainerThrows(testPoint, 2)

LightThrows ==
  Lighting /\ (MatteThrows \/ RefractionThrows) /\ TreeFails /\ UNCHANGED rays

LightOpaque ==
  /\ Lighting /\ ~MatteThrows
  /\ TreeOpaque(CalculateMatte(Ray.hit)) /\ UNCHANGED rays

\* Of both polarizations, the ray being at a right angle to the surface.
ReflectionFactor(n1, n2, cos) ==
  (PolarizedReflection(n1, n2, cos, cos) + PolarizedReflection(n1, n2, cos, cos)) \div 2

\* The ray goes on with this index; a part of it is reflected.
Refracted(index, target) ==
  /\ TreeRefract(CalculateMatte(Ray.hit),
                 ReflectionFactor(Ray.index, target, DotProduct(Ray.direction, Ray.hit.normal)))
  /\ rays' = Append(rays, RayFrom(Ray.hit.point, Ray.direction, index))

\* A mistake: the refracted ray is followed in the medium it came from.
RefractInSource(target) == Refracted(Ray.index, target)

CalculateRefraction(target) == Refracted(target, target)

LightTransparent ==
  /\ Lighting /\ ~MatteThrows /\ ~RefractionThrows
  /\ CalculateRefraction(TargetRefractiveIndex(testPoint, 2))

\* Where the mirrored ray goes.
Mirrored ==
  LET n == Ray.hit.normal
      perp == 2 * DotProduct(Ray.direction, n)
  IN  rays' = Append(rays, RayFrom(Ray.hit.point,
                                   Minus(Ray.direction, Times(perp, n)), Ray.index))

\* A mistake: the mirrored ray gets the intensity of the one that came.
ReflectUndimmed ==
  /\ At("reflect") /\ IsSignificant(ReflectionColor)
  /\ Calls([Top EXCEPT !.stage = "return"], Top.intensity)
  /\ Mirrored

Reflect == TreeReflect /\ Mirrored

Returns == (StopRecursion \/ ReturnColor) /\ rays' = RaysBelow

TraceStep ==
  /\ \/ TraceThrows \/ TraceRay
     \/ LightThrows \/ LightOpaque \/ LightTransparent
     \/ Reflect \/ (NoReflection /\ UNCHANGED rays) \/ Returns
  /\ UNCHANGED <<composed, loaded, camera>>

Compose ==
  \E i \in DOMAIN world :
    \/ \E center \in scene.places : MoveSolid(i, center)
    \/ \E axis \in Axes : RotateSolid(i, axis)

Next == Compose \/ SendScene \/ (\E ray \in scene.rays : Shoot(ray)) \/ TraceStep

Spec == Init /\ [][Next]_vars
-----------------------------------------------------------------------------
(* Properties. *)

\* Where a direction of a solid as it was given points to now.
RECURSIVE Turned(_, _)
Turned(turns, v) ==
  IF turns = <<>> THEN v ELSE Turned(Tail(turns), Spin(Head(turns), v))

Abreast(h, g) == h.num * g.den = g.num * h.den

\* No two crossings of a set of pairs of a place and a crossing are abreast.
Apart(crossings) ==
  \A g, h \in crossings : g # h => ~Abreast(g[2], h[2])

MeshesOf(solids) ==
  {leaf \in UNION {Range(LeavesOf(s)) : s \in Range(solids)} :
    leaf.kind = "TriangleMesh"}

Numbered(hits) == {<<n, hits[n]>> : n \in DOMAIN hits}

\* No triangle is parallel to the z axis.
NoneUpright(s) ==
  \A mesh \in MeshesOf(<<s>>) : \A t \in Range(mesh.triangles) :
    CrossProduct(Minus(mesh.points[t.b], mesh.points[t.a]),
                 Minus(mesh.points[t.c], mesh.points[t.b]))[3] # 0

\* Right above the point there is no edge of a mesh.
NoSeamAbove(solids, p, w) ==
  \A mesh \in MeshesOf(solids) :
    Apart(Numbered(MeshIntersections(mesh, mesh.triangles, p, Basis[3], w)))

\* The crossings of a ray with the solids that a solid is built of.
LeafCrossings(s, v, d) ==
  UNION {{<<leaf[1], h>> : h \in Range(AppendAllIntersections(leaf[2], v, d))} :
           leaf \in Numbered(LeavesOf(s))}

\* Above no point whose containment may be asked there is an edge of a mesh.
SeamFree(s, v, d) ==
  /\ NoSeamAbove(<<s>>, v, 1)
  /\ \A c \in LeafCrossings(s, v, d) : NoSeamAbove(<<s>>, c[2].point, c[2].den)

\* Where a point of a solid as it was given is now.
Moved(s, place, p, w) ==
  Plus(Times(w, place.at), Turned(place.turns, Minus(p, Times(w, s.center))))

SameCrossings(s, place, was, is) ==
  /\ DOMAIN is = DOMAIN was
  /\ \A n \in DOMAIN was :
       /\ is[n].num = was[n].num /\ is[n].den = was[n].den
       /\ is[n].point = Moved(s, place, was[n].point, was[n].den)
       /\ is[n].normal = Turned(place.turns, was[n].normal)
       /\ SurfaceOptics(is[n]) = SurfaceOptics(was[n])

\* What q, e sees of a solid as it is now, v, d saw of it as it was given.
SeenAlike(s, now, place, v, d, q, e) ==
  (SeamFree(s, v, d) /\ SeamFree(now, q, e)) =>
    /\ Contains(now, q, 1) = Contains(s, v, 1)
    /\ SameCrossings(s, place, AppendAllIntersections(s, v, d),
                     AppendAllIntersections(now, q, e))

\* However a solid of solids is moved and turned, it stays in one piece: it
\* contains, and rays cross it, with their normals and colors, as if the
\* whole had been carried to its place about its center.  But for meshes:
\* a triangle that is turned parallel to the z axis is not seen.
RigidMotion ==
  phase = "compose" =>
    \A i \in DOMAIN world : \A ray \in scene.rays \union scene.probes :
      NoneUpright(world[i]) =>
        SeenAlike(scene.solids[i], world[i], pose[i], ray[1], ray[2],
                  Moved(scene.solids[i], pose[i], ray[1], 1),
                  Turned(pose[i].turns, ray[2]))

RECURSIVE HasUnion(_)
HasUnion(s) ==
  CASE s.kind \in Leaves           -> FALSE
    [] s.kind = "SetUnion"         -> TRUE
    [] s.kind = "SetComplement"    -> HasUnion(s.other)
    [] s.kind = "SetIntersection"  -> HasUnion(s.left) \/ HasUnion(s.right)

\* hits are those of the solid at a crossing of a leaf of it, before and
\* after which the ray is in the solid or not.
IsBoundary(s, d, hits, before, after) ==
  /\ Cardinality(hits) <= 1
  /\ before # after =>
       \E h \in hits : (DotProduct(h[2].normal, d) > 0) = before
  /\ before # after \/ hits = {} \/ HasUnion(s)

BoundaryAt(s, d, hits, at, step, w) ==
  (\A p \in {Minus(at, step), at, Plus(at, step)} : NoSeamAbove(world, p, w)) =>
    IsBoundary(s, d, hits, Contains(s, Minus(at, step), w),
               Contains(s, Plus(at, step), w))

BoundariesOf(s, d, leaf, hits) ==
  (Apart(leaf) /\ NoneUpright(s)) =>
    \A crossing \in leaf :
      LET h == crossing[2]
      IN  BoundaryAt(s, d, {g \in hits : Abreast(g[2], h)},
                     Times(2, h.point), Times(h.den, d), 2 * h.den)

\* A solid reports a crossing, one, with the normal to the outside, where
\* one gets into it or out of it, and none elsewhere, but for the inner
\* faces of a union.  Where surfaces coincide this is not so, nor where an
\* edge of a mesh is above the ray.
CrossingsAreBoundary ==
  phase = "compose" =>
    \A s \in Range(world) : \A ray \in scene.rays :
      BoundariesOf(s, ray[2], LeafCrossings(s, ray[1], ray[2]),
                   Numbered(AppendAllIntersections(s, ray[1], ray[2])))

\* The line of the camera, ahead and behind, has no coinciding surfaces.
ApartOnLine ==
  \A d \in {camera[2], Times(-1, camera[2])} :
    Apart(UNION {{<<<<i, c[1]>>, c[2]>> :
                     c \in LeafCrossings(loaded[i], camera[1], d)} :
                   i \in DOMAIN loaded})

Ahead(ray) == Plus(Times(2, ray.vantage), ray.direction)
MediumOf(ray) == TargetRefractiveIndex(Ahead(ray), 2)

\* The refractive index that a ray carries through refractions, reflections
\* and returns is that of the solid it is in, or that of the first inserted
\* of several, if the camera is in none.
MediumIsRight ==
  (/\ phase = "trace" /\ MediumOf(rays[1]) = REFRACTION_VACUUM /\ ApartOnLine
   /\ \A i \in DOMAIN loaded : NoneUpright(loaded[i])
   /\ \A n \in DOMAIN rays : NoSeamAbove(loaded, Ahead(rays[n]), 2)) =>
    \A n \in DOMAIN rays : rays[n].index = MediumOf(rays[n])

\* The exception that ends a client comes only where an edge of a mesh is
\* right above a point whose container is asked for: everywhere else the
\* crossings of a closed mesh tell inside from outside.
FailsOnlyAtSeams ==
  (phase = "failed" /\ Top.stage = "light" /\ RefractionThrows) =>
    ~NoSeamAbove(loaded, testPoint, 2)

\* A triangle of a mesh that a ray goes through, neither along it nor through
\* its border, is one of the crossings ("If a solution is possible, returns
\* true and sets u, v, w": Algebra.h).
TrianglesAreMet ==
  \A i \in DOMAIN loaded : \A ray \in scene.rays \union scene.probes :
    LET s == loaded[i]
        hits == MeshIntersections(s, s.triangles, ray[1], ray[2], 1)
    IN  s.kind = "TriangleMesh" =>
          \A t \in Range(s.triangles) :
            LET corner == <<s.points[t.a], s.points[t.b], s.points[t.c]>>
                normal == CrossProduct(Minus(corner[2], corner[1]),
                                       Minus(corner[3], corner[2]))
                to(n) == Minus(corner[n], ray[1])
                side(n, m) == Sign(DotProduct(ray[2], CrossProduct(to(n), to(m))))
            IN  (/\ DotProduct(to(1), normal) * DotProduct(ray[2], normal) > 0
                 /\ side(1, 2) = side(2, 3) /\ side(2, 3) = side(3, 1)
                 /\ side(1, 2) # 0) =>
                \E n \in DOMAIN hits : hits[n].context = t

\* The client's scene looks from every ray as the server's.
SceneArrives ==
  loaded # <<>> =>
    \A i \in DOMAIN world : \A ray \in scene.rays \union scene.probes :
      LET sent == AppendAllIntersections(world[i], ray[1], ray[2])
          seen == AppendAllIntersections(loaded[i], ray[1], ray[2])
      IN  /\ DOMAIN sent = DOMAIN seen
          /\ \A n \in DOMAIN sent : sent[n].point = seen[n].point
=============================================================================
