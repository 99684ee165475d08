----------------------------- MODULE ClosestHit -----------------------------
(***************************************************************************)
(* What a ray meets: PickClosestIntersection, which picks the nearest      *)
(* intersection of a list in one pass and counts the ties within EPSILON,  *)
(* and its two callers.  TraceRay picks among the intersections of all     *)
(* solids of the scene, and has a color only if there is one nearest;      *)
(* HasClearLineOfSight asks every solid in turn whether it is in the way   *)
(* of a light.                                                             *)
(*                                                                         *)
(* A scene is, for each of its solids, the squared distances at which the  *)
(* ray meets it, in the order in which the solid finds them; distances,    *)
(* and EPSILON, are multiples of a small unit.                             *)
(***************************************************************************)
EXTENDS Integers, Sequences, FiniteSets

CONSTANTS Scenes,  \* the scenes, from where the ray starts
          Gaps,    \* the squared distances a light may be at
          EPSILON

ASSUME ScenesAssumption == Scenes \subseteq Seq(Seq(Nat))
ASSUME GapsAssumption == Gaps \subseteq Nat
ASSUME EpsilonAssumption == EPSILON \in Nat \ {0}

VARIABLES
  ray,       \* "trace" for TraceRay, "sight" for HasClearLineOfSight
  scene, gap,
  pc,        \* "next" solid, "pick", "loop", "picked" or "done"
  solid,     \* the next solid of the scene
  list,      \* the intersections to pick from
  iter, closest, tieCount,
  result     \* what the caller makes of it

input == <<ray, scene, gap>>
pick == <<iter, closest, tieCount>>
vars == <<input, pc, solid, list, pick, result>>

\* An intersection is <<s, n>>, the n-th with solid s.
HitsOf(s) == {<<s, n>> : n \in DOMAIN scene[s]}
Hits == UNION {HitsOf(s) : s \in DOMAIN scene}
distanceSquared(h) == scene[h[1]][h[2]]

Result == {"none", "background", "lighting", "ambiguous", "blocked", "clear"}

TypeOK ==
  /\ ray \in {"trace", "sight"}
  /\ scene \in Scenes /\ gap \in Gaps
  /\ pc \in {"next", "pick", "loop", "picked", "done"}
  /\ solid \in 1 .. Len(scene) + 1
  /\ list \in Seq(Hits)
  /\ iter \in Nat /\ closest \in Nat /\ tieCount \in Nat
  /\ result \in Result

Init ==
  /\ ray \in {"trace", "sight"}
  /\ scene \in Scenes /\ gap \in Gaps
  /\ pc = "next" /\ solid = 1
  /\ list = <<>>
  /\ iter = 0 /\ closest = 0 /\ tieCount = 0
  /\ result = "none"
-----------------------------------------------------------------------------
(* The callers, before the pick. *)

AppendAllIntersections(s) == [n \in 1 .. Len(scene[s]) |-> <<s, n>>]

\* Scene::FindClosestIntersection lists the intersections of all solids.
TraceAppends ==
  /\ ray = "trace" /\ pc = "next" /\ solid <= Len(scene)
  /\ list' = list \o AppendAllIntersections(solid)
  /\ solid' = solid + 1
  /\ UNCHANGED <<input, pc, pick, result>>

TracePicks ==
  /\ ray = "trace" /\ pc = "next" /\ solid > Len(scene)
  /\ pc' = "pick"
  /\ UNCHANGED <<input, solid, list, pick, result>>

\* SolidObject::FindClosestIntersection lists those of one solid.
SightPicks ==
  /\ ray = "sight" /\ pc = "next" /\ solid <= Len(scene)
  /\ list' = AppendAllIntersections(solid)
  /\ solid' = solid + 1
  /\ pc' = "pick"
  /\ UNCHANGED <<input, pick, result>>

SightClear ==
  /\ ray = "sight" /\ pc = "next" /\ solid > Len(scene)
  /\ result' = "clear" /\ pc' = "done"
  /\ UNCHANGED <<input, solid, list, pick>>
-----------------------------------------------------------------------------
(* PickClosestIntersection. *)

diff == distanceSquared(list[iter]) - distanceSquared(list[closest])
IsTie == -EPSILON < diff /\ diff < EPSILON

\* Mistakes one could make in what follows.

\* the ties with the one that was closest before are kept
KeepsOldTies ==
  /\ pc = "loop" /\ iter <= Len(list) /\ ~IsTie /\ diff < 0
  /\ closest' = iter
  /\ iter' = iter + 1
  /\ UNCHANGED <<input, pc, solid, list, tieCount, result>>

\* the nearest is forgotten when a tie is found
FollowsTies ==
  /\ pc = "loop" /\ iter <= Len(list) /\ IsTie
  /\ closest' = iter
  /\ iter' = iter + 1
  /\ UNCHANGED <<input, pc, solid, list, tieCount, result>>

\* > instead of <
BlockedFromBehind ==
  /\ ray = "sight" /\ pc = "picked"
  /\ IF tieCount # 0 /\ distanceSquared(list[closest]) > gap
       THEN result' = "blocked" /\ pc' = "done"
       ELSE pc' = "next" /\ UNCHANGED result
  /\ UNCHANGED <<input, solid, list, pick>>
-----------------------------------------------------------------------------
PickNone ==
  /\ pc = "pick" /\ list = <<>>
  /\ tieCount' = 0
  /\ pc' = "picked"
  /\ UNCHANGED <<input, solid, list, iter, closest, result>>

\* A list of one is picked as a longer one is, without an iteration.
PickFirst ==
  /\ pc = "pick" /\ list # <<>>
  /\ closest' = 1 /\ tieCount' = 1 /\ iter' = 2
  /\ pc' = "loop"
  /\ UNCHANGED <<input, solid, list, result>>

PickTie ==
  /\ pc = "loop" /\ iter <= Len(list) /\ IsTie
  /\ tieCount' = tieCount + 1
  /\ iter' = iter + 1
  /\ UNCHANGED <<input, pc, solid, list, closest, result>>

PickCloser ==
  /\ pc = "loop" /\ iter <= Len(list) /\ ~IsTie /\ diff < 0
  /\ tieCount' = 1
  /\ closest' = iter
  /\ iter' = iter + 1
  /\ UNCHANGED <<input, pc, solid, list, result>>

PickFarther ==
  /\ pc = "loop" /\ iter <= Len(list) /\ ~IsTie /\ diff >= 0
  /\ iter' = iter + 1
  /\ UNCHANGED <<input, pc, solid, list, closest, tieCount, result>>

PickEnds ==
  /\ pc = "loop" /\ iter > Len(list)
  /\ pc' = "picked"
  /\ UNCHANGED <<input, solid, list, pick, result>>
-----------------------------------------------------------------------------
(* The callers, after the pick. *)

\* The switch of TraceRay.
TraceReturns ==
  /\ ray = "trace" /\ pc = "picked"
  /\ result' = CASE tieCount = 0 -> "background"
                 [] tieCount = 1 -> "lighting"
                 [] OTHER        -> "ambiguous"
  /\ pc' = "done"
  /\ UNCHANGED <<input, solid, list, pick>>

SightReturns ==
  /\ ray = "sight" /\ pc = "picked"
  /\ IF tieCount # 0 /\ distanceSquared(list[closest]) < gap
       THEN result' = "blocked" /\ pc' = "done"
       ELSE pc' = "next" /\ UNCHANGED result
  /\ UNCHANGED <<input, solid, list, pick>>

Next ==
  \/ TraceAppends \/ TracePicks \/ SightPicks \/ SightClear
  \/ PickNone \/ PickFirst \/ PickTie \/ PickCloser \/ PickFarther \/ PickEnds
  \/ TraceReturns \/ SightReturns

Spec == Init /\ [][Next]_vars
-----------------------------------------------------------------------------
(* Properties. *)

\* A ray is shaded by one intersection only if every other one of the whole
\* scene is farther, whatever the order in which the solids list theirs: a
\* corner, where faces meet at one distance, is never taken for a face.
LitByTheNearest ==
  (pc = "done" /\ result = "lighting") =>
    \A h \in Hits \ {list[closest]} :
      distanceSquared(h) > distanceSquared(list[closest])

\* A ray is only given up as ambiguous if another intersection is within
\* EPSILON of the nearest, and not for ties with one that has been beaten.
AmbiguousIsClose ==
  (pc = "done" /\ result = "ambiguous") =>
    \E h \in Hits \ {list[closest]} :
      LET d == distanceSquared(h) - distanceSquared(list[closest])
      IN  -EPSILON < d /\ d < EPSILON

\* The background is seen exactly where the ray meets nothing.
BackgroundIsEmpty ==
  (pc = "done" /\ ray = "trace") => (result = "background" <=> Hits = {})

\* A light is only hidden by something in front of it, and nothing that is
\* EPSILON or more in front of it lets it through, although each solid is
\* judged by its picked intersection alone.
ShadowsAreTrue ==
  /\ (pc = "done" /\ result = "blocked") =>
       \E h \in Hits : distanceSquared(h) < gap
  /\ (pc = "done" /\ result = "clear") =>
       \A h \in Hits : distanceSquared(h) > gap - EPSILON
-----------------------------------------------------------------------------
(* The inductive invariant. *)

\* What the pick has looked at.
Seen == IF pc = "loop" THEN 1 .. iter - 1 ELSE DOMAIN list

\* The list holds every intersection of the solids that were asked, once.
ListIsComplete ==
  /\ \A m, n \in DOMAIN list : list[m] = list[n] => m = n
  /\ ray = "trace" =>
       /\ \A n \in DOMAIN list : list[n][1] < solid
       /\ \A s \in 1 .. solid - 1 : \A h \in HitsOf(s) :
            \E n \in DOMAIN list : list[n] = h
  /\ (ray = "sight" /\ pc # "next") =>
       \/ result = "clear"
       \/ /\ solid > 1
          /\ \A h \in HitsOf(solid - 1) : \E n \in DOMAIN list : list[n] = h

\* What was seen is not much closer than the closest, and farther than the
\* only closest; a tie is a tie with the closest there is.
PickIsRight ==
  /\ pc = "loop" => list # <<>>
  /\ (pc \in {"loop", "picked"} /\ list # <<>>) =>
    /\ closest \in Seen /\ tieCount >= 1
    /\ pc = "loop" => iter \in 2 .. Len(list) + 1
    /\ \A n \in Seen :
         distanceSquared(list[n]) > distanceSquared(list[closest]) - EPSILON
    /\ tieCount = 1 =>
         \A n \in Seen \ {closest} :
           distanceSquared(list[n]) > distanceSquared(list[closest])
    /\ tieCount # 1 =>
         \E n \in Seen \ {closest} :
           /\ distanceSquared(list[n]) - distanceSquared(list[closest]) > -EPSILON
           /\ distanceSquared(list[n]) - distanceSquared(list[closest]) < EPSILON

PickOfNothing == (pc = "picked" /\ list = <<>>) => tieCount = 0

\* A solid that was passed does not hide the light.
PassedSolids ==
  (ray = "sight" /\ result # "blocked") =>
    \A s \in 1 .. (IF pc \in {"next", "done"} THEN solid - 1 ELSE solid - 2) :
      \A h \in HitsOf(s) : distanceSquared(h) > gap - EPSILON

AllAsked ==
  /\ (ray = "trace" /\ pc # "next") => solid = Len(scene) + 1
  /\ result # "none" <=> pc = "done"
  /\ ray = "trace" => result \in {"none", "background", "lighting", "ambiguous"}
  /\ ray = "sight" => result \in {"none", "blocked", "clear"}
  /\ result = "clear" => solid = Len(scene) + 1

IInv ==
  /\ TypeOK /\ ListIsComplete /\ PickIsRight /\ PickOfNothing /\ PassedSolids
  /\ AllAsked /\ LitByTheNearest /\ AmbiguousIsClose /\ BackgroundIsEmpty
  /\ ShadowsAreTrue
=============================================================================
