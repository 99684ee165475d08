-------------------------- MODULE ClosestHitProofs --------------------------
(***************************************************************************)
(* Proofs about ClosestHit, for all scenes and all distances.              *)
(***************************************************************************)
EXTENDS ClosestHit, TLAPS

\* What the types say of the scene and the list.
Shapes ==
  /\ EPSILON \in Nat \ {0} /\ gap \in Nat
  /\ scene \in Seq(Seq(Nat)) /\ Len(scene) \in Nat
  /\ DOMAIN scene = 1 .. Len(scene)
  /\ \A s \in DOMAIN scene :
       /\ Len(scene[s]) \in Nat /\ DOMAIN scene[s] = 1 .. Len(scene[s])
       /\ \A n \in DOMAIN scene[s] : scene[s][n] \in Nat
  /\ solid \in 1 .. Len(scene) + 1
  /\ list \in Seq(Hits) /\ Len(list) \in Nat
  /\ DOMAIN list = 1 .. Len(list)
  /\ iter \in Nat /\ closest \in Nat /\ tieCount \in Nat

\* They follow from the type invariant alone.
LEMMA TypeFacts == TypeOK => Shapes
BY ScenesAssumption, GapsAssumption, EpsilonAssumption DEF TypeOK, Shapes

\* Every intersection has a distance.
LEMMA Distances ==
  ASSUME Shapes
  PROVE  /\ \A h \in Hits : distanceSquared(h) \in Nat
         /\ \A n \in DOMAIN list :
              list[n] \in Hits /\ distanceSquared(list[n]) \in Nat
         /\ \A h \in Hits : \E s \in DOMAIN scene : h \in HitsOf(s)
         /\ \A s \in DOMAIN scene : \A h \in HitsOf(s) : h \in Hits
<1>1. \A h \in Hits : \E s \in DOMAIN scene : h \in HitsOf(s)
  BY DEF Hits
<1>2. \A s \in DOMAIN scene : \A h \in HitsOf(s) : h \in Hits
  BY DEF Hits
<1>3. \A h \in Hits : distanceSquared(h) \in Nat
  BY <1>1 DEF Shapes, HitsOf, distanceSquared
<1>4. \A n \in DOMAIN list : list[n] \in Hits
  BY DEF Shapes
<1> QED BY <1>1, <1>2, <1>3, <1>4

\* What a solid appends: its intersections, each once.
LEMMA Appended ==
  ASSUME Shapes, NEW s \in DOMAIN scene
  PROVE  LET new == AppendAllIntersections(s)
         IN  /\ new \in Seq(Hits) /\ Len(new) = Len(scene[s])
             /\ DOMAIN new = 1 .. Len(scene[s])
             /\ \A n \in DOMAIN new : new[n] = <<s, n>>
             /\ \A h \in HitsOf(s) : \E n \in DOMAIN new : new[n] = h
<1> DEFINE new == AppendAllIntersections(s)
<1>1. DOMAIN new = 1 .. Len(scene[s]) /\ \A n \in DOMAIN new : new[n] = <<s, n>>
  BY DEF AppendAllIntersections
<1>2. \A n \in DOMAIN new : new[n] \in Hits
  BY <1>1, Distances DEF Shapes, HitsOf
<1>3. Len(scene[s]) \in Nat /\ new = [n \in 1 .. Len(scene[s]) |-> new[n]]
  BY DEF Shapes, AppendAllIntersections
<1>4. new \in Seq(Hits) /\ Len(new) = Len(scene[s])
  BY <1>1, <1>2, <1>3
<1>5. \A h \in HitsOf(s) : \E n \in DOMAIN new : new[n] = h
  BY <1>1 DEF HitsOf, Shapes
<1> QED BY <1>1, <1>4, <1>5

\* No ray has met anything yet.
LEMMA InitInv == Init => IInv
<1> SUFFICES ASSUME Init PROVE IInv
  OBVIOUS
<1>1. TypeOK
  <2>1. 1 \in 1 .. Len(scene) + 1
    BY ScenesAssumption DEF Init
  <2> QED BY <2>1 DEF Init, TypeOK, Result
<1>2. DOMAIN list = {}
  BY DEF Init
<1> QED
  BY <1>1, <1>2 DEF Init, IInv, ListIsComplete, PickIsRight, PickOfNothing,
     PassedSolids, AllAsked, LitByTheNearest, AmbiguousIsClose, BackgroundIsEmpty, ShadowsAreTrue

\* Listing the intersections of one more solid.
LEMMA TraceAppendsInv == IInv /\ TraceAppends => IInv'
<1> SUFFICES ASSUME IInv, TraceAppends PROVE IInv'
  OBVIOUS
<1> DEFINE new == AppendAllIntersections(solid)
<1>1. Shapes
  BY TypeFacts DEF IInv
<1>2. /\ ray = "trace" /\ pc = "next" /\ solid \in DOMAIN scene
      /\ list' = list \o new /\ solid' = solid + 1
      /\ UNCHANGED <<ray, scene, gap, pc, iter, closest, tieCount, result>>
  BY <1>1 DEF TraceAppends, input, pick, Shapes
<1>3. /\ new \in Seq(Hits) /\ Len(new) \in Nat /\ DOMAIN new = 1 .. Len(new)
      /\ \A n \in DOMAIN new : new[n] = <<solid, n>>
      /\ \A h \in HitsOf(solid) : \E n \in DOMAIN new : new[n] = h
  BY <1>1, <1>2, Appended DEF Shapes
<1> HIDE DEF new
<1>4. /\ list' \in Seq(Hits) /\ Len(list') = Len(list) + Len(new)
      /\ DOMAIN list' = 1 .. Len(list) + Len(new)
      /\ \A n \in 1 .. Len(list) : list'[n] = list[n]
      /\ \A n \in 1 .. Len(new) : list'[Len(list) + n] = new[n]
      /\ \A n \in DOMAIN list' : n \in 1 .. Len(list) \/ n - Len(list) \in 1 .. Len(new)
  BY <1>1, <1>2, <1>3 DEF Shapes
<1>5. Hits' = Hits /\ \A s : HitsOf(s)' = HitsOf(s)
  BY <1>2 DEF Hits, HitsOf
<1>6. TypeOK'
  BY <1>1, <1>2, <1>4, <1>5 DEF IInv, TypeOK, Shapes
<1>7. ListIsComplete'
  <2>1. \A n \in DOMAIN list : list[n][1] < solid
    BY <1>2 DEF IInv, ListIsComplete
  <2>2. \A m, n \in DOMAIN list' : list'[m] = list'[n] => m = n
    <3> SUFFICES ASSUME NEW m \in DOMAIN list', NEW n \in DOMAIN list',
                        list'[m] = list'[n]
                 PROVE  m = n
      OBVIOUS
    <3>0. m \in Nat /\ n \in Nat /\ Len(list) \in Nat /\ solid \in Nat
      BY <1>1, <1>4 DEF Shapes
    <3>1. CASE m \in 1 .. Len(list) /\ n \in 1 .. Len(list)
      BY <3>1, <1>1, <1>4 DEF IInv, ListIsComplete, Shapes
    <3>2. \A k \in 1 .. Len(list) : list'[k][1] < solid
      BY <1>1, <1>4, <2>1 DEF Shapes
    <3>3. \A k \in DOMAIN list' :
            k - Len(list) \in 1 .. Len(new) => list'[k] = <<solid, k - Len(list)>>
      <4> SUFFICES ASSUME NEW k \in DOMAIN list', k - Len(list) \in 1 .. Len(new)
                   PROVE  list'[k] = <<solid, k - Len(list)>>
        OBVIOUS
      <4>1. k = Len(list) + (k - Len(list))
        BY <3>0, <1>4, <1>3
      <4>2. list'[Len(list) + (k - Len(list))] = new[k - Len(list)]
        BY <1>4
      <4>3. new[k - Len(list)] = <<solid, k - Len(list)>>
        BY <1>3
      <4> QED BY <4>1, <4>2, <4>3
    <3>4. CASE m - Len(list) \in 1 .. Len(new) /\ n - Len(list) \in 1 .. Len(new)
      BY <3>0, <3>3, <3>4
    <3>5. CASE m - Len(list) \in 1 .. Len(new) /\ n \in 1 .. Len(list)
      BY <3>0, <3>2, <3>3, <3>5
    <3>6. CASE n - Len(list) \in 1 .. Len(new) /\ m \in 1 .. Len(list)
      BY <3>0, <3>2, <3>3, <3>6
    <3> QED BY <3>1, <3>4, <3>5, <3>6, <1>4
  <2>3. ASSUME NEW n \in DOMAIN list'
        PROVE  list'[n][1] < solid'
    <3>0. solid \in Nat
      BY <1>1 DEF Shapes
    <3>1. CASE n \in 1 .. Len(list)
      <4>1. list'[n][1] < solid
        BY <3>1, <2>1, <1>1, <1>4 DEF Shapes
      <4>2. list[n] \in Hits
        BY <3>1, <1>1, Distances DEF Shapes
      <4>3. list[n][1] \in Nat
        BY <4>2, <1>1 DEF Shapes, Hits, HitsOf
      <4> QED BY <3>0, <3>1, <4>1, <4>3, <1>2, <1>4
    <3>2. CASE n - Len(list) \in 1 .. Len(new)
      <4>1. n = Len(list) + (n - Len(list))
        BY <1>1, <1>3, <1>4 DEF Shapes
      <4>2. list'[n] = new[n - Len(list)]
        BY <3>2, <4>1, <1>4
      <4>3. list'[n][1] = solid
        BY <3>2, <4>2, <1>3
      <4> QED BY <3>0, <4>3, <1>2
    <3> QED BY <3>1, <3>2, <1>4
  <2>4. ASSUME NEW s \in 1 .. solid' - 1, NEW h \in HitsOf(s)
        PROVE  \E n \in DOMAIN list' : list'[n] = h
    <3>1. CASE s = solid
      <4>1. PICK n \in DOMAIN new : new[n] = h
        BY <3>1, <1>3
      <4>2. Len(list) + n \in DOMAIN list' /\ list'[Len(list) + n] = h
        BY <4>1, <1>1, <1>3, <1>4 DEF Shapes
      <4> QED BY <4>2
    <3>2. CASE s # solid
      <4>1. s \in 1 .. solid - 1
        BY <3>2, <1>1, <1>2 DEF Shapes
      <4>2. PICK n \in DOMAIN list : list[n] = h
        BY <4>1, <1>2 DEF IInv, ListIsComplete
      <4>3. n \in DOMAIN list' /\ list'[n] = h
        BY <4>2, <1>1, <1>3, <1>4 DEF Shapes
      <4> QED BY <4>3
    <3> QED BY <3>1, <3>2
  <2> QED BY <2>2, <2>3, <2>4, <1>2, <1>5 DEF ListIsComplete
<1>8. AllAsked'
  BY <1>2 DEF IInv, AllAsked
<1> QED
  BY <1>2, <1>6, <1>7, <1>8 DEF IInv, PickIsRight, PickOfNothing, PassedSolids,
     LitByTheNearest, AmbiguousIsClose, BackgroundIsEmpty, ShadowsAreTrue

\* A step of the pick leaves the callers' part of the invariant alone.
LEMMA PickFrame ==
  ASSUME IInv, pc \in {"pick", "loop"}, pc' \in {"loop", "picked"},
         UNCHANGED <<ray, scene, gap, solid, list, result>>
  PROVE  /\ ListIsComplete' /\ PassedSolids' /\ AllAsked'
         /\ LitByTheNearest' /\ AmbiguousIsClose' /\ BackgroundIsEmpty' /\ ShadowsAreTrue'
         /\ Hits' = Hits
<1>1. Hits' = Hits /\ \A s : HitsOf(s)' = HitsOf(s)
  BY DEF Hits, HitsOf
<1>2. ListIsComplete'
  BY <1>1 DEF IInv, ListIsComplete
<1>3. PassedSolids'
  BY DEF IInv, PassedSolids, HitsOf, distanceSquared
<1>4. AllAsked'
  BY DEF IInv, AllAsked
<1> QED
  BY <1>1, <1>2, <1>3, <1>4 DEF LitByTheNearest, AmbiguousIsClose, BackgroundIsEmpty, ShadowsAreTrue

\* There is nothing to pick from.
LEMMA PickNoneInv == IInv /\ PickNone => IInv'
<1> SUFFICES ASSUME IInv, PickNone PROVE IInv'
  OBVIOUS
<1>1. /\ pc = "pick" /\ pc' = "picked" /\ list' = <<>> /\ tieCount' = 0
      /\ UNCHANGED <<ray, scene, gap, solid, list, result, iter, closest>>
  BY DEF PickNone, input
<1>2. PickIsRight' /\ PickOfNothing'
  BY <1>1 DEF PickIsRight, PickOfNothing
<1>3. TypeOK'
  BY <1>1, PickFrame DEF IInv, TypeOK
<1> QED BY <1>1, <1>2, <1>3, PickFrame DEF IInv

\* The first of the list is the closest so far.
LEMMA PickFirstInv == IInv /\ PickFirst => IInv'
<1> SUFFICES ASSUME IInv, PickFirst PROVE IInv'
  OBVIOUS
<1>1. /\ pc = "pick" /\ pc' = "loop" /\ list # <<>>
      /\ closest' = 1 /\ tieCount' = 1 /\ iter' = 2
      /\ UNCHANGED <<ray, scene, gap, solid, list, result>>
  BY DEF PickFirst, input
<1>2. Shapes
  BY TypeFacts DEF IInv
<1>3. Len(list) >= 1
  BY <1>1, <1>2 DEF Shapes
<1>4. Seen' = {1}
  BY <1>1 DEF Seen
<1>5. 1 \in DOMAIN list /\ distanceSquared(list[1]) \in Nat
  BY <1>2, <1>3, Distances DEF Shapes
<1>6. distanceSquared(list[1])' = distanceSquared(list[1])
  BY <1>1 DEF distanceSquared
<1>7. PickIsRight'
  BY <1>1, <1>2, <1>3, <1>4, <1>5, <1>6 DEF PickIsRight, Shapes
<1>8. TypeOK' /\ PickOfNothing'
  BY <1>1, PickFrame DEF IInv, TypeOK, PickOfNothing
<1> QED BY <1>1, <1>7, <1>8, PickFrame DEF IInv

\* What the loop of the pick knows at the head of an iteration.
LEMMA LoopFacts ==
  ASSUME IInv, pc = "loop", iter <= Len(list)
  PROVE  /\ iter \in 2 .. Len(list) /\ iter \in DOMAIN list
         /\ closest \in 1 .. iter - 1 /\ closest \in DOMAIN list
         /\ tieCount \in Nat \ {0}
         /\ \A n \in 1 .. iter :
              n \in DOMAIN list /\ distanceSquared(list[n]) \in Nat
         /\ \A n \in 1 .. iter - 1 :
              distanceSquared(list[n]) > distanceSquared(list[closest]) - EPSILON
         /\ tieCount = 1 =>
              \A n \in 1 .. iter - 1 : n # closest =>
                distanceSquared(list[n]) > distanceSquared(list[closest])
         /\ tieCount # 1 =>
              \E n \in 1 .. iter - 1 : n # closest
                /\ distanceSquared(list[n]) - distanceSquared(list[closest]) > -EPSILON
                /\ distanceSquared(list[n]) - distanceSquared(list[closest]) < EPSILON
         /\ diff = distanceSquared(list[iter]) - distanceSquared(list[closest])
         /\ distanceSquared(list[iter]) \in Nat
         /\ distanceSquared(list[closest]) \in Nat
         /\ EPSILON \in Nat \ {0}
<1>1. Shapes
  BY TypeFacts DEF IInv
<1>2. Seen = 1 .. iter - 1 /\ list # <<>>
  BY DEF Seen, IInv, PickIsRight
<1>3. iter \in 2 .. Len(list) /\ iter \in DOMAIN list
  BY <1>1, <1>2 DEF IInv, PickIsRight, Shapes
<1>4. closest \in 1 .. iter - 1 /\ closest \in DOMAIN list
  BY <1>1, <1>2, <1>3 DEF IInv, PickIsRight, Shapes
<1>5. \A n \in 1 .. iter : n \in DOMAIN list
  BY <1>1, <1>3 DEF Shapes
<1>6. \A n \in 1 .. iter : distanceSquared(list[n]) \in Nat
  BY <1>1, <1>5, Distances
<1>7. tieCount \in Nat \ {0} /\ EPSILON \in Nat \ {0}
  BY <1>1, <1>2 DEF IInv, PickIsRight, Shapes
<1>8. \A n \in 1 .. iter - 1 :
        distanceSquared(list[n]) > distanceSquared(list[closest]) - EPSILON
  BY <1>2 DEF IInv, PickIsRight
<1>9. tieCount = 1 =>
        \A n \in 1 .. iter - 1 : n # closest =>
          distanceSquared(list[n]) > distanceSquared(list[closest])
  BY <1>2 DEF IInv, PickIsRight
<1>10. distanceSquared(list[iter]) \in Nat /\ distanceSquared(list[closest]) \in Nat
  BY <1>1, <1>3, <1>4, Distances
<1>11. tieCount # 1 =>
        \E n \in 1 .. iter - 1 : n # closest
          /\ distanceSquared(list[n]) - distanceSquared(list[closest]) > -EPSILON
          /\ distanceSquared(list[n]) - distanceSquared(list[closest]) < EPSILON
  BY <1>2 DEF IInv, PickIsRight
<1> QED BY <1>3, <1>4, <1>5, <1>6, <1>7, <1>8, <1>9, <1>10, <1>11 DEF diff

\* One iteration: what is picked afterwards is right for one more.
LEMMA LoopInv ==
  ASSUME IInv, pc = "loop", iter <= Len(list), pc' = pc, iter' = iter + 1,
         UNCHANGED <<ray, scene, gap, solid, list, result>>,
         closest' \in 1 .. iter, tieCount' \in Nat \ {0},
         \A n \in 1 .. iter :
           distanceSquared(list[n]) > distanceSquared(list[closest']) - EPSILON,
         tieCount' = 1 =>
           \A n \in 1 .. iter : n # closest' =>
             distanceSquared(list[n]) > distanceSquared(list[closest']),
         tieCount' # 1 =>
           \E n \in 1 .. iter : n # closest'
             /\ distanceSquared(list[n]) - distanceSquared(list[closest']) > -EPSILON
             /\ distanceSquared(list[n]) - distanceSquared(list[closest']) < EPSILON
  PROVE  IInv'
<1>1. iter \in 2 .. Len(list) /\ iter \in Nat /\ Len(list) \in Nat
  <2>1. Len(list) \in Nat
    BY TypeFacts DEF IInv, Shapes
  <2> QED BY <2>1, LoopFacts
<1>2. Seen' = 1 .. iter
  BY <1>1 DEF Seen
<1>3. \A n : (distanceSquared(list[n]))' = distanceSquared(list[n]')
  BY DEF distanceSquared
<1>4. PickIsRight'
  <2>1. list' # <<>> /\ closest' \in Seen' /\ tieCount' >= 1
    BY <1>2 DEF IInv, PickIsRight
  <2>2. iter' \in 2 .. Len(list') + 1
    BY <1>1
  <2>3. \A n \in Seen' : (distanceSquared(list[n]) > distanceSquared(list[closest]) - EPSILON)'
    BY <1>2 DEF distanceSquared
  <2>4. (tieCount = 1)' => \A n \in Seen' \ {closest'} :
          (distanceSquared(list[n]) > distanceSquared(list[closest]))'
    BY <1>2 DEF distanceSquared
  <2>5. (tieCount # 1)' => \E n \in Seen' \ {closest'} :
          (/\ distanceSquared(list[n]) - distanceSquared(list[closest]) > -EPSILON
           /\ distanceSquared(list[n]) - distanceSquared(list[closest]) < EPSILON)'
    BY <1>2 DEF distanceSquared
  <2> QED BY <2>1, <2>2, <2>3, <2>4, <2>5 DEF PickIsRight
<1>5. PickOfNothing'
  BY DEF PickOfNothing
<1>6. TypeOK'
  BY <1>1, PickFrame DEF IInv, TypeOK
<1> QED BY <1>4, <1>5, <1>6, PickFrame DEF IInv

\* A tie is counted, and the closest stays.
LEMMA PickTieInv == IInv /\ PickTie => IInv'
<1> SUFFICES ASSUME IInv, PickTie PROVE IInv'
  OBVIOUS
<1>1. /\ pc = "loop" /\ iter <= Len(list) /\ pc' = pc /\ iter' = iter + 1
      /\ closest' = closest /\ tieCount' = tieCount + 1 /\ IsTie
      /\ UNCHANGED <<ray, scene, gap, solid, list, result>>
  BY DEF PickTie, input
<1>2. closest' \in 1 .. iter /\ tieCount' \in Nat \ {0} /\ tieCount' # 1
  BY <1>1, LoopFacts
<1>3. -EPSILON < diff
  BY <1>1 DEF IsTie
<1>4. distanceSquared(list[iter]) > distanceSquared(list[closest]) - EPSILON
  <2>1. /\ distanceSquared(list[iter]) \in Nat
        /\ distanceSquared(list[closest]) \in Nat /\ EPSILON \in Nat
        /\ diff = distanceSquared(list[iter]) - distanceSquared(list[closest])
    BY <1>1, LoopFacts
  <2> QED BY <2>1, <1>3
<1>5. \A n \in 1 .. iter :
        distanceSquared(list[n]) > distanceSquared(list[closest']) - EPSILON
  BY <1>1, <1>4, LoopFacts
<1>6. /\ iter \in 1 .. iter /\ iter # closest'
      /\ distanceSquared(list[iter]) - distanceSquared(list[closest']) > -EPSILON
      /\ distanceSquared(list[iter]) - distanceSquared(list[closest']) < EPSILON
  <2>1. iter \in 2 .. Len(list) /\ closest \in 1 .. iter - 1
        /\ diff = distanceSquared(list[iter]) - distanceSquared(list[closest])
    BY <1>1, LoopFacts
  <2>2. iter \in Nat /\ iter # closest /\ iter \in 1 .. iter
    BY <2>1
  <2> QED BY <2>1, <2>2, <1>1 DEF IsTie
<1> QED BY <1>1, <1>2, <1>5, <1>6, LoopInv

\* One that is EPSILON closer is closer than everything before it.
LEMMA PickCloserInv == IInv /\ PickCloser => IInv'
<1> SUFFICES ASSUME IInv, PickCloser PROVE IInv'
  OBVIOUS
<1>1. /\ pc = "loop" /\ iter <= Len(list) /\ pc' = pc /\ iter' = iter + 1
      /\ closest' = iter /\ tieCount' = 1 /\ ~IsTie /\ diff < 0
      /\ UNCHANGED <<ray, scene, gap, solid, list, result>>
  BY DEF PickCloser, input
<1>2. closest' \in 1 .. iter /\ tieCount' \in Nat \ {0}
  BY <1>1, LoopFacts
<1>3. distanceSquared(list[iter]) <= distanceSquared(list[closest]) - EPSILON
  <2>1. /\ distanceSquared(list[iter]) \in Nat
        /\ distanceSquared(list[closest]) \in Nat /\ EPSILON \in Nat
        /\ diff = distanceSquared(list[iter]) - distanceSquared(list[closest])
    BY <1>1, LoopFacts
  <2> QED BY <2>1, <1>1 DEF IsTie
<1>4. \A n \in 1 .. iter - 1 :
        distanceSquared(list[n]) > distanceSquared(list[iter])
  <2> SUFFICES ASSUME NEW n \in 1 .. iter - 1
               PROVE  distanceSquared(list[n]) > distanceSquared(list[iter])
    OBVIOUS
  <2>1. /\ distanceSquared(list[iter]) \in Nat
        /\ distanceSquared(list[closest]) \in Nat /\ EPSILON \in Nat
        /\ iter \in Nat
    BY <1>1, LoopFacts
  <2>2. distanceSquared(list[n]) \in Nat
    BY <2>1, <1>1, LoopFacts
  <2>3. distanceSquared(list[n]) > distanceSquared(list[closest]) - EPSILON
    BY <1>1, LoopFacts
  <2> QED BY <2>1, <2>2, <2>3, <1>3
<1>5. \A n \in 1 .. iter : n # iter =>
        distanceSquared(list[n]) > distanceSquared(list[iter])
  BY <1>1, <1>4, LoopFacts
<1>6. \A n \in 1 .. iter :
        distanceSquared(list[n]) > distanceSquared(list[iter]) - EPSILON
  <2>1. /\ EPSILON \in Nat \ {0} /\ distanceSquared(list[iter]) \in Nat
        /\ \A n \in 1 .. iter : distanceSquared(list[n]) \in Nat
    BY <1>1, LoopFacts
  <2> SUFFICES ASSUME NEW n \in 1 .. iter
               PROVE  distanceSquared(list[n]) > distanceSquared(list[iter]) - EPSILON
    OBVIOUS
  <2> QED BY <1>5, <2>1
<1> QED BY <1>1, <1>2, <1>5, <1>6, LoopInv

\* One that is EPSILON farther changes nothing.
LEMMA PickFartherInv == IInv /\ PickFarther => IInv'
<1> SUFFICES ASSUME IInv, PickFarther PROVE IInv'
  OBVIOUS
<1>1. /\ pc = "loop" /\ iter <= Len(list) /\ pc' = pc /\ iter' = iter + 1
      /\ closest' = closest /\ tieCount' = tieCount /\ ~IsTie /\ diff >= 0
      /\ UNCHANGED <<ray, scene, gap, solid, list, result>>
  BY DEF PickFarther, input
<1>2. closest' \in 1 .. iter /\ tieCount' \in Nat \ {0}
  BY <1>1, LoopFacts
<1>3. distanceSquared(list[iter]) > distanceSquared(list[closest])
  BY <1>1, LoopFacts DEF IsTie
<1>4. \A n \in 1 .. iter :
        distanceSquared(list[n]) > distanceSquared(list[closest']) - EPSILON
  BY <1>1, <1>3, LoopFacts
<1>5. tieCount' = 1 =>
        \A n \in 1 .. iter : n # closest' =>
          distanceSquared(list[n]) > distanceSquared(list[closest'])
  BY <1>1, <1>3, LoopFacts
<1>6. tieCount' # 1 =>
        \E n \in 1 .. iter : n # closest'
          /\ distanceSquared(list[n]) - distanceSquared(list[closest']) > -EPSILON
          /\ distanceSquared(list[n]) - distanceSquared(list[closest']) < EPSILON
  BY <1>1, LoopFacts
<1> QED BY <1>1, <1>2, <1>4, <1>5, <1>6, LoopInv

\* The whole list was seen.
LEMMA PickEndsInv == IInv /\ PickEnds => IInv'
<1> SUFFICES ASSUME IInv, PickEnds PROVE IInv'
  OBVIOUS
<1>1. /\ pc = "loop" /\ iter > Len(list) /\ pc' = "picked"
      /\ UNCHANGED <<ray, scene, gap, solid, list, iter, closest, tieCount, result>>
  BY DEF PickEnds, input, pick
<1>2. Shapes
  BY TypeFacts DEF IInv
<1>3. list # <<>> /\ iter = Len(list) + 1
  BY <1>1, <1>2 DEF IInv, PickIsRight, Shapes
<1>4. Seen' = Seen
  BY <1>1, <1>2, <1>3 DEF Seen, Shapes
<1>5. PickIsRight' /\ PickOfNothing'
  BY <1>1, <1>3, <1>4 DEF IInv, PickIsRight, PickOfNothing, distanceSquared
<1>6. TypeOK'
  BY <1>1, PickFrame DEF IInv, TypeOK
<1> QED BY <1>1, <1>5, <1>6, PickFrame DEF IInv

\* All solids were asked.
LEMMA TracePicksInv == IInv /\ TracePicks => IInv'
<1> SUFFICES ASSUME IInv, TracePicks PROVE IInv'
  OBVIOUS
<1>1. /\ ray = "trace" /\ pc = "next" /\ solid > Len(scene) /\ pc' = "pick"
      /\ UNCHANGED <<ray, scene, gap, solid, list, iter, closest, tieCount, result>>
  BY DEF TracePicks, input, pick
<1>2. Shapes
  BY TypeFacts DEF IInv
<1>3. Hits' = Hits /\ \A s : HitsOf(s)' = HitsOf(s)
  BY <1>1 DEF Hits, HitsOf
<1>4. TypeOK'
  BY <1>1, <1>3 DEF IInv, TypeOK
<1>5. ListIsComplete'
  BY <1>1, <1>3 DEF IInv, ListIsComplete
<1>6. AllAsked'
  BY <1>1, <1>2 DEF IInv, AllAsked, Shapes
<1> QED
  BY <1>1, <1>4, <1>5, <1>6 DEF IInv, PickIsRight, PickOfNothing, PassedSolids,
     LitByTheNearest, AmbiguousIsClose, BackgroundIsEmpty, ShadowsAreTrue

\* The next solid is asked whether it is in the way.
LEMMA SightPicksInv == IInv /\ SightPicks => IInv'
<1> SUFFICES ASSUME IInv, SightPicks PROVE IInv'
  OBVIOUS
<1> DEFINE new == AppendAllIntersections(solid)
<1>1. Shapes
  BY TypeFacts DEF IInv
<1>2. /\ ray = "sight" /\ pc = "next" /\ solid \in DOMAIN scene
      /\ list' = new /\ solid' = solid + 1 /\ pc' = "pick"
      /\ UNCHANGED <<ray, scene, gap, iter, closest, tieCount, result>>
  BY <1>1 DEF SightPicks, input, pick, Shapes
<1>3. /\ new \in Seq(Hits) /\ \A n \in DOMAIN new : new[n] = <<solid, n>>
      /\ \A h \in HitsOf(solid) : \E n \in DOMAIN new : new[n] = h
  BY <1>1, <1>2, Appended
<1> HIDE DEF new
<1>4. Hits' = Hits /\ \A s : HitsOf(s)' = HitsOf(s)
  BY <1>2 DEF Hits, HitsOf
<1>5. solid \in Nat /\ solid' \in 1 .. Len(scene) + 1 /\ solid' - 1 = solid
  <2>1. Len(scene) \in Nat /\ solid \in 1 .. Len(scene) /\ solid' = solid + 1
    BY <1>1, <1>2 DEF Shapes
  <2> QED BY <2>1
<1>6. TypeOK'
  BY <1>2, <1>3, <1>4, <1>5 DEF IInv, TypeOK
<1>7. ListIsComplete'
  <2>1. \A m, n \in DOMAIN list' : list'[m] = list'[n] => m = n
    BY <1>2, <1>3
  <2>2. solid' > 1 /\ \A h \in HitsOf(solid' - 1) : \E n \in DOMAIN list' : list'[n] = h
    BY <1>1, <1>2, <1>3, <1>5 DEF Shapes
  <2> QED BY <2>1, <2>2, <1>2, <1>4 DEF ListIsComplete
<1>8. AllAsked'
  BY <1>2 DEF IInv, AllAsked
<1>9. PassedSolids'
  <2>1. solid' - 2 = solid - 1
    BY <1>2, <1>5
  <2>2. \A s \in 1 .. solid - 1 : \A h \in HitsOf(s) :
          distanceSquared(h) > gap - EPSILON
    BY <1>2 DEF IInv, PassedSolids, AllAsked
  <2> QED BY <2>1, <2>2, <1>2, <1>4 DEF PassedSolids, distanceSquared
<1> QED
  BY <1>2, <1>6, <1>7, <1>8, <1>9 DEF IInv, PickIsRight, PickOfNothing,
     LitByTheNearest, AmbiguousIsClose, BackgroundIsEmpty, ShadowsAreTrue

\* No solid is in the way.
LEMMA SightClearInv == IInv /\ SightClear => IInv'
<1> SUFFICES ASSUME IInv, SightClear PROVE IInv'
  OBVIOUS
<1>1. /\ ray = "sight" /\ pc = "next" /\ solid > Len(scene)
      /\ result' = "clear" /\ pc' = "done"
      /\ UNCHANGED <<ray, scene, gap, solid, list, iter, closest, tieCount>>
  BY DEF SightClear, input, pick
<1>2. Shapes
  BY TypeFacts DEF IInv
<1>3. Hits' = Hits /\ \A s : HitsOf(s)' = HitsOf(s)
  BY <1>1 DEF Hits, HitsOf
<1>4. solid = Len(scene) + 1 /\ solid - 1 = Len(scene)
  BY <1>1, <1>2 DEF Shapes
<1>5. TypeOK'
  BY <1>1, <1>3 DEF IInv, TypeOK, Result
<1>6. ListIsComplete'
  BY <1>1, <1>3 DEF IInv, ListIsComplete
<1>7. AllAsked'
  BY <1>1, <1>4 DEF IInv, AllAsked
<1>8. \A s \in 1 .. solid - 1 : \A h \in HitsOf(s) :
        distanceSquared(h) > gap - EPSILON
  BY <1>1 DEF IInv, PassedSolids, AllAsked
<1>9. PassedSolids'
  BY <1>1, <1>3, <1>8 DEF PassedSolids, distanceSquared
<1>10. ShadowsAreTrue'
  <2>1. \A h \in Hits : distanceSquared(h) > gap - EPSILON
    BY <1>2, <1>4, <1>8 DEF Hits, Shapes
  <2> QED BY <2>1, <1>1, <1>3 DEF ShadowsAreTrue, distanceSquared
<1> QED
  BY <1>1, <1>5, <1>6, <1>7, <1>9, <1>10 DEF IInv, PickIsRight, PickOfNothing,
     LitByTheNearest, AmbiguousIsClose, BackgroundIsEmpty

\* The picked one speaks for all intersections of the scene.
LEMMA TraceReturnsInv == IInv /\ TraceReturns => IInv'
<1> SUFFICES ASSUME IInv, TraceReturns PROVE IInv'
  OBVIOUS
<1>1. /\ ray = "trace" /\ pc = "picked" /\ pc' = "done"
      /\ result' = CASE tieCount = 0 -> "background"
                     [] tieCount = 1 -> "lighting"
                     [] OTHER        -> "ambiguous"
      /\ UNCHANGED <<ray, scene, gap, solid, list, iter, closest, tieCount>>
  BY DEF TraceReturns, input, pick
<1>2. Shapes
  BY TypeFacts DEF IInv
<1>3. Hits' = Hits /\ \A s : HitsOf(s)' = HitsOf(s)
  BY <1>1 DEF Hits, HitsOf
<1>4. /\ result' \in {"background", "lighting", "ambiguous"}
      /\ result' = "background" <=> tieCount = 0
      /\ result' = "lighting" <=> tieCount = 1
  BY <1>1
<1>5. solid - 1 = Len(scene) /\ solid = Len(scene) + 1
  BY <1>1, <1>2 DEF IInv, AllAsked, Shapes
<1>6. \A h \in Hits : \E n \in DOMAIN list : list[n] = h
  <2>1. \A s \in 1 .. solid - 1 : \A h \in HitsOf(s) : \E n \in DOMAIN list : list[n] = h
    BY <1>1 DEF IInv, ListIsComplete
  <2> QED BY <2>1, <1>2, <1>5 DEF Hits, Shapes
<1>7. \A n \in DOMAIN list : list[n] \in Hits
  BY <1>2, Distances
<1>8. Seen = DOMAIN list
  BY <1>1 DEF Seen
<1>9. tieCount = 0 <=> list = <<>>
  BY <1>1 DEF IInv, PickIsRight, PickOfNothing
<1>10. list = <<>> <=> Hits = {}
  BY <1>2, <1>6, <1>7 DEF Shapes
<1>11. TypeOK'
  BY <1>1, <1>3, <1>4 DEF IInv, TypeOK, Result
<1>12. ListIsComplete'
  BY <1>1, <1>3 DEF IInv, ListIsComplete
<1>13. AllAsked'
  BY <1>1, <1>4, <1>5 DEF IInv, AllAsked
<1>14. LitByTheNearest'
  <2> SUFFICES ASSUME tieCount = 1, NEW h \in Hits, h # list[closest]
               PROVE  distanceSquared(h) > distanceSquared(list[closest])
    BY <1>1, <1>3, <1>4 DEF LitByTheNearest, distanceSquared
  <2>1. list # <<>>
    BY <1>9
  <2>2. \A n \in DOMAIN list \ {closest} :
          distanceSquared(list[n]) > distanceSquared(list[closest])
    BY <2>1, <1>1, <1>8 DEF IInv, PickIsRight
  <2>3. PICK n \in DOMAIN list : list[n] = h
    BY <1>6
  <2>4. n # closest
    BY <2>3
  <2> QED BY <2>2, <2>3, <2>4
<1>15. AmbiguousIsClose'
  <2> SUFFICES ASSUME tieCount # 0, tieCount # 1
               PROVE  \E h \in Hits \ {list[closest]} :
                        LET d == distanceSquared(h) - distanceSquared(list[closest])
                        IN  -EPSILON < d /\ d < EPSILON
    BY <1>1, <1>3, <1>4 DEF AmbiguousIsClose, distanceSquared
  <2>1. list # <<>> /\ closest \in DOMAIN list
    BY <1>1, <1>8, <1>9 DEF IInv, PickIsRight
  <2>2. PICK n \in DOMAIN list \ {closest} :
          /\ distanceSquared(list[n]) - distanceSquared(list[closest]) > -EPSILON
          /\ distanceSquared(list[n]) - distanceSquared(list[closest]) < EPSILON
    BY <2>1, <1>1, <1>8 DEF IInv, PickIsRight
  <2>3. list[n] \in Hits /\ list[n] # list[closest]
    BY <2>1, <1>7 DEF IInv, ListIsComplete
  <2>4. /\ distanceSquared(list[n]) \in Nat /\ distanceSquared(list[closest]) \in Nat
        /\ EPSILON \in Nat
    BY <2>1, <1>2, Distances DEF Shapes
  <2> QED BY <2>2, <2>3, <2>4
<1>16. BackgroundIsEmpty'
  BY <1>1, <1>3, <1>4, <1>9, <1>10 DEF BackgroundIsEmpty
<1> QED
  BY <1>1, <1>4, <1>11, <1>12, <1>13, <1>14, <1>15, <1>16 DEF IInv, PickIsRight,
     PickOfNothing, PassedSolids, ShadowsAreTrue

\* The picked one speaks for all intersections of its solid.
LEMMA SightReturnsInv == IInv /\ SightReturns => IInv'
<1> SUFFICES ASSUME IInv, SightReturns PROVE IInv'
  OBVIOUS
<1> DEFINE blocks == tieCount # 0 /\ distanceSquared(list[closest]) < gap
<1>1. /\ ray = "sight" /\ pc = "picked"
      /\ blocks => result' = "blocked" /\ pc' = "done"
      /\ ~blocks => pc' = "next" /\ result' = result
      /\ UNCHANGED <<ray, scene, gap, solid, list, iter, closest, tieCount>>
  BY DEF SightReturns, input, pick
<1> HIDE DEF blocks
<1>2. Shapes
  BY TypeFacts DEF IInv
<1>3. Hits' = Hits /\ \A s : HitsOf(s)' = HitsOf(s)
  BY <1>1 DEF Hits, HitsOf
<1>4. result = "none" /\ pc # "done"
  BY <1>1 DEF IInv, AllAsked
<1>5. /\ solid > 1
      /\ \A h \in HitsOf(solid - 1) : \E n \in DOMAIN list : list[n] = h
  BY <1>1, <1>4 DEF IInv, ListIsComplete
<1>6. \A s \in 1 .. solid - 2 : \A h \in HitsOf(s) :
        distanceSquared(h) > gap - EPSILON
  BY <1>1, <1>4 DEF IInv, PassedSolids
<1>7. TypeOK'
  BY <1>1, <1>3 DEF IInv, TypeOK, Result
<1>8. ListIsComplete'
  BY <1>1, <1>3, <1>4, <1>5 DEF IInv, ListIsComplete
<1>9. AllAsked'
  BY <1>1, <1>4 DEF IInv, AllAsked
<1>10. ASSUME blocks
       PROVE  IInv'
  <2>1. closest \in DOMAIN list
    <3>1. list # <<>> /\ Seen = DOMAIN list
      BY <1>1, <1>10 DEF blocks, IInv, PickOfNothing, Seen
    <3> QED BY <3>1, <1>1 DEF IInv, PickIsRight
  <2>2. list[closest] \in Hits /\ distanceSquared(list[closest]) < gap
    BY <2>1, <1>2, <1>10, Distances DEF blocks
  <2>3. ShadowsAreTrue'
    BY <2>2, <1>1, <1>3, <1>10 DEF ShadowsAreTrue, distanceSquared
  <2> QED
    BY <2>3, <1>1, <1>7, <1>8, <1>9, <1>10 DEF IInv, PickIsRight, PickOfNothing,
       PassedSolids, LitByTheNearest, AmbiguousIsClose, BackgroundIsEmpty
<1>11. ASSUME ~blocks
       PROVE  IInv'
  <2>1. ASSUME NEW h \in HitsOf(solid - 1)
        PROVE  distanceSquared(h) > gap - EPSILON
    <3>1. PICK n \in DOMAIN list : list[n] = h
      BY <1>5
    <3>2. list # <<>> /\ Seen = DOMAIN list
      BY <3>1, <1>1 DEF Seen
    <3>3. /\ closest \in DOMAIN list /\ tieCount # 0
          /\ distanceSquared(h) > distanceSquared(list[closest]) - EPSILON
      BY <3>1, <3>2, <1>1, <1>2 DEF IInv, PickIsRight, Shapes
    <3>4. ~(distanceSquared(list[closest]) < gap)
      BY <3>3, <1>11 DEF blocks
    <3>5. /\ distanceSquared(list[closest]) \in Nat /\ distanceSquared(h) \in Nat
          /\ gap \in Nat /\ EPSILON \in Nat
      BY <3>1, <3>3, <1>2, Distances DEF Shapes
    <3> QED BY <3>3, <3>4, <3>5
  <2>2. \A s \in 1 .. solid - 1 : s = solid - 1 \/ s \in 1 .. solid - 2
    BY <1>2 DEF Shapes
  <2>3. PassedSolids'
    BY <2>1, <2>2, <1>1, <1>3, <1>6, <1>11 DEF PassedSolids, distanceSquared
  <2> QED
    BY <2>3, <1>1, <1>4, <1>7, <1>8, <1>9, <1>11 DEF IInv, PickIsRight,
       PickOfNothing, LitByTheNearest, AmbiguousIsClose, BackgroundIsEmpty, ShadowsAreTrue
<1> QED BY <1>10, <1>11

\* A stuttering step changes nothing.
LEMMA StutterInv == IInv /\ UNCHANGED vars => IInv'
<1> SUFFICES ASSUME IInv, UNCHANGED vars PROVE IInv'
  OBVIOUS
<1>1. UNCHANGED <<ray, scene, gap, pc, solid, list, iter, closest, tieCount, result>>
  BY DEF vars, input, pick
<1>2. Hits' = Hits /\ \A s : HitsOf(s)' = HitsOf(s)
  BY <1>1 DEF Hits, HitsOf
<1>3. TypeOK' /\ ListIsComplete'
  BY <1>1, <1>2 DEF IInv, TypeOK, ListIsComplete
<1>4. PickIsRight' /\ PickOfNothing'
  BY <1>1 DEF IInv, PickIsRight, PickOfNothing, Seen, distanceSquared
<1>5. PassedSolids' /\ AllAsked'
  BY <1>1, <1>2 DEF IInv, PassedSolids, AllAsked, distanceSquared
<1>6. LitByTheNearest' /\ AmbiguousIsClose' /\ BackgroundIsEmpty' /\ ShadowsAreTrue'
  BY <1>1, <1>2 DEF IInv, LitByTheNearest, AmbiguousIsClose, BackgroundIsEmpty, ShadowsAreTrue,
     distanceSquared
<1> QED BY <1>3, <1>4, <1>5, <1>6 DEF IInv

\* The invariant holds in every state of every ray.
THEOREM IInvHolds == Spec => []IInv
<1>1. IInv /\ [Next]_vars => IInv'
  BY TraceAppendsInv, TracePicksInv, SightPicksInv, SightClearInv, PickNoneInv,
     PickFirstInv, PickTieInv, PickCloserInv, PickFartherInv, PickEndsInv,
     TraceReturnsInv, SightReturnsInv, StutterInv DEF Next
<1> QED BY <1>1, InitInv, PTL DEF Spec

\* A ray is only shaded by an intersection that is nearer than all others.
THEOREM LightingIsRight == Spec => []LitByTheNearest
<1>1. IInv => LitByTheNearest
  BY DEF IInv
<1> QED BY <1>1, IInvHolds, PTL

\* What is given up as ambiguous is ambiguous.
THEOREM AmbiguityIsRight == Spec => []AmbiguousIsClose
<1>1. IInv => AmbiguousIsClose
  BY DEF IInv
<1> QED BY <1>1, IInvHolds, PTL

\* The background shows exactly where nothing is met.
THEOREM BackgroundIsRight == Spec => []BackgroundIsEmpty
<1>1. IInv => BackgroundIsEmpty
  BY DEF IInv
<1> QED BY <1>1, IInvHolds, PTL

\* A light is hidden by what is in front of it, and by nothing else.
THEOREM ShadowsAreRight == Spec => []ShadowsAreTrue
<1>1. IInv => ShadowsAreTrue
  BY DEF IInv
<1> QED BY <1>1, IInvHolds, PTL
=============================================================================
