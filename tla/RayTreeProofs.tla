--------------------------- MODULE RayTreeProofs ---------------------------
(***************************************************************************)
(* Proofs about RayTree: for every scene, every granularity of intensity   *)
(* and both limits, a ray brings back no more light than it had, and the   *)
(* recursion stays as shallow as its limit says.                           *)
(***************************************************************************)
EXTENDS RayTree, TLAPS

-----------------------------------------------------------------------------
(* Fractions. *)

\* A product of fractions, rounded down, is a fraction of either of them.
LEMMA MulIs ==
  ASSUME NEW x \in Nat, NEW y \in Nat
  PROVE  /\ Mul(x, y) \in Nat
         /\ Mul(x, y) * One <= x * y
<1>1. One \in Nat /\ One > 0
  BY LightAssumption
<1>2. x * y \in Nat
  OBVIOUS
<1> DEFINE a == x * y
<1>3. a \div One \in Nat /\ (a \div One) * One <= a
  <2>1. a \in Nat
    BY <1>2
  <2> HIDE DEF a
  <2>2. a = One * (a \div One) + (a % One)
    BY <1>1, <2>1
  <2>3. a % One >= 0 /\ a % One \in Nat
    BY <1>1, <2>1
  <2>4. a \div One \in Nat
    BY <1>1, <2>1
  <2> DEFINE q == a \div One
             r == a % One
  <2> HIDE DEF q, r
  <2>5. a = One * q + r /\ r \in Nat /\ q \in Nat
    BY <2>2, <2>3, <2>4 DEF q, r
  <2>6. q \in Nat /\ q * One <= a
    BY <1>1, <2>5
  <2> QED BY <2>6 DEF q
<1> QED BY <1>3 DEF Mul

LEMMA Monotone ==
  ASSUME NEW a \in Nat, NEW b \in Nat, NEW c \in Nat, a <= b
  PROVE  a * c <= b * c /\ c * a <= c * b
<1>1. PICK d \in Nat : b = a + d
  <2>1. b - a \in Nat /\ b = a + (b - a)
    OBVIOUS
  <2> QED BY <2>1
<1>2. b * c = a * c + d * c /\ d * c \in Nat /\ a * c \in Nat
  BY <1>1
<1> QED BY <1>2

LEMMA Cancelled ==
  ASSUME NEW a \in Nat, NEW b \in Nat, NEW c \in Nat \ {0}, a * c <= b * c
  PROVE  a <= b
<1>1. SUFFICES ASSUME a > b PROVE FALSE
  OBVIOUS
<1>2. (b + 1) * c <= a * c
  <2>1. b + 1 \in Nat /\ b + 1 <= a
    BY <1>1
  <2> QED BY <2>1, Monotone
<1>3. (b + 1) * c = b * c + c
  OBVIOUS
<1> QED BY <1>2, <1>3

LEMMA MulShrinks ==
  ASSUME NEW x \in Nat, NEW y \in 0 .. One
  PROVE  Mul(x, y) \in 0 .. x
<1>1. One \in Nat \ {0}
  BY LightAssumption
<1>2. Mul(x, y) \in Nat /\ Mul(x, y) * One <= x * y /\ x * y <= x * One
  BY <1>1, MulIs, Monotone
<1>3. Mul(x, y) * One <= x * One
  <2>1. Mul(x, y) * One \in Nat /\ x * y \in Nat /\ x * One \in Nat
    BY <1>1, <1>2
  <2> HIDE DEF Mul
  <2> QED BY <2>1, <1>2
<1> QED BY <1>1, <1>2, <1>3, Cancelled

\* Of a product of a fraction and a rounded product.
LEMMA MulMul ==
  ASSUME NEW x \in Nat, NEW y \in Nat, NEW z \in Nat
  PROVE  Mul(x, y) * One <= x * y /\ Mul(x, Mul(y, z)) * One * One <= x * (y * z)
<1>1. One \in Nat
  BY LightAssumption
<1> DEFINE m == Mul(y, z)
           k == Mul(x, m)
<1>2. m \in Nat /\ m * One <= y * z
  BY MulIs
<1>3. k \in Nat /\ k * One <= x * m
  BY <1>2, MulIs
<1>4. Mul(x, y) * One <= x * y
  BY MulIs
<1> HIDE DEF k, m
<1>5. k * One * One <= x * m * One
  BY <1>1, <1>2, <1>3, Monotone
<1>6. x * m * One = x * (m * One)
  BY <1>1, <1>2
<1>7. x * (m * One) <= x * (y * z)
  BY <1>1, <1>2, Monotone
<1>8. k * One * One <= x * (y * z)
  BY <1>1, <1>2, <1>3, <1>5, <1>6, <1>7
<1> QED BY <1>4, <1>8 DEF k, m

\* Matte light, the refracted ray and the reflected one are together no more
\* than the ray that is split: opacity weighs matte and gloss, the rest is
\* what is refracted or reflected by refraction.
LEMMA LightIsShared ==
  ASSUME NEW I \in Nat, NEW op \in 0 .. One, NEW ma \in 0 .. One, NEW gl \in 0 .. One,
         ma + gl <= One, NEW lit \in 0 .. One, NEW f \in 0 .. One
  PROVE  /\ Mul(Mul(op, ma), Mul(I, lit)) \in Nat
         /\ Mul(One - f, Mul(One - op, I)) \in Nat
         /\ Mul(I, Mul(One - op, f) + Mul(op, gl)) \in Nat
         /\ Mul(Mul(op, ma), Mul(I, lit)) + Mul(One - f, Mul(One - op, I)) +
              Mul(I, Mul(One - op, f) + Mul(op, gl)) <= I
<1>1. One \in Nat \ {0}
  BY LightAssumption
<1> DEFINE t == One - op
           g == One - f
           w == Mul(op, ma)
           l == Mul(I, lit)
           p == Mul(t, f)
           q == Mul(op, gl)
           A == Mul(w, l)
           B == Mul(g, Mul(t, I))
           C == Mul(I, p + q)
<1>2. /\ op \in Nat /\ ma \in Nat /\ gl \in Nat /\ lit \in Nat /\ f \in Nat
      /\ t \in Nat /\ g \in Nat /\ op + t = One /\ f + g = One
  BY <1>1
<1>3. w \in Nat /\ w * One <= op * ma
  BY <1>2, MulIs
<1>4. l \in Nat /\ l <= I
  BY MulShrinks
<1>5. p \in Nat /\ p * One <= t * f
  BY <1>2, MulIs
<1>6. q \in Nat /\ q * One <= op * gl
  BY <1>2, MulIs
<1>7. B \in Nat /\ B * One * One <= g * (t * I)
  <2>1. Mul(t, I) \in Nat
    BY <1>2, MulIs
  <2> QED BY <1>2, <2>1, MulIs, MulMul
<1>8. A \in Nat /\ A * One <= w * l
  BY <1>3, <1>4, MulIs
<1>9. C \in Nat /\ C * One <= I * (p + q)
  <2>1. p + q \in Nat
    BY <1>5, <1>6
  <2> QED BY <2>1, MulIs
<1> HIDE DEF t, g, w, l, p, q, A, B, C
<1>10. A * One * One <= (op * ma) * I
  <2>1. w * l <= w * I
    BY <1>3, <1>4, Monotone
  <2>2. A * One <= w * I
    BY <1>1, <1>3, <1>4, <1>8, <2>1
  <2>3. A * One * One <= w * I * One
    BY <1>1, <1>3, <1>8, <2>2, Monotone
  <2>4. w * I * One = (w * One) * I
    BY <1>1, <1>3
  <2>5. (w * One) * I <= (op * ma) * I
    BY <1>1, <1>2, <1>3, Monotone
  <2> QED BY <1>1, <1>2, <1>3, <1>8, <2>3, <2>4, <2>5
<1>11. C * One * One <= (t * f) * I + (op * gl) * I
  <2>1. C * One * One <= I * (p + q) * One
    BY <1>1, <1>5, <1>6, <1>9, Monotone
  <2>2. I * (p + q) * One = (p * One) * I + (q * One) * I
    BY <1>1, <1>5, <1>6
  <2>3. (p * One) * I <= (t * f) * I
    BY <1>1, <1>2, <1>5, Monotone
  <2>4. (q * One) * I <= (op * gl) * I
    BY <1>1, <1>2, <1>6, Monotone
  <2>5. /\ C * One * One \in Nat /\ (p * One) * I \in Nat /\ (q * One) * I \in Nat
        /\ (t * f) * I \in Nat /\ (op * gl) * I \in Nat
    BY <1>1, <1>2, <1>5, <1>6, <1>9
  <2> QED BY <2>1, <2>2, <2>3, <2>4, <2>5
<1>12. g * (t * I) + (t * f) * I = (t * One) * I
  <2>1. g * (t * I) + (t * f) * I = (t * (f + g)) * I
    BY <1>2
  <2> QED BY <1>2, <2>1
<1>13. (op * ma) * I + (op * gl) * I <= (op * One) * I
  <2>1. (op * ma) * I + (op * gl) * I = (op * I) * (ma + gl)
    BY <1>2
  <2>2. (op * I) * (ma + gl) <= (op * I) * One
    <3>1. op * I \in Nat /\ ma + gl \in Nat
      BY <1>2
    <3> QED BY <1>1, <3>1, Monotone
  <2>3. (op * I) * One = (op * One) * I
    BY <1>1, <1>2
  <2> QED BY <2>1, <2>2, <2>3
<1>14. (op * One) * I + (t * One) * I = I * One * One
  <2>1. (op * One) * I + (t * One) * I = (op + t) * (One * I)
    BY <1>1, <1>2
  <2>2. (op + t) * (One * I) = One * (One * I)
    BY <1>2
  <2>3. One * (One * I) = I * One * One
    BY <1>1
  <2> QED BY <2>1, <2>2, <2>3
<1>15. A * One * One + B * One * One + C * One * One <= I * One * One
  <2>1. /\ A * One * One \in Nat /\ B * One * One \in Nat /\ C * One * One \in Nat
        /\ (op * ma) * I \in Nat /\ g * (t * I) \in Nat /\ (t * f) * I \in Nat
        /\ (op * gl) * I \in Nat /\ (op * One) * I \in Nat /\ (t * One) * I \in Nat
    BY <1>1, <1>2, <1>7, <1>8, <1>9
  <2> QED BY ONLY <1>7, <1>10, <1>11, <1>12, <1>13, <1>14, <2>1
<1>16. (A + B + C) * (One * One) <= I * (One * One)
  <2>1. (A + B + C) * (One * One) = A * One * One + B * One * One + C * One * One
    BY <1>1, <1>7, <1>8, <1>9
  <2>2. I * (One * One) = I * One * One
    BY <1>1
  <2> QED BY <1>15, <2>1, <2>2
<1>17. A + B + C <= I
  <2>1. A + B + C \in Nat /\ One * One \in Nat \ {0}
    BY <1>1, <1>7, <1>8, <1>9
  <2> QED BY <1>16, <2>1, Cancelled
<1> QED BY <1>7, <1>8, <1>9, <1>17 DEF t, g, w, l, p, q, A, B, C

-----------------------------------------------------------------------------
(* The stack. *)

LEMMA Numbers ==
  /\ One \in Nat /\ One > 0
  /\ MIN_OPTICAL_INTENSITY \in 1 .. One
  /\ MAX_OPTICAL_RECURSION_DEPTH \in Nat
BY LightAssumption

LEMMA SurfacesAreValid ==
  ASSUME NEW o \in Surfaces \union {Unknown}
  PROVE  /\ o.opacity \in 0 .. One /\ o.matte \in 0 .. One /\ o.gloss \in 0 .. One
         /\ o.matte + o.gloss <= One
BY LightAssumption DEF ValidOptics, Unknown

LEMMA FrameFields ==
  ASSUME NEW f \in Frames
  PROVE  /\ f.intensity \in 0 .. One /\ f.factor \in 0 .. One
         /\ f.stage \in {"trace", "light", "reflect", "return"}
         /\ f.optics \in Surfaces \union {Unknown}
         /\ f.colorSum \in Colors
         /\ f.colorSum.sky \in Nat /\ f.colorSum.lamp \in Nat
BY DEF Frames, Colors

\* What all frames of a stack and their callers keep to.
FrameIsRight(f, n) ==
  /\ Collected(f) <= f.intensity
  /\ f.stage \in {"trace", "light"} => f.colorSum = Black
  /\ f.stage = "reflect" => n <= MAX_OPTICAL_RECURSION_DEPTH
CallerIsRight(f, g) ==
  f.stage \in {"reflect", "return"} /\ Collected(f) + g.intensity <= f.intensity
StackIsRight(s) ==
  /\ s \in Seq(Frames) /\ Len(s) <= MAX_OPTICAL_RECURSION_DEPTH + 1
  /\ \A n \in 1 .. Len(s) : FrameIsRight(s[n], n)
  /\ \A n \in 1 .. Len(s) - 1 : CallerIsRight(s[n], s[n + 1])
RestIsRight ==
  /\ phase \in {"compose", "sent", "trace", "done", "ambiguous", "failed", "slanted"}
  /\ color \in Colors /\ color.sky + color.lamp <= One
  /\ phase = "trace" => stack # <<>>

LEMMA InvariantParts == TreeIInv <=> StackIsRight(stack) /\ RestIsRight
BY DEF TreeIInv, TreeTypeOK, CallersWait, LightIsSpent, RecursionIsShallow, NoLightFromNothing,
   StackIsRight, RestIsRight, FrameIsRight, CallerIsRight

LEMMA CollectedIs ==
  ASSUME NEW f \in Frames
  PROVE  /\ Collected(f) \in Nat /\ Reflects(f) \in Nat
         /\ Amount(f.colorSum) \in Nat
<1>1. Amount(f.colorSum) \in Nat
  BY FrameFields DEF Amount
<1>2. Reflects(f) \in Nat
  <2> DEFINE o == f.optics
             p == Mul(One - o.opacity, f.factor)
             q == Mul(o.opacity, o.gloss)
  <2>1. o.opacity \in 0 .. One /\ o.gloss \in 0 .. One /\ f.factor \in 0 .. One /\ f.intensity \in 0 .. One
    BY FrameFields, SurfacesAreValid
  <2>2. One - o.opacity \in Nat /\ o.opacity \in Nat /\ o.gloss \in Nat /\ f.factor \in Nat /\ f.intensity \in Nat
    BY <2>1, Numbers
  <2>3. p \in Nat /\ q \in Nat
    BY <2>2, MulIs
  <2>4. p + q \in Nat
    BY <2>3
  <2>5. Mul(f.intensity, p + q) \in Nat
    BY <2>2, <2>4, MulIs
  <2> QED BY <2>5 DEF Reflects
<1> QED BY <1>1, <1>2, FrameFields DEF Collected

\* The stack without its last frame.
LEMMA BelowTop ==
  ASSUME StackIsRight(stack), stack # <<>>
  PROVE  /\ Len(stack) \in Nat \ {0} /\ Top \in Frames
         /\ Popped \in Seq(Frames) /\ Len(Popped) = Len(stack) - 1
         /\ \A n \in 1 .. Len(stack) - 1 : Popped[n] = stack[n]
         /\ StackIsRight(Popped)
<1>1. stack \in Seq(Frames) /\ Len(stack) \in Nat \ {0}
  BY DEF StackIsRight
<1>2. Top \in Frames
  BY <1>1 DEF Top
<1>3. /\ Popped \in Seq(Frames) /\ Len(Popped) = Len(stack) - 1
      /\ \A n \in 1 .. Len(stack) - 1 : Popped[n] = stack[n]
  <2> DEFINE k == Len(stack) - 1
  <2>1. k \in 0 .. Len(stack) /\ \A n \in 1 .. k : stack[n] \in Frames
    BY <1>1
  <2>2. Popped = [n \in 1 .. k |-> stack[n]]
    BY <1>1, <2>1 DEF Popped
  <2> HIDE DEF k
  <2>3. /\ Popped \in Seq(Frames) /\ Len(Popped) = k
        /\ \A n \in 1 .. k : Popped[n] = stack[n]
    BY <2>1, <2>2
  <2> QED BY <2>3 DEF k
<1>4. StackIsRight(Popped)
  <2> HIDE DEF Popped
  <2>1. Len(Popped) <= MAX_OPTICAL_RECURSION_DEPTH + 1
    BY <1>1, <1>3, Numbers DEF StackIsRight
  <2>2. \A n \in 1 .. Len(Popped) : FrameIsRight(Popped[n], n)
    BY <1>1, <1>3 DEF StackIsRight
  <2>3. \A n \in 1 .. Len(Popped) - 1 : CallerIsRight(Popped[n], Popped[n + 1])
    BY <1>1, <1>3 DEF StackIsRight
  <2> QED BY <1>3, <2>1, <2>2, <2>3 DEF StackIsRight
<1> QED BY <1>1, <1>2, <1>3, <1>4

\* One more frame on a stack whose last frame has room for it.
LEMMA Pushed ==
  ASSUME NEW s, StackIsRight(s), NEW f \in Frames,
         Len(s) <= MAX_OPTICAL_RECURSION_DEPTH,
         FrameIsRight(f, Len(s) + 1),
         Len(s) > 0 => CallerIsRight(s[Len(s)], f)
  PROVE  StackIsRight(Append(s, f))
<1> DEFINE t == Append(s, f)
<1>1. s \in Seq(Frames) /\ Len(s) \in Nat
  BY DEF StackIsRight
<1>2. /\ t \in Seq(Frames) /\ Len(t) = Len(s) + 1 /\ t[Len(s) + 1] = f
      /\ \A n \in 1 .. Len(s) : t[n] = s[n]
  BY <1>1
<1> HIDE DEF t
<1>3. \A n \in 1 .. Len(t) : FrameIsRight(t[n], n)
  BY <1>1, <1>2 DEF StackIsRight
<1>4. \A n \in 1 .. Len(t) - 1 : CallerIsRight(t[n], t[n + 1])
  <2> SUFFICES ASSUME NEW n \in 1 .. Len(t) - 1 PROVE CallerIsRight(t[n], t[n + 1])
    OBVIOUS
  <2>1. CASE n = Len(s)
    BY <1>1, <1>2, <2>1
  <2>2. CASE n # Len(s)
    BY <1>1, <1>2, <2>2 DEF StackIsRight
  <2> QED BY <2>1, <2>2
<1>5. Len(t) <= MAX_OPTICAL_RECURSION_DEPTH + 1
  BY <1>1, <1>2, Numbers
<1>6. StackIsRight(t)
  BY <1>2, <1>3, <1>4, <1>5 DEF StackIsRight
<1> QED BY <1>6 DEF t

\* The last frame is replaced by a later one of the same ray.
LEMMA Replaced ==
  ASSUME StackIsRight(stack), stack # <<>>, NEW f \in Frames,
         f.intensity = Top.intensity, FrameIsRight(f, Len(stack))
  PROVE  StackIsRight(Append(Popped, f))
<1>1. /\ Len(stack) \in Nat \ {0} /\ Len(Popped) = Len(stack) - 1
      /\ \A n \in 1 .. Len(stack) - 1 : Popped[n] = stack[n]
      /\ StackIsRight(Popped)
  BY BelowTop
<1>2. Len(Popped) <= MAX_OPTICAL_RECURSION_DEPTH
  BY <1>1, Numbers DEF StackIsRight
<1>3. ASSUME Len(Popped) > 0 PROVE CallerIsRight(Popped[Len(Popped)], f)
  <2> DEFINE k == Len(stack) - 1
  <2>1. k \in 1 .. Len(stack) - 1 /\ k + 1 = Len(stack)
    BY <1>1, <1>3
  <2>2. CallerIsRight(stack[k], stack[k + 1])
    BY <2>1 DEF StackIsRight
  <2>3. Popped[Len(Popped)] = stack[k] /\ stack[k + 1] = Top
    BY <1>1, <2>1 DEF Top
  <2> QED BY <2>2, <2>3 DEF CallerIsRight
<1>4. FrameIsRight(f, Len(Popped) + 1)
  BY <1>1
<1> QED BY <1>1, <1>2, <1>3, <1>4, Pushed

-----------------------------------------------------------------------------
(* The steps. *)

LEMMA GoesInv ==
  ASSUME TreeIInv, stack # <<>>, NEW f \in Frames, Goes(f),
         f.intensity = Top.intensity, FrameIsRight(f, Len(stack))
  PROVE  TreeIInv'
<1>1. StackIsRight(stack')
  BY InvariantParts, Replaced DEF Goes
<1>2. stack' # <<>>
  <2>1. Popped \in Seq(Frames)
    BY InvariantParts, BelowTop
  <2> QED BY <2>1 DEF Goes
<1>3. RestIsRight'
  BY <1>2, InvariantParts DEF RestIsRight, Goes
<1>4. StackIsRight(stack)'
  BY <1>1 DEF StackIsRight
<1> QED BY <1>3, <1>4, InvariantParts, PTL

LEMMA CallsInv ==
  ASSUME TreeIInv, stack # <<>>, NEW f \in Frames, NEW i \in 0 .. One, Calls(f, i),
         f.intensity = Top.intensity, FrameIsRight(f, Len(stack)),
         f.stage \in {"reflect", "return"}, Collected(f) + i <= f.intensity,
         Len(stack) <= MAX_OPTICAL_RECURSION_DEPTH
  PROVE  TreeIInv'
<1> DEFINE s == Append(Popped, f)
           g == Frame(i)
<1>1. /\ StackIsRight(s) /\ Len(s) = Len(stack) /\ s[Len(s)] = f /\ s \in Seq(Frames)
  <2>1. Popped \in Seq(Frames) /\ Len(Popped) = Len(stack) - 1 /\ Len(stack) \in Nat
    BY InvariantParts, BelowTop
  <2>2. s \in Seq(Frames) /\ Len(s) = Len(stack) /\ s[Len(s)] = f
    BY <2>1
  <2>3. StackIsRight(s)
    BY InvariantParts, Replaced
  <2> QED BY <2>2, <2>3
<1>2. g \in Frames /\ g.intensity = i /\ g.stage = "trace" /\ g.colorSum = Black
  BY Numbers DEF Frame, Frames, Colors, Black
<1>3. Collected(g) = 0
  BY <1>2 DEF Collected
<1> HIDE DEF s, g
<1>4. FrameIsRight(g, Len(s) + 1)
  BY <1>2, <1>3 DEF FrameIsRight
<1>5. CallerIsRight(s[Len(s)], g)
  BY <1>1, <1>2 DEF CallerIsRight
<1>6. StackIsRight(Append(s, g))
  BY <1>1, <1>2, <1>4, <1>5, Pushed
<1>7. stack' = Append(s, g) /\ UNCHANGED <<phase, color>>
  BY DEF Calls, s, g
<1>8. stack' # <<>>
  BY <1>1, <1>7
<1>9. RestIsRight'
  BY <1>7, <1>8, InvariantParts DEF RestIsRight
<1>10. StackIsRight(stack)'
  BY <1>6, <1>7 DEF StackIsRight
<1> QED BY <1>9, <1>10, InvariantParts, PTL

\* No frame is a stack of no frames.
LEMMA EmptyIsRight == StackIsRight(<<>>)
BY Numbers DEF StackIsRight

LEMMA ReturnInv ==
  ASSUME TreeIInv, phase = "trace", NEW r \in Colors, Amount(r) <= Top.intensity, Return(r)
  PROVE  TreeIInv'
<1>1. StackIsRight(stack) /\ RestIsRight /\ stack # <<>>
  BY InvariantParts DEF RestIsRight
<1>2. /\ Len(stack) \in Nat \ {0} /\ Top \in Frames
      /\ Popped \in Seq(Frames) /\ Len(Popped) = Len(stack) - 1
      /\ \A n \in 1 .. Len(stack) - 1 : Popped[n] = stack[n]
      /\ StackIsRight(Popped)
  BY <1>1, BelowTop
<1>3. Amount(r) \in Nat /\ Top.intensity \in 0 .. One /\ r.sky \in Nat /\ r.lamp \in Nat
  BY <1>2, FrameFields DEF Amount, Colors
<1>4. CASE Len(stack) = 1
  <2>1. stack' = <<>> /\ color' = r /\ phase' = "done"
    BY <1>4 DEF Return
  <2>2. r.sky + r.lamp <= One
    BY <1>3, Numbers DEF Amount
  <2>3. RestIsRight'
    BY <2>1, <2>2 DEF RestIsRight
  <2>4. StackIsRight(stack)'
    BY <2>1, EmptyIsRight DEF StackIsRight
  <2> QED BY <2>3, <2>4, InvariantParts, PTL
<1>5. CASE Len(stack) # 1
  <2> DEFINE k == Len(stack) - 1
             f == stack[k]
             g == [f EXCEPT !.colorSum = Sum(@, r)]
             s == [Popped EXCEPT ![k].colorSum = Sum(@, r)]
  <2>1. k \in Nat \ {0} /\ k + 1 = Len(stack) /\ k = Len(Popped)
    BY <1>2, <1>5
  <2>2. f \in Frames /\ FrameIsRight(f, k) /\ CallerIsRight(f, Top)
    BY <1>1, <2>1 DEF StackIsRight, Top
  <2>3. stack' = s /\ UNCHANGED <<phase, color>>
    BY <1>5 DEF Return
  <2>4. /\ g \in Frames /\ g.intensity = f.intensity /\ g.stage = f.stage
        /\ g.optics = f.optics /\ g.factor = f.factor
        /\ g.colorSum = Sum(f.colorSum, r)
    <3>1. Sum(f.colorSum, r) \in Colors
      <4>1. f.colorSum.sky \in Nat /\ f.colorSum.lamp \in Nat
        BY <2>2, FrameFields
      <4> HIDE DEF f
      <4> QED BY ONLY <1>3, <4>1 DEF Sum, Colors
    <3> HIDE DEF f
    <3> QED BY <2>2, <3>1 DEF Frames
  <2>5. Popped[k] = f
    BY <1>2, <2>1
  <2>6. s = [n \in 1 .. k |-> IF n = k THEN g ELSE Popped[n]]
    <3> HIDE DEF f, k
    <3>1. DOMAIN Popped = 1 .. k
      BY <1>2, <2>1
    <3> QED BY <1>2, <2>1, <2>5, <3>1
  <2> HIDE DEF f, g, s, k
  <2>7. s \in Seq(Frames) /\ Len(s) = k /\ s[k] = g /\ \A n \in 1 .. k - 1 : s[n] = Popped[n]
    <3>1. \A n \in 1 .. k : (IF n = k THEN g ELSE Popped[n]) \in Frames
      BY <1>2, <2>1, <2>4
    <3> QED BY <2>1, <2>6, <3>1
  <2>8. Collected(g) = Collected(f) + Amount(r)
    <3>1. f.stage \in {"reflect", "return"}
      BY <2>2 DEF CallerIsRight
    <3>2. Reflects(g) = Reflects(f)
      BY <2>4 DEF Reflects
    <3>3. Amount(g.colorSum) = Amount(f.colorSum) + Amount(r)
      BY <1>3, <2>2, <2>4, FrameFields DEF Amount, Sum
    <3>4. Reflects(f) \in Nat /\ Amount(f.colorSum) \in Nat
      BY <2>2, CollectedIs
    <3> QED BY <1>3, <2>4, <3>1, <3>2, <3>3, <3>4 DEF Collected
  <2>9. FrameIsRight(g, k)
    <3>1. Collected(f) + Top.intensity <= f.intensity /\ f.stage \in {"reflect", "return"}
      BY <2>2 DEF CallerIsRight
    <3>2. Collected(f) \in Nat /\ f.intensity \in 0 .. One
      BY <2>2, CollectedIs, FrameFields
    <3>3. Collected(g) <= g.intensity
      BY <1>3, <2>4, <2>8, <3>1, <3>2, Numbers
    <3> QED BY <2>2, <2>4, <3>1, <3>3 DEF FrameIsRight
  <2>10. \A n \in 1 .. Len(s) : FrameIsRight(s[n], n)
    <3>1. \A n \in 1 .. k - 1 : FrameIsRight(Popped[n], n)
      BY <1>2, <2>1 DEF StackIsRight
    <3> QED BY <2>1, <2>7, <2>9, <3>1
  <2>11. \A n \in 1 .. Len(s) - 1 : CallerIsRight(s[n], s[n + 1])
    <3> SUFFICES ASSUME NEW n \in 1 .. k - 1 PROVE CallerIsRight(s[n], s[n + 1])
      BY <2>1, <2>7
    <3>1. CallerIsRight(Popped[n], Popped[n + 1])
      BY <1>2, <2>1 DEF StackIsRight
    <3>2. CASE n + 1 = k
      BY <2>1, <2>4, <2>5, <2>7, <3>1, <3>2 DEF CallerIsRight
    <3>3. CASE n + 1 # k
      BY <2>1, <2>7, <3>1, <3>3
    <3> QED BY <3>2, <3>3
  <2>12. Len(s) <= MAX_OPTICAL_RECURSION_DEPTH + 1
    BY <1>1, <1>2, <2>1, <2>7, Numbers DEF StackIsRight
  <2>13. StackIsRight(s)
    BY <2>7, <2>10, <2>11, <2>12 DEF StackIsRight
  <2>14. stack' # <<>>
    BY <2>1, <2>3, <2>7
  <2>15. RestIsRight'
    BY <1>1, <2>3, <2>14 DEF RestIsRight
  <2>16. StackIsRight(stack)'
    BY <2>3, <2>13 DEF StackIsRight
  <2> QED BY <2>15, <2>16, InvariantParts, PTL
<1> QED BY <1>4, <1>5

\* The frame that runs.
LEMMA TopIs ==
  ASSUME TreeIInv, phase = "trace"
  PROVE  /\ stack # <<>> /\ Top \in Frames /\ Len(stack) \in Nat \ {0}
         /\ FrameIsRight(Top, Len(stack))
<1>1. StackIsRight(stack) /\ stack # <<>>
  BY InvariantParts DEF RestIsRight
<1>2. Len(stack) \in Nat \ {0} /\ Top \in Frames
  BY <1>1, BelowTop
<1> QED BY <1>1, <1>2 DEF StackIsRight, Top

\* A surface that is lit: the part of the light that is refracted is left.
LEMMA LitIs ==
  ASSUME TreeIInv, Lighting, NEW lit \in 0 .. One, NEW factor \in 0 .. One
  PROVE  /\ Lit(lit, factor) \in Frames
         /\ Lit(lit, factor).intensity = Top.intensity
         /\ Lit(lit, factor).stage = "reflect"
         /\ FrameIsRight(Lit(lit, factor), Len(stack))
         /\ Mul(One - factor, Mul(transparency, Top.intensity)) \in 0 .. One
         /\ Collected(Lit(lit, factor)) + Mul(One - factor, Mul(transparency, Top.intensity))
              <= Top.intensity
         /\ Len(stack) <= MAX_OPTICAL_RECURSION_DEPTH
<1> DEFINE f == Lit(lit, factor)
           o == Top.optics
           I == Top.intensity
           matte == Mul(Mul(o.opacity, o.matte), Mul(I, lit))
           refr == Mul(One - factor, Mul(One - o.opacity, I))
           refl == Mul(I, Mul(One - o.opacity, factor) + Mul(o.opacity, o.gloss))
<1>1. phase = "trace" /\ Top.stage = "light" /\ Len(stack) <= MAX_OPTICAL_RECURSION_DEPTH
  <2>1. Len(stack) \in Nat
    BY TopIs DEF Lighting, At
  <2> QED BY <2>1, Numbers DEF Lighting, At, TooDeepOrWeak
<1>2. Top \in Frames /\ Len(stack) \in Nat \ {0} /\ Top.colorSum = Black
  BY <1>1, TopIs DEF FrameIsRight
<1>3. I \in 0 .. One /\ I \in Nat
  BY <1>2, FrameFields, Numbers
<1>4. /\ o.opacity \in 0 .. One /\ o.matte \in 0 .. One /\ o.gloss \in 0 .. One
      /\ o.matte + o.gloss <= One
  BY <1>2, FrameFields, SurfacesAreValid
<1>5. matte \in Nat /\ refr \in Nat /\ refl \in Nat /\ matte + refr + refl <= I
  <2> HIDE DEF o, I
  <2> QED BY <1>3, <1>4, LightIsShared
<1>6. MatteColor(lit) = [sky |-> 0, lamp |-> matte]
  BY DEF MatteColor
<1>7. refr = Mul(One - factor, Mul(transparency, Top.intensity))
  BY DEF transparency
<1> HIDE DEF matte, refr
<1>8. Sum(Black, MatteColor(lit)) = [sky |-> 0, lamp |-> matte]
  BY <1>5, <1>6 DEF Sum, Black
<1>9. f = [Top EXCEPT !.colorSum = [sky |-> 0, lamp |-> matte], !.stage = "reflect", !.factor = factor]
  BY <1>2, <1>8 DEF Lit
<1>10. /\ f \in Frames /\ f.intensity = I /\ f.stage = "reflect" /\ f.factor = factor
       /\ f.colorSum = [sky |-> 0, lamp |-> matte] /\ f.optics = o
  <2>1. [sky |-> 0, lamp |-> matte] \in Colors
    BY <1>5 DEF Colors
  <2> HIDE DEF f
  <2> QED BY <1>2, <1>9, <2>1 DEF Frames
<1>11. Collected(f) = matte + refl
  <2>1. Reflects(f) = refl
    <3> HIDE DEF f
    <3> QED BY <1>10 DEF Reflects
  <2>2. Amount(f.colorSum) = matte
    <3> HIDE DEF f
    <3> QED BY <1>5, <1>10 DEF Amount
  <2> HIDE DEF f, refl
  <2> QED BY <1>10, <2>1, <2>2 DEF Collected
<1> HIDE DEF f, refl, o, I
<1>12. Collected(f) + refr <= I /\ Collected(f) <= I /\ refr \in 0 .. One
  BY <1>3, <1>5, <1>11, Numbers
<1>13. FrameIsRight(f, Len(stack))
  BY <1>1, <1>2, <1>10, <1>12 DEF FrameIsRight
<1> QED BY <1>1, <1>7, <1>10, <1>12, <1>13 DEF f, I

LEMMA ShootInv == ASSUME TreeIInv, TreeShoot PROVE TreeIInv'
<1> DEFINE g == Frame(One)
<1>1. g \in Frames /\ g.intensity = One /\ g.stage = "trace" /\ g.colorSum = Black
  BY Numbers DEF Frame, Frames, Colors, Black
<1>2. Collected(g) = 0
  BY <1>1 DEF Collected
<1> HIDE DEF g
<1>3. stack' = <<g>> /\ color' = Black /\ phase' = "trace"
  BY DEF TreeShoot, g
<1>4. FrameIsRight(g, 1)
  BY <1>1, <1>2, Numbers DEF FrameIsRight
<1>5. StackIsRight(<<g>>)
  BY <1>1, <1>4, Numbers DEF StackIsRight
<1>6. StackIsRight(stack)'
  BY <1>3, <1>5 DEF StackIsRight
<1>7. RestIsRight'
  BY <1>3, Numbers DEF RestIsRight, Black, Colors
<1> QED BY <1>6, <1>7, InvariantParts, PTL

LEMMA BackgroundInv == ASSUME TreeIInv, TreeBackground PROVE TreeIInv'
<1> DEFINE r == [sky |-> Top.intensity, lamp |-> 0]
<1>1. phase = "trace" /\ Return(r)
  BY DEF TreeBackground, At
<1>2. Top.intensity \in Nat
  BY <1>1, TopIs, FrameFields, Numbers
<1>3. r \in Colors /\ Amount(r) <= Top.intensity
  BY <1>2 DEF Colors, Amount
<1> HIDE DEF r
<1> QED BY <1>1, <1>3, ReturnInv

LEMMA HitInv ==
  ASSUME TreeIInv, NEW optics \in Surfaces, TreeHit(optics) PROVE TreeIInv'
<1> DEFINE f == [Top EXCEPT !.optics = optics, !.stage = "light"]
<1>1. phase = "trace" /\ Top.stage = "trace" /\ Goes(f)
  BY DEF TreeHit, At
<1>2. /\ stack # <<>> /\ Top \in Frames /\ Top.colorSum = Black
  BY <1>1, TopIs DEF FrameIsRight
<1>3. f \in Frames /\ f.intensity = Top.intensity /\ f.stage = "light" /\ f.colorSum = Black
  BY <1>2 DEF Frames
<1> HIDE DEF f
<1>4. Collected(f) = 0 /\ f.intensity \in 0 .. One
  BY <1>3, FrameFields DEF Collected
<1>5. FrameIsRight(f, Len(stack))
  BY <1>3, <1>4, Numbers DEF FrameIsRight
<1> QED BY <1>1, <1>2, <1>3, <1>5, GoesInv

LEMMA LeaveInv ==
  ASSUME TreeIInv, NEW why \in {"ambiguous", "slanted"}, TreeLeave(why) PROVE TreeIInv'
<1>1. stack' = <<>> /\ phase' = why /\ color' = color
  BY DEF TreeLeave
<1>2. StackIsRight(stack)'
  BY <1>1, EmptyIsRight DEF StackIsRight
<1>3. RestIsRight'
  BY <1>1, InvariantParts DEF RestIsRight
<1> QED BY <1>2, <1>3, InvariantParts, PTL

LEMMA StopInv == ASSUME TreeIInv, StopRecursion PROVE TreeIInv'
<1>1. phase = "trace" /\ Return(Black)
  BY DEF StopRecursion, At
<1>2. Top.intensity \in 0 .. One
  BY <1>1, TopIs, FrameFields
<1>3. Black \in Colors /\ Amount(Black) <= Top.intensity
  BY <1>2, Numbers DEF Colors, Amount, Black
<1> QED BY <1>1, <1>3, ReturnInv

LEMMA LitGoes ==
  ASSUME TreeIInv, Lighting, NEW lit \in 0 .. One, NEW factor \in 0 .. One,
         Goes(Lit(lit, factor))
  PROVE  TreeIInv'
<1>1. phase = "trace"
  BY DEF Lighting, At
<1>2. stack # <<>>
  BY <1>1, TopIs
<1>3. /\ Lit(lit, factor) \in Frames /\ Lit(lit, factor).intensity = Top.intensity
      /\ FrameIsRight(Lit(lit, factor), Len(stack))
  BY LitIs
<1> QED BY <1>2, <1>3, GoesInv

LEMMA OpaqueInv ==
  ASSUME TreeIInv, NEW lit \in 0 .. One, TreeOpaque(lit) PROVE TreeIInv'
<1>1. Lighting /\ Goes(Lit(lit, 0)) /\ 0 \in 0 .. One
  BY Numbers DEF TreeOpaque
<1> QED BY <1>1, LitGoes

LEMMA TotalReflectionInv ==
  ASSUME TreeIInv, NEW lit \in 0 .. One, TreeTotalReflection(lit) PROVE TreeIInv'
<1>1. Lighting /\ Goes(Lit(lit, One)) /\ One \in 0 .. One
  BY Numbers DEF TreeTotalReflection
<1> QED BY <1>1, LitGoes

LEMMA RefractInv ==
  ASSUME TreeIInv, NEW lit \in 0 .. One, NEW factor \in 0 .. One, TreeRefract(lit, factor)
  PROVE  TreeIInv'
<1> DEFINE f == Lit(lit, factor)
           i == Mul(One - factor, Mul(transparency, Top.intensity))
<1>1. Lighting /\ phase = "trace" /\ Calls(f, i)
  BY DEF TreeRefract, Lighting, At
<1>2. stack # <<>>
  BY <1>1, TopIs
<1>3. /\ f \in Frames /\ f.intensity = Top.intensity /\ f.stage = "reflect"
      /\ FrameIsRight(f, Len(stack)) /\ i \in 0 .. One
      /\ Collected(f) + i <= Top.intensity /\ Len(stack) <= MAX_OPTICAL_RECURSION_DEPTH
  BY <1>1, LitIs
<1> HIDE DEF f, i
<1> QED BY <1>1, <1>2, <1>3, CallsInv

\* What a frame will still reflect.
LEMMA ReflectionIs ==
  ASSUME TreeIInv, phase = "trace", Top.stage = "reflect"
  PROVE  /\ ReflectionColor \in 0 .. One
         /\ Amount(Top.colorSum) \in Nat
         /\ Amount(Top.colorSum) + ReflectionColor <= Top.intensity
         /\ Len(stack) <= MAX_OPTICAL_RECURSION_DEPTH
<1>1. Top \in Frames /\ FrameIsRight(Top, Len(stack))
  BY TopIs
<1>2. ReflectionColor = Reflects(Top)
  BY DEF ReflectionColor, Reflects, transparency
<1>3. Collected(Top) = Amount(Top.colorSum) + Reflects(Top)
  BY DEF Collected
<1>4. Reflects(Top) \in Nat /\ Amount(Top.colorSum) \in Nat /\ Top.intensity \in 0 .. One
  BY <1>1, CollectedIs, FrameFields
<1> QED BY <1>1, <1>2, <1>3, <1>4, Numbers DEF FrameIsRight

\* A frame that only has its color to return.
LEMMA ReturnsNext ==
  ASSUME TreeIInv, phase = "trace", Top.stage = "reflect"
  PROVE  /\ [Top EXCEPT !.stage = "return"] \in Frames
         /\ [Top EXCEPT !.stage = "return"].intensity = Top.intensity
         /\ [Top EXCEPT !.stage = "return"].stage = "return"
         /\ Collected([Top EXCEPT !.stage = "return"]) = Amount(Top.colorSum)
         /\ FrameIsRight([Top EXCEPT !.stage = "return"], Len(stack))
<1> DEFINE f == [Top EXCEPT !.stage = "return"]
<1>1. Top \in Frames
  BY TopIs
<1>2. f \in Frames /\ f.intensity = Top.intensity /\ f.stage = "return" /\ f.colorSum = Top.colorSum
  BY <1>1 DEF Frames
<1> HIDE DEF f
<1>3. Collected(f) = Amount(Top.colorSum)
  BY <1>2 DEF Collected
<1>4. Amount(Top.colorSum) <= Top.intensity
  BY <1>1, ReflectionIs, FrameFields, Numbers
<1>5. FrameIsRight(f, Len(stack))
  BY <1>2, <1>3, <1>4 DEF FrameIsRight
<1> QED BY <1>2, <1>3, <1>5 DEF f

LEMMA ReflectInv == ASSUME TreeIInv, TreeReflect PROVE TreeIInv'
<1> DEFINE f == [Top EXCEPT !.stage = "return"]
<1>1. phase = "trace" /\ Top.stage = "reflect" /\ Calls(f, ReflectionColor)
  BY DEF TreeReflect, At
<1>2. stack # <<>>
  BY <1>1, TopIs
<1>3. /\ f \in Frames /\ f.intensity = Top.intensity /\ f.stage = "return"
      /\ FrameIsRight(f, Len(stack)) /\ Collected(f) = Amount(Top.colorSum)
  BY <1>1, ReturnsNext
<1>4. /\ ReflectionColor \in 0 .. One /\ Len(stack) <= MAX_OPTICAL_RECURSION_DEPTH
      /\ Amount(Top.colorSum) + ReflectionColor <= Top.intensity
  BY <1>1, ReflectionIs
<1> HIDE DEF f
<1>5. Collected(f) + ReflectionColor <= f.intensity
  BY <1>3, <1>4
<1> QED BY <1>1, <1>2, <1>3, <1>4, <1>5, CallsInv

LEMMA NoReflectionInv == ASSUME TreeIInv, NoReflection PROVE TreeIInv'
<1>1. phase = "trace" /\ Top.stage = "reflect" /\ Goes([Top EXCEPT !.stage = "return"])
  BY DEF NoReflection, At
<1>2. stack # <<>>
  BY <1>1, TopIs
<1> QED BY <1>1, <1>2, ReturnsNext, GoesInv

LEMMA ReturnColorInv == ASSUME TreeIInv, ReturnColor PROVE TreeIInv'
<1>1. phase = "trace" /\ Top.stage = "return" /\ Return(Top.colorSum)
  BY DEF ReturnColor, At
<1>2. Top \in Frames /\ FrameIsRight(Top, Len(stack))
  BY <1>1, TopIs
<1>3. Top.colorSum \in Colors /\ Amount(Top.colorSum) <= Top.intensity
  BY <1>1, <1>2, FrameFields DEF FrameIsRight, Collected
<1> QED BY <1>1, <1>3, ReturnInv

LEMMA TreeStepInv == ASSUME TreeIInv, [TreeNext]_treeVars PROVE TreeIInv'
<1>1. CASE TreeLoad \/ TreeFails \/ UNCHANGED treeVars
  <2>1. UNCHANGED <<stack, color>>
    BY <1>1 DEF TreeLoad, TreeFails, treeVars
  <2>2. RestIsRight'
    BY <1>1, <2>1, InvariantParts DEF RestIsRight, TreeLoad, TreeFails, treeVars
  <2>3. StackIsRight(stack)'
    BY <2>1, InvariantParts DEF StackIsRight
  <2> QED BY <2>2, <2>3, InvariantParts, PTL
<1>2. CASE TreeShoot
  BY <1>2, ShootInv
<1>3. CASE TreeBackground
  BY <1>3, BackgroundInv
<1>4. CASE \E optics \in Surfaces : TreeHit(optics)
  BY <1>4, HitInv
<1>5. CASE \E why \in {"ambiguous", "slanted"} : TreeLeave(why)
  BY <1>5, LeaveInv
<1>6. CASE StopRecursion
  BY <1>6, StopInv
<1>7. CASE \E lit \in 0 .. One : TreeOpaque(lit)
  BY <1>7, OpaqueInv
<1>8. CASE \E lit \in 0 .. One : TreeTotalReflection(lit)
  BY <1>8, TotalReflectionInv
<1>9. CASE \E lit, factor \in 0 .. One : TreeRefract(lit, factor)
  BY <1>9, RefractInv
<1>10. CASE TreeReflect
  BY <1>10, ReflectInv
<1>11. CASE NoReflection
  BY <1>11, NoReflectionInv
<1>12. CASE ReturnColor
  BY <1>12, ReturnColorInv
<1> QED
  BY <1>1, <1>2, <1>3, <1>4, <1>5, <1>6, <1>7, <1>8, <1>9, <1>10, <1>11, <1>12 DEF TreeNext

LEMMA TreeInitInv == TreeInit => TreeIInv
<1> SUFFICES ASSUME TreeInit PROVE TreeIInv
  OBVIOUS
<1>1. StackIsRight(stack)
  BY EmptyIsRight DEF TreeInit
<1>2. RestIsRight
  BY Numbers DEF TreeInit, RestIsRight, Black, Colors
<1> QED BY <1>1, <1>2, InvariantParts

\* Whatever a scene answers to a ray, its frames share the light it has.
THEOREM TreeIInvHolds == TreeSpec => []TreeIInv
<1>1. TreeIInv /\ [TreeNext]_treeVars => TreeIInv'
  BY TreeStepInv
<1> QED BY <1>1, TreeInitInv, PTL DEF TreeSpec

\* A ray brings back no more light than it had, however often it branches
\* (Scene.cpp:70, Optics.cpp:60).
THEOREM LightIsConserved == TreeSpec => []NoLightFromNothing
<1>1. TreeIInv => NoLightFromNothing
  BY DEF TreeIInv
<1> QED BY <1>1, TreeIInvHolds, PTL

\* TraceRay is never deeper in itself than its limit says (Scene.cpp:13).
THEOREM RecursionEndsAtLimit == TreeSpec => []RecursionIsShallow
<1>1. TreeIInv => RecursionIsShallow
  BY DEF TreeIInv
<1> QED BY <1>1, TreeIInvHolds, PTL
=============================================================================
