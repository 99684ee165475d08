------------------------------ MODULE RayTree ------------------------------
(***************************************************************************)
(* The recursion of TraceRay, CalculateLighting, CalculateRefraction and   *)
(* CalculateReflection, and the light that goes through it.                *)
(*                                                                         *)
(* A call of TraceRay, with the CalculateLighting it makes, is a frame of  *)
(* the stack.  What the scene answers (which surface a ray meets, how much *)
(* of the lamp is seen from there, what the interface reflects) is a       *)
(* parameter of the step that asks: Trace gives the answers, TreeNext      *)
(* takes any.                                                              *)
(*                                                                         *)
(* Fractions between 0 and 1 are multiples of 1 / One, rounded down.  A    *)
(* color is told by its two sources: sky is in units of the background,    *)
(* and lamp in units of the brightest light that the lamps of the scene    *)
(* cast on a point of it, however bright or near they are.                 *)
(***************************************************************************)
EXTENDS Integers, Sequences

CONSTANTS Surfaces, \* opacity, matte and gloss of the surfaces there are
          One,
          MIN_OPTICAL_INTENSITY,
          MAX_OPTICAL_RECURSION_DEPTH

\* Optics::ValidateReflectionColor, SetMatteGlossBalance and SetOpacity.
ValidOptics(o) ==
  /\ o.opacity \in 0 .. One
  /\ o.matte \in 0 .. One /\ o.gloss \in 0 .. One
  /\ o.matte + o.gloss <= One

ASSUME LightAssumption ==
  /\ One \in Nat \ {0}
  /\ MIN_OPTICAL_INTENSITY \in 1 .. One
  /\ MAX_OPTICAL_RECURSION_DEPTH \in Nat
  /\ \A o \in Surfaces : ValidOptics(o)

VARIABLES
  phase,   \* "compose", "sent", "trace", "done", "ambiguous",
           \* "failed" or "slanted"
  stack,   \* of frames; the last is the one that runs
  color    \* what GetPixelAt gets

treeVars == <<phase, stack, color>>

Black == [sky |-> 0, lamp |-> 0]
Sum(a, b) == [sky |-> a.sky + b.sky, lamp |-> a.lamp + b.lamp]

Mul(x, y) == (x * y) \div One

IsSignificant(intensity) == intensity >= MIN_OPTICAL_INTENSITY

Unknown == [opacity |-> 0, matte |-> 0, gloss |-> 0]

\* The intensity TraceRay is called with, and what CalculateLighting has
\* found: the surface, the color so far, the part reflected by refraction.
Frame(intensity) ==
  [intensity |-> intensity, stage |-> "trace", optics |-> Unknown,
   colorSum |-> Black, factor |-> 0]

Top == stack[Len(stack)]
Popped == SubSeq(stack, 1, Len(stack) - 1)
At(stage) == phase = "trace" /\ Top.stage = stage

Goes(frame) == stack' = Append(Popped, frame) /\ UNCHANGED <<phase, color>>

\* The caller goes on as it is given here when the call returns.
Calls(caller, intensity) ==
  /\ stack' = Append(Append(Popped, caller), Frame(intensity))
  /\ UNCHANGED <<phase, color>>

\* Popping the last frame gives GetPixelAt its color.
Return(result) ==
  IF Len(stack) = 1
    THEN stack' = <<>> /\ color' = result /\ phase' = "done"
    ELSE /\ stack' = [Popped EXCEPT ![Len(stack) - 1].colorSum = Sum(@, result)]
         /\ UNCHANGED <<phase, color>>
-----------------------------------------------------------------------------
(* TraceRay. *)

TreeInit == phase = "compose" /\ stack = <<>> /\ color = Black

TreeLoad == phase = "compose" /\ phase' = "sent" /\ UNCHANGED <<stack, color>>

\* One pixel after another.
TreeShoot ==
  /\ phase \in {"sent", "done", "ambiguous", "slanted"}
  /\ phase' = "trace" /\ stack' = <<Frame(One)>> /\ color' = Black

TreeBackground == At("trace") /\ Return([sky |-> Top.intensity, lamp |-> 0])

TreeHit(optics) ==
  At("trace") /\ Goes([Top EXCEPT !.optics = optics, !.stage = "light"])

\* An exception leaves every caller up to GetPixelAt.
TreeLeave(why) ==
  At("trace") /\ phase' = why /\ stack' = <<>> /\ UNCHANGED color

\* GetPixelAt catches AmbiguousIntersectionException only.
TreeFails == phase = "trace" /\ phase' = "failed" /\ UNCHANGED <<stack, color>>
-----------------------------------------------------------------------------
(* CalculateLighting. *)

\* It is called with one more than TraceRay's depth, which is the number of
\* frames below.
TooDeepOrWeak ==
  \/ Len(stack) > MAX_OPTICAL_RECURSION_DEPTH
  \/ ~IsSignificant(Top.intensity)

StopRecursion == At("light") /\ TooDeepOrWeak /\ Return(Black)

Lighting == At("light") /\ ~TooDeepOrWeak

transparency == One - Top.optics.opacity

\* lit is how bright the lamps make the point.
MatteColor(lit) ==
  [sky |-> 0,
   lamp |-> Mul(Mul(Top.optics.opacity, Top.optics.matte), Mul(Top.intensity, lit))]

\* With the matte light, and the part that the interface has reflected.
Lit(lit, factor) ==
  [Top EXCEPT !.colorSum = Sum(@, MatteColor(lit)), !.stage = "reflect",
              !.factor = factor]

\* Matte light, and no refraction.
TreeOpaque(lit) == Lighting /\ transparency = 0 /\ Goes(Lit(lit, 0))

\* Matte light, if the surface is a little opaque, and the refracted ray.
TreeRefract(lit, factor) ==
  /\ Lighting /\ transparency > 0
  /\ Calls(Lit(lit, factor), Mul(One - factor, Mul(transparency, Top.intensity)))

\* The ray is too flat to get through.
TreeTotalReflection(lit) ==
  Lighting /\ transparency > 0 /\ Goes(Lit(lit, One))

\* A mistake: opacity does not weigh gloss and refractive reflection.
UnweightedReflection == Mul(Top.intensity, Top.factor + Top.optics.gloss)

\* Mirror reflection, of what is not refracted and of what is glossy.
ReflectionColor ==
  Mul(Top.intensity,
      Mul(transparency, Top.factor) + Mul(Top.optics.opacity, Top.optics.gloss))

TreeReflect ==
  /\ At("reflect") /\ IsSignificant(ReflectionColor)
  /\ Calls([Top EXCEPT !.stage = "return"], ReflectionColor)

NoReflection ==
  /\ At("reflect") /\ ~IsSignificant(ReflectionColor)
  /\ Goes([Top EXCEPT !.stage = "return"])

ReturnColor == At("return") /\ Return(Top.colorSum)

TreeNext ==
  \/ TreeLoad \/ TreeShoot \/ TreeBackground \/ TreeFails
  \/ \E optics \in Surfaces : TreeHit(optics)
  \/ \E why \in {"ambiguous", "slanted"} : TreeLeave(why)
  \/ StopRecursion
  \/ \E lit \in 0 .. One :
       \/ TreeOpaque(lit) \/ TreeTotalReflection(lit)
       \/ \E factor \in 0 .. One : TreeRefract(lit, factor)
  \/ TreeReflect \/ NoReflection \/ ReturnColor

TreeSpec == TreeInit /\ [][TreeNext]_treeVars
-----------------------------------------------------------------------------
(* Properties. *)

\* However often a ray branches, what it brings back is a mixture of its
\* sources in which their shares are together no more than the ray had, as
\* surfaces reflect no more light than hits them (Optics.cpp:60).
NoLightFromNothing == color.sky + color.lamp <= One

\* The recursion does not get deeper than its limit allows ("so as to avoid
\* call stack overflow", Scene.cpp:13).
RecursionIsShallow == Len(stack) <= MAX_OPTICAL_RECURSION_DEPTH + 1
-----------------------------------------------------------------------------
(* What is invariant.  The state is of these kinds, ... *)

Colors == [sky : Nat, lamp : Nat]
Frames ==
  [intensity : 0 .. One, stage : {"trace", "light", "reflect", "return"},
   optics : Surfaces \union {Unknown}, colorSum : Colors, factor : 0 .. One]

TreeTypeOK ==
  /\ phase \in {"compose", "sent", "trace", "done", "ambiguous", "failed", "slanted"}
  /\ stack \in Seq(Frames) /\ color \in Colors
  /\ phase = "trace" => stack # <<>>

\* ... the calls that wait have asked for light already, and what is not as
\* deep as the limit may still call, ...
CallersWait ==
  /\ \A n \in 1 .. Len(stack) - 1 : stack[n].stage \in {"reflect", "return"}
  /\ \A n \in 1 .. Len(stack) :
       stack[n].stage = "reflect" => n <= MAX_OPTICAL_RECURSION_DEPTH

\* ... and what a ray has collected, what the ray it waits for has, and what
\* it will still reflect are together no more than the ray had.
Amount(c) == c.sky + c.lamp

Reflects(frame) ==
  Mul(frame.intensity,
      Mul(One - frame.optics.opacity, frame.factor) +
        Mul(frame.optics.opacity, frame.optics.gloss))

Collected(frame) ==
  CASE frame.stage = "reflect" -> Amount(frame.colorSum) + Reflects(frame)
    [] frame.stage = "return"  -> Amount(frame.colorSum)
    [] OTHER                   -> 0

LightIsSpent ==
  /\ \A n \in 1 .. Len(stack) - 1 :
       Collected(stack[n]) + stack[n + 1].intensity <= stack[n].intensity
  /\ \A n \in 1 .. Len(stack) :
       /\ Collected(stack[n]) <= stack[n].intensity
       /\ stack[n].stage \in {"trace", "light"} => stack[n].colorSum = Black

TreeIInv ==
  /\ TreeTypeOK /\ CallersWait /\ LightIsSpent
  /\ RecursionIsShallow /\ NoLightFromNothing
=============================================================================
