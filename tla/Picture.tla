------------------------------ MODULE Picture ------------------------------
(***************************************************************************)
(* From traced pixels to the bytes of the picture: the pixels whose ray    *)
(* was ambiguous are painted over with the average of their neighbours,    *)
(* the brightest channel found anywhere becomes 255, and every patch of    *)
(* antiAliasFactor by antiAliasFactor pixels becomes one pixel.            *)
(*                                                                         *)
(* There are two ways there.  Scene::SaveImage traces column by column     *)
(* and lists the ambiguous pixels as it meets them.  The server paints     *)
(* columns in the order in which their chunks come back, then              *)
(* HandleAmbigousPixels searches the buffer.  Both should give one         *)
(* picture.                                                                *)
(*                                                                         *)
(* Colors are counted in a small unit, and division rounds down.           *)
(***************************************************************************)
EXTENDS Integers, Sequences, FiniteSets, FiniteSetsExt

CONSTANTS Sizes,      \* pictures, as [wide, high, antiAliasFactor]
          Channels,
          Colors,     \* what a ray may see
          Ambiguous   \* or that it was ambiguous

ASSUME SizesAssumption ==
  Sizes \subseteq [wide : Nat, high : Nat, antiAliasFactor : Nat \ {0}]
ASSUME ChannelsAssumption ==
  IsFiniteSet(Channels)
ASSUME ColorsAssumption ==
  Colors \subseteq [Channels -> Nat] /\ Ambiguous \notin Colors

VARIABLES
  saving,     \* whether this is SaveImage, and not the server
  size,
  traced,     \* what the ray of each pixel sees
  buffer,
  pc,         \* "trace", "search", "heal", "scale", "encode", "done", "failed"
  columns,    \* the columns not yet in the buffer
  at,         \* the pixel to trace or search next, or to encode
  ambigousPixel,
  max,
  rgbaBuffer

input == <<saving, size, traced>>
vars == <<input, buffer, pc, columns, at, ambigousPixel, max, rgbaBuffer>>

largePixelsWide == size.antiAliasFactor * size.wide
largePixelsHigh == size.antiAliasFactor * size.high
PixelsOf(s) == (0 .. s.antiAliasFactor * s.wide - 1)
                 \X (0 .. s.antiAliasFactor * s.high - 1)
Pixels == PixelsOf(size)

PixelData == [color : [Channels -> Nat], isAmbiguous : BOOLEAN]
Black == [color |-> [c \in Channels |-> 0], isAmbiguous |-> FALSE]

\* Scene::GetPixelAt
PixelAt(p) == IF traced[p] = Ambiguous
                THEN [color |-> Black.color, isAmbiguous |-> TRUE]
                ELSE [color |-> traced[p], isAmbiguous |-> FALSE]

TypeOK ==
  /\ saving \in BOOLEAN
  /\ size \in Sizes
  /\ traced \in [Pixels -> Colors \cup {Ambiguous}]
  /\ buffer \in [Pixels -> PixelData]
  /\ pc \in {"trace", "search", "heal", "scale", "encode", "done",
            "failed"}
  /\ columns \subseteq 0 .. largePixelsWide - 1
  /\ at \in Nat \X Nat
  /\ ambigousPixel \in Seq(Pixels)
  /\ max \in Nat
  /\ rgbaBuffer \in Seq([Channels -> 0 .. 255])

Init ==
  /\ saving \in BOOLEAN
  /\ size \in Sizes
  /\ traced \in [Pixels -> Colors \cup {Ambiguous}]
  /\ buffer = [p \in Pixels |-> Black]
  /\ pc = "trace"
  /\ columns = 0 .. largePixelsWide - 1
  /\ at = <<0, 0>>
  /\ ambigousPixel = <<>>
  /\ max = 0
  /\ rgbaBuffer = <<>>
-----------------------------------------------------------------------------
(* The loops over the pixels. *)

\* The next pixel down the columns, or down the rows of the small picture.
After(p) == IF p[2] + 1 < largePixelsHigh THEN <<p[1], p[2] + 1>>
                                          ELSE <<p[1] + 1, 0>>
AfterPatch(p) == IF p[1] + 1 < size.wide THEN <<p[1] + 1, p[2]>>
                                         ELSE <<0, p[2] + 1>>

Note(p) == ambigousPixel' = IF buffer'[p].isAmbiguous
                              THEN Append(ambigousPixel, p) ELSE ambigousPixel

SaveTraces ==
  /\ saving /\ pc = "trace" /\ at \in Pixels
  /\ buffer' = [buffer EXCEPT ![at] = PixelAt(at)]
  /\ Note(at)
  /\ at' = After(at)
  /\ UNCHANGED <<input, pc, columns, max, rgbaBuffer>>

SaveTraced ==
  /\ saving /\ pc = "trace" /\ at \notin Pixels
  /\ pc' = "heal"
  /\ UNCHANGED <<input, buffer, columns, at, ambigousPixel, max, rgbaBuffer>>

\* The columns come back in any order.
PaintColumn(i) ==
  /\ ~saving /\ pc = "trace" /\ i \in columns
  /\ buffer' = [p \in Pixels |-> IF p[1] = i THEN PixelAt(p) ELSE buffer[p]]
  /\ columns' = columns \ {i}
  /\ UNCHANGED <<input, pc, at, ambigousPixel, max, rgbaBuffer>>

PaintingEnds ==
  /\ ~saving /\ pc = "trace"
  /\ pc' = "search"
  /\ UNCHANGED <<input, buffer, columns, at, ambigousPixel, max, rgbaBuffer>>

Painted == columns = {} /\ PaintingEnds

Search ==
  /\ pc = "search" /\ at \in Pixels
  /\ UNCHANGED buffer
  /\ Note(at)
  /\ at' = After(at)
  /\ UNCHANGED <<input, pc, columns, max, rgbaBuffer>>

Searched ==
  /\ pc = "search" /\ at \notin Pixels
  /\ pc' = "heal"
  /\ UNCHANGED <<input, buffer, columns, at, ambigousPixel, max, rgbaBuffer>>
-----------------------------------------------------------------------------
(* ResolveAmbiguousPixel. *)

\* A mistake: no limit on the right.
UnlimitedWindow(p) ==
  ((IF p[1] > 0 THEN p[1] - 1 ELSE p[1]) .. p[1] + 1) \X
  ((IF p[2] > 0 THEN p[2] - 1 ELSE p[2]) ..
   (IF p[2] < largePixelsHigh - 1 THEN p[2] + 1 ELSE p[2]))

\* iMin .. iMax by jMin .. jMax
Window(p) ==
  ((IF p[1] > 0 THEN p[1] - 1 ELSE p[1]) ..
   (IF p[1] < largePixelsWide - 1 THEN p[1] + 1 ELSE p[1])) \X
  ((IF p[2] > 0 THEN p[2] - 1 ELSE p[2]) ..
   (IF p[2] < largePixelsHigh - 1 THEN p[2] + 1 ELSE p[2]))

\* Of the colors of some pixels.
Sum(color, c) == MapThenSumSet(LAMBDA q : color[q][c], DOMAIN color)
Average(color) ==
  [c \in Channels |-> IF DOMAIN color = {} THEN 0
                      ELSE Sum(color, c) \div Cardinality(DOMAIN color)]

BufferColor(pixels) == [q \in pixels |-> buffer[q].color]

\* A mistake: the healed pixel counts as one that was traced.
HealsForGood ==
  /\ pc = "heal" /\ ambigousPixel # <<>>
  /\ LET p == Head(ambigousPixel)
         found == {q \in Window(p) : ~buffer[q].isAmbiguous}
     IN  buffer' = [buffer EXCEPT ![p] =
           [color |-> Average(BufferColor(found)), isAmbiguous |-> FALSE]]
  /\ ambigousPixel' = Tail(ambigousPixel)
  /\ UNCHANGED <<input, pc, columns, at, max, rgbaBuffer>>

Heal ==
  /\ pc = "heal" /\ ambigousPixel # <<>>
  /\ LET p == Head(ambigousPixel)
         found == {q \in Window(p) : ~buffer[q].isAmbiguous}
     IN  buffer' = [buffer EXCEPT ![p].color = Average(BufferColor(found))]
  /\ ambigousPixel' = Tail(ambigousPixel)
  /\ UNCHANGED <<input, pc, columns, at, max, rgbaBuffer>>

Healed ==
  /\ pc = "heal" /\ ambigousPixel = <<>>
  /\ pc' = "scale"
  /\ UNCHANGED <<input, buffer, columns, at, ambigousPixel, max, rgbaBuffer>>
-----------------------------------------------------------------------------
(* CreateImage. *)

\* A mistake: the picture is scaled by its first pixel.
FirstColorValue ==
  /\ pc = "scale"
  /\ max' = IF Pixels = {} THEN 1
            ELSE Max({1} \cup {buffer[<<0, 0>>].color[c] : c \in Channels})
  /\ pc' = "encode" /\ at' = <<0, 0>>
  /\ UNCHANGED <<input, buffer, columns, ambigousPixel, rgbaBuffer>>

\* ImageBuffer::MaxColorValue, which is never 0.
MaxColorValue ==
  /\ pc = "scale"
  /\ LET found == Max({0} \cup {buffer[p].color[c] : p \in Pixels, c \in Channels})
     IN  max' = IF found = 0 THEN 1 ELSE found
  /\ pc' = "encode" /\ at' = <<0, 0>>
  /\ UNCHANGED <<input, buffer, columns, ambigousPixel, rgbaBuffer>>

Patch(p) ==
  {<<size.antiAliasFactor * p[1] + di, size.antiAliasFactor * p[2] + dj>> :
     di \in 0 .. size.antiAliasFactor - 1, dj \in 0 .. size.antiAliasFactor - 1}
patchSize == size.antiAliasFactor * size.antiAliasFactor

Scaled(color, c, m) == (255 * Sum(color, c)) \div (patchSize * m)
ConvertPixelValue(v) == IF v < 0 THEN 0 ELSE IF v > 255 THEN 255 ELSE v

Encode ==
  /\ pc = "encode" /\ at[1] < size.wide /\ at[2] < size.high
  /\ rgbaBuffer' = Append(rgbaBuffer, [c \in Channels |->
                     ConvertPixelValue(Scaled(BufferColor(Patch(at)), c, max))])
  /\ at' = AfterPatch(at)
  /\ UNCHANGED <<input, buffer, pc, columns, ambigousPixel, max>>

Encoded ==
  /\ pc = "encode" /\ ~(at[1] < size.wide /\ at[2] < size.high)
  /\ pc' = "done"
  /\ UNCHANGED <<input, buffer, columns, at, ambigousPixel, max, rgbaBuffer>>

\* The encoder reports an error.
EncoderFails ==
  /\ pc = "encode" /\ ~(at[1] < size.wide /\ at[2] < size.high)
  /\ pc' = "failed"
  /\ UNCHANGED <<input, buffer, columns, at, ambigousPixel, max, rgbaBuffer>>

Next ==
  \/ SaveTraces \/ SaveTraced
  \/ \E i \in columns : PaintColumn(i)
  \/ Painted \/ Search \/ Searched
  \/ Heal \/ Healed
  \/ MaxColorValue \/ Encode \/ Encoded
  \/ EncoderFails

Spec == Init /\ [][Next]_vars
-----------------------------------------------------------------------------
(* Properties. *)

\* What a pixel should show: what its ray saw or, if that was ambiguous, the
\* average of what the rays of the pixels around it saw.
Around(p) == {q \in Pixels :
  /\ q[1] - p[1] \in -1 .. 1 /\ q[2] - p[2] \in -1 .. 1
  /\ traced[q] # Ambiguous}
Truth == [p \in Pixels |-> IF traced[p] = Ambiguous
                             THEN Average([q \in Around(p) |-> traced[q]])
                             ELSE traced[p]]

\* A healed pixel shows what was traced around it, not what was healed before
\* it: the order of healing does not matter, and nothing else is touched.
HealedFromTraced ==
  pc \in {"heal", "scale", "encode", "done"} =>
    \A p \in Pixels :
      buffer[p].color = Truth[p] \/ \E n \in DOMAIN ambigousPixel : ambigousPixel[n] = p

\* The picture depends on nothing but what was traced: the server makes the
\* picture that SaveImage makes, whatever the order of its chunks.  No byte is
\* clamped, which would change the hue of a color.
OnePicture ==
  pc = "done" =>
    LET found == Max({0} \cup {Truth[p][c] : p \in Pixels, c \in Channels})
        brightest == IF found = 0 THEN 1 ELSE found
        patch(n) == Patch(<<(n - 1) % size.wide, (n - 1) \div size.wide>>)
    IN  rgbaBuffer = [n \in 1 .. size.wide * size.high |-> [c \in Channels |->
          Scaled([q \in patch(n) |-> Truth[q]], c, brightest)]]

\* No pixel outside the buffer is ever asked for: ImageBuffer::Pixel would
\* throw, and nothing catches it.
PixelNeverThrows ==
  /\ (pc = "heal" /\ ambigousPixel # <<>>) =>
       Window(Head(ambigousPixel)) \subseteq Pixels
  /\ (pc = "encode" /\ at[1] < size.wide /\ at[2] < size.high) =>
       Patch(at) \subseteq Pixels

-----------------------------------------------------------------------------
(* The inductive invariant: where in the buffer what has been written. *)

Listed(p) == \E n \in DOMAIN ambigousPixel : ambigousPixel[n] = p

\* The pixels before at, down the columns.
Visited == {p \in Pixels : p[1] < at[1] \/ (p[1] = at[1] /\ p[2] < at[2])}

Cursor ==
  /\ at \in Nat \X Nat
  /\ pc \in {"trace", "search"} =>
       at[2] = 0 \/ (at[2] < largePixelsHigh /\ at[1] < largePixelsWide)

Tracing ==
  pc = "trace" =>
    \A p \in Pixels :
      buffer[p] = IF p \in Visited \/ (~saving /\ p[1] \notin columns)
                    THEN PixelAt(p) ELSE Black

Searching == pc = "search" => \A p \in Pixels : buffer[p] = PixelAt(p)

\* What has to be healed is listed, and nothing else.
ListIsRight ==
  /\ ambigousPixel \in Seq(Pixels)
  /\ \A n \in DOMAIN ambigousPixel : traced[ambigousPixel[n]] = Ambiguous
  /\ (pc = "search" \/ (saving /\ pc = "trace")) =>
       \A p \in Visited : traced[p] = Ambiguous => Listed(p)
  /\ ~saving /\ pc = "trace" => at = <<0, 0>>

Final(p) == [color |-> Truth[p], isAmbiguous |-> (traced[p] = Ambiguous)]

Healing ==
  pc \in {"heal", "scale", "encode", "done", "failed"} =>
    \A p \in Pixels : buffer[p] = Final(p) \/ (buffer[p] = PixelAt(p) /\ Listed(p))

\* What the bytes of the picture are made from.
Brightest ==
  LET found == Max({0} \cup {Truth[p][c] : p \in Pixels, c \in Channels})
  IN  IF found = 0 THEN 1 ELSE found
SmallPixel(n) ==
  LET patch == Patch(<<(n - 1) % size.wide, (n - 1) \div size.wide>>)
  IN  [c \in Channels |-> Scaled([q \in patch |-> Truth[q]], c, Brightest)]

\* The bytes so far are those of the patches before at, row by row.
Creating ==
  /\ pc \in {"scale", "encode", "done"} => ambigousPixel = <<>>
  /\ pc \in {"encode", "done"} =>
       /\ max = Brightest
       /\ at[2] <= size.high
       /\ at[1] = 0 \/ (at[1] < size.wide /\ at[2] < size.high)
       /\ rgbaBuffer = [n \in 1 .. size.wide * at[2] + at[1] |-> SmallPixel(n)]
  /\ pc \in {"trace", "search", "heal", "scale"} => rgbaBuffer = <<>>
  /\ pc = "done" => size.wide * at[2] + at[1] = size.wide * size.high

IInv ==
  /\ saving \in BOOLEAN /\ size \in Sizes
  /\ traced \in [Pixels -> Colors \cup {Ambiguous}]
  /\ DOMAIN buffer = Pixels
  /\ Cursor /\ Tracing /\ Searching /\ ListIsRight /\ Healing /\ Creating
=============================================================================
