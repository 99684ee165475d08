--------------------------- MODULE PngColor ---------------------------
(***************************************************************************)
(* How lodepng_encode chooses the smallest way to store a picture without  *)
(* losing a pixel (LAC_AUTO, the default Scene.cpp leaves in place).       *)
(* get_color_profile looks at one pixel after the other: is there a color, *)
(* how many bits do the greys take, which are the first 256 colors.        *)
(* doAutoChooseColor picks grey, a palette or RGB from that, and           *)
(* lodepng_convert packs the pixels, less than a byte each where they fit. *)
(* getPixelColorRGBA8, which a reader of the file uses, gets them back.    *)
(*                                                                         *)
(* A pixel is <<r, g, b>>: Scene.cpp writes OPAQUE_ALPHA_VALUE into the    *)
(* alpha of every pixel (Scene.cpp:703, 873), so the branches for          *)
(* transparent pixels and color keys are out of the program's reach, and   *)
(* so are those for 16 bits: the pixels come as RGBA with 8.               *)
(***************************************************************************)
EXTENDS Integers, Sequences

CONSTANTS
  Pictures,     \* the pictures to store: sequences of pixels, row after row
  PaletteMax    \* the most colors a palette can have (256)

ASSUME ColorAssumption ==
  /\ \A p \in Pictures : p \in Seq((0..255) \X (0..255) \X (0..255))
  /\ PaletteMax \in 1..256

VARIABLES
  picture,       \* in: the pixels
  colorPc,       \* idle, profile, choose, convert, read or done
  pixel,         \* how many pixels the loop has been through
  colored,       \* profile.colored: some pixel is not grey
  greybits,      \* profile.greybits: what the greys before the first color take
  numcolors,     \* profile.numcolors, up to maxnumcolors
  palette,       \* profile.palette: the first colors, in the order they appear
  mode,          \* the color type and the bit depth that were chosen
  raw,           \* the bytes of the converted picture
  shown          \* what a reader of the file sees

profileVars == <<colored, greybits, numcolors, palette>>
colorVars == <<picture, colorPc, pixel, profileVars, mode, raw, shown>>

Larger(a, b) == IF a >= b THEN a ELSE b

IsGrey(p) == p[1] = p[2] /\ p[1] = p[3]

(* Mutant: greys in steps of 51 are taken for values of 2 bits. *)
ValueRequiredBitsOfFives(v) ==
  CASE v \in {0, 255} -> 1
    [] v \notin {0, 255} /\ v % 51 = 0 -> 2
    [] v % 51 # 0 /\ v % 17 = 0 -> 4
    [] OTHER -> 8

(* getValueRequiredBits: 2 and 4 bits scale to multiples of 85 and 17. *)
ValueRequiredBits(v) ==
  CASE v \in {0, 255} -> 1
    [] v \notin {0, 255} /\ v % 85 = 0 -> 2
    [] v % 85 # 0 /\ v % 17 = 0 -> 4
    [] OTHER -> 8

RGB == [type |-> "rgb", bits |-> 8]
BitsPerPixel(m) == IF m.type = "rgb" THEN 24 ELSE m.bits

(* color_profile_init for RGBA with 8 bits. *)
ColorStart(p, pc) ==
  /\ picture = p /\ colorPc = pc /\ pixel = 0
  /\ colored = FALSE /\ greybits = 1 /\ numcolors = 0 /\ palette = <<>>
  /\ mode = RGB /\ raw = <<>> /\ shown = <<>>

ColorInit == \E p \in Pictures : ColorStart(p, "profile")

Known(p) == \E i \in 1..Len(palette) : palette[i] = p

(* One turn of the loop of get_color_profile.  A color ends the search for
   greybits, one color too many ends the counting. *)
ProfilePixel ==
  /\ colorPc = "profile" /\ pixel < Len(picture)
  /\ LET p == picture[pixel + 1]
         new == numcolors <= PaletteMax /\ ~Known(p)
     IN  /\ colored' = (colored \/ ~IsGrey(p))
         /\ greybits' = IF colored' \/ greybits = 8 THEN greybits ELSE Larger(greybits, ValueRequiredBits(p[1]))
         /\ numcolors' = IF new THEN numcolors + 1 ELSE numcolors
         /\ palette' = IF new /\ numcolors < PaletteMax THEN Append(palette, p) ELSE palette
  /\ pixel' = pixel + 1
  /\ UNCHANGED <<picture, colorPc, mode, raw, shown>>

ProfileDone ==
  /\ colorPc = "profile" /\ pixel = Len(picture)
  /\ colorPc' = "choose"
  /\ UNCHANGED <<picture, pixel, profileVars, mode, raw, shown>>

(* doAutoChooseColor.  A palette has to pay for itself; grey is preferred when
   it takes no more bits. *)
PaletteBits ==
  CASE numcolors <= 2 -> 1
    [] numcolors \in 3..4 -> 2
    [] numcolors \in 5..16 -> 4
    [] OTHER -> 8
PaletteOk == numcolors <= PaletteMax /\ numcolors * 2 < Len(picture)
GreyOk == ~colored

ChooseGrey ==
  /\ GreyOk /\ (PaletteOk => greybits <= PaletteBits)
  /\ mode' = [type |-> "grey", bits |-> greybits]
ChoosePalette ==
  /\ PaletteOk /\ (GreyOk => greybits > PaletteBits)
  /\ mode' = [type |-> "palette", bits |-> PaletteBits]
ChooseRGB ==
  /\ ~PaletteOk /\ ~GreyOk
  /\ mode' = RGB

ChooseMode ==
  /\ colorPc = "choose"
  /\ ChooseGrey \/ ChoosePalette \/ ChooseRGB
  /\ colorPc' = "convert" /\ pixel' = 0
  /\ UNCHANGED <<picture, profileVars, raw, shown>>

-----------------------------------------------------------------------------
(* color_tree_get: the place of a color in the palette, from 0. *)
PaletteIndex(p) == CHOOSE i \in 0..Len(palette) - 1 : palette[i + 1] = p

(* addColorBits: value number i of `bits' bits, the first one in the highest
   bits of its byte. *)
AddColorBits(bytes, i, bits, value) ==
  LET place == i % (8 \div bits)
      shifted == (value % 2^bits) * 2^(bits * (8 \div bits - place - 1))
  IN  IF place = 0 THEN Append(bytes, shifted)
                   ELSE [bytes EXCEPT ![Len(bytes)] = @ + shifted]

(* rgba8ToPixel: a grey keeps its highest bits, a color becomes its index. *)
ToPixel(bytes, i, p) ==
  CASE mode.type = "rgb" -> bytes \o p
    [] mode.type = "grey" -> AddColorBits(bytes, i, mode.bits, p[1] \div 2^(8 - mode.bits))
    [] OTHER -> AddColorBits(bytes, i, mode.bits, PaletteIndex(p))

ConvertPixel ==
  /\ colorPc = "convert" /\ pixel < Len(picture)
  /\ raw' = ToPixel(raw, pixel, picture[pixel + 1])
  /\ pixel' = pixel + 1
  /\ UNCHANGED <<picture, colorPc, profileVars, mode, shown>>

ConvertDone ==
  /\ colorPc = "convert" /\ pixel = Len(picture)
  /\ colorPc' = "read" /\ pixel' = 0
  /\ UNCHANGED <<picture, profileVars, mode, raw, shown>>

(* readBitsFromReversedStream: value number i of `bits' bits. *)
ReversedBits(bytes, i, bits) ==
  LET j == i * bits
  IN  (bytes[j \div 8 + 1] \div 2^(8 - bits - (j % 8))) % 2^bits

(* getPixelColorRGBA8: a grey of few bits is spread over 0..255. *)
PixelColor(bytes, i) ==
  CASE mode.type = "rgb" -> <<bytes[3 * i + 1], bytes[3 * i + 2], bytes[3 * i + 3]>>
    [] mode.type = "grey" ->
         LET v == (ReversedBits(bytes, i, mode.bits) * 255) \div (2^mode.bits - 1) IN <<v, v, v>>
    [] OTHER -> palette[ReversedBits(bytes, i, mode.bits) + 1]

ReadPixel ==
  /\ colorPc = "read" /\ pixel < Len(picture)
  /\ shown' = Append(shown, PixelColor(raw, pixel))
  /\ pixel' = pixel + 1
  /\ UNCHANGED <<picture, colorPc, profileVars, mode, raw>>

PixelsRead ==
  /\ colorPc = "read" /\ pixel = Len(picture)
  /\ colorPc' = "done"
  /\ UNCHANGED <<picture, pixel, profileVars, mode, raw, shown>>

ColorNext == ProfilePixel \/ ProfileDone \/ ChooseMode \/ ConvertPixel \/ ConvertDone \/ ReadPixel \/ PixelsRead
ColorSpec == ColorInit /\ [][ColorNext]_colorVars

-----------------------------------------------------------------------------
(* The mode chosen for a picture loses none of its pixels, and the converted
   picture just fills the buffer lodepng_encode allocates for it,
   (w * h * bpp + 7) / 8 bytes. *)
ColorModeIsLossless ==
  /\ \A i \in 1..Len(shown) : shown[i] = picture[i]
  /\ colorPc \in {"read", "done"} => Len(raw) = (Len(picture) * BitsPerPixel(mode) + 7) \div 8

-----------------------------------------------------------------------------
(* The inductive invariant: what the profile knows of the pixels it has seen,
   that the mode can show all of them, and where in the bytes they are. *)
PixelValues == (0..255) \X (0..255) \X (0..255)

IsShownBy(p, bits) == IsGrey(p) /\ ValueRequiredBits(p[1]) <= bits

Profiled(n) ==
  /\ colored \in BOOLEAN /\ greybits \in {1, 2, 4, 8}
  /\ numcolors \in 0..PaletteMax + 1 /\ palette \in Seq(PixelValues)
  /\ ~colored => \A i \in 1..n : IsShownBy(picture[i], greybits)
  /\ numcolors <= PaletteMax => Len(palette) = numcolors /\ \A i \in 1..n : Known(picture[i])
  /\ Len(palette) <= PaletteMax

ModeFits ==
  \/ mode = RGB
  \/ /\ mode \in [type : {"grey"}, bits : {1, 2, 4, 8}]
     /\ \A i \in 1..Len(picture) : IsShownBy(picture[i], mode.bits)
  \/ /\ mode \in [type : {"palette"}, bits : {1, 2, 4, 8}]
     /\ Len(palette) <= 2^mode.bits /\ \A i \in 1..Len(picture) : Known(picture[i])

(* What goes into the bytes for the pixels.  Once so many values are packed, a
   reader finds each in its place, and the rest of the last byte is clear. *)
Packed(p) == IF mode.type = "grey" THEN p[1] \div 2^(8 - mode.bits) ELSE PaletteIndex(p)
PackedValues == [i \in 0..Len(picture) - 1 |-> Packed(picture[i + 1])]
IsPacking(bytes, values, bits, n) ==
  LET taken == n % (8 \div bits)
  IN  /\ bytes \in Seq(0..255) /\ Len(bytes) = (n * bits + 7) \div 8
      /\ \A i \in 0..n - 1 : ReversedBits(bytes, i, bits) = values[i]
      /\ taken # 0 => bytes[Len(bytes)] % 2^(8 - taken * bits) = 0

Converted(n) ==
  IF mode.type = "rgb"
  THEN /\ raw \in Seq(0..255) /\ Len(raw) = 3 * n
       /\ \A i \in 0..n - 1 : <<raw[3 * i + 1], raw[3 * i + 2], raw[3 * i + 3]>> = picture[i + 1]
  ELSE IsPacking(raw, PackedValues, mode.bits, n)

ColorIInv ==
  /\ colorPc \in {"idle", "profile", "choose", "convert", "read", "done"}
  /\ pixel \in 0..Len(picture)
  /\ picture \in Seq(PixelValues)
  /\ colorPc = "profile" => Profiled(pixel)
  /\ colorPc = "choose" => Profiled(Len(picture))
  /\ colorPc \in {"convert", "read", "done"} => ModeFits /\ palette \in Seq(PixelValues)
  /\ colorPc = "convert" => Converted(pixel)
  /\ colorPc \in {"read", "done"} => Converted(Len(picture))
  /\ IF colorPc \in {"read", "done"}
     THEN shown = SubSeq(picture, 1, pixel)
     ELSE shown = <<>>
  /\ colorPc \in {"profile", "choose"} => raw = <<>>
=============================================================================
