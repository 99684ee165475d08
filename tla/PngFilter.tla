--------------------------- MODULE PngFilter ---------------------------
(***************************************************************************)
(* The scanlines of the PNG writer (preProcessScanlines, filter): rows of  *)
(* less than 8 bits a pixel are padded to whole bytes, then each byte is   *)
(* replaced by its difference from a prediction.  Five predictions are     *)
(* tried for a row and the one with the smallest sum of differences, over  *)
(* every third byte, is taken.  The reader (postProcessScanlines,          *)
(* unfilter) predicts from the bytes it has already restored.              *)
(*                                                                         *)
(* Left out: interlacing and the filter strategies the program does not    *)
(* ask for (LFS_PREDEFINED, LFS_BRUTE_FORCE).                              *)
(***************************************************************************)
EXTENDS Integers, Sequences, FiniteSetsExt

(* A pixel stands for its bytes, or for its bits when there are less than 8:
   a row of the input is a sequence of bytes or a sequence of bits. *)
CONSTANTS
  Images        \* the images to filter: [rows, bpp, zero] (see ImageType)

Byte256 == 0..255

(* bpp bits per pixel; zero: the palette images and those of less than 8 bits,
   which are not filtered (heuristic_zero). *)
IsImage(img) ==
  /\ img.bpp \in Nat \ {0}
  /\ img.zero \in BOOLEAN
  /\ img.bpp < 8 => img.zero
  /\ img.rows \in Seq(Seq(IF img.bpp < 8 THEN {0, 1} ELSE Byte256))
  /\ \A y, z \in 1..Len(img.rows) : Len(img.rows[y]) = Len(img.rows[z])

ASSUME FilterAssumption == \A img \in Images : IsImage(img)

VARIABLES
  image,         \* in: the image
  filterPc,      \* idle, pad, try, unfilter, unpad or done
  lines,         \* the scanlines: rows of whole bytes
  type,          \* the filter type to try next
  smallest,      \* the smallest sum so far
  bestType,      \* its filter type
  filtered,      \* the output: a filter type and the differences for each row
  recon,         \* the rows the reader has restored
  reconLine,     \* the row it is at
  unpadded       \* its image

filterVars == <<image, filterPc, lines, type, smallest, bestType, filtered, recon, reconLine, unpadded>>

(* bytewidth is 1 for pixels of less than a byte. *)
Bytewidth == (image.bpp + 7) \div 8

FilterStart(img, pc) ==
  /\ image = img /\ filterPc = pc
  /\ lines = <<>>
  /\ type = 0 /\ smallest = 0 /\ bestType = 0
  /\ filtered = <<>> /\ recon = <<>> /\ reconLine = <<>> /\ unpadded = <<>>

FilterInit == \E img \in Images : FilterStart(img, "pad")

-----------------------------------------------------------------------------
(* addPaddingBits: zeros up to the next byte, the first bit is the highest. *)
PaddedBits(row) == row \o [i \in 1..((8 - (Len(row) % 8)) % 8) |-> 0]
PackedByte(bits, b) ==
  LET bit(i) == bits[8 * (b - 1) + i]
  IN  128 * bit(1) + 64 * bit(2) + 32 * bit(3) + 16 * bit(4) + 8 * bit(5) + 4 * bit(6) + 2 * bit(7) + bit(8)
(* The place of a bit in its byte (setBitOfReversedStream, readBitFromReversedStream). *)
BitWeight == <<128, 64, 32, 16, 8, 4, 2, 1>>
PackedRow(row) == LET bits == PaddedBits(row) IN [b \in 1..Len(bits) \div 8 |-> PackedByte(bits, b)]

(* What preProcessScanlines makes of the rows. *)
Scanlines ==
  IF image.bpp < 8 THEN [y \in 1..Len(image.rows) |-> PackedRow(image.rows[y])]
  ELSE image.rows

AddPadding ==
  /\ filterPc = "pad"
  /\ lines' = Scanlines
  /\ filterPc' = "try"
  /\ UNCHANGED <<image, type, smallest, bestType, filtered, recon, reconLine, unpadded>>

Abs(n) == IF n < 0 THEN -n ELSE n

(* paethPredictor: whichever of the three is nearest to a + b - c. *)
Paeth(a, b, c) ==
  LET pa == Abs(b - c)
      pb == Abs(a - c)
      pc == Abs(a + b - c - c)
  IN  CASE pc < pa /\ pc < pb -> c
        [] ~(pc < pa /\ pc < pb) /\ pb < pa -> b
        [] OTHER -> a

(* What filterScanline and unfilterScanline predict for byte i of a line from
   the byte of the pixel before it and those of the line above.  There is no
   pixel before the first one and no line above the first one; for these the
   code takes a short cut instead of the Paeth predictor. *)
Predicted(t, line, above, i) ==
  LET left == IF i > Bytewidth THEN line[i - Bytewidth] ELSE 0
      up == IF above # <<>> THEN above[i] ELSE 0
  IN  CASE t = 0 -> 0
        [] t = 1 -> left
        [] t = 2 -> up
        [] t = 3 -> (left + up) \div 2
        [] t = 4 /\ above = <<>> -> left
        [] t = 4 /\ above # <<>> /\ i <= Bytewidth -> up
        [] OTHER -> Paeth(left, up, above[i - Bytewidth])

FilteredByte(t, line, above, i) == (line[i] - Predicted(t, line, above, i)) % 256

LineAbove(ls, y) == IF y = 1 THEN <<>> ELSE ls[y - 1]
Row == Len(filtered) + 1

(* Mutant: the prediction is made from the line above as it is put out. *)
AttemptInPlace(t) ==
  LET line == lines[Row]
      above == IF Row = 1 THEN <<>> ELSE filtered[Row - 1].bytes
  IN  [i \in 1..Len(line) |-> FilteredByte(t, line, above, i)]

Attempt(t) ==
  LET line == lines[Row]
  IN  [i \in 1..Len(line) |-> FilteredByte(t, line, LineAbove(lines, Row), i)]

(* Every third byte counts, as a signed number unless it is no difference. *)
Magnitude(t, b) == IF t # 0 /\ b > 127 THEN 256 - b ELSE b
AttemptSum(t) ==
  LET a == Attempt(t)
  IN  MapThenSumSet(LAMBDA i : Magnitude(t, a[i]), {i \in 1..Len(a) : i % 3 = 1})

(* One filter type is tried for the row. *)
TryType ==
  /\ filterPc = "try" /\ Row <= Len(lines) /\ ~image.zero /\ type <= 4
  /\ IF type = 0 \/ AttemptSum(type) < smallest
     THEN bestType' = type /\ smallest' = AttemptSum(type)
     ELSE UNCHANGED <<bestType, smallest>>
  /\ type' = type + 1
  /\ UNCHANGED <<image, filterPc, lines, filtered, recon, reconLine, unpadded>>

(* The best one, or none for a palette and for few bits, is put out. *)
PutRow ==
  /\ filterPc = "try" /\ Row <= Len(lines) /\ (image.zero \/ type > 4)
  /\ LET t == IF image.zero THEN 0 ELSE bestType
     IN  filtered' = Append(filtered, [type |-> t, bytes |-> Attempt(t)])
  /\ type' = 0
  /\ UNCHANGED <<image, filterPc, lines, smallest, bestType, recon, reconLine, unpadded>>

FilterDone ==
  /\ filterPc = "try" /\ Row > Len(lines)
  /\ filterPc' = "unfilter"
  /\ UNCHANGED <<image, lines, type, smallest, bestType, filtered, recon, reconLine, unpadded>>

-----------------------------------------------------------------------------
(* unfilterScanline, a byte at a time. *)
ReconRow == Len(recon) + 1

UnfilterByte ==
  /\ filterPc = "unfilter" /\ ReconRow <= Len(filtered)
  /\ Len(reconLine) < Len(filtered[ReconRow].bytes)
  /\ LET i == Len(reconLine) + 1
         row == filtered[ReconRow]
     IN  reconLine' = Append(reconLine,
           (row.bytes[i] + Predicted(row.type, reconLine, LineAbove(recon, ReconRow), i)) % 256)
  /\ UNCHANGED <<image, filterPc, lines, type, smallest, bestType, filtered, recon, unpadded>>

UnfilterRow ==
  /\ filterPc = "unfilter" /\ ReconRow <= Len(filtered)
  /\ Len(reconLine) = Len(filtered[ReconRow].bytes)
  /\ recon' = Append(recon, reconLine) /\ reconLine' = <<>>
  /\ UNCHANGED <<image, filterPc, lines, type, smallest, bestType, filtered, unpadded>>

UnfilterDone ==
  /\ filterPc = "unfilter" /\ ReconRow > Len(filtered)
  /\ filterPc' = "unpad"
  /\ UNCHANGED <<image, lines, type, smallest, bestType, filtered, recon, reconLine, unpadded>>

(* removePaddingBits: the first bits of a line, as many as the row has. *)
UnpackedRow(line, n) == [i \in 1..n |-> (line[(i - 1) \div 8 + 1] \div BitWeight[1 + ((i - 1) % 8)]) % 2]

RemovePadding ==
  /\ filterPc = "unpad"
  /\ unpadded' = IF image.bpp < 8 THEN [y \in 1..Len(recon) |-> UnpackedRow(recon[y], Len(image.rows[1]))] ELSE recon
  /\ filterPc' = "done"
  /\ UNCHANGED <<image, lines, type, smallest, bestType, filtered, recon, reconLine>>

FilterNext == AddPadding \/ TryType \/ PutRow \/ FilterDone \/ UnfilterByte \/ UnfilterRow \/ UnfilterDone \/ RemovePadding
FilterSpec == FilterInit /\ [][FilterNext]_filterVars

-----------------------------------------------------------------------------
(* What the reader restores is, byte by byte, what the writer was given: its
   predictions, made from restored bytes, are those the writer made from the
   original ones. *)
FilterUndone ==
  /\ \A y \in 1..Len(recon) : recon[y] = lines[y]
  /\ \A i \in 1..Len(reconLine) : reconLine[i] = lines[ReconRow][i]
  /\ filterPc = "done" => unpadded = image.rows

-----------------------------------------------------------------------------
(* What is invariant.  The scanlines are those of the image, ... *)
FilterTypeOK ==
  /\ IsImage(image)
  /\ filterPc \in {"pad", "try", "unfilter", "unpad", "done"}
  /\ type \in Nat /\ bestType \in 0..4
  /\ lines = IF filterPc = "pad" THEN <<>> ELSE Scanlines
  /\ filtered \in Seq([type : 0..4, bytes : Seq(Byte256)])
  /\ recon \in Seq(Seq(Byte256)) /\ reconLine \in Seq(Byte256)

(* ... each row that was put out is filtered from its scanline, ... *)
FilteredFrom(row, y) ==
  row.bytes = [i \in 1..Len(lines[y]) |-> FilteredByte(row.type, lines[y], LineAbove(lines, y), i)]

RowsAreFiltered ==
  /\ Len(filtered) <= Len(lines)
  /\ \A y \in 1..Len(filtered) : FilteredFrom(filtered[y], y)
  /\ filterPc \in {"unfilter", "unpad", "done"} => Len(filtered) = Len(lines)

(* ... and what the reader has restored are the scanlines up to where it is. *)
RowsAreRestored ==
  /\ Len(recon) <= Len(filtered)
  /\ \A y \in 1..Len(recon) : recon[y] = lines[y]
  /\ reconLine # <<>> => filterPc = "unfilter" /\ ReconRow <= Len(filtered) /\ Len(reconLine) <= Len(lines[ReconRow])
  /\ \A i \in 1..Len(reconLine) : reconLine[i] = lines[ReconRow][i]
  /\ filterPc \in {"pad", "try"} => recon = <<>>
  /\ filterPc \in {"unpad", "done"} => Len(recon) = Len(lines)
  /\ filterPc = "done" => unpadded = image.rows

FilterIInv == FilterTypeOK /\ RowsAreFiltered /\ RowsAreRestored
=============================================================================
