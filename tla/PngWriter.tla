--------------------------- MODULE PngWriter ---------------------------
(***************************************************************************)
(* The PNG writer put together: the bytes lodepng_convert leaves are the   *)
(* scanlines preProcessScanlines filters, and what it leaves is what       *)
(* lodepng_deflatev looks for repetitions in.  The later stages work on    *)
(* inputs of their own, which cover more than the few pictures do: the     *)
(* codes of a block, their description in the file, the symbols of its     *)
(* tokens, and the chunks of the file.                                     *)
(*                                                                         *)
(* A behavior starts in one of the stages and follows the hand-overs; each *)
(* stage is undone by its reader before the next one begins.  The program  *)
(* runs them in one thread, none waits for anything: a step that is        *)
(* possible is eventually taken.                                           *)
(***************************************************************************)
EXTENDS PngColor, PngFilter, Lz77, Huffman, CodeLengths, DeflateTokens, PngFile

(* What the deflater is given are bytes as any others. *)
ASSUME WriterAssumption == 0..255 \subseteq Byte

pngVars == <<colorVars, filterVars, lzVars, codeVars, lensVars, tokenVars, fileVars>>

NoImage == [rows |-> <<>>, bpp |-> 8, zero |-> TRUE]
NoCode == [freq |-> <<>>, maxbits |-> 0]
NoDrawing == [w |-> 0, h |-> 0, type |-> "grey", bits |-> 8, palettesize |-> 0, zsize |-> 0]

ColorIdle == ColorStart(<<>>, "idle")
FilterIdle == FilterStart(NoImage, "idle")
LzIdle == LzStart(<<>>, "idle")
CodeIdle == CodeStart(NoCode, "idle")
LensIdle == LensStart(<<>>, "idle")
TokenIdle == TokenStart(<<>>, "idle")
FileIdle == FileStart(NoDrawing, "idle")

PngInit ==
  \/ ColorInit /\ FilterIdle /\ LzIdle /\ CodeIdle /\ LensIdle /\ TokenIdle /\ FileIdle
  \/ ColorIdle /\ FilterInit /\ LzIdle /\ CodeIdle /\ LensIdle /\ TokenIdle /\ FileIdle
  \/ ColorIdle /\ FilterIdle /\ LzInit /\ CodeIdle /\ LensIdle /\ TokenIdle /\ FileIdle
  \/ ColorIdle /\ FilterIdle /\ LzIdle /\ CodeInit /\ LensIdle /\ TokenIdle /\ FileIdle
  \/ ColorIdle /\ FilterIdle /\ LzIdle /\ CodeIdle /\ LensInit /\ TokenIdle /\ FileIdle
  \/ ColorIdle /\ FilterIdle /\ LzIdle /\ CodeIdle /\ LensIdle /\ TokenInit /\ FileIdle
  \/ ColorIdle /\ FilterIdle /\ LzIdle /\ CodeIdle /\ LensIdle /\ TokenIdle /\ FileInit

-----------------------------------------------------------------------------
(* The bytes of the converted picture in rows of w pixels, or their bits when
   a pixel has less than 8. *)
BitOf(bytes, i) == ReversedBits(bytes, i, 1)
ConvertedRow(w, y) ==
  IF BitsPerPixel(mode) < 8
  THEN [i \in 1..w * BitsPerPixel(mode) |-> BitOf(raw, (y - 1) * w * BitsPerPixel(mode) + i - 1)]
  ELSE LET bytes == w * (BitsPerPixel(mode) \div 8) IN SubSeq(raw, (y - 1) * bytes + 1, y * bytes)

(* lodepng_encode hands the picture, so many pixels wide, to
   preProcessScanlines. *)
HandToFilter ==
  /\ colorPc = "done" /\ filterPc = "idle"
  /\ \E w \in {n \in 1..Len(picture) : Len(picture) % n = 0} :
       image' = [rows |-> [y \in 1..Len(picture) \div w |-> ConvertedRow(w, y)],
                 bpp  |-> BitsPerPixel(mode),
                 zero |-> mode.type = "palette" \/ mode.bits < 8]
  /\ filterPc' = "pad"
  /\ UNCHANGED <<colorVars, lines, type, smallest, bestType, filtered, recon, reconLine, unpadded>>
  /\ UNCHANGED <<lzVars, codeVars, lensVars, tokenVars, fileVars>>

FilteredBytes ==
  LET bytes[y \in 0..Len(filtered)] ==
        IF y = 0 THEN <<>> ELSE Append(bytes[y - 1], filtered[y].type) \o filtered[y].bytes
  IN  bytes[Len(filtered)]

(* addChunk_IDAT compresses the scanlines, each behind its filter type. *)
HandToDeflate ==
  /\ filterPc = "done" /\ lzPc = "idle"
  /\ data' = FilteredBytes
  /\ lzPc' = "scan" /\ blockEnd' = Lower(BlockSize, Len(FilteredBytes))
  /\ UNCHANGED <<pos, head, chain, searchVars, length, offset, lazyVars, left, inflated>>
  /\ UNCHANGED <<colorVars, filterVars, codeVars, lensVars, tokenVars, fileVars>>

ColorStep == ColorNext /\ UNCHANGED <<filterVars, lzVars, codeVars, lensVars, tokenVars, fileVars>>
FilterStep == FilterNext /\ UNCHANGED <<colorVars, lzVars, codeVars, lensVars, tokenVars, fileVars>>
LzStep == LzNext /\ UNCHANGED <<colorVars, filterVars, codeVars, lensVars, tokenVars, fileVars>>
CodeStep == CodeNext /\ UNCHANGED <<colorVars, filterVars, lzVars, lensVars, tokenVars, fileVars>>
LensStep == LensNext /\ UNCHANGED <<colorVars, filterVars, lzVars, codeVars, tokenVars, fileVars>>
TokenStep == TokenNext /\ UNCHANGED <<colorVars, filterVars, lzVars, codeVars, lensVars, fileVars>>
FileStep == FileNext /\ UNCHANGED <<colorVars, filterVars, lzVars, codeVars, lensVars, tokenVars>>

Resting == {"idle", "done"}
Finished ==
  /\ {colorPc, filterPc, lzPc, codePc, lensPc, tokenPc, filePc} \subseteq Resting
  /\ colorPc = "done" => filterPc = "done"
  /\ filterPc = "done" => lzPc = "done"

(* The writer stops when all is done, and only then. *)
Terminating == Finished /\ UNCHANGED pngVars

PngNext ==
  \/ ColorStep \/ HandToFilter \/ FilterStep \/ HandToDeflate \/ LzStep
  \/ CodeStep \/ LensStep \/ TokenStep \/ FileStep \/ Terminating

PngSpec == PngInit /\ [][PngNext]_pngVars /\ WF_pngVars(PngNext)

-----------------------------------------------------------------------------
(* A block is read back as it was written: the lengths of its codes and its
   tokens. *)
BlockReadBack == LengthsRestored /\ TokensReadBack

(* Every loop of the writer and of its reader ends: the sort of the coins also
   when many of them weigh the same, the walk along the chains of the window
   also when old links make them circular. *)
WriterEnds == <>[]Finished
=============================================================================
