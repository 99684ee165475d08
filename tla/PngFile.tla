---------------------------- MODULE PngFile ----------------------------
(***************************************************************************)
(* The PNG file itself: lodepng_encode puts its chunks one after the       *)
(* other, lodepng::encode saves them, and a reader (lodepng_decode) checks *)
(* them and puts the scanlines together again.                             *)
(*                                                                         *)
(* save_file does not look at the state of its stream: when the file       *)
(* cannot be opened or the disk is full the program goes on as if the      *)
(* picture had been saved.  What is left on the disk is any number of the  *)
(* first bytes.                                                            *)
(*                                                                         *)
(* Any of the larger allocations may fail.  lodepng_encode looks at some   *)
(* of the error codes it gets then and drops the others; what was lost     *)
(* with these is in dropped.  That a vector cannot grow by a byte          *)
(* (ucvector_push_back) is left out.                                       *)
(*                                                                         *)
(* The CRC of a chunk and the Adler checksum are modelled by what they     *)
(* were computed of; a chunk's data by a record and its length in bytes.   *)
(***************************************************************************)
EXTENDS Integers, Sequences

CONSTANTS
  Drawings      \* [w, h, type, bits, palettesize, zsize]: what there is to save;
                \* zsize: the bytes its scanlines are compressed to

ValidBits(type) ==
  CASE type = "grey" -> {1, 2, 4, 8, 16}
    [] type = "palette" -> {1, 2, 4, 8}
    [] OTHER -> {8, 16}

ASSUME FileAssumption ==
  \A d \in Drawings :
    /\ {d.w, d.h} \subseteq Nat \ {0}
    /\ d.type \in {"grey", "palette", "rgb"} /\ d.bits \in Nat
    /\ d.palettesize \in 0..256 /\ (d.type = "palette" <=> d.palettesize > 0)
    /\ d.zsize \in Nat \ {0}

VARIABLES
  drawing,       \* in: the picture, its mode already chosen
  filePc,        \* idle, check, scanlines, IHDR, PLTE, IDAT, IEND, save, inspect, chunks, inflate or done
  chunks,        \* the chunks of the file in memory, after the signature
  reported,      \* the error code lodepng::encode returns, 0 if there is none
  dropped,       \* what failed without an error: "data", "scanlines" or the name of a chunk
  written,       \* how many bytes of it are on the disk
  chunkAt,       \* reader: the place of the chunk it is at, in bytes
  info,          \* reader: what the header and the palette say
  idat,          \* reader: the data of the IDAT chunks
  iend,          \* reader: it has met the IEND chunk
  decoded,       \* reader: the picture
  decodeError    \* reader: state->error

writerVars == <<drawing, chunks, reported, dropped, written>>
readerVars == <<chunkAt, info, idat, iend, decoded, decodeError>>
fileVars == <<filePc, writerVars, readerVars>>

Nothing == <<>>
SignatureSize == 8

FileStart(d, pc) ==
  /\ drawing = d
  /\ filePc = pc /\ chunks = <<>> /\ reported = 0 /\ dropped = {} /\ written = 0
  /\ chunkAt = 0 /\ info = Nothing /\ idat = <<>> /\ iend = FALSE /\ decoded = Nothing /\ decodeError = 0

FileInit == \E d \in Drawings : FileStart(d, "check")

-----------------------------------------------------------------------------
(* lodepng_encode refuses a color type with a depth it cannot have, and gives
   up when there is no memory to choose the mode or to convert the picture. *)
CheckSettings ==
  /\ filePc = "check"
  /\ \/ IF drawing.bits \in ValidBits(drawing.type)
        THEN filePc' = "scanlines" /\ UNCHANGED reported
        ELSE filePc' = "inspect" /\ reported' = 37
     \/ filePc' = "inspect" /\ reported' = 83
  /\ UNCHANGED <<drawing, chunks, dropped, written, readerVars>>

(* Padded lines, or the five attempts of the adaptive filter. *)
NeedsBuffers ==
  IF drawing.bits < 8 THEN (drawing.w * drawing.bits) % 8 # 0 ELSE drawing.type # "palette"

(* preProcessScanlines, whose error is dropped.  Without memory for its result
   there is none; without its buffers the result stays as malloc returned it. *)
PreProcessScanlines ==
  /\ filePc = "scanlines"
  /\ dropped' \in {{}, {"data"}} \cup (IF NeedsBuffers THEN {{"scanlines"}} ELSE {})
  /\ filePc' = "IHDR"
  /\ UNCHANGED <<drawing, chunks, reported, written, readerVars>>

(* lodepng_chunk_create: length, name, data and a CRC of the name and data. *)
Chunk(name, size, data) == [name |-> name, size |-> size, data |-> data, crc |-> <<name, data>>]
AddChunk(c) == chunks' = Append(chunks, c) /\ UNCHANGED dropped

(* There is no memory for the chunk, and nobody looks at the error. *)
DropChunk(c) == dropped' = dropped \cup {c.name} /\ UNCHANGED chunks
AddOrDrop(c) == AddChunk(c) \/ DropChunk(c)

AddIHDR ==
  /\ filePc = "IHDR"
  /\ AddOrDrop(Chunk("IHDR", 13, [w |-> drawing.w, h |-> drawing.h, bits |-> drawing.bits, type |-> drawing.type]))
  /\ filePc' = IF drawing.type = "palette" THEN "PLTE" ELSE "IDAT"
  /\ UNCHANGED <<drawing, reported, written, readerVars>>

AddPLTE ==
  /\ filePc = "PLTE"
  /\ AddOrDrop(Chunk("PLTE", 3 * drawing.palettesize, [colors |-> drawing.palettesize]))
  /\ filePc' = "IDAT"
  /\ UNCHANGED <<drawing, reported, written, readerVars>>

(* lodepng_zlib_compress: two bytes whose number is a multiple of 31, the
   deflated scanlines, and the checksum of the scanlines. *)
CMF == 120
CMFFLG == LET plain == 256 * CMF IN plain + (31 - (plain % 31))
PreProcessed == [of |-> drawing, filtered |-> "scanlines" \notin dropped]
ZlibData == [cmfflg |-> CMFFLG, scanlines |-> PreProcessed, adler |-> <<"adler", PreProcessed>>]

(* An error here is reported.  Without data the program reads from address
   zero and dies, unless the deflater had no memory before. *)
AddIDAT ==
  /\ filePc = "IDAT"
  /\ \/ /\ "data" \notin dropped
        /\ AddChunk(Chunk("IDAT", 2 + drawing.zsize + 4, ZlibData))
        /\ filePc' = "IEND" /\ UNCHANGED reported
     \/ filePc' = "inspect" /\ reported' = 83 /\ UNCHANGED <<chunks, dropped>>
     \/ "data" \in dropped /\ filePc' = "inspect" /\ UNCHANGED <<reported, chunks, dropped>>
  /\ UNCHANGED <<drawing, written, readerVars>>

AddIEND ==
  /\ filePc = "IEND"
  /\ AddOrDrop(Chunk("IEND", 0, Nothing))
  /\ filePc' = "save"
  /\ UNCHANGED <<drawing, reported, written, readerVars>>

(* A chunk takes 12 bytes more than its data. *)
EndOfChunks(n) ==
  LET end[k \in 0..n] == IF k = 0 THEN SignatureSize ELSE end[k - 1] + chunks[k].size + 12 IN end[n]
FileSize == EndOfChunks(Len(chunks))

(* save_file, and the error nobody sees. *)
SaveFile ==
  /\ filePc = "save"
  /\ written' \in 0..FileSize
  /\ filePc' = "inspect"
  /\ UNCHANGED <<drawing, chunks, reported, dropped, readerVars>>

-----------------------------------------------------------------------------
ReaderFails(code) == decodeError' = code /\ filePc' = "done"

(* lodepng_inspect.  It takes the CRC of the header out of bytes 29 to 32,
   which a shorter file may not have: what it finds there is anything. *)
Header == chunks[1]
InspectEmpty == written = 0 /\ ReaderFails(48) /\ UNCHANGED <<info, chunkAt>>
InspectShort == written \in 1..28 /\ ReaderFails(27) /\ UNCHANGED <<info, chunkAt>>
InspectNoCrc == written \in 29..32 /\ Header.name = "IHDR" /\ ReaderFails(57) /\ UNCHANGED <<info, chunkAt>>
InspectHeader ==
  /\ written >= 29
  /\ IF Header.name # "IHDR" THEN ReaderFails(29) /\ UNCHANGED <<info, chunkAt>>
     ELSE IF Header.crc # <<Header.name, Header.data>> THEN ReaderFails(57) /\ UNCHANGED <<info, chunkAt>>
     ELSE IF Header.data.bits \notin ValidBits(Header.data.type) THEN ReaderFails(37) /\ UNCHANGED <<info, chunkAt>>
     ELSE /\ info' = [header |-> Header.data, colors |-> 0]
          /\ chunkAt' = 33 /\ filePc' = "chunks" /\ UNCHANGED decodeError

Inspect ==
  /\ filePc = "inspect"
  /\ InspectEmpty \/ InspectShort \/ InspectNoCrc \/ InspectHeader
  /\ UNCHANGED <<writerVars, idat, iend, decoded>>

(* decodeGeneric: one turn of the loop over the chunks. *)
ChunkNo == CHOOSE k \in 1..Len(chunks) : EndOfChunks(k - 1) = chunkAt

NoRoomForChunk == chunkAt + 12 > written
CutChunk == ~NoRoomForChunk /\ chunkAt + chunks[ChunkNo].size + 12 > written

ReadCutChunk ==
  /\ filePc = "chunks" /\ ~iend
  /\ \/ NoRoomForChunk /\ ReaderFails(30)
     \/ CutChunk /\ ReaderFails(64)
  /\ UNCHANGED <<writerVars, chunkAt, info, idat, iend, decoded>>

ReadChunk ==
  /\ filePc = "chunks" /\ ~iend /\ ~NoRoomForChunk /\ ~CutChunk
  /\ LET c == chunks[ChunkNo]
     IN  /\ iend' = (c.name = "IEND")
         /\ idat' = IF c.name = "IDAT" THEN Append(idat, c.data) ELSE idat
         /\ info' = IF c.name = "PLTE" THEN [info EXCEPT !.colors = c.size \div 3] ELSE info
         /\ IF c.crc # <<c.name, c.data>> THEN ReaderFails(57)
            ELSE IF c.name = "PLTE" /\ c.size \div 3 > 256 THEN ReaderFails(38)
            ELSE UNCHANGED <<filePc, decodeError>>
         /\ chunkAt' = IF iend' THEN chunkAt ELSE chunkAt + c.size + 12
  /\ UNCHANGED <<writerVars, decoded>>

(* Mutant: the end of the file is taken for the end of the chunks. *)
ChunksReadToTheEnd ==
  /\ filePc = "chunks" /\ (iend \/ NoRoomForChunk)
  /\ filePc' = "inflate"
  /\ UNCHANGED <<writerVars, readerVars>>

ChunksRead ==
  /\ filePc = "chunks" /\ iend
  /\ filePc' = "inflate"
  /\ UNCHANGED <<writerVars, readerVars>>

(* lodepng_zlib_decompress checks its header and the checksum of what it has
   got; a file without IDAT is too short for either.  Bytes that are no scanlines
   may have filter types that do not exist, and are a picture otherwise.  The
   conversion to what the reader asks for finds no index in no palette. *)
Decompress ==
  /\ filePc = "inflate"
  /\ filePc' = "done"
  /\ LET z == idat[1]
         cmf == z.cmfflg \div 256
         flg == z.cmfflg % 256
         code ==
           CASE idat = <<>> -> 53
             [] idat # <<>> /\ z.cmfflg % 31 # 0 -> 24
             [] idat # <<>> /\ z.cmfflg % 31 = 0 /\ (cmf % 16 # 8 \/ cmf \div 16 > 7) -> 25
             [] idat # <<>> /\ z.cmfflg % 31 = 0 /\ cmf % 16 = 8 /\ (flg \div 32) % 2 # 0 -> 26
             [] idat # <<>> /\ z.adler # <<"adler", z.scanlines>> -> 58
             [] OTHER -> 0
         colors == IF info.header.type = "palette" /\ info.colors = 0 THEN 47 ELSE 0
     IN  /\ \/ decodeError' = IF code # 0 THEN code ELSE colors
            \/ code = 0 /\ ~z.scanlines.filtered /\ decodeError' = 36
         /\ decoded' = IF decodeError' = 0 THEN z.scanlines ELSE Nothing
  /\ UNCHANGED <<writerVars, chunkAt, info, idat, iend>>

FileNext ==
  \/ CheckSettings \/ PreProcessScanlines \/ AddIHDR \/ AddPLTE \/ AddIDAT \/ AddIEND
  \/ SaveFile
  \/ Inspect \/ ReadCutChunk \/ ReadChunk \/ ChunksRead \/ Decompress
FileSpec == FileInit /\ [][FileNext]_fileVars

-----------------------------------------------------------------------------
(* The picture a reader shows is the one that was saved. *)
ShowsPicture ==
  /\ decodeError = 0 /\ decoded = [of |-> drawing, filtered |-> TRUE]
  /\ info.header.type = drawing.type /\ info.header.bits = drawing.bits
  /\ info.colors = drawing.palettesize

(* A reader never takes for a picture what a failed save or a chunk that was
   dropped has left: it takes a file only if all of it is on the disk with all
   its chunks, and unless the buffers of the filter failed it then shows the
   picture.  If nothing was dropped it takes every whole file.  When an error
   has been reported there is no file. *)
WholeOrRefused ==
  /\ filePc = "done" /\ decodeError = 0 =>
       /\ reported = 0 /\ written = FileSize /\ dropped \subseteq {"scanlines"}
       /\ "scanlines" \notin dropped => ShowsPicture
  /\ filePc = "done" /\ dropped = {} /\ reported = 0 /\ written = FileSize => ShowsPicture
  /\ reported # 0 => written = 0

-----------------------------------------------------------------------------
(* The inductive invariant: what the writer has put into the file, and which
   of it the reader has seen. *)
HeaderData == [w |-> drawing.w, h |-> drawing.h, bits |-> drawing.bits, type |-> drawing.type]
HeaderChunk == Chunk("IHDR", 13, HeaderData)
PaletteChunk == Chunk("PLTE", 3 * drawing.palettesize, [colors |-> drawing.palettesize])
DataChunk == Chunk("IDAT", 2 + drawing.zsize + 4, ZlibData)
EndChunk == Chunk("IEND", 0, Nothing)

HasPalette == drawing.type = "palette"
HeaderIn == "IHDR" \notin dropped
PaletteIn == HasPalette /\ "PLTE" \notin dropped
EndIn == "IEND" \notin dropped

HeaderPart == IF HeaderIn THEN <<HeaderChunk>> ELSE <<>>
BeforeData == HeaderPart \o (IF PaletteIn THEN <<PaletteChunk>> ELSE <<>>)
WithData == Append(BeforeData, DataChunk)
WholeFile == IF EndIn THEN Append(WithData, EndChunk) ELSE WithData

(* Where its chunks begin, if its header is there. *)
AfterHeader == 33
AtData == IF PaletteIn THEN AfterHeader + 3 * drawing.palettesize + 12 ELSE AfterHeader
AtEnd == AtData + drawing.zsize + 18

ChunksSoFar ==
  CASE filePc \in {"check", "scanlines", "IHDR"} -> <<>>
    [] filePc = "PLTE" -> HeaderPart
    [] filePc = "IDAT" -> BeforeData
    [] filePc = "IEND" -> WithData
    [] OTHER -> WholeFile

MayBeDropped ==
  CASE filePc \in {"check", "scanlines"} -> {}
    [] filePc = "IHDR" -> {"data", "scanlines"}
    [] filePc = "PLTE" -> {"data", "scanlines", "IHDR"}
    [] filePc = "IDAT" -> {"data", "scanlines", "IHDR", "PLTE"}
    [] filePc = "IEND" -> {"scanlines", "IHDR", "PLTE"}
    [] OTHER -> {"scanlines", "IHDR", "PLTE", "IEND"}

Writing ==
  /\ filePc \in {"check", "scanlines", "IHDR", "PLTE", "IDAT", "IEND", "save"}
  /\ chunks = ChunksSoFar /\ dropped \subseteq MayBeDropped
  /\ reported = 0 /\ written = 0
  /\ filePc # "check" => drawing.bits \in ValidBits(drawing.type)
  /\ filePc = "PLTE" \/ "PLTE" \in dropped => HasPalette

NothingRead == chunkAt = 0 /\ idat = <<>> /\ ~iend /\ decoded = Nothing /\ decodeError = 0

GivenUp == (reported # 0 \/ "data" \in dropped) /\ written = 0
Saved ==
  /\ reported = 0 /\ written \in 0..FileSize /\ chunks = WholeFile
  /\ dropped \subseteq {"scanlines", "IHDR", "PLTE", "IEND"}
  /\ "PLTE" \in dropped => HasPalette
  /\ drawing.bits \in ValidBits(drawing.type)

InfoWith(colors) == info = [header |-> HeaderData, colors |-> colors]
AllInfo == InfoWith(IF PaletteIn THEN drawing.palettesize ELSE 0)

ReadingChunks ==
  /\ Saved /\ HeaderIn /\ decoded = Nothing /\ decodeError = 0
  /\ \/ chunkAt = AfterHeader /\ PaletteIn /\ ~iend /\ idat = <<>> /\ InfoWith(0)
     \/ chunkAt = AtData /\ ~iend /\ idat = <<>> /\ AllInfo
     \/ chunkAt = AtEnd /\ ~iend /\ idat = <<ZlibData>> /\ AllInfo
     \/ chunkAt = AtEnd /\ iend /\ EndIn /\ written = FileSize /\ idat = <<ZlibData>> /\ AllInfo

AllRead == Saved /\ HeaderIn /\ EndIn /\ written = FileSize /\ idat = <<ZlibData>> /\ AllInfo

Refused == GivenUp \/ (Saved /\ (written # FileSize \/ dropped # {}))

FileIInv ==
  /\ filePc \in {"idle", "check", "scanlines", "IHDR", "PLTE", "IDAT", "IEND", "save",
                "inspect", "chunks", "inflate", "done"}
  /\ filePc = "idle" => reported = 0
  /\ filePc # "idle" =>
       /\ drawing \in Drawings
       /\ filePc \notin {"inspect", "chunks", "inflate", "done"} => Writing /\ NothingRead
       /\ filePc = "inspect" => (GivenUp \/ Saved) /\ NothingRead
       /\ filePc = "chunks" => ReadingChunks
       /\ filePc = "inflate" => AllRead
       /\ filePc = "done" =>
            IF decodeError = 0 THEN AllRead /\ "PLTE" \notin dropped /\ decoded = PreProcessed
                               ELSE Refused
====
