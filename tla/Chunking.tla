------------------------------ MODULE Chunking ------------------------------
(***************************************************************************)
(* How the picture is cut into chunks of lines and put together again:     *)
(* the loop of SerializeData (server) and the two loops that turn a chunk  *)
(* into pixels, in AsyncInputProcessor (client) and in                     *)
(* ComputeReceivedDataAndCreateImage (server).  A "line" is a column of    *)
(* the image buffer: its first coordinate.                                 *)
(***************************************************************************)
EXTENDS Integers, Sequences

CONSTANTS Widths,      \* the values of largePixelsWide
          Heights,     \* of largePixelsHigh, on both sides
          LineCounts   \* and of linesToSend

ASSUME WidthsAssumption == Widths \subseteq Nat
ASSUME LineCountsAssumption == LineCounts \subseteq Nat \ {0}
ASSUME HeightsAssumption == Heights \subseteq Nat

VARIABLES wide, high,     \* largePixelsWide and largePixelsHigh
          linesToSend,
          chunkPc,        \* "loop", "rest" or "done"
          i,              \* the next line
          chunk,          \* the lines of the chunk being filled
          serializedData  \* the chunks that are complete

sizes == <<wide, high, linesToSend>>
chunkVars == <<sizes, chunkPc, i, chunk, serializedData>>

Line == 0 .. wide - 1

ChunkTypeOK ==
  /\ wide \in Widths
  /\ high \in Heights
  /\ linesToSend \in LineCounts
  /\ chunkPc \in {"loop", "rest", "done"}
  /\ i \in 0 .. wide
  /\ chunk \in Seq(Line)
  /\ serializedData \in Seq(Seq(Line))

ChunkInit ==
  /\ wide \in Widths
  /\ high \in Heights
  /\ linesToSend \in LineCounts
  /\ chunkPc = "loop"
  /\ i = 0
  /\ chunk = <<>>
  /\ serializedData = <<>>
-----------------------------------------------------------------------------
(* Mistakes one could make in the actions below. *)

\* chunk.clear() is forgotten
KeepsOldLines ==
  /\ chunkPc = "loop" /\ i < wide
  /\ i # 0 /\ i % linesToSend = 0
  /\ serializedData' = Append(serializedData, chunk)
  /\ chunk' = Append(chunk, i) /\ i' = i + 1
  /\ UNCHANGED <<sizes, chunkPc>>

\* the last chunk is forgotten
LosesLastChunk ==
  /\ chunkPc = "rest"
  /\ chunkPc' = "done"
  /\ UNCHANGED <<sizes, i, chunk, serializedData>>
-----------------------------------------------------------------------------
\* A line that starts a new chunk.
StartChunk ==
  /\ chunkPc = "loop" /\ i < wide
  /\ i # 0 /\ i % linesToSend = 0
  /\ serializedData' = Append(serializedData, chunk)
  /\ chunk' = <<i>>
  /\ i' = i + 1
  /\ UNCHANGED <<sizes, chunkPc>>

\* Any other line.
FillChunk ==
  /\ chunkPc = "loop" /\ i < wide
  /\ i = 0 \/ i % linesToSend # 0
  /\ chunk' = Append(chunk, i)
  /\ i' = i + 1
  /\ UNCHANGED <<sizes, chunkPc, serializedData>>

EndLoop ==
  /\ chunkPc = "loop" /\ i >= wide
  /\ chunkPc' = "rest"
  /\ UNCHANGED <<sizes, i, chunk, serializedData>>

\* What is left becomes the last chunk.
LastChunk ==
  /\ chunkPc = "rest"
  /\ serializedData' = IF chunk # <<>> THEN Append(serializedData, chunk)
                                       ELSE serializedData
  /\ chunkPc' = "done"
  /\ UNCHANGED <<sizes, i, chunk>>

ChunkNext == StartChunk \/ FillChunk \/ EndLoop \/ LastChunk

ChunkSpec == ChunkInit /\ [][ChunkNext]_chunkVars
-----------------------------------------------------------------------------
\* The inductive invariant.  Whatever is complete ends where the chunk being
\* filled begins; that chunk is the lines from there to i.
FirstOpenLine == IF chunkPc = "done" THEN i ELSE i - Len(chunk)

ChunkIsTail ==
  chunkPc # "done" =>
    /\ Len(chunk) <= i
    /\ \A m \in DOMAIN chunk : chunk[m] = i - Len(chunk) + m - 1

\* The loop ends at the last line.
AtEnd == chunkPc # "loop" => i = wide

Below ==
  \A k \in DOMAIN serializedData :
    \A m \in DOMAIN serializedData[k] : serializedData[k][m] < FirstOpenLine

Ascending ==
  \A k \in DOMAIN serializedData :
    \A m, n \in DOMAIN serializedData[k] :
      m < n => serializedData[k][m] < serializedData[k][n]

Apart ==
  \A k, l \in DOMAIN serializedData :
    k < l =>
      \A m \in DOMAIN serializedData[k], n \in DOMAIN serializedData[l] :
        serializedData[k][m] < serializedData[l][n]

Covered ==
  \A line \in 0 .. FirstOpenLine - 1 :
    \E k \in DOMAIN serializedData :
      \E m \in DOMAIN serializedData[k] : serializedData[k][m] = line

\* Only the very last chunk, written after the loop, may be short.
Full ==
  \A k \in DOMAIN serializedData :
    /\ Len(serializedData[k]) \in 1 .. linesToSend
    /\ (k < Len(serializedData) \/ chunkPc # "done") =>
         Len(serializedData[k]) = linesToSend

Counted ==
  chunkPc # "done" =>
    /\ i = Len(serializedData) * linesToSend + Len(chunk)
    /\ Len(chunk) <= linesToSend
    /\ i > 0 => Len(chunk) > 0

\* All of it together is preserved by every step.
ChunkIInv ==
  /\ ChunkTypeOK /\ ChunkIsTail /\ AtEnd /\ Below /\ Ascending /\ Apart
  /\ Covered /\ Full /\ Counted
-----------------------------------------------------------------------------
\* The pixels a client computes for a chunk, which the server then paints.
Computed(lines) == {<<lines[n], col>> : n \in DOMAIN lines, col \in 0 .. high - 1}

\* outputImageBuffer.
Buffer == (0 .. wide - 1) \X (0 .. high - 1)

\* No chunk is empty or larger than linesToSend, and all but the last are
\* exactly that large: what the clients are given is as even as it can be.
EvenChunks ==
  \A k \in DOMAIN serializedData :
    /\ serializedData[k] # <<>>
    /\ Len(serializedData[k]) <= linesToSend
    /\ k < Len(serializedData) => Len(serializedData[k]) = linesToSend

\* No line is in two chunks or twice in one, so no pixel is computed twice
\* and the order in which the chunks come back does not matter.
NoLineTwice ==
  \A k, l \in DOMAIN serializedData :
    \A m \in DOMAIN serializedData[k], n \in DOMAIN serializedData[l] :
      serializedData[k][m] = serializedData[l][n] => k = l /\ m = n

\* When the chunks are all there every line of the picture is in one of them.
EveryLine ==
  chunkPc = "done" =>
    \A line \in 0 .. wide - 1 :
      \E k \in DOMAIN serializedData :
        \E m \in DOMAIN serializedData[k] : serializedData[k][m] = line

\* Painting the chunks paints exactly the pixels of the buffer: none is left
\* and Pixel() is never asked for one outside it, which would throw.
PixelsMatchBuffer ==
  chunkPc = "done" =>
    UNION {Computed(serializedData[k]) : k \in DOMAIN serializedData} = Buffer

\* However the columns are cut, each pixel is computed by one client, once, and
\* the server paints each once.
EachPixelOnce == NoLineTwice /\ PixelsMatchBuffer
=============================================================================
