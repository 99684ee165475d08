------------------------------ MODULE Assembly ------------------------------
(***************************************************************************)
(* A picture from its cutting to its bytes.  The server cuts it into       *)
(* chunks of columns (Chunking), the clients compute them and bring them   *)
(* back in any order (RayServer and RayClient say that each comes back     *)
(* once), the image thread paints them and finishes the picture (Picture). *)
(* SaveImage makes the same picture in one process.                        *)
(***************************************************************************)
EXTENDS Chunking, Picture

VARIABLES outputQueue,  \* the chunks that are not painted yet, by number
          painting      \* what is left of the chunk that is being painted

queueVars == <<outputQueue, painting>>
assemblyVars == <<chunkVars, vars, queueVars>>

\* The dimensions are globals, the same for cutting and painting.  SaveImage
\* cuts nothing.
AssemblyInit ==
  /\ Init /\ ChunkInit
  /\ wide = largePixelsWide /\ high = largePixelsHigh
  /\ saving => linesToSend = CHOOSE n \in LineCounts : TRUE
  /\ outputQueue = {} /\ painting = <<>>
-----------------------------------------------------------------------------
Cut ==
  /\ ~saving /\ ChunkNext
  /\ outputQueue' = IF chunkPc' = "done" THEN DOMAIN serializedData' ELSE {}
  /\ UNCHANGED <<vars, painting>>

PopChunk ==
  /\ pc = "trace" /\ chunkPc = "done" /\ painting = <<>>
  /\ \E k \in outputQueue :
       /\ painting' = serializedData[k]
       /\ outputQueue' = outputQueue \ {k}
  /\ UNCHANGED <<chunkVars, vars>>

PaintLine ==
  /\ painting # <<>>
  /\ PaintColumn(Head(painting))
  /\ painting' = Tail(painting)
  /\ UNCHANGED <<chunkVars, outputQueue>>

\* The queue is empty; whether all columns are there nobody asks.
QueueIsEmpty ==
  /\ chunkPc = "done" /\ outputQueue = {} /\ painting = <<>>
  /\ PaintingEnds
  /\ UNCHANGED <<chunkVars, queueVars>>

TracePixels == (SaveTraces \/ SaveTraced) /\ UNCHANGED <<chunkVars, queueVars>>

Finish ==
  /\ \/ Search \/ Searched
     \/ Heal \/ Healed
     \/ MaxColorValue \/ Encode \/ Encoded \/ EncoderFails
  /\ UNCHANGED <<chunkVars, queueVars>>

AssemblyNext ==
  Cut \/ PopChunk \/ PaintLine \/ QueueIsEmpty \/ TracePixels \/ Finish

AssemblySpec == AssemblyInit /\ [][AssemblyNext]_assemblyVars
-----------------------------------------------------------------------------
(* The inductive invariant. *)

SameDimensions == wide = largePixelsWide

\* A column is missing from the buffer exactly if it is in a chunk that is still
\* queued or in what is left of the one that is being painted, and nowhere twice.
InQueue(c) == \E k \in outputQueue :
                \E m \in DOMAIN serializedData[k] : serializedData[k][m] = c
InPainting(c) == \E m \in DOMAIN painting : painting[m] = c

NotYetCut ==
  chunkPc # "done" => columns = Line /\ outputQueue = {} /\ painting = <<>>

MissingIsQueued ==
  chunkPc = "done" =>
    /\ outputQueue \subseteq DOMAIN serializedData
    /\ painting \in Seq(Line)
    /\ columns \subseteq Line
    /\ \A c \in Line : c \in columns <=> InQueue(c) \/ InPainting(c)
    /\ \A m, n \in DOMAIN painting : m < n => painting[m] < painting[n]
    /\ \A m \in DOMAIN painting : ~InQueue(painting[m])

AssemblyIInv ==
  /\ ChunkIInv /\ SameDimensions
  /\ (~saving /\ pc = "trace") => NotYetCut /\ MissingIsQueued
=============================================================================
