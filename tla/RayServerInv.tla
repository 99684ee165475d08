---------------------------- MODULE RayServerInv ----------------------------
(***************************************************************************)
(* The inductive invariant of RayServer: why its safety properties hold.   *)
(* The properties speak of chunks; what makes them true is the journey of  *)
(* a request (nobody else can return a chunk) and the order of the three   *)
(* last steps of the final handler (count, flag, notification).            *)
(***************************************************************************)
EXTENDS RayServer

\* The input queue is always the not yet popped prefix of serializedData, so
\* a chunk has left it exactly when its number exceeds the queue's length.
QueueIsPrefix ==
  /\ Len(inputQueue) <= NumChunks
  /\ \A i \in 1 .. Len(inputQueue) : inputQueue[i] = i

\* A chunk that has left the queue is with one client, or once in the
\* results, or on the canvas.
ChunksApart ==
  /\ \A p \in Peer : held[p] # NoChunk => held[p] > Len(inputQueue)
  /\ \A p, q \in Peer : held[p] = held[q] /\ held[p] # NoChunk => p = q
  /\ \A i, j \in 1 .. Len(outputQueue) : outputQueue[i] = outputQueue[j] => i = j
  /\ \A i \in 1 .. Len(outputQueue) :
       /\ outputQueue[i] > Len(inputQueue)
       /\ outputQueue[i] \notin canvas
       /\ \A p \in Peer : held[p] # outputQueue[i]
  /\ \A k \in canvas : k > Len(inputQueue) /\ \A p \in Peer : held[p] # k

\* Every chunk is somewhere, unless a round of the image loop dropped it.
ChunksKept ==
  "wakeup" \notin Faults =>
     \A k \in Chunk : \/ k <= Len(inputQueue)
                      \/ \E p \in Peer : held[p] = k
                      \/ \E i \in 1 .. Len(outputQueue) : outputQueue[i] = k
                      \/ k \in canvas

\* The request of p is on its way, and read on the connection c.
ReadingOn(c, p) == pending[c] = "read" /\ connPeer[c] = p
InBacklog(p) == \E i \in 1 .. Len(backlog) : backlog[i] = p

\* What a client whose request nobody has read, or is being served, looks like.
Awaiting(p) == peerState[p] \in {"waiting", "stopped"} /\ inbox[p] = "none"

\* A request waits in one place only, and the client whose request is being
\* served has no other request on its way.
OneUnreadRequest ==
  /\ \A i, j \in 1 .. Len(backlog) : backlog[i] = backlog[j] => i = j
  /\ \A i \in 1 .. Len(backlog) : Awaiting(backlog[i])
  /\ \A c \in Conn : pending[c] = "read" =>
       /\ connPeer[c] \in Peer
       /\ Awaiting(connPeer[c])
       /\ ~InBacklog(connPeer[c])
       /\ \A d \in Conn : ReadingOn(d, connPeer[c]) => d = c
  /\ handler.pc = "pixelRequest" =>
       /\ handler.c \in Conn
       /\ pending[handler.c] = "none"
       /\ connPeer[handler.c] \in Peer
       /\ Awaiting(connPeer[handler.c])
       /\ ~InBacklog(connPeer[handler.c])
       /\ \A d \in Conn : ~ReadingOn(d, connPeer[handler.c])

\* A client returns a chunk exactly when it has one to return, and is given
\* one only when it has none.
ReturnsWhatItHolds(p) == held[p] # NoChunk <=> request[p] = "computed_pixels"

HoldsWhatItWasGiven ==
  /\ \A p \in Peer : peerState[p] = "idle" => inbox[p] = "none" /\ ReturnsWhatItHolds(p)
  /\ \A i \in 1 .. Len(backlog) : ReturnsWhatItHolds(backlog[i])
  /\ \A c \in Conn : pending[c] = "read" => ReturnsWhatItHolds(connPeer[c])
  /\ \A p \in Peer : peerState[p] = "waiting" /\ inbox[p] # "none" =>
       (held[p] # NoChunk <=> inbox[p] = "pixels_to_process")
  /\ handler.pc = "pixelRequest" => held[connPeer[handler.c]] = NoChunk

AllReturned == inputQueue = <<>> /\ \A p \in Peer : held[p] = NoChunk

\* From the moment the results have been counted, nothing is out.
CountedMeansReturned ==
  (\/ isWorkDone
   \/ handler.pc \in {"finish", "notify"}
   \/ \E p \in Peer : peerState[p] = "bye" \/ inbox[p] = "bye") => AllReturned

\* The flag is set between the last count and the notification.
FlagBeforeNotify ==
  /\ handler.pc \in {"pixelRequest", "finish"} => ~isWorkDone
  /\ handler.pc = "notify" => isWorkDone

\* The image thread works only after the notification of the last handler,
\* and only once.
PaintsAfterNotify ==
  "wakeup" \notin Faults =>
     /\ (canvas # {} \/ files # {} \/ imagePc \in {"drain", "create"})
           => isWorkDone /\ handler.pc = "idle"
     /\ files # {} => imagePc \in {"check", "exit"}
     /\ imagePc = "create" => outputQueue = <<>>
     /\ files \subseteq {Chunk}

\* No pending operation on a connection in status INPUT_QUEUE_EMPTY.
EmptyStatusNotPending ==
  \A c \in Conn : status[c] = "INPUT_QUEUE_EMPTY" => pending[c] = "none"

IInv ==
  /\ TypeOK
  /\ QueueIsPrefix
  /\ ChunksApart
  /\ ChunksKept
  /\ OneUnreadRequest
  /\ HoldsWhatItWasGiven
  /\ CountedMeansReturned
  /\ FlagBeforeNotify
  /\ PaintsAfterNotify
  /\ EmptyStatusNotPending
=============================================================================
