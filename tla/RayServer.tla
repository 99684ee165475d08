------------------------------ MODULE RayServer ------------------------------
(***************************************************************************)
(* The server process of the distributed ray tracer: the acceptor          *)
(* (Server.cpp), the per-connection handlers that one io_service thread    *)
(* runs one at a time (ClientConnection.cpp), and the image thread that    *)
(* waits for the work to be done and writes the picture (main.cpp).  The   *)
(* clients are modelled as the server sees them on the wire: each has at   *)
(* most one request outstanding, opens a connection of its own for every   *)
(* request, and asks for the scene, then for work, then returns the chunk  *)
(* it was given (which is at the same time a request for more work).       *)
(*                                                                         *)
(* A chunk is the group of image lines that SerializeData packs into one   *)
(* element of serializedData; chunk k is the k-th element pushed.          *)
(***************************************************************************)
EXTENDS Integers, Sequences, FiniteSets

CONSTANTS NumChunks,   \* serializedData.size() when Run is called
          Peer,        \* the client processes that may ever join
          Conn,        \* the ClientConnection objects that can be alive at once
          NoPeer,      \* "no client"
          NoConn,      \* "no connection"
          Faults       \* which faults happen (see FaultKinds)

\* "link": a client process dies or its request fails or its socket breaks;
\* "accept": async_accept completes with an error;
\* "wakeup": condition_variable::wait returns without a notification.
FaultKinds == {"link", "accept", "wakeup"}

ASSUME NumChunksAssumption == NumChunks \in Nat
ASSUME NoPeerAssumption == NoPeer \notin Peer
ASSUME NoConnAssumption == NoConn \notin Conn
ASSUME FaultsAssumption == Faults \subseteq FaultKinds

Chunk == 1 .. NumChunks
NoChunk == 0

\* The status words of a request and of a reply (System.cpp).  "none" is an
\* empty receive buffer, "eof" a socket the server closed without a reply.
Request == {"send_scene", "received_scene", "computed_pixels"}
Reply == {"pixels_to_process", "send_scene", "bye", "eof"}

Status == {"NO_STATUS", "READING_HEADERS", "WRITING_TO_SOCKET",
           "COMPUTED_PIXELS", "SENDING_SCENE", "SCENE_PROPRELY_SENT",
           "INPUT_QUEUE_EMPTY"}

VARIABLES
  \* the clients, seen from the wire
  peerState,    \* by client: between requests, waiting for a reply, ...
  request,      \* by client: its latest request, or the next one when idle
  inbox,        \* by client: the reply that has reached its socket
  held,         \* by client: the chunk assigned to it and not returned
  backlog,      \* connections established but not accepted, by client
  \* the io_service thread
  up,           \* the server process is running
  accepting,    \* an async_accept is pending
  connPeer,     \* by connection: the client at the other end
  pending,      \* by connection: the asynchronous operation on its socket
  status,       \* by connection: m_CurrentStatus
  handler,      \* the handler the thread is in the middle of: [pc, c]
  inputQueue,   \* m_InputQueue: chunks to hand out, taken from the back
  outputQueue,  \* m_OutputQueue: computed chunks
  isWorkDone,   \* m_IsWorkDone
  \* the image thread
  imagePc,      \* where ComputeReceivedDataAndCreateImage is
  canvas,       \* the chunks painted on the current outputImageBuffer
  files         \* the pictures written so far, each by the chunks on it

peerVars == <<peerState, request, inbox, held>>
connVars == <<connPeer, pending, status>>
clientVars == <<peerVars, backlog>>
queueVars == <<inputQueue, outputQueue>>
netVars == <<up, accepting, connVars, handler, queueVars, isWorkDone>>
imageVars == <<imagePc, canvas, files>>
vars == <<clientVars, netVars, imageVars>>

(***************************************************************************)
(* A client is "idle" between two requests (computing, resolving, or not   *)
(* yet started), "waiting" from the moment its connection is established   *)
(* until it has read the reply, "bye" once it was told the job is done,    *)
(* "stopped" once a request of it failed or its process died.  The chunk   *)
(* it holds is in the reply on its way, being computed, in the request on  *)
(* its way, or lost with the client.                                       *)
(*                                                                         *)
(* The operation pending on a connection owns the only shared_ptr to it    *)
(* outside a running handler: with "none" pending and no handler running,  *)
(* the object is destroyed, its socket closed and its name free.  (So the  *)
(* flag m_ConnectionStopped, set only before a last write or after a       *)
(* failed operation, decides nothing.)                                     *)
(***************************************************************************)
TypeOK ==
  /\ peerState \in [Peer -> {"idle", "waiting", "bye", "stopped"}]
  /\ request \in [Peer -> Request]
  /\ inbox \in [Peer -> Reply \cup {"none"}]
  /\ held \in [Peer -> Chunk \cup {NoChunk}]
  /\ backlog \in Seq(Peer)
  /\ up \in BOOLEAN
  /\ accepting \in BOOLEAN
  /\ connPeer \in [Conn -> Peer \cup {NoPeer}]
  /\ pending \in [Conn -> {"none", "read", "write"}]
  /\ status \in [Conn -> Status]
  /\ handler \in [pc : {"idle", "pixelRequest", "finish", "notify"},
                  c : Conn \cup {NoConn}]
  /\ inputQueue \in Seq(Chunk)
  /\ outputQueue \in Seq(Chunk)
  /\ isWorkDone \in BOOLEAN
  /\ imagePc \in {"check", "enterWait", "waiting", "drain", "create", "exit"}
  /\ canvas \in SUBSET Chunk
  /\ files \in SUBSET SUBSET Chunk

Idle == [pc |-> "idle", c |-> NoConn]

\* Run: m_NumOfNetworkPackages is the size of the input queue, and the
\* first async_accept is pending before any thread starts.
Init ==
  /\ peerState = [p \in Peer |-> "idle"]
  /\ request = [p \in Peer |-> "send_scene"]
  /\ inbox = [p \in Peer |-> "none"]
  /\ held = [p \in Peer |-> NoChunk]
  /\ backlog = <<>>
  /\ up = TRUE
  /\ accepting = TRUE
  /\ connPeer = [c \in Conn |-> NoPeer]
  /\ pending = [c \in Conn |-> "none"]
  /\ status = [c \in Conn |-> "NO_STATUS"]
  /\ handler = Idle
  /\ inputQueue = [k \in Chunk |-> k]
  /\ outputQueue = <<>>
  /\ isWorkDone = FALSE
  /\ imagePc = "check"
  /\ canvas = {}
  /\ files = {}

m_NumOfNetworkPackages == NumChunks
-----------------------------------------------------------------------------
(* The clients, as far as the wire shows them. *)

\* AsyncRequest, HandleResolve, HandleConnect, HandleWriteRequest, all
\* successful: the connection is in the acceptor's backlog and the request
\* is on its way.
PeerSend(p) ==
  /\ up
  /\ peerState[p] = "idle"
  /\ peerState' = [peerState EXCEPT ![p] = "waiting"]
  /\ backlog' = Append(backlog, p)
  /\ UNCHANGED <<request, inbox, held, netVars, imageVars>>

\* HandleRead: the scene is answered with "received_scene", a chunk with the
\* computed chunk, "bye" with nothing, an error by stopping the worker.
PeerReceive(p) ==
  /\ peerState[p] = "waiting"
  /\ inbox' = [inbox EXCEPT ![p] = "none"]
  /\ \/ /\ inbox[p] = "send_scene"
        /\ peerState' = [peerState EXCEPT ![p] = "idle"]
        /\ request' = [request EXCEPT ![p] = "received_scene"]
     \/ /\ inbox[p] = "pixels_to_process"
        /\ peerState' = [peerState EXCEPT ![p] = "idle"]
        /\ request' = [request EXCEPT ![p] = "computed_pixels"]
     \/ /\ inbox[p] = "bye"
        /\ peerState' = [peerState EXCEPT ![p] = "bye"]
        /\ request' = request
     \/ /\ inbox[p] = "eof"
        /\ peerState' = [peerState EXCEPT ![p] = "stopped"]
        /\ request' = request
  /\ UNCHANGED <<held, backlog, netVars, imageVars>>

\* The error branches of the four handlers, or the end of the client
\* process: it never sends another request.
PeerFail(p) ==
  /\ "link" \in Faults \/ ~up
  /\ peerState[p] \in {"idle", "waiting"}
  /\ peerState' = [peerState EXCEPT ![p] = "stopped"]
  /\ inbox' = [inbox EXCEPT ![p] = "none"]
  /\ UNCHANGED <<request, held, backlog, netVars, imageVars>>
-----------------------------------------------------------------------------
(* The io_service thread: Server.cpp, ClientConnection.cpp.  A handler     *)
(* that touches the state the image thread reads runs in several steps;    *)
(* "handler" keeps its place, and no other handler starts meanwhile.       *)

NetworkIdle == up /\ handler = Idle

\* The reply m, or the end of the socket, reaches the client of c if it
\* still listens.
Deliver(c, m) ==
  inbox' = IF peerState[connPeer[c]] = "waiting"
             THEN [inbox EXCEPT ![connPeer[c]] = m] ELSE inbox

\* async_write is pending on c.
StartWrite(c) ==
  /\ pending' = [pending EXCEPT ![c] = "write"]
  /\ status' = [status EXCEPT ![c] = "WRITING_TO_SOCKET"]
  /\ connPeer' = connPeer

\* HandleBye: the farewell is written on the connection c.
HandleBye(c) == Deliver(c, "bye") /\ StartWrite(c)

\* HandleRead, no error, work not done: the request with this status word has
\* been read from c.
ReadsRequest(c, word) ==
  /\ NetworkIdle
  /\ pending[c] = "read" /\ ~isWorkDone
  /\ request[connPeer[c]] = word

\* HandleRead stores the status and calls HandlePixelRequest.
CallHandlePixelRequest(c, newStatus) ==
  /\ pending' = [pending EXCEPT ![c] = "none"]
  /\ status' = [status EXCEPT ![c] = newStatus]
  /\ connPeer' = connPeer
  /\ handler' = [pc |-> "pixelRequest", c |-> c]

\* The handler ends with nothing pending on c.
Destroy(c) ==
  /\ pending' = [pending EXCEPT ![c] = "none"]
  /\ connPeer' = [connPeer EXCEPT ![c] = NoPeer]
-----------------------------------------------------------------------------
(* Mistakes one could make in the handlers below; no behaviour of Spec     *)
(* takes these steps.  The properties are tested against each of them.     *)

\* the next connection is not accepted
AcceptsOnce(c) ==
  /\ NetworkIdle /\ accepting /\ backlog # <<>> /\ pending[c] = "none"
  /\ connPeer' = [connPeer EXCEPT ![c] = Head(backlog)]
  /\ pending' = [pending EXCEPT ![c] = "read"]
  /\ status' = [status EXCEPT ![c] = "READING_HEADERS"]
  /\ backlog' = Tail(backlog)
  /\ accepting' = FALSE
  /\ UNCHANGED <<peerVars, up, handler, queueVars, isWorkDone, imageVars>>

\* a request after the end is dropped instead of answered
LateDropped(c) ==
  /\ NetworkIdle /\ pending[c] = "read" /\ isWorkDone
  /\ Deliver(c, "eof") /\ Destroy(c) /\ status' = status
  /\ UNCHANGED <<peerState, request, held, backlog, up, accepting, handler,
                 queueVars, isWorkDone, imageVars>>

\* back() without pop_back()
ChunkNotPopped ==
  /\ up /\ handler.pc = "pixelRequest" /\ inputQueue # <<>>
  /\ held' = [held EXCEPT ![connPeer[handler.c]] = inputQueue[Len(inputQueue)]]
  /\ Deliver(handler.c, "pixels_to_process") /\ StartWrite(handler.c)
  /\ handler' = Idle
  /\ UNCHANGED <<peerState, request, backlog, up, accepting, queueVars,
                 isWorkDone, imageVars>>

\* an empty queue is taken for finished work
EmptyTakenForDone ==
  /\ up /\ handler.pc = "pixelRequest" /\ inputQueue = <<>>
  /\ HandleBye(handler.c)
  /\ handler' = [pc |-> "finish", c |-> handler.c]
  /\ UNCHANGED <<peerState, request, held, backlog, up, accepting, queueVars,
                 isWorkDone, imageVars>>

\* the notification is sent, the flag is not set
NotifiesWithoutFlag ==
  /\ up /\ handler.pc = "pixelRequest" /\ inputQueue = <<>>
  /\ Len(outputQueue) = m_NumOfNetworkPackages
  /\ HandleBye(handler.c)
  /\ handler' = [pc |-> "notify", c |-> handler.c]
  /\ UNCHANGED <<peerState, request, held, backlog, up, accepting, queueVars,
                 isWorkDone, imageVars>>

\* the flag is looked at instead of the number of results
DropsByFlag ==
  /\ up /\ handler.pc = "pixelRequest" /\ inputQueue = <<>> /\ ~isWorkDone
  /\ Deliver(handler.c, "eof") /\ Destroy(handler.c) /\ status' = status
  /\ handler' = Idle
  /\ UNCHANGED <<peerState, request, held, backlog, up, accepting, queueVars,
                 isWorkDone, imageVars>>

\* the connection without work is kept to be read again
KeepsReading ==
  /\ up /\ handler.pc = "pixelRequest" /\ inputQueue = <<>>
  /\ Len(outputQueue) # m_NumOfNetworkPackages
  /\ pending' = [pending EXCEPT ![handler.c] = "read"]
  /\ status' = [status EXCEPT ![handler.c] = "INPUT_QUEUE_EMPTY"]
  /\ handler' = Idle
  /\ UNCHANGED <<clientVars, up, accepting, connPeer, queueVars, isWorkDone,
                 imageVars>>

\* the flag is set, nobody is notified
NobodyNotified ==
  /\ up /\ handler.pc = "notify"
  /\ handler' = Idle
  /\ UNCHANGED <<clientVars, up, accepting, connVars, queueVars, isWorkDone,
                 imageVars>>

\* back() with pop_front()
PaintsBackPopsFront ==
  /\ up /\ imagePc = "drain" /\ outputQueue # <<>>
  /\ canvas' = canvas \cup {outputQueue[Len(outputQueue)]}
  /\ outputQueue' = Tail(outputQueue)
  /\ UNCHANGED <<clientVars, up, accepting, connVars, handler, inputQueue,
                 isWorkDone, imagePc, files>>

\* if instead of while around the painting of a chunk
PaintsOneChunk ==
  /\ up /\ imagePc = "drain"
  /\ imagePc' = "create"
  /\ UNCHANGED <<clientVars, netVars, canvas, files>>
-----------------------------------------------------------------------------
\* HandleAccept, no error: Start begins to read the request, StartAccept
\* constructs the next connection object.
HandleAccept(c) ==
  /\ NetworkIdle /\ accepting
  /\ backlog # <<>>
  /\ pending[c] = "none"
  /\ connPeer' = [connPeer EXCEPT ![c] = Head(backlog)]
  /\ pending' = [pending EXCEPT ![c] = "read"]
  /\ status' = [status EXCEPT ![c] = "READING_HEADERS"]
  /\ backlog' = Tail(backlog)
  /\ UNCHANGED <<peerVars, up, accepting, handler, queueVars, isWorkDone,
                 imageVars>>

\* Start asks for remote_endpoint() of a socket its client has reset: the
\* exception leaves io_service::run and with it the thread function, which
\* terminates the process.
StartThrows ==
  /\ NetworkIdle /\ accepting
  /\ backlog # <<>> /\ peerState[Head(backlog)] = "stopped"
  /\ up' = FALSE
  /\ UNCHANGED <<clientVars, accepting, connVars, handler, queueVars,
                 isWorkDone, imageVars>>

\* HandleAccept with an error: no further async_accept is ever started.
HandleAcceptError ==
  /\ "accept" \in Faults
  /\ NetworkIdle /\ accepting
  /\ accepting' = FALSE
  /\ UNCHANGED <<clientVars, up, connVars, handler, queueVars, isWorkDone,
                 imageVars>>

\* HandleRead with an error: the client has gone before its request arrived.
HandleReadError(c) ==
  /\ NetworkIdle
  /\ pending[c] = "read" /\ peerState[connPeer[c]] = "stopped"
  /\ Destroy(c) /\ status' = status
  /\ UNCHANGED <<clientVars, up, accepting, handler, queueVars, isWorkDone,
                 imageVars>>

\* HandleRead of a request once the work is done: whatever it is, bye.
HandleReadLate(c) ==
  /\ NetworkIdle
  /\ pending[c] = "read" /\ isWorkDone
  /\ HandleBye(c)
  /\ UNCHANGED <<peerState, request, held, backlog, up, accepting, handler,
                 queueVars, isWorkDone, imageVars>>

\* HandleRead of "send_scene" and HandleSceneRequest.
HandleReadSendScene(c) ==
  /\ ReadsRequest(c, "send_scene")
  /\ Deliver(c, "send_scene") /\ StartWrite(c)
  /\ UNCHANGED <<peerState, request, held, backlog, up, accepting, handler,
                 queueVars, isWorkDone, imageVars>>

\* HandleRead of "received_scene", up to the call of HandlePixelRequest.
HandleReadReceivedScene(c) ==
  /\ ReadsRequest(c, "received_scene")
  /\ CallHandlePixelRequest(c, "SCENE_PROPRELY_SENT")
  /\ UNCHANGED <<clientVars, up, accepting, queueVars, isWorkDone, imageVars>>

\* HandleRead of "computed_pixels": the chunk joins the output queue, then
\* HandlePixelRequest is called.
HandleReadComputedPixels(c) ==
  /\ ReadsRequest(c, "computed_pixels")
  /\ outputQueue' = Append(outputQueue, held[connPeer[c]])
  /\ held' = [held EXCEPT ![connPeer[c]] = NoChunk]
  /\ CallHandlePixelRequest(c, "COMPUTED_PIXELS")
  /\ UNCHANGED <<peerState, request, inbox, backlog, up, accepting, inputQueue,
                 isWorkDone, imageVars>>

\* HandlePixelRequest with work left: the last chunk of the queue is sent.
HandlePixelRequest ==
  /\ up /\ handler.pc = "pixelRequest"
  /\ inputQueue # <<>>
  /\ held' = [held EXCEPT ![connPeer[handler.c]] = inputQueue[Len(inputQueue)]]
  /\ inputQueue' = SubSeq(inputQueue, 1, Len(inputQueue) - 1)
  /\ Deliver(handler.c, "pixels_to_process") /\ StartWrite(handler.c)
  /\ handler' = Idle
  /\ UNCHANGED <<peerState, request, backlog, up, accepting, outputQueue,
                 isWorkDone, imageVars>>

\* HandlePixelRequest on an empty queue, all chunks back: say bye, then
\* (SetWorkDone, NotifyImageThread) declare the work done.
HandlePixelRequestDone ==
  /\ up /\ handler.pc = "pixelRequest"
  /\ inputQueue = <<>>
  /\ Len(outputQueue) = m_NumOfNetworkPackages
  /\ HandleBye(handler.c)
  /\ handler' = [pc |-> "finish", c |-> handler.c]
  /\ UNCHANGED <<peerState, request, held, backlog, up, accepting, queueVars,
                 isWorkDone, imageVars>>

\* HandlePixelRequest on an empty queue, chunks still out: nothing is
\* written and nothing is pending, so the object and its socket are gone.
HandlePixelRequestEmpty ==
  /\ up /\ handler.pc = "pixelRequest"
  /\ inputQueue = <<>>
  /\ Len(outputQueue) # m_NumOfNetworkPackages
  /\ status' = [status EXCEPT ![handler.c] = "INPUT_QUEUE_EMPTY"]
  /\ Deliver(handler.c, "eof") /\ Destroy(handler.c)
  /\ handler' = Idle
  /\ UNCHANGED <<peerState, request, held, backlog, up, accepting, queueVars,
                 isWorkDone, imageVars>>

\* m_IsWorkDone = true
SetWorkDone ==
  /\ up /\ handler.pc = "finish"
  /\ isWorkDone' = TRUE
  /\ handler' = [pc |-> "notify", c |-> handler.c]
  /\ UNCHANGED <<clientVars, up, accepting, connVars, queueVars, imageVars>>

\* The image thread starts the round of its loop that follows the wait.
WakeImageThread ==
  /\ imagePc' = "drain"
  /\ canvas' = {}

\* m_NotifyNetworkIsDone.notify_one(): wakes the image thread if it waits,
\* and is forgotten if it does not.
NotifyImageThread ==
  /\ up /\ handler.pc = "notify"
  /\ IF imagePc = "waiting" THEN WakeImageThread
                            ELSE UNCHANGED <<imagePc, canvas>>
  /\ handler' = Idle
  /\ UNCHANGED <<clientVars, up, accepting, connVars, queueVars, isWorkDone,
                 files>>

\* HandleRead again, as the completion of async_write: the buffer is empty
\* (or the connection stopped, or the write failed), nothing is pending.
HandleWriteCompletion(c) ==
  /\ NetworkIdle
  /\ pending[c] = "write"
  /\ Destroy(c) /\ status' = status
  /\ UNCHANGED <<clientVars, up, accepting, handler, queueVars, isWorkDone,
                 imageVars>>
-----------------------------------------------------------------------------
(* The image thread: ComputeReceivedDataAndCreateImage.  It never holds    *)
(* the mutex of the output queue, and nobody else takes waitOnNetworkDone. *)

\* while (server->IsWorkDone() == false)
CheckWorkDone ==
  /\ up /\ imagePc = "check"
  /\ imagePc' = IF isWorkDone THEN "exit" ELSE "enterWait"
  /\ UNCHANGED <<clientVars, netVars, canvas, files>>

\* notifyNetworkIsDone.wait(guardLock): from here on a notification counts.
EnterWait ==
  /\ up /\ imagePc = "enterWait"
  /\ imagePc' = "waiting"
  /\ UNCHANGED <<clientVars, netVars, canvas, files>>

\* wait returns although nobody notified: the code does not test why.
SpuriousWakeup ==
  /\ "wakeup" \in Faults
  /\ up /\ imagePc = "waiting"
  /\ WakeImageThread
  /\ UNCHANGED <<clientVars, netVars, files>>

\* One round of while (!outputQueue.empty()): the last chunk is painted.
PaintChunk ==
  /\ up /\ imagePc = "drain"
  /\ outputQueue # <<>>
  /\ canvas' = canvas \cup {outputQueue[Len(outputQueue)]}
  /\ outputQueue' = SubSeq(outputQueue, 1, Len(outputQueue) - 1)
  /\ UNCHANGED <<clientVars, up, accepting, connVars, handler, inputQueue,
                 isWorkDone, imagePc, files>>

PaintDone ==
  /\ up /\ imagePc = "drain"
  /\ outputQueue = <<>>
  /\ imagePc' = "create"
  /\ UNCHANGED <<clientVars, netVars, canvas, files>>

\* HandleAmbigousPixels and CreateImage write the picture of the canvas.
CreateImage ==
  /\ up /\ imagePc = "create"
  /\ files' = files \cup {canvas}
  /\ imagePc' = "check"
  /\ UNCHANGED <<clientVars, netVars, canvas>>
-----------------------------------------------------------------------------
NetworkThread ==
  \/ \E c \in Conn :
       \/ HandleAccept(c)
       \/ HandleReadError(c)
       \/ HandleReadLate(c)
       \/ HandleReadSendScene(c)
       \/ HandleReadReceivedScene(c)
       \/ HandleReadComputedPixels(c)
       \/ HandleWriteCompletion(c)
  \/ HandlePixelRequest
  \/ HandlePixelRequestDone
  \/ HandlePixelRequestEmpty
  \/ SetWorkDone
  \/ NotifyImageThread

ImageThread ==
  CheckWorkDone \/ EnterWait \/ PaintChunk \/ PaintDone \/ CreateImage

Next ==
  \/ \E p \in Peer : PeerSend(p) \/ PeerReceive(p) \/ PeerFail(p)
  \/ NetworkThread
  \/ ImageThread
  \/ StartThrows
  \/ HandleAcceptError
  \/ SpuriousWakeup

Spec == Init /\ [][Next]_vars

\* The threads of the server run when they can, a reply or a reset that has
\* reached a client is read.  Nothing is asked of a client with no reply.
ServerFairness ==
  /\ WF_vars(NetworkThread)
  /\ WF_vars(ImageThread)
  /\ \A p \in Peer : WF_vars(PeerReceive(p)) /\ WF_vars(~up /\ PeerFail(p))

\* Moreover no client stalls between two requests.
ClientFairness == \A p \in Peer : WF_vars(PeerSend(p))

FairSpec == Spec /\ ServerFairness
FairClientsSpec == FairSpec /\ ClientFairness
-----------------------------------------------------------------------------
(* Properties. *)

Elements(queue) == {queue[i] : i \in DOMAIN queue}
Held == {held[p] : p \in Peer} \ {NoChunk}

\* No chunk is in two places, or twice in one: the queue of work, the hands
\* of one client (or the messages to and from it), the queue of results, the
\* canvas being painted.  HandlePixelRequest and HandleRead move chunks
\* between the two queues and a client over several handlers; a chunk handed
\* out twice would make the count of results reach the total too early.
NoChunkDuplicated ==
  /\ \A i, j \in DOMAIN inputQueue : inputQueue[i] = inputQueue[j] => i = j
  /\ \A i, j \in DOMAIN outputQueue :
       outputQueue[i] = outputQueue[j] => i = j
  /\ \A p, q \in Peer : held[p] = held[q] => \/ p = q
                                                     \/ held[p] = NoChunk
  /\ Elements(inputQueue) \cap (Held \cup Elements(outputQueue) \cup canvas) = {}
  /\ Held \cap (Elements(outputQueue) \cup canvas) = {}

\* Unless waits wake up for nothing, no chunk vanishes: what is in no queue,
\* on no canvas is with a client, dead or alive.  In particular a client that
\* dies, or a connection dropped by HandlePixelRequest, costs at most the one
\* chunk that client held.
NoChunkVanishes ==
  "wakeup" \notin Faults =>
     Chunk = Elements(inputQueue) \cup Held \cup Elements(outputQueue) \cup canvas

\* m_IsWorkDone, computed from two counters only (HandlePixelRequest:223),
\* means what it says: no chunk is left in the queue or with any client; and
\* no client is sent home with "bye" before that.
WorkDoneMeansAllReturned ==
  (isWorkDone \/ \E p \in Peer : "bye" \in {peerState[p], inbox[p]})
     => inputQueue = <<>> /\ Held = {}

\* HandleRead:96 compares sizes and HandleRead:130, HandlePixelRequest:223
\* touch m_OutputQueue on the network thread while the image thread empties
\* it without the mutex: unless waits wake up for nothing they never can.
NoOutputQueueRace ==
  ("wakeup" \notin Faults /\ imagePc = "drain") =>
     /\ handler.pc # "pixelRequest"
     /\ \A c \in Conn : pending[c] = "read" => isWorkDone

\* Unless waits wake up for nothing, the only picture ever written has every
\* chunk on it.
PicturesComplete ==
  "wakeup" \notin Faults => files \subseteq {Chunk}

\* The test of HandleRead:94 for a connection in status INPUT_QUEUE_EMPTY can
\* never succeed: a connection in that status has nothing pending.
EmptyStatusIsFinal ==
  \A c \in Conn : pending[c] # "none" => status[c] # "INPUT_QUEUE_EMPTY"

\* HandlePixelRequest drops a client without an answer only while another
\* client still owes a chunk, so a farm whose clients all stay alive always
\* keeps one that can finish the work.
DroppedOnlyIfOthersWork ==
  [][\A p \in Peer :
       ("wakeup" \notin Faults /\ inbox[p] # "eof" /\ inbox'[p] = "eof")
          => \E q \in Peer \ {p} : held[q] # NoChunk]_vars

\* The abstract promise: with todo, out and returned read off the queues and
\* the clients, the server implements WorkPool.
Pool == INSTANCE WorkPool
          WITH Chunks   <- Chunk,
               todo     <- Elements(inputQueue),
               out      <- Held,
               returned <- Chunk \ (Elements(inputQueue) \cup Held),
               done     <- isWorkDone

ImplementsWorkPool == Pool!PoolSpec

\* No client waits for ever: every request gets an answer, a closed socket or
\* a failure, whatever the other clients do.  It is what the comment on
\* HandleStop promises, "to close sockets if a given time passes and the
\* connection/socket has not responded" (Client.cpp:66-70), but no timer
\* exists: it holds only as long as the server goes on accepting.
EveryRequestEnds ==
  \A p \in Peer : (peerState[p] = "waiting") ~> (peerState[p] # "waiting")

\* If no client fails or stalls, all chunks come back and the work is
\* declared done, also when clients are dropped on the way.
WorkGetsDone == <>isWorkDone

\* A client that connects after the end is told to go, not dropped.
LateClientsGetBye ==
  \A p \in Peer : (isWorkDone /\ peerState[p] = "waiting" /\ p \in Elements(backlog))
                    ~> (peerState[p] = "bye")

\* If the image thread is waiting when the work is declared done, the
\* picture gets written, unless a late client takes the server down first.
NotifiedThreadWritesPicture ==
  (handler.pc = "finish" /\ imagePc = "waiting") ~> (files # {} \/ ~up)

\* The picture is written once all parts are processed
\* (docs/documentation_RO.docx; "Construncting image...",
\* ClientConnection.cpp:232), wherever the image thread is at that moment.
WorkDoneLeadsToPicture == isWorkDone ~> (files # {})
=============================================================================
