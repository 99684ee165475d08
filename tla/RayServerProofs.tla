--------------------------- MODULE RayServerProofs ---------------------------
(***************************************************************************)
(* Proofs that RayServer has its safety properties for every number of     *)
(* chunks, every set of clients and connection objects, and every choice   *)
(* of faults.  The argument is the inductive invariant IInv of             *)
(* RayServerInv: one lemma per action shows that the action preserves it,  *)
(* with one step per conjunct; the properties follow from it.              *)
(***************************************************************************)
EXTENDS RayServerInv, FiniteSetTheorems, SequenceTheorems, TLAPS

\* What back() and pop_back() leave of a queue.
LEMMA FrontOfSeq ==
  ASSUME NEW S, NEW s \in Seq(S), s # <<>>
  PROVE  /\ Len(s) \in Nat \ {0}
         /\ s[Len(s)] \in S
         /\ SubSeq(s, 1, Len(s) - 1) \in Seq(S)
         /\ Len(SubSeq(s, 1, Len(s) - 1)) = Len(s) - 1
         /\ \A i \in 1 .. Len(s) - 1 : SubSeq(s, 1, Len(s) - 1)[i] = s[i]
<1>1. Len(s) \in Nat \ {0}
  BY EmptySeq
<1>2. \A i \in 1 .. Len(s) : s[i] \in S
  BY ElementOfSeq
<1> DEFINE n == Len(s) - 1
<1>3. n \in Nat /\ \A i \in 1 .. n : s[i] \in S
  BY <1>1, <1>2
<1>4. /\ SubSeq(s, 1, n) \in Seq(S)
      /\ Len(SubSeq(s, 1, n)) = IF 1 <= n THEN n - 1 + 1 ELSE 0
      /\ \A i \in 1 .. n - 1 + 1 : SubSeq(s, 1, n)[i] = s[1 + i - 1]
  <2> HIDE DEF n
  <2>1. QED
    BY <1>3, SubSeqProperties
<1>5. /\ Len(SubSeq(s, 1, n)) = n
      /\ \A i \in 1 .. n : SubSeq(s, 1, n)[i] = s[i]
  <2> HIDE DEF n
  <2>1. (IF 1 <= n THEN n - 1 + 1 ELSE 0) = n /\ n - 1 + 1 = n
    BY <1>3
  <2>2. Len(SubSeq(s, 1, n)) = n
    BY <1>4, <2>1, Zenon
  <2>3. \A i \in 1 .. n : 1 + i - 1 = i
    BY <1>3
  <2>4. QED
    BY <1>4, <2>1, <2>2, <2>3, Zenon
<1>7. QED
  BY <1>1, <1>2, <1>4, <1>5

\* Why comparing two counters is enough (HandlePixelRequest:223): results
\* are pairwise different, so as many results as chunks are all the chunks.
LEMMA AllCounted ==
  ASSUME TypeOK, ChunksApart, Len(outputQueue) = NumChunks
  PROVE  \A k \in Chunk : \E i \in 1 .. Len(outputQueue) : outputQueue[i] = k
<1>1. outputQueue \in Injection(Chunk, Chunk)
  BY DEF Injection, IsInjective, TypeOK, ChunksApart, Chunk
<1>2. IsFiniteSet(Chunk)
  BY NumChunksAssumption, FS_Interval DEF Chunk
<1>3. outputQueue \in Surjection(Chunk, Chunk)
  BY <1>1, <1>2, FS_Injection
<1>4. QED
  BY <1>3 DEF Surjection, Chunk

\* Conversely, if all the chunks are among the results, the counters agree.
LEMMA CountsAll ==
  ASSUME TypeOK, ChunksApart,
         \A k \in Chunk : \E i \in 1 .. Len(outputQueue) : outputQueue[i] = k
  PROVE  Len(outputQueue) = NumChunks
<1> DEFINE Index == 1 .. Len(outputQueue)
<1>0. Len(outputQueue) \in Nat /\ outputQueue \in [Index -> Chunk]
  BY LenProperties DEF TypeOK
<1>1. /\ outputQueue \in Injection(Index, Chunk)
      /\ outputQueue \in Surjection(Index, Chunk)
  BY <1>0 DEF Injection, IsInjective, Surjection, ChunksApart
<1>2. IsFiniteSet(Chunk) /\ Cardinality(Chunk) = NumChunks
  BY NumChunksAssumption, FS_Interval DEF Chunk
<1>3. Cardinality(Index) = Len(outputQueue)
  BY <1>0, FS_Interval
<1>4. Cardinality(Index) = Cardinality(Chunk)
  BY <1>1, <1>2, FS_Injection
<1>5. QED
  BY <1>2, <1>3, <1>4
-----------------------------------------------------------------------------
\* The server starts with every chunk in the queue and nothing anywhere else.
LEMMA InitIInv == Init => IInv
<1> SUFFICES ASSUME Init PROVE IInv
  OBVIOUS
<1> USE NumChunksAssumption DEF Init
<1>1. TypeOK
  <2>1. inputQueue \in Seq(Chunk) /\ held \in [Peer -> Chunk \cup {NoChunk}]
    BY DEF Chunk
  <2>2. /\ peerState \in [Peer -> {"idle", "waiting", "bye", "stopped"}]
        /\ request \in [Peer -> Request]
        /\ inbox \in [Peer -> Reply \cup {"none"}]
    BY DEF Request, Reply
  <2>3. /\ connPeer \in [Conn -> Peer \cup {NoPeer}]
        /\ pending \in [Conn -> {"none", "read", "write"}]
        /\ status \in [Conn -> Status]
    BY DEF Status
  <2>4. handler \in [pc : {"idle", "pixelRequest", "finish", "notify"},
                     c : Conn \cup {NoConn}]
    BY DEF Idle
  <2>5. /\ backlog \in Seq(Peer) /\ outputQueue \in Seq(Chunk)
        /\ canvas \in SUBSET Chunk /\ files \in SUBSET SUBSET Chunk
    OBVIOUS
  <2>6. QED
    BY <2>1, <2>2, <2>3, <2>4, <2>5 DEF TypeOK
<1>2. QueueIsPrefix
  BY DEF QueueIsPrefix, Chunk
<1>3. ChunksApart
  BY DEF ChunksApart, NoChunk
<1>4. ChunksKept
  BY DEF ChunksKept, Chunk
<1>5. OneUnreadRequest /\ HoldsWhatItWasGiven
  BY DEF OneUnreadRequest, HoldsWhatItWasGiven, Idle, NoChunk, ReturnsWhatItHolds
<1>6. CountedMeansReturned /\ FlagBeforeNotify /\ PaintsAfterNotify
  BY DEF CountedMeansReturned, FlagBeforeNotify, PaintsAfterNotify, Idle
<1>7. EmptyStatusNotPending
  BY DEF EmptyStatusNotPending
<1>8. QED
  BY <1>1, <1>2, <1>3, <1>4, <1>5, <1>6, <1>7 DEF IInv

\* A client that sends a request: only its own entry in the backlog is new.
LEMMA PeerSendStep ==
  ASSUME IInv, NEW p \in Peer, PeerSend(p)
  PROVE  IInv'
<1> USE DEF IInv, TypeOK, PeerSend,
             netVars, imageVars, connVars, queueVars
<1>1. TypeOK'
  BY DEF Request, Reply, Status, NoChunk
<1>2. QueueIsPrefix'
  BY DEF QueueIsPrefix
<1>3. ChunksApart'
  BY DEF ChunksApart
<1>4. ChunksKept'
  BY DEF ChunksKept
<1>5. OneUnreadRequest'
  <2>1. ~InBacklog(p) /\ \A c \in Conn : ~ReadingOn(c, p)
    BY DEF OneUnreadRequest, Awaiting, InBacklog, ReadingOn
  <2>2. /\ Len(backlog) \in Nat /\ Len(backlog') = Len(backlog) + 1
        /\ \A i \in 1 .. Len(backlog) : backlog'[i] = backlog[i]
        /\ backlog'[Len(backlog')] = p
    BY AppendProperties, LenProperties
  <2>3. handler.pc = "pixelRequest" => connPeer[handler.c] # p
    BY DEF OneUnreadRequest, Awaiting
  <2>4. Awaiting(p)'
    BY DEF Awaiting, HoldsWhatItWasGiven
  <2>5. \A q \in Peer : q # p => (Awaiting(q)' <=> Awaiting(q)) /\ (InBacklog(q)' <=> InBacklog(q))
    BY <2>2 DEF Awaiting, InBacklog
  <2>6. /\ (\A i, j \in 1 .. Len(backlog) : backlog[i] = backlog[j] => i = j)'
        /\ (\A i \in 1 .. Len(backlog) : Awaiting(backlog[i]))'
    BY <2>1, <2>2, <2>4, <2>5 DEF OneUnreadRequest, InBacklog
  <2>7. (\A c \in Conn : pending[c] = "read" =>
           /\ connPeer[c] \in Peer
           /\ Awaiting(connPeer[c])
           /\ ~InBacklog(connPeer[c])
           /\ \A d \in Conn : ReadingOn(d, connPeer[c]) => d = c)'
    BY <2>1, <2>5 DEF OneUnreadRequest, ReadingOn
  <2>8. (handler.pc = "pixelRequest" =>
           /\ handler.c \in Conn
           /\ pending[handler.c] = "none"
           /\ connPeer[handler.c] \in Peer
           /\ Awaiting(connPeer[handler.c])
           /\ ~InBacklog(connPeer[handler.c])
           /\ \A d \in Conn : ~ReadingOn(d, connPeer[handler.c]))'
    BY <2>3, <2>5 DEF OneUnreadRequest, ReadingOn
  <2>9. QED
    BY <2>6, <2>7, <2>8 DEF OneUnreadRequest
<1>6. HoldsWhatItWasGiven'
  BY DEF HoldsWhatItWasGiven, ReturnsWhatItHolds, OneUnreadRequest, Awaiting
<1>7. CountedMeansReturned'
  BY DEF CountedMeansReturned, AllReturned
<1>8. FlagBeforeNotify'
  BY DEF FlagBeforeNotify
<1>9. PaintsAfterNotify'
  BY DEF PaintsAfterNotify
<1>10. EmptyStatusNotPending'
  BY DEF EmptyStatusNotPending
<1>11. QED
  BY <1>1, <1>2, <1>3, <1>4, <1>5, <1>6, <1>7, <1>8, <1>9, <1>10

\* A client that reads its reply: no connection still has a request of it.
LEMMA PeerReceiveStep ==
  ASSUME IInv, NEW p \in Peer, PeerReceive(p)
  PROVE  IInv'
<1> USE DEF IInv, TypeOK, PeerReceive,
             netVars, imageVars, connVars, queueVars
<1>1. TypeOK'
  <2>1. peerState' \in [Peer -> {"idle", "waiting", "bye", "stopped"}]
    OBVIOUS
  <2>2. request' \in [Peer -> Request]
    BY DEF Request
  <2>3. inbox' \in [Peer -> Reply \cup {"none"}]
    OBVIOUS
  <2>4. QED
    BY <2>1, <2>2, <2>3
<1>2. QueueIsPrefix'
  BY DEF QueueIsPrefix
<1>3. ChunksApart'
  BY DEF ChunksApart
<1>4. ChunksKept'
  BY DEF ChunksKept
<1>5. OneUnreadRequest'
  BY DEF OneUnreadRequest, Awaiting, InBacklog, ReadingOn
<1>6. HoldsWhatItWasGiven'
  <2>1. \A q \in Peer : q # p => /\ peerState'[q] = peerState[q]
                               /\ request'[q] = request[q]
                               /\ inbox'[q] = inbox[q]
    OBVIOUS
  <2>2. ~InBacklog(p) /\ \A c \in Conn : ~ReadingOn(c, p)
    BY DEF OneUnreadRequest, Awaiting, InBacklog, ReadingOn
  <2>3. handler.pc = "pixelRequest" => connPeer[handler.c] # p
    BY DEF OneUnreadRequest, Awaiting
  <2>4. peerState'[p] = "idle" => ReturnsWhatItHolds(p)'
    BY DEF HoldsWhatItWasGiven, ReturnsWhatItHolds
  <2>5. peerState'[p] # "waiting"
    OBVIOUS
  <2>6. QED
    BY <2>1, <2>2, <2>3, <2>4, <2>5
    DEF HoldsWhatItWasGiven, ReturnsWhatItHolds, OneUnreadRequest, InBacklog, ReadingOn
<1>7. CountedMeansReturned'
  BY DEF CountedMeansReturned, AllReturned
<1>8. FlagBeforeNotify'
  BY DEF FlagBeforeNotify
<1>9. PaintsAfterNotify'
  BY DEF PaintsAfterNotify
<1>10. EmptyStatusNotPending'
  BY DEF EmptyStatusNotPending
<1>11. QED
  BY <1>1, <1>2, <1>3, <1>4, <1>5, <1>6, <1>7, <1>8, <1>9, <1>10

\* A client that dies keeps its chunk: nothing is requeued.
LEMMA PeerFailStep ==
  ASSUME IInv, NEW p \in Peer, PeerFail(p)
  PROVE  IInv'
<1> USE DEF IInv, TypeOK, PeerFail,
             netVars, imageVars, connVars, queueVars
<1>1. TypeOK'
  BY DEF Request, Reply, Status, NoChunk
<1>2. QueueIsPrefix'
  BY DEF QueueIsPrefix
<1>3. ChunksApart'
  BY DEF ChunksApart
<1>4. ChunksKept'
  BY DEF ChunksKept
<1>5. OneUnreadRequest'
  BY DEF OneUnreadRequest, Awaiting, InBacklog, ReadingOn
<1>6. HoldsWhatItWasGiven'
  BY DEF HoldsWhatItWasGiven, ReturnsWhatItHolds
<1>7. CountedMeansReturned'
  BY DEF CountedMeansReturned, AllReturned
<1>8. FlagBeforeNotify'
  BY DEF FlagBeforeNotify
<1>9. PaintsAfterNotify'
  BY DEF PaintsAfterNotify
<1>10. EmptyStatusNotPending'
  BY DEF EmptyStatusNotPending
<1>11. QED
  BY <1>1, <1>2, <1>3, <1>4, <1>5, <1>6, <1>7, <1>8, <1>9, <1>10

\* An accepted connection takes its client out of the backlog.
LEMMA HandleAcceptStep ==
  ASSUME IInv, NEW c \in Conn, HandleAccept(c)
  PROVE  IInv'
<1> USE DEF IInv, TypeOK, HandleAccept,
             NetworkIdle, Idle, peerVars, queueVars, imageVars
<1>1. TypeOK'
  BY DEF Request, Reply, Status, NoChunk
<1>2. QueueIsPrefix'
  BY DEF QueueIsPrefix
<1>3. ChunksApart'
  BY DEF ChunksApart
<1>4. ChunksKept'
  BY DEF ChunksKept
<1>5. OneUnreadRequest'
  BY DEF OneUnreadRequest, Awaiting, InBacklog, ReadingOn
<1>6. HoldsWhatItWasGiven'
  BY DEF HoldsWhatItWasGiven, ReturnsWhatItHolds, OneUnreadRequest, Awaiting, InBacklog, ReadingOn
<1>7. CountedMeansReturned'
  BY DEF CountedMeansReturned, AllReturned
<1>8. FlagBeforeNotify'
  BY DEF FlagBeforeNotify
<1>9. PaintsAfterNotify'
  BY DEF PaintsAfterNotify
<1>10. EmptyStatusNotPending'
  BY DEF EmptyStatusNotPending
<1>11. QED
  BY <1>1, <1>2, <1>3, <1>4, <1>5, <1>6, <1>7, <1>8, <1>9, <1>10

\* The end of the process changes nothing but "up".
LEMMA StartThrowsStep ==
  ASSUME IInv, StartThrows
  PROVE  IInv'
<1> USE DEF IInv, TypeOK, StartThrows,
             clientVars, peerVars, connVars, queueVars, imageVars
<1>1. TypeOK'
  BY DEF Request, Reply, Status, NoChunk
<1>2. QueueIsPrefix'
  BY DEF QueueIsPrefix
<1>3. ChunksApart'
  BY DEF ChunksApart
<1>4. ChunksKept'
  BY DEF ChunksKept
<1>5. OneUnreadRequest'
  BY DEF OneUnreadRequest, Awaiting, InBacklog, ReadingOn
<1>6. HoldsWhatItWasGiven'
  BY DEF HoldsWhatItWasGiven, ReturnsWhatItHolds
<1>7. CountedMeansReturned'
  BY DEF CountedMeansReturned, AllReturned
<1>8. FlagBeforeNotify'
  BY DEF FlagBeforeNotify
<1>9. PaintsAfterNotify'
  BY DEF PaintsAfterNotify
<1>10. EmptyStatusNotPending'
  BY DEF EmptyStatusNotPending
<1>11. QED
  BY <1>1, <1>2, <1>3, <1>4, <1>5, <1>6, <1>7, <1>8, <1>9, <1>10

\* A failed accept changes nothing but "accepting".
LEMMA HandleAcceptErrorStep ==
  ASSUME IInv, HandleAcceptError
  PROVE  IInv'
<1> USE DEF IInv, TypeOK, HandleAcceptError,
             clientVars, peerVars, connVars, queueVars, imageVars
<1>1. TypeOK'
  BY DEF Request, Reply, Status, NoChunk
<1>2. QueueIsPrefix'
  BY DEF QueueIsPrefix
<1>3. ChunksApart'
  BY DEF ChunksApart
<1>4. ChunksKept'
  BY DEF ChunksKept
<1>5. OneUnreadRequest'
  BY DEF OneUnreadRequest, Awaiting, InBacklog, ReadingOn
<1>6. HoldsWhatItWasGiven'
  BY DEF HoldsWhatItWasGiven, ReturnsWhatItHolds
<1>7. CountedMeansReturned'
  BY DEF CountedMeansReturned, AllReturned
<1>8. FlagBeforeNotify'
  BY DEF FlagBeforeNotify
<1>9. PaintsAfterNotify'
  BY DEF PaintsAfterNotify
<1>10. EmptyStatusNotPending'
  BY DEF EmptyStatusNotPending
<1>11. QED
  BY <1>1, <1>2, <1>3, <1>4, <1>5, <1>6, <1>7, <1>8, <1>9, <1>10

\* A failed read frees the connection.
LEMMA HandleReadErrorStep ==
  ASSUME IInv, NEW c \in Conn, HandleReadError(c)
  PROVE  IInv'
<1> USE DEF IInv, TypeOK, HandleReadError,
             NetworkIdle, Idle, Destroy, clientVars, peerVars, queueVars, imageVars
<1>1. TypeOK'
  BY DEF Request, Reply, Status, NoChunk
<1>2. QueueIsPrefix'
  BY DEF QueueIsPrefix
<1>3. ChunksApart'
  BY DEF ChunksApart
<1>4. ChunksKept'
  BY DEF ChunksKept
<1>5. OneUnreadRequest'
  BY DEF OneUnreadRequest, Awaiting, InBacklog, ReadingOn
<1>6. HoldsWhatItWasGiven'
  BY DEF HoldsWhatItWasGiven, ReturnsWhatItHolds, OneUnreadRequest, Awaiting, InBacklog, ReadingOn
<1>7. CountedMeansReturned'
  BY DEF CountedMeansReturned, AllReturned
<1>8. FlagBeforeNotify'
  BY DEF FlagBeforeNotify
<1>9. PaintsAfterNotify'
  BY DEF PaintsAfterNotify
<1>10. EmptyStatusNotPending'
  BY DEF EmptyStatusNotPending
<1>11. QED
  BY <1>1, <1>2, <1>3, <1>4, <1>5, <1>6, <1>7, <1>8, <1>9, <1>10

\* A late request is answered bye and touches no queue.
LEMMA HandleReadLateStep ==
  ASSUME IInv, NEW c \in Conn, HandleReadLate(c)
  PROVE  IInv'
<1> USE DEF IInv, TypeOK, HandleReadLate,
             NetworkIdle, Idle, HandleBye, Deliver, StartWrite, queueVars, imageVars
<1>1. TypeOK'
  BY DEF Request, Reply, Status, NoChunk
<1>2. QueueIsPrefix'
  BY DEF QueueIsPrefix
<1>3. ChunksApart'
  BY DEF ChunksApart
<1>4. ChunksKept'
  BY DEF ChunksKept
<1>5. OneUnreadRequest'
  BY DEF OneUnreadRequest, Awaiting, InBacklog, ReadingOn
<1>6. HoldsWhatItWasGiven'
  BY DEF HoldsWhatItWasGiven, ReturnsWhatItHolds, OneUnreadRequest, Awaiting, InBacklog, ReadingOn, CountedMeansReturned, AllReturned
<1>7. CountedMeansReturned'
  BY DEF CountedMeansReturned, AllReturned
<1>8. FlagBeforeNotify'
  BY DEF FlagBeforeNotify
<1>9. PaintsAfterNotify'
  BY DEF PaintsAfterNotify
<1>10. EmptyStatusNotPending'
  BY DEF EmptyStatusNotPending
<1>11. QED
  BY <1>1, <1>2, <1>3, <1>4, <1>5, <1>6, <1>7, <1>8, <1>9, <1>10

\* The scene is sent.
LEMMA HandleReadSendSceneStep ==
  ASSUME IInv, NEW c \in Conn, HandleReadSendScene(c)
  PROVE  IInv'
<1> USE DEF IInv, TypeOK, HandleReadSendScene,
             ReadsRequest, NetworkIdle, Idle, Deliver, StartWrite, queueVars, imageVars
<1>1. TypeOK'
  BY DEF Request, Reply, Status, NoChunk
<1>2. QueueIsPrefix'
  BY DEF QueueIsPrefix
<1>3. ChunksApart'
  BY DEF ChunksApart
<1>4. ChunksKept'
  BY DEF ChunksKept
<1>5. OneUnreadRequest'
  BY DEF OneUnreadRequest, Awaiting, InBacklog, ReadingOn
<1>6. HoldsWhatItWasGiven'
  BY DEF HoldsWhatItWasGiven, ReturnsWhatItHolds, OneUnreadRequest, Awaiting, InBacklog, ReadingOn
<1>7. CountedMeansReturned'
  BY DEF CountedMeansReturned, AllReturned
<1>8. FlagBeforeNotify'
  BY DEF FlagBeforeNotify
<1>9. PaintsAfterNotify'
  BY DEF PaintsAfterNotify
<1>10. EmptyStatusNotPending'
  BY DEF EmptyStatusNotPending
<1>11. QED
  BY <1>1, <1>2, <1>3, <1>4, <1>5, <1>6, <1>7, <1>8, <1>9, <1>10

\* A client that has the scene holds nothing yet.
LEMMA HandleReadReceivedSceneStep ==
  ASSUME IInv, NEW c \in Conn, HandleReadReceivedScene(c)
  PROVE  IInv'
<1> USE DEF IInv, TypeOK, HandleReadReceivedScene,
             ReadsRequest, NetworkIdle, Idle, CallHandlePixelRequest, clientVars, peerVars, queueVars, imageVars
<1>1. TypeOK'
  BY DEF Request, Reply, Status, NoChunk
<1>2. QueueIsPrefix'
  BY DEF QueueIsPrefix
<1>3. ChunksApart'
  BY DEF ChunksApart
<1>4. ChunksKept'
  BY DEF ChunksKept
<1>5. OneUnreadRequest'
  BY DEF OneUnreadRequest, Awaiting, InBacklog, ReadingOn
<1>6. HoldsWhatItWasGiven'
  BY DEF HoldsWhatItWasGiven, ReturnsWhatItHolds, OneUnreadRequest, Awaiting, InBacklog, ReadingOn
<1>7. CountedMeansReturned'
  BY DEF CountedMeansReturned, AllReturned
<1>8. FlagBeforeNotify'
  BY DEF FlagBeforeNotify
<1>9. PaintsAfterNotify'
  BY DEF PaintsAfterNotify
<1>10. EmptyStatusNotPending'
  BY DEF EmptyStatusNotPending
<1>11. QED
  BY <1>1, <1>2, <1>3, <1>4, <1>5, <1>6, <1>7, <1>8, <1>9, <1>10

\* The chunk moves from the client to the output queue.
LEMMA HandleReadComputedPixelsStep ==
  ASSUME IInv, NEW c \in Conn, HandleReadComputedPixels(c)
  PROVE  IInv'
<1> USE DEF IInv, TypeOK, HandleReadComputedPixels,
             ReadsRequest, NetworkIdle, Idle, CallHandlePixelRequest, imageVars
<1>1. TypeOK'
  BY DEF Request, Reply, Status, NoChunk, OneUnreadRequest, HoldsWhatItWasGiven, ReturnsWhatItHolds
<1>2. QueueIsPrefix'
  BY DEF QueueIsPrefix
<1>3. ChunksApart'
  BY DEF ChunksApart, QueueIsPrefix, Chunk, NoChunk, OneUnreadRequest, HoldsWhatItWasGiven, ReturnsWhatItHolds
<1>4. ChunksKept'
  <2>1. \A i \in 1 .. Len(outputQueue) :
           \E j \in 1 .. Len(outputQueue') : outputQueue'[j] = outputQueue[i]
    BY LenProperties
  <2>2. outputQueue'[Len(outputQueue')] = held[connPeer[c]] /\ Len(outputQueue') \in 1 .. Len(outputQueue')
    BY LenProperties
  <2>3. \A p \in Peer : held'[p] = held[p] \/ held[p] = held[connPeer[c]]
    OBVIOUS
  <2>4. inputQueue' = inputQueue /\ canvas' = canvas
    OBVIOUS
  <2>5. ChunksKept /\ connPeer[c] \in Peer
    BY DEF OneUnreadRequest
  <2> HIDE DEF IInv, TypeOK, HandleReadComputedPixels
  <2>6. QED
    BY <2>1, <2>2, <2>3, <2>4, <2>5 DEF ChunksKept
<1>5. OneUnreadRequest'
  BY DEF OneUnreadRequest, Awaiting, InBacklog, ReadingOn
<1>6. HoldsWhatItWasGiven'
  BY DEF HoldsWhatItWasGiven, ReturnsWhatItHolds, OneUnreadRequest, Awaiting, InBacklog, ReadingOn
<1>7. CountedMeansReturned'
  BY DEF CountedMeansReturned, AllReturned
<1>8. FlagBeforeNotify'
  BY DEF FlagBeforeNotify
<1>9. PaintsAfterNotify'
  BY DEF PaintsAfterNotify, FlagBeforeNotify
<1>10. EmptyStatusNotPending'
  BY DEF EmptyStatusNotPending
<1>11. QED
  BY <1>1, <1>2, <1>3, <1>4, <1>5, <1>6, <1>7, <1>8, <1>9, <1>10

\* The last chunk of the queue moves to the client.
LEMMA HandlePixelRequestStep ==
  ASSUME IInv, HandlePixelRequest
  PROVE  IInv'
<1> USE DEF IInv, TypeOK, HandlePixelRequest,
             Deliver, StartWrite, Idle, imageVars
<1>a. /\ Len(inputQueue) \in Nat \ {0}
      /\ inputQueue[Len(inputQueue)] \in Chunk
      /\ inputQueue' \in Seq(Chunk)
      /\ Len(inputQueue') = Len(inputQueue) - 1
      /\ \A i \in 1 .. Len(inputQueue) - 1 : inputQueue'[i] = inputQueue[i]
  BY FrontOfSeq
<1>b. inputQueue[Len(inputQueue)] = Len(inputQueue)
  BY <1>a DEF QueueIsPrefix
<1>c. connPeer[handler.c] \in Peer /\ held[connPeer[handler.c]] = NoChunk
  BY DEF OneUnreadRequest, HoldsWhatItWasGiven
<1>1. TypeOK'
  BY <1>a, <1>b, <1>c DEF Request, Reply, Status, NoChunk
<1>2. QueueIsPrefix'
  <2>1. Len(inputQueue) <= NumChunks /\ \A i \in 1 .. Len(inputQueue) : inputQueue[i] = i
    BY DEF QueueIsPrefix
  <2>2. QED
    BY <1>a, <2>1, NumChunksAssumption DEF QueueIsPrefix
<1>3. ChunksApart'
  <2> DEFINE q == connPeer[handler.c]
             k == inputQueue[Len(inputQueue)]
  <2>1. q \in Peer /\ k \in Nat \ {0} /\ k = Len(inputQueue) /\ Len(inputQueue') = k - 1
    BY <1>a, <1>b, <1>c
  <2>2. held' = [held EXCEPT ![q] = k] /\ outputQueue' = outputQueue /\ canvas' = canvas
    OBVIOUS
  <2>3. /\ held \in [Peer -> Nat] /\ canvas \in SUBSET Nat
        /\ \A i \in 1 .. Len(outputQueue) : outputQueue[i] \in Nat
    <3>1. Chunk \subseteq Nat /\ NoChunk \in Nat
      BY DEF Chunk, NoChunk
    <3>2. \A i \in 1 .. Len(outputQueue) : outputQueue[i] \in Chunk
      BY ElementOfSeq
    <3>3. held \in [Peer -> Nat]
      BY <3>1
    <3>4. QED
      BY <3>1, <3>2, <3>3
  <2>4. ChunksApart
    OBVIOUS
  <2> HIDE DEF IInv, TypeOK, HandlePixelRequest, q, k
  <2>5. QED
    BY <2>1, <2>2, <2>3, <2>4 DEF ChunksApart, NoChunk
<1>4. ChunksKept'
  BY <1>a, <1>b, <1>c DEF ChunksKept, QueueIsPrefix, Chunk, NoChunk
<1>5. OneUnreadRequest'
  BY DEF OneUnreadRequest, Awaiting, InBacklog, ReadingOn
<1>6. HoldsWhatItWasGiven'
  <2> DEFINE q == connPeer[handler.c]
  <2>1. /\ q \in Peer /\ held'[q] # NoChunk /\ inputQueue[Len(inputQueue)] # NoChunk
        /\ peerState[q] = "waiting" => inbox'[q] = "pixels_to_process"
    BY <1>a, <1>b, <1>c DEF QueueIsPrefix, NoChunk
  <2>2. \A r \in Peer : r # q => held'[r] = held[r] /\ inbox'[r] = inbox[r]
    BY <1>a, <1>b, <1>c
  <2>3. /\ peerState[q] # "idle" /\ ~InBacklog(q)
        /\ \A d \in Conn : ~ReadingOn(d, q)
    BY DEF OneUnreadRequest, Awaiting
  <2>4. \A d \in Conn : pending'[d] = "read" => pending[d] = "read" /\ connPeer'[d] = connPeer[d]
    OBVIOUS
  <2>5. QED
    BY <2>1, <2>2, <2>3, <2>4
    DEF HoldsWhatItWasGiven, ReturnsWhatItHolds, OneUnreadRequest, Awaiting, InBacklog, ReadingOn
<1>7. CountedMeansReturned'
  BY DEF CountedMeansReturned, AllReturned
<1>8. FlagBeforeNotify'
  BY DEF FlagBeforeNotify
<1>9. PaintsAfterNotify'
  BY DEF PaintsAfterNotify, FlagBeforeNotify
<1>10. EmptyStatusNotPending'
  BY DEF EmptyStatusNotPending
<1>11. QED
  BY <1>1, <1>2, <1>3, <1>4, <1>5, <1>6, <1>7, <1>8, <1>9, <1>10

\* All results are back, so no client holds a chunk when bye is said.
LEMMA HandlePixelRequestDoneStep ==
  ASSUME IInv, HandlePixelRequestDone
  PROVE  IInv'
<1> USE DEF IInv, TypeOK, HandlePixelRequestDone,
             HandleBye, Deliver, StartWrite, queueVars, imageVars, m_NumOfNetworkPackages
<1>1. TypeOK'
  BY DEF Request, Reply, Status, NoChunk
<1>2. QueueIsPrefix'
  BY DEF QueueIsPrefix
<1>3. ChunksApart'
  BY DEF ChunksApart
<1>4. ChunksKept'
  BY DEF ChunksKept
<1>5. OneUnreadRequest'
  BY DEF OneUnreadRequest, Awaiting, InBacklog, ReadingOn
<1>6. HoldsWhatItWasGiven'
  BY DEF HoldsWhatItWasGiven, ReturnsWhatItHolds, OneUnreadRequest, Awaiting, InBacklog, ReadingOn
<1>7. CountedMeansReturned'
  <2>1. ASSUME NEW p \in Peer PROVE held[p] = NoChunk
    BY AllCounted DEF ChunksApart, NoChunk
  <2>2. QED
    BY <2>1 DEF CountedMeansReturned, AllReturned
<1>8. FlagBeforeNotify'
  BY DEF FlagBeforeNotify
<1>9. PaintsAfterNotify'
  BY DEF PaintsAfterNotify, FlagBeforeNotify
<1>10. EmptyStatusNotPending'
  BY DEF EmptyStatusNotPending
<1>11. QED
  BY <1>1, <1>2, <1>3, <1>4, <1>5, <1>6, <1>7, <1>8, <1>9, <1>10

\* A connection dropped in status INPUT_QUEUE_EMPTY is free.
LEMMA HandlePixelRequestEmptyStep ==
  ASSUME IInv, HandlePixelRequestEmpty
  PROVE  IInv'
<1> USE DEF IInv, TypeOK, HandlePixelRequestEmpty,
             Deliver, Destroy, Idle, queueVars, imageVars
<1>1. TypeOK'
  BY DEF Request, Reply, Status, NoChunk
<1>2. QueueIsPrefix'
  BY DEF QueueIsPrefix
<1>3. ChunksApart'
  BY DEF ChunksApart
<1>4. ChunksKept'
  BY DEF ChunksKept
<1>5. OneUnreadRequest'
  BY DEF OneUnreadRequest, Awaiting, InBacklog, ReadingOn
<1>6. HoldsWhatItWasGiven'
  BY DEF HoldsWhatItWasGiven, ReturnsWhatItHolds, OneUnreadRequest, Awaiting, InBacklog, ReadingOn
<1>7. CountedMeansReturned'
  BY DEF CountedMeansReturned, AllReturned
<1>8. FlagBeforeNotify'
  BY DEF FlagBeforeNotify
<1>9. PaintsAfterNotify'
  BY DEF PaintsAfterNotify, FlagBeforeNotify
<1>10. EmptyStatusNotPending'
  BY DEF EmptyStatusNotPending
<1>11. QED
  BY <1>1, <1>2, <1>3, <1>4, <1>5, <1>6, <1>7, <1>8, <1>9, <1>10

\* The flag is set by the handler that has counted the results.
LEMMA SetWorkDoneStep ==
  ASSUME IInv, SetWorkDone
  PROVE  IInv'
<1> USE DEF IInv, TypeOK, SetWorkDone,
             clientVars, peerVars, connVars, queueVars, imageVars
<1>1. TypeOK'
  BY DEF Request, Reply, Status, NoChunk
<1>2. QueueIsPrefix'
  BY DEF QueueIsPrefix
<1>3. ChunksApart'
  BY DEF ChunksApart
<1>4. ChunksKept'
  BY DEF ChunksKept
<1>5. OneUnreadRequest'
  BY DEF OneUnreadRequest, Awaiting, InBacklog, ReadingOn
<1>6. HoldsWhatItWasGiven'
  BY DEF HoldsWhatItWasGiven, ReturnsWhatItHolds
<1>7. CountedMeansReturned'
  BY DEF CountedMeansReturned, AllReturned
<1>8. FlagBeforeNotify'
  BY DEF FlagBeforeNotify
<1>9. PaintsAfterNotify'
  BY DEF PaintsAfterNotify, FlagBeforeNotify
<1>10. EmptyStatusNotPending'
  BY DEF EmptyStatusNotPending
<1>11. QED
  BY <1>1, <1>2, <1>3, <1>4, <1>5, <1>6, <1>7, <1>8, <1>9, <1>10

\* The image thread starts to paint only after the flag is set.
LEMMA NotifyImageThreadStep ==
  ASSUME IInv, NotifyImageThread
  PROVE  IInv'
<1> USE DEF IInv, TypeOK, NotifyImageThread,
             WakeImageThread, Idle, clientVars, peerVars, connVars, queueVars
<1>1. TypeOK'
  BY DEF Request, Reply, Status, NoChunk
<1>2. QueueIsPrefix'
  BY DEF QueueIsPrefix
<1>3. ChunksApart'
  <2>1. CASE imagePc = "waiting"
    BY <2>1 DEF ChunksApart
  <2>2. CASE imagePc # "waiting"
    BY <2>2 DEF ChunksApart
  <2>3. QED
    BY <2>1, <2>2
<1>4. ChunksKept'
  BY DEF ChunksKept, PaintsAfterNotify, FlagBeforeNotify
<1>5. OneUnreadRequest'
  BY DEF OneUnreadRequest, Awaiting, InBacklog, ReadingOn
<1>6. HoldsWhatItWasGiven'
  BY DEF HoldsWhatItWasGiven, ReturnsWhatItHolds
<1>7. CountedMeansReturned'
  BY DEF CountedMeansReturned, AllReturned
<1>8. FlagBeforeNotify'
  BY DEF FlagBeforeNotify
<1>9. PaintsAfterNotify'
  BY DEF PaintsAfterNotify, FlagBeforeNotify
<1>10. EmptyStatusNotPending'
  BY DEF EmptyStatusNotPending
<1>11. QED
  BY <1>1, <1>2, <1>3, <1>4, <1>5, <1>6, <1>7, <1>8, <1>9, <1>10

\* A completed write frees the connection.
LEMMA HandleWriteCompletionStep ==
  ASSUME IInv, NEW c \in Conn, HandleWriteCompletion(c)
  PROVE  IInv'
<1> USE DEF IInv, TypeOK, HandleWriteCompletion,
             NetworkIdle, Idle, Destroy, clientVars, peerVars, queueVars, imageVars
<1>1. TypeOK'
  BY DEF Request, Reply, Status, NoChunk
<1>2. QueueIsPrefix'
  BY DEF QueueIsPrefix
<1>3. ChunksApart'
  BY DEF ChunksApart
<1>4. ChunksKept'
  BY DEF ChunksKept
<1>5. OneUnreadRequest'
  BY DEF OneUnreadRequest, Awaiting, InBacklog, ReadingOn
<1>6. HoldsWhatItWasGiven'
  BY DEF HoldsWhatItWasGiven, ReturnsWhatItHolds, OneUnreadRequest, Awaiting, InBacklog, ReadingOn
<1>7. CountedMeansReturned'
  BY DEF CountedMeansReturned, AllReturned
<1>8. FlagBeforeNotify'
  BY DEF FlagBeforeNotify
<1>9. PaintsAfterNotify'
  BY DEF PaintsAfterNotify
<1>10. EmptyStatusNotPending'
  BY DEF EmptyStatusNotPending
<1>11. QED
  BY <1>1, <1>2, <1>3, <1>4, <1>5, <1>6, <1>7, <1>8, <1>9, <1>10

\* The image thread looks at the flag.
LEMMA CheckWorkDoneStep ==
  ASSUME IInv, CheckWorkDone
  PROVE  IInv'
<1> USE DEF IInv, TypeOK, CheckWorkDone,
             clientVars, peerVars, netVars, connVars, queueVars
<1>1. TypeOK'
  BY DEF Request, Reply, Status, NoChunk
<1>2. QueueIsPrefix'
  BY DEF QueueIsPrefix
<1>3. ChunksApart'
  BY DEF ChunksApart
<1>4. ChunksKept'
  BY DEF ChunksKept
<1>5. OneUnreadRequest'
  BY DEF OneUnreadRequest, Awaiting, InBacklog, ReadingOn
<1>6. HoldsWhatItWasGiven'
  BY DEF HoldsWhatItWasGiven, ReturnsWhatItHolds
<1>7. CountedMeansReturned'
  BY DEF CountedMeansReturned, AllReturned
<1>8. FlagBeforeNotify'
  BY DEF FlagBeforeNotify
<1>9. PaintsAfterNotify'
  BY DEF PaintsAfterNotify
<1>10. EmptyStatusNotPending'
  BY DEF EmptyStatusNotPending
<1>11. QED
  BY <1>1, <1>2, <1>3, <1>4, <1>5, <1>6, <1>7, <1>8, <1>9, <1>10

\* The image thread begins to wait.
LEMMA EnterWaitStep ==
  ASSUME IInv, EnterWait
  PROVE  IInv'
<1> USE DEF IInv, TypeOK, EnterWait,
             clientVars, peerVars, netVars, connVars, queueVars
<1>1. TypeOK'
  BY DEF Request, Reply, Status, NoChunk
<1>2. QueueIsPrefix'
  BY DEF QueueIsPrefix
<1>3. ChunksApart'
  BY DEF ChunksApart
<1>4. ChunksKept'
  BY DEF ChunksKept
<1>5. OneUnreadRequest'
  BY DEF OneUnreadRequest, Awaiting, InBacklog, ReadingOn
<1>6. HoldsWhatItWasGiven'
  BY DEF HoldsWhatItWasGiven, ReturnsWhatItHolds
<1>7. CountedMeansReturned'
  BY DEF CountedMeansReturned, AllReturned
<1>8. FlagBeforeNotify'
  BY DEF FlagBeforeNotify
<1>9. PaintsAfterNotify'
  BY DEF PaintsAfterNotify
<1>10. EmptyStatusNotPending'
  BY DEF EmptyStatusNotPending
<1>11. QED
  BY <1>1, <1>2, <1>3, <1>4, <1>5, <1>6, <1>7, <1>8, <1>9, <1>10

\* A wait that returns for nothing loses results, never duplicates them.
LEMMA SpuriousWakeupStep ==
  ASSUME IInv, SpuriousWakeup
  PROVE  IInv'
<1> USE DEF IInv, TypeOK, SpuriousWakeup,
             WakeImageThread, clientVars, peerVars, netVars, connVars, queueVars
<1>1. TypeOK'
  BY DEF Request, Reply, Status, NoChunk
<1>2. QueueIsPrefix'
  BY DEF QueueIsPrefix
<1>3. ChunksApart'
  BY DEF ChunksApart
<1>4. ChunksKept'
  BY DEF ChunksKept
<1>5. OneUnreadRequest'
  BY DEF OneUnreadRequest, Awaiting, InBacklog, ReadingOn
<1>6. HoldsWhatItWasGiven'
  BY DEF HoldsWhatItWasGiven, ReturnsWhatItHolds
<1>7. CountedMeansReturned'
  BY DEF CountedMeansReturned, AllReturned
<1>8. FlagBeforeNotify'
  BY DEF FlagBeforeNotify
<1>9. PaintsAfterNotify'
  BY DEF PaintsAfterNotify
<1>10. EmptyStatusNotPending'
  BY DEF EmptyStatusNotPending
<1>11. QED
  BY <1>1, <1>2, <1>3, <1>4, <1>5, <1>6, <1>7, <1>8, <1>9, <1>10

\* The last chunk of the output queue moves to the canvas.
LEMMA PaintChunkStep ==
  ASSUME IInv, PaintChunk
  PROVE  IInv'
<1> USE DEF IInv, TypeOK, PaintChunk,
             clientVars, peerVars, connVars
<1>a. /\ Len(outputQueue) \in Nat \ {0}
      /\ outputQueue' \in Seq(Chunk)
      /\ Len(outputQueue') = Len(outputQueue) - 1
      /\ \A i \in 1 .. Len(outputQueue) - 1 : outputQueue'[i] = outputQueue[i]
      /\ outputQueue[Len(outputQueue)] \in Chunk
  BY FrontOfSeq
<1>1. TypeOK'
  BY <1>a
<1>2. QueueIsPrefix'
  BY DEF QueueIsPrefix
<1>3. ChunksApart'
  BY <1>a DEF ChunksApart
<1>4. ChunksKept'
  <2>1. \A i \in 1 .. Len(outputQueue) :
           \/ \E j \in 1 .. Len(outputQueue') : outputQueue'[j] = outputQueue[i]
           \/ outputQueue[i] \in canvas'
    BY <1>a
  <2>2. QED
    BY <2>1 DEF ChunksKept
<1>5. OneUnreadRequest'
  BY DEF OneUnreadRequest, Awaiting, InBacklog, ReadingOn
<1>6. HoldsWhatItWasGiven'
  BY DEF HoldsWhatItWasGiven, ReturnsWhatItHolds
<1>7. CountedMeansReturned'
  BY DEF CountedMeansReturned, AllReturned
<1>8. FlagBeforeNotify'
  BY DEF FlagBeforeNotify
<1>9. PaintsAfterNotify'
  BY <1>a DEF PaintsAfterNotify
<1>10. EmptyStatusNotPending'
  BY DEF EmptyStatusNotPending
<1>11. QED
  BY <1>1, <1>2, <1>3, <1>4, <1>5, <1>6, <1>7, <1>8, <1>9, <1>10

\* The canvas is finished when the output queue is empty.
LEMMA PaintDoneStep ==
  ASSUME IInv, PaintDone
  PROVE  IInv'
<1> USE DEF IInv, TypeOK, PaintDone,
             clientVars, peerVars, netVars, connVars, queueVars
<1>1. TypeOK'
  BY DEF Request, Reply, Status, NoChunk
<1>2. QueueIsPrefix'
  BY DEF QueueIsPrefix
<1>3. ChunksApart'
  BY DEF ChunksApart
<1>4. ChunksKept'
  BY DEF ChunksKept
<1>5. OneUnreadRequest'
  BY DEF OneUnreadRequest, Awaiting, InBacklog, ReadingOn
<1>6. HoldsWhatItWasGiven'
  BY DEF HoldsWhatItWasGiven, ReturnsWhatItHolds
<1>7. CountedMeansReturned'
  BY DEF CountedMeansReturned, AllReturned
<1>8. FlagBeforeNotify'
  BY DEF FlagBeforeNotify
<1>9. PaintsAfterNotify'
  BY DEF PaintsAfterNotify
<1>10. EmptyStatusNotPending'
  BY DEF EmptyStatusNotPending
<1>11. QED
  BY <1>1, <1>2, <1>3, <1>4, <1>5, <1>6, <1>7, <1>8, <1>9, <1>10

\* The canvas is written to a file.
LEMMA CreateImageStep ==
  ASSUME IInv, CreateImage
  PROVE  IInv'
<1> USE DEF IInv, TypeOK, CreateImage,
             clientVars, peerVars, netVars, connVars, queueVars
<1>1. TypeOK'
  BY DEF Request, Reply, Status, NoChunk
<1>2. QueueIsPrefix'
  BY DEF QueueIsPrefix
<1>3. ChunksApart'
  BY DEF ChunksApart
<1>4. ChunksKept'
  BY DEF ChunksKept
<1>5. OneUnreadRequest'
  BY DEF OneUnreadRequest, Awaiting, InBacklog, ReadingOn
<1>6. HoldsWhatItWasGiven'
  BY DEF HoldsWhatItWasGiven, ReturnsWhatItHolds
<1>7. CountedMeansReturned'
  BY DEF CountedMeansReturned, AllReturned
<1>8. FlagBeforeNotify'
  BY DEF FlagBeforeNotify
<1>9. PaintsAfterNotify'
  <2>1. ASSUME "wakeup" \notin Faults PROVE canvas = Chunk
    <3>1. isWorkDone /\ outputQueue = <<>>
      BY <2>1 DEF PaintsAfterNotify
    <3>2. inputQueue = <<>> /\ \A p \in Peer : held[p] = NoChunk
      BY <3>1 DEF CountedMeansReturned, AllReturned
    <3>3. \A k \in Chunk : k \in canvas
      BY <2>1, <3>1, <3>2 DEF ChunksKept, Chunk, NoChunk
    <3>4. QED
      BY <3>3
  <2>2. QED
    BY <2>1 DEF PaintsAfterNotify
<1>10. EmptyStatusNotPending'
  BY DEF EmptyStatusNotPending
<1>11. QED
  BY <1>1, <1>2, <1>3, <1>4, <1>5, <1>6, <1>7, <1>8, <1>9, <1>10

-----------------------------------------------------------------------------
\* The invariant is inductive.
LEMMA NextIInv ==
  ASSUME IInv, [Next]_vars
  PROVE  IInv'
<1>1. ASSUME NEW p \in Peer, PeerSend(p) \/ PeerReceive(p) \/ PeerFail(p)
      PROVE  IInv'
  BY <1>1, PeerSendStep, PeerReceiveStep, PeerFailStep
<1>2. ASSUME NEW c \in Conn,
             \/ HandleAccept(c) \/ HandleReadError(c) \/ HandleReadLate(c)
             \/ HandleReadSendScene(c) \/ HandleReadReceivedScene(c)
             \/ HandleReadComputedPixels(c) \/ HandleWriteCompletion(c)
      PROVE  IInv'
  BY <1>2, HandleAcceptStep, HandleReadErrorStep, HandleReadLateStep,
     HandleReadSendSceneStep, HandleReadReceivedSceneStep,
     HandleReadComputedPixelsStep, HandleWriteCompletionStep
<1>3. CASE \/ HandlePixelRequest \/ HandlePixelRequestDone
           \/ HandlePixelRequestEmpty \/ SetWorkDone \/ NotifyImageThread
  BY <1>3, HandlePixelRequestStep, HandlePixelRequestDoneStep,
     HandlePixelRequestEmptyStep, SetWorkDoneStep, NotifyImageThreadStep
<1>4. CASE ImageThread
  BY <1>4, CheckWorkDoneStep, EnterWaitStep, PaintChunkStep, PaintDoneStep,
     CreateImageStep DEF ImageThread
<1>5. CASE StartThrows \/ HandleAcceptError \/ SpuriousWakeup
  BY <1>5, StartThrowsStep, HandleAcceptErrorStep, SpuriousWakeupStep
<1>6. CASE UNCHANGED vars
  <2> USE <1>6 DEF IInv, vars, clientVars, peerVars, netVars, connVars,
                   queueVars, imageVars
  <2>1. TypeOK'
    BY DEF TypeOK
  <2>2. QueueIsPrefix' /\ ChunksApart' /\ ChunksKept'
    BY DEF QueueIsPrefix, ChunksApart, ChunksKept
  <2>3. OneUnreadRequest' /\ HoldsWhatItWasGiven'
    BY DEF OneUnreadRequest, HoldsWhatItWasGiven, Awaiting, InBacklog,
           ReadingOn, ReturnsWhatItHolds
  <2>4. CountedMeansReturned' /\ FlagBeforeNotify'
    BY DEF CountedMeansReturned, AllReturned, FlagBeforeNotify
  <2>5. PaintsAfterNotify' /\ EmptyStatusNotPending'
    BY DEF PaintsAfterNotify, EmptyStatusNotPending
  <2>6. QED
    BY <2>1, <2>2, <2>3, <2>4, <2>5
<1>7. QED
  BY <1>1, <1>2, <1>3, <1>4, <1>5, <1>6 DEF Next, NetworkThread

\* The invariant holds in every reachable state: from it every property
\* below is read off.
THEOREM IInvHolds == Spec => []IInv
<1>1. Init => IInv
  BY InitIInv
<1>2. IInv /\ [Next]_vars => IInv'
  BY NextIInv
<1>3. QED
  BY <1>1, <1>2, PTL DEF Spec

\* Every variable keeps to its set of values; in particular what HandleRead
\* puts in the output queue is always a chunk.
THEOREM TypeCorrect == Spec => []TypeOK
<1>1. IInv => TypeOK
  BY DEF IInv
<1>2. QED
  BY <1>1, IInvHolds, PTL

\* No chunk is ever in two places or twice in one.
THEOREM NeverDuplicated == Spec => []NoChunkDuplicated
<1>1. IInv => NoChunkDuplicated
  <2> SUFFICES ASSUME IInv PROVE NoChunkDuplicated
    OBVIOUS
  <2>1. /\ Len(inputQueue) \in Nat /\ DOMAIN inputQueue = 1 .. Len(inputQueue)
        /\ Len(outputQueue) \in Nat /\ DOMAIN outputQueue = 1 .. Len(outputQueue)
    BY LenProperties DEF IInv, TypeOK
  <2>2. \A k \in Elements(inputQueue) : k \in Int /\ k <= Len(inputQueue)
    BY <2>1 DEF IInv, QueueIsPrefix, Elements
  <2>3. \A k \in Held \cup Elements(outputQueue) \cup canvas :
           k > Len(inputQueue)
    BY <2>1 DEF IInv, ChunksApart, Held, Elements
  <2>4. Elements(inputQueue) \cap (Held \cup Elements(outputQueue) \cup canvas) = {}
    BY <2>1, <2>2, <2>3
  <2>5. Elements(outputQueue) \cap canvas = {}
    BY <2>1 DEF IInv, ChunksApart, Elements
  <2>6. Held \cap (Elements(outputQueue) \cup canvas) = {}
    BY <2>1 DEF IInv, ChunksApart, Elements, Held
  <2>7. \A i, j \in DOMAIN inputQueue : inputQueue[i] = inputQueue[j] => i = j
    BY <2>1 DEF IInv, QueueIsPrefix
  <2>8. \A i, j \in DOMAIN outputQueue : outputQueue[i] = outputQueue[j] => i = j
    BY <2>1 DEF IInv, ChunksApart
  <2>9. \A p, q \in Peer : held[p] = held[q] => p = q \/ held[p] = NoChunk
    BY DEF IInv, ChunksApart
  <2>10. QED
    BY <2>4, <2>5, <2>6, <2>7, <2>8, <2>9 DEF NoChunkDuplicated
<1>2. QED
  BY <1>1, IInvHolds, PTL

\* Without spurious wakeups no chunk vanishes, whatever clients die.
THEOREM NeverVanishes == Spec => []NoChunkVanishes
<1>1. IInv => NoChunkVanishes
  <2> SUFFICES ASSUME IInv, "wakeup" \notin Faults
               PROVE  Chunk = Elements(inputQueue) \cup Held
                                \cup Elements(outputQueue) \cup canvas
    BY DEF NoChunkVanishes
  <2>1. /\ Len(inputQueue) \in Nat /\ DOMAIN inputQueue = 1 .. Len(inputQueue)
        /\ Len(outputQueue) \in Nat /\ DOMAIN outputQueue = 1 .. Len(outputQueue)
    BY LenProperties DEF IInv, TypeOK
  <2>2. ASSUME NEW k \in Chunk
        PROVE  k \in Elements(inputQueue) \cup Held \cup Elements(outputQueue) \cup canvas
    <3>1. CASE k <= Len(inputQueue)
      BY <2>1, <3>1 DEF IInv, QueueIsPrefix, Elements, Chunk
    <3>2. CASE \E p \in Peer : held[p] = k
      BY <3>2 DEF Held, Chunk, NoChunk
    <3>3. CASE \E i \in 1 .. Len(outputQueue) : outputQueue[i] = k
      BY <2>1, <3>3 DEF Elements
    <3>4. CASE k \in canvas
      BY <3>4
    <3>5. QED
      BY <3>1, <3>2, <3>3, <3>4 DEF IInv, ChunksKept
  <2>3. Elements(inputQueue) \subseteq Chunk /\ Elements(outputQueue) \subseteq Chunk
    BY <2>1, ElementOfSeq DEF IInv, TypeOK, Elements
  <2>4. Held \subseteq Chunk /\ canvas \subseteq Chunk
    BY DEF IInv, TypeOK, Held
  <2>5. QED
    BY <2>2, <2>3, <2>4
<1>2. QED
  BY <1>1, IInvHolds, PTL

\* The work is declared done, and a client sent home, only when every chunk
\* has come back.
THEOREM DoneIsDone == Spec => []WorkDoneMeansAllReturned
<1>1. IInv => WorkDoneMeansAllReturned
  BY DEF IInv, CountedMeansReturned, AllReturned, WorkDoneMeansAllReturned, Held
<1>2. QED
  BY <1>1, IInvHolds, PTL

\* Without spurious wakeups the image thread never empties the output queue
\* while a handler is about to use it, although it takes no mutex.
THEOREM NeverRaces == Spec => []NoOutputQueueRace
<1>1. IInv => NoOutputQueueRace
  BY DEF IInv, PaintsAfterNotify, NoOutputQueueRace
<1>2. QED
  BY <1>1, IInvHolds, PTL

\* Without spurious wakeups a picture that is written is whole.
THEOREM PicturesAreComplete == Spec => []PicturesComplete
<1>1. IInv => PicturesComplete
  BY DEF IInv, PaintsAfterNotify, PicturesComplete
<1>2. QED
  BY <1>1, IInvHolds, PTL

\* The second test of HandleRead for finished work is never reached.
THEOREM EmptyStatusIsNeverRead == Spec => []EmptyStatusIsFinal
<1>1. IInv => EmptyStatusIsFinal
  BY DEF IInv, EmptyStatusNotPending, EmptyStatusIsFinal
<1>2. QED
  BY <1>1, IInvHolds, PTL

\* What the server does to a client's inbox, for the next theorem: only
\* HandlePixelRequest on an exhausted queue ends a socket without a reply.
LEMMA OnlyEmptyDrops ==
  ASSUME IInv, Next, NEW p \in Peer, inbox[p] # "eof", inbox'[p] = "eof"
  PROVE  HandlePixelRequestEmpty /\ p = connPeer[handler.c]
<1> USE DEF IInv, TypeOK
<1>1. ASSUME NEW q \in Peer, PeerSend(q) \/ PeerReceive(q) \/ PeerFail(q)
      PROVE  FALSE
  BY <1>1 DEF PeerSend, PeerReceive, PeerFail
<1>2. ASSUME NEW c \in Conn, HandleReadLate(c) \/ HandleReadSendScene(c)
      PROVE  FALSE
  BY <1>2 DEF HandleReadLate, HandleReadSendScene, HandleBye, Deliver
<1>3. ASSUME NEW c \in Conn,
             \/ HandleAccept(c) \/ HandleReadError(c)
             \/ HandleReadReceivedScene(c) \/ HandleReadComputedPixels(c)
             \/ HandleWriteCompletion(c)
      PROVE  FALSE
  BY <1>3 DEF HandleAccept, HandleReadError, HandleReadReceivedScene,
     HandleReadComputedPixels, HandleWriteCompletion, clientVars, peerVars
<1>4. CASE HandlePixelRequest \/ HandlePixelRequestDone
  BY <1>4 DEF HandlePixelRequest, HandlePixelRequestDone, HandleBye, Deliver
<1>5. CASE SetWorkDone \/ NotifyImageThread \/ StartThrows
           \/ HandleAcceptError \/ SpuriousWakeup \/ ImageThread
  BY <1>5 DEF SetWorkDone, NotifyImageThread, StartThrows, HandleAcceptError,
     SpuriousWakeup, ImageThread, CheckWorkDone, EnterWait, PaintChunk,
     PaintDone, CreateImage, clientVars, peerVars
<1>6. CASE HandlePixelRequestEmpty
  BY <1>6 DEF HandlePixelRequestEmpty, Deliver
<1>7. QED
  BY <1>1, <1>2, <1>3, <1>4, <1>5, <1>6 DEF Next, NetworkThread

\* A client is dropped without an answer only while another one still owes
\* a chunk (no spurious wakeups).
THEOREM DropsAreHarmless == Spec => DroppedOnlyIfOthersWork
<1> DEFINE Harmless ==
      \A p \in Peer :
        ("wakeup" \notin Faults /\ inbox[p] # "eof" /\ inbox'[p] = "eof")
           => \E q \in Peer \ {p} : held[q] # NoChunk
<1>1. ASSUME IInv, Next PROVE Harmless
  <2> SUFFICES ASSUME NEW p \in Peer, "wakeup" \notin Faults,
                      inbox[p] # "eof", inbox'[p] = "eof",
                      \A q \in Peer \ {p} : held[q] = NoChunk
               PROVE  FALSE
    OBVIOUS
  <2>1. HandlePixelRequestEmpty /\ p = connPeer[handler.c]
    BY <1>1, OnlyEmptyDrops
  <2>2. \A q \in Peer : held[q] = NoChunk
    BY <1>1, <2>1 DEF IInv, HoldsWhatItWasGiven, HandlePixelRequestEmpty
  <2>3. canvas = {} /\ inputQueue = <<>>
    BY <1>1, <2>1 DEF IInv, PaintsAfterNotify, HandlePixelRequestEmpty
  <2>4. \A k \in Chunk : \E i \in 1 .. Len(outputQueue) : outputQueue[i] = k
    BY <1>1, <2>2, <2>3 DEF IInv, ChunksKept, Chunk, NoChunk
  <2>5. Len(outputQueue) = NumChunks
    BY <1>1, <2>4, CountsAll DEF IInv
  <2>6. QED
    BY <2>1, <2>5 DEF HandlePixelRequestEmpty, m_NumOfNetworkPackages
<1>2. IInv /\ [Next]_vars => [Harmless]_vars
  BY <1>1
<1>3. QED
  BY <1>2, IInvHolds, PTL DEF Spec, DroppedOnlyIfOthersWork
-----------------------------------------------------------------------------
(* The server implements WorkPool. *)

\* The initial states are initial states of the pool.
LEMMA InitPool == Init => Pool!PoolInit
<1> SUFFICES ASSUME Init PROVE Pool!PoolInit
  OBVIOUS
<1>1. Elements(inputQueue) = Chunk
  BY DEF Init, Elements
<1>2. Held = {}
  BY DEF Init, Held
<1>3. QED
  BY <1>1, <1>2 DEF Init, Pool!PoolInit

\* A step that touches neither the input queue nor a client's chunk nor the
\* flag is invisible to the pool.
LEMMA PoolStutter ==
  ASSUME UNCHANGED <<inputQueue, held, isWorkDone>>
  PROVE  UNCHANGED Pool!poolVars
BY DEF Pool!poolVars, Elements, Held

\* HandleRead of "computed_pixels" is Return of the pool.
LEMMA ReadComputedReturns ==
  ASSUME IInv, NEW c \in Conn, HandleReadComputedPixels(c)
  PROVE  Pool!PoolNext
<1> DEFINE p == connPeer[c]
           k == held[p]
<1>1. p \in Peer /\ k \in Chunk /\ ~isWorkDone /\ k # NoChunk
  BY DEF IInv, TypeOK, OneUnreadRequest, HoldsWhatItWasGiven, ReturnsWhatItHolds,
     HandleReadComputedPixels, ReadsRequest, NetworkIdle
<1>2. /\ held' = [held EXCEPT ![p] = NoChunk]
      /\ inputQueue' = inputQueue /\ isWorkDone' = isWorkDone
  BY DEF HandleReadComputedPixels
<1>3. Held' = Held \ {k} /\ k \in Held
  <2>1. \A q \in Peer : q # p => held[q] # k
    BY <1>1 DEF IInv, ChunksApart
  <2>2. \A q \in Peer : held'[q] = IF q = p THEN NoChunk ELSE held[q]
    BY <1>2 DEF IInv, TypeOK
  <2>3. QED
    BY <1>1, <2>1, <2>2 DEF Held
<1>4. k \notin Elements(inputQueue)
  <2>1. Len(inputQueue) \in Nat /\ DOMAIN inputQueue = 1 .. Len(inputQueue)
    BY LenProperties DEF IInv, TypeOK
  <2>2. k > Len(inputQueue) /\ k \in Nat
    BY <1>1 DEF IInv, ChunksApart, Chunk
  <2>3. QED
    BY <2>1, <2>2 DEF IInv, QueueIsPrefix, Elements
<1>5. Elements(inputQueue)' = Elements(inputQueue)
  BY <1>2 DEF Elements
<1>6. Pool!Return(k)
  BY <1>1, <1>2, <1>3, <1>4, <1>5 DEF Pool!Return
<1>7. QED
  BY <1>1, <1>6 DEF Pool!PoolNext

\* HandlePixelRequest with work left is HandOut of the pool.
LEMMA PixelRequestHandsOut ==
  ASSUME IInv, HandlePixelRequest
  PROVE  Pool!PoolNext
<1> DEFINE q == connPeer[handler.c]
           k == Len(inputQueue)
<1>1. /\ k \in Nat \ {0} /\ inputQueue[k] \in Chunk
      /\ Len(inputQueue') = k - 1 /\ inputQueue' \in Seq(Chunk)
      /\ \A i \in 1 .. k - 1 : inputQueue'[i] = inputQueue[i]
  BY FrontOfSeq DEF IInv, TypeOK, HandlePixelRequest
<1>2. (\A i \in 1 .. k : inputQueue[i] = i) /\ inputQueue[k] = k
  BY <1>1 DEF IInv, QueueIsPrefix
<1>3. q \in Peer /\ held[q] = NoChunk
  BY DEF IInv, OneUnreadRequest, HoldsWhatItWasGiven, HandlePixelRequest
<1>4. held' = [held EXCEPT ![q] = k] /\ isWorkDone' = isWorkDone
  BY <1>1, <1>2 DEF HandlePixelRequest
<1>5. DOMAIN inputQueue = 1 .. k /\ DOMAIN inputQueue' = 1 .. k - 1
  BY <1>1, LenProperties DEF IInv, TypeOK
<1>6. Elements(inputQueue) = 1 .. k /\ Elements(inputQueue)' = 1 .. k - 1
  BY <1>1, <1>2, <1>5 DEF Elements
<1>7. k \in Chunk /\ k # NoChunk
  BY <1>1, <1>2 DEF NoChunk
<1>8. Held' = Held \cup {k}
  <2>1. \A p \in Peer : held'[p] = IF p = q THEN k ELSE held[p]
    BY <1>3, <1>4 DEF IInv, TypeOK
  <2>2. QED
    BY <1>3, <1>7, <2>1 DEF Held
<1>9. Pool!HandOut(k)
  BY <1>1, <1>4, <1>6, <1>7, <1>8 DEF Pool!HandOut
<1>10. QED
  BY <1>7, <1>9 DEF Pool!PoolNext

\* The assignment of m_IsWorkDone is Finish of the pool.
LEMMA SetWorkDoneFinishes ==
  ASSUME IInv, SetWorkDone
  PROVE  Pool!PoolNext
<1>1. AllReturned
  BY DEF IInv, CountedMeansReturned, SetWorkDone
<1>2. Held = {} /\ Elements(inputQueue) = {}
  BY <1>1 DEF AllReturned, Held, Elements
<1>3. UNCHANGED <<inputQueue, held>> /\ isWorkDone' = TRUE
  BY DEF SetWorkDone, clientVars, peerVars, queueVars
<1>4. Held' = Held /\ Elements(inputQueue)' = Elements(inputQueue)
  BY <1>3 DEF Held, Elements
<1>5. QED
  BY <1>2, <1>3, <1>4 DEF Pool!PoolNext, Pool!Finish

\* Every step of the server is a step of the abstract pool of chunks, or
\* invisible to it.
THEOREM ServerImplementsWorkPool == Spec => ImplementsWorkPool
<1>1. ASSUME IInv, [Next]_vars PROVE [Pool!PoolNext]_(Pool!poolVars)
  <2>1. ASSUME NEW p \in Peer, PeerSend(p) \/ PeerReceive(p) \/ PeerFail(p)
        PROVE  UNCHANGED <<inputQueue, held, isWorkDone>>
    BY <2>1 DEF PeerSend, PeerReceive, PeerFail, netVars, queueVars
  <2>2. ASSUME NEW c \in Conn,
               \/ HandleAccept(c) \/ HandleReadError(c) \/ HandleReadLate(c)
               \/ HandleReadSendScene(c) \/ HandleReadReceivedScene(c)
               \/ HandleWriteCompletion(c)
        PROVE  UNCHANGED <<inputQueue, held, isWorkDone>>
    BY <2>2 DEF HandleAccept, HandleReadError, HandleReadLate,
       HandleReadSendScene, HandleReadReceivedScene, HandleWriteCompletion,
       clientVars, peerVars, queueVars
  <2>3. CASE HandlePixelRequestDone \/ HandlePixelRequestEmpty \/ NotifyImageThread
             \/ StartThrows \/ HandleAcceptError \/ SpuriousWakeup
    <3>1. UNCHANGED <<inputQueue, held, isWorkDone>>
      BY <2>3 DEF HandlePixelRequestDone, HandlePixelRequestEmpty,
         NotifyImageThread, StartThrows, HandleAcceptError, SpuriousWakeup,
         clientVars, peerVars, netVars, queueVars
    <3>2. QED
      BY <3>1, PoolStutter
  <2>4. CASE ImageThread
    <3>1. UNCHANGED <<inputQueue, held, isWorkDone>>
      BY <2>4 DEF ImageThread, CheckWorkDone, EnterWait, PaintChunk, PaintDone,
         CreateImage, clientVars, peerVars, netVars, queueVars
    <3>2. QED
      BY <3>1, PoolStutter
  <2>5. CASE UNCHANGED vars
    <3>1. UNCHANGED <<inputQueue, held, isWorkDone>>
      BY <2>5 DEF vars, clientVars, peerVars, netVars, queueVars
    <3>2. QED
      BY <3>1, PoolStutter
  <2>6. QED
    BY <1>1, <2>1, <2>2, <2>3, <2>4, <2>5, PoolStutter, ReadComputedReturns,
       PixelRequestHandsOut, SetWorkDoneFinishes DEF Next, NetworkThread
<1>2. QED
  BY <1>1, InitPool, IInvHolds, PTL DEF Spec, ImplementsWorkPool, Pool!PoolSpec
=============================================================================
