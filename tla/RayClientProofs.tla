-------------------------- MODULE RayClientProofs --------------------------
(***************************************************************************)
(* Proofs about RayClient, for any number of chunks, threads and workers   *)
(* and any faults: a client has one task at a time, it loses no chunk, and *)
(* where it gets stuck it stays stuck.                                     *)
(***************************************************************************)
EXTENDS RayClient, FiniteSetTheorems, TLAPS

Statuses == Busy \cup Failed \cup Usable
Handlers == [pc : HandlerPcs, arg : Nat]

\* The parts of the type invariant that speak of the pool.
PoolTypes ==
  /\ status \in Seq(Statuses)
  /\ withStatus \in Seq(Request \cup {"none"})
  /\ withData \in Seq(Chunk \cup {NoChunk})
  /\ handler \in Seq(Handlers)
  /\ Len(withStatus) = Len(status)
  /\ Len(withData) = Len(status)
  /\ Len(handler) = Len(status)

\* And the others.
OtherTypes ==
  /\ numThreads \in Threads /\ faults \in FaultCases
  /\ inputQueue \in Seq(Chunk) /\ inputBuffer \in Seq(Chunk)
  /\ outputQueue \in Seq(Chunk) /\ outputBuffer \in Seq(Chunk)
  /\ processDone \in BOOLEAN
  /\ inputPc \in InputPcs /\ inputChunk \in Chunk \cup {NoChunk}
  /\ outputPc \in OutputPcs /\ outputWorker \in Worker \cup {NoWorker}
  /\ given \in Chunk \cup {0}
  /\ sent \subseteq Chunk /\ lost \subseteq Chunk

\* The type invariant is these two parts.
LEMMA TypeParts == TypeOK <=> PoolTypes /\ OtherTypes
BY DEF TypeOK, PoolTypes, OtherTypes, Statuses, Handlers

\* The same in the next state.
LEMMA TypePartsNext == PoolTypes' /\ OtherTypes' => TypeOK'
BY DEF TypeOK, PoolTypes, OtherTypes, Statuses, Handlers

\* The pool has as many entries in each of its columns.
PoolShape ==
  /\ Len(status) \in Nat /\ Worker = 1 .. Len(status)
  /\ DOMAIN status = Worker /\ DOMAIN withStatus = Worker
  /\ DOMAIN withData = Worker /\ DOMAIN handler = Worker
  /\ \A w \in Worker :
       /\ status[w] \in Statuses
       /\ withStatus[w] \in Request \cup {"none"}
       /\ withData[w] \in Chunk \cup {NoChunk}
       /\ handler[w] \in Handlers

\* The types give the columns of the pool the same length.
LEMMA PoolIsShaped == PoolTypes => PoolShape
BY DEF PoolTypes, PoolShape, Worker

\* A status word is of one kind.
LEMMA KindsApart ==
  /\ Busy \cap Failed = {} /\ Busy \cap Usable = {} /\ Failed \cap Usable = {}
  /\ "AWAITING_WORK" \in Usable /\ "OK_STATUS" \in Usable
  /\ Usable \subseteq Statuses /\ Busy \subseteq Statuses /\ Failed \subseteq Statuses
BY DEF Busy, Failed, Usable, Statuses

\* Another element in the place of one.
LEMMA Replaced ==
  ASSUME NEW S, NEW s \in Seq(S), NEW n \in DOMAIN s, NEW x \in S
  PROVE  /\ [s EXCEPT ![n] = x] \in Seq(S)
         /\ Len([s EXCEPT ![n] = x]) = Len(s)
         /\ DOMAIN [s EXCEPT ![n] = x] = DOMAIN s
         /\ \A m \in DOMAIN s : [s EXCEPT ![n] = x][m] = IF m = n THEN x ELSE s[m]
OBVIOUS

\* Every element replaced.
LEMMA Mapped ==
  ASSUME NEW S, NEW n \in Nat, NEW f, DOMAIN f = 1 .. n, f = [m \in 1 .. n |-> f[m]],
         \A m \in 1 .. n : f[m] \in S
  PROVE  f \in Seq(S) /\ Len(f) = n
<1>1. f \in [1 .. n -> S]
  OBVIOUS
<1> QED BY <1>1

\* One worker changes, in any of its columns.
PoolStep(w, s, r, d, h) ==
  /\ s \in Statuses /\ r \in Request \cup {"none"}
  /\ d \in Chunk \cup {NoChunk} /\ h \in Handlers
  /\ status' = [status EXCEPT ![w] = s]
  /\ withStatus' = [withStatus EXCEPT ![w] = r]
  /\ withData' = [withData EXCEPT ![w] = d]
  /\ handler' = [handler EXCEPT ![w] = h]

\* Such a step leaves the pool well formed and every other worker alone.
LEMMA PoolUpdate ==
  ASSUME PoolTypes, NEW w \in Worker, NEW s, NEW r, NEW d, NEW h,
         PoolStep(w, s, r, d, h)
  PROVE  /\ PoolTypes' /\ Worker' = Worker
         /\ \A v \in Worker :
              /\ status'[v] = IF v = w THEN s ELSE status[v]
              /\ withData'[v] = IF v = w THEN d ELSE withData[v]
              /\ handler'[v] = IF v = w THEN h ELSE handler[v]
<1>0. PoolShape
  BY PoolIsShaped
<1>1. /\ status' \in Seq(Statuses) /\ Len(status') = Len(status)
      /\ DOMAIN status' = DOMAIN status
      /\ \A v \in Worker : status'[v] = IF v = w THEN s ELSE status[v]
  BY <1>0, Replaced DEF PoolTypes, PoolShape, PoolStep
<1>2. /\ withStatus' \in Seq(Request \cup {"none"})
      /\ Len(withStatus') = Len(withStatus)
  BY <1>0, Replaced DEF PoolTypes, PoolShape, PoolStep
<1>3. /\ withData' \in Seq(Chunk \cup {NoChunk}) /\ Len(withData') = Len(withData)
      /\ \A v \in Worker : withData'[v] = IF v = w THEN d ELSE withData[v]
  BY <1>0, Replaced DEF PoolTypes, PoolShape, PoolStep
<1>4. /\ handler' \in Seq(Handlers) /\ Len(handler') = Len(handler)
      /\ \A v \in Worker : handler'[v] = IF v = w THEN h ELSE handler[v]
  BY <1>0, Replaced DEF PoolTypes, PoolShape, PoolStep
<1>5. Worker' = Worker
  BY <1>1 DEF Worker
<1> QED BY <1>1, <1>2, <1>3, <1>4, <1>5 DEF PoolTypes

\* What does not change changes to what it is.
LEMMA Itself ==
  ASSUME NEW S, NEW s \in Seq(S), NEW n \in DOMAIN s
  PROVE  [s EXCEPT ![n] = s[n]] = s
OBVIOUS

\* Whatever the task is, it is the only one.
LEMMA OnlyTask ==
  ASSUME OneTask, OtherTypes
  PROVE  /\ InnerLength \in 0 .. 1
         /\ InnerLength = 1 => NoRequest /\ NoHandlerActive
         /\ \A w \in Worker : status[w] \in Busy =>
              /\ NoHandlerActive /\ InnerLength = 0
              /\ \A v \in Worker : v # w => status[v] \notin Busy
         /\ \A w \in Worker : handler[w].pc # "none" =>
              /\ NoRequest /\ InnerLength = 0
              /\ \A v \in Worker : v # w => handler[v].pc = "none"
<1>1. /\ Len(inputQueue) \in Nat /\ Len(inputBuffer) \in Nat
      /\ Len(outputQueue) \in Nat /\ Len(outputBuffer) \in Nat
  BY DEF OtherTypes
<1>2. InnerLength \in 0 .. 1
  BY <1>1 DEF OneTask, InnerLength
<1> QED BY <1>2 DEF OneTask, OneRequest, OneHandler, NoRequest, NoHandlerActive

\* The task is with a worker.
LEMMA TaskAtWorker ==
  ASSUME NEW w \in Worker',
         \A v \in Worker' : v # w => status'[v] \notin Busy /\ handler'[v].pc = "none",
         status'[w] \notin Busy \/ handler'[w].pc = "none",
         InnerLength' = 0
  PROVE  OneTask'
BY DEF OneTask, OneRequest, OneHandler, NoRequest, NoHandlerActive

\* The task is a chunk between the workers, or there is none.
LEMMA TaskInside ==
  ASSUME NoRequest', NoHandlerActive', InnerLength' \in 0 .. 1
  PROVE  OneTask'
BY DEF OneTask, OneRequest, OneHandler, NoRequest, NoHandlerActive

\* With two threads nothing but the very first resolve is ever handled.
LEMMA NoThreadLeft ==
  ASSUME IInv, numThreads <= 2, NEW w \in Worker, NEW s,
         HandlerStarts(w, s)
  PROVE  s = "RESOLVING_DNS"
<1> SUFFICES ASSUME s # "RESOLVING_DNS" PROVE FALSE
  OBVIOUS
<1>1. inputPc \notin {"posted", "exited"} /\ outputPc \notin {"posted", "exited"}
  BY DEF HandlerStarts, IInv, TwoThreads
<1>2. Occupied = Cardinality({v \in Worker : handler[v].pc # "none"}) + 1 + 1
  BY <1>1 DEF Occupied
<1>3. IsFiniteSet(Worker)
  BY PoolIsShaped, TypeParts, FS_Interval DEF IInv, PoolShape
<1>4. Cardinality({v \in Worker : handler[v].pc # "none"}) \in Nat
  BY <1>3, FS_Subset, FS_CardinalityType
<1>5. numThreads \in Nat
  BY ThreadsAssumption DEF IInv, TypeOK
<1> QED BY <1>2, <1>4, <1>5 DEF HandlerStarts, ThreadFree

\* A handler of a worker whose request is out: the request goes on, ends, or
\* becomes a reply that is being handled.
RequestMoves(w, s, h) ==
  /\ status[w] \in Busy /\ s \in Statuses /\ h \in Handlers
  /\ status' = [status EXCEPT ![w] = s]
  /\ handler' = [handler EXCEPT ![w] = h]
  /\ s \notin Busy \/ h.pc = "none"
  /\ h.pc # "request" /\ (h.pc = "queueInput" => h.arg \in Chunk)
  /\ UNCHANGED <<machine, withStatus, withData, inputVars, outputVars>>
  /\ processDone' \in BOOLEAN
  /\ processDone' => s \notin Busy /\ h.pc = "none"
  /\ numThreads <= 2 =>
       s \in {"CONNECTING_TO_ENDPOINT", "FAILED_ON_RESOLVE"} /\ ~processDone'
  /\ given' \in Chunk \cup {0} /\ sent' \subseteq Chunk /\ lost' \subseteq Chunk

\* A handler of a request keeps the invariant.
LEMMA RequestMovesInv ==
  ASSUME IInv, NEW w \in Worker, NEW s, NEW h, RequestMoves(w, s, h)
  PROVE  IInv'
<1> USE DEF RequestMoves
<1>0. PoolTypes /\ OtherTypes /\ PoolShape
  BY TypeParts, PoolIsShaped DEF IInv
<1>1. /\ PoolTypes' /\ Worker' = Worker
      /\ \A v \in Worker :
           /\ status'[v] = IF v = w THEN s ELSE status[v]
           /\ handler'[v] = IF v = w THEN h ELSE handler[v]
  <2>1. /\ withStatus = [withStatus EXCEPT ![w] = withStatus[w]]
        /\ withData = [withData EXCEPT ![w] = withData[w]]
    BY <1>0, Itself DEF PoolTypes, PoolShape
  <2>2. withStatus[w] \in Request \cup {"none"} /\ withData[w] \in Chunk \cup {NoChunk}
    BY <1>0 DEF PoolShape
  <2>3. PoolStep(w, s, withStatus[w], withData[w], h)
    BY <2>1, <2>2 DEF PoolStep
  <2> HIDE DEF RequestMoves
  <2> QED BY <2>3, <1>0, PoolUpdate
<1>2. OtherTypes'
  BY <1>0, <1>1 DEF OtherTypes, machine, inputVars, outputVars
<1>3. /\ NoHandlerActive /\ InnerLength = 0
      /\ \A v \in Worker : v # w => status[v] \notin Busy
  BY <1>0, OnlyTask DEF IInv
<1>4. InnerLength' = 0
  BY <1>3 DEF InnerLength, inputVars, outputVars
<1>5. OneTask'
  BY <1>1, <1>3, <1>4, TaskAtWorker DEF NoHandlerActive
<1>6. NothingAfterBye'
  BY <1>1, <1>3, <1>4 DEF NothingAfterBye, NoRequest, NoHandlerActive
<1>7. HandlersHaveArgs'
  BY <1>1, <1>3 DEF HandlersHaveArgs, NoHandlerActive
<1>8. ProcessorsHaveArgs'
  BY <1>1 DEF IInv, ProcessorsHaveArgs, inputVars, outputVars
<1>9. TwoThreads'
  BY <1>1 DEF IInv, TwoThreads, machine, inputVars, outputVars
<1>10. TypeOK'
  BY <1>1, <1>2, TypePartsNext
<1> QED BY <1>5, <1>6, <1>7, <1>8, <1>9, <1>10 DEF IInv

\* What a handler finds when it starts.
LEMMA AtStart ==
  ASSUME IInv, NEW w \in Worker, NEW s \in Busy, HandlerStarts(w, s)
  PROVE  /\ status[w] = s /\ processDone = FALSE
         /\ handler = [handler EXCEPT ![w] = handler[w]]
         /\ handler[w] \in Handlers /\ handler[w].pc = "none"
         /\ withData[w] \in Chunk \cup {NoChunk}
         /\ numThreads <= 2 => s = "RESOLVING_DNS"
         /\ given \in Chunk \cup {0} /\ sent \subseteq Chunk /\ lost \subseteq Chunk
<1>1. PoolTypes /\ OtherTypes /\ PoolShape
  BY TypeParts, PoolIsShaped DEF IInv
<1>2. status[w] = s /\ handler[w].pc = "none"
  BY DEF HandlerStarts
<1>3. processDone = FALSE
  BY <1>1, <1>2 DEF IInv, NothingAfterBye, NoRequest, OtherTypes
<1>4. handler = [handler EXCEPT ![w] = handler[w]]
  BY <1>1, Itself DEF PoolTypes, PoolShape
<1> QED BY <1>1, <1>2, <1>3, <1>4, NoThreadLeft DEF PoolShape, OtherTypes

\* The steps of a request.
LEMMA HandleRequestInv ==
  ASSUME IInv, NEW w \in Worker,
         HandleResolve(w) \/ HandleConnect(w) \/ HandleWriteRequest(w)
  PROVE  IInv'
<1>1. CASE HandleResolve(w)
  <2>1. "RESOLVING_DNS" \in Busy /\ "CONNECTING_TO_ENDPOINT" \in Statuses
    BY DEF Busy, Statuses
  <2>2. RequestMoves(w, "CONNECTING_TO_ENDPOINT", handler[w])
    BY <1>1, <2>1, AtStart DEF HandleResolve, seenVars, RequestMoves
  <2> QED BY <2>2, RequestMovesInv
<1>2. CASE HandleConnect(w)
  <2>1. "CONNECTING_TO_ENDPOINT" \in Busy /\ "WRITING_TO_SOCKET" \in Statuses
    BY DEF Busy, Statuses
  <2>2. RequestMoves(w, "WRITING_TO_SOCKET", handler[w])
    BY <1>2, <2>1, AtStart DEF HandleConnect, seenVars, RequestMoves
  <2> QED BY <2>2, RequestMovesInv
<1>3. CASE HandleWriteRequest(w)
  <2>1. "WRITING_TO_SOCKET" \in Busy /\ "READING_CONTENT" \in Statuses
    BY DEF Busy, Statuses
  <2>2. RequestMoves(w, "READING_CONTENT", handler[w])
    BY <1>3, <2>1, AtStart DEF HandleWriteRequest, RequestMoves
  <2> QED BY <2>2, RequestMovesInv
<1> QED BY <1>1, <1>2, <1>3

\* The error branches.
LEMMA HandleErrorInv ==
  ASSUME IInv, NEW w \in Worker, HandleError(w) \/ HandleReadError(w)
  PROVE  IInv'
<1>1. CASE HandleError(w)
  <2>1. PICK s \in Busy, f \in Failed :
          /\ HandlerStarts(w, s) /\ status' = [status EXCEPT ![w] = f]
          /\ s = "RESOLVING_DNS" => f = "FAILED_ON_RESOLVE"
    BY <1>1 DEF HandleError, Busy, Failed
  <2>2. f \in Statuses /\ f \notin Busy
    BY KindsApart
  <2>3. RequestMoves(w, f, handler[w])
    BY <1>1, <2>1, <2>2, AtStart DEF HandleError, RequestMoves
  <2> QED BY <2>3, RequestMovesInv
<1>2. CASE HandleReadError(w)
  <2>1. "READING_CONTENT" \in Busy /\ "FAILED_ON_READ" \in Statuses
        /\ "FAILED_ON_READ" \notin Busy
    BY DEF Busy, Failed, Statuses
  <2>2. RequestMoves(w, "FAILED_ON_READ", handler[w])
    BY <1>2, <2>1, AtStart DEF HandleReadError, seenVars, RequestMoves
  <2> QED BY <2>2, RequestMovesInv
<1> QED BY <1>1, <1>2

\* The replies.
LEMMA HandleReadInv ==
  ASSUME IInv, NEW w \in Worker,
         HandleReadPixels(w) \/ HandleReadScene(w) \/ HandleReadBye(w)
  PROVE  IInv'
<1>0. "READING_CONTENT" \in Busy /\ "OK_STATUS" \in Statuses
      /\ "OK_STATUS" \notin Busy
  BY DEF Busy, Usable, Statuses
<1>1. CASE HandleReadPixels(w)
  <2>1. /\ HandlerStarts(w, "READING_CONTENT") /\ given < NumChunks
        /\ given \in Chunk \cup {0}
    BY <1>1, <1>0, AtStart DEF HandleReadPixels
  <2>2. given + 1 \in Chunk /\ given + 1 \in Nat
    BY <2>1, NumChunksAssumption DEF Chunk
  <2> DEFINE h == [pc |-> "queueInput", arg |-> given + 1]
  <2>3. h \in Handlers /\ h.pc = "queueInput" /\ h.arg = given + 1
    BY <2>2 DEF Handlers, HandlerPcs
  <2> HIDE DEF h
  <2>4. /\ status' = [status EXCEPT ![w] = "OK_STATUS"]
        /\ handler' = [handler EXCEPT ![w] = h] /\ given' = given + 1
        /\ UNCHANGED <<machine, withStatus, withData, inputVars, outputVars,
                       processDone, sent, lost>>
    BY <1>1 DEF HandleReadPixels, h
  <2>5. RequestMoves(w, "OK_STATUS", h)
    BY <1>0, <2>1, <2>2, <2>3, <2>4, AtStart DEF RequestMoves
  <2> QED BY <2>5, RequestMovesInv
<1>2. CASE HandleReadScene(w)
  <2> DEFINE h == [pc |-> "acquire", arg |-> NoWorker]
  <2>1. h \in Handlers /\ h.pc = "acquire"
    BY DEF Handlers, HandlerPcs, NoWorker
  <2> HIDE DEF h
  <2>2. /\ status' = [status EXCEPT ![w] = "OK_STATUS"]
        /\ handler' = [handler EXCEPT ![w] = h]
        /\ HandlerStarts(w, "READING_CONTENT")
        /\ UNCHANGED <<machine, withStatus, withData, inputVars, outputVars,
                       processDone, given, sent, lost>>
    BY <1>2 DEF HandleReadScene, h, seenVars
  <2>3. RequestMoves(w, "OK_STATUS", h)
    BY <1>0, <2>1, <2>2, AtStart DEF RequestMoves
  <2> QED BY <2>3, RequestMovesInv
<1>3. CASE HandleReadBye(w)
  <2>1. RequestMoves(w, "OK_STATUS", handler[w])
    BY <1>3, <1>0, AtStart DEF HandleReadBye, seenVars, RequestMoves
  <2> QED BY <2>1, RequestMovesInv
<1> QED BY <1>1, <1>2, <1>3

\* A processor moves on and nothing else changes.
ProcessorMoves ==
  /\ UNCHANGED <<machine, poolVars, handler, inputQueue, inputBuffer, inputChunk,
                 outputQueue, outputBuffer, processDone, seenVars>>
  /\ inputPc' \in InputPcs /\ outputPc' \in OutputPcs
  /\ inputPc' = "compute" <=> inputPc = "compute"
  /\ outputWorker' \in Worker \cup {NoWorker}
  /\ outputPc' = "acquired" => outputWorker' \in Worker
  /\ inputPc' = "exited" \/ outputPc' = "exited" =>
       processDone \/ inputPc = "exited" \/ outputPc = "exited"

\* A processor that moves on keeps the invariant.
LEMMA ProcessorMovesInv == ASSUME IInv, ProcessorMoves PROVE IInv'
<1> USE DEF ProcessorMoves
<1>1. /\ Worker' = Worker /\ InnerLength' = InnerLength
      /\ NoRequest' = NoRequest /\ NoHandlerActive' = NoHandlerActive
  BY DEF poolVars, Worker, InnerLength, NoRequest, NoHandlerActive
<1>2. TypeOK'
  BY <1>1, TypePartsNext DEF IInv, TypeOK, PoolTypes, OtherTypes, poolVars, machine,
     seenVars, Statuses, Handlers
<1>3. OneTask' /\ NothingAfterBye'
  BY <1>1 DEF IInv, OneTask, NothingAfterBye, OneRequest, OneHandler, poolVars
<1>4. HandlersHaveArgs' /\ ProcessorsHaveArgs' /\ TwoThreads'
  BY <1>1 DEF IInv, HandlersHaveArgs, ProcessorsHaveArgs, TwoThreads, poolVars,
     machine
<1> HIDE DEF ProcessorMoves
<1> QED BY <1>2, <1>3, <1>4 DEF IInv

\* The steps of AsyncInputProcessor between its queues.
LEMMA InputMovesInv ==
  ASSUME IInv,
         \/ InputStarts \/ InputLocks \/ InputWaits \/ InputExits
         \/ InputSpuriousWakeup \/ InputResumes \/ InputDrained
  PROVE  IInv'
<1>1. /\ inputPc # "compute" /\ inputPc' \in InputPcs \ {"compute"}
      /\ UNCHANGED <<machine, poolVars, handler, outputVars, processDone, seenVars>>
      /\ UNCHANGED <<inputQueue, inputBuffer, inputChunk>>
      /\ inputPc' = "exited" => processDone
  BY DEF InputStarts, InputLocks, InputWaits, InputExits, InputSpuriousWakeup,
     InputResumes, InputDrained, InputStep, InputPcs
<1>2. ProcessorMoves
  BY <1>1 DEF ProcessorMoves, outputVars, IInv, TypeOK, ProcessorsHaveArgs
<1> QED BY <1>2, ProcessorMovesInv

\* The steps of AsyncOutputProcessor that touch neither queue nor pool.
LEMMA OutputMovesInv ==
  ASSUME IInv,
         \/ OutputStarts \/ OutputLocks \/ OutputExits \/ OutputWaits
         \/ OutputSpuriousWakeup \/ OutputResumes \/ OutputFindsNothing
         \/ OutputUnlocks
  PROVE  IInv'
<1>1. /\ outputPc' \in OutputPcs \ {"acquired"}
      /\ UNCHANGED <<machine, inputVars, outputBuffer, processDone, seenVars>>
      /\ UNCHANGED <<poolVars, handler, outputQueue>>
      /\ outputWorker' \in {outputWorker, NoWorker}
      /\ outputPc' = "exited" => processDone
  BY DEF OutputStarts, OutputLocks, OutputExits, OutputWaits, OutputSpuriousWakeup,
     OutputResumes, OutputFindsNothing, OutputUnlocks, OutputStep, OutputPcs
<1>2. ProcessorMoves
  BY <1>1 DEF ProcessorMoves, inputVars, IInv, TypeOK
<1> QED BY <1>2, ProcessorMovesInv

\* FinishNetworkWorkers puts a fresh worker in the place of every failed one.
LEMMA Finishing ==
  ASSUME PoolTypes, FinishNetworkWorkers
  PROVE  /\ status' \in Seq(Statuses) /\ Len(status') = Len(status)
         /\ withStatus' \in Seq(Request \cup {"none"})
         /\ Len(withStatus') = Len(status)
         /\ withData' \in Seq(Chunk \cup {NoChunk}) /\ Len(withData') = Len(status)
         /\ Worker' = Worker
         /\ \A w \in Worker :
              /\ status'[w] = IF status[w] \in Failed THEN "AWAITING_WORK" ELSE status[w]
              /\ status[w] \notin Failed => withData'[w] = withData[w]
<1>0. PoolShape
  BY PoolIsShaped
<1>1. /\ DOMAIN status' = 1 .. Len(status) /\ DOMAIN withStatus' = 1 .. Len(status)
      /\ DOMAIN withData' = 1 .. Len(status)
      /\ status' = [m \in 1 .. Len(status) |-> status'[m]]
      /\ withStatus' = [m \in 1 .. Len(status) |-> withStatus'[m]]
      /\ withData' = [m \in 1 .. Len(status) |-> withData'[m]]
  BY <1>0 DEF FinishNetworkWorkers, PoolShape
<1>2. \A m \in 1 .. Len(status) :
        /\ status'[m] = IF status[m] \in Failed THEN "AWAITING_WORK" ELSE status[m]
        /\ status'[m] \in Statuses /\ withStatus'[m] \in Request \cup {"none"}
        /\ withData'[m] \in Chunk \cup {NoChunk}
        /\ status[m] \notin Failed => withData'[m] = withData[m]
  BY <1>0, KindsApart DEF FinishNetworkWorkers, PoolShape
<1>3. status' \in Seq(Statuses) /\ Len(status') = Len(status)
  BY <1>0, <1>1, <1>2, Mapped DEF PoolShape
<1>4. withStatus' \in Seq(Request \cup {"none"}) /\ Len(withStatus') = Len(status)
  BY <1>0, <1>1, <1>2, Mapped DEF PoolShape
<1>5. withData' \in Seq(Chunk \cup {NoChunk}) /\ Len(withData') = Len(status)
  BY <1>0, <1>1, <1>2, Mapped DEF PoolShape
<1>6. Worker' = Worker
  BY <1>0, <1>1 DEF Worker, PoolShape
<1> QED BY <1>0, <1>2, <1>3, <1>4, <1>5, <1>6 DEF PoolShape

\* A fresh worker joins the pool.
LEMMA Adding ==
  ASSUME PoolTypes, NEW hs, hs \in Seq(Handlers), Len(hs) = Len(status),
         AddWorker(hs)
  PROVE  /\ PoolTypes' /\ Worker' = Worker \cup {Len(status) + 1}
         /\ Len(status) + 1 \notin Worker /\ Len(status) + 1 \in Nat
         /\ status'[Len(status) + 1] = "AWAITING_WORK"
         /\ handler'[Len(status) + 1] = NoHandler
         /\ \A w \in Worker : /\ status'[w] = status[w] /\ withData'[w] = withData[w]
                              /\ handler'[w] = hs[w]
<1>0. PoolShape /\ DOMAIN hs = Worker
  BY PoolIsShaped DEF PoolShape
<1>1. "AWAITING_WORK" \in Statuses /\ NoHandler \in Handlers
      /\ "none" \in Request \cup {"none"} /\ NoChunk \in Chunk \cup {NoChunk}
  BY KindsApart DEF NoHandler, Handlers, HandlerPcs
<1>2. /\ status' = Append(status, "AWAITING_WORK")
      /\ withStatus' = Append(withStatus, "none")
      /\ withData' = Append(withData, NoChunk)
      /\ handler' = Append(hs, NoHandler)
  BY DEF AddWorker
<1>3. PoolTypes'
  BY <1>1, <1>2 DEF PoolTypes
<1>4. Worker' = 1 .. Len(status) + 1
  BY <1>2 DEF Worker, PoolTypes
<1>5. /\ status'[Len(status) + 1] = "AWAITING_WORK"
      /\ handler'[Len(status) + 1] = NoHandler
      /\ \A w \in 1 .. Len(status) :
           /\ status'[w] = status[w] /\ withData'[w] = withData[w]
           /\ handler'[w] = hs[w]
  BY <1>2 DEF PoolTypes
<1> QED BY <1>0, <1>3, <1>4, <1>5 DEF PoolShape

\* Failed workers are replaced, and perhaps one is added: no task begins or ends.
PoolMoves ==
  /\ PoolTypes' /\ Worker \subseteq Worker'
  /\ \A w \in Worker :
       /\ status'[w] = status[w]
            \/ (status[w] \in Failed /\ status'[w] = "AWAITING_WORK")
       /\ handler'[w].pc = "none" <=> handler[w].pc = "none"
       /\ handler'[w].pc = "queueInput" => handler'[w].arg \in Chunk
       /\ handler'[w].pc = "request" => handler'[w].arg \in Worker'
  /\ \A w \in Worker' \ Worker :
       status'[w] = "AWAITING_WORK" /\ handler'[w] = NoHandler
  /\ UNCHANGED <<machine, inputVars, outputQueue, outputBuffer, processDone, seenVars>>
  /\ outputPc' \in OutputPcs /\ (outputPc' = "exited" => outputPc = "exited")
  /\ outputWorker' \in Worker' \cup {NoWorker}
  /\ outputPc' = "acquired" => outputWorker' \in Worker'

\* So does a change of the pool.
LEMMA PoolMovesInv == ASSUME IInv, PoolMoves PROVE IInv'
<1> USE DEF PoolMoves
<1>1. InnerLength' = InnerLength
  BY DEF InnerLength, inputVars
<1>2. \A w \in Worker' :
        /\ status'[w] \in Busy => w \in Worker /\ status[w] \in Busy
        /\ handler'[w].pc # "none" => w \in Worker /\ handler[w].pc # "none"
  BY DEF Busy, NoHandler
<1>3. OneTask' /\ NothingAfterBye'
  BY <1>1, <1>2 DEF IInv, OneTask, NothingAfterBye, OneRequest, OneHandler, NoRequest,
     NoHandlerActive
<1>4. OtherTypes'
  BY TypeParts DEF IInv, OtherTypes, machine, inputVars, seenVars
<1>5. TypeOK'
  BY <1>4, TypePartsNext
<1>6. HandlersHaveArgs'
  BY DEF HandlersHaveArgs, NoHandler
<1>7. ProcessorsHaveArgs'
  BY DEF IInv, ProcessorsHaveArgs, inputVars
<1>8. TwoThreads'
  BY DEF IInv, TwoThreads, machine, inputVars
<1> HIDE DEF PoolMoves
<1> QED BY <1>3, <1>5, <1>6, <1>7, <1>8 DEF IInv

\* SaveScene looks for a worker.
LEMMA SceneAcquiresInv ==
  ASSUME IInv, NEW w \in Worker, SceneAcquires(w) PROVE IInv'
<1>0. PoolTypes /\ OtherTypes /\ PoolShape
  BY TypeParts, PoolIsShaped DEF IInv
<1>1. /\ handler[w].pc = "acquire" /\ FinishNetworkWorkers
      /\ UNCHANGED <<machine, inputVars, outputVars, processDone, seenVars>>
  BY DEF SceneAcquires
<1>2. PICK h \in Handlers :
        /\ handler' = [handler EXCEPT ![w] = h]
        /\ h.pc \in {"request", "create", "acquire"}
        /\ h.pc = "request" => h.arg \in Worker
  <2>1. CASE \E v \in Worker :
               handler' = [handler EXCEPT ![w] = [pc |-> "request", arg |-> v]]
    <3>1. PICK v \in Worker :
            handler' = [handler EXCEPT ![w] = [pc |-> "request", arg |-> v]]
      BY <2>1
    <3>2. v \in Nat
      BY <1>0 DEF PoolShape
    <3>3. [pc |-> "request", arg |-> v] \in Handlers
      BY <3>2 DEF Handlers, HandlerPcs
    <3> QED BY <3>1, <3>3
  <2>2. CASE handler' = [handler EXCEPT ![w].pc =
                           IF RoomInPool THEN "create" ELSE "acquire"]
    <3> DEFINE pc == IF RoomInPool THEN "create" ELSE "acquire"
               h == [handler[w] EXCEPT !.pc = pc]
    <3>1. handler' = [handler EXCEPT ![w] = h]
      BY <2>2
    <3>2. h \in Handlers /\ h.pc = pc /\ pc \in {"create", "acquire"}
      BY <1>0 DEF PoolShape, Handlers, HandlerPcs
    <3> QED BY <3>1, <3>2
  <2> QED BY <2>1, <2>2 DEF SceneAcquires
<1>3. /\ handler' \in Seq(Handlers) /\ Len(handler') = Len(handler)
      /\ \A v \in Worker : handler'[v] = IF v = w THEN h ELSE handler[v]
  BY <1>0, <1>2, Replaced DEF PoolTypes, PoolShape
<1>4. /\ PoolTypes' /\ Worker' = Worker
      /\ \A v \in Worker : status'[v] = IF status[v] \in Failed
                                          THEN "AWAITING_WORK" ELSE status[v]
  BY <1>0, <1>1, <1>3, Finishing DEF PoolTypes
<1>5. PoolMoves
  BY <1>0, <1>1, <1>2, <1>3, <1>4
     DEF PoolMoves, outputVars, IInv, HandlersHaveArgs, ProcessorsHaveArgs, OtherTypes
<1> QED BY <1>5, PoolMovesInv

\* SaveScene adds a worker.
LEMMA SceneCreatesInv ==
  ASSUME IInv, NEW w \in Worker, SceneCreates(w) PROVE IInv'
<1>0. PoolTypes /\ OtherTypes /\ PoolShape
  BY TypeParts, PoolIsShaped DEF IInv
<1> DEFINE h == [pc |-> "request", arg |-> Len(status) + 1]
           hs == [handler EXCEPT ![w] = h]
<1>1. handler[w].pc = "create" /\ AddWorker(hs)
      /\ UNCHANGED <<machine, inputVars, outputVars, processDone, seenVars>>
  BY DEF SceneCreates
<1>2. h \in Handlers /\ h.pc = "request" /\ h.arg = Len(status) + 1
  BY <1>0 DEF Handlers, HandlerPcs, PoolShape
<1>3. /\ hs \in Seq(Handlers) /\ Len(hs) = Len(status)
      /\ \A v \in Worker : hs[v] = IF v = w THEN h ELSE handler[v]
  BY <1>0, <1>2, Replaced DEF PoolTypes, PoolShape
<1> HIDE DEF h, hs
<1>4. PoolMoves
  BY <1>0, <1>1, <1>2, <1>3, Adding
     DEF PoolMoves, outputVars, IInv, HandlersHaveArgs, ProcessorsHaveArgs, OtherTypes
<1> QED BY <1>4, PoolMovesInv

\* TryToAcquireNetworkWorker of the output processor.
LEMMA OutputAcquiresInv ==
  ASSUME IInv, OutputAcquires \/ OutputFindsNone \/ OutputCreates PROVE IInv'
<1>0. PoolTypes /\ OtherTypes /\ PoolShape
  BY TypeParts, PoolIsShaped DEF IInv
<1>1. ASSUME OutputAcquires \/ OutputFindsNone PROVE PoolMoves
  <2>1. /\ FinishNetworkWorkers /\ handler' = handler /\ outputQueue' = outputQueue
        /\ UNCHANGED <<machine, inputVars, outputBuffer, processDone, seenVars>>
        /\ outputPc' \in OutputPcs \ {"exited"}
        /\ outputWorker' \in Worker \cup {NoWorker, outputWorker}
        /\ outputPc' = "acquired" => outputWorker' \in Worker
    BY <1>1 DEF OutputAcquires, OutputFindsNone, OutputStep, OutputPcs
  <2>2. /\ PoolTypes' /\ Worker' = Worker
        /\ \A v \in Worker : status'[v] = IF status[v] \in Failed
                                            THEN "AWAITING_WORK" ELSE status[v]
    BY <1>0, <2>1, Finishing DEF PoolTypes
  <2> QED BY <1>0, <2>1, <2>2 DEF PoolMoves, IInv, HandlersHaveArgs, OtherTypes
<1>2. ASSUME OutputCreates PROVE PoolMoves
  <2>1. /\ AddWorker(handler) /\ outputQueue' = outputQueue
        /\ UNCHANGED <<machine, inputVars, outputBuffer, processDone, seenVars>>
        /\ outputPc' = "acquired" /\ "acquired" \in OutputPcs
        /\ outputWorker' = Len(status) + 1
    BY <1>2 DEF OutputCreates, OutputStep, OutputPcs
  <2>2. handler \in Seq(Handlers) /\ Len(handler) = Len(status)
    BY <1>0 DEF PoolTypes
  <2> QED BY <1>0, <2>1, <2>2, Adding DEF PoolMoves, IInv, HandlersHaveArgs, OtherTypes
<1> QED BY <1>1, <1>2, PoolMovesInv

\* A worker is given a request, by a handler or by the output processor.
Requesting(v, word, data) ==
  /\ v \in Worker /\ word \in Request /\ data \in Chunk \cup {NoChunk}
  /\ AsyncRequest(v, word, data)

\* So does a new request, of a client that had no other.
LEMMA RequestingInv ==
  ASSUME IInv, NEW v, NEW word, NEW data, Requesting(v, word, data),
         NoRequest, NoHandlerActive', ~processDone, ProcessorsHaveArgs',
         handler' \in Seq(Handlers), Len(handler') = Len(handler),
         outputQueue' \in Seq(Chunk), InnerLength' = 0,
         UNCHANGED <<machine, inputVars, outputBuffer, processDone, seenVars>>,
         outputPc' \in OutputPcs, outputPc' = "exited" => outputPc = "exited",
         outputWorker' \in {outputWorker, NoWorker}
  PROVE  IInv'
<1>0. PoolTypes /\ OtherTypes /\ PoolShape
  BY TypeParts, PoolIsShaped DEF IInv
<1>1. /\ "RESOLVING_DNS" \in Statuses
      /\ v \in Worker /\ word \in Request \cup {"none"} /\ data \in Chunk \cup {NoChunk}
      /\ status' = [status EXCEPT ![v] = "RESOLVING_DNS"]
      /\ withStatus' = [withStatus EXCEPT ![v] = word]
      /\ withData' = [withData EXCEPT ![v] = data]
  BY DEF Requesting, AsyncRequest, Statuses, Busy
<1>2. /\ status' \in Seq(Statuses) /\ Len(status') = Len(status)
      /\ DOMAIN status' = DOMAIN status
      /\ \A w \in Worker : status'[w] = IF w = v THEN "RESOLVING_DNS" ELSE status[w]
  BY <1>0, <1>1, Replaced DEF PoolTypes, PoolShape
<1>3. /\ withStatus' \in Seq(Request \cup {"none"})
      /\ Len(withStatus') = Len(withStatus)
  BY <1>0, <1>1, Replaced DEF PoolTypes, PoolShape
<1>4. withData' \in Seq(Chunk \cup {NoChunk}) /\ Len(withData') = Len(withData)
  BY <1>0, <1>1, Replaced DEF PoolTypes, PoolShape
<1>5. PoolTypes' /\ Worker' = Worker
  BY <1>0, <1>2, <1>3, <1>4 DEF PoolTypes, Worker
<1>6. TypeOK'
  <2>1. OtherTypes'
    BY <1>0, <1>5 DEF OtherTypes, machine, inputVars, seenVars
  <2> QED BY <1>5, <2>1, TypePartsNext
<1>7. OneTask'
  BY <1>1, <1>2, <1>5, TaskAtWorker DEF NoRequest, NoHandlerActive
<1>8. NothingAfterBye'
  BY DEF NothingAfterBye
<1>9. HandlersHaveArgs'
  BY DEF HandlersHaveArgs, NoHandlerActive
<1>10. TwoThreads'
  BY <1>1, <1>2, <1>5 DEF IInv, TwoThreads, machine, inputVars
<1> QED BY <1>6, <1>7, <1>8, <1>9, <1>10 DEF IInv

\* SaveScene asks for work, with the worker it found.
LEMMA SceneRequestsInv ==
  ASSUME IInv, NEW w \in Worker, SceneRequests(w) PROVE IInv'
<1>0. PoolTypes /\ OtherTypes /\ PoolShape
  BY TypeParts, PoolIsShaped DEF IInv
<1>1. /\ handler[w].pc = "request"
      /\ AsyncRequest(handler[w].arg, "received_scene", NoChunk)
      /\ handler' = [handler EXCEPT ![w] = NoHandler]
      /\ UNCHANGED <<machine, inputVars, outputVars, processDone, seenVars>>
  BY DEF SceneRequests
<1>2. Requesting(handler[w].arg, "received_scene", NoChunk)
  BY <1>1 DEF IInv, HandlersHaveArgs, Requesting, Request
<1>3. /\ NoRequest /\ InnerLength = 0 /\ ~processDone
      /\ \A v \in Worker : v # w => handler[v].pc = "none"
  BY <1>0, <1>1, OnlyTask DEF IInv, NothingAfterBye, NoHandlerActive
<1>4. NoHandler \in Handlers /\ NoHandler.pc = "none"
  BY DEF NoHandler, Handlers, HandlerPcs
<1>5. /\ handler' \in Seq(Handlers) /\ Len(handler') = Len(handler)
      /\ \A v \in Worker : handler'[v].pc = "none"
  <2>1. \A v \in Worker : handler'[v] = IF v = w THEN NoHandler ELSE handler[v]
    BY <1>0, <1>1, <1>4, Replaced DEF PoolTypes, PoolShape
  <2> QED BY <2>1, <1>0, <1>1, <1>3, <1>4, Replaced DEF PoolTypes, PoolShape
<1>6. Worker' = Worker
  <2>1. handler[w].arg \in Worker
    BY <1>2 DEF Requesting
  <2> QED BY <1>1, <2>1 DEF AsyncRequest, Worker
<1>7. NoHandlerActive'
  BY <1>5, <1>6 DEF NoHandlerActive
<1>8. InnerLength' = 0 /\ ProcessorsHaveArgs'
  BY <1>1, <1>3, <1>6 DEF InnerLength, inputVars, outputVars, IInv, ProcessorsHaveArgs
<1>9. /\ outputQueue' \in Seq(Chunk) /\ outputPc' \in OutputPcs
      /\ outputPc' = outputPc /\ outputWorker' = outputWorker
      /\ UNCHANGED <<machine, inputVars, outputBuffer, processDone, seenVars>>
  BY <1>0, <1>1 DEF outputVars, OtherTypes
<1> QED BY <1>2, <1>3, <1>5, <1>7, <1>8, <1>9, RequestingInv

\* A sum of at most one.
LEMMA AtMostOne ==
  ASSUME NEW a \in Nat, NEW b \in Nat, NEW c \in Nat, NEW d \in Nat,
         NEW e \in {0, 1}, a + b + c + d + e <= 1
  PROVE  /\ a # 0 => a = 1 /\ b = 0 /\ c = 0 /\ d = 0 /\ e = 0
         /\ c # 0 => c = 1 /\ a = 0 /\ b = 0 /\ d = 0 /\ e = 0
         /\ e = 1 => a = 0 /\ b = 0 /\ c = 0 /\ d = 0
         /\ a + b + c + d + e = 0 => a = 0 /\ b = 0 /\ c = 0 /\ d = 0 /\ e = 0
         /\ a # 0 \/ c # 0 \/ e = 1 => a + b + c + d + e = 1
OBVIOUS

\* The queues when what is between the workers is the only task.
LEMMA InnerQueues ==
  ASSUME OtherTypes, OneTask
  PROVE  /\ inputQueue # <<>> => /\ Len(inputQueue) = 1 /\ Len(inputBuffer) = 0
                                 /\ Len(outputQueue) = 0 /\ Len(outputBuffer) = 0
                                 /\ inputPc # "compute" /\ InnerLength = 1
         /\ outputQueue # <<>> => /\ Len(outputQueue) = 1 /\ Len(inputBuffer) = 0
                                  /\ Len(inputQueue) = 0 /\ Len(outputBuffer) = 0
                                  /\ inputPc # "compute" /\ InnerLength = 1
         /\ inputPc = "compute" => /\ Len(inputQueue) = 0 /\ Len(inputBuffer) = 0
                                   /\ Len(outputQueue) = 0 /\ Len(outputBuffer) = 0
                                   /\ InnerLength = 1
         /\ InnerLength = 0 => /\ Len(inputQueue) = 0 /\ Len(inputBuffer) = 0
                               /\ Len(outputQueue) = 0 /\ Len(outputBuffer) = 0
                               /\ inputPc # "compute"
<1>1. /\ Len(inputQueue) \in Nat /\ Len(inputBuffer) \in Nat
      /\ Len(outputQueue) \in Nat /\ Len(outputBuffer) \in Nat
  BY DEF OtherTypes
<1>2. /\ inputQueue # <<>> => Len(inputQueue) # 0
      /\ outputQueue # <<>> => Len(outputQueue) # 0
  BY DEF OtherTypes
<1> DEFINE e == IF inputPc = "compute" THEN 1 ELSE 0
<1>3. e \in {0, 1} /\ (e = 1 <=> inputPc = "compute") /\ (e = 0 <=> inputPc # "compute")
  OBVIOUS
<1>4. InnerLength = Len(inputQueue) + Len(inputBuffer) + Len(outputQueue)
                      + Len(outputBuffer) + e
  BY DEF InnerLength
<1> HIDE DEF e
<1>5. InnerLength <= 1
  BY DEF OneTask
<1> DEFINE a == Len(inputQueue)
           b == Len(inputBuffer)
           c == Len(outputQueue)
           d == Len(outputBuffer)
<1> HIDE DEF a, b, c, d
<1>6. /\ a \in Nat /\ b \in Nat /\ c \in Nat /\ d \in Nat
      /\ InnerLength = a + b + c + d + e /\ InnerLength <= 1
      /\ inputQueue # <<>> => a # 0
      /\ outputQueue # <<>> => c # 0
  BY <1>1, <1>2, <1>4, <1>5 DEF a, b, c, d
<1>7. /\ a # 0 => a = 1 /\ b = 0 /\ c = 0 /\ d = 0 /\ e = 0
      /\ c # 0 => c = 1 /\ a = 0 /\ b = 0 /\ d = 0 /\ e = 0
      /\ e = 1 => a = 0 /\ b = 0 /\ c = 0 /\ d = 0
      /\ InnerLength = 0 => a = 0 /\ b = 0 /\ c = 0 /\ d = 0 /\ e = 0
      /\ a # 0 \/ c # 0 \/ e = 1 => InnerLength = 1
  BY <1>3, <1>6, AtMostOne
<1> QED BY <1>3, <1>6, <1>7 DEF a, b, c, d

\* An empty sequence.
LEMMA EmptySeq == ASSUME NEW S, NEW s \in Seq(S), Len(s) = 0 PROVE s = <<>>
OBVIOUS

\* A sequence of one element, or of none.
LEMMA ShortSeqs ==
  ASSUME NEW S, NEW x \in S
  PROVE  /\ <<x>> \in Seq(S) /\ Len(<<x>>) = 1
         /\ <<>> \in Seq(S) /\ Len(<<>>) = 0
OBVIOUS

\* A chunk in a queue, or in the buffer beside it.
LEMMA OnePlaced ==
  ASSUME NEW S, NEW x \in S, NEW q, NEW b,
         (q = <<x>> /\ b = <<>>) \/ (q = <<>> /\ b = <<x>>)
  PROVE  q \in Seq(S) /\ b \in Seq(S) /\ Len(q) + Len(b) = 1
<1>1. CASE q = <<x>> /\ b = <<>>
  BY <1>1, ShortSeqs
<1>2. CASE q = <<>> /\ b = <<x>>
  BY <1>2, ShortSeqs
<1> QED BY <1>1, <1>2

\* The last element of a sequence.
LEMMA LastElement ==
  ASSUME NEW S, NEW s \in Seq(S), Len(s) = 1 PROVE s[Len(s)] \in S
OBVIOUS

\* A chunk moves between the queues, or comes from the worker w.
ChunkMoves ==
  /\ UNCHANGED <<machine, poolVars, outputWorker, processDone, seenVars>>
  /\ inputQueue' \in Seq(Chunk) /\ inputBuffer' \in Seq(Chunk)
  /\ outputQueue' \in Seq(Chunk) /\ outputBuffer' \in Seq(Chunk)
  /\ inputChunk' \in Chunk \cup {NoChunk}
  /\ inputPc' = "compute" <=> inputChunk' # NoChunk
  /\ inputPc' \in InputPcs /\ (inputPc' = "exited" => inputPc = "exited")
  /\ outputPc' \in OutputPcs /\ (outputPc' \in {"exited", "acquired"} => outputPc' = outputPc)
  /\ NoRequest /\ InnerLength' = 1
  /\ handler' \in Seq(Handlers) /\ Len(handler') = Len(handler) /\ NoHandlerActive'

\* So does a chunk that moves between the queues.
LEMMA ChunkMovesInv == ASSUME IInv, ~processDone, ChunkMoves PROVE IInv'
<1> USE DEF ChunkMoves
<1>0. PoolTypes /\ OtherTypes /\ PoolShape
  BY TypeParts, PoolIsShaped DEF IInv
<1>1. Worker' = Worker /\ NoRequest' = NoRequest
  BY DEF poolVars, Worker, NoRequest
<1>2. TypeOK'
  <2>1. PoolTypes'
    BY <1>0 DEF PoolTypes, poolVars
  <2>2. OtherTypes'
    BY <1>0, <1>1 DEF OtherTypes, machine, seenVars
  <2> QED BY <2>1, <2>2, TypePartsNext
<1>3. OneTask'
  BY <1>1, TaskInside
<1>4. NothingAfterBye' /\ HandlersHaveArgs'
  BY DEF NothingAfterBye, HandlersHaveArgs, NoHandlerActive
<1>5. ProcessorsHaveArgs' /\ TwoThreads'
  BY <1>1 DEF IInv, ProcessorsHaveArgs, TwoThreads, machine, poolVars
<1> HIDE DEF ChunkMoves
<1> QED BY <1>2, <1>3, <1>4, <1>5 DEF IInv

\* QueueInputPixels of the chunk a handler has.
LEMMA HandleReadQueuesInv ==
  ASSUME IInv, NEW w \in Worker, HandleReadQueues(w) PROVE IInv'
<1>0. PoolTypes /\ OtherTypes /\ PoolShape
  BY TypeParts, PoolIsShaped DEF IInv
<1> DEFINE k == handler[w].arg
<1>1. /\ handler[w].pc = "queueInput" /\ QueueInputPixels(k)
      /\ handler' = [handler EXCEPT ![w] = NoHandler]
      /\ UNCHANGED <<machine, poolVars, inputChunk, outputVars, processDone, seenVars>>
  BY DEF HandleReadQueues
<1>2. k \in Chunk
  BY <1>1 DEF IInv, HandlersHaveArgs
<1> HIDE DEF k
<1>3. /\ NoRequest /\ InnerLength = 0 /\ ~processDone
      /\ \A v \in Worker : v # w => handler[v].pc = "none"
  BY <1>0, <1>1, OnlyTask DEF IInv, NothingAfterBye, NoHandlerActive
<1>4. /\ Len(inputQueue) = 0 /\ Len(inputBuffer) = 0 /\ Len(outputQueue) = 0
      /\ Len(outputBuffer) = 0 /\ inputPc # "compute"
  BY <1>0, <1>3, InnerQueues DEF IInv
<1>5. inputQueue = <<>> /\ inputBuffer = <<>>
  BY <1>0, <1>4, EmptySeq DEF OtherTypes
<1>6. /\ \/ inputQueue' = <<k>> /\ inputBuffer' = <<>>
         \/ inputQueue' = <<>> /\ inputBuffer' = <<k>>
      /\ inputPc' \in {"woken", inputPc}
  BY <1>1, <1>5 DEF QueueInputPixels
<1>7. /\ handler' \in Seq(Handlers) /\ Len(handler') = Len(handler)
      /\ \A v \in Worker : handler'[v].pc = "none"
  <2>1. NoHandler \in Handlers /\ NoHandler.pc = "none"
    BY DEF NoHandler, Handlers, HandlerPcs
  <2>2. /\ handler' \in Seq(Handlers) /\ Len(handler') = Len(handler)
        /\ \A v \in Worker : handler'[v] = IF v = w THEN NoHandler ELSE handler[v]
    BY <1>0, <1>1, <2>1, Replaced DEF PoolTypes, PoolShape
  <2> QED BY <2>1, <2>2, <1>3
<1>8. NoHandlerActive'
  BY <1>1, <1>7 DEF NoHandlerActive, Worker, poolVars
<1>9. /\ inputQueue' \in Seq(Chunk) /\ inputBuffer' \in Seq(Chunk)
      /\ Len(inputQueue') + Len(inputBuffer') = 1
  BY <1>2, <1>6, OnePlaced
<1>10. InnerLength' = 1
  <2>1. Len(outputQueue') = 0 /\ Len(outputBuffer') = 0 /\ inputPc' # "compute"
    BY <1>1, <1>4, <1>6 DEF outputVars
  <2>2. Len(inputQueue') \in Nat /\ Len(inputBuffer') \in Nat
    BY <1>9
  <2> QED BY <1>9, <2>1, <2>2 DEF InnerLength
<1>11. /\ inputPc' \in InputPcs /\ (inputPc' = "exited" => inputPc = "exited")
       /\ inputPc' # "compute" /\ inputChunk' = NoChunk
  BY <1>0, <1>1, <1>4, <1>6 DEF OtherTypes, InputPcs, IInv, ProcessorsHaveArgs
<1>12. ChunkMoves
  BY <1>0, <1>1, <1>3, <1>7, <1>8, <1>9, <1>10, <1>11
     DEF ChunkMoves, outputVars, OtherTypes
<1> QED BY <1>3, <1>12, ChunkMovesInv

\* The input processor takes a chunk from its queue.
LEMMA InputTakesChunkInv == ASSUME IInv, InputTakesChunk PROVE IInv'
<1>0. PoolTypes /\ OtherTypes /\ PoolShape
  BY TypeParts, PoolIsShaped DEF IInv
<1>1. /\ inputQueue # <<>> /\ inputPc' = "compute"
      /\ inputChunk' = Head(inputQueue) /\ inputQueue' = Tail(inputQueue)
      /\ UNCHANGED <<inputBuffer, machine, poolVars, handler, outputVars,
                     processDone, seenVars>>
  BY DEF InputTakesChunk, InputStep
<1>2. /\ Len(inputQueue) = 1 /\ Len(inputBuffer) = 0 /\ Len(outputQueue) = 0
      /\ Len(outputBuffer) = 0 /\ InnerLength = 1
  BY <1>0, <1>1, InnerQueues DEF IInv
<1>3. NoRequest /\ NoHandlerActive /\ ~processDone
  BY <1>0, <1>2, OnlyTask DEF IInv, NothingAfterBye
<1>4. inputQueue' \in Seq(Chunk) /\ Len(inputQueue') = 0 /\ inputChunk' \in Chunk
  BY <1>0, <1>1, <1>2 DEF OtherTypes
<1>5. InnerLength' = 1
  BY <1>1, <1>2, <1>4 DEF InnerLength, outputVars
<1>6. inputChunk' # NoChunk /\ inputPc' \in InputPcs /\ inputPc' # "exited"
  BY <1>1, <1>4, NumChunksAssumption DEF Chunk, NoChunk, InputPcs
<1>7. ChunkMoves
  BY <1>0, <1>1, <1>3, <1>4, <1>5, <1>6
     DEF ChunkMoves, outputVars, OtherTypes, PoolTypes, NoHandlerActive, Worker, poolVars
<1> QED BY <1>3, <1>7, ChunkMovesInv

\* QueueOutputPixels.
LEMMA QueueOutputPixelsInv == ASSUME IInv, QueueOutputPixels PROVE IInv'
<1>0. PoolTypes /\ OtherTypes /\ PoolShape
  BY TypeParts, PoolIsShaped DEF IInv
<1>1. /\ inputPc = "compute" /\ inputPc' = "drain" /\ inputChunk' = NoChunk
      /\ UNCHANGED <<machine, poolVars, handler, inputQueue, inputBuffer,
                     outputWorker, processDone, seenVars>>
  BY DEF QueueOutputPixels
<1>2. /\ Len(inputQueue) = 0 /\ Len(inputBuffer) = 0 /\ Len(outputQueue) = 0
      /\ Len(outputBuffer) = 0 /\ InnerLength = 1
  BY <1>0, <1>1, InnerQueues DEF IInv
<1>3. NoRequest /\ NoHandlerActive /\ ~processDone /\ inputChunk \in Chunk
  BY <1>0, <1>1, <1>2, OnlyTask DEF IInv, NothingAfterBye, ProcessorsHaveArgs, OtherTypes
<1>4. outputQueue = <<>> /\ outputBuffer = <<>>
  BY <1>0, <1>2, EmptySeq DEF OtherTypes
<1>5. /\ \/ outputQueue' = <<inputChunk>> /\ outputBuffer' = <<>>
         \/ outputQueue' = <<>> /\ outputBuffer' = <<inputChunk>>
      /\ outputPc' \in {"woken", outputPc}
  BY <1>4 DEF QueueOutputPixels
<1>6. /\ outputQueue' \in Seq(Chunk) /\ outputBuffer' \in Seq(Chunk)
      /\ Len(outputQueue') + Len(outputBuffer') = 1
  BY <1>3, <1>5, OnePlaced
<1>7. InnerLength' = 1
  <2>1. Len(inputQueue') = 0 /\ Len(inputBuffer') = 0 /\ inputPc' # "compute"
    BY <1>1, <1>2
  <2>2. Len(outputQueue') \in Nat /\ Len(outputBuffer') \in Nat
    BY <1>6
  <2> QED BY <1>6, <2>1, <2>2 DEF InnerLength
<1>8. /\ inputPc' \in InputPcs /\ inputPc' # "exited" /\ inputPc' # "compute"
      /\ outputPc' \in OutputPcs
      /\ outputPc' \in {"exited", "acquired"} => outputPc' = outputPc
  BY <1>0, <1>1, <1>5 DEF OtherTypes, InputPcs, OutputPcs
<1>9. ChunkMoves
  BY <1>0, <1>1, <1>3, <1>6, <1>7, <1>8
     DEF ChunkMoves, OtherTypes, PoolTypes, NoHandlerActive, Worker, poolVars
<1> QED BY <1>3, <1>9, ChunkMovesInv

\* The output processor writes a chunk back.
LEMMA OutputSendsInv == ASSUME IInv, OutputSends PROVE IInv'
<1>0. PoolTypes /\ OtherTypes /\ PoolShape
  BY TypeParts, PoolIsShaped DEF IInv
<1> DEFINE k == outputQueue[Len(outputQueue)]
<1>1. /\ outputQueue # <<>> /\ outputPc = "acquired" /\ outputPc' = "unlock"
      /\ AsyncRequest(outputWorker, "computed_pixels", k)
      /\ outputQueue' = SubSeq(outputQueue, 1, Len(outputQueue) - 1)
      /\ outputWorker' = NoWorker
      /\ UNCHANGED <<machine, inputVars, outputBuffer, processDone, seenVars, handler>>
  BY DEF OutputSends, OutputStep
<1>2. /\ Len(inputQueue) = 0 /\ Len(inputBuffer) = 0 /\ Len(outputQueue) = 1
      /\ Len(outputBuffer) = 0 /\ InnerLength = 1 /\ inputPc # "compute"
  BY <1>0, <1>1, InnerQueues DEF IInv
<1>3. k \in Chunk
  BY <1>0, <1>2, LastElement DEF OtherTypes
<1> HIDE DEF k
<1>4. NoRequest /\ NoHandlerActive /\ ~processDone
  BY <1>0, <1>2, OnlyTask DEF IInv, NothingAfterBye
<1>5. Requesting(outputWorker, "computed_pixels", k)
  BY <1>1, <1>3 DEF Requesting, Request, IInv, ProcessorsHaveArgs
<1>6. outputQueue' \in Seq(Chunk) /\ Len(outputQueue') = 0
  BY <1>0, <1>1, <1>2 DEF OtherTypes
<1>7. InnerLength' = 0
  BY <1>1, <1>2, <1>6 DEF InnerLength, inputVars
<1>8. NoHandlerActive' /\ ProcessorsHaveArgs'
  <2>1. outputWorker \in Worker
    BY <1>5 DEF Requesting
  <2>2. Worker' = Worker
    BY <1>1, <2>1 DEF AsyncRequest, Worker
  <2> QED BY <1>1, <1>4, <2>2 DEF NoHandlerActive, ProcessorsHaveArgs, inputVars, IInv
<1>9. /\ handler' \in Seq(Handlers) /\ Len(handler') = Len(handler)
      /\ outputPc' \in OutputPcs /\ outputPc' # "exited"
  BY <1>0, <1>1 DEF PoolTypes, OutputPcs
<1> QED BY <1>1, <1>4, <1>5, <1>6, <1>7, <1>8, <1>9, RequestingInv
-----------------------------------------------------------------------------
\* A step that changes nothing.
LEMMA StutterInv == ASSUME IInv, UNCHANGED vars PROVE IInv'
<1>1. ProcessorMoves
  BY DEF ProcessorMoves, vars, inputVars, outputVars, IInv, TypeOK, ProcessorsHaveArgs
<1> QED BY <1>1, ProcessorMovesInv

\* main leaves the client with one request.
LEMMA InitInv == Init => IInv
<1> SUFFICES ASSUME Init PROVE IInv
  OBVIOUS
<1> USE DEF Init
<1>1. "RESOLVING_DNS" \in Statuses /\ NoHandler \in Handlers /\ NoChunk \in Chunk \cup {NoChunk}
      /\ "send_scene" \in Request \cup {"none"}
  BY DEF Statuses, Busy, NoHandler, Handlers, HandlerPcs, Request
<1>2. /\ status \in Seq(Statuses) /\ withStatus \in Seq(Request \cup {"none"})
      /\ withData \in Seq(Chunk \cup {NoChunk}) /\ handler \in Seq(Handlers)
      /\ Len(status) = 1 /\ Len(withStatus) = 1 /\ Len(withData) = 1
      /\ Len(handler) = 1
  BY <1>1, ShortSeqs
<1>3. Worker = {1} /\ status[1] = "RESOLVING_DNS" /\ handler[1] = NoHandler
  BY DEF Worker
<1>4. /\ inputQueue \in Seq(Chunk) /\ inputBuffer \in Seq(Chunk)
      /\ outputQueue \in Seq(Chunk) /\ outputBuffer \in Seq(Chunk)
      /\ InnerLength = 0
  BY DEF InnerLength
<1>5. TypeOK
  BY <1>2, <1>4, TypeParts DEF PoolTypes, OtherTypes, InputPcs, OutputPcs
<1>6. OneTask /\ NothingAfterBye /\ HandlersHaveArgs /\ ProcessorsHaveArgs /\ TwoThreads
  BY <1>3, <1>4 DEF OneTask, OneRequest, OneHandler, NoRequest, NoHandlerActive,
     NothingAfterBye, HandlersHaveArgs, ProcessorsHaveArgs, TwoThreads, NoHandler
<1> QED BY <1>5, <1>6 DEF IInv

\* The strengthened invariant: whatever the client does, it has one task.
THEOREM IInvHolds == Spec => []IInv
<1>1. ASSUME IInv, [Next]_vars PROVE IInv'
  <2>1. CASE InputThread
    BY <2>1, <1>1, InputMovesInv, InputTakesChunkInv, QueueOutputPixelsInv DEF InputThread
  <2>2. CASE OutputThread
    BY <2>2, <1>1, OutputMovesInv, OutputAcquiresInv, OutputSendsInv DEF OutputThread
  <2>3. CASE NetworkThreads
    BY <2>3, <1>1, HandleRequestInv, HandleErrorInv, HandleReadInv, HandleReadQueuesInv,
       SceneAcquiresInv, SceneCreatesInv, SceneRequestsInv DEF NetworkThreads
  <2>4. CASE \E w \in Worker : HandleError(w)
    BY <2>4, <1>1, HandleErrorInv
  <2>5. CASE InputSpuriousWakeup \/ OutputSpuriousWakeup
    BY <2>5, <1>1, InputMovesInv, OutputMovesInv
  <2>6. CASE UNCHANGED vars
    BY <2>6, <1>1, StutterInv
  <2> QED BY <1>1, <2>1, <2>2, <2>3, <2>4, <2>5, <2>6 DEF Next
<1> QED BY <1>1, InitInv, PTL DEF Spec

\* The type invariant.
THEOREM TypeCorrect == Spec => []TypeOK
<1>1. IInv => TypeOK
  BY DEF IInv
<1> QED BY <1>1, IInvHolds, PTL

\* The client has nothing to do.
Idle == InnerLength = 0 /\ NoRequest /\ NoHandlerActive

\* A set in which any two elements are the same has at most one.
LEMMA AtMostOneElement ==
  ASSUME NEW S, \A x, y \in S : x = y
  PROVE  IsFiniteSet(S) /\ Cardinality(S) \in 0 .. 1 /\ (S = {} <=> Cardinality(S) = 0)
<1>1. CASE S = {}
  BY <1>1, FS_EmptySet
<1>2. CASE S # {}
  <2>1. PICK x \in S : S = {x}
    BY <1>2
  <2>2. IsFiniteSet(S) /\ Cardinality(S) = 1
    BY <2>1, FS_Singleton
  <2> QED BY <1>2, <2>2
<1> QED BY <1>1, <1>2

\* The errands are none or one.
LEMMA CountErrands == IInv => /\ OneErrand
                              /\ Alive <=> ~Idle
<1> SUFFICES ASSUME IInv PROVE OneErrand /\ (Alive <=> ~Idle)
  OBVIOUS
<1> DEFINE B == Cardinality(BusyWorkers)
           A == Cardinality(ActiveHandlers)
<1>1. /\ B \in 0 .. 1 /\ A \in 0 .. 1
      /\ NoRequest <=> B = 0
      /\ NoHandlerActive <=> A = 0
  <2>1. /\ \A v, w \in BusyWorkers : v = w
        /\ \A v, w \in ActiveHandlers : v = w
    BY DEF IInv, OneTask, OneRequest, OneHandler, BusyWorkers, ActiveHandlers
  <2>2. /\ NoRequest <=> BusyWorkers = {}
        /\ NoHandlerActive <=> ActiveHandlers = {}
    BY DEF NoRequest, NoHandlerActive, BusyWorkers, ActiveHandlers
  <2> QED BY <2>1, <2>2, AtMostOneElement
<1>2. OtherTypes
  BY TypeParts DEF IInv
<1>3. /\ Len(inputQueue) \in Nat /\ Len(inputBuffer) \in Nat
      /\ Len(outputQueue) \in Nat /\ Len(outputBuffer) \in Nat
  BY <1>2 DEF OtherTypes
<1>4. InnerLength \in Nat /\ Errands = B + A + InnerLength
  BY <1>1, <1>3 DEF Errands, InnerLength
<1> HIDE DEF A, B
<1>5. /\ B = 0 \/ A = 0
      /\ InnerLength <= 1
      /\ InnerLength = 0 \/ (B = 0 /\ A = 0)
  BY <1>1 DEF IInv, OneTask
<1>6. OneErrand
  BY <1>1, <1>4, <1>5 DEF OneErrand
<1>7. Alive <=> ~Idle
  BY <1>1, <1>4, <1>5 DEF Alive, Idle
<1> QED BY <1>6, <1>7

\* Client.cpp and ChunksManager.cpp: a client has one thing to do at a time, a
\* request that is out, a reply that is being handled or a chunk between them.
THEOREM OneErrandHolds == Spec => []OneErrand
<1>1. IInv => OneErrand
  BY CountErrands
<1> QED BY <1>1, IInvHolds, PTL

-----------------------------------------------------------------------------
\* Client.cpp:282: unless waits return for nothing, "bye" leaves a waiting
\* processor waiting for ever: no handler is left that would notify it.
THEOREM ByeIsNotHeard == Spec => ByeWakesNobody
<1>1. ASSUME IInv, [Next]_vars, processDone, "wakeup" \notin faults
      PROVE  /\ inputPc = "waiting" => inputPc' = "waiting"
             /\ outputPc = "waiting" => outputPc' = "waiting"
  <2>1. OtherTypes /\ NoHandlerActive /\ inputPc # "compute"
    BY <1>1, TypeParts, InnerQueues DEF IInv, NothingAfterBye
  <2>2. CASE InputThread
    BY <2>1, <2>2, <1>1 DEF InputThread, InputStarts, InputLocks, InputWaits, InputExits,
       InputResumes, InputTakesChunk, InputDrained, QueueOutputPixels, InputStep, outputVars
  <2>3. CASE OutputThread
    BY <2>3 DEF OutputThread, OutputStarts, OutputLocks, OutputExits, OutputWaits,
       OutputResumes, OutputAcquires, OutputFindsNone, OutputCreates, OutputSends,
       OutputFindsNothing, OutputUnlocks, OutputStep, inputVars
  <2>4. CASE NetworkThreads
    <3>1. PICK w \in Worker :
            \/ HandleResolve(w) \/ HandleConnect(w) \/ HandleWriteRequest(w)
            \/ HandleReadError(w) \/ HandleReadPixels(w) \/ HandleReadScene(w)
            \/ HandleReadBye(w) \/ HandleReadQueues(w)
            \/ SceneAcquires(w) \/ SceneCreates(w) \/ SceneRequests(w)
      BY <2>4 DEF NetworkThreads
    <3>2. ~HandleReadQueues(w)
      BY <2>1 DEF HandleReadQueues, NoHandlerActive
    <3> QED BY <3>1, <3>2 DEF HandleResolve, HandleConnect, HandleWriteRequest,
              HandleReadError, HandleReadPixels, HandleReadScene, HandleReadBye,
              SceneAcquires, SceneCreates, SceneRequests, inputVars, outputVars
  <2>5. CASE \E w \in Worker : HandleError(w)
    BY <2>5 DEF HandleError, inputVars, outputVars
  <2>6. CASE InputSpuriousWakeup \/ OutputSpuriousWakeup
    BY <2>6, <1>1 DEF InputSpuriousWakeup, OutputSpuriousWakeup
  <2>7. CASE UNCHANGED vars
    BY <2>7 DEF vars, inputVars, outputVars
  <2> QED BY <1>1, <2>2, <2>3, <2>4, <2>5, <2>6, <2>7 DEF Next
<1>2. ASSUME [Next]_vars, ~processDone, processDone' PROVE UNCHANGED <<inputPc, outputPc>>
  <2>1. CASE InputThread
    BY <2>1, <1>2 DEF InputThread, InputStarts, InputLocks, InputWaits, InputExits,
       InputResumes, InputTakesChunk, InputDrained, QueueOutputPixels, InputStep
  <2>2. CASE OutputThread
    BY <2>2, <1>2 DEF OutputThread, OutputStarts, OutputLocks, OutputExits, OutputWaits,
       OutputResumes, OutputAcquires, OutputFindsNone, OutputCreates, OutputSends,
       OutputFindsNothing, OutputUnlocks, OutputStep
  <2>3. CASE NetworkThreads
    <3>1. PICK w \in Worker :
            \/ HandleResolve(w) \/ HandleConnect(w) \/ HandleWriteRequest(w)
            \/ HandleReadError(w) \/ HandleReadPixels(w) \/ HandleReadScene(w)
            \/ HandleReadBye(w) \/ HandleReadQueues(w)
            \/ SceneAcquires(w) \/ SceneCreates(w) \/ SceneRequests(w)
      BY <2>3 DEF NetworkThreads
    <3>2. HandleReadBye(w) \/ UNCHANGED processDone
      BY <3>1 DEF HandleResolve, HandleConnect, HandleWriteRequest,
         HandleReadError, HandleReadPixels, HandleReadScene, HandleReadQueues,
         SceneAcquires, SceneCreates, SceneRequests
    <3> QED BY <3>2, <1>2 DEF HandleReadBye, inputVars, outputVars
  <2>4. CASE \E w \in Worker : HandleError(w)
    BY <2>4, <1>2 DEF HandleError
  <2>5. CASE InputSpuriousWakeup \/ OutputSpuriousWakeup
    BY <2>5, <1>2 DEF InputSpuriousWakeup, OutputSpuriousWakeup, InputStep, OutputStep
  <2>6. CASE UNCHANGED vars
    BY <2>6 DEF vars, inputVars, outputVars
  <2> QED BY <1>2, <2>1, <2>2, <2>3, <2>4, <2>5, <2>6 DEF Next
<1>3. IInv /\ [Next]_vars =>
        ((processDone' /\ "wakeup" \notin faults)
           => /\ inputPc = "waiting" => inputPc' = "waiting"
              /\ outputPc = "waiting" => outputPc' = "waiting")
  BY <1>1, <1>2
<1> QED BY <1>3, IInvHolds, PTL DEF Spec, ByeWakesNobody

\* main.cpp:36: where hardware_concurrency() returns two or less the two
\* processors take every thread and no request is ever written.
THEOREM TwoThreadsNeverWrite == Spec => []TwoThreadsAreTooFew
<1>1. IInv => TwoThreadsAreTooFew
  BY DEF IInv, TwoThreads, TwoThreadsAreTooFew
<1> QED BY <1>1, IInvHolds, PTL

\* ChunksManager.cpp: a chunk that QueueInputPixels left in the buffer stays
\* there: only the next chunk would take it along, and it is the only task.
THEOREM StrandedChunksStay == Spec => StrandedForEver
<1>1. ASSUME IInv, [Next]_vars, inputBuffer # <<>> PROVE inputBuffer' = inputBuffer
  <2>1. NoHandlerActive
    <3>1. Len(inputBuffer) # 0 /\ OtherTypes
      BY <1>1, TypeParts, EmptySeq DEF IInv, OtherTypes
    <3> QED BY <1>1, <3>1, InnerQueues DEF IInv, OneTask
  <2>2. CASE InputThread
    BY <2>2 DEF InputThread, InputStarts, InputLocks, InputWaits, InputExits,
       InputResumes, InputTakesChunk, InputDrained, QueueOutputPixels
  <2>3. CASE OutputThread
    BY <2>3 DEF OutputThread, OutputStarts, OutputLocks, OutputExits, OutputWaits,
       OutputResumes, OutputAcquires, OutputFindsNone, OutputCreates, OutputSends,
       OutputFindsNothing, OutputUnlocks, OutputStep, inputVars
  <2>4. CASE NetworkThreads
    <3>1. PICK w \in Worker :
            \/ HandleResolve(w) \/ HandleConnect(w) \/ HandleWriteRequest(w)
            \/ HandleReadError(w) \/ HandleReadPixels(w) \/ HandleReadScene(w)
            \/ HandleReadBye(w) \/ HandleReadQueues(w)
            \/ SceneAcquires(w) \/ SceneCreates(w) \/ SceneRequests(w)
      BY <2>4 DEF NetworkThreads
    <3>2. ~HandleReadQueues(w)
      BY <2>1 DEF HandleReadQueues, NoHandlerActive
    <3> QED BY <3>1, <3>2 DEF HandleResolve, HandleConnect, HandleWriteRequest,
              HandleReadError, HandleReadPixels, HandleReadScene, HandleReadBye,
              SceneAcquires, SceneCreates, SceneRequests, inputVars
  <2>5. CASE \E w \in Worker : HandleError(w)
    BY <2>5 DEF HandleError, inputVars
  <2>6. CASE InputSpuriousWakeup \/ OutputSpuriousWakeup
    BY <2>6 DEF InputSpuriousWakeup, OutputSpuriousWakeup, OutputStep, inputVars
  <2>7. CASE UNCHANGED vars
    BY <2>7 DEF vars, inputVars
  <2> QED BY <1>1, <2>2, <2>3, <2>4, <2>5, <2>6, <2>7 DEF Next
<1> QED BY <1>1, IInvHolds, PTL DEF Spec, StrandedForEver

-----------------------------------------------------------------------------
\* The statuses of a request that is not yet written.
Sending == {"RESOLVING_DNS", "CONNECTING_TO_ENDPOINT", "WRITING_TO_SOCKET"}

\* The chunk of the only task there is.
TaskChunk ==
  /\ \A w \in Worker : status[w] \in Busy =>
       Inside = IF status[w] \in Sending THEN {withData[w]} \ {NoChunk} ELSE {}
  /\ \A w \in Worker : handler[w].pc # "none" =>
       Inside = IF handler[w].pc = "queueInput" THEN {handler[w].arg} ELSE {}
  /\ NoRequest /\ NoHandlerActive =>
       Inside = Elements(inputQueue) \cup Elements(inputBuffer)
                  \cup Elements(outputQueue) \cup Elements(outputBuffer)
                  \cup ({inputChunk} \ {NoChunk})

\* An empty queue holds nothing.
LEMMA NoElements == ASSUME NEW S, NEW s \in Seq(S), Len(s) = 0 PROVE Elements(s) = {}
BY DEF Elements

\* Inside is the chunk of the task.
LEMMA InsideIsTask == IInv => TaskChunk
<1> SUFFICES ASSUME IInv PROVE TaskChunk
  OBVIOUS
<1>0. PoolTypes /\ OtherTypes /\ PoolShape
  BY TypeParts, PoolIsShaped DEF IInv
<1>1. ASSUME InnerLength = 0
      PROVE  Inside = Outgoing \cup Incoming
  <2>1. /\ Elements(inputQueue) = {} /\ Elements(inputBuffer) = {}
        /\ Elements(outputQueue) = {} /\ Elements(outputBuffer) = {}
        /\ inputPc # "compute"
    BY <1>0, <1>1, InnerQueues, NoElements DEF IInv, OtherTypes
  <2>2. inputChunk = NoChunk
    BY <2>1 DEF IInv, ProcessorsHaveArgs
  <2> QED BY <2>1, <2>2 DEF Inside
<1>2. Sending \subseteq Busy
  BY DEF Sending, Busy
<1>3. Outgoing = {withData[w] : w \in {v \in Worker : status[v] \in Sending}} \ {NoChunk}
  BY DEF Outgoing, Sending
<1>4. NoHandlerActive => Incoming = {}
  BY DEF NoHandlerActive, Incoming
<1>5. NoRequest => Outgoing = {}
  BY <1>2, <1>3 DEF NoRequest
<1>6. ASSUME NEW w \in Worker, status[w] \in Busy
      PROVE  Inside = IF status[w] \in Sending THEN {withData[w]} \ {NoChunk} ELSE {}
  <2>1. /\ NoHandlerActive /\ InnerLength = 0
        /\ \A v \in Worker : v # w => status[v] \notin Busy
    BY <1>0, <1>6, OnlyTask DEF IInv
  <2>2. {v \in Worker : status[v] \in Sending} =
          IF status[w] \in Sending THEN {w} ELSE {}
    BY <1>2, <2>1
  <2>3. Outgoing = IF status[w] \in Sending THEN {withData[w]} \ {NoChunk} ELSE {}
    BY <1>3, <2>2
  <2> QED BY <1>1, <1>4, <2>1, <2>3
<1>7. ASSUME NEW w \in Worker, handler[w].pc # "none"
      PROVE  Inside = IF handler[w].pc = "queueInput" THEN {handler[w].arg} ELSE {}
  <2>1. /\ NoRequest /\ InnerLength = 0
        /\ \A v \in Worker : v # w => handler[v].pc = "none"
    BY <1>0, <1>7, OnlyTask DEF IInv
  <2>2. {v \in Worker : handler[v].pc = "queueInput"} =
          IF handler[w].pc = "queueInput" THEN {w} ELSE {}
    BY <2>1
  <2>3. Incoming = IF handler[w].pc = "queueInput" THEN {handler[w].arg} ELSE {}
    BY <2>2 DEF Incoming
  <2> QED BY <1>1, <1>5, <2>1, <2>3
<1> QED BY <1>4, <1>5, <1>6, <1>7 DEF TaskChunk, Inside

\* Nothing is inside a client without a task.
LEMMA NothingInside == IInv /\ Idle => Inside = {}
<1> SUFFICES ASSUME IInv, Idle PROVE Inside = {}
  OBVIOUS
<1> USE DEF Idle
<1>1. OtherTypes
  BY TypeParts DEF IInv
<1>2. /\ Elements(inputQueue) = {} /\ Elements(inputBuffer) = {}
      /\ Elements(outputQueue) = {} /\ Elements(outputBuffer) = {}
      /\ inputPc # "compute"
  BY <1>1, InnerQueues, NoElements DEF IInv, OtherTypes
<1>3. inputChunk = NoChunk
  BY <1>2 DEF IInv, ProcessorsHaveArgs
<1> QED BY <1>2, <1>3, InsideIsTask DEF TaskChunk

\* The same in the next state.
LEMMA InsideNext == (IInv => TaskChunk)' /\ (IInv /\ Idle => Inside = {})'
BY InsideIsTask, NothingInside, PTL

\* A chunk that stays inside stays accounted for.
LEMMA StaysInside ==
  ASSUME ChunksAccountedFor, Inside' = Inside, UNCHANGED seenVars
  PROVE  ChunksAccountedFor'
BY DEF ChunksAccountedFor, seenVars

\* A step of a worker's request or of its handler, seen from the worker.
LEMMA WorkerChanges ==
  ASSUME PoolTypes, NEW w \in Worker, NEW s, NEW h,
         status' = [status EXCEPT ![w] = s], handler' = [handler EXCEPT ![w] = h]
  PROVE  /\ Worker' = Worker /\ status'[w] = s /\ handler'[w] = h
         /\ \A v \in Worker : v # w => /\ status'[v] = status[v]
                                      /\ handler'[v] = handler[v]
BY PoolIsShaped DEF PoolShape, Worker

\* HandleResolve, HandleConnect and HandleWriteRequest: the chunk goes on, or
\* is written.
LEMMA RequestKeepsChunks ==
  ASSUME IInv, IInv', ChunksAccountedFor, NEW w \in Worker,
         HandleResolve(w) \/ HandleConnect(w) \/ HandleWriteRequest(w)
  PROVE  ChunksAccountedFor'
<1>0. PoolTypes
  BY TypeParts DEF IInv
<1>1. PICK s \in Sending, t \in Busy :
        /\ status[w] = s /\ status' = [status EXCEPT ![w] = t]
        /\ withData' = withData /\ handler' = handler
        /\ \/ t \in Sending /\ UNCHANGED seenVars
           \/ /\ t \notin Sending /\ given' = given /\ lost' = lost
              /\ sent' = sent \cup ({withData[w]} \ {NoChunk})
  BY DEF HandleResolve, HandleConnect, HandleWriteRequest, HandlerStarts, Sending,
     Busy, seenVars
<1>2. w \in Worker' /\ status'[w] = t
  BY <1>0, <1>1, PoolIsShaped DEF PoolShape, Worker
<1>3. Inside = {withData[w]} \ {NoChunk}
  BY <1>1, InsideIsTask DEF TaskChunk, Sending, Busy
<1>4. Inside' = IF t \in Sending THEN {withData[w]} \ {NoChunk} ELSE {}
  BY <1>1, <1>2, InsideNext DEF TaskChunk
<1>5. CASE t \in Sending
  BY <1>1, <1>3, <1>4, <1>5, StaysInside
<1>6. CASE t \notin Sending
  <2>1. /\ Inside' = {} /\ given' = given /\ lost' = lost /\ sent' = sent \cup Inside
    BY <1>1, <1>3, <1>4, <1>6 DEF seenVars
  <2> QED BY <2>1 DEF ChunksAccountedFor
<1> QED BY <1>5, <1>6

\* A request that fails before it is written takes its chunk along.
LEMMA ErrorKeepsChunks ==
  ASSUME IInv, IInv', ChunksAccountedFor, NEW w \in Worker,
         HandleError(w) \/ HandleReadError(w)
  PROVE  ChunksAccountedFor'
<1>0. PoolTypes /\ OtherTypes
  BY TypeParts DEF IInv
<1>1. PICK s \in Busy, f \in Failed :
        /\ status[w] = s /\ status' = [status EXCEPT ![w] = f]
        /\ handler' = handler /\ UNCHANGED <<inputVars, outputVars>>
        /\ given' = given /\ sent' = sent
        /\ \/ s \in Sending /\ lost' = lost \cup ({withData[w]} \ {NoChunk})
           \/ s \notin Sending /\ lost' = lost
  BY DEF HandleError, HandleReadError, HandlerStarts, Sending, Busy, Failed, seenVars
<1>2. /\ Worker' = Worker /\ status'[w] = f
      /\ \A v \in Worker : v # w => status'[v] = status[v]
  BY <1>0, <1>1, PoolIsShaped DEF PoolShape, Worker
<1>3. Inside = IF s \in Sending THEN {withData[w]} \ {NoChunk} ELSE {}
  BY <1>1, InsideIsTask DEF TaskChunk
<1>4. Idle'
  <2>1. /\ NoHandlerActive /\ InnerLength = 0
        /\ \A v \in Worker : v # w => status[v] \notin Busy
    BY <1>0, <1>1, OnlyTask DEF IInv
  <2>2. NoRequest' /\ NoHandlerActive'
    BY <1>1, <1>2, <2>1, KindsApart DEF NoRequest, NoHandlerActive
  <2> QED BY <1>1, <2>1, <2>2 DEF Idle, InnerLength, inputVars, outputVars
<1>5. Inside' = {} /\ lost' = lost \cup Inside
  BY <1>1, <1>3, <1>4, InsideNext
<1> QED BY <1>1, <1>5 DEF ChunksAccountedFor

\* A reply brings a new chunk, the scene or nothing.
LEMMA ReadKeepsChunks ==
  ASSUME IInv, IInv', ChunksAccountedFor, NEW w \in Worker,
         HandleReadPixels(w) \/ HandleReadScene(w) \/ HandleReadBye(w)
  PROVE  ChunksAccountedFor'
<1>0. PoolTypes /\ OtherTypes /\ PoolShape
  BY TypeParts, PoolIsShaped DEF IInv
<1>1. /\ status[w] = "READING_CONTENT" /\ "READING_CONTENT" \in Busy \ Sending
      /\ handler[w].pc = "none"
      /\ status' = [status EXCEPT ![w] = "OK_STATUS"] /\ "OK_STATUS" \notin Busy
      /\ UNCHANGED <<inputVars, outputVars>>
  BY DEF HandleReadPixels, HandleReadScene, HandleReadBye, HandlerStarts, Sending,
     Busy
<1>2. Inside = {}
  BY <1>1, InsideIsTask DEF TaskChunk
<1>3. CASE HandleReadPixels(w)
  <2> DEFINE h == [pc |-> "queueInput", arg |-> given + 1]
  <2>1. /\ handler' = [handler EXCEPT ![w] = h] /\ given' = given + 1
        /\ sent' = sent /\ lost' = lost
    BY <1>3 DEF HandleReadPixels
  <2>2. w \in Worker' /\ handler'[w] = h
    BY <1>0, <1>1, <2>1, WorkerChanges
  <2>3. Inside' = {given + 1}
    BY <2>2, InsideNext DEF TaskChunk
  <2>4. given \in Nat
    BY <1>0, NumChunksAssumption DEF OtherTypes, Chunk
  <2>5. 1 .. given + 1 = (1 .. given) \cup {given + 1} /\ given + 1 \notin 1 .. given
    BY <2>4
  <2>6. sent \cup lost = 1 .. given
    BY <1>2 DEF ChunksAccountedFor
  <2> QED BY <2>1, <2>3, <2>5, <2>6 DEF ChunksAccountedFor
<1>4. CASE HandleReadScene(w)
  <2> DEFINE h == [pc |-> "acquire", arg |-> NoWorker]
  <2>1. handler' = [handler EXCEPT ![w] = h] /\ UNCHANGED seenVars
    BY <1>4 DEF HandleReadScene
  <2>2. w \in Worker' /\ handler'[w] = h
    BY <1>0, <1>1, <2>1, WorkerChanges
  <2>3. Inside' = {}
    BY <2>2, InsideNext DEF TaskChunk
  <2> QED BY <1>2, <2>1, <2>3, StaysInside
<1>5. CASE HandleReadBye(w)
  <2>1. processDone' /\ UNCHANGED seenVars
    BY <1>5 DEF HandleReadBye
  <2>2. Inside' = {}
    BY <2>1, InsideNext DEF Idle, IInv, NothingAfterBye
  <2> QED BY <1>2, <2>1, <2>2, StaysInside
<1> QED BY <1>3, <1>4, <1>5

\* A queue of one element holds that element.
LEMMA OneElement ==
  ASSUME NEW S, NEW s \in Seq(S), Len(s) = 1
  PROVE  Elements(s) = {Head(s)} /\ Elements(s) = {s[Len(s)]} /\ Elements(Tail(s)) = {}
<1>1. DOMAIN s = {1} /\ Head(s) = s[1]
  OBVIOUS
<1>2. Tail(s) \in Seq(S) /\ Len(Tail(s)) = 0
  OBVIOUS
<1>3. Elements(Tail(s)) = {}
  BY <1>2, NoElements
<1> QED BY <1>1, <1>3 DEF Elements

\* A chunk in a queue, or in the buffer beside it.
LEMMA OnePlacedElements ==
  ASSUME NEW x, NEW q, NEW b,
         (q = <<x>> /\ b = <<>>) \/ (q = <<>> /\ b = <<x>>)
  PROVE  Elements(q) \cup Elements(b) = {x}
<1>1. Elements(<<>>) = {} /\ Elements(<<x>>) = {x}
  BY DEF Elements
<1> QED BY <1>1

\* QueueInputPixels, the input processor and QueueOutputPixels pass the chunk on.
LEMMA QueuesKeepChunks ==
  ASSUME IInv, IInv',
         (\E w \in Worker : HandleReadQueues(w)) \/ InputTakesChunk \/ QueueOutputPixels
  PROVE  Inside' = Inside /\ UNCHANGED seenVars
<1>0. PoolTypes /\ OtherTypes /\ PoolShape
  BY TypeParts, PoolIsShaped DEF IInv
<1>1. ASSUME NEW w \in Worker, HandleReadQueues(w)
      PROVE  Inside' = Inside /\ UNCHANGED seenVars
  <2> DEFINE k == handler[w].arg
  <2>1. /\ handler[w].pc = "queueInput" /\ QueueInputPixels(k)
        /\ handler' = [handler EXCEPT ![w] = NoHandler]
        /\ UNCHANGED <<poolVars, inputChunk, outputVars, seenVars>>
    BY <1>1 DEF HandleReadQueues
  <2>2. Inside = {k}
    BY <2>1, InsideIsTask DEF TaskChunk
  <2> HIDE DEF k
  <2>3. /\ NoRequest /\ InnerLength = 0
        /\ \A v \in Worker : v # w => handler[v].pc = "none"
    BY <1>0, <2>1, OnlyTask DEF IInv
  <2>4. /\ Len(inputQueue) = 0 /\ Len(inputBuffer) = 0 /\ Len(outputQueue) = 0
        /\ Len(outputBuffer) = 0 /\ inputPc # "compute"
    BY <1>0, <2>3, InnerQueues DEF IInv
  <2>5. inputQueue = <<>> /\ inputBuffer = <<>>
    BY <1>0, <2>4, EmptySeq DEF OtherTypes
  <2>6. \/ inputQueue' = <<k>> /\ inputBuffer' = <<>>
        \/ inputQueue' = <<>> /\ inputBuffer' = <<k>>
    BY <2>1, <2>5 DEF QueueInputPixels
  <2>7. Elements(inputQueue') \cup Elements(inputBuffer') = {k}
    BY <2>6, OnePlacedElements
  <2>8. Elements(outputQueue') = {} /\ Elements(outputBuffer') = {}
    <3>1. outputQueue' = outputQueue /\ outputBuffer' = outputBuffer
      BY <2>1 DEF outputVars
    <3> QED BY <1>0, <2>4, <3>1, NoElements DEF OtherTypes
  <2>9. inputChunk' = NoChunk
    BY <2>1, <2>4 DEF IInv, ProcessorsHaveArgs
  <2>10. NoRequest' /\ NoHandlerActive'
    <3>1. /\ Worker' = Worker /\ NoHandler.pc = "none"
          /\ \A v \in Worker : handler'[v] = IF v = w THEN NoHandler ELSE handler[v]
      BY <1>0, <2>1 DEF PoolShape, Worker, poolVars, NoHandler
    <3> QED BY <2>1, <2>3, <3>1 DEF NoRequest, NoHandlerActive, poolVars
  <2> QED BY <2>1, <2>2, <2>7, <2>8, <2>9, <2>10, InsideNext DEF TaskChunk
<1>2. ASSUME InputTakesChunk
      PROVE  Inside' = Inside /\ UNCHANGED seenVars
  <2>1. /\ inputQueue # <<>> /\ inputPc = "drain"
        /\ inputChunk' = Head(inputQueue) /\ inputQueue' = Tail(inputQueue)
        /\ UNCHANGED <<inputBuffer, poolVars, handler, outputVars, seenVars>>
    BY <1>2 DEF InputTakesChunk, InputStep
  <2>2. /\ Len(inputQueue) = 1 /\ Len(inputBuffer) = 0 /\ Len(outputQueue) = 0
        /\ Len(outputBuffer) = 0 /\ InnerLength = 1
    BY <1>0, <2>1, InnerQueues DEF IInv
  <2>3. /\ Elements(inputBuffer) = {} /\ Elements(outputQueue) = {}
        /\ Elements(outputBuffer) = {} /\ inputChunk = NoChunk
    BY <1>0, <2>1, <2>2, NoElements DEF OtherTypes, IInv, ProcessorsHaveArgs
  <2>4. Elements(inputQueue) = {inputChunk'} /\ Elements(inputQueue') = {}
    BY <1>0, <2>1, <2>2, OneElement DEF OtherTypes
  <2>5. inputChunk' \in Chunk /\ inputChunk' # NoChunk
    BY <1>0, <2>1, <2>2, NumChunksAssumption DEF OtherTypes, Chunk, NoChunk
  <2>6. NoRequest /\ NoHandlerActive
    BY <1>0, <2>2, OnlyTask DEF IInv
  <2>7. NoRequest' /\ NoHandlerActive'
    BY <2>1, <2>6 DEF NoRequest, NoHandlerActive, poolVars, Worker
  <2>8. Inside = {inputChunk'}
    BY <2>3, <2>4, <2>6, InsideIsTask DEF TaskChunk
  <2>9. Inside' = {inputChunk'}
    BY <2>1, <2>3, <2>4, <2>5, <2>7, InsideNext DEF TaskChunk, outputVars
  <2> QED BY <2>1, <2>8, <2>9
<1>3. ASSUME QueueOutputPixels
      PROVE  Inside' = Inside /\ UNCHANGED seenVars
  <2>1. /\ inputPc = "compute" /\ inputChunk' = NoChunk
        /\ UNCHANGED <<poolVars, handler, inputQueue, inputBuffer, seenVars>>
    BY <1>3 DEF QueueOutputPixels
  <2>2. /\ Len(inputQueue) = 0 /\ Len(inputBuffer) = 0 /\ Len(outputQueue) = 0
        /\ Len(outputBuffer) = 0 /\ InnerLength = 1
    BY <1>0, <2>1, InnerQueues DEF IInv
  <2>3. /\ Elements(inputQueue) = {} /\ Elements(inputBuffer) = {}
        /\ Elements(outputQueue) = {} /\ Elements(outputBuffer) = {}
        /\ outputQueue = <<>> /\ outputBuffer = <<>> /\ inputChunk # NoChunk
    BY <1>0, <2>1, <2>2, NoElements, EmptySeq DEF OtherTypes, IInv, ProcessorsHaveArgs
  <2>4. \/ outputQueue' = <<inputChunk>> /\ outputBuffer' = <<>>
        \/ outputQueue' = <<>> /\ outputBuffer' = <<inputChunk>>
    BY <1>3, <2>3 DEF QueueOutputPixels
  <2>5. Elements(outputQueue') \cup Elements(outputBuffer') = {inputChunk}
    BY <2>4, OnePlacedElements
  <2>6. NoRequest /\ NoHandlerActive
    BY <1>0, <2>2, OnlyTask DEF IInv
  <2>7. NoRequest' /\ NoHandlerActive'
    BY <2>1, <2>6 DEF NoRequest, NoHandlerActive, poolVars, Worker
  <2>8. Inside = {inputChunk}
    BY <2>3, <2>6, InsideIsTask DEF TaskChunk
  <2>9. Inside' = {inputChunk}
    BY <2>1, <2>3, <2>5, <2>7, InsideNext DEF TaskChunk
  <2> QED BY <2>1, <2>8, <2>9
<1> QED BY <1>1, <1>2, <1>3

\* The output processor hands its chunk to a worker.
LEMMA SendsKeepChunks ==
  ASSUME IInv, IInv', OutputSends
  PROVE  Inside' = Inside /\ UNCHANGED seenVars
<1>0. PoolTypes /\ OtherTypes /\ PoolShape
  BY TypeParts, PoolIsShaped DEF IInv
<1> DEFINE k == outputQueue[Len(outputQueue)]
<1>1. /\ outputQueue # <<>> /\ outputWorker \in Worker
      /\ status' = [status EXCEPT ![outputWorker] = "RESOLVING_DNS"]
      /\ withData' = [withData EXCEPT ![outputWorker] = k]
      /\ UNCHANGED <<inputVars, outputBuffer, seenVars, handler>>
  BY DEF OutputSends, OutputStep, AsyncRequest, IInv, ProcessorsHaveArgs
<1>2. /\ Len(inputQueue) = 0 /\ Len(inputBuffer) = 0 /\ Len(outputQueue) = 1
      /\ Len(outputBuffer) = 0 /\ InnerLength = 1 /\ inputPc # "compute"
  BY <1>0, <1>1, InnerQueues DEF IInv
<1>3. /\ Elements(inputQueue) = {} /\ Elements(inputBuffer) = {}
      /\ Elements(outputQueue) = {k} /\ Elements(outputBuffer) = {}
      /\ inputChunk = NoChunk
  BY <1>0, <1>2, NoElements, OneElement DEF OtherTypes, IInv, ProcessorsHaveArgs
<1>4. k \in Chunk
  BY <1>0, <1>2, LastElement DEF OtherTypes
<1> HIDE DEF k
<1>5. Inside = {k}
  BY <1>0, <1>2, <1>3, OnlyTask, InsideIsTask DEF TaskChunk, IInv
<1>6. /\ outputWorker \in Worker' /\ status'[outputWorker] = "RESOLVING_DNS"
      /\ withData'[outputWorker] = k /\ k # NoChunk
  BY <1>0, <1>1, <1>4, NumChunksAssumption DEF PoolShape, Worker, Chunk, NoChunk
<1>7. Inside' = {k}
  BY <1>6, InsideNext DEF TaskChunk, Sending, Busy
<1> QED BY <1>1, <1>5, <1>7

\* SaveScene has no chunk, and neither has the request it makes.
LEMMA SceneKeepsChunks ==
  ASSUME IInv, IInv', NEW w \in Worker,
         SceneAcquires(w) \/ SceneCreates(w) \/ SceneRequests(w)
  PROVE  Inside' = Inside /\ UNCHANGED seenVars
<1>0. PoolTypes /\ OtherTypes /\ PoolShape
  BY TypeParts, PoolIsShaped DEF IInv
<1>1. Inside = {} /\ UNCHANGED seenVars
  BY InsideIsTask DEF TaskChunk, SceneAcquires, SceneCreates, SceneRequests
<1>2. CASE SceneAcquires(w)
  <2>1. /\ Worker' = Worker
        /\ \/ \E v : handler' = [handler EXCEPT ![w] = [pc |-> "request", arg |-> v]]
           \/ \E pc \in {"create", "acquire"} : handler' = [handler EXCEPT ![w].pc = pc]
    BY <1>0, <1>2, Finishing DEF SceneAcquires
  <2>2. handler'[w].pc \in {"request", "create", "acquire"}
    BY <1>0, <2>1 DEF PoolShape, Handlers
  <2>3. Inside' = {}
    BY <2>1, <2>2, InsideNext DEF TaskChunk
  <2> QED BY <1>1, <2>3
<1>3. CASE SceneCreates(w)
  <2> DEFINE h == [pc |-> "request", arg |-> Len(status) + 1]
             hs == [handler EXCEPT ![w] = h]
  <2>1. h \in Handlers /\ h.pc = "request" /\ AddWorker(hs)
    BY <1>0, <1>3 DEF Handlers, HandlerPcs, PoolShape, SceneCreates
  <2>2. hs \in Seq(Handlers) /\ Len(hs) = Len(status) /\ hs[w] = h
    BY <1>0, <2>1, Replaced DEF PoolTypes, PoolShape
  <2> HIDE DEF h, hs
  <2>3. w \in Worker' /\ handler'[w].pc = "request"
    BY <1>0, <2>1, <2>2, Adding
  <2>4. Inside' = {}
    BY <2>3, InsideNext DEF TaskChunk
  <2> QED BY <1>1, <2>4
<1>4. CASE SceneRequests(w)
  <2> DEFINE v == handler[w].arg
  <2>1. /\ v \in Worker
        /\ status' = [status EXCEPT ![v] = "RESOLVING_DNS"]
        /\ withData' = [withData EXCEPT ![v] = NoChunk]
    BY <1>4 DEF SceneRequests, AsyncRequest, IInv, HandlersHaveArgs
  <2> HIDE DEF v
  <2>2. v \in Worker' /\ status'[v] = "RESOLVING_DNS" /\ withData'[v] = NoChunk
    BY <1>0, <2>1 DEF PoolShape, Worker
  <2>3. Inside' = {}
    BY <2>2, InsideNext DEF TaskChunk, Sending, Busy
  <2> QED BY <1>1, <2>3
<1> QED BY <1>2, <1>3, <1>4

\* Looking for a worker, or adding one, touches no chunk.
LEMMA AcquiresKeepChunks ==
  ASSUME IInv, IInv',
         OutputAcquires \/ OutputFindsNone \/ OutputCreates
  PROVE  Inside' = Inside /\ UNCHANGED seenVars
<1>0. PoolTypes /\ PoolShape
  BY TypeParts, PoolIsShaped DEF IInv
<1>1. UNCHANGED <<inputVars, outputQueue, outputBuffer, seenVars>>
  BY DEF OutputAcquires, OutputFindsNone, OutputCreates, OutputStep
<1>2. /\ Worker \subseteq Worker'
      /\ \A w \in Worker' \ Worker :
           status'[w] \notin Sending /\ handler'[w].pc # "queueInput"
      /\ \A w \in Worker :
           /\ handler'[w] = handler[w]
           /\ status'[w] \in Sending <=> status[w] \in Sending
           /\ status[w] \in Sending => withData'[w] = withData[w]
  <2>1. CASE OutputAcquires \/ OutputFindsNone
    BY <1>0, <2>1, Finishing DEF OutputAcquires, OutputFindsNone, Sending, Failed
  <2>2. CASE OutputCreates
    <3>1. handler \in Seq(Handlers) /\ Len(handler) = Len(status) /\ AddWorker(handler)
      BY <1>0, <2>2 DEF PoolTypes, OutputCreates
    <3>2. "AWAITING_WORK" \notin Sending /\ NoHandler.pc # "queueInput"
      BY DEF Sending, NoHandler
    <3> QED BY <1>0, <3>1, <3>2, Adding
  <2> QED BY <2>1, <2>2
<1>3. Outgoing' = Outgoing
  BY <1>2 DEF Outgoing, Sending
<1>4. Incoming' = Incoming
  BY <1>2 DEF Incoming
<1>5. Inside' = Inside
  BY <1>1, <1>3, <1>4 DEF Inside, inputVars
<1> QED BY <1>1, <1>5

\* The steps of the processors between their queues touch no chunk.
LEMMA MovesKeepChunks ==
  ASSUME UNCHANGED <<poolVars, handler, inputQueue, inputBuffer, inputChunk,
                     outputQueue, outputBuffer, seenVars>>
  PROVE  Inside' = Inside /\ UNCHANGED seenVars
BY DEF Inside, Outgoing, Incoming, poolVars, Worker

\* ChunksManager.cpp, Client.cpp: every chunk the server gave is inside the client,
\* was written back or went down with a failed request, and no chunk is two of these.
THEOREM NoChunkIsDropped == Spec => []ChunksAccountedFor
<1>1. Init => ChunksAccountedFor
  <2> SUFFICES ASSUME Init PROVE ChunksAccountedFor
    OBVIOUS
  <2>1. Worker = {1} /\ withData[1] = NoChunk /\ handler[1].pc = "none"
    BY DEF Init, Worker, NoHandler
  <2>2. Outgoing = {} /\ Incoming = {}
    BY <2>1 DEF Outgoing, Incoming
  <2>3. Elements(<<>>) = {}
    BY DEF Elements
  <2>4. Inside = {}
    BY <2>2, <2>3 DEF Inside, Init
  <2> QED BY <2>4 DEF ChunksAccountedFor, Init
<1>2. ASSUME IInv, IInv', ChunksAccountedFor, [Next]_vars PROVE ChunksAccountedFor'
  <2>1. CASE InputThread
    <3>1. CASE InputTakesChunk \/ QueueOutputPixels
      BY <3>1, <1>2, QueuesKeepChunks, StaysInside
    <3>2. CASE \/ InputStarts \/ InputLocks \/ InputWaits \/ InputExits
               \/ InputResumes \/ InputDrained
      BY <3>2, <1>2, MovesKeepChunks, StaysInside DEF InputStarts, InputLocks, InputWaits, InputExits,
         InputResumes, InputDrained, InputStep, outputVars
    <3> QED BY <2>1, <3>1, <3>2 DEF InputThread
  <2>2. CASE OutputThread
    <3>1. CASE OutputAcquires \/ OutputFindsNone \/ OutputCreates
      BY <3>1, <1>2, AcquiresKeepChunks, StaysInside
    <3>2. CASE OutputSends
      BY <3>2, <1>2, SendsKeepChunks, StaysInside
    <3>3. CASE \/ OutputStarts \/ OutputLocks \/ OutputExits \/ OutputWaits
               \/ OutputResumes \/ OutputFindsNothing \/ OutputUnlocks
      BY <3>3, <1>2, MovesKeepChunks, StaysInside DEF OutputStarts, OutputLocks, OutputExits,
         OutputWaits, OutputResumes, OutputFindsNothing, OutputUnlocks, OutputStep,
         inputVars
    <3> QED BY <2>2, <3>1, <3>2, <3>3 DEF OutputThread
  <2>3. CASE NetworkThreads
    BY <2>3, <1>2, RequestKeepsChunks, ErrorKeepsChunks, ReadKeepsChunks,
       QueuesKeepChunks, SceneKeepsChunks, StaysInside DEF NetworkThreads
  <2>4. CASE \E w \in Worker : HandleError(w)
    BY <2>4, <1>2, ErrorKeepsChunks
  <2>5. CASE InputSpuriousWakeup \/ OutputSpuriousWakeup
    BY <2>5, <1>2, MovesKeepChunks, StaysInside DEF InputSpuriousWakeup, OutputSpuriousWakeup,
       InputStep, OutputStep, inputVars, outputVars
  <2>6. CASE UNCHANGED vars
    BY <2>6, <1>2, MovesKeepChunks, StaysInside DEF vars, inputVars, outputVars
  <2> QED BY <1>2, <2>1, <2>2, <2>3, <2>4, <2>5, <2>6 DEF Next
<1> QED BY <1>1, <1>2, IInvHolds, PTL DEF Spec
-----------------------------------------------------------------------------
\* What a queue holds after something was added, or taken from its head.
LEMMA Appended ==
  ASSUME NEW S, NEW s \in Seq(S), NEW x
  PROVE  Elements(Append(s, x)) = Elements(s) \cup {x}
<1>1. /\ DOMAIN s = 1 .. Len(s) /\ Len(s) \in Nat
      /\ DOMAIN Append(s, x) = 1 .. (Len(s) + 1)
      /\ Append(s, x)[Len(s) + 1] = x
      /\ \A i \in 1 .. Len(s) : Append(s, x)[i] = s[i]
  OBVIOUS
<1>2. 1 .. (Len(s) + 1) = (1 .. Len(s)) \cup {Len(s) + 1}
  BY <1>1
<1> QED BY <1>1, <1>2 DEF Elements

LEMMA Joined ==
  ASSUME NEW S, NEW s \in Seq(S), NEW t \in Seq(S), NEW k \in S
  PROVE  /\ Elements(s) \cup Elements(t) \subseteq Elements(s \o t \o <<k>>)
         /\ k \in Elements(s \o t \o <<k>>)
<1>1. /\ DOMAIN s = 1 .. Len(s) /\ Len(s) \in Nat
      /\ DOMAIN t = 1 .. Len(t) /\ Len(t) \in Nat
      /\ DOMAIN (s \o t \o <<k>>) = 1 .. (Len(s) + Len(t) + 1)
  OBVIOUS
<1>2. /\ \A i \in 1 .. Len(s) : (s \o t \o <<k>>)[i] = s[i]
      /\ \A i \in 1 .. Len(t) : (s \o t \o <<k>>)[Len(s) + i] = t[i]
      /\ (s \o t \o <<k>>)[Len(s) + Len(t) + 1] = k
  OBVIOUS
<1>3. /\ \A i \in 1 .. Len(s) : i \in 1 .. (Len(s) + Len(t) + 1)
      /\ \A i \in 1 .. Len(t) : Len(s) + i \in 1 .. (Len(s) + Len(t) + 1)
      /\ Len(s) + Len(t) + 1 \in 1 .. (Len(s) + Len(t) + 1)
  BY <1>1
<1> QED BY <1>1, <1>2, <1>3 DEF Elements

LEMMA HeadTaken ==
  ASSUME NEW S, NEW s \in Seq(S), s # <<>>
  PROVE  Head(s) \in S /\ Elements(s) \subseteq {Head(s)} \cup Elements(Tail(s))
<1>1. /\ DOMAIN s = 1 .. Len(s) /\ Len(s) \in Nat /\ Len(s) # 0
      /\ DOMAIN Tail(s) = 1 .. (Len(s) - 1)
      /\ Head(s) = s[1] /\ Head(s) \in S
      /\ \A i \in 1 .. (Len(s) - 1) : Tail(s)[i] = s[i + 1]
  OBVIOUS
<1>2. ASSUME NEW i \in 1 .. Len(s) PROVE s[i] \in {Head(s)} \cup Elements(Tail(s))
  <2>1. CASE i = 1
    BY <1>1, <2>1
  <2>2. CASE i # 1
    <3>1. i - 1 \in 1 .. (Len(s) - 1) /\ (i - 1) + 1 = i
      BY <1>1, <1>2, <2>2
    <3> QED BY <1>1, <3>1 DEF Elements
  <2> QED BY <2>1, <2>2
<1> QED BY <1>1, <1>2 DEF Elements

\* A handler that is about to queue a chunk goes on to do so.
HandlersGoOn ==
  \A v \in Worker : handler[v].pc = "queueInput" => v \in Worker' /\ handler'[v] = handler[v]

\* Then the chunks of the handlers are still theirs.
LEMMA StaysIncoming == HandlersGoOn => Incoming \subseteq Incoming'
BY DEF HandlersGoOn, Incoming

\* What waits for the output queue waits on, unless someone passes it on.
LEMMA StaysUnsent ==
  ASSUME HandlersGoOn, UNCHANGED <<inputQueue, inputBuffer, inputChunk, outputBuffer>>
  PROVE  Unsent \subseteq Unsent'
BY StaysIncoming DEF Unsent

\* A handler that is done, or has got further, or has just begun.
LEMMA OneHandlerMoves ==
  ASSUME PoolShape, NEW w \in Worker, NEW h, handler[w].pc # "queueInput",
         Worker \subseteq Worker',
         \A v \in Worker : handler'[v] = IF v = w THEN h ELSE handler[v]
  PROVE  HandlersGoOn
BY DEF HandlersGoOn

\* The processor keeps looking while there is nothing in the queue.
LEMMA SpinsOn ==
  ASSUME Spinning, [Next]_vars
  PROVE  Spinning'
<1> USE DEF Spinning
<1>1. CASE InputThread
  BY <1>1 DEF InputThread, InputStarts, InputLocks, InputWaits, InputExits,
     InputResumes, InputTakesChunk, InputDrained, QueueOutputPixels, InputStep,
     outputVars, OutputMutexHeld
<1>2. CASE OutputThread
  BY <1>2 DEF OutputThread, OutputStarts, OutputLocks, OutputExits, OutputWaits,
     OutputResumes, OutputAcquires, OutputFindsNone, OutputCreates, OutputSends,
     OutputFindsNothing, OutputUnlocks, OutputStep
<1>3. CASE NetworkThreads
  BY <1>3 DEF NetworkThreads, HandleResolve, HandleConnect, HandleWriteRequest,
     HandleReadError, HandleReadPixels, HandleReadScene, HandleReadBye,
     HandleReadQueues, SceneAcquires, SceneCreates, SceneRequests, outputVars
<1>4. CASE \E w \in Worker : HandleError(w)
  BY <1>4 DEF HandleError, outputVars
<1>5. CASE InputSpuriousWakeup \/ OutputSpuriousWakeup
  BY <1>5 DEF InputSpuriousWakeup, OutputSpuriousWakeup, InputStep, OutputStep,
     outputVars
<1>6. CASE UNCHANGED vars
  BY <1>6 DEF vars, outputVars
<1> QED BY <1>1, <1>2, <1>3, <1>4, <1>5, <1>6 DEF Next

\* What arrives meanwhile stays where it is, or goes no further than the buffer.
LEMMA InputKeepsUnsent ==
  ASSUME IInv, Spinning, InputThread \/ InputSpuriousWakeup
  PROVE  Unsent \subseteq Unsent'
<1>0. OtherTypes
  BY TypeParts DEF IInv
<1>1. CASE \/ InputStarts \/ InputLocks \/ InputWaits \/ InputExits
           \/ InputResumes \/ InputDrained \/ InputSpuriousWakeup
  <2>1. /\ handler' = handler /\ status' = status
        /\ UNCHANGED <<inputQueue, inputBuffer, inputChunk, outputBuffer>>
    BY <1>1 DEF InputStarts, InputLocks, InputWaits, InputExits, InputResumes,
       InputDrained, InputSpuriousWakeup, InputStep, poolVars, outputVars
  <2> QED BY <2>1, StaysUnsent DEF HandlersGoOn, Worker
<1>2. CASE InputTakesChunk
  <2>1. /\ inputQueue # <<>> /\ inputPc = "drain"
        /\ inputChunk' = Head(inputQueue) /\ inputQueue' = Tail(inputQueue)
        /\ handler' = handler /\ status' = status
        /\ UNCHANGED <<inputBuffer, outputBuffer>>
    BY <1>2 DEF InputTakesChunk, InputStep, poolVars, outputVars
  <2>2. /\ inputChunk' \in Chunk
        /\ Elements(inputQueue) \subseteq {inputChunk'} \cup Elements(inputQueue')
    BY <1>0, <2>1, HeadTaken DEF OtherTypes
  <2>3. inputChunk = NoChunk /\ inputChunk' # NoChunk
    BY <2>1, <2>2, NumChunksAssumption DEF IInv, ProcessorsHaveArgs, Chunk, NoChunk
  <2>4. Incoming \subseteq Incoming'
    BY <2>1, StaysIncoming DEF HandlersGoOn, Worker
  <2> QED BY <2>1, <2>2, <2>3, <2>4 DEF Unsent
<1>3. CASE QueueOutputPixels
  <2>1. /\ outputBuffer' = Append(outputBuffer, inputChunk)
        /\ handler' = handler /\ status' = status
        /\ UNCHANGED <<inputQueue, inputBuffer>>
    BY <1>3 DEF QueueOutputPixels, OutputMutexHeld, Spinning, poolVars
  <2>2. Elements(outputBuffer') = Elements(outputBuffer) \cup {inputChunk}
    BY <1>0, <2>1, Appended DEF OtherTypes
  <2>3. Incoming \subseteq Incoming'
    BY <2>1, StaysIncoming DEF HandlersGoOn, Worker
  <2> QED BY <2>1, <2>2, <2>3 DEF Unsent
<1> QED BY <1>1, <1>2, <1>3 DEF InputThread

\* The processor itself takes none of it.
LEMMA OutputKeepsUnsent ==
  ASSUME IInv, Spinning, OutputThread \/ OutputSpuriousWakeup
  PROVE  Unsent \subseteq Unsent'
<1>0. PoolTypes /\ PoolShape
  BY TypeParts, PoolIsShaped DEF IInv
<1>1. UNCHANGED <<inputQueue, inputBuffer, inputChunk, outputBuffer>>
  BY DEF OutputThread, OutputStarts, OutputLocks, OutputExits, OutputWaits,
     OutputResumes, OutputAcquires, OutputFindsNone, OutputCreates, OutputSends,
     OutputFindsNothing, OutputUnlocks, OutputSpuriousWakeup, OutputStep, inputVars
<1>2. CASE OutputAcquires \/ OutputFindsNone
  <2>1. handler' = handler /\ Worker' = Worker
    BY <1>0, <1>2 DEF OutputAcquires, OutputFindsNone, FinishNetworkWorkers, Worker
  <2> QED BY <1>1, <2>1, StaysUnsent DEF HandlersGoOn
<1>3. CASE OutputCreates
  <2>1. /\ handler \in Seq(Handlers) /\ Len(handler) = Len(status)
        /\ AddWorker(handler)
    BY <1>0, <1>3 DEF PoolTypes, OutputCreates
  <2> QED BY <1>0, <1>1, <2>1, Adding, StaysUnsent DEF HandlersGoOn
<1>4. CASE \/ OutputFindsNothing \/ OutputStarts \/ OutputLocks \/ OutputExits
           \/ OutputWaits \/ OutputResumes \/ OutputUnlocks \/ OutputSpuriousWakeup
  <2>1. handler' = handler /\ status' = status
    BY <1>4 DEF OutputFindsNothing, OutputStarts, OutputLocks, OutputExits, OutputWaits,
       OutputResumes, OutputUnlocks, OutputSpuriousWakeup, poolVars
  <2> QED BY <1>1, <2>1, StaysUnsent DEF HandlersGoOn, Worker
<1>5. ~OutputSends
  BY DEF OutputSends, Spinning
<1> QED BY <1>2, <1>3, <1>4, <1>5 DEF OutputThread

\* Nor do the network handlers, which bring more of it.
LEMMA NetworkKeepsUnsent ==
  ASSUME IInv, Spinning, NetworkThreads \/ (\E w \in Worker : HandleError(w))
  PROVE  Unsent \subseteq Unsent'
<1>0. PoolTypes /\ OtherTypes /\ PoolShape
  BY TypeParts, PoolIsShaped DEF IInv
<1>1. ASSUME NEW w \in Worker,
             \/ HandleResolve(w) \/ HandleConnect(w) \/ HandleWriteRequest(w)
             \/ HandleError(w) \/ HandleReadError(w) \/ HandleReadBye(w)
             \/ HandleReadPixels(w) \/ HandleReadScene(w)
      PROVE  Unsent \subseteq Unsent'
  <2>1. /\ handler[w].pc = "none" /\ DOMAIN status' = DOMAIN status
        /\ UNCHANGED <<inputQueue, inputBuffer, inputChunk, outputBuffer>>
    BY <1>0, <1>1 DEF PoolShape, HandlerStarts, HandleResolve, HandleConnect,
       HandleWriteRequest, HandleError, HandleReadError, HandleReadBye, HandleReadPixels,
       HandleReadScene, inputVars, outputVars
  <2>2. CASE HandleReadPixels(w) \/ HandleReadScene(w)
    <3>1. PICK h : handler' = [handler EXCEPT ![w] = h]
      BY <2>2 DEF HandleReadPixels, HandleReadScene
    <3>2. /\ Worker' = Worker
          /\ \A v \in Worker : handler'[v] = IF v = w THEN h ELSE handler[v]
      BY <1>0, <2>1, <3>1 DEF PoolShape, Worker
    <3> QED BY <1>0, <2>1, <3>2, OneHandlerMoves, StaysUnsent
  <2>3. CASE ~(HandleReadPixels(w) \/ HandleReadScene(w))
    <3>1. handler' = handler
      BY <1>1, <2>3 DEF HandleResolve, HandleConnect, HandleWriteRequest, HandleError,
         HandleReadError, HandleReadBye
    <3> QED BY <2>1, <3>1, StaysUnsent DEF HandlersGoOn, Worker
  <2> QED BY <2>2, <2>3
<1>2. ASSUME NEW w \in Worker, SceneAcquires(w) \/ SceneRequests(w)
      PROVE  Unsent \subseteq Unsent'
  <2>1. PICK h :
          /\ handler[w].pc # "queueInput" /\ DOMAIN status' = DOMAIN status
          /\ handler' = [handler EXCEPT ![w] = h]
          /\ UNCHANGED <<inputQueue, inputBuffer, inputChunk, outputBuffer>>
    BY <1>0, <1>2 DEF PoolShape, Worker, SceneAcquires, SceneRequests,
       FinishNetworkWorkers, AsyncRequest, inputVars, outputVars
  <2>2. /\ Worker' = Worker
        /\ \A v \in Worker : handler'[v] = IF v = w THEN h ELSE handler[v]
    BY <1>0, <2>1 DEF PoolShape, Worker
  <2> QED BY <1>0, <2>1, <2>2, OneHandlerMoves, StaysUnsent
<1>3. ASSUME NEW w \in Worker, SceneCreates(w)
      PROVE  Unsent \subseteq Unsent'
  <2> DEFINE h == [pc |-> "request", arg |-> Len(status) + 1]
             hs == [handler EXCEPT ![w] = h]
  <2>1. /\ handler[w].pc = "create" /\ AddWorker(hs)
        /\ UNCHANGED <<inputQueue, inputBuffer, inputChunk, outputBuffer>>
    BY <1>3 DEF SceneCreates, inputVars, outputVars
  <2>2. h \in Handlers
    BY <1>0 DEF PoolShape, Handlers, HandlerPcs
  <2>3. hs \in Seq(Handlers) /\ Len(hs) = Len(status)
    BY <1>0, <2>2, Replaced DEF PoolTypes, PoolShape
  <2>4. \A v \in Worker : hs[v] = IF v = w THEN h ELSE handler[v]
    BY <1>0 DEF PoolShape
  <2> HIDE DEF h, hs
  <2>5. /\ Worker \subseteq Worker'
        /\ \A v \in Worker : handler'[v] = IF v = w THEN h ELSE handler[v]
    BY <1>0, <2>1, <2>3, <2>4, Adding
  <2> QED BY <1>0, <2>1, <2>5, OneHandlerMoves, StaysUnsent
<1>4. ASSUME NEW w \in Worker, HandleReadQueues(w)
      PROVE  Unsent \subseteq Unsent'
  <2> DEFINE k == handler[w].arg
  <2>1. /\ k \in Chunk /\ QueueInputPixels(k)
        /\ handler' = [handler EXCEPT ![w] = NoHandler]
        /\ status' = status /\ UNCHANGED <<inputChunk, outputBuffer>>
    BY <1>4 DEF HandleReadQueues, IInv, HandlersHaveArgs, poolVars, outputVars
  <2>2. Elements(inputQueue) \cup Elements(inputBuffer) \cup {k}
          \subseteq Elements(inputQueue') \cup Elements(inputBuffer')
    <3>0. inputQueue \in Seq(Chunk) /\ inputBuffer \in Seq(Chunk)
      BY <1>0 DEF OtherTypes
    <3>1. CASE ~InputMutexHeld
      <4>1. inputQueue' = inputQueue \o inputBuffer \o <<k>>
        BY <2>1, <3>1 DEF QueueInputPixels
      <4> HIDE DEF k
      <4> QED BY <2>1, <3>0, <4>1, Joined
    <3>2. CASE InputMutexHeld
      <4>1. inputQueue' = inputQueue /\ inputBuffer' = Append(inputBuffer, k)
        BY <2>1, <3>2 DEF QueueInputPixels
      <4> HIDE DEF k
      <4> QED BY <3>0, <4>1, Appended
    <3> QED BY <3>1, <3>2
  <2>3. Incoming \subseteq Incoming' \cup {k}
    <3>1. \A v \in Worker : v # w => v \in Worker' /\ handler'[v] = handler[v]
      BY <1>0, <2>1 DEF PoolShape, Worker
    <3> QED BY <3>1 DEF Incoming
  <2> QED BY <2>1, <2>2, <2>3 DEF Unsent
<1> QED BY <1>1, <1>2, <1>3, <1>4 DEF NetworkThreads

\* ChunksManager.cpp: an output processor that looks for a worker with an empty
\* queue goes on for ever with the mutex: no chunk reaches the queue, and what is
\* on its way to it stays there, neither written nor lost.
THEOREM SpinnersSpinOn == Spec => SpinsForEver
<1>1. ASSUME IInv, ChunksAccountedFor', Spinning, [Next]_vars
      PROVE  /\ Spinning' /\ OutputMutexHeld'
             /\ Unsent \subseteq Unsent' \ (sent' \cup lost')
  <2>1. Spinning' /\ OutputMutexHeld'
    BY <1>1, SpinsOn DEF Spinning, OutputMutexHeld
  <2>2. Unsent \subseteq Unsent'
    <3>1. CASE UNCHANGED vars
      BY <3>1, StaysUnsent DEF vars, poolVars, inputVars, outputVars, HandlersGoOn, Worker
    <3> QED BY <1>1, <3>1, InputKeepsUnsent, OutputKeepsUnsent, NetworkKeepsUnsent DEF Next
  <2>3. Unsent' \subseteq Inside' /\ Inside' \cap (sent' \cup lost') = {}
    BY <1>1 DEF Unsent, Inside, ChunksAccountedFor
  <2> QED BY <2>1, <2>2, <2>3
<1> QED BY <1>1, IInvHolds, NoChunkIsDropped, PTL DEF Spec, SpinsForEver

\* ChunksManager.cpp, Client.cpp:282: a client that is stuck in one of these
\* three ways stays so.
THEOREM StuckStaysStuck == Spec => StuckForEver
BY StrandedChunksStay, SpinnersSpinOn, ByeIsNotHeard DEF StuckForEver

-----------------------------------------------------------------------------
\* Nobody has failed while there is a task.
LEMMA NobodyFailed ==
  ASSUME IInv, SmallPool, NEW w \in Worker,
         InnerLength # 0 \/ status[w] \in Busy \/ handler[w].pc # "none"
  PROVE  \A v \in Worker : status[v] \notin Failed
BY DEF SmallPool, NoRequest, NoHandlerActive

\* A step of a worker whose request is out.
LEMMA WorkerKeepsPool ==
  ASSUME IInv, SmallPool, NEW w \in Worker, NEW s \in Statuses, NEW h \in Handlers,
         status[w] \in Busy,
         status' = [status EXCEPT ![w] = s], handler' = [handler EXCEPT ![w] = h],
         s \in Failed => h.pc = "none",
         h.pc # "none" => h.pc # "create" /\ s \in Usable,
         UNCHANGED <<machine, inputVars, outputVars>>
  PROVE  SmallPool'
<1>0. PoolTypes /\ OtherTypes /\ PoolShape
  BY TypeParts, PoolIsShaped DEF IInv
<1>1. /\ Worker' = Worker /\ status'[w] = s /\ handler'[w] = h
      /\ \A v \in Worker : v # w => /\ status'[v] = status[v]
                                   /\ handler'[v] = handler[v]
  BY <1>0, WorkerChanges
<1>2. Len(status') = Len(status)
  BY <1>0, Replaced DEF PoolTypes, PoolShape
<1>3. /\ NoHandlerActive /\ InnerLength = 0
      /\ \A v \in Worker : v # w => status[v] \notin Busy
      /\ \A v \in Worker : status[v] \notin Failed
  BY <1>0, OnlyTask, NobodyFailed DEF IInv
<1>4. /\ InnerLength' = 0 /\ faults' = faults /\ outputPc' = outputPc
      /\ outputQueue' = outputQueue
  BY <1>3 DEF InnerLength, machine, inputVars, outputVars
<1>5. s \in Failed => NoRequest' /\ NoHandlerActive'
  BY <1>1, <1>3, KindsApart DEF NoRequest, NoHandlerActive
<1> QED BY <1>1, <1>2, <1>3, <1>4, <1>5 DEF SmallPool, PoolStaysSmall, NoHandlerActive

\* The handlers of a worker whose request is out.
LEMMA HandlersKeepPool ==
  ASSUME IInv, SmallPool, NEW w \in Worker,
         \/ HandleResolve(w) \/ HandleConnect(w) \/ HandleWriteRequest(w)
         \/ HandleError(w) \/ HandleReadError(w)
         \/ HandleReadPixels(w) \/ HandleReadScene(w) \/ HandleReadBye(w)
  PROVE  SmallPool'
<1>1. CASE \/ HandleResolve(w) \/ HandleConnect(w) \/ HandleWriteRequest(w)
           \/ HandleError(w) \/ HandleReadError(w) \/ HandleReadBye(w)
  <2>1. PICK s \in Busy, t \in Statuses :
          /\ HandlerStarts(w, s) /\ status' = [status EXCEPT ![w] = t]
          /\ handler' = handler /\ UNCHANGED <<machine, inputVars, outputVars>>
    BY <1>1 DEF HandleResolve, HandleConnect, HandleWriteRequest, HandleError,
       HandleReadError, HandleReadBye, Busy, Failed, Usable, Statuses
  <2>2. /\ status[w] \in Busy /\ handler' = [handler EXCEPT ![w] = handler[w]]
        /\ handler[w] \in Handlers /\ handler[w].pc = "none"
    BY <2>1, AtStart
  <2> QED BY <2>1, <2>2, WorkerKeepsPool
<1>2. CASE HandleReadPixels(w) \/ HandleReadScene(w)
  <2>1. PICK h :
          /\ status[w] = "READING_CONTENT" /\ status' = [status EXCEPT ![w] = "OK_STATUS"]
          /\ handler' = [handler EXCEPT ![w] = h]
          /\ h.pc \in {"queueInput", "acquire"}
          /\ h = [pc |-> h.pc, arg |-> h.arg] /\ h.arg \in {given + 1, NoWorker}
          /\ UNCHANGED <<machine, inputVars, outputVars>>
    BY <1>2 DEF HandleReadPixels, HandleReadScene, HandlerStarts
  <2>2. h \in Handlers /\ h.pc # "none" /\ h.pc # "create"
    <3>1. given + 1 \in Nat
      BY TypeParts, NumChunksAssumption DEF IInv, OtherTypes, Chunk
    <3> QED BY <2>1, <3>1 DEF Handlers, HandlerPcs, NoWorker
  <2>3. /\ status[w] \in Busy /\ "OK_STATUS" \in Usable /\ "OK_STATUS" \in Statuses
        /\ "OK_STATUS" \notin Failed
    BY <2>1, KindsApart DEF Busy
  <2> QED BY <2>1, <2>2, <2>3, WorkerKeepsPool
<1> QED BY <1>1, <1>2

\* The chunk moves on between the queues, from its handler or to a worker.
LEMMA TaskKeepsPool ==
  ASSUME IInv, SmallPool,
         \/ \E w \in Worker : HandleReadQueues(w) \/ SceneRequests(w)
         \/ InputTakesChunk \/ QueueOutputPixels \/ OutputSends
  PROVE  SmallPool'
<1>0. PoolTypes /\ OtherTypes /\ PoolShape
  BY TypeParts, PoolIsShaped DEF IInv
<1>1. \A v \in Worker : status[v] \notin Failed
  <2>1. 1 \in Worker
    BY <1>0 DEF SmallPool, PoolShape
  <2>2. CASE \E w \in Worker : HandleReadQueues(w) \/ SceneRequests(w)
    BY <2>2, NobodyFailed DEF HandleReadQueues, SceneRequests
  <2>3. CASE InputTakesChunk \/ QueueOutputPixels \/ OutputSends
    <3>1. InnerLength = 1
      BY <1>0, <2>3, InnerQueues DEF IInv, InputTakesChunk, QueueOutputPixels, OutputSends
    <3> QED BY <2>1, <3>1, NobodyFailed
  <2> QED BY <2>2, <2>3
<1>2. /\ Worker' = Worker /\ Len(status') = Len(status) /\ faults' = faults
      /\ \A v \in Worker : status'[v] = status[v] \/ status'[v] = "RESOLVING_DNS"
  <2>1. CASE \E w \in Worker : SceneRequests(w)
    <3>1. PICK w \in Worker : SceneRequests(w)
      BY <2>1
    <3>2. /\ handler[w].arg \in Worker /\ faults' = faults
          /\ status' = [status EXCEPT ![handler[w].arg] = "RESOLVING_DNS"]
      BY <3>1 DEF SceneRequests, AsyncRequest, IInv, HandlersHaveArgs, machine
    <3>3. "RESOLVING_DNS" \in Statuses
      BY DEF Statuses, Busy
    <3> QED BY <1>0, <3>2, <3>3, Replaced DEF PoolTypes, PoolShape, Worker
  <2>2. CASE OutputSends
    <3>1. /\ outputWorker \in Worker /\ faults' = faults
          /\ status' = [status EXCEPT ![outputWorker] = "RESOLVING_DNS"]
      BY <2>2 DEF OutputSends, OutputStep, AsyncRequest, IInv, ProcessorsHaveArgs, machine
    <3>2. "RESOLVING_DNS" \in Statuses
      BY DEF Statuses, Busy
    <3> QED BY <1>0, <3>1, <3>2, Replaced DEF PoolTypes, PoolShape, Worker
  <2>3. CASE (\E w \in Worker : HandleReadQueues(w)) \/ InputTakesChunk \/ QueueOutputPixels
    BY <2>3 DEF HandleReadQueues, InputTakesChunk, QueueOutputPixels, InputStep, machine,
       poolVars, Worker
  <2> QED BY <2>1, <2>2, <2>3
<1>3. \A v \in Worker : status'[v] \notin Failed
  BY <1>1, <1>2 DEF Failed
<1>4. \A v \in Worker : handler'[v].pc # "none" =>
        handler'[v].pc # "create" /\ status'[v] \in Usable
  <2>1. CASE \E w \in Worker : HandleReadQueues(w) \/ SceneRequests(w)
    <3>1. PICK w \in Worker : HandleReadQueues(w) \/ SceneRequests(w)
      BY <2>1
    <3>2. /\ handler' = [handler EXCEPT ![w] = NoHandler] /\ handler[w].pc # "none"
          /\ NoHandler.pc = "none"
      BY <3>1 DEF HandleReadQueues, SceneRequests, NoHandler
    <3> QED BY <1>0, <3>2, OnlyTask DEF PoolShape, IInv
  <2>2. CASE InputTakesChunk \/ QueueOutputPixels \/ OutputSends
    <3>1. handler' = handler /\ InnerLength = 1
      BY <1>0, <2>2, InnerQueues DEF IInv, InputTakesChunk, QueueOutputPixels, OutputSends,
         InputStep, OutputStep
    <3> QED BY <1>0, <3>1, OnlyTask DEF NoHandlerActive, IInv
  <2> QED BY <2>1, <2>2
<1>5. /\ outputPc' = "create" => outputPc = "create"
      /\ "wakeup" \notin faults /\ outputPc' \in {"woken", "acquire", "create", "acquired"}
           => outputQueue' # <<>>
  <2>1. CASE (\E w \in Worker : HandleReadQueues(w) \/ SceneRequests(w)) \/ InputTakesChunk
    BY <2>1 DEF HandleReadQueues, SceneRequests, InputTakesChunk, InputStep, outputVars,
       SmallPool
  <2>2. CASE QueueOutputPixels
    <3>1. Len(outputQueue) = 0 /\ Len(outputBuffer) = 0
      BY <1>0, <2>2, InnerQueues DEF IInv, QueueOutputPixels
    <3>2. outputQueue = <<>> /\ outputBuffer = <<>>
      BY <1>0, <3>1, EmptySeq DEF OtherTypes
    <3>3. <<inputChunk>> # <<>> /\ <<>> \o <<>> \o <<inputChunk>> = <<inputChunk>>
      BY <1>0 DEF OtherTypes
    <3> QED BY <2>2, <3>2, <3>3 DEF QueueOutputPixels, SmallPool
  <2>3. CASE OutputSends
    BY <2>3 DEF OutputSends, OutputStep
  <2> QED BY <2>1, <2>2, <2>3
<1> QED BY <1>2, <1>3, <1>4, <1>5 DEF SmallPool, PoolStaysSmall

\* SaveScene always finds the worker whose handler it runs in.
LEMMA SceneKeepsPool ==
  ASSUME IInv, SmallPool, NEW w \in Worker, SceneAcquires(w) \/ SceneCreates(w)
  PROVE  SmallPool'
<1>0. PoolTypes /\ OtherTypes /\ PoolShape
  BY TypeParts, PoolIsShaped DEF IInv
<1>1. /\ handler[w].pc = "acquire" /\ SceneAcquires(w)
      /\ status[w] \in Usable
  BY DEF SmallPool, SceneAcquires, SceneCreates
<1>2. /\ \A v \in Worker : status[v] \notin Failed
      /\ \A v \in Worker : v # w => handler[v].pc = "none"
      /\ InnerLength = 0
  BY <1>0, <1>1, NobodyFailed, OnlyTask DEF IInv
<1>3. PICK v \in Worker : handler' = [handler EXCEPT ![w] = [pc |-> "request", arg |-> v]]
  BY <1>1 DEF SceneAcquires, NoneUsable
<1>4. /\ Worker' = Worker /\ Len(status') = Len(status)
      /\ \A u \in Worker : status'[u] = status[u]
  BY <1>0, <1>1, <1>2, Finishing DEF SceneAcquires
<1>5. \A u \in Worker : handler'[u].pc # "none" => u = w /\ handler'[u].pc = "request"
  BY <1>0, <1>2, <1>3 DEF PoolShape
<1>6. /\ faults' = faults /\ outputPc' = outputPc /\ outputQueue' = outputQueue
  BY <1>1 DEF SceneAcquires, machine, outputVars
<1> QED BY <1>1, <1>2, <1>4, <1>5, <1>6 DEF SmallPool, PoolStaysSmall

\* The output processor adds the second worker at most.
LEMMA AcquiresKeepPool ==
  ASSUME IInv, SmallPool, OutputAcquires \/ OutputFindsNone \/ OutputCreates
  PROVE  SmallPool'
<1>0. PoolTypes /\ OtherTypes /\ PoolShape
  BY TypeParts, PoolIsShaped DEF IInv
<1>1. /\ faults' = faults /\ outputQueue' = outputQueue
      /\ UNCHANGED <<inputVars, outputBuffer>>
  BY DEF OutputAcquires, OutputFindsNone, OutputCreates, OutputStep, machine
<1>2. CASE OutputAcquires \/ OutputFindsNone
  <2>1. /\ Worker' = Worker /\ Len(status') = Len(status) /\ handler' = handler
        /\ \A v \in Worker :
             status'[v] = IF status[v] \in Failed THEN "AWAITING_WORK" ELSE status[v]
    BY <1>0, <1>2, Finishing DEF OutputAcquires, OutputFindsNone
  <2>2. \A v \in Worker : status'[v] \notin Failed
    BY <2>1, KindsApart
  <2>3. \A v \in Worker : handler'[v].pc # "none" =>
          handler'[v].pc # "create" /\ status'[v] \in Usable
    BY <2>1, KindsApart DEF SmallPool
  <2>4. outputPc' = "create" =>
          "wakeup" \in faults /\ Len(status) = 1 /\ ASYNC_CLIENTS_MAX > 1
    <3> SUFFICES ASSUME outputPc' = "create"
                 PROVE  "wakeup" \in faults /\ Len(status) = 1 /\ ASYNC_CLIENTS_MAX > 1
      OBVIOUS
    <3>1. NoneUsable /\ outputPc = "acquire" /\ Len(status) < ASYNC_CLIENTS_MAX
      BY <1>2 DEF OutputAcquires, OutputFindsNone, OutputStep, RoomInPool
    <3>2. \A u, v \in Worker : u = v
      <4>1. \A v \in Worker : status[v] \in Busy \/ status[v] \in Failed
        BY <1>0, <3>1 DEF NoneUsable, PoolShape, Statuses
      <4>2. \A u, v \in Worker : status[u] \in Busy => status[v] \notin Failed
        BY DEF SmallPool, NoRequest
      <4> QED BY <4>1, <4>2 DEF IInv, OneTask, OneRequest, SmallPool
    <3>3. Len(status) = 1
      <4>1. Len(status) >= 1
        BY DEF SmallPool
      <4>2. Len(status) \in Worker /\ 1 \in Worker
        BY <1>0, <4>1 DEF PoolShape
      <4> QED BY <3>2, <4>2
    <3>4. "wakeup" \in faults
      <4> SUFFICES ASSUME "wakeup" \notin faults PROVE FALSE
        OBVIOUS
      <4>1. outputQueue # <<>>
        BY <3>1 DEF SmallPool
      <4>2. InnerLength = 1 /\ 1 \in Worker
        BY <1>0, <3>3, <4>1, InnerQueues DEF IInv, PoolShape
      <4>3. status[1] \notin Failed /\ status[1] \notin Busy
        BY <1>0, <4>2, NobodyFailed, OnlyTask DEF IInv, NoRequest
      <4> QED BY <1>0, <3>1, <4>2, <4>3 DEF NoneUsable, PoolShape, Statuses
    <3> QED BY <3>1, <3>3, <3>4, PoolAssumption
  <2>5. "wakeup" \notin faults => outputQueue # <<>>
    BY <1>2 DEF OutputAcquires, OutputFindsNone, OutputStep, SmallPool
  <2> QED BY <1>1, <2>1, <2>2, <2>3, <2>4, <2>5 DEF SmallPool, PoolStaysSmall
<1>3. CASE OutputCreates
  <2>1. /\ handler \in Seq(Handlers) /\ Len(handler) = Len(status)
        /\ AddWorker(handler) /\ outputPc = "create" /\ outputPc' = "acquired"
    BY <1>0, <1>3 DEF PoolTypes, OutputCreates, OutputStep
  <2>2. /\ Worker' = Worker \cup {Len(status) + 1}
        /\ status'[Len(status) + 1] = "AWAITING_WORK"
        /\ handler'[Len(status) + 1] = NoHandler
        /\ \A v \in Worker : status'[v] = status[v] /\ handler'[v] = handler[v]
    BY <1>0, <2>1, Adding
  <2>3. Len(status') = Len(status) + 1
    BY <1>0, <2>1 DEF AddWorker, PoolTypes
  <2>4. "wakeup" \in faults /\ Len(status) = 1 /\ ASYNC_CLIENTS_MAX > 1
    BY <2>1 DEF SmallPool
  <2>5. Len(status') = 2 /\ ASYNC_CLIENTS_MAX >= 2
    BY <2>3, <2>4, PoolAssumption
  <2>6. InnerLength' = InnerLength
    BY <1>1 DEF InnerLength, inputVars
  <2>7. (\E v \in Worker' : status'[v] \in Failed) => NoRequest' /\ NoHandlerActive'
    <3>1. "AWAITING_WORK" \notin Busy /\ "AWAITING_WORK" \notin Failed
          /\ NoHandler.pc = "none"
      BY KindsApart DEF NoHandler
    <3> QED BY <2>2, <3>1 DEF SmallPool, NoRequest, NoHandlerActive
  <2>8. /\ \A u, v \in Worker' : status'[u] \in Failed /\ status'[v] \in Failed => u = v
        /\ (\E v \in Worker' : status'[v] \in Failed) => InnerLength = 0
        /\ \A v \in Worker' : handler'[v].pc # "none" =>
             handler'[v].pc # "create" /\ status'[v] \in Usable
    <3>1. "AWAITING_WORK" \notin Failed /\ NoHandler.pc = "none"
      BY KindsApart DEF NoHandler
    <3> QED BY <2>2, <3>1 DEF SmallPool
  <2> QED BY <1>1, <2>1, <2>4, <2>5, <2>6, <2>7, <2>8 DEF SmallPool, PoolStaysSmall
<1> QED BY <1>2, <1>3

\* The steps of the processors between their queues.
LEMMA MovesKeepPool ==
  ASSUME SmallPool,
         UNCHANGED <<machine, poolVars, handler, inputQueue, inputBuffer, outputQueue,
                     outputBuffer>>,
         inputPc' = "compute" <=> inputPc = "compute",
         outputPc' # "create" \/ outputPc' = outputPc,
         \/ outputPc' \notin {"woken", "acquire", "create", "acquired"}
         \/ outputPc \in {"woken", "acquire", "create", "acquired"}
         \/ "wakeup" \in faults
  PROVE  SmallPool'
<1>1. /\ Worker' = Worker /\ InnerLength' = InnerLength
      /\ NoRequest' = NoRequest /\ NoHandlerActive' = NoHandlerActive
  BY DEF poolVars, Worker, InnerLength, NoRequest, NoHandlerActive
<1> QED BY <1>1 DEF SmallPool, PoolStaysSmall, poolVars, machine

\* Client.cpp, ChunksManager.cpp: the pool never has more than two workers, one
\* unless waits return for nothing, and never more than ASYNC_CLIENTS_MAX.
THEOREM PoolIsSmall == Spec => []PoolStaysSmall
<1>1. Init => SmallPool
  <2> SUFFICES ASSUME Init PROVE SmallPool
    OBVIOUS
  <2>1. /\ Worker = {1} /\ status[1] = "RESOLVING_DNS" /\ handler[1].pc = "none"
        /\ Len(status) = 1 /\ outputPc = "posted"
    BY DEF Init, Worker, NoHandler
  <2>2. "RESOLVING_DNS" \notin Failed
    BY DEF Failed
  <2> QED BY <2>1, <2>2, PoolAssumption DEF SmallPool, PoolStaysSmall
<1>2. ASSUME IInv, SmallPool, [Next]_vars PROVE SmallPool'
  <2>1. CASE InputThread
    <3>1. CASE InputTakesChunk \/ QueueOutputPixels
      BY <3>1, <1>2, TaskKeepsPool
    <3>2. CASE \/ InputStarts \/ InputLocks \/ InputWaits \/ InputExits
               \/ InputResumes \/ InputDrained
      BY <3>2, <1>2, MovesKeepPool DEF InputStarts, InputLocks, InputWaits, InputExits,
         InputResumes, InputDrained, InputStep, outputVars
    <3> QED BY <2>1, <3>1, <3>2 DEF InputThread
  <2>2. CASE OutputThread
    <3>1. CASE OutputAcquires \/ OutputFindsNone \/ OutputCreates
      BY <3>1, <1>2, AcquiresKeepPool
    <3>2. CASE OutputSends
      BY <3>2, <1>2, TaskKeepsPool
    <3>3. CASE \/ OutputStarts \/ OutputLocks \/ OutputExits \/ OutputWaits
               \/ OutputResumes \/ OutputFindsNothing \/ OutputUnlocks
      BY <3>3, <1>2, MovesKeepPool DEF OutputStarts, OutputLocks, OutputExits,
         OutputWaits, OutputResumes, OutputFindsNothing, OutputUnlocks, OutputStep,
         inputVars
    <3> QED BY <2>2, <3>1, <3>2, <3>3 DEF OutputThread
  <2>3. CASE NetworkThreads
    BY <2>3, <1>2, HandlersKeepPool, TaskKeepsPool, SceneKeepsPool DEF NetworkThreads
  <2>4. CASE \E w \in Worker : HandleError(w)
    BY <2>4, <1>2, HandlersKeepPool
  <2>5. CASE InputSpuriousWakeup \/ OutputSpuriousWakeup
    BY <2>5, <1>2, MovesKeepPool DEF InputSpuriousWakeup, OutputSpuriousWakeup,
       InputStep, OutputStep, inputVars, outputVars
  <2>6. CASE UNCHANGED vars
    BY <2>6, <1>2, MovesKeepPool DEF vars, inputVars, outputVars
  <2> QED BY <1>2, <2>1, <2>2, <2>3, <2>4, <2>5, <2>6 DEF Next
<1>3. SmallPool => PoolStaysSmall
  BY DEF SmallPool
<1> QED BY <1>1, <1>2, <1>3, IInvHolds, PTL DEF Spec

-----------------------------------------------------------------------------
(* The client implements WorkPeer. *)

\* What the server sees of the task, whatever has become of it.
SeenAs(state, request, chunk) ==
  PeerState = state /\ PeerRequest = request /\ PeerChunk = chunk

SeenTask ==
  /\ \A w \in Worker : status[w] \in Busy =>
       SeenAs(IF status[w] \in {"WRITING_TO_SOCKET", "READING_CONTENT"}
                THEN "waiting" ELSE "idle",
              withStatus[w],
              IF status[w] \in Sending THEN withData[w] ELSE NoChunk)
  /\ \A w \in Worker : handler[w].pc # "none" =>
       IF handler[w].pc = "queueInput"
         THEN SeenAs("idle", "computed_pixels", handler[w].arg)
         ELSE SeenAs("idle", "received_scene", NoChunk)
  /\ InnerLength = 1 => PeerState = "idle" /\ PeerRequest = "computed_pixels"
  /\ Idle => SeenAs(IF processDone THEN "bye" ELSE "stopped", "none", NoChunk)

\* What the server sees inside the client is the chunk that is there.
LEMMA OneChunk ==
  /\ \A k \in {NoChunk} \cup Chunk : Inside = {k} \ {NoChunk} => PeerChunk = k
  /\ \A k \in Chunk : Inside = {k} => PeerChunk = k
<1>1. \A k \in Chunk : k # NoChunk
  BY NumChunksAssumption DEF Chunk, NoChunk
<1>2. Inside = {} => PeerChunk = NoChunk
  BY DEF PeerChunk
<1>3. ASSUME NEW k \in Chunk, Inside = {k} PROVE PeerChunk = k
  BY <1>3 DEF PeerChunk
<1> QED BY <1>1, <1>2, <1>3

\* A chunk between the workers is a chunk.
LEMMA SomethingInside ==
  ASSUME IInv, InnerLength = 1 PROVE Inside # {} /\ ~processDone
<1>0. OtherTypes
  BY TypeParts DEF IInv
<1>1. NoRequest /\ NoHandlerActive /\ ~processDone
  BY <1>0, OnlyTask DEF IInv, NothingAfterBye
<1>2. CASE inputPc = "compute"
  BY <1>1, <1>2, InsideIsTask DEF TaskChunk, IInv, ProcessorsHaveArgs
<1>3. CASE inputPc # "compute"
  <2>1. /\ Len(inputQueue) \in Nat /\ Len(inputBuffer) \in Nat
        /\ Len(outputQueue) \in Nat /\ Len(outputBuffer) \in Nat
    BY <1>0 DEF OtherTypes
  <2>2. \/ Len(inputQueue) > 0 \/ Len(inputBuffer) > 0
        \/ Len(outputQueue) > 0 \/ Len(outputBuffer) > 0
    BY <1>3, <2>1 DEF InnerLength
  <2>3. \A q \in Seq(Chunk) : Len(q) > 0 => Elements(q) # {}
    BY DEF Elements
  <2>4. \/ Elements(inputQueue) # {} \/ Elements(inputBuffer) # {}
        \/ Elements(outputQueue) # {} \/ Elements(outputBuffer) # {}
    BY <1>0, <2>2, <2>3 DEF OtherTypes
  <2> QED BY <1>1, <2>4, InsideIsTask DEF TaskChunk
<1> QED BY <1>1, <1>2, <1>3

\* The invariant decides what the server sees.
LEMMA TaskIsSeen == IInv => SeenTask
<1> SUFFICES ASSUME IInv PROVE SeenTask
  OBVIOUS
<1>0. PoolTypes /\ OtherTypes /\ PoolShape /\ (Alive <=> ~Idle)
  BY TypeParts, PoolIsShaped, CountErrands DEF IInv
<1>1. ASSUME NEW w \in Worker, status[w] \in Busy
      PROVE  SeenAs(IF status[w] \in {"WRITING_TO_SOCKET", "READING_CONTENT"}
                      THEN "waiting" ELSE "idle",
                    withStatus[w],
                    IF status[w] \in Sending THEN withData[w] ELSE NoChunk)
  <2>1. ~processDone /\ Alive
    BY <1>0, <1>1 DEF IInv, NothingAfterBye, NoRequest, Idle
  <2>2. BusyWorkers = {w}
    BY <1>1 DEF BusyWorkers, IInv, OneTask, OneRequest
  <2>3. /\ PeerState = IF status[w] \in {"WRITING_TO_SOCKET", "READING_CONTENT"}
                         THEN "waiting" ELSE "idle"
        /\ PeerRequest = withStatus[w]
    BY <2>1, <2>2 DEF PeerState, PeerRequest
  <2>4. /\ withData[w] \in {NoChunk} \cup Chunk
        /\ Inside = IF status[w] \in Sending THEN {withData[w]} \ {NoChunk} ELSE {}
    BY <1>0, <1>1, InsideIsTask DEF PoolShape, TaskChunk
  <2>5. PeerChunk = IF status[w] \in Sending THEN withData[w] ELSE NoChunk
    BY <2>4, OneChunk DEF PeerChunk
  <2> QED BY <2>3, <2>5 DEF SeenAs
<1>2. ASSUME NEW w \in Worker, handler[w].pc # "none"
      PROVE  IF handler[w].pc = "queueInput"
               THEN SeenAs("idle", "computed_pixels", handler[w].arg)
               ELSE SeenAs("idle", "received_scene", NoChunk)
  <2>1. ~processDone /\ Alive /\ NoRequest
    BY <1>0, <1>2, OnlyTask DEF IInv, NothingAfterBye, NoHandlerActive, Idle
  <2>2. BusyWorkers = {}
    BY <2>1 DEF BusyWorkers, NoRequest
  <2>3. PeerState = "idle"
    BY <2>1, <2>2 DEF PeerState
  <2>4. Inside = IF handler[w].pc = "queueInput" THEN {handler[w].arg} ELSE {}
    BY <1>2, InsideIsTask DEF TaskChunk
  <2>5. CASE handler[w].pc = "queueInput"
    <3>1. handler[w].arg \in Chunk /\ Inside = {handler[w].arg}
      BY <2>4, <2>5 DEF IInv, HandlersHaveArgs
    <3>2. PeerRequest = "computed_pixels" /\ PeerChunk = handler[w].arg
      BY <2>1, <2>2, <3>1, OneChunk DEF PeerRequest
    <3> QED BY <2>3, <2>5, <3>2 DEF SeenAs
  <2>6. CASE handler[w].pc # "queueInput"
    BY <2>1, <2>2, <2>3, <2>4, <2>6 DEF SeenAs, PeerRequest, PeerChunk
  <2> QED BY <2>5, <2>6
<1>3. InnerLength = 1 => PeerState = "idle" /\ PeerRequest = "computed_pixels"
  <2> SUFFICES ASSUME InnerLength = 1
               PROVE  PeerState = "idle" /\ PeerRequest = "computed_pixels"
    OBVIOUS
  <2>1. ~processDone /\ Inside # {} /\ Alive /\ NoRequest
    BY <1>0, SomethingInside, OnlyTask DEF Idle, IInv
  <2> QED BY <2>1 DEF PeerState, PeerRequest, BusyWorkers, NoRequest
<1>4. Idle => SeenAs(IF processDone THEN "bye" ELSE "stopped", "none", NoChunk)
  BY <1>0, NothingInside DEF SeenAs, PeerState, PeerRequest, PeerChunk
<1> QED BY <1>1, <1>2, <1>3, <1>4 DEF SeenTask

\* The same in the next state.
LEMMA TaskIsSeenNext == (IInv => SeenTask)'
BY TaskIsSeen, PTL

PeerStep == [Peer!PeerNext]_(Peer!peerVars)

\* A step the server does not see.
LEMMA Unseen ==
  ASSUME PeerState' = PeerState, PeerRequest' = PeerRequest, PeerChunk' = PeerChunk
  PROVE  PeerStep
BY DEF PeerStep, Peer!peerVars

\* The steps of a request, and its failures.
LEMMA RequestIsSeen ==
  ASSUME IInv, IInv', NEW w \in Worker,
         \/ HandleResolve(w) \/ HandleConnect(w) \/ HandleWriteRequest(w)
         \/ HandleError(w) \/ HandleReadError(w)
  PROVE  PeerStep
<1>0. PoolTypes /\ OtherTypes /\ PoolShape
  BY TypeParts, PoolIsShaped DEF IInv
<1>1. PICK s \in Busy, t \in Busy \cup Failed :
        /\ status[w] = s /\ handler' = handler
        /\ status' = [status EXCEPT ![w] = t]
        /\ UNCHANGED <<withStatus, withData, inputVars, outputVars, processDone>>
        /\ \/ s = "RESOLVING_DNS" /\ t = "CONNECTING_TO_ENDPOINT"
           \/ s = "CONNECTING_TO_ENDPOINT" /\ t = "WRITING_TO_SOCKET"
           \/ s = "WRITING_TO_SOCKET" /\ t = "READING_CONTENT"
           \/ t \in Failed
  BY DEF HandleResolve, HandleConnect, HandleWriteRequest, HandleError, HandleReadError,
     HandlerStarts, Busy, Failed
<1>2. w \in Worker' /\ status'[w] = t /\ Worker' = Worker
      /\ \A v \in Worker : v # w => status'[v] = status[v]
  BY <1>0, <1>1 DEF PoolShape, Worker
<1>3. /\ PeerState = IF s \in {"WRITING_TO_SOCKET", "READING_CONTENT"}
                       THEN "waiting" ELSE "idle"
      /\ PeerRequest = withStatus[w]
      /\ PeerChunk = IF s \in Sending THEN withData[w] ELSE NoChunk
  BY <1>1, TaskIsSeen DEF SeenTask, SeenAs
<1>4. CASE t \in Busy
  <2>1. /\ PeerState' = IF t \in {"WRITING_TO_SOCKET", "READING_CONTENT"}
                           THEN "waiting" ELSE "idle"
        /\ PeerRequest' = withStatus[w]
        /\ PeerChunk' = IF t \in Sending THEN withData[w] ELSE NoChunk
    BY <1>1, <1>2, <1>4, TaskIsSeenNext DEF SeenTask, SeenAs
  <2>2. CASE s = "RESOLVING_DNS" /\ t = "CONNECTING_TO_ENDPOINT"
    BY <1>3, <2>1, <2>2, Unseen DEF Sending
  <2>3. CASE s = "CONNECTING_TO_ENDPOINT" /\ t = "WRITING_TO_SOCKET"
    <3>1. Peer!Send
      BY <1>3, <2>1, <2>3 DEF Sending, Peer!Send
    <3> QED BY <3>1 DEF PeerStep, Peer!PeerNext
  <2>4. CASE s = "WRITING_TO_SOCKET" /\ t = "READING_CONTENT"
    <3>1. Peer!Written
      BY <1>3, <2>1, <2>4 DEF Sending, Peer!Written
    <3> QED BY <3>1 DEF PeerStep, Peer!PeerNext
  <2> QED BY <1>1, <1>4, <2>2, <2>3, <2>4, KindsApart
<1>5. CASE t \in Failed
  <2>1. /\ NoHandlerActive /\ InnerLength = 0
        /\ \A v \in Worker : v # w => status[v] \notin Busy
    BY <1>0, <1>1, OnlyTask DEF IInv
  <2>2. Idle'
    BY <1>1, <1>2, <1>5, <2>1, KindsApart DEF Idle, NoRequest, NoHandlerActive,
       InnerLength, inputVars, outputVars
  <2>3. ~processDone
    BY <1>0, <1>1 DEF IInv, NothingAfterBye, NoRequest
  <2>4. PeerState' = "stopped" /\ PeerRequest' = "none" /\ PeerChunk' = NoChunk
    BY <1>1, <2>2, <2>3, TaskIsSeenNext DEF SeenTask, SeenAs
  <2>5. Peer!Fail
    BY <1>3, <2>4 DEF Peer!Fail
  <2> QED BY <2>5 DEF PeerStep, Peer!PeerNext
<1> QED BY <1>4, <1>5

\* The replies.
LEMMA ReplyIsSeen ==
  ASSUME IInv, IInv', NEW w \in Worker,
         HandleReadPixels(w) \/ HandleReadScene(w) \/ HandleReadBye(w)
  PROVE  PeerStep
<1>0. PoolTypes /\ OtherTypes /\ PoolShape
  BY TypeParts, PoolIsShaped DEF IInv
<1>1. /\ status[w] = "READING_CONTENT" /\ "READING_CONTENT" \in Busy \ Sending
      /\ handler[w].pc = "none"
      /\ status' = [status EXCEPT ![w] = "OK_STATUS"] /\ "OK_STATUS" \notin Busy
  BY DEF HandleReadPixels, HandleReadScene, HandleReadBye, HandlerStarts, Sending,
     Busy
<1>2. PeerState = "waiting" /\ PeerRequest = withStatus[w] /\ PeerChunk = NoChunk
  BY <1>1, TaskIsSeen DEF SeenTask, SeenAs
<1>3. CASE HandleReadPixels(w)
  <2> DEFINE h == [pc |-> "queueInput", arg |-> given + 1]
  <2>1. /\ handler' = [handler EXCEPT ![w] = h] /\ given < NumChunks
        /\ withStatus[w] # "send_scene"
    BY <1>3 DEF HandleReadPixels
  <2>2. w \in Worker' /\ handler'[w] = h
    BY <1>0, <1>1, <2>1, WorkerChanges
  <2>3. /\ PeerState' = "idle" /\ PeerRequest' = "computed_pixels"
        /\ PeerChunk' = given + 1
    BY <2>2, TaskIsSeenNext DEF SeenTask, SeenAs
  <2>4. given + 1 \in Chunk
    BY <1>0, <2>1, NumChunksAssumption DEF OtherTypes, Chunk
  <2>5. Peer!ReceivePixels(given + 1)
    BY <1>2, <2>1, <2>3 DEF Peer!ReceivePixels
  <2> QED BY <2>4, <2>5 DEF PeerStep, Peer!PeerNext
<1>4. CASE HandleReadScene(w)
  <2> DEFINE h == [pc |-> "acquire", arg |-> NoWorker]
  <2>1. handler' = [handler EXCEPT ![w] = h] /\ withStatus[w] = "send_scene"
    BY <1>4 DEF HandleReadScene
  <2>2. w \in Worker' /\ handler'[w] = h
    BY <1>0, <1>1, <2>1, WorkerChanges
  <2>3. PeerState' = "idle" /\ PeerRequest' = "received_scene" /\ PeerChunk' = NoChunk
    BY <2>2, TaskIsSeenNext DEF SeenTask, SeenAs
  <2>4. Peer!ReceiveScene
    BY <1>2, <2>1, <2>3 DEF Peer!ReceiveScene
  <2> QED BY <2>4 DEF PeerStep, Peer!PeerNext
<1>5. CASE HandleReadBye(w)
  <2>1. processDone'
    BY <1>5 DEF HandleReadBye
  <2>2. PeerState' = "bye" /\ PeerRequest' = "none" /\ PeerChunk' = NoChunk
    BY <2>1, TaskIsSeenNext DEF SeenTask, SeenAs, Idle, IInv, NothingAfterBye
  <2>3. Peer!ReceiveBye
    BY <1>2, <2>2 DEF Peer!ReceiveBye
  <2> QED BY <2>3 DEF PeerStep, Peer!PeerNext
<1> QED BY <1>3, <1>4, <1>5

\* A chunk that is inside with no worker is between them.
BetweenWorkers == Inside # {} /\ NoRequest /\ NoHandlerActive

\* The server sees such a chunk as one still to be returned.
LEMMA StaysBetween == IInv /\ BetweenWorkers =>
                        PeerState = "idle" /\ PeerRequest = "computed_pixels"
<1> SUFFICES ASSUME IInv, BetweenWorkers
             PROVE  PeerState = "idle" /\ PeerRequest = "computed_pixels"
  OBVIOUS
<1>1. InnerLength \in 0 .. 1
  BY TypeParts, OnlyTask DEF IInv
<1>2. InnerLength # 0
  BY NothingInside DEF Idle, BetweenWorkers
<1> QED BY <1>1, <1>2, TaskIsSeen DEF SeenTask

\* The same in the next state.
LEMMA StaysBetweenNext == (IInv /\ BetweenWorkers =>
                             PeerState = "idle" /\ PeerRequest = "computed_pixels")'
BY StaysBetween, PTL

\* The way of a chunk between the workers is not seen.
LEMMA QueuesAreUnseen ==
  ASSUME IInv, IInv',
         \/ \E w \in Worker : HandleReadQueues(w)
         \/ InputTakesChunk \/ QueueOutputPixels \/ OutputSends
  PROVE  PeerStep
<1>0. PoolTypes /\ OtherTypes /\ PoolShape
  BY TypeParts, PoolIsShaped DEF IInv
<1>1. Inside' = Inside
  BY QueuesKeepChunks, SendsKeepChunks
<1>2. PeerChunk' = PeerChunk
  BY <1>1 DEF PeerChunk
<1>3. ASSUME NEW w \in Worker, HandleReadQueues(w) PROVE PeerStep
  <2>1. /\ handler[w].pc = "queueInput" /\ handler' = [handler EXCEPT ![w] = NoHandler]
        /\ poolVars' = poolVars
    BY <1>3 DEF HandleReadQueues
  <2>2. PeerState = "idle" /\ PeerRequest = "computed_pixels" /\ Inside # {}
    BY <2>1, TaskIsSeen, InsideIsTask DEF SeenTask, SeenAs, TaskChunk
  <2>3. /\ NoRequest /\ \A v \in Worker : v # w => handler[v].pc = "none"
    BY <1>0, <2>1, OnlyTask DEF IInv
  <2>4. NoRequest' /\ NoHandlerActive'
    <3>1. /\ Worker' = Worker /\ NoHandler.pc = "none"
          /\ \A v \in Worker : handler'[v] = IF v = w THEN NoHandler ELSE handler[v]
      BY <1>0, <2>1 DEF PoolShape, Worker, poolVars, NoHandler
    <3> QED BY <2>1, <2>3, <3>1 DEF NoRequest, NoHandlerActive, poolVars
  <2>5. PeerState' = "idle" /\ PeerRequest' = "computed_pixels"
    BY <1>1, <2>2, <2>4, StaysBetweenNext DEF BetweenWorkers
  <2> QED BY <1>2, <2>2, <2>5, Unseen
<1>4. ASSUME InputTakesChunk \/ QueueOutputPixels PROVE PeerStep
  <2>1. UNCHANGED <<poolVars, handler>> /\ InnerLength = 1
    BY <1>0, <1>4, InnerQueues DEF InputTakesChunk, QueueOutputPixels, InputStep, IInv
  <2>2. NoRequest /\ NoHandlerActive /\ Inside # {}
    BY <1>0, <2>1, OnlyTask, SomethingInside DEF IInv
  <2>3. NoRequest' /\ NoHandlerActive'
    BY <2>1, <2>2 DEF NoRequest, NoHandlerActive, poolVars, Worker
  <2>4. /\ PeerState = "idle" /\ PeerRequest = "computed_pixels"
        /\ PeerState' = "idle" /\ PeerRequest' = "computed_pixels"
    BY <1>1, <2>2, <2>3, StaysBetween, StaysBetweenNext DEF BetweenWorkers
  <2> QED BY <1>2, <2>4, Unseen
<1>5. ASSUME OutputSends PROVE PeerStep
  <2>1. /\ outputQueue # <<>> /\ outputWorker \in Worker
        /\ status' = [status EXCEPT ![outputWorker] = "RESOLVING_DNS"]
        /\ withStatus' = [withStatus EXCEPT ![outputWorker] = "computed_pixels"]
    BY <1>5 DEF OutputSends, OutputStep, AsyncRequest, IInv, ProcessorsHaveArgs
  <2>2. InnerLength = 1
    BY <1>0, <2>1, InnerQueues DEF IInv
  <2>3. PeerState = "idle" /\ PeerRequest = "computed_pixels"
    BY <2>2, TaskIsSeen DEF SeenTask
  <2>4. /\ outputWorker \in Worker' /\ status'[outputWorker] = "RESOLVING_DNS"
        /\ withStatus'[outputWorker] = "computed_pixels"
    BY <1>0, <2>1 DEF PoolShape, Worker
  <2>5. PeerState' = "idle" /\ PeerRequest' = "computed_pixels"
    BY <2>4, TaskIsSeenNext DEF SeenTask, SeenAs, Busy
  <2> QED BY <1>2, <2>3, <2>5, Unseen
<1> QED BY <1>3, <1>4, <1>5

\* SaveScene looks for a worker and makes the first request for work.
LEMMA SceneIsUnseen ==
  ASSUME IInv, IInv', NEW w \in Worker,
         SceneAcquires(w) \/ SceneCreates(w) \/ SceneRequests(w)
  PROVE  PeerStep
<1>0. PoolTypes /\ OtherTypes /\ PoolShape
  BY TypeParts, PoolIsShaped DEF IInv
<1>1. PeerState = "idle" /\ PeerRequest = "received_scene" /\ PeerChunk' = PeerChunk
  <2>1. PeerState = "idle" /\ PeerRequest = "received_scene"
    BY TaskIsSeen DEF SeenTask, SeenAs, SceneAcquires, SceneCreates, SceneRequests
  <2>2. Inside' = Inside
    BY SceneKeepsChunks
  <2>3. PeerChunk' = PeerChunk
    BY <2>2 DEF PeerChunk
  <2> QED BY <2>1, <2>3
<1>2. CASE SceneAcquires(w) \/ SceneCreates(w)
  <2>1. w \in Worker' /\ handler'[w].pc \in {"request", "create", "acquire"}
    <3>1. CASE SceneAcquires(w)
      <4>1. /\ Worker' = Worker
            /\ \/ \E v : handler' = [handler EXCEPT ![w] = [pc |-> "request", arg |-> v]]
               \/ \E pc \in {"create", "acquire"} : handler' = [handler EXCEPT ![w].pc = pc]
        BY <1>0, <3>1, Finishing DEF SceneAcquires
      <4> QED BY <1>0, <4>1 DEF PoolShape, Handlers
    <3>2. CASE SceneCreates(w)
      <4> DEFINE h == [pc |-> "request", arg |-> Len(status) + 1]
                 hs == [handler EXCEPT ![w] = h]
      <4>1. h \in Handlers /\ h.pc = "request" /\ AddWorker(hs)
        BY <1>0, <3>2 DEF Handlers, HandlerPcs, PoolShape, SceneCreates
      <4>2. hs \in Seq(Handlers) /\ Len(hs) = Len(status) /\ hs[w] = h
        BY <1>0, <4>1, Replaced DEF PoolTypes, PoolShape
      <4> HIDE DEF h, hs
      <4> QED BY <1>0, <4>1, <4>2, Adding
    <3> QED BY <1>2, <3>1, <3>2
  <2>2. PeerState' = "idle" /\ PeerRequest' = "received_scene"
    BY <2>1, TaskIsSeenNext DEF SeenTask, SeenAs
  <2> QED BY <1>1, <2>2, Unseen
<1>3. CASE SceneRequests(w)
  <2> DEFINE v == handler[w].arg
  <2>1. /\ v \in Worker
        /\ status' = [status EXCEPT ![v] = "RESOLVING_DNS"]
        /\ withStatus' = [withStatus EXCEPT ![v] = "received_scene"]
    BY <1>3 DEF SceneRequests, AsyncRequest, IInv, HandlersHaveArgs
  <2> HIDE DEF v
  <2>2. /\ v \in Worker' /\ status'[v] = "RESOLVING_DNS"
        /\ withStatus'[v] = "received_scene"
    BY <1>0, <2>1 DEF PoolShape, Worker
  <2>3. PeerState' = "idle" /\ PeerRequest' = "received_scene"
    BY <2>2, TaskIsSeenNext DEF SeenTask, SeenAs, Busy
  <2> QED BY <1>1, <2>3, Unseen
<1> QED BY <1>2, <1>3

\* Neither are the steps that leave the request and the handlers as they are.
LEMMA SameTask ==
  ASSUME BusyWorkers' = BusyWorkers, ActiveHandlers' = ActiveHandlers,
         \A w \in BusyWorkers : status'[w] = status[w] /\ withStatus'[w] = withStatus[w],
         UNCHANGED <<inputQueue, inputBuffer, outputQueue, outputBuffer, processDone>>,
         inputPc' = "compute" <=> inputPc = "compute",
         Inside' = Inside
  PROVE  PeerStep
<1>1. Alive' = Alive
  BY DEF Alive, Errands
<1>2. PeerState' = PeerState
  BY <1>1 DEF PeerState
<1>3. PeerRequest' = PeerRequest
  BY <1>1 DEF PeerRequest
<1>4. PeerChunk' = PeerChunk
  BY DEF PeerChunk
<1> QED BY <1>2, <1>3, <1>4, Unseen

\* A processor moves on.
LEMMA MovesAreUnseen ==
  ASSUME UNCHANGED <<poolVars, handler, inputQueue, inputBuffer, inputChunk,
                     outputQueue, outputBuffer, processDone, seenVars>>,
         inputPc' = "compute" <=> inputPc = "compute"
  PROVE  PeerStep
<1>1. Inside' = Inside
  BY MovesKeepChunks
<1>2. /\ BusyWorkers' = BusyWorkers /\ ActiveHandlers' = ActiveHandlers
      /\ status' = status /\ withStatus' = withStatus
  BY DEF BusyWorkers, ActiveHandlers, poolVars, Worker
<1> QED BY <1>1, <1>2, SameTask

\* The output processor looks for a worker.
LEMMA AcquiresAreUnseen ==
  ASSUME IInv, IInv', OutputAcquires \/ OutputFindsNone \/ OutputCreates
  PROVE  PeerStep
<1>0. PoolTypes /\ PoolShape
  BY TypeParts, PoolIsShaped DEF IInv
<1>1. UNCHANGED <<inputVars, outputQueue, outputBuffer, processDone>>
  BY DEF OutputAcquires, OutputFindsNone, OutputCreates, OutputStep
<1>2. /\ Worker \subseteq Worker'
      /\ \A w \in Worker' \ Worker :
           status'[w] = "AWAITING_WORK" /\ handler'[w] = NoHandler
      /\ \A w \in Worker :
           /\ handler'[w] = handler[w]
           /\ \/ status'[w] = status[w]
              \/ status[w] \in Failed /\ status'[w] = "AWAITING_WORK"
           /\ status[w] \in Busy => withStatus'[w] = withStatus[w]
  <2>1. CASE OutputAcquires \/ OutputFindsNone
    <3>1. FinishNetworkWorkers /\ handler' = handler
      BY <2>1 DEF OutputAcquires, OutputFindsNone
    <3>2. \A w \in Worker : status[w] \in Busy => withStatus'[w] = withStatus[w]
      BY <1>0, <3>1, KindsApart DEF FinishNetworkWorkers, PoolShape
    <3> QED BY <1>0, <3>1, <3>2, Finishing
  <2>2. CASE OutputCreates
    <3>1. /\ handler \in Seq(Handlers) /\ Len(handler) = Len(status) /\ AddWorker(handler)
      BY <1>0, <2>2 DEF PoolTypes, OutputCreates
    <3>2. \A w \in Worker : withStatus'[w] = withStatus[w]
      BY <1>0, <3>1 DEF AddWorker, PoolTypes, PoolShape
    <3>3. /\ Worker' = Worker \cup {Len(status) + 1}
          /\ status'[Len(status) + 1] = "AWAITING_WORK"
          /\ handler'[Len(status) + 1] = NoHandler
          /\ \A w \in Worker : status'[w] = status[w] /\ handler'[w] = handler[w]
      BY <1>0, <3>1, Adding
    <3> QED BY <3>2, <3>3
  <2> QED BY <2>1, <2>2
<1>3. BusyWorkers' = BusyWorkers /\ ActiveHandlers' = ActiveHandlers
  BY <1>2, KindsApart DEF BusyWorkers, ActiveHandlers, NoHandler
<1>4. \A w \in BusyWorkers : status'[w] = status[w] /\ withStatus'[w] = withStatus[w]
  BY <1>2, KindsApart DEF BusyWorkers
<1>5. Inside' = Inside
  BY AcquiresKeepChunks
<1> QED BY <1>1, <1>3, <1>4, <1>5, SameTask DEF inputVars

\* The client is a WorkPeer: one request at a time, each chunk returned at most
\* once and by the request that asks for the next, and none after "bye" or a failure.
THEOREM ClientImplementsWorkPeer == Spec => ImplementsWorkPeer
<1>1. Init => Peer!PeerInit
  <2> SUFFICES ASSUME Init PROVE Peer!PeerInit
    OBVIOUS
  <2>1. IInv
    BY InitInv
  <2>2. /\ 1 \in Worker /\ status[1] = "RESOLVING_DNS" /\ withStatus[1] = "send_scene"
        /\ withData[1] = NoChunk
    BY DEF Init, Worker
  <2>3. PeerState = "idle" /\ PeerRequest = "send_scene" /\ PeerChunk = NoChunk
    BY <2>1, <2>2, TaskIsSeen DEF SeenTask, SeenAs, Busy, Sending
  <2> QED BY <2>3 DEF Peer!PeerInit
<1>2. ASSUME IInv, IInv', [Next]_vars PROVE PeerStep
  <2>1. CASE InputThread
    <3>1. CASE InputTakesChunk \/ QueueOutputPixels
      BY <3>1, <1>2, QueuesAreUnseen
    <3>2. CASE \/ InputStarts \/ InputLocks \/ InputWaits \/ InputExits
               \/ InputResumes \/ InputDrained
      BY <3>2, <1>2, MovesAreUnseen DEF InputStarts, InputLocks, InputWaits, InputExits,
         InputResumes, InputDrained, InputStep, outputVars
    <3> QED BY <2>1, <3>1, <3>2 DEF InputThread
  <2>2. CASE OutputThread
    <3>1. CASE OutputAcquires \/ OutputFindsNone \/ OutputCreates
      BY <3>1, <1>2, AcquiresAreUnseen
    <3>2. CASE OutputSends
      BY <3>2, <1>2, QueuesAreUnseen
    <3>3. CASE \/ OutputStarts \/ OutputLocks \/ OutputExits \/ OutputWaits
               \/ OutputResumes \/ OutputFindsNothing \/ OutputUnlocks
      BY <3>3, <1>2, MovesAreUnseen DEF OutputStarts, OutputLocks, OutputExits,
         OutputWaits, OutputResumes, OutputFindsNothing, OutputUnlocks, OutputStep,
         inputVars
    <3> QED BY <2>2, <3>1, <3>2, <3>3 DEF OutputThread
  <2>3. CASE NetworkThreads
    BY <2>3, <1>2, RequestIsSeen, ReplyIsSeen, QueuesAreUnseen, SceneIsUnseen
       DEF NetworkThreads
  <2>4. CASE \E w \in Worker : HandleError(w)
    BY <2>4, <1>2, RequestIsSeen
  <2>5. CASE InputSpuriousWakeup \/ OutputSpuriousWakeup
    BY <2>5, <1>2, MovesAreUnseen DEF InputSpuriousWakeup, OutputSpuriousWakeup,
       InputStep, OutputStep, inputVars, outputVars
  <2>6. CASE UNCHANGED vars
    BY <2>6, <1>2, MovesAreUnseen DEF vars, inputVars, outputVars
  <2> QED BY <1>2, <2>1, <2>2, <2>3, <2>4, <2>5, <2>6 DEF Next
<1> QED BY <1>1, <1>2, IInvHolds, PTL DEF Spec, PeerStep, ImplementsWorkPeer, Peer!PeerSpec
=============================================================================
