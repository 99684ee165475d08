------------------------------ MODULE RayClient ------------------------------
(***************************************************************************)
(* The client process of the distributed ray tracer: the pool of network   *)
(* workers (Client.cpp), the chunk manager with its two processors         *)
(* (ChunksManager.cpp) and the threads of the io_service that run all of   *)
(* it (main.cpp).  The two processors are posted to the io_service like    *)
(* any handler and never return before the end, so each keeps one thread   *)
(* for itself; the network handlers share the others.  The server is       *)
(* whatever answers the requests.                                          *)
(*                                                                         *)
(* A chunk that was computed keeps the name of the chunk of lines it was   *)
(* computed from.                                                          *)
(***************************************************************************)
EXTENDS Integers, Sequences, FiniteSets

CONSTANTS NumChunks,         \* how many chunks the server may send here
          ASYNC_CLIENTS_MAX, \* how many workers the pool may have
          Threads,           \* the values hardware_concurrency() may return
          FaultCases         \* which faults may come together (see FaultKinds)

\* "link": a request fails (resolve, connect, write or read);
\* "wakeup": condition_variable::wait returns without a notification.
FaultKinds == {"link", "wakeup"}

ASSUME NumChunksAssumption == NumChunks \in Nat
ASSUME PoolAssumption == ASYNC_CLIENTS_MAX \in Nat \ {0}
ASSUME ThreadsAssumption == Threads \subseteq Nat
ASSUME FaultsAssumption == FaultCases \subseteq SUBSET FaultKinds

Chunk == 1 .. NumChunks
NoChunk == 0
NoWorker == 0

Busy == {"RESOLVING_DNS", "CONNECTING_TO_ENDPOINT", "WRITING_TO_SOCKET",
         "READING_CONTENT"}
Failed == {"FAILED_ON_RESOLVE", "FAILED_ON_CONNECT",
           "FAILED_ON_WRITE_TO_SOCKET", "FAILED_ON_READ"}
\* (a mistake one could make: a fresh worker is not taken)
UsedOnly == {"OK_STATUS"}
Usable == {"AWAITING_WORK", "OK_STATUS"}
Request == {"send_scene", "received_scene", "computed_pixels"}

VARIABLES
  numThreads,    \* the threads that run the io_service
  faults,        \* the faults that may come
  \* the pool m_AsyncRequests, by worker
  status,        \* m_CurrentStatus
  withStatus,    \* m_WithStatus
  withData,      \* m_WithData, NoChunk unless it is a computed chunk
  handler,       \* how far HandleRead of the worker is: [pc, arg]
  \* the chunk manager
  inputQueue, inputBuffer, outputQueue, outputBuffer,
  processDone,   \* m_PixelsProcessDone
  inputPc,       \* where AsyncInputProcessor is
  inputChunk,    \* its matrixLines, then computedChunk
  outputPc,      \* where AsyncOutputProcessor is
  outputWorker,  \* its networkWorker
  \* what the server has seen of this client
  given,         \* how many chunks it has sent here
  sent,          \* the chunks that were written back
  lost           \* the chunks that went down with a failed request

machine == <<numThreads, faults>>
poolVars == <<status, withStatus, withData>>
inputVars == <<inputQueue, inputBuffer, inputPc, inputChunk>>
outputVars == <<outputQueue, outputBuffer, outputPc, outputWorker>>
seenVars == <<given, sent, lost>>
vars == <<machine, poolVars, handler, inputVars, outputVars, processDone,
          seenVars>>

Worker == DOMAIN status

(***************************************************************************)
(* A handler is "none" while no handler of the worker is in the middle of  *)
(* its work.  "queueInput" is about to call QueueInputPixels with the      *)
(* chunk arg; "acquire", "create" and "request" are SaveScene, the last    *)
(* with the acquired worker arg.                                           *)
(*                                                                         *)
(* AsyncInputProcessor holds m_InputQueueMutex in "check", "drain" and     *)
(* "compute", AsyncOutputProcessor m_OutputQueueMutex from "enterWait" to  *)
(* "unlock" but for the wait.  Nobody else holds either for longer than    *)
(* one of the steps below.                                                 *)
(*                                                                         *)
(* m_WorkerStopped is set just before a Failed status, and only a fresh    *)
(* Client ever takes the place of a failed one: it says no more than the   *)
(* status does.                                                            *)
(***************************************************************************)
InputPcs == {"posted", "lock", "check", "waiting", "woken", "drain",
             "compute", "exited"}
OutputPcs == {"posted", "check", "enterWait", "waiting", "woken", "acquire",
              "create", "acquired", "unlock", "exited"}
HandlerPcs == {"none", "queueInput", "acquire", "create", "request"}

\* A mistake: no lock while the processor looks for a worker.
LocksToSendOnly == outputPc \in {"enterWait", "unlock"}

InputMutexHeld == inputPc \in {"check", "drain", "compute"}
OutputMutexHeld ==
  outputPc \in {"enterWait", "acquire", "create", "acquired", "unlock"}

TypeOK ==
  /\ numThreads \in Threads /\ faults \in FaultCases
  /\ status \in Seq(Busy \cup Failed \cup Usable)
  /\ withStatus \in Seq(Request \cup {"none"})
  /\ withData \in Seq(Chunk \cup {NoChunk})
  /\ handler \in Seq([pc : HandlerPcs, arg : Nat])
  /\ Len(withStatus) = Len(status)
  /\ Len(withData) = Len(status)
  /\ Len(handler) = Len(status)
  /\ inputQueue \in Seq(Chunk) /\ inputBuffer \in Seq(Chunk)
  /\ outputQueue \in Seq(Chunk) /\ outputBuffer \in Seq(Chunk)
  /\ processDone \in BOOLEAN
  /\ inputPc \in InputPcs /\ inputChunk \in Chunk \cup {NoChunk}
  /\ outputPc \in OutputPcs /\ outputWorker \in Worker \cup {NoWorker}
  /\ given \in Chunk \cup {0}
  /\ sent \subseteq Chunk /\ lost \subseteq Chunk

NoHandler == [pc |-> "none", arg |-> 0]

\* main: the first worker was told to ask for the scene and the two
\* processors were posted before any thread runs the io_service.
Init ==
  /\ numThreads \in Threads /\ faults \in FaultCases
  /\ status = <<"RESOLVING_DNS">>
  /\ withStatus = <<"send_scene">>
  /\ withData = <<NoChunk>>
  /\ handler = <<NoHandler>>
  /\ inputQueue = <<>> /\ inputBuffer = <<>>
  /\ outputQueue = <<>> /\ outputBuffer = <<>>
  /\ processDone = FALSE
  /\ inputPc = "posted" /\ inputChunk = NoChunk
  /\ outputPc = "posted" /\ outputWorker = NoWorker
  /\ given = 0 /\ sent = {} /\ lost = {}
-----------------------------------------------------------------------------
(* The threads of the io_service. *)

\* How many of them are in a handler that has not returned.
Occupied ==
  Cardinality({w \in Worker : handler[w].pc # "none"})
    + (IF inputPc \in {"posted", "exited"} THEN 0 ELSE 1)
    + (IF outputPc \in {"posted", "exited"} THEN 0 ELSE 1)

\* A mistake: a thread more than there are.
OneThreadMore == Occupied <= numThreads

ThreadFree == Occupied < numThreads

\* The io_service runs handlers in the order in which they became ready: only
\* the very first resolve can have completed before the processors were
\* posted.
HandlerStarts(w, atStatus) ==
  /\ ThreadFree
  /\ status[w] = atStatus /\ handler[w].pc = "none"
  /\ \/ inputPc # "posted" /\ outputPc # "posted"
     \/ atStatus = "RESOLVING_DNS"
-----------------------------------------------------------------------------
(* The workers: Client.cpp. *)

\* AsyncRequest on worker w: async_resolve is started.
AsyncRequest(w, word, data) ==
  /\ status' = [status EXCEPT ![w] = "RESOLVING_DNS"]
  /\ withStatus' = [withStatus EXCEPT ![w] = word]
  /\ withData' = [withData EXCEPT ![w] = data]

\* HandleResolve, HandleConnect, HandleWriteRequest without error.
HandleResolve(w) ==
  /\ HandlerStarts(w, "RESOLVING_DNS")
  /\ status' = [status EXCEPT ![w] = "CONNECTING_TO_ENDPOINT"]
  /\ UNCHANGED <<machine, withStatus, withData, handler, inputVars,
                 outputVars, processDone, seenVars>>

HandleConnect(w) ==
  /\ HandlerStarts(w, "CONNECTING_TO_ENDPOINT")
  /\ status' = [status EXCEPT ![w] = "WRITING_TO_SOCKET"]
  /\ UNCHANGED <<machine, withStatus, withData, handler, inputVars,
                 outputVars, processDone, seenVars>>

HandleWriteRequest(w) ==
  /\ HandlerStarts(w, "WRITING_TO_SOCKET")
  /\ status' = [status EXCEPT ![w] = "READING_CONTENT"]
  /\ sent' = sent \cup ({withData[w]} \ {NoChunk})
  /\ UNCHANGED <<machine, withStatus, withData, handler, inputVars,
                 outputVars, processDone, given, lost>>

\* Their error branches: HandleStop, then the status that says which.
\* Nothing repeats the request.
HandleError(w) ==
  /\ "link" \in faults
  /\ \/ /\ HandlerStarts(w, "RESOLVING_DNS")
        /\ status' = [status EXCEPT ![w] = "FAILED_ON_RESOLVE"]
     \/ /\ HandlerStarts(w, "CONNECTING_TO_ENDPOINT")
        /\ status' = [status EXCEPT ![w] = "FAILED_ON_CONNECT"]
     \/ /\ HandlerStarts(w, "WRITING_TO_SOCKET")
        /\ status' = [status EXCEPT ![w] = "FAILED_ON_WRITE_TO_SOCKET"]
  /\ lost' = lost \cup ({withData[w]} \ {NoChunk})
  /\ UNCHANGED <<machine, withStatus, withData, handler, inputVars,
                 outputVars, processDone, given, sent>>

\* HandleRead with an error.  The server closes the socket of a request for
\* work without an answer when it has no work.
HandleReadError(w) ==
  /\ "link" \in faults \/ withStatus[w] # "send_scene"
  /\ HandlerStarts(w, "READING_CONTENT")
  /\ status' = [status EXCEPT ![w] = "FAILED_ON_READ"]
  /\ UNCHANGED <<machine, withStatus, withData, handler, inputVars,
                 outputVars, processDone, seenVars>>

\* The last worker of the pool that FinishNetworkWorkers finds usable.
IsLastUsable(w) ==
  /\ status[w] \in Usable
  /\ \A v \in Worker : status[v] \in Usable => v <= w

NoneUsable == \A w \in Worker : status[w] \notin Usable

-----------------------------------------------------------------------------
(* Mistakes one could make in the code below; no behaviour of Spec takes   *)
(* these steps.  The properties are tested against each of them.           *)

\* OK_STATUS is not published before the scene is saved
SceneBeforeStatus(w) ==
  /\ HandlerStarts(w, "READING_CONTENT")
  /\ withStatus[w] = "send_scene"
  /\ handler' = [handler EXCEPT ![w] = [pc |-> "acquire", arg |-> NoWorker]]
  /\ UNCHANGED <<machine, poolVars, inputVars, outputVars, processDone,
                 seenVars>>

\* without the else branch
QueueInputNoBuffer(k) ==
  IF ~InputMutexHeld
    THEN /\ inputQueue' = inputQueue \o inputBuffer \o <<k>>
         /\ inputBuffer' = <<>>
         /\ inputPc' = IF inputPc = "waiting" THEN "woken" ELSE inputPc
    ELSE UNCHANGED <<inputQueue, inputBuffer, inputPc>>

\* without notify_one
QueueInputNoNotify(k) ==
  /\ inputPc' = inputPc
  /\ IF ~InputMutexHeld
       THEN /\ inputQueue' = inputQueue \o inputBuffer \o <<k>>
            /\ inputBuffer' = <<>>
       ELSE /\ inputBuffer' = Append(inputBuffer, k)
            /\ inputQueue' = inputQueue

\* back() without pop_back()
SendsWithoutPop ==
  /\ outputPc = "acquired" /\ outputQueue # <<>>
  /\ AsyncRequest(outputWorker, "computed_pixels", outputQueue[Len(outputQueue)])
  /\ outputPc' = "unlock" /\ outputWorker' = NoWorker
  /\ UNCHANGED <<machine, handler, inputVars, outputQueue, outputBuffer,
                 processDone, seenVars>>

\* the loop is left when there is nothing to send
LeavesWhenEmpty ==
  /\ outputPc = "acquired" /\ outputQueue = <<>>
  /\ outputPc' = "unlock" /\ outputWorker' = NoWorker
  /\ UNCHANGED <<machine, poolVars, handler, inputVars, outputQueue,
                 outputBuffer, processDone, seenVars>>
-----------------------------------------------------------------------------
\* HandleRead of "pixels_to_process": OK_STATUS is published, the chunk is
\* about to be queued.
HandleReadPixels(w) ==
  /\ HandlerStarts(w, "READING_CONTENT")
  /\ withStatus[w] # "send_scene" /\ given < NumChunks
  /\ given' = given + 1
  /\ status' = [status EXCEPT ![w] = "OK_STATUS"]
  /\ handler' = [handler EXCEPT ![w] = [pc |-> "queueInput", arg |-> given + 1]]
  /\ UNCHANGED <<machine, withStatus, withData, inputVars, outputVars,
                 processDone, sent, lost>>

\* HandleRead of "send_scene": OK_STATUS is published, SaveScene begins.
HandleReadScene(w) ==
  /\ HandlerStarts(w, "READING_CONTENT")
  /\ withStatus[w] = "send_scene"
  /\ status' = [status EXCEPT ![w] = "OK_STATUS"]
  /\ handler' = [handler EXCEPT ![w] = [pc |-> "acquire", arg |-> NoWorker]]
  /\ UNCHANGED <<machine, withStatus, withData, inputVars, outputVars,
                 processDone, seenVars>>

\* A mistake, or a remedy: the processors that wait are notified.
ByeWakesProcessors(w) ==
  /\ HandlerStarts(w, "READING_CONTENT")
  /\ status' = [status EXCEPT ![w] = "OK_STATUS"]
  /\ processDone' = TRUE
  /\ inputPc' = IF inputPc = "waiting" THEN "woken" ELSE inputPc
  /\ outputPc' = IF outputPc = "waiting" THEN "woken" ELSE outputPc
  /\ UNCHANGED <<machine, withStatus, withData, handler, inputQueue, inputBuffer,
                 inputChunk, outputQueue, outputBuffer, outputWorker, seenVars>>

\* HandleRead of "bye": nobody is notified.
HandleReadBye(w) ==
  /\ HandlerStarts(w, "READING_CONTENT")
  /\ status' = [status EXCEPT ![w] = "OK_STATUS"]
  /\ processDone' = TRUE
  /\ UNCHANGED <<machine, withStatus, withData, handler, inputVars,
                 outputVars, seenVars>>

\* QueueInputPixels: if the mutex is free the buffer and the chunk join the
\* queue and the processor is notified, which does nothing unless it waits;
\* if the processor has the mutex the chunk stays in the buffer.
QueueInputPixels(k) ==
  IF ~InputMutexHeld
    THEN /\ inputQueue' = inputQueue \o inputBuffer \o <<k>>
         /\ inputBuffer' = <<>>
         /\ inputPc' = IF inputPc = "waiting" THEN "woken" ELSE inputPc
    ELSE /\ inputBuffer' = Append(inputBuffer, k)
         /\ UNCHANGED <<inputQueue, inputPc>>

\* The rest of HandleRead of "pixels_to_process".
HandleReadQueues(w) ==
  /\ handler[w].pc = "queueInput"
  /\ QueueInputPixels(handler[w].arg)
  /\ handler' = [handler EXCEPT ![w] = NoHandler]
  /\ UNCHANGED <<machine, poolVars, inputChunk, outputVars, processDone,
                 seenVars>>
-----------------------------------------------------------------------------
(* The pool: FinishNetworkWorkers, TryToAcquireNetworkWorker.  One pass    *)
(* over the pool is one step: at most one worker changes its status        *)
(* meanwhile (OneErrand).                                                  *)

\* Every failed worker is replaced by a fresh one, which this pass does not
\* return.
FinishNetworkWorkers ==
  LET Fresh(w, field, old) == IF status[w] \in Failed THEN field ELSE old
  IN  /\ status' = [w \in Worker |-> Fresh(w, "AWAITING_WORK", status[w])]
      /\ withStatus' = [w \in Worker |-> Fresh(w, "none", withStatus[w])]
      /\ withData' = [w \in Worker |-> Fresh(w, NoChunk, withData[w])]

\* m_AsyncRequests.size() is read without the mutex, the worker is added
\* under it.
RoomInPool == Len(status) < ASYNC_CLIENTS_MAX

AddWorker(newHandlers) ==
  /\ status' = Append(status, "AWAITING_WORK")
  /\ withStatus' = Append(withStatus, "none")
  /\ withData' = Append(withData, NoChunk)
  /\ handler' = Append(newHandlers, NoHandler)

\* SaveScene called by the handler of worker w.
SceneAcquires(w) ==
  /\ handler[w].pc = "acquire"
  /\ FinishNetworkWorkers
  /\ \/ \E v \in Worker :
          /\ IsLastUsable(v)
          /\ handler' = [handler EXCEPT ![w] = [pc |-> "request", arg |-> v]]
     \/ /\ NoneUsable
        /\ handler' = [handler EXCEPT ![w].pc =
                         IF RoomInPool THEN "create" ELSE "acquire"]
  /\ UNCHANGED <<machine, inputVars, outputVars, processDone, seenVars>>

SceneCreates(w) ==
  /\ handler[w].pc = "create"
  /\ AddWorker([handler EXCEPT ![w] = [pc |-> "request", arg |-> Len(status) + 1]])
  /\ UNCHANGED <<machine, inputVars, outputVars, processDone, seenVars>>

SceneRequests(w) ==
  /\ handler[w].pc = "request"
  /\ AsyncRequest(handler[w].arg, "received_scene", NoChunk)
  /\ handler' = [handler EXCEPT ![w] = NoHandler]
  /\ UNCHANGED <<machine, inputVars, outputVars, processDone, seenVars>>
-----------------------------------------------------------------------------
(* AsyncInputProcessor. *)

InputStep(from, to) ==
  /\ inputPc = from /\ inputPc' = to
  /\ UNCHANGED <<machine, poolVars, handler, outputVars, processDone,
                 seenVars>>

\* A thread takes the posted processor, which then locks the mutex.
InputStarts ==
  /\ ThreadFree
  /\ InputStep("posted", "lock")
  /\ UNCHANGED <<inputQueue, inputBuffer, inputChunk>>

InputLocks ==
  /\ InputStep("lock", "check")
  /\ UNCHANGED <<inputQueue, inputBuffer, inputChunk>>

\* The test of the loop; the mutex is kept until the wait has begun.
InputWaits ==
  /\ ~processDone
  /\ InputStep("check", "waiting")
  /\ UNCHANGED <<inputQueue, inputBuffer, inputChunk>>

InputExits ==
  /\ processDone
  /\ InputStep("check", "exited")
  /\ UNCHANGED <<inputQueue, inputBuffer, inputChunk>>

InputSpuriousWakeup ==
  /\ "wakeup" \in faults
  /\ InputStep("waiting", "woken")
  /\ UNCHANGED <<inputQueue, inputBuffer, inputChunk>>

\* wait returns with the mutex.
InputResumes ==
  /\ InputStep("woken", "drain")
  /\ UNCHANGED <<inputQueue, inputBuffer, inputChunk>>

InputTakesChunk ==
  /\ inputQueue # <<>>
  /\ InputStep("drain", "compute")
  /\ inputChunk' = Head(inputQueue)
  /\ inputQueue' = Tail(inputQueue)
  /\ UNCHANGED inputBuffer

InputDrained ==
  /\ inputQueue = <<>>
  /\ InputStep("drain", "check")
  /\ UNCHANGED <<inputQueue, inputBuffer, inputChunk>>

\* A mistake: the mutex is not asked for.
QueuesDespiteMutex ==
  /\ inputPc = "compute"
  /\ outputQueue' = outputQueue \o outputBuffer \o <<inputChunk>>
  /\ outputBuffer' = <<>>
  /\ outputPc' = IF outputPc = "waiting" THEN "woken" ELSE outputPc
  /\ inputPc' = "drain" /\ inputChunk' = NoChunk
  /\ UNCHANGED <<machine, poolVars, handler, inputQueue, inputBuffer,
                 outputWorker, processDone, seenVars>>

\* The lines are traced; then QueueOutputPixels, the mirror image of
\* QueueInputPixels.
QueueOutputPixels ==
  /\ inputPc = "compute"
  /\ IF ~OutputMutexHeld
       THEN /\ outputQueue' = outputQueue \o outputBuffer \o <<inputChunk>>
            /\ outputBuffer' = <<>>
            /\ outputPc' = IF outputPc = "waiting" THEN "woken" ELSE outputPc
       ELSE /\ outputBuffer' = Append(outputBuffer, inputChunk)
            /\ UNCHANGED <<outputQueue, outputPc>>
  /\ inputPc' = "drain" /\ inputChunk' = NoChunk
  /\ UNCHANGED <<machine, poolVars, handler, inputQueue, inputBuffer,
                 outputWorker, processDone, seenVars>>
-----------------------------------------------------------------------------
(* AsyncOutputProcessor. *)

OutputStep(from, to) ==
  /\ outputPc = from /\ outputPc' = to
  /\ UNCHANGED <<machine, inputVars, outputBuffer, processDone, seenVars>>

OutputStarts ==
  /\ ThreadFree /\ inputPc # "posted"
  /\ OutputStep("posted", "check")
  /\ UNCHANGED <<poolVars, handler, outputQueue, outputWorker>>

\* The test of the loop, outside the mutex, and the lock.
OutputLocks ==
  /\ ~processDone
  /\ OutputStep("check", "enterWait")
  /\ UNCHANGED <<poolVars, handler, outputQueue, outputWorker>>

OutputExits ==
  /\ processDone
  /\ OutputStep("check", "exited")
  /\ UNCHANGED <<poolVars, handler, outputQueue, outputWorker>>

OutputWaits ==
  /\ OutputStep("enterWait", "waiting")
  /\ UNCHANGED <<poolVars, handler, outputQueue, outputWorker>>

OutputSpuriousWakeup ==
  /\ "wakeup" \in faults
  /\ OutputStep("waiting", "woken")
  /\ UNCHANGED <<poolVars, handler, outputQueue, outputWorker>>

OutputResumes ==
  /\ OutputStep("woken", "acquire")
  /\ UNCHANGED <<poolVars, handler, outputQueue, outputWorker>>

\* TryToAcquireNetworkWorker finds a worker; it is not reserved.
OutputAcquires ==
  /\ OutputStep("acquire", "acquired")
  /\ FinishNetworkWorkers
  /\ \E w \in Worker : IsLastUsable(w) /\ outputWorker' = w
  /\ UNCHANGED <<handler, outputQueue>>

OutputFindsNone ==
  /\ NoneUsable
  /\ OutputStep("acquire", IF RoomInPool THEN "create" ELSE "acquire")
  /\ FinishNetworkWorkers
  /\ UNCHANGED <<handler, outputQueue, outputWorker>>

OutputCreates ==
  /\ OutputStep("create", "acquired")
  /\ AddWorker(handler)
  /\ outputWorker' = Len(status) + 1
  /\ UNCHANGED outputQueue

\* With a worker and a chunk: the last one is sent and the loop left, the
\* mutex still held.
OutputSends ==
  /\ outputQueue # <<>>
  /\ OutputStep("acquired", "unlock")
  /\ AsyncRequest(outputWorker, "computed_pixels", outputQueue[Len(outputQueue)])
  /\ outputQueue' = SubSeq(outputQueue, 1, Len(outputQueue) - 1)
  /\ outputWorker' = NoWorker
  /\ UNCHANGED handler

\* With a worker and nothing to send: look for a worker again.
OutputFindsNothing ==
  /\ outputQueue = <<>>
  /\ OutputStep("acquired", "acquire")
  /\ outputWorker' = NoWorker
  /\ UNCHANGED <<poolVars, handler, outputQueue>>

OutputUnlocks ==
  /\ OutputStep("unlock", "check")
  /\ UNCHANGED <<poolVars, handler, outputQueue, outputWorker>>
-----------------------------------------------------------------------------
InputThread ==
  \/ InputStarts \/ InputLocks \/ InputWaits \/ InputExits \/ InputResumes
  \/ InputTakesChunk \/ InputDrained \/ QueueOutputPixels

OutputThread ==
  \/ OutputStarts \/ OutputLocks \/ OutputExits \/ OutputWaits
  \/ OutputResumes \/ OutputAcquires \/ OutputFindsNone \/ OutputCreates
  \/ OutputSends \/ OutputFindsNothing \/ OutputUnlocks

\* What the threads that are left do: a handler starts, or goes on.  The
\* server answers every request that reaches it.
NetworkThreads ==
  \E w \in Worker :
    \/ HandleResolve(w) \/ HandleConnect(w) \/ HandleWriteRequest(w)
    \/ HandleReadError(w) \/ HandleReadPixels(w) \/ HandleReadScene(w)
    \/ HandleReadBye(w) \/ HandleReadQueues(w)
    \/ SceneAcquires(w) \/ SceneCreates(w) \/ SceneRequests(w)

Next ==
  \/ InputThread
  \/ OutputThread
  \/ NetworkThreads
  \/ \E w \in Worker : HandleError(w)
  \/ InputSpuriousWakeup
  \/ OutputSpuriousWakeup

Spec == Init /\ [][Next]_vars

\* The threads run when they can, and the server answers.
FairSpec ==
  Spec /\ WF_vars(InputThread) /\ WF_vars(OutputThread) /\ WF_vars(NetworkThreads)
-----------------------------------------------------------------------------
(* Properties. *)

Elements(queue) == {queue[i] : i \in DOMAIN queue}

BusyWorkers == {w \in Worker : status[w] \in Busy}
ActiveHandlers == {w \in Worker : handler[w].pc # "none"}

\* How many things the client has to do: requests that are out, replies being
\* handled, chunks in a queue, in a buffer or in the input processor.
Errands ==
  Cardinality(BusyWorkers) + Cardinality(ActiveHandlers)
    + Len(inputQueue) + Len(inputBuffer) + Len(outputQueue) + Len(outputBuffer)
    + (IF inputPc = "compute" THEN 1 ELSE 0)

\* A client never has two things to do at once, however many workers and
\* threads it has: one request is out or one chunk is on its way between the
\* queues, the processors and the workers.  It is why TryToAcquire can hand
\* the same unreserved worker to two callers, why one pass over the pool sees
\* no half of a change, and why the server sees one request per client.
OneErrand == Errands <= 1

\* The chunk the client has and has not written, if any.
Outgoing ==
  {withData[w] : w \in {v \in Worker :
     status[v] \in {"RESOLVING_DNS", "CONNECTING_TO_ENDPOINT", "WRITING_TO_SOCKET"}}}
  \ {NoChunk}
Incoming == {handler[w].arg : w \in {v \in Worker : handler[v].pc = "queueInput"}}
Inside ==
  Outgoing \cup Incoming \cup Elements(inputQueue) \cup Elements(inputBuffer)
    \cup Elements(outputQueue) \cup Elements(outputBuffer)
    \cup ({inputChunk} \ {NoChunk})

\* Every chunk the server gave is still inside the client, was written back
\* or went down with a failed request: the two queues, the two buffers, the
\* processor and the workers pass it on without dropping it.  One that was
\* written back, or lost, is nowhere left inside: it is not written twice.
ChunksAccountedFor ==
  /\ 1 .. given = Inside \cup sent \cup lost
  /\ Inside \cap (sent \cup lost) = {}

\* The pool never grows beyond two workers, so two callers that both read its
\* size outside the mutex never make it larger than ASYNC_CLIENTS_MAX (4).
\* Unless waits wake up for nothing the first worker is even the only one: its
\* OK_STATUS is published before the chunk is, so whoever needs a worker
\* finds it, and after a failure nobody needs one.
PoolStaysSmall ==
  /\ Len(status) <= (IF "wakeup" \in faults THEN 2 ELSE 1)
  /\ Len(status) <= ASYNC_CLIENTS_MAX

\* The two processors eat two threads: where hardware_concurrency() returns
\* two or less, no request is ever written.
TwoThreadsAreTooFew ==
  numThreads <= 2 =>
    \A w \in Worker : status[w] \notin {"WRITING_TO_SOCKET", "READING_CONTENT",
                                        "OK_STATUS"}

\* A chunk that QueueInputPixels left in the buffer because the processor had
\* the mutex stays there: the next chunk that would take it along never comes.
StrandedForEver ==
  [][inputBuffer # <<>> => inputBuffer' = inputBuffer]_vars

\* What is on its way to the output queue.
Unsent ==
  Incoming \cup Elements(inputQueue) \cup Elements(inputBuffer)
    \cup Elements(outputBuffer) \cup ({inputChunk} \ {NoChunk})

\* The output processor looks for a worker and has nothing to send.
Spinning == outputPc \in {"acquire", "create", "acquired"} /\ outputQueue = <<>>

\* An output processor that looks for a worker with nothing to send never does
\* anything else: the queue stays empty and the mutex held, so that what is on
\* its way to the queue, or arrives later, never gets there and is not written.
SpinsForEver ==
  [][Spinning => /\ Spinning' /\ OutputMutexHeld'
                 /\ Unsent \subseteq Unsent' \ (sent' \cup lost')]_vars

\* Unless waits wake up for nothing, a processor that waits when the client
\* is told "bye" waits for ever, and the process does not end.
ByeWakesNobody ==
  [][(processDone' /\ "wakeup" \notin faults)
       => /\ inputPc = "waiting" => inputPc' = "waiting"
          /\ outputPc = "waiting" => outputPc' = "waiting"]_vars

\* A client that is stuck stays stuck, whatever still happens around it: the
\* stranded chunk, the processor that spins with all that waits for it, and the
\* one that waits at "bye".
StuckForEver == StrandedForEver /\ SpinsForEver /\ ByeWakesNobody

\* A chunk that arrives while both processors wait, and wait for a
\* notification, is computed and written back, or its request fails.
ChunkFlows ==
  \A k \in Chunk :
    ("wakeup" \notin faults
        /\ (\E w \in Worker : handler[w] = [pc |-> "queueInput", arg |-> k])
        /\ inputPc = "waiting" /\ outputPc = "waiting")
      ~> (k \in sent \cup lost)

\* TryToAcquireNetworkWorker, a loop without an end of its own, always
\* returns where network handlers have a thread: failed workers are replaced and
\* busy ones finish.
AcquireReturns ==
  (numThreads > 2 /\ outputPc = "acquire") ~> (outputPc = "acquired")

\* The server sends parts of the scene to a client "pentru ca acesta sa le
\* proceseze" (so that it processes them, docs/documentation_RO.docx, 4.1):
\* every chunk that arrives is written back, unless its request fails.
EveryChunkIsProcessed == \A k \in Chunk : (given >= k) ~> (k \in sent \cup lost)

\* What the server relies on: this client is a WorkPeer.
Alive == Errands > 0
PeerState ==
  IF processDone THEN "bye"
  ELSE IF ~Alive THEN "stopped"
  ELSE IF \E w \in BusyWorkers :
            status[w] \in {"WRITING_TO_SOCKET", "READING_CONTENT"}
    THEN "waiting" ELSE "idle"
PeerRequest ==
  IF processDone \/ ~Alive THEN "none"
  ELSE IF BusyWorkers # {} THEN withStatus[CHOOSE w \in BusyWorkers : TRUE]
  ELSE IF Inside # {} THEN "computed_pixels" ELSE "received_scene"
PeerChunk == IF Inside = {} THEN NoChunk ELSE CHOOSE k \in Inside : TRUE

Peer == INSTANCE WorkPeer
          WITH Chunks  <- Chunk,
               state   <- PeerState,
               request <- PeerRequest,
               chunk   <- PeerChunk

ImplementsWorkPeer == Peer!PeerSpec
-----------------------------------------------------------------------------
(* The inductive invariant: there is one task, whatever has become of it. *)

NoRequest == \A w \in Worker : status[w] \notin Busy
NoHandlerActive == \A w \in Worker : handler[w].pc = "none"

\* The chunks between the handlers and the workers.
InnerLength ==
  Len(inputQueue) + Len(inputBuffer) + Len(outputQueue) + Len(outputBuffer)
    + (IF inputPc = "compute" THEN 1 ELSE 0)

OneRequest ==
  \A v, w \in Worker : status[v] \in Busy /\ status[w] \in Busy => v = w
OneHandler ==
  \A v, w \in Worker :
    handler[v].pc # "none" /\ handler[w].pc # "none" => v = w

OneTask ==
  /\ OneRequest /\ OneHandler
  /\ NoRequest \/ NoHandlerActive
  /\ InnerLength <= 1
  /\ InnerLength = 0 \/ (NoRequest /\ NoHandlerActive)

\* After "bye" there is none.
NothingAfterBye ==
  processDone => InnerLength = 0 /\ NoRequest /\ NoHandlerActive

HandlersHaveArgs ==
  \A w \in Worker :
    /\ handler[w].pc = "queueInput" => handler[w].arg \in Chunk
    /\ handler[w].pc = "request" => handler[w].arg \in Worker

ProcessorsHaveArgs ==
  /\ outputPc = "acquired" => outputWorker \in Worker
  /\ inputPc = "compute" <=> inputChunk # NoChunk

\* Where two threads are all there are nothing gets past the first resolve.
TwoThreads ==
  numThreads <= 2 =>
    /\ ~processDone /\ inputPc # "exited" /\ outputPc # "exited"
    /\ \A w \in Worker : status[w] \in {"RESOLVING_DNS", "CONNECTING_TO_ENDPOINT",
                                        "FAILED_ON_RESOLVE", "AWAITING_WORK"}

IInv ==
  /\ TypeOK /\ OneTask /\ NothingAfterBye
  /\ HandlersHaveArgs /\ ProcessorsHaveArgs /\ TwoThreads

\* A failed request ends everything; and whoever needs a worker finds one, but
\* for an output processor that woke up for nothing.
SmallPool ==
  /\ \A v, w \in Worker : status[v] \in Failed /\ status[w] \in Failed => v = w
  /\ (\E w \in Worker : status[w] \in Failed)
       => InnerLength = 0 /\ NoRequest /\ NoHandlerActive
  /\ \A w \in Worker : handler[w].pc # "none" =>
       handler[w].pc # "create" /\ status[w] \in Usable
  /\ Len(status) >= 1 /\ PoolStaysSmall
  /\ outputPc = "create" =>
       /\ "wakeup" \in faults
       /\ Len(status) = 1 /\ ASYNC_CLIENTS_MAX > 1
  /\ "wakeup" \notin faults /\ outputPc \in {"woken", "acquire", "create", "acquired"}
       => outputQueue # <<>>
=============================================================================
