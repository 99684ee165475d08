# Distributed ray tracer: TLA+ models, model checking and proofs

This directory is a verification project for the distributed ray tracer in
`src/`: TLA+ modules that model how its server, its clients and its ray tracer
work, TLC configurations that check them on small instances, and TLAPS proofs of
the central results for every value of the parameters.

Contents: 1 the system, 2 the plan, 3 the models and the code, 4 the runs, 5
fairness, 6 the proofs, 7 what disagrees with the code's own words, 8 what is not
modelled.

## 1. The system

### Components

| component | code | state | operations | model |
|---|---|---|---|---|
| Server: distribution of the work | `AsyncServer/src/Server.cpp`, `ClientConnection.cpp`, `main.cpp` | the acceptor; one object per connection with its status and buffer; `m_InputQueue`, `m_OutputQueue`, `m_NumOfNetworkPackages`, `m_IsWorkDone` | accept, read a request, send the scene, hand out a chunk, take a result, say bye | `RayServer`, `WorkPool` |
| Server: image thread | `AsyncServer/src/main.cpp` (`ComputeReceivedDataAndCreateImage`) | `outputImageBuffer`, the condition variable `notifyNetworkIsDone` | wait, empty the output queue, write the picture | `RayServer` |
| Server: chunking | `AsyncServer/src/main.cpp` (`SerializeData`) | `serializedData` | cut the picture into chunks of lines | `Chunking`, `Assembly` |
| Client: network workers | `AsyncClient/src/Client.cpp` | per worker one status word, one request, one socket | resolve, connect, write, read, stop | `RayClient`, `WorkPeer` |
| Client: chunk manager | `AsyncClient/src/ChunksManager.cpp`, `main.cpp` | two queues with a side buffer each, two condition variables, the pool of workers | queue a chunk, compute, send, acquire a worker | `RayClient` |
| Ray tracer: what a ray meets | `RayTracer/src/Scene.cpp` (`PickClosestIntersection`, `HasClearLineOfSight`) | the list of intersections, the closest so far, the number of ties | pick, test the line of sight | `ClosestHit` |
| Ray tracer: recursion and optics | `Scene.cpp` (`TraceRay` ... `PolarizedReflection`), `Optics.cpp` | the stack of calls, each with a ray, its medium and intensity | light, refract, reflect | `RayTree`, `Trace` |
| Ray tracer: solids | `SolidObject*.cpp`, `Set*.cpp`, `Cuboid.cpp`, `Chessboard.cpp`, `ThinRing.cpp`, `TriangleMesh.cpp` | center, orientation, points, operands | move, turn, contain, cross | `Solids` |
| Ray tracer: finishing the picture | `Scene.cpp` (`ResolveAmbiguousPixel`, `CreateImage`, `SaveImage`), `ImageBuffer.h` | the buffer, the list of ambiguous pixels | heal, scale, down-sample | `Picture`, `Assembly` |
| PNG writer | `RayTracer/src/lodepng.cpp`, called by `CreateImage` and `SaveImage` | the pixels, the scanlines, the window and its hash chains, the coins and trees of a code, the chunks of the file | choose a color mode, filter, deflate, save; and the reader that undoes it | `PngWriter` and the seven modules it puts together |
| Serialization | `serialize()` of every class | the archive of a scene, a chunk or a result | save, load | `Solids` (`Load`), which fields survive |
| Algebra | `Algebra.cpp` | none | linear, quadratic, cubic, quartic equations | when `SolveLinearEquations` succeeds |
| Curved solids and polyhedra | `Sphere.cpp`, `Cylinder.cpp`, `Spheroid.cpp`, `Torus.cpp`, `Icosahedron.cpp`, `Dodecahedron.cpp`, `Planet.cpp` | geometry | contain, cross | none |
| Framing, `MutexedQueue`, logger, demo, unit tests | `Utils.cpp`, `MutexedQueue.cpp`, `Logger.cpp`, `Entrypoint.cpp`, `UnitTests.cpp` | | | none |

### How they interact

The server cuts the image into chunks of lines (`SerializeData`). A client
opens a connection for every request: `send_scene`, then `received_scene`
(answered with the first chunk), then `computed_pixels` (a result, answered
with the next chunk) until it is told `bye`. A request that finds no chunk left
while results are still missing is not answered at all: the handler returns
with no operation pending, so the connection object is destroyed and the client
reads an end of file. The request that finds no chunk left and all results back
is answered `bye`; then the flag `m_IsWorkDone` is set and the image thread
notified, which empties the output queue into the image buffer, heals its
ambiguous pixels and writes the picture.

On the server one thread runs the `io_service`, so handlers never overlap; the
image thread shares the output queue, the flag and the condition variable with
it. On a client `hardware_concurrency()` threads run one `io_service`. The two
processors of the chunk manager are posted to it and keep two of the threads
for themselves; the others run the handlers of the workers. A chunk goes from
the handler that read it through the input queue to the input processor, which
traces its pixels, and through the output queue to the output processor, which
takes a worker from the pool to send it.

Tracing asks the scene's solids for their crossings with a ray and picks the
nearest. If it is not unique, an exception gives the pixel up as ambiguous;
otherwise the light of the point is computed, which traces further rays. Which
solid a refracted ray is in is asked of the solids, not remembered.

The finished picture goes to the PNG writer in one call. `lodepng_encode`
chooses the color mode that takes the fewest bytes and converts the pixels,
`preProcessScanlines` filters the rows, `lodepng_deflatev` finds repetitions
block by block, codes what is left and describes the codes, and the chunks are
put together and saved. The library is vendored, but nothing this program
makes is seen except through it; its decoder, in the same file, is the
definition of what the file means.

### What is hard

* **Interleavings.** The output queue is emptied without its mutex; the flag is
  tested before the condition variable is waited for; a client's queues are
  taken with `try_lock`, with side buffers for when it fails; workers are
  acquired without being reserved.
* **Lost, late and spurious wakeups.** No wait tests a condition.
* **Failures.** Clients die with a chunk in hand, requests fail at four places,
  an error stops the acceptor for good, exceptions end the process.
* **Order.** Chunks come back in any order, ambiguous pixels are healed one
  after another, solids report crossings in any order, solids are moved and
  turned in any order, rays branch.
* **Numbers.** Borders of pictures of one pixel, sizes that do not divide,
  a tolerance that is not transitive, edges and faces at special angles; runs,
  distances and palettes at the limits of what the file format can say.
* **Stale state.** The hash chains of the deflate window keep links of bytes
  long overwritten, which may even be circular; a match that was put off is
  taken up again one byte later.
* **What nobody looks at.** `save_file` ignores whether the disk took the file.

### What makes each component correct

* Server: a chunk is handed out once, comes back once, is never forgotten; the
  work is done when all is back; the picture is whole and gets written; every
  request gets an answer or an end.
* Client: a chunk that arrives is computed once and sent back once; no thread
  waits or spins for ever; the pool stays within its limit.
* Chunking: every line in one chunk.
* Closest hit: shading by the nearest crossing, ambiguity only for real ties, no
  light through a solid and no shadow from behind the lamp.
* Solids: a composed solid moves as one body; its crossings are its boundary;
  it survives the archive.
* Tracing: the recursion is bounded, the medium is right, no light is created.
* Picture: one picture, however it was traced and in whichever order its columns came back.
* PNG writer: every stage can be undone, codes are as short as they can be, a file
  that was cut off is refused by a reader, and every loop ends.

The hazards behind these, each at the line where it bites, are listed with the
properties that watch them in `PROJECT.json`.

## 2. The plan

Done, in this order (most important first):

1. `WorkPool`, `RayServer` with its runs, `RayServerInv`, `RayServerProofs`.
2. `WorkPeer`, `RayClient`.
3. `Chunking`, `ClosestHit`, `Picture` with their proofs.
4. `Solids` (operators only), `RayTree` (the recursion and its light) with
   `RayTreeProofs`, and `Trace`, which composes scene, archive, camera and recursion.
5. `Assembly`, which composes `Chunking` and `Picture`, with the proof that it
   implements both.
6. `RayClientProofs`: safety of the client and `ImplementsWorkPeer`.
7. The PNG writer: `PngColor`, `PngFilter`, `Lz77`, `Huffman`, `CodeLengths`,
   `DeflateTokens`, `PngFile`, composed by `PngWriter`; `HuffmanProofs`
   for package-merge and its codes, `DeflateProofs` for what a block tells of itself,
   and `PngWriterProofs` for the other stages and for the writer put together.
8. `OnePicture` for every size (`PictureProofs`).

Next:

9. `RayFarm`: `RayServer` with several `WorkPeer`s in the place of its own
   clients, so that the two halves meet in one state machine; what the whole
   farm guarantees when a client stalls (it is `WorkGetsDone` that then fails).
10. `Framing`: the loops of `Utils.cpp` over short reads up to the separator.
11. A core of `Solids` without recursive operators (a set of cuboids as a
   Boolean formula over numbered leaves), to prove what `RigidMotion` and
   `CrossingsAreBoundary` check; oblique refraction with tabulated sines.

Abstract specifications: `WorkPool` (what the server promises) and `WorkPeer`
(what a client is for the server) are stated and refined; `Chunking` and
`Picture` are what `Assembly` implements; for the PNG writer the abstract
specification is its reader.

## 3. The models and the code

Names are those of the source wherever TLA+ allows it. `PROJECT.json` maps every
definition to the lines it models. In most modules a few definitions are headed
*mistakes one could make*, or *mutant*: they are variants of an action or operator
with a plausible error in it, used by no specification; replacing the right
definition by such a variant violates the property it is paired with.

### RayServer (with WorkPool, RayServerInv, RayServerProofs)

The clients are there as the server sees them on the wire: `PeerSend` is
everything up to the established connection, `PeerReceive` the handling of a
reply, `PeerFail` any error or the end of the process. Each `HandleRead...`
action is `ClientConnection::HandleRead` for one status word, split where it
calls `HandlePixelRequest` because the image thread may run in between;
`handler` is the place of the running handler, and no other handler starts
while there is one. The three last steps of the final handler (count, flag,
notification) are three actions. A connection object lives exactly as long as
an operation is pending on it (`pending`), since the operation holds its only
`shared_ptr`. `CheckWorkDone` ... `CreateImage` are the image thread, with
`waiting` the only state in which a notification has an effect. Faults come in
three kinds, chosen by the constant `Faults`: `link`, `accept`, `wakeup`.
`StartThrows` is the exception of `remote_endpoint()` that ends the server if
a client resets its connection before it was accepted; it needs no constant
as it follows from the client's failure.

`WorkPool` knows only chunks to do, out, and returned, and whether the work is
done. `RayServer` implements it under the mapping in `Pool`.

### RayClient (with WorkPeer, RayClientProofs)

One action per handler (`HandleResolve`, `HandleConnect`, `HandleWriteRequest`,
`HandleRead...`, `HandleError`), the steps of `SaveScene` and
`TryToAcquireNetworkWorker` where it reads the pool with and without the
mutex, and one action per segment of the two processors between locks,
waits and calls. The mutexes are not variables: who holds one can be read off
the program counters (`InputMutexHeld`, `OutputMutexHeld`), and `try_lock` is
the test of these. `ThreadFree` says whether the pool of threads has one left to
start a handler: a processor occupies one from its first step on. The server
is whatever sends chunks, a scene, or `bye` in answer to a request.

`WorkPeer` is the protocol a client follows: one request at a time, the scene
first, each chunk returned at most once. `RayClient` implements it.

### Chunking

`StartChunk`, `FillChunk`, `EndLoop` are one round of the loop of
`SerializeData`, `LastChunk` its epilogue. `Computed` is the double loop that
turns a chunk into pixels on the client. A "line" is a column of the buffer,
as in the code.

### ClosestHit

A scene is abstracted to the squared distances at which each solid reports
crossings. One action per round of the loop of `PickClosestIntersection`,
with the three outcomes of the comparison (tie, closer, farther), and the two
callers around it. Distances and `EPSILON` are integers of a small unit, which
loses nothing, as the code only subtracts and compares them.

### Picture

`saving` chooses between `Scene::SaveImage` (pixel by pixel, listing ambiguous
pixels on the way) and the server (columns in any order, then a search).
`Heal` is one call of `ResolveAmbiguousPixel` with its window cut at the
borders, `MaxColorValue`, `Encode` and `EncoderFails` are `CreateImage` and
the tail of `SaveImage`. Colors are integers, divisions round down; the
test instance uses colors that divide evenly. An ambiguous pixel's color starts
black, as `GetPixelAt` leaves it.

### Assembly

Composes the two: the image is cut (`Cut`), the chunks wait in `outputQueue` in no
particular order, and the image thread takes one (`PopChunk`) and paints its
columns from left to right (`PaintLine`) until the queue is empty
(`QueueIsEmpty`), whether or not all columns are there; then comes `Picture`.
That each chunk is in the queue exactly once is what `RayServer` and `RayClient`
show. `Assembly` implements `Chunking` and `Picture`, whose columns come in any
order of their own.

### Solids, RayTree and Trace

`Solids` has no variables. A solid is a record tagged with its class; `Move`,
`Rotate`, `Contains`, `AppendAllIntersections` and `SurfaceOptics` are the
virtual functions by cases. Coordinates are integers and points are fractions
`<<p, w>>`, so no rounding is involved: what the code forgives by `EPSILON`
here either holds or does not. The three attempts at the equations of a
triangle are modelled by when each succeeds (`Solves`) and by the solution,
which is unique and computed by Cramer's rule. `ContainsThrows` and `AppendThrows` say
where "Cannot determine containment." is thrown. `Load` overwrites the fields
an archive names in a default-constructed object.

`RayTree` is the recursion. A frame of `stack` is a call of `TraceRay` with the
`CalculateLighting` it makes; the stages of a frame are the places where it
calls on. `TreeHit`, `TreeBackground` and `TreeLeave` are what `TraceRay` may find,
`StopRecursion` is the two limits, `TreeOpaque` and `TreeRefract` are the matte light
and the call of `CalculateRefraction`, which may end in `TreeTotalReflection`;
`TreeReflect` and `NoReflection` are the call of `CalculateReflection` or its omission. An
ambiguous hit unwinds the whole stack to `GetPixelAt`; any other exception
ends the client (`TreeFails`). What the scene answers is a parameter of the step that
asks, and `TreeNext` takes any answer: any surface, any share of the lamps' light, any
part reflected. A color is told by its two sources, in units of the background and of the
brightest light that the lamps cast on a point, so that it says of the light
only how it is mixed.

`Trace` gives the answers. It composes a scene by moves and turns of its solids
(`Compose`), sends it (`SendScene`), and shoots one ray after another (`Shoot`).
Each of its steps is a step of `RayTree`, with an answer found in the scene, joined to what
becomes of `rays`, which has for each frame where its ray is, in which medium,
and what it meets. That the answers are such as `RayTree` allows (no more light
than there is, no more reflected than arrives) is the property `TreeSpec` of the run
`trace`. Rays are followed as long as they meet faces at right angles and at
points with integer coordinates; others end as `slanted`, and only what they
meet first is looked at.

### PngWriter

Each stage is a module with the writer's half and the reader's half, run one
after the other, so that what the reader gets back can be compared with what the
writer was given.

| module | code | one step is |
|---|---|---|
| `PngColor` | `get_color_profile`, `doAutoChooseColor`, `lodepng_convert`, `getPixelColorRGBA8` | a pixel of the profile; the choice; the conversion |
| `PngFilter` | `preProcessScanlines`, `filter`, `filterScanline`; `unfilter`, `removePaddingBits` | a filter type tried for a row; a byte restored |
| `Lz77` | `encodeLZ77`; `inflateHuffmanBlock` in lockstep | a place of the chain visited, a byte compared, a token put out, a byte copied |
| `Huffman` | `lodepng_huffman_code_lengths`, `makeFromLengths2`, `make2DTree`, `huffmanDecodeSymbol` | a round of the comb sort or of the merging; a bit entered in the tree; a symbol decoded |
| `CodeLengths` | `deflateDynamic`; `getTreeInflateDynamic` | a run of code lengths written, or read |
| `DeflateTokens` | `addLengthDistance`, `writeLZ77data`; `inflateHuffmanBlock` | a token encoded, counted, written, read |
| `PngFile` | `lodepng_encode`, `preProcessScanlines`, `addChunk`, `save_file`; `lodepng_inspect`, `lodepng_decode` | the scanlines made, or not for want of memory; a chunk added, or dropped; the file saved up to some byte; a chunk checked |

`PngWriter` hands the converted picture to the filter (`HandToFilter`) and the
filtered rows to deflate (`HandToDeflate`), as `lodepng_encode` and
`addChunk_IDAT` do. The last four stages have inputs of their own, because
what matters in them is at the limits of the format and no small picture gets
there. The parts of the program that do not matter to a stage are
parameters: `Lz77` is written for any window, block size, hash and limits.
A bit of the stream that belongs to a Huffman code is not split: `DeflateTokens`
has the symbol in its place, `Huffman` shows that the bits give the symbol.

## 4. The runs

| run | instance | states | what it shows |
|---|---|---|---|
| `server_safety` | 3 chunks, 2 clients, 3 connections, clients may fail, fair server | 463 536 | no chunk vanishes, no race on the output queue, pictures are complete, clients are only dropped while others work, every request ends, a notified image thread writes the picture |
| `server_faults` | the same with all faults, symmetric clients and connections | 1 093 543 | no chunk is ever in two places, the flag means all is back, the server implements `WorkPool` |
| `server_fair_clients` | the same with no faults and clients that do not stall | 151 071 | the work gets done, also with dropped clients; late clients are told bye |
| `server_lost_wakeup` | 1 chunk, 1 client, 2 connections | 420 | violated: the picture need not be written |
| `client_safety` | 5 chunks, 2 workers, 0 to 4 threads, with failures, with and without spurious wakeups | 10 153 | one errand at a time, every chunk accounted for, a small pool, a client that is stuck stays stuck, with the mutex and all that waits for it, that a worker is found, a chunk flows, two threads are too few, the client implements `WorkPeer` |
| `client_stall` | 1 chunk, 4 workers, 3 threads, no faults | 276 | violated: a chunk may never be processed |
| `assembly` | 7 sizes up to 8 pixels, 2 colors or ambiguous, chunks of 1, 2, 3 and 5 columns in any order | 1 572 930 | each pixel once, healing, one picture, no pixel outside |
| `closest_hit` | up to 4 crossings with one solid or 2 with each of two, `EPSILON` 2 | 28 287 | nearest, ambiguous, shadows |
| `trace` | 7 scenes, 2 moves or turns | 13 133 | rigid motion, boundaries, media, light, failures at seams, the steps are those of `RayTree` |
| `scene_archive` | a planet with a ring | few | violated: the scene does not arrive |
| `mesh_faces` | a block of quads | few | violated: faces are not met |
| `png` | some 520 pictures, images for every filter type, a window of 10 bytes, frequencies up to 7 symbols, all lengths and distances at the limits | 292 774 | every stage is undone by its reader, codes are the shortest, a file that is cut or lacks a chunk is refused, every loop ends |

Why these bounds are enough:

* **Server.** Two clients are needed for one to be dropped while the other still
  computes, three chunks for one to be queued while two are out, three
  connections for one in each of reading, writing and being accepted. The proofs
  of section 6 remove these bounds for all safety properties. Spurious wakeups
  are in `server_faults` only; properties that need their absence say so in
  their first line.
* **Client.** `OneErrand` shows that one chunk is inside at a time, so that the
  number of chunks only bounds how long the history is: five allow the wakeup,
  the buffer, the failure and the refill to happen one after the other. The pool
  limit is 2 in `client_safety`, less than the 4 of the code, so that reaching
  it is possible; `PoolStaysSmall` shows that a pool of 2 is all that is used.
  0 to 4 threads cover all cases of two processors with and without one or two
  spare threads. The proofs remove these bounds for all safety properties.
* **Assembly, closest hit.** Sizes on both sides of each other, zero and
  one included; windows at every border and corner; ties in chains longer than
  `EPSILON`. The proofs remove these bounds.
* **Trace.** Each scene is there for something: `Block` is the concrete block of the
  program's unit tests (a difference with a nested union), `Mirrors` reaches the
  depth limit, `Lens` branches in a union, `Nested` is a refraction between
  two media inside a difference, `Board` has a lamp, squares and touching
  solids (ambiguous hits), `Frustum` is a mesh with edges above the camera's
  rays, `Cut` a mesh in an intersection, which may throw. Two moves or turns
  reach every product of two generators, such as a turn of what was moved. The depth limit
  is 4 (20 in the code) and an intensity below 1/64 is insignificant (1/1000 in the
  code): both limits are reached. The proofs remove the bounds on the light and on the
  depth. Divisions round down, so `NoLightFromNothing` is about the shares that
  are passed on, not about rounding.

* **PNG writer.** The window is 10 bytes (2048 in the program), so that inputs of
  up to 33 bytes go around it three times and its chains hold stale and circular links;
  blocks are 8 bytes, matches at most 7, and a hash takes three values, so
  that unequal bytes collide. The palette holds 18 colors (256), one more than
  4 bits can number, and pictures have one color less and more. Lengths of codes
  come in runs of every length around 3, 6, 10, 11, 138, the limits of the
  repeat codes. All 256 match lengths and both ends of all distance ranges up to 2048
  occur. Frequencies include Fibonacci numbers, whose best code is longer than
  allowed. The proofs remove all these bounds: on colors,
  scanlines, repetitions, codes, their description, the tokens and the file. What remains of
  them for the codes is `IsCodeInput`: a limit of at most 15 bits, as the format has it, with
  room for a code of each symbol (`lodepng_huffman_code_lengths` returns an error
  otherwise), and fewer symbols than the cells of the tree can number (2 * 288
  are needed, 32767 is the mark of an empty cell).

`CHECK_DEADLOCK FALSE` is in every configuration but that of `png` because the
models may really stop: the server's image thread ends or waits for ever, a client waits after
`bye`, algorithms end. `PngWriter` may only stop when all is done, which is
its action `Terminating`; in any other state a deadlock would be reported.

## 5. Fairness

* `ServerFairness`: the network thread and the image thread are threads that
  run when they can, and what has reached a client's socket is read by its
  `io_service`. Nothing is assumed of a client between a reply and its next
  request. Weak fairness suffices, as a step of either thread stays enabled
  until that thread takes it.
* `ClientFairness`: a client that has a reply goes on to its next request.
  It is an assumption about clients which the client's code does **not** guarantee
  (run `client_stall`); only `server_fair_clients` and `server_lost_wakeup` use
  it, to ask what the server does with clients that are well.
* `RayClient!FairSpec`: each processor, once it runs, and the remaining threads
  together go on when they can, and the server answers. If there is no thread
  left, nothing is assumed.
* `PngSpec`: the writer is one thread that waits for nothing, so a step that is possible is
  taken: weak fairness of the whole next-state relation, for `WriterEnds`.
* `Chunking`, `ClosestHit`, `Picture`, `Assembly`, `Trace`: none; only safety is claimed.

## 6. The proofs

All are checked by TLAPS for every value of the constants, under the named
assumptions in the modules (finite or infinite sets of clients and connections,
any number of chunks, any set of faults; any widths and sizes; any scenes of
squared distances and positive `EPSILON`; any picture sizes and colors; any
surfaces, intensities and limits of the recursion; any bytes, pixels and palettes; any
frequencies of symbols).

**RayServerProofs.** `NoChunkDuplicated` and the others are not inductive: that a
result is not counted twice depends on who may send a request at all. The
invariant `IInv` (module `RayServerInv`) adds

* the input queue is a prefix of the chunks, so that having been handed out
  is a matter of numbers (`QueueIsPrefix`, `ChunksApart`, `ChunksKept`);
* a client's request is in one place, in the backlog or on one connection, and a client
  that is served has no other (`OneUnreadRequest`);
* a client holds a chunk exactly if its next request will return one
  (`HoldsWhatItWasGiven`);
* after the count nothing is out, the flag is set between count and
  notification, and the image thread works only after a notification
  (`CountedMeansReturned`, `FlagBeforeNotify`, `PaintsAfterNotify`).

There is one lemma per group of actions and conjunct. From `IInv` follow type
correctness, all safety properties of the runs, the action property
`DroppedOnlyIfOthersWork`, that the test of `HandleRead` for the status
`INPUT_QUEUE_EMPTY` is dead code (`EmptyStatusIsNeverRead`), and that the server
implements `WorkPool` (`ServerImplementsWorkPool`: initial states map to
initial states, each step to a step or a stutter).

**ClosestHitProofs.** The tolerance is not transitive, so the count of ties is not
the number of crossings within `EPSILON` of the picked one. What is invariant is
that nothing seen is closer than the picked one by `EPSILON`, that with a count of one everything
else seen is strictly farther, and that otherwise a tie was seen
(`PickIsRight`). Hence shading, ambiguity, background and shadows are right.

**PictureProofs, Chunking.** The invariant says that the chunk being filled is the tail of
the lines seen, that complete chunks lie below it, ascend, and cover everything
below it. Hence no line twice, no line missing, even chunks, and that painting
the chunks paints each pixel of the buffer exactly once (`PaintingIsExact`).

**PictureProofs, Picture.** Every pixel of the buffer is either final or still as traced and
listed (`Healing`); a healed pixel keeps its mark, so that the average of its
neighbours never takes it in. Hence `HealedFromTraced`, and that no pixel outside
the buffer is asked for (`PixelNeverThrows`). `OnePicture` says what the finished
picture is by a definition of its own: each byte is the average of its patch of the
buffer, scaled by the brightest channel that occurs. For it the invariant also keeps where `CreateImage` is
(`Creating`): the bytes so far are those of the patches so far. The arithmetic needs that
a sum over a finite set of numbers is at most as many times the greatest of
them, so that an average is at most the maximum, and the scaled byte is never clamped.
Sums and maxima of finite sets are not in the library's theorems; they are shown
by induction in its form for sets (the set of the numbers for which the claim fails
has a least element), which does not need an operator as a parameter.

**PictureProofs, Assembly.** It implements `Chunking` (`AssemblyCuts`: the steps
that do not cut leave the chunks alone) and `Picture` (`AssemblyFinishes`). The
second needs an invariant, as `Picture` paints a column only if it is missing and ends only when
none is: a column is missing from the buffer exactly if it is in one
queued chunk, in what is left of the one being painted, or not yet cut
(`AssemblyIInv`), which in turn needs what is shown of finished chunks by the
invariant of `Chunking`. What was proved of `Picture` and `Chunking` then holds of the assembled picture:
above all, it is the picture that `SaveImage` makes (`AssemblyMakesThePicture`).

**RayTreeProofs.** `NoLightFromNothing` is about the pixel, that is about the end of a
recursion of any shape; what is invariant is a budget for each call on the stack
(`LightIsSpent`): what it has collected, what the call it waits for has
been given, and what it will still reflect are together no more than the intensity it was called
with. A surface splits this into an opaque and a transparent part, the one into
matte and gloss, which `Optics` keeps to at most one, the other into
refracted and reflected. Each product is rounded down, and the lemmas show that
the rounded parts do not add up to more than the whole. With
`CallersWait` (a call that waits has asked for light already and was below the limit)
this is inductive (`TreeIInv`). From it also follows that the stack never has more than
`MAX_OPTICAL_RECURSION_DEPTH + 1` frames (`RecursionEndsAtLimit`), total internal
reflection included, which the rays of `Trace` never meet. `Trace` itself is out of the
prover's reach, as `Solids` is recursive; that its steps are those of `RayTree` is checked by TLC.

**RayClientProofs.** The invariant says that the client has a single task: a
request on its way, a running handler, a processor at work on a chunk are never
two at a time (`OneErrand` is part of it), although nothing in the code reserves a worker. From it follow that
the pool stays at one worker, two after a spurious wakeup, that no chunk is lost or returned
twice (`NoChunkIsDropped`), and step by step that the client follows
`WorkPeer` (`ClientImplementsWorkPeer`). `StuckForEver` says where it gets
stuck: stranded chunks stay, and one that waits at `bye` waits for ever. A processor that
spins does so with an empty queue and the mutex held, and both last: a step that could fill the
queue needs the mutex, so that what is on its way to the queue, computed or not, is neither
written nor lost but stays where it waits (`SpinnersSpinOn`). That no other handler could send or lose
it meanwhile is where the single task is needed. With two threads nothing is ever written (`TwoThreadsAreTooFew`).

**PngWriterProofs, Lz77.** For every input, window, hash and limits. Why stale links do no
harm: until the window has been filled once no link leads forwards and no head is a
place not entered (`ChainsLeadBack`), so that no offset reaches before the first
byte; after that every offset below the window's size does lie in the input,
and the bytes are compared with the input anyway, so that a match found, or put
off, repeats what is there (`MatchesRepeat`). The reader copies one byte at a
time from its own output, which may overlap what it is writing; what it has copied is
periodic in the offset (`CopiesInTurn`). Hence what the reader has is at each step the part of
the input that was encoded (`DeflateIsLossless`).

**DeflateProofs.** For any lengths of codes and any tokens a block may have; both
invariants assign to the pieces that are written the places where they begin, so that
it does not matter how many there are or of what kind.

* The lengths (`LengthsComeBack`). Each code with its repetitions tells some of the lengths, from one
  place up to the next (`Tells`), the first from 0 and the last to where the encoder is
  (`ToldUpTo`); a run that is cut into a length, sixes and a rest is told by these together
  (`EncodeRepeatsInv`). The reader has the lengths up to the place it has read to, so a 16
  at the border of the literal and the distance lengths finds the length before it. What of
  `bitlen_cl` is not in the file is zero (`HeaderTells`).
* The tokens (`TokensComeBack`). Each length and distance is in the range of
  the one code the bisection finds (`LengthFound`, `DistanceFound`), and its difference to
  the base fits into the extra bits; so a token is the base its codes name and the value of
  its fields (`CodesTell`), and a field is read as it was written (the sum of its bits by their
  weights). The stream consists of block heads, tokens and
  ends (`Between`), marked by where they begin; the reader is always at a mark
  (`Inflating`), and at the last mark exactly if the last head said so. That each
  symbol written has been counted needs that both passes go along the values in the same
  steps (`ValuesFrom`).

**HuffmanProofs.** `CodeIsOptimal` is the theorem on package-merge, and `CodeIsDecodable`
needs from it that the lengths satisfy Kraft's inequality. The invariant is `CodeIInv`.

* The rows (`RowIInv`). A pick is a choice of coins of a row; it counts each symbol as
  often as its coins have it, and so is a list of code lengths. A row is good (`GoodRow`) if
  its coins weigh what their symbols do, any lightest coins of it give lengths of exactly the
  width that many coins are worth (`Fills`), and lengths of that width do not cost less
  (`Saves`). The sort keeps that, as a swap only gives places other names (`SwapGood`);
  pairing doubles what a coin is worth, and adding the symbols' coins
  adds one bit (`AddSymbolsGood`): of the lengths to compare with, the symbols with an odd share are what
  is picked of the new coins, the rest can be halved. The sort ends only when a pass with gap 1 swaps
  nothing, and then the row is in order (`PassSorted`), so that the first coins are the
  lightest. `2 * numpresent - 2` coins of the last row therefore fill Kraft's sum exactly and cost the
  least (`BestFound`). The row before is always long enough for them, and never longer than its memory.
* The codes. `makeFromLengths2` lays them end to end, the shorter first: seen as shares of the
  whole, no two overlap and none is past the end (`CodeStarts`, `CodesInside`). That
  `blcount[0]` is counted along moves all codes, but only by whole turns that are cut off.
* The tree. Each cell stands for a path, and leads to a node, a symbol or nothing
  according to the codes entered so far that begin with it (`TreeShape`, `Labelled`). A code never meets a
  symbol's cell, as another would be its prefix. The memory is enough, because in the
  middle of each node's share another code begins, so that there are fewer nodes than symbols
  (`NodeCount`). In the finished tree the bits of each code lead to its symbol (`TreeLeads`).

Only the weights are exact here and rounded in the code (section 8).

**PngWriterProofs.** The other stages, and then the writer put together.

* The file (`FileWholeOrRefused`). Where the writer is and what it has dropped tell which chunks it
  has put out and how long they are (`Writing`), and where the reader is tells what it has taken from
  them (`ReadingChunks`); so the reader of a file cut off anywhere meets a chunk that
  is not whole, or a size too short, before it has seen the end, and reports an error. It does so
  too if a chunk was dropped: without the header the file begins with another name, without the palette
  an index finds no color, without the end the loop runs into the end of the file.
* The colors (`ColorLossless`). While the profile is taken, the palette holds exactly the
  different colors seen, until there are too many, and the number of bits is
  enough for every grey so far. So whichever mode is the cheapest, each pixel can be
  told in it. The converted bytes are packed with bits in the reverse order; what is
  read from a place depends on no other place (lemmas on `AddColorBits` and `ReversedBits`).
* The scanlines (`FilterIsUndone`). The writer predicts from original bytes, the
  reader from restored ones; a prediction looks only at bytes to the left and
  above (`PredictedFromTheLeft`), so that if these are restored the two predictions
  are equal and the difference modulo 256 can be undone. It does not matter which filter
  type a row was given. Bits packed into bytes come apart again (`UnpackedIsRow`).
* The whole (`WriterStagesHold`). In `PngWriter` a stage may also wait for one
  before it. The steps of each stage leave the others alone (`StagesApart`); what remains are the two
  hand-overs. The picture as it was converted has rows of equal length, of bits or of
  bytes, as the filter needs (`ConvertedIsImage`), and what is put out
  by the filter are bytes, as `Lz77` assumes of its input (`FilteredBytesAre`, by
  induction over the rows). Then colors, scanlines, repetitions, codes, blocks and the file
  are each restored by their reader, for every picture that goes through them
  one after the other (the codes, blocks and the file with inputs of their own, see section 3). `WriterAssumption` (the bytes 0 to 255 are among the bytes of the deflater) is
  what joins the two modules' parameters.

The hash of `Lz77` is a parameter, mixed from one byte after another (`HashStep`), as
nothing may depend on which hash it is.

Only model-checked, and why:

* all liveness, among it `AcquireReturns`, `ChunkFlows` and `WriterEnds`, and
  the link of fairness to it: out of the prover's reach;
* `RigidMotion`, `CrossingsAreBoundary`, `MediumIsRight`, `FailsOnlyAtSeams` and
  `TreeSpec` of `Trace`, as its solids are nested and the operators on
  them recursive, which the prover does not take. For scenes with meshes the first four are
  also facts of geometry: that a ray leaves a closed surface as often as it enters it. No
  assumption on a mesh that the code makes would give that.

Induction over Nat or over a finite set works with a set in the place of the library's operator,
so what a recursive *function* computes can be proved; what a RECURSIVE
*operator* computes cannot. Type invariants are proved where there are proofs and then not run
again.

## 7. Where the code does not do what is said of it

| run | property | what happens |
|---|---|---|
| `server_lost_wakeup` | `WorkDoneLeadsToPicture` | The image thread tests the flag, then waits. If flag and notification come between the two, it waits for ever; if they come before the test, it leaves without having painted anything. In either case no picture is written. |
| `client_stall` | `EveryChunkIsProcessed` | A chunk that arrives while the input processor holds the mutex goes to the side buffer, from which only the next chunk would take it, but there is none before this one is returned. A notification before the processor waits is lost likewise. |
| `scene_archive` | `SceneArrives` | `ThinRing::serialize` names `r1` twice and `r2` never: a ring arrives with an outer radius of 0 and nobody sees it. |
| `mesh_faces` | `TrianglesAreMet` | `SolveLinearEquations` divides by what for a triangle is the z component of its normal, in each of the three orders of its corners: a triangle parallel to the z axis is never met. |

`EveryRequestEnds` holds under the `link` fault only. A comment in `Client.h` speaks of a timer
that closes sockets which do not respond; no timer exists. If accepting a
connection fails once, no further connection is accepted, and later clients
wait for ever.

`lodepng.h` promises a non-zero code "if there was an error", but `lodepng_encode` drops the error
codes of `preProcessScanlines` and of three of the four chunks it adds: if their memory cannot be
had it returns 0 with a file that lacks its header, palette or end, or whose scanlines are what
`malloc` left there. `PngFile` has these failures, and `WholeOrRefused` says how far a reader
makes up for them: a file that lacks a chunk is refused, scanlines that were never made may be shown.

The following hold but may surprise: two hardware threads or fewer are too few
for a client (theorem `TwoThreadsNeverWrite`); an output processor woken for nothing
spins for ever holding the mutex, and no chunk gets past it (`SpinsForEver`); no processor is woken by `bye`, so
that a client process does not end (theorem `ByeIsNotHeard`); a mesh ends the client
if containment is asked for a point right below one of its edges
(`FailsOnlyAtSeams`).

## 8. What is not modelled, and why

* Floating point. Roots of quadratic to quartic equations, spheres, cylinders,
  spheroids, tori and the polyhedra with irrational corners are left out: what
  is hard in them is rounding, which TLC does not reach. In `Trace` a planet is
  replaced by a cuboid.
* Oblique rays. Snell's law and the choice of the root are left out, and
  `Trace` follows rays that meet faces at right angles. `RayTree` allows total
  internal reflection, at any surface that is not opaque.
* Turns by other than quarters, and coordinates that are not integers.
* In `Trace` refractive indexes are integers, the ambient medium is vacuum,
  there is one lamp whose matte light is full or none, a color has no red, green and blue, and
  the test point behind a surface is half a unit away, not 0.001. Optics have
  matte and gloss that add up to at most one, as `SetMatteGlossBalance` ensures
  and the constructor alone does not. `isFullyEnclosed` is always true, as in
  all callers. A set's own optics are never asked for.
* `MediumIsRight` is stated for cameras in no solid, and where surfaces do not coincide;
  `RigidMotion` and `CrossingsAreBoundary` exclude meshes with faces parallel to
  the z axis and points below an edge of a mesh, where the code does not claim to
  be right (`FIXFIXFIX` in `SolidObject.cpp`) or section 7 says that it is not.
* The text of archives and messages: a chunk or a result stands for itself.
  Reading up to the separator is atomic (module `Framing` is planned).
* Of the PNG writer, what the program does not use: interlacing, 16 bits a
  sample, transparency and color keys, fixed and stored blocks, other filter
  strategies, ancillary chunks. Of what it uses: the short cut for runs of zeros
  (it needs a window of 8192), the rounding of the weights of coins (the code
  divides frequencies by their sum in single precision), vectors that cannot grow by
  a byte (`ucvector_push_back`; `PngFile` has the other allocations fail), and the arithmetic of CRC and Adler-32, which are modelled by
  what they were computed of. `FilterUndone` does not depend on which filter
  type is the best, and no property says that it is.
* The logger, the demo
  program, the unit tests and `UnitTest()` of the server, which draws a fixed scene;
  `MutexedQueue` and `ImageBuffer::TransformFromMatrix`, which nothing uses.
