--------------------------- MODULE PictureProofs ---------------------------
(***************************************************************************)
(* Proofs about Chunking, for pictures of every width and height and       *)
(* chunks of every size; about Picture, for pictures of every size and all *)
(* colors; and, at the end, about Assembly, in which the picture comes     *)
(* from chunks: it is a cutting followed by a finishing of the picture,    *)
(* and what is proved of Chunking and Picture apart holds of the two       *)
(* together.                                                               *)
(***************************************************************************)
EXTENDS Assembly, FiniteSetTheorems, WellFoundedInduction, TLAPS

\* What is left over after n full chunks is a full chunk exactly when the
\* number of lines is a multiple of the chunk size: the test of the loop.
LEMMA MultipleMeansFull ==
  ASSUME NEW full \in Nat \ {0}, NEW n \in Nat, NEW left \in 1 .. full
  PROVE  (n * full + left) % full = 0 <=> left = full
BY SMTT(30)

\* Before the first line there is nothing to be wrong about.
LEMMA ChunkInitInv == ChunkInit => ChunkIInv
<1> SUFFICES ASSUME ChunkInit PROVE ChunkIInv
  OBVIOUS
<1>1. ChunkTypeOK
  BY WidthsAssumption, LineCountsAssumption DEF ChunkInit, ChunkTypeOK
<1>2. /\ linesToSend \in Nat \ {0}
      /\ Len(chunk) = 0 /\ Len(serializedData) = 0
  BY LineCountsAssumption DEF ChunkInit
<1> QED
  BY <1>1, <1>2 DEF ChunkInit, ChunkIInv, ChunkIsTail, AtEnd, Below, Ascending, Apart,
     Covered, Full, Counted, FirstOpenLine

\* What the types say of the numbers and the sequences of a state.
Shapes ==
  /\ wide \in Nat /\ linesToSend \in Nat \ {0} /\ i \in Nat
  /\ chunk \in Seq(Line) /\ Len(chunk) \in Nat
  /\ DOMAIN chunk = 1 .. Len(chunk)
  /\ serializedData \in Seq(Seq(Line)) /\ Len(serializedData) \in Nat
  /\ DOMAIN serializedData = 1 .. Len(serializedData)
  /\ \A k \in DOMAIN serializedData :
       /\ serializedData[k] \in Seq(Line)
       /\ Len(serializedData[k]) \in Nat
       /\ DOMAIN serializedData[k] = 1 .. Len(serializedData[k])
       /\ \A m \in DOMAIN serializedData[k] :
            serializedData[k][m] \in Line /\ serializedData[k][m] \in Nat

\* They follow from the type invariant alone.
LEMMA ChunkTypeFacts == ChunkTypeOK => Shapes
BY WidthsAssumption, LineCountsAssumption DEF ChunkTypeOK, Shapes, Line

\* sd is the complete chunks and the one being filled: every line before i,
\* once, in ascending order.
UpTo(sd) ==
  /\ sd \in Seq(Seq(Line))
  /\ DOMAIN sd = 1 .. Len(serializedData) + 1
  /\ Len(sd) = Len(serializedData) + 1
  /\ \A k \in DOMAIN serializedData : sd[k] = serializedData[k]
  /\ sd[Len(sd)] = chunk
  /\ \A k \in DOMAIN sd : \A m \in DOMAIN sd[k] : sd[k][m] < i
  /\ \A k \in DOMAIN sd : \A m, n \in DOMAIN sd[k] :
       m < n => sd[k][m] < sd[k][n]
  /\ \A k, l \in DOMAIN sd : k < l =>
       \A m \in DOMAIN sd[k], n \in DOMAIN sd[l] : sd[k][m] < sd[l][n]
  /\ \A line \in 0 .. i - 1 :
       \E k \in DOMAIN sd : \E m \in DOMAIN sd[k] : sd[k][m] = line

\* What appending the chunk being filled to the complete ones does.
LEMMA AppendChunk ==
  ASSUME ChunkIInv, chunkPc # "done",
         NEW sd, sd = Append(serializedData, chunk)
  PROVE  UpTo(sd)
<1>0. Shapes
  BY ChunkTypeFacts DEF ChunkIInv
<1> USE <1>0 DEF Shapes
<1>1. /\ sd \in Seq(Seq(Line))
      /\ DOMAIN sd = 1 .. Len(serializedData) + 1
      /\ Len(sd) = Len(serializedData) + 1
      /\ \A k \in DOMAIN serializedData : sd[k] = serializedData[k]
      /\ sd[Len(sd)] = chunk
  BY DEF ChunkTypeOK
<1>2. /\ Len(chunk) <= i
      /\ \A m \in DOMAIN chunk : chunk[m] = i - Len(chunk) + m - 1
  BY DEF ChunkIInv, ChunkIsTail
<1>3. \A k \in DOMAIN sd :
        \/ k \in DOMAIN serializedData /\ sd[k] = serializedData[k]
        \/ k = Len(sd) /\ sd[k] = chunk
  BY <1>1
<1>4. \A k \in DOMAIN serializedData : \A m \in DOMAIN serializedData[k] :
        serializedData[k][m] < i - Len(chunk)
  BY DEF ChunkIInv, Below, FirstOpenLine
<1>5. \A k \in DOMAIN sd : \A m \in DOMAIN sd[k] : sd[k][m] < i
  <2> SUFFICES ASSUME NEW k \in DOMAIN sd, NEW m \in DOMAIN sd[k]
               PROVE  sd[k][m] < i
    OBVIOUS
  <2>1. CASE sd[k] = chunk
    BY <2>1, <1>2
  <2>2. CASE k \in DOMAIN serializedData /\ sd[k] = serializedData[k]
    <3>1. sd[k][m] < i - Len(chunk) /\ sd[k][m] \in Line
      BY <2>2, <1>4
    <3> QED BY <3>1, <1>2 DEF Line
  <2> QED BY <2>1, <2>2, <1>3
<1>6. \A k \in DOMAIN sd : \A m, n \in DOMAIN sd[k] :
        m < n => sd[k][m] < sd[k][n]
  <2> SUFFICES ASSUME NEW k \in DOMAIN sd, NEW m \in DOMAIN sd[k],
                      NEW n \in DOMAIN sd[k], m < n
               PROVE  sd[k][m] < sd[k][n]
    OBVIOUS
  <2>1. CASE sd[k] = chunk
    BY <2>1, <1>2
  <2>2. CASE k \in DOMAIN serializedData /\ sd[k] = serializedData[k]
    BY <2>2 DEF ChunkIInv, Ascending
  <2> QED BY <2>1, <2>2, <1>3
<1>7. \A k, l \in DOMAIN sd : k < l =>
        \A m \in DOMAIN sd[k], n \in DOMAIN sd[l] : sd[k][m] < sd[l][n]
  <2> SUFFICES ASSUME NEW k \in DOMAIN sd, NEW l \in DOMAIN sd, k < l,
                      NEW m \in DOMAIN sd[k], NEW n \in DOMAIN sd[l]
               PROVE  sd[k][m] < sd[l][n]
    OBVIOUS
  <2>1. k \in DOMAIN serializedData /\ sd[k] = serializedData[k]
    BY <1>1
  <2>2. CASE l \in DOMAIN serializedData /\ sd[l] = serializedData[l]
    BY <2>1, <2>2 DEF ChunkIInv, Apart
  <2>3. CASE sd[l] = chunk
    <3>1. sd[k][m] < i - Len(chunk) /\ sd[k][m] \in Line
      BY <2>1, <1>4
    <3>2. sd[l][n] = i - Len(chunk) + n - 1 /\ n \in 1 .. Len(chunk)
      BY <2>3, <1>2
    <3> QED BY <3>1, <3>2, <1>2 DEF Line
  <2> QED BY <2>2, <2>3, <1>3
<1>8. \A line \in 0 .. i - 1 :
        \E k \in DOMAIN sd : \E m \in DOMAIN sd[k] : sd[k][m] = line
  <2> SUFFICES ASSUME NEW line \in 0 .. i - 1
               PROVE  \E k \in DOMAIN sd : \E m \in DOMAIN sd[k] : sd[k][m] = line
    OBVIOUS
  <2>1. CASE line < i - Len(chunk)
    <3>1. line \in 0 .. FirstOpenLine - 1
      BY <2>1, <1>2 DEF FirstOpenLine
    <3>2. PICK k \in DOMAIN serializedData :
            \E m \in DOMAIN serializedData[k] : serializedData[k][m] = line
      BY <3>1 DEF ChunkIInv, Covered
    <3>3. k \in DOMAIN sd /\ sd[k] = serializedData[k]
      BY <1>1
    <3> QED BY <3>2, <3>3
  <2>2. CASE line >= i - Len(chunk)
    <3> DEFINE m == line - (i - Len(chunk)) + 1
    <3>0. line \in Int /\ line <= i - 1 /\ i - Len(chunk) <= line
      BY <2>2
    <3>1. m \in DOMAIN chunk
      BY <3>0
    <3>2. chunk[m] = i - Len(chunk) + m - 1
      BY <3>1, <1>2
    <3>3. chunk[m] = line
      BY <3>0, <3>2
    <3>4. Len(sd) \in DOMAIN sd /\ sd[Len(sd)] = chunk
      BY <1>1
    <3> QED BY <3>1, <3>3, <3>4
  <2> QED BY <2>1, <2>2, <1>2
<1> QED BY <1>1, <1>5, <1>6, <1>7, <1>8 DEF UpTo

\* Every line of the loop, its end and the last chunk preserve the invariant.
LEMMA ChunkStepInv == ChunkIInv /\ [ChunkNext]_chunkVars => ChunkIInv'
<1> SUFFICES ASSUME ChunkIInv, [ChunkNext]_chunkVars PROVE ChunkIInv'
  OBVIOUS
<1>0. ChunkTypeOK /\ Counted /\ Full /\ ChunkIsTail /\ AtEnd /\ Shapes
  BY ChunkTypeFacts DEF ChunkIInv
<1> USE <1>0 DEF Shapes
<1>1. CASE StartChunk
  <2> DEFINE sd == serializedData'
  <2>0. /\ sd = Append(serializedData, chunk) /\ chunkPc = "loop" /\ chunkPc' = "loop"
        /\ chunk' = <<i>> /\ i' = i + 1 /\ i < wide /\ i # 0
        /\ i % linesToSend = 0
        /\ wide' = wide /\ high' = high /\ linesToSend' = linesToSend
    BY <1>1 DEF StartChunk, sizes
  <2>1. /\ Len(chunk') = 1 /\ DOMAIN chunk' = {1} /\ chunk'[1] = i
        /\ FirstOpenLine' = i /\ i \in Line /\ Line' = Line
    BY <2>0 DEF FirstOpenLine, Line
  <2>2. UpTo(sd)
    BY <2>0, AppendChunk
  <2>3. Len(chunk) = linesToSend
    <3>1. Len(chunk) \in 1 .. linesToSend
      BY <2>0 DEF Counted
    <3>2. (Len(serializedData) * linesToSend + Len(chunk)) % linesToSend = 0
      BY <2>0 DEF Counted
    <3> QED BY <3>1, <3>2, MultipleMeansFull
  <2>4. ChunkTypeOK'
    BY <2>0, <2>1, <2>2 DEF ChunkTypeOK, UpTo
  <2>5. ChunkIsTail' /\ AtEnd'
    BY <2>0, <2>1 DEF ChunkIsTail, AtEnd
  <2>6. Below' /\ Ascending' /\ Apart' /\ Covered'
    BY <2>1, <2>2 DEF Below, Ascending, Apart, Covered, UpTo
  <2>7. Full'
    BY <2>0, <2>2, <2>3 DEF Full, UpTo
  <2>8. Counted'
    <3>1. i = Len(serializedData) * linesToSend + linesToSend
      BY <2>0, <2>3 DEF Counted
    <3>2. i = Len(sd) * linesToSend
      BY <3>1, <2>2 DEF UpTo
    <3>3. i' = Len(sd) * linesToSend + 1
      BY <3>2, <2>0
    <3>4. Len(chunk') = 1 /\ 1 <= linesToSend /\ linesToSend' = linesToSend
      BY <2>0, <2>1
    <3> HIDE DEF sd
    <3>5. i' = Len(sd) * linesToSend' + Len(chunk')
      BY <3>3, <3>4
    <3> QED BY <3>4, <3>5 DEF Counted, sd
  <2> QED BY <2>4, <2>5, <2>6, <2>7, <2>8 DEF ChunkIInv
<1>2. CASE FillChunk
  <2>0. /\ chunk' = Append(chunk, i) /\ chunkPc = "loop" /\ chunkPc' = "loop"
        /\ i' = i + 1 /\ i < wide /\ (i = 0 \/ i % linesToSend # 0)
        /\ serializedData' = serializedData
        /\ wide' = wide /\ high' = high /\ linesToSend' = linesToSend
    BY <1>2 DEF FillChunk, sizes
  <2>1. /\ Len(chunk') = Len(chunk) + 1
        /\ DOMAIN chunk' = 1 .. Len(chunk) + 1
        /\ \A m \in DOMAIN chunk : chunk'[m] = chunk[m]
        /\ chunk'[Len(chunk) + 1] = i
        /\ i \in Line /\ Line' = Line /\ chunk' \in Seq(Line)
    BY <2>0 DEF Line
  <2>2. FirstOpenLine' = FirstOpenLine
    BY <2>0, <2>1 DEF FirstOpenLine, ChunkIsTail
  <2>3. Len(chunk) < linesToSend
    <3>1. CASE i = 0
      BY <3>1, <2>0 DEF ChunkIsTail
    <3>2. CASE i # 0 /\ i % linesToSend # 0
      <4>1. Len(chunk) \in 1 .. linesToSend
        BY <3>2, <2>0 DEF Counted
      <4>2. (Len(serializedData) * linesToSend + Len(chunk)) % linesToSend # 0
        BY <3>2, <2>0 DEF Counted
      <4>3. Len(chunk) # linesToSend
        BY <4>1, <4>2, MultipleMeansFull
      <4>4. linesToSend \in Nat
        OBVIOUS
      <4> HIDE <1>0
      <4> QED BY <4>1, <4>3, <4>4
    <3> QED BY <3>1, <3>2, <2>0
  <2>4. ChunkTypeOK'
    BY <2>0, <2>1 DEF ChunkTypeOK
  <2>5. ChunkIsTail' /\ AtEnd'
    BY <2>0, <2>1 DEF ChunkIsTail, AtEnd
  <2>6. Below' /\ Ascending' /\ Apart' /\ Covered'
    BY <2>0, <2>2 DEF ChunkIInv, Below, Ascending, Apart, Covered
  <2>7. Full'
    BY <2>0 DEF Full
  <2>8. Counted'
    <3> DEFINE full == Len(serializedData) * linesToSend
    <3>1. full \in Nat /\ i = full + Len(chunk)
      BY <2>0 DEF Counted
    <3>2. i' = full' + Len(chunk')
      BY <3>1, <2>0, <2>1
    <3> QED BY <3>2, <2>0, <2>1, <2>3 DEF Counted
  <2> QED BY <2>4, <2>5, <2>6, <2>7, <2>8 DEF ChunkIInv
<1>3. CASE EndLoop
  <2>0. /\ chunkPc = "loop" /\ chunkPc' = "rest" /\ i >= wide
        /\ UNCHANGED <<wide, high, linesToSend, i, chunk, serializedData>>
    BY <1>3 DEF EndLoop, sizes
  <2>1. ChunkTypeOK' /\ ChunkIsTail' /\ AtEnd' /\ Full' /\ Counted'
    BY <2>0 DEF ChunkTypeOK, ChunkIsTail, AtEnd, Full, Counted, Line
  <2>2. FirstOpenLine' = FirstOpenLine
    BY <2>0 DEF FirstOpenLine
  <2>3. Below' /\ Ascending' /\ Apart' /\ Covered'
    BY <2>0, <2>2 DEF ChunkIInv, Below, Ascending, Apart, Covered
  <2> QED BY <2>1, <2>3 DEF ChunkIInv
<1>4. CASE LastChunk
  <2> DEFINE sd == serializedData'
  <2>0. /\ chunkPc = "rest" /\ chunkPc' = "done"
        /\ UNCHANGED <<wide, high, linesToSend, i, chunk>>
    BY <1>4 DEF LastChunk, sizes
  <2>1. FirstOpenLine' = i /\ Line' = Line
    BY <2>0 DEF FirstOpenLine, Line
  <2>2. ChunkIsTail' /\ AtEnd' /\ Counted'
    BY <2>0 DEF ChunkIsTail, AtEnd, Counted
  <2>3. CASE chunk # <<>>
    <3>0. sd = Append(serializedData, chunk)
      BY <2>3, <1>4 DEF LastChunk
    <3>1. UpTo(sd)
      BY <2>0, <3>0, AppendChunk
    <3>2. ChunkTypeOK'
      BY <2>0, <2>1, <3>1 DEF ChunkTypeOK, UpTo
    <3>3. Below' /\ Ascending' /\ Apart' /\ Covered'
      BY <2>1, <3>1 DEF Below, Ascending, Apart, Covered, UpTo
    <3>4. Len(chunk) \in 1 .. linesToSend
      BY <2>0, <2>3 DEF Counted
    <3>5. Full'
      <4>1. ASSUME NEW k \in DOMAIN sd
            PROVE  /\ Len(sd[k]) \in 1 .. linesToSend
                   /\ k < Len(sd) => Len(sd[k]) = linesToSend
        <5>1. CASE k \in DOMAIN serializedData
          BY <5>1, <2>0, <3>1 DEF Full, UpTo
        <5>2. CASE k = Len(sd)
          <6>1. sd[k] = chunk /\ Len(sd) \in Nat
            BY <5>2, <3>1 DEF UpTo
          <6> HIDE <1>0 DEF sd
          <6> QED BY <6>1, <5>2, <3>4
        <5> QED BY <5>1, <5>2, <3>1 DEF UpTo
      <4> QED BY <4>1, <2>0 DEF Full
    <3> QED BY <2>2, <3>2, <3>3, <3>5 DEF ChunkIInv
  <2>4. CASE chunk = <<>>
    <3>0. sd = serializedData
      BY <2>4, <1>4 DEF LastChunk
    <3>1. FirstOpenLine = i
      BY <2>0, <2>4 DEF FirstOpenLine
    <3>2. ChunkTypeOK' /\ Full'
      BY <2>0, <2>1, <3>0 DEF ChunkTypeOK, Full
    <3>3. Below' /\ Ascending' /\ Apart' /\ Covered'
      BY <3>0, <3>1, <2>1 DEF ChunkIInv, Below, Ascending, Apart, Covered
    <3> QED BY <2>2, <3>2, <3>3 DEF ChunkIInv
  <2> QED BY <2>3, <2>4
<1>5. CASE UNCHANGED chunkVars
  BY <1>5 DEF chunkVars, sizes, ChunkIInv, ChunkTypeOK, ChunkIsTail, AtEnd, Below, Ascending,
     Apart, Covered, Full, Counted, FirstOpenLine, Line
<1> QED BY <1>1, <1>2, <1>3, <1>4, <1>5 DEF ChunkNext

\* In every state the chunks are where the loop has put them.
THEOREM ChunkIInvHolds == ChunkSpec => []ChunkIInv
BY ChunkInitInv, ChunkStepInv, PTL DEF ChunkSpec

\* No two places in the chunks hold the same line.
THEOREM LinesAreApart == ChunkSpec => []NoLineTwice
<1>1. ChunkIInv => NoLineTwice
  <2> SUFFICES ASSUME ChunkIInv,
                      NEW k \in DOMAIN serializedData,
                      NEW l \in DOMAIN serializedData,
                      NEW m \in DOMAIN serializedData[k],
                      NEW n \in DOMAIN serializedData[l],
                      serializedData[k][m] = serializedData[l][n]
               PROVE  k = l /\ m = n
    BY DEF NoLineTwice
  <2>0. Shapes
    BY ChunkTypeFacts DEF ChunkIInv
  <2> USE <2>0 DEF Shapes
  <2>1. serializedData[k][m] \in Nat
    BY DEF Line
  <2>2. ~(k < l) /\ ~(l < k)
    BY <2>1 DEF ChunkIInv, Apart
  <2>3. k = l
    BY <2>2
  <2>4. ~(m < n) /\ ~(n < m)
    BY <2>1, <2>3 DEF ChunkIInv, Ascending
  <2> QED BY <2>3, <2>4
<1> QED BY <1>1, ChunkIInvHolds, PTL

\* When SerializeData has returned, every line is in a chunk.
THEOREM LinesAreComplete == ChunkSpec => []EveryLine
<1>1. ChunkIInv => EveryLine
  BY DEF ChunkIInv, EveryLine, Covered, AtEnd, FirstOpenLine
<1> QED BY <1>1, ChunkIInvHolds, PTL

\* All chunks but the last are exactly linesToSend long, and none is empty.
THEOREM ChunksAreEven == ChunkSpec => []EvenChunks
<1>1. ChunkIInv => EvenChunks
  <2> SUFFICES ASSUME ChunkIInv, NEW k \in DOMAIN serializedData
               PROVE  /\ serializedData[k] # <<>>
                      /\ Len(serializedData[k]) <= linesToSend
                      /\ k < Len(serializedData) =>
                           Len(serializedData[k]) = linesToSend
    BY DEF EvenChunks
  <2>1. Len(serializedData[k]) \in 1 .. linesToSend
    BY DEF ChunkIInv, Full
  <2> QED BY <2>1, ChunkTypeFacts DEF ChunkIInv, Full, Shapes
<1> QED BY <1>1, ChunkIInvHolds, PTL

\* The pixels painted from the chunks are exactly those of the buffer, each
\* of them once.
THEOREM PaintingIsExact == ChunkSpec => []EachPixelOnce
<1>1. ChunkIInv => PixelsMatchBuffer
  <2> SUFFICES ASSUME ChunkIInv, chunkPc = "done"
               PROVE  UNION {Computed(serializedData[k]) : k \in DOMAIN serializedData}
                        = Buffer
    BY DEF PixelsMatchBuffer
  <2>0. Shapes
    BY ChunkTypeFacts DEF ChunkIInv
  <2> USE <2>0 DEF Shapes
  <2>1. ASSUME NEW k \in DOMAIN serializedData, NEW p \in Computed(serializedData[k])
        PROVE  p \in Buffer
    BY DEF Computed, Buffer, Line
  <2>2. ASSUME NEW p \in Buffer
        PROVE  \E k \in DOMAIN serializedData : p \in Computed(serializedData[k])
    <3>1. PICK line \in 0 .. wide - 1, col \in 0 .. high - 1 :
            p = <<line, col>>
      BY DEF Buffer
    <3>2. PICK k \in DOMAIN serializedData :
            \E m \in DOMAIN serializedData[k] : serializedData[k][m] = line
      BY DEF ChunkIInv, Covered, AtEnd, FirstOpenLine
    <3> QED BY <3>1, <3>2 DEF Computed
  <2> QED BY <2>1, <2>2
<1>2. NoLineTwice /\ PixelsMatchBuffer => EachPixelOnce
  BY DEF EachPixelOnce
<1> QED BY <1>1, <1>2, ChunkIInvHolds, LinesAreApart, PTL

-----------------------------------------------------------------------------

\* What holds of 0, and of the next number, holds of every natural number.
LEMMA NaturalInduction ==
  ASSUME NEW S, 0 \in S, \A n \in Nat : n \in S => n + 1 \in S
  PROVE  Nat \subseteq S
<1> DEFINE T == Nat \ S
<1>1. SUFFICES ASSUME T # {} PROVE FALSE
  OBVIOUS
<1>2. PICK x \in T : \A y \in T : ~(<<y, x>> \in OpToRel(<, Nat))
  <2>1. T \subseteq Nat
    OBVIOUS
  <2> QED BY <1>1, <2>1, WFMin, NatLessThanWellFounded
<1>3. x # 0
  OBVIOUS
<1>4. x - 1 \in Nat /\ x \in Nat
  BY <1>3
<1>5. <<x - 1, x>> \in OpToRel(<, Nat)
  BY <1>4 DEF OpToRel
<1>6. x - 1 \in S
  BY <1>2, <1>4, <1>5
<1>7. (x - 1) + 1 = x
  BY <1>4
<1> QED BY <1>4, <1>6, <1>7

\* The next pixel to add up, and the sum of one pixel more than it adds up.
Some(s) == CHOOSE q \in s : TRUE
AddsUp(sum, s, color, c) ==
  sum[s] = IF s = {} THEN 0 ELSE color[Some(s)][c] + sum[s \ {Some(s)}]
IsSum(sum, color, c) ==
  sum = [s \in SUBSET DOMAIN color |->
           IF s = {} THEN 0 ELSE color[Some(s)][c] + sum[s \ {Some(s)}]]

\* Taking a pixel away leaves one less.
LEMMA OneLess ==
  ASSUME NEW S, IsFiniteSet(S), NEW s \in SUBSET S, s # {}
  PROVE  /\ Some(s) \in s /\ s \ {Some(s)} \in SUBSET S
         /\ Cardinality(s) \in Nat \ {0}
         /\ Cardinality(s \ {Some(s)}) = Cardinality(s) - 1
<1>1. Some(s) \in s
  BY DEF Some
<1>2. IsFiniteSet(s)
  BY FS_Subset
<1>3. Cardinality(s) \in Nat
  BY <1>2, FS_CardinalityType
<1>4. Cardinality(s) # 0
  BY <1>2, FS_EmptySet
<1>5. Cardinality(s \ {Some(s)}) = Cardinality(s) - 1
  BY <1>1, <1>2, FS_RemoveElement
<1> QED BY <1>1, <1>3, <1>4, <1>5

\* There is such a sum.
LEMMA SumExists ==
  ASSUME NEW color, NEW c, IsFiniteSet(DOMAIN color)
  PROVE  \E sum : IsSum(sum, color, c)
<1> DEFINE S == DOMAIN color
           Upto(sum, n) == \A s \in SUBSET S : Cardinality(s) <= n => AddsUp(sum, s, color, c)
           Good == {n \in Nat : \E sum : Upto(sum, n)}
<1>1. 0 \in Good
  <2> DEFINE h == [s \in SUBSET S |-> 0]
  <2>1. ASSUME NEW s \in SUBSET S, Cardinality(s) <= 0 PROVE AddsUp(h, s, color, c)
    <3>1. s = {}
      <4>1. s # {} => Cardinality(s) \in Nat \ {0}
        BY OneLess
      <4> QED BY <4>1, <2>1
    <3> QED BY <3>1 DEF AddsUp
  <2> QED BY <2>1
<1>2. ASSUME NEW n \in Nat, n \in Good PROVE n + 1 \in Good
  <2>1. PICK g : Upto(g, n)
    BY <1>2
  <2> DEFINE h == [s \in SUBSET S |-> IF s = {} THEN 0 ELSE color[Some(s)][c] + g[s \ {Some(s)}]]
  <2>2. ASSUME NEW s \in SUBSET S, Cardinality(s) <= n PROVE h[s] = g[s]
    <3>1. AddsUp(g, s, color, c)
      BY <2>1, <2>2
    <3> QED BY <3>1 DEF AddsUp
  <2>3. ASSUME NEW s \in SUBSET S, Cardinality(s) <= n + 1
        PROVE  AddsUp(h, s, color, c)
    <3>1. CASE s = {}
      BY <3>1 DEF AddsUp
    <3>2. CASE s # {}
      <4> DEFINE r == s \ {Some(s)}
      <4>1. r \in SUBSET S /\ Cardinality(r) <= n
        BY <3>2, <2>3, OneLess
      <4>2. h[r] = g[r]
        BY <4>1, <2>2
      <4>3. h[s] = color[Some(s)][c] + g[r]
        BY <3>2
      <4> HIDE DEF h
      <4> QED BY <4>2, <4>3, <3>2 DEF AddsUp
    <3> QED BY <3>1, <3>2
  <2>4. Upto(h, n + 1)
    BY <2>3
  <2> HIDE DEF h, Upto
  <2>5. \E sum : Upto(sum, n + 1)
    BY <2>4
  <2> QED BY <2>5
<1> HIDE DEF Good
<1>3. Nat \subseteq Good
  BY <1>1, <1>2, NaturalInduction
<1>4. Cardinality(S) \in Nat
  BY FS_CardinalityType
<1>5. PICK g : Upto(g, Cardinality(S))
  BY <1>3, <1>4 DEF Good
<1> DEFINE h == [s \in SUBSET S |-> g[s]]
<1>6. ASSUME NEW s \in SUBSET S PROVE AddsUp(g, s, color, c)
  <2>1. Cardinality(s) <= Cardinality(S)
    BY FS_Subset
  <2> QED BY <2>1, <1>5
<1>7. ASSUME NEW s \in SUBSET S
      PROVE  h[s] = IF s = {} THEN 0 ELSE color[Some(s)][c] + h[s \ {Some(s)}]
  <2>1. h[s] = g[s]
    OBVIOUS
  <2>2. h[s \ {Some(s)}] = g[s \ {Some(s)}]
    OBVIOUS
  <2> HIDE DEF h
  <2> QED BY <2>1, <2>2, <1>6 DEF AddsUp
<1>8. h = [s \in SUBSET S |-> h[s]]
  OBVIOUS
<1> HIDE DEF h
<1>9. IsSum(h, color, c)
  BY <1>7, <1>8 DEF IsSum
<1> QED BY <1>9

\* The library's sum is such a sum.
LEMMA SumIs ==
  ASSUME NEW color, NEW c, IsFiniteSet(DOMAIN color)
  PROVE  \E sum : IsSum(sum, color, c) /\ Sum(color, c) = sum[DOMAIN color]
<1> DEFINE sum == CHOOSE g : IsSum(g, color, c)
<1>1. IsSum(sum, color, c)
  BY SumExists, Zenon
<1>2. Sum(color, c) = sum[DOMAIN color]
  BY Zenon DEF Sum, MapThenSumSet, MapThenFoldSet, IsSum, Some
<1> QED BY <1>1, <1>2

\* The sum of natural numbers, and how much it can be.
LEMMA SumBound ==
  ASSUME NEW color, NEW c, IsFiniteSet(DOMAIN color),
         \A q \in DOMAIN color : color[q][c] \in Nat
  PROVE  /\ Sum(color, c) \in Nat
         /\ \A m \in Nat : (\A q \in DOMAIN color : color[q][c] <= m) =>
              Sum(color, c) <= m * Cardinality(DOMAIN color)
<1> DEFINE S == DOMAIN color
           NoneAbove(m) == \A q \in S : color[q][c] <= m
<1>1. PICK sum : IsSum(sum, color, c) /\ Sum(color, c) = sum[S]
  BY SumIs
<1>2. \A s \in SUBSET S : AddsUp(sum, s, color, c)
  BY <1>1, Zenon DEF IsSum, AddsUp
<1> DEFINE Fits(s) == /\ sum[s] \in Nat
                      /\ \A m \in Nat : NoneAbove(m) => sum[s] <= m * Cardinality(s)
           Good == {n \in Nat : \A s \in SUBSET S : Cardinality(s) = n => Fits(s)}
<1>3. 0 \in Good
  <2> SUFFICES ASSUME NEW s \in SUBSET S, Cardinality(s) = 0 PROVE Fits(s)
    OBVIOUS
  <2>1. s = {}
    BY OneLess
  <2>2. sum[s] = 0
    BY <2>1, <1>2 DEF AddsUp
  <2> QED BY <2>2
<1>4. ASSUME NEW n \in Nat, n \in Good PROVE n + 1 \in Good
  <2> SUFFICES ASSUME NEW s \in SUBSET S, Cardinality(s) = n + 1 PROVE Fits(s)
    OBVIOUS
  <2> DEFINE x == Some(s)
             r == s \ {x}
  <2>1. s # {}
    BY FS_EmptySet
  <2>2. x \in s /\ r \in SUBSET S /\ Cardinality(r) = n
    BY <2>1, OneLess
  <2>3. Fits(r)
    BY <1>4, <2>2
  <2>4. sum[s] = color[x][c] + sum[r]
    BY <2>1, <1>2 DEF AddsUp
  <2>5. color[x][c] \in Nat /\ \A m \in Nat : NoneAbove(m) => color[x][c] <= m
    BY <2>2
  <2>6. sum[s] \in Nat
    BY <2>3, <2>4, <2>5
  <2>7. ASSUME NEW m \in Nat, NoneAbove(m) PROVE sum[s] <= m * Cardinality(s)
    <3>1. sum[r] <= m * n /\ color[x][c] <= m /\ sum[r] \in Nat
      BY <2>2, <2>3, <2>5, <2>7
    <3>2. m * (n + 1) = m * n + m /\ m * n \in Nat
      OBVIOUS
    <3>3. sum[s] <= m * n + m
      BY <2>4, <2>5, <3>1, <3>2
    <3> QED BY <3>2, <3>3
  <2> QED BY <2>6, <2>7
<1> HIDE DEF Good
<1>5. Nat \subseteq Good
  BY <1>3, <1>4, NaturalInduction
<1>6. Cardinality(S) \in Nat
  BY FS_CardinalityType
<1>7. Fits(S)
  BY <1>5, <1>6 DEF Good
<1> QED BY <1>1, <1>7

\* A finite set of natural numbers that is not empty has a largest.
LEMMA LargestExists ==
  ASSUME NEW S, IsFiniteSet(S), S \subseteq Nat, S # {}
  PROVE  Max(S) \in S /\ \A y \in S : Max(S) >= y
<1> DEFINE HasMax(s) == \E x \in s : \A y \in s : x >= y
           Good == {n \in Nat : \A s \in SUBSET S : Cardinality(s) = n /\ s # {} => HasMax(s)}
<1>1. 0 \in Good
  BY OneLess
<1>2. ASSUME NEW n \in Nat, n \in Good PROVE n + 1 \in Good
  <2> SUFFICES ASSUME NEW s \in SUBSET S, Cardinality(s) = n + 1, s # {} PROVE HasMax(s)
    OBVIOUS
  <2> DEFINE x == Some(s)
             r == s \ {x}
  <2>1. x \in s /\ r \in SUBSET S /\ Cardinality(r) = n
    <3>1. /\ x \in s /\ r \in SUBSET S
          /\ Cardinality(r) = Cardinality(s) - 1
      BY OneLess
    <3> QED BY <3>1
  <2>2. CASE r = {}
    <3>1. \A y \in s : x >= y
      BY <2>1, <2>2
    <3> QED BY <2>1, <3>1
  <2>3. CASE r # {}
    <3>1. PICK z \in r : \A y \in r : z >= y
      BY <1>2, <2>1, <2>3
    <3>2. x \in Nat /\ z \in Nat /\ s \subseteq Nat
      BY <2>1
    <3> HIDE DEF x
    <3>3. CASE x >= z
      BY <2>1, <3>1, <3>2, <3>3
    <3>4. CASE ~(x >= z)
      BY <2>1, <3>1, <3>2, <3>4
    <3> QED BY <3>3, <3>4
  <2> QED BY <2>2, <2>3
<1> HIDE DEF Good
<1>3. Nat \subseteq Good
  BY <1>1, <1>2, NaturalInduction
<1>4. HasMax(S)
  BY <1>3, FS_CardinalityType DEF Good
<1> QED BY <1>4 DEF Max

-----------------------------------------------------------------------------

\* The buffer has a natural number of columns and rows.
LEMMA SizeFacts ==
  ASSUME size \in Sizes
  PROVE  /\ largePixelsWide \in Nat /\ largePixelsHigh \in Nat
         /\ size.wide \in Nat /\ size.high \in Nat
         /\ size.antiAliasFactor \in Nat \ {0}
         /\ Pixels = (0 .. largePixelsWide - 1) \X (0 .. largePixelsHigh - 1)
<1>1. /\ size.wide \in Nat /\ size.high \in Nat
      /\ size.antiAliasFactor \in Nat \ {0}
  BY SizesAssumption
<1>2. \A a, b \in Nat : a * b \in Nat
  OBVIOUS
<1>3. largePixelsWide \in Nat /\ largePixelsHigh \in Nat
  BY <1>1, <1>2 DEF largePixelsWide, largePixelsHigh
<1> QED BY <1>1, <1>3 DEF Pixels, PixelsOf, largePixelsWide, largePixelsHigh

\* A pixel of a patch lies in the large picture.
LEMMA PatchInside ==
  ASSUME NEW a \in Nat \ {0}, NEW n \in Nat, NEW k \in Nat, k < n,
         NEW d \in 0 .. a - 1
  PROVE  a * k + d \in 0 .. a * n - 1
<1>1. PICK r \in Nat : n = k + 1 + r
  <2>1. n - k - 1 \in Nat /\ n = k + 1 + (n - k - 1)
    OBVIOUS
  <2> QED BY <2>1
<1>2. a * n = a * k + a + a * r
  BY <1>1
<1>3. a * k \in Nat /\ a * r \in Nat
  OBVIOUS
<1> QED BY <1>2, <1>3

\* iMin .. iMax by jMin .. jMax are the pixels around p that exist.
LEMMA WindowIsAround ==
  ASSUME size \in Sizes, NEW p \in Pixels
  PROVE  /\ Window(p) \subseteq Pixels
         /\ Around(p) = {q \in Window(p) : traced[q] # Ambiguous}
<1> DEFINE W == largePixelsWide
           H == largePixelsHigh
           lo(x) == IF x > 0 THEN x - 1 ELSE x
           hi(x, n) == IF x < n - 1 THEN x + 1 ELSE x
<1>1. W \in Nat /\ H \in Nat /\ Pixels = (0 .. W - 1) \X (0 .. H - 1)
  BY SizeFacts
<1>2. p[1] \in 0 .. W - 1 /\ p[2] \in 0 .. H - 1
  BY <1>1
<1>3. ASSUME NEW n \in Nat, NEW x \in 0 .. n - 1
      PROVE  /\ lo(x) .. hi(x, n) \subseteq 0 .. n - 1
             /\ \A y \in 0 .. n - 1 : y \in lo(x) .. hi(x, n) <=> y - x \in -1 .. 1
  OBVIOUS
<1>4. Window(p) = (lo(p[1]) .. hi(p[1], W)) \X (lo(p[2]) .. hi(p[2], H))
  BY DEF Window
<1>5. /\ lo(p[1]) .. hi(p[1], W) \subseteq 0 .. W - 1
      /\ \A y \in 0 .. W - 1 : y \in lo(p[1]) .. hi(p[1], W) <=> y - p[1] \in -1 .. 1
      /\ lo(p[2]) .. hi(p[2], H) \subseteq 0 .. H - 1
      /\ \A y \in 0 .. H - 1 : y \in lo(p[2]) .. hi(p[2], H) <=> y - p[2] \in -1 .. 1
  BY <1>1, <1>2, <1>3
<1> HIDE DEF W, H, lo, hi
<1>6. Window(p) \subseteq Pixels
  BY <1>1, <1>4, <1>5
<1>7. \A q \in Pixels :
        q \in Window(p) <=> q[1] - p[1] \in -1 .. 1 /\ q[2] - p[2] \in -1 .. 1
  <2> SUFFICES ASSUME NEW q \in Pixels
               PROVE  q \in Window(p) <=>
                        q[1] - p[1] \in -1 .. 1 /\ q[2] - p[2] \in -1 .. 1
    OBVIOUS
  <2>1. q = <<q[1], q[2]>> /\ q[1] \in 0 .. W - 1 /\ q[2] \in 0 .. H - 1
    BY <1>1
  <2>2. q \in Window(p) <=> /\ q[1] \in lo(p[1]) .. hi(p[1], W)
                            /\ q[2] \in lo(p[2]) .. hi(p[2], H)
    BY <2>1, <1>4
  <2> QED BY <2>1, <2>2, <1>5
<1> QED BY <1>6, <1>7 DEF Around

\* A pixel that was traced is final at once.
LEMMA TracedIsFinal ==
  ASSUME NEW p \in Pixels, traced[p] # Ambiguous
  PROVE  PixelAt(p) = Final(p)
<1>1. Truth[p] = traced[p]
  BY DEF Truth
<1> QED BY <1>1 DEF PixelAt, Final

\* Walking down the columns visits one pixel after the other, and all.
LEMMA Walk ==
  ASSUME size \in Sizes, Cursor, pc \in {"trace", "search"}
  PROVE  /\ at \in Pixels =>
              /\ at' = After(at) =>
                   /\ at' \in Nat \X Nat
                   /\ at'[2] = 0 \/ (at'[2] < largePixelsHigh /\ at'[1] < largePixelsWide)
                   /\ \A p \in Pixels :
                        \/ p[1] < at'[1]
                        \/ p[1] = at'[1] /\ p[2] < at'[2]
                        <=> p \in Visited \/ p = at
         /\ at \notin Pixels => Visited = Pixels
<1> DEFINE W == largePixelsWide
           H == largePixelsHigh
<1>1. W \in Nat /\ H \in Nat /\ Pixels = (0 .. W - 1) \X (0 .. H - 1)
  BY SizeFacts
<1>2. at = <<at[1], at[2]>> /\ at[1] \in Nat /\ at[2] \in Nat
  BY DEF Cursor
<1>3. at[2] = 0 \/ (at[2] < H /\ at[1] < W)
  BY DEF Cursor
<1>4. \A p \in Pixels : /\ p = <<p[1], p[2]>>
                        /\ p[1] \in 0 .. W - 1 /\ p[2] \in 0 .. H - 1
  BY <1>1
<1>5. \A p \in Pixels :
        p \in Visited <=> p[1] < at[1] \/ (p[1] = at[1] /\ p[2] < at[2])
  BY DEF Visited
<1>6. After(at) = IF at[2] + 1 < H THEN <<at[1], at[2] + 1>> ELSE <<at[1] + 1, 0>>
  BY DEF After
<1> HIDE DEF W, H
<1>7. ASSUME at \in Pixels, at' = After(at)
      PROVE  /\ at' \in Nat \X Nat
             /\ at'[2] = 0 \/ (at'[2] < H /\ at'[1] < W)
             /\ \A p \in Pixels :
                  \/ p[1] < at'[1]
                  \/ p[1] = at'[1] /\ p[2] < at'[2]
                  <=> p \in Visited \/ p = at
  <2>1. at[1] \in 0 .. W - 1 /\ at[2] \in 0 .. H - 1
    BY <1>7, <1>4
  <2>2. \A p \in Pixels : p = at <=> p[1] = at[1] /\ p[2] = at[2]
    BY <1>2, <1>4
  <2>3. CASE at[2] + 1 < H
    <3>1. at' = <<at[1], at[2] + 1>> /\ at'[1] = at[1] /\ at'[2] = at[2] + 1
      BY <2>3, <1>6, <1>7
    <3> QED BY <3>1, <2>1, <2>2, <2>3, <1>1, <1>2, <1>4, <1>5
  <2>4. CASE ~(at[2] + 1 < H)
    <3>1. at' = <<at[1] + 1, 0>> /\ at'[1] = at[1] + 1 /\ at'[2] = 0
      BY <2>4, <1>6, <1>7
    <3>2. at[2] = H - 1
      BY <2>1, <2>4, <1>1
    <3> QED BY <3>1, <3>2, <2>1, <2>2, <1>1, <1>2, <1>4, <1>5
  <2> QED BY <2>3, <2>4
<1>8. ASSUME at \notin Pixels
      PROVE  Visited = Pixels
  <2>1. ~(at[1] < W /\ at[2] < H)
    <3>1. (at[1] < W /\ at[2] < H) => at[1] \in 0 .. W - 1 /\ at[2] \in 0 .. H - 1
      BY <1>1, <1>2
    <3> QED BY <3>1, <1>1, <1>2, <1>8
  <2>2. \A p \in Pixels : p \in Visited
    BY <2>1, <1>1, <1>2, <1>3, <1>4, <1>5
  <2> QED BY <2>2 DEF Visited
<1> QED BY <1>7, <1>8 DEF W, H

\* Painting over a color leaves the mark of the pixel.
LEMMA Repaint ==
  ASSUME NEW a, NEW b, NEW x
  PROVE  [[color |-> a, isAmbiguous |-> b] EXCEPT !.color = x] =
           [color |-> x, isAmbiguous |-> b]
OBVIOUS

\* Nothing is traced yet.
LEMMA InitInv == Init => IInv
<1> SUFFICES ASSUME Init PROVE IInv
  OBVIOUS
<1>1. /\ size \in Sizes /\ columns = 0 .. largePixelsWide - 1
      /\ at = <<0, 0>> /\ ambigousPixel = <<>> /\ pc = "trace"
      /\ buffer = [p \in Pixels |-> Black]
      /\ saving \in BOOLEAN /\ traced \in [Pixels -> Colors \cup {Ambiguous}]
  BY DEF Init
<1>2. \A p \in Pixels : p[1] \in columns /\ p[1] \in Nat /\ p[2] \in Nat
  BY <1>1, SizeFacts
<1>3. Visited = {}
  BY <1>1, <1>2 DEF Visited
<1>4. Cursor
  BY <1>1 DEF Cursor
<1>5. Tracing
  BY <1>1, <1>2, <1>3 DEF Tracing
<1>6. ListIsRight
  BY <1>1, <1>3 DEF ListIsRight
<1>7. Creating
  BY <1>1 DEF Creating, Init
<1> QED BY <1>1, <1>4, <1>5, <1>6, <1>7 DEF IInv, Searching, Healing

\* What a step that changes nothing but the place in the program leaves.
LEMMA Frame ==
  ASSUME UNCHANGED input
  PROVE  /\ Pixels' = Pixels /\ largePixelsWide' = largePixelsWide
         /\ largePixelsHigh' = largePixelsHigh
         /\ Truth' = Truth
         /\ \A p : PixelAt(p)' = PixelAt(p) /\ Final(p)' = Final(p)
<1>1. size' = size /\ traced' = traced
  BY DEF input
<1>2. /\ Pixels' = Pixels /\ largePixelsWide' = largePixelsWide
      /\ largePixelsHigh' = largePixelsHigh
  BY <1>1 DEF Pixels, PixelsOf, largePixelsWide, largePixelsHigh
<1>3. \A p : Around(p)' = Around(p)
  BY <1>1, <1>2 DEF Around
<1>4. Truth' = Truth
  <2> DEFINE Seen(p) == [q \in Around(p) |-> traced[q]]
  <2>1. \A p : Seen(p)' = Seen(p)
    BY <1>1, <1>3
  <2> HIDE DEF Seen
  <2>2. Truth = [p \in Pixels |-> IF traced[p] = Ambiguous
                                   THEN Average(Seen(p)) ELSE traced[p]]
    BY DEF Truth, Seen
  <2>3. Truth' = [p \in Pixels' |-> IF traced'[p] = Ambiguous
                                     THEN Average(Seen(p)') ELSE traced'[p]]
    BY DEF Truth, Seen
  <2> QED BY <2>1, <2>2, <2>3, <1>1, <1>2
<1>5. \A p : PixelAt(p)' = PixelAt(p) /\ Final(p)' = Final(p)
  BY <1>1, <1>4 DEF PixelAt, Final, Black
<1> QED BY <1>2, <1>4, <1>5

\* Nor does it change what the bytes of the picture should be.
LEMMA BytesFrame ==
  ASSUME UNCHANGED input
  PROVE  Brightest' = Brightest /\ \A n : SmallPixel(n)' = SmallPixel(n)
<1>1. size' = size
  BY DEF input
<1>2. Pixels' = Pixels /\ Truth' = Truth
  BY Frame
<1>3. Brightest' = Brightest
  BY <1>2 DEF Brightest
<1>4. \A n : SmallPixel(n)' = SmallPixel(n)
  <2> SUFFICES ASSUME NEW n PROVE SmallPixel(n)' = SmallPixel(n)
    OBVIOUS
  <2> DEFINE patch == Patch(<<(n - 1) % size.wide, (n - 1) \div size.wide>>)
             seen == [q \in patch |-> Truth[q]]
  <2>1. patch' = patch
    BY <1>1 DEF Patch
  <2>2. seen' = seen
    BY <2>1, <1>2
  <2>3. patchSize' = patchSize
    BY <1>1 DEF patchSize
  <2>4. SmallPixel(n) = [c \in Channels |-> (255 * Sum(seen, c)) \div (patchSize * Brightest)]
    BY DEF SmallPixel, Scaled
  <2>5. SmallPixel(n)' = [c \in Channels |-> (255 * Sum(seen', c)) \div (patchSize' * Brightest')]
    BY DEF SmallPixel, Scaled
  <2> HIDE DEF seen, patch
  <2> QED BY <2>2, <2>3, <2>4, <2>5, <1>3
<1> QED BY <1>3, <1>4

\* No byte is written before the picture is scaled.
LEMMA NoBytesYet ==
  ASSUME IInv, pc \in {"trace", "search", "heal"}, rgbaBuffer' = rgbaBuffer,
         pc' \in {"trace", "search", "heal"}
  PROVE  Creating'
BY DEF IInv, Creating

\* Listing the pixel at hand if it is ambiguous.
LEMMA NoteInv ==
  ASSUME IInv, at \in Pixels, Note(at), UNCHANGED input,
         buffer'[at].isAmbiguous <=> traced[at] = Ambiguous
  PROVE  /\ ambigousPixel' \in Seq(Pixels)
         /\ \A n \in DOMAIN ambigousPixel' : traced[ambigousPixel'[n]] = Ambiguous
         /\ \A p \in Pixels : Listed(p) => Listed(p)'
         /\ traced[at] = Ambiguous =>
              \E n \in DOMAIN ambigousPixel' : ambigousPixel'[n] = at
<1>1. /\ ambigousPixel \in Seq(Pixels)
      /\ \A n \in DOMAIN ambigousPixel : traced[ambigousPixel[n]] = Ambiguous
  BY DEF IInv, ListIsRight
<1>2. CASE traced[at] = Ambiguous
  <2>1. ambigousPixel' = Append(ambigousPixel, at)
    BY <1>2 DEF Note
  <2>2. /\ ambigousPixel' \in Seq(Pixels)
        /\ DOMAIN ambigousPixel = 1 .. Len(ambigousPixel)
        /\ DOMAIN ambigousPixel' = 1 .. Len(ambigousPixel) + 1
        /\ Len(ambigousPixel) \in Nat
        /\ \A n \in 1 .. Len(ambigousPixel) : ambigousPixel'[n] = ambigousPixel[n]
        /\ ambigousPixel'[Len(ambigousPixel) + 1] = at
    BY <2>1, <1>1
  <2>3. \A n \in DOMAIN ambigousPixel' : traced[ambigousPixel'[n]] = Ambiguous
    BY <2>2, <1>1, <1>2
  <2>4. \A p \in Pixels : Listed(p) => Listed(p)'
    BY <2>2 DEF Listed
  <2>5. \E n \in DOMAIN ambigousPixel' : ambigousPixel'[n] = at
    BY <2>2
  <2> QED BY <2>2, <2>3, <2>4, <2>5
<1>3. CASE traced[at] # Ambiguous
  <2>1. ambigousPixel' = ambigousPixel
    BY <1>3 DEF Note
  <2> QED BY <2>1, <1>1, <1>3 DEF Listed
<1> QED BY <1>2, <1>3

\* SaveImage traces one pixel.
LEMMA SaveTracesInv == IInv /\ SaveTraces => IInv'
<1> SUFFICES ASSUME IInv, SaveTraces PROVE IInv'
  OBVIOUS
<1>1. /\ saving /\ pc = "trace" /\ at \in Pixels /\ Note(at) /\ at' = After(at)
      /\ buffer' = [buffer EXCEPT ![at] = PixelAt(at)]
      /\ UNCHANGED <<input, saving, size, traced, pc, columns>>
  BY DEF SaveTraces, input
<1>2. /\ size \in Sizes /\ DOMAIN buffer = Pixels /\ Cursor /\ Tracing /\ ListIsRight
      /\ \A p \in Visited : traced[p] = Ambiguous => Listed(p)
  BY <1>1 DEF IInv, ListIsRight
<1>3. /\ Pixels' = Pixels /\ largePixelsWide' = largePixelsWide
      /\ largePixelsHigh' = largePixelsHigh
      /\ \A p : PixelAt(p)' = PixelAt(p)
  BY <1>1, Frame
<1>4. Cursor' /\ Visited' = Visited \cup {at}
  <2>1. /\ at' \in Nat \X Nat
        /\ at'[2] = 0 \/ (at'[2] < largePixelsHigh /\ at'[1] < largePixelsWide)
        /\ \A p \in Pixels : \/ p[1] < at'[1]
                             \/ p[1] = at'[1] /\ p[2] < at'[2]
                             <=> p \in Visited \/ p = at
    BY <1>1, <1>2, Walk
  <2>2. Cursor'
    BY <2>1, <1>3 DEF Cursor
  <2>3. Visited' = {p \in Pixels : p[1] < at'[1] \/ (p[1] = at'[1] /\ p[2] < at'[2])}
    BY <1>3 DEF Visited
  <2>4. Visited \subseteq Pixels
    BY DEF Visited
  <2> QED BY <2>1, <2>2, <2>3, <2>4, <1>1
<1>5. /\ buffer'[at] = PixelAt(at) /\ DOMAIN buffer' = Pixels
      /\ \A p \in Pixels : p # at => buffer'[p] = buffer[p]
  BY <1>1, <1>2
<1>6. Tracing'
  <2>1. \A p \in Pixels : buffer[p] = IF p \in Visited THEN PixelAt(p) ELSE Black
    BY <1>1, <1>2 DEF Tracing
  <2>2. Black' = Black
    BY DEF Black
  <2>3. \A p \in Pixels : buffer'[p] = IF p \in Visited' THEN PixelAt(p) ELSE Black
    BY <2>1, <1>4, <1>5
  <2> QED BY <2>2, <2>3, <1>1, <1>3 DEF Tracing
<1>7. ListIsRight'
  <2>1. buffer'[at].isAmbiguous <=> traced[at] = Ambiguous
    BY <1>5 DEF PixelAt
  <2>2. /\ ambigousPixel' \in Seq(Pixels)
        /\ \A n \in DOMAIN ambigousPixel' : traced[ambigousPixel'[n]] = Ambiguous
        /\ \A p \in Pixels : Listed(p) => Listed(p)'
        /\ traced[at] = Ambiguous =>
             \E n \in DOMAIN ambigousPixel' : ambigousPixel'[n] = at
    BY <2>1, <1>1, NoteInv
  <2>3. \A p \in Visited' : traced[p] = Ambiguous => Listed(p)'
    <3> SUFFICES ASSUME NEW p \in Visited', traced[p] = Ambiguous
                 PROVE  Listed(p)'
      OBVIOUS
    <3>1. p \in Pixels
      BY <1>3 DEF Visited
    <3>2. CASE p = at
      BY <3>2, <2>2 DEF Listed
    <3>3. CASE p # at
      BY <3>1, <3>3, <2>2, <1>2, <1>4
    <3> QED BY <3>2, <3>3
  <2> QED BY <2>2, <2>3, <1>1, <1>3 DEF ListIsRight
<1>8. Creating'
  BY <1>1, NoBytesYet DEF SaveTraces
<1> QED
  BY <1>1, <1>3, <1>4, <1>5, <1>6, <1>7, <1>8 DEF IInv, Searching, Healing

\* The server lists one pixel if it is ambiguous.
LEMMA SearchInv == IInv /\ Search => IInv'
<1> SUFFICES ASSUME IInv, Search PROVE IInv'
  OBVIOUS
<1>1. /\ pc = "search" /\ at \in Pixels /\ Note(at) /\ at' = After(at)
      /\ UNCHANGED <<input, saving, size, traced, pc, columns, buffer>>
  BY DEF Search, input
<1>2. /\ size \in Sizes /\ DOMAIN buffer = Pixels /\ Cursor /\ ListIsRight
      /\ \A p \in Visited : traced[p] = Ambiguous => Listed(p)
      /\ \A p \in Pixels : buffer[p] = PixelAt(p)
  BY <1>1 DEF IInv, ListIsRight, Searching
<1>3. /\ Pixels' = Pixels /\ largePixelsWide' = largePixelsWide
      /\ largePixelsHigh' = largePixelsHigh
      /\ \A p : PixelAt(p)' = PixelAt(p)
  BY <1>1, Frame
<1>4. Cursor' /\ Visited' = Visited \cup {at}
  <2>1. /\ at' \in Nat \X Nat
        /\ at'[2] = 0 \/ (at'[2] < largePixelsHigh /\ at'[1] < largePixelsWide)
        /\ \A p \in Pixels : \/ p[1] < at'[1]
                             \/ p[1] = at'[1] /\ p[2] < at'[2]
                             <=> p \in Visited \/ p = at
    BY <1>1, <1>2, Walk
  <2>2. Cursor'
    BY <2>1, <1>3 DEF Cursor
  <2>3. Visited' = {p \in Pixels : p[1] < at'[1] \/ (p[1] = at'[1] /\ p[2] < at'[2])}
    BY <1>3 DEF Visited
  <2>4. Visited \subseteq Pixels
    BY DEF Visited
  <2> QED BY <2>1, <2>2, <2>3, <2>4, <1>1
<1>5. ListIsRight'
  <2>1. buffer'[at].isAmbiguous <=> traced[at] = Ambiguous
    BY <1>1, <1>2 DEF PixelAt
  <2>2. /\ ambigousPixel' \in Seq(Pixels)
        /\ \A n \in DOMAIN ambigousPixel' : traced[ambigousPixel'[n]] = Ambiguous
        /\ \A p \in Pixels : Listed(p) => Listed(p)'
        /\ traced[at] = Ambiguous =>
             \E n \in DOMAIN ambigousPixel' : ambigousPixel'[n] = at
    BY <2>1, <1>1, NoteInv
  <2>3. \A p \in Visited' : traced[p] = Ambiguous => Listed(p)'
    <3> SUFFICES ASSUME NEW p \in Visited', traced[p] = Ambiguous
                 PROVE  Listed(p)'
      OBVIOUS
    <3>1. p \in Pixels
      BY <1>3 DEF Visited
    <3>2. CASE p = at
      BY <3>2, <2>2 DEF Listed
    <3>3. CASE p # at
      BY <3>1, <3>3, <2>2, <1>2, <1>4
    <3> QED BY <3>2, <3>3
  <2> QED BY <2>2, <2>3, <1>1, <1>3 DEF ListIsRight
<1>6. Searching'
  BY <1>1, <1>2, <1>3 DEF Searching
<1>7. Creating'
  BY <1>1, NoBytesYet DEF Search
<1> QED
  BY <1>1, <1>2, <1>3, <1>4, <1>5, <1>6, <1>7 DEF IInv, Tracing, Healing

\* The server paints one column.
LEMMA PaintColumnInv ==
  ASSUME IInv, NEW c \in columns, PaintColumn(c)
  PROVE  IInv'
<1>1. /\ ~saving /\ pc = "trace" /\ columns' = columns \ {c}
      /\ buffer' = [p \in Pixels |-> IF p[1] = c THEN PixelAt(p) ELSE buffer[p]]
      /\ UNCHANGED <<input, saving, size, traced, pc, at, ambigousPixel>>
  BY DEF PaintColumn, input
<1>2. /\ size \in Sizes /\ DOMAIN buffer = Pixels /\ Cursor /\ Tracing /\ ListIsRight
      /\ at = <<0, 0>>
  BY <1>1 DEF IInv, ListIsRight
<1>3. /\ Pixels' = Pixels /\ largePixelsWide' = largePixelsWide
      /\ largePixelsHigh' = largePixelsHigh
      /\ \A p : PixelAt(p)' = PixelAt(p)
  BY <1>1, Frame
<1>4. Cursor' /\ Visited' = Visited
  BY <1>1, <1>2, <1>3 DEF Cursor, Visited
<1>5. Tracing'
  <2>1. \A p \in Pixels : buffer[p] = IF p \in Visited \/ p[1] \notin columns
                                        THEN PixelAt(p) ELSE Black
    BY <1>1, <1>2 DEF Tracing
  <2>2. Black' = Black
    BY DEF Black
  <2>3. \A p \in Pixels : buffer'[p] = IF p \in Visited \/ p[1] \notin columns'
                                         THEN PixelAt(p) ELSE Black
    BY <2>1, <1>1
  <2> QED BY <2>2, <2>3, <1>1, <1>3, <1>4 DEF Tracing
<1>6. ListIsRight'
  BY <1>1, <1>2, <1>3 DEF ListIsRight
<1>7. Creating'
  BY <1>1, NoBytesYet DEF PaintColumn
<1> QED
  BY <1>1, <1>2, <1>3, <1>4, <1>5, <1>6, <1>7 DEF IInv, Searching, Healing

\* All columns are painted.
LEMMA PaintedInv == IInv /\ Painted => IInv'
<1> SUFFICES ASSUME IInv, Painted PROVE IInv'
  OBVIOUS
<1>1. /\ ~saving /\ pc = "trace" /\ columns = {} /\ pc' = "search"
      /\ UNCHANGED <<input, saving, size, traced, buffer, columns, at, ambigousPixel>>
  BY DEF Painted, PaintingEnds, input
<1>2. /\ size \in Sizes /\ Cursor /\ ListIsRight /\ at = <<0, 0>>
      /\ \A p \in Pixels : buffer[p] = PixelAt(p)
  BY <1>1 DEF IInv, ListIsRight, Tracing
<1>3. /\ Pixels' = Pixels /\ largePixelsWide' = largePixelsWide
      /\ largePixelsHigh' = largePixelsHigh
      /\ \A p : PixelAt(p)' = PixelAt(p)
  BY <1>1, Frame
<1>4. Visited' = {}
  <2>1. \A p \in Pixels : p[1] \in Nat /\ p[2] \in Nat
    BY <1>2, SizeFacts
  <2> QED BY <2>1, <1>1, <1>2, <1>3 DEF Visited
<1>5. Cursor' /\ Searching'
  BY <1>1, <1>2, <1>3 DEF Cursor, Searching
<1>6. ListIsRight'
  BY <1>1, <1>2, <1>3, <1>4 DEF ListIsRight
<1>7. Creating'
  BY <1>1, NoBytesYet DEF Painted, PaintingEnds
<1> QED BY <1>1, <1>3, <1>5, <1>6, <1>7 DEF IInv, Tracing, Healing

\* When the buffer is complete, every pixel is final or listed.
LEMMA Complete ==
  ASSUME IInv, Visited = Pixels,
         pc = "search" \/ (saving /\ pc = "trace")
  PROVE  \A p \in Pixels : buffer[p] = Final(p) \/ (buffer[p] = PixelAt(p) /\ Listed(p))
<1>1. \A p \in Pixels : buffer[p] = PixelAt(p)
  BY DEF IInv, Tracing, Searching
<1>2. \A p \in Pixels : traced[p] = Ambiguous => Listed(p)
  BY DEF IInv, ListIsRight
<1> QED BY <1>1, <1>2, TracedIsFinal

\* Healing begins, on either way.
LEMMA HealingBegins ==
  ASSUME IInv, SaveTraced \/ Searched
  PROVE  IInv'
<1>1. /\ pc = "search" \/ (saving /\ pc = "trace")
      /\ at \notin Pixels /\ pc' = "heal"
      /\ UNCHANGED <<input, saving, size, traced, buffer, columns, at, ambigousPixel>>
  BY DEF SaveTraced, Searched, input
<1>2. Visited = Pixels
  BY <1>1, Walk DEF IInv
<1>3. /\ Pixels' = Pixels /\ \A p : PixelAt(p)' = PixelAt(p) /\ Final(p)' = Final(p)
  BY <1>1, Frame
<1>4. Healing'
  <2>1. \A p : Listed(p)' = Listed(p)
    BY <1>1 DEF Listed
  <2> QED BY <2>1, <1>1, <1>2, <1>3, Complete DEF Healing
<1>5. Creating'
  BY <1>1, NoBytesYet DEF SaveTraced, Searched
<1> QED
  BY <1>1, <1>3, <1>4, <1>5 DEF IInv, Cursor, Tracing, Searching, ListIsRight

\* One pixel is healed: it only looks at pixels that are final.
LEMMA HealInv == IInv /\ Heal => IInv'
<1> SUFFICES ASSUME IInv, Heal PROVE IInv'
  OBVIOUS
<1> DEFINE p == Head(ambigousPixel)
           found == {q \in Window(p) : ~buffer[q].isAmbiguous}
<1>1. /\ pc = "heal" /\ ambigousPixel # <<>> /\ ambigousPixel' = Tail(ambigousPixel)
      /\ buffer' = [buffer EXCEPT ![p].color = Average(BufferColor(found))]
      /\ UNCHANGED <<input, saving, size, traced, pc, columns, at>>
  BY DEF Heal, input
<1>2. /\ size \in Sizes /\ DOMAIN buffer = Pixels /\ ambigousPixel \in Seq(Pixels)
      /\ \A n \in DOMAIN ambigousPixel : traced[ambigousPixel[n]] = Ambiguous
      /\ \A q \in Pixels : buffer[q] = Final(q) \/ (buffer[q] = PixelAt(q) /\ Listed(q))
  BY <1>1 DEF IInv, ListIsRight, Healing
<1>3. p \in Pixels /\ traced[p] = Ambiguous
  BY <1>1, <1>2
<1>4. /\ Pixels' = Pixels /\ \A q : PixelAt(q)' = PixelAt(q) /\ Final(q)' = Final(q)
  BY <1>1, Frame
<1>5. \A q \in Pixels : /\ buffer[q].isAmbiguous <=> traced[q] = Ambiguous
                        /\ traced[q] # Ambiguous => buffer[q].color = traced[q]
  <2> SUFFICES ASSUME NEW q \in Pixels
               PROVE  /\ buffer[q].isAmbiguous <=> traced[q] = Ambiguous
                      /\ traced[q] # Ambiguous => buffer[q].color = traced[q]
    OBVIOUS
  <2>1. buffer[q] = Final(q) \/ buffer[q] = PixelAt(q)
    BY <1>2
  <2>2. /\ PixelAt(q).isAmbiguous = (traced[q] = Ambiguous)
        /\ traced[q] # Ambiguous => PixelAt(q).color = traced[q]
    BY DEF PixelAt
  <2>3. Final(q).isAmbiguous = (traced[q] = Ambiguous)
    BY DEF Final
  <2>4. traced[q] # Ambiguous => Final(q) = PixelAt(q)
    BY TracedIsFinal
  <2> QED BY <2>1, <2>2, <2>3, <2>4
<1>6. found = Around(p)
  BY <1>2, <1>3, <1>5, WindowIsAround
<1>7. BufferColor(found) = [q \in Around(p) |-> traced[q]]
  BY <1>5, <1>6 DEF BufferColor, Around
<1>8. Average(BufferColor(found)) = Truth[p]
  BY <1>3, <1>7 DEF Truth
<1>9. \E c : buffer[p] = [color |-> c, isAmbiguous |-> TRUE]
  BY <1>2, <1>3 DEF Final, PixelAt
<1>10. [buffer[p] EXCEPT !.color = Truth[p]] = Final(p)
  <2>1. PICK c : buffer[p] = [color |-> c, isAmbiguous |-> TRUE]
    BY <1>9
  <2>2. Final(p) = [color |-> Truth[p], isAmbiguous |-> TRUE]
    BY <1>3 DEF Final
  <2> HIDE DEF p
  <2>3. [buffer[p] EXCEPT !.color = Truth[p]] =
          [[color |-> c, isAmbiguous |-> TRUE] EXCEPT !.color = Truth[p]]
    BY <2>1, Zenon
  <2>4. [[color |-> c, isAmbiguous |-> TRUE] EXCEPT !.color = Truth[p]] =
          [color |-> Truth[p], isAmbiguous |-> TRUE]
    BY Repaint, Zenon
  <2> QED BY <2>2, <2>3, <2>4, Zenon
<1> HIDE DEF p, found
<1>11. /\ DOMAIN buffer' = Pixels /\ buffer'[p] = Final(p)
       /\ \A q \in Pixels : q # p => buffer'[q] = buffer[q]
  BY <1>1, <1>2, <1>3, <1>8, <1>10
<1>12. /\ ambigousPixel' \in Seq(Pixels)
       /\ \A n \in DOMAIN ambigousPixel' : traced[ambigousPixel'[n]] = Ambiguous
       /\ \A q \in Pixels : Listed(q) /\ q # p => Listed(q)'
  <2>1. /\ Len(ambigousPixel) \in Nat \ {0}
        /\ DOMAIN ambigousPixel = 1 .. Len(ambigousPixel)
        /\ ambigousPixel' \in Seq(Pixels)
        /\ DOMAIN ambigousPixel' = 1 .. Len(ambigousPixel) - 1
        /\ \A n \in 1 .. Len(ambigousPixel) - 1 : ambigousPixel'[n] = ambigousPixel[n + 1]
    BY <1>1, <1>2
  <2>2. \A n \in DOMAIN ambigousPixel' : n + 1 \in DOMAIN ambigousPixel
    BY <2>1
  <2>3. \A n \in DOMAIN ambigousPixel' : traced[ambigousPixel'[n]] = Ambiguous
    BY <2>1, <2>2, <1>2
  <2>4. ASSUME NEW q \in Pixels, Listed(q), q # p
        PROVE  Listed(q)'
    <3>1. PICK n \in DOMAIN ambigousPixel : ambigousPixel[n] = q
      BY <2>4 DEF Listed
    <3>2. n # 1
      BY <3>1, <2>4 DEF p
    <3>3. n - 1 \in DOMAIN ambigousPixel' /\ ambigousPixel'[n - 1] = q
      <4>1. n - 1 \in 1 .. Len(ambigousPixel) - 1 /\ (n - 1) + 1 = n
        BY <3>1, <3>2, <2>1
      <4> QED BY <4>1, <3>1, <2>1
    <3> QED BY <3>3 DEF Listed
  <2> QED BY <2>1, <2>3, <2>4
<1>13. ListIsRight'
  BY <1>1, <1>4, <1>12 DEF ListIsRight
<1>14. Healing'
  BY <1>1, <1>2, <1>4, <1>11, <1>12 DEF Healing
<1>15. Creating'
  BY <1>1, NoBytesYet DEF Heal
<1> QED
  BY <1>1, <1>4, <1>11, <1>13, <1>14, <1>15 DEF IInv, Cursor, Tracing, Searching

\* Healing ends.
LEMMA HealedInv == IInv /\ Healed => IInv'
<1> SUFFICES ASSUME IInv, Healed PROVE IInv'
  OBVIOUS
<1>1. /\ pc = "heal" /\ pc' = "scale"
      /\ UNCHANGED <<input, saving, size, traced, buffer, columns, at, ambigousPixel>>
  BY DEF Healed, input
<1>2. /\ Pixels' = Pixels /\ \A p : PixelAt(p)' = PixelAt(p) /\ Final(p)' = Final(p)
  BY <1>1, Frame
<1>3. \A p : Listed(p)' = Listed(p)
  BY <1>1 DEF Listed
<1>4. Creating'
  BY <1>1 DEF Creating, IInv, Healed
<1> QED
  BY <1>1, <1>2, <1>3, <1>4
     DEF IInv, Cursor, Tracing, Searching, ListIsRight, Healing

\* The pixels are finitely many, and so are those of a patch: as many as the
\* small pixel is divided by, at most.
LEMMA PixelsAreFinite ==
  ASSUME size \in Sizes
  PROVE  IsFiniteSet(Pixels)
<1>1. /\ largePixelsWide \in Nat /\ largePixelsHigh \in Nat
      /\ Pixels = (0 .. largePixelsWide - 1) \X (0 .. largePixelsHigh - 1)
  BY SizeFacts
<1>2. \A n \in Nat : IsFiniteSet(0 .. n - 1)
  BY FS_Interval
<1> QED BY <1>1, <1>2, FS_Product

LEMMA PatchIsFinite ==
  ASSUME size \in Sizes, NEW p
  PROVE  /\ IsFiniteSet(Patch(p)) /\ Cardinality(Patch(p)) \in Nat
         /\ Cardinality(Patch(p)) <= patchSize
         /\ patchSize \in Nat \ {0}
<1> DEFINE a == size.antiAliasFactor
           D == (0 .. a - 1) \X (0 .. a - 1)
           f == [d \in D |-> <<a * p[1] + d[1], a * p[2] + d[2]>>]
<1>1. a \in Nat \ {0}
  BY SizeFacts
<1>2. IsFiniteSet(0 .. a - 1) /\ Cardinality(0 .. a - 1) = a
  <2>1. 0 \in Int /\ a - 1 \in Int /\ ~(0 > a - 1) /\ a - 1 - 0 + 1 = a
    BY <1>1
  <2> HIDE DEF a
  <2> QED BY <2>1, FS_Interval
<1>3. IsFiniteSet(D) /\ Cardinality(D) = a * a
  BY <1>2, FS_Product
<1>4. f \in Surjection(D, Patch(p))
  <2>1. ASSUME NEW d \in D PROVE f[d] \in Patch(p)
    BY DEF Patch
  <2>2. ASSUME NEW q \in Patch(p) PROVE \E d \in D : f[d] = q
    <3>1. PICK di \in 0 .. a - 1, dj \in 0 .. a - 1 : q = <<a * p[1] + di, a * p[2] + dj>>
      BY DEF Patch
    <3>2. <<di, dj>> \in D /\ f[<<di, dj>>] = q
      BY <3>1
    <3> QED BY <3>2
  <2> HIDE DEF a
  <2> QED BY <2>1, <2>2 DEF Surjection
<1>5. IsFiniteSet(Patch(p)) /\ Cardinality(Patch(p)) <= a * a
  BY <1>3, <1>4, FS_Surjection
<1>6. patchSize = a * a
  BY DEF patchSize
<1>7. a * a \in Nat \ {0}
  <2> HIDE DEF a
  <2> QED BY <1>1
<1> QED BY <1>5, <1>6, <1>7, FS_CardinalityType

\* What a pixel should show is a number for every channel.
LEMMA TruthIsNat ==
  ASSUME size \in Sizes, traced \in [Pixels -> Colors \cup {Ambiguous}],
         NEW p \in Pixels, NEW c \in Channels
  PROVE  Truth[p][c] \in Nat
<1>1. \A q \in Pixels : traced[q] # Ambiguous => traced[q][c] \in Nat
  BY ColorsAssumption
<1>2. CASE traced[p] # Ambiguous
  BY <1>1, <1>2 DEF Truth
<1>3. CASE traced[p] = Ambiguous
  <2> DEFINE seen == [q \in Around(p) |-> traced[q]]
  <2>1. Around(p) \subseteq Pixels /\ \A q \in Around(p) : traced[q] # Ambiguous
    BY DEF Around
  <2>2. IsFiniteSet(Around(p))
    BY <2>1, PixelsAreFinite, FS_Subset
  <2>3. DOMAIN seen = Around(p) /\ \A q \in DOMAIN seen : seen[q][c] \in Nat
    BY <2>1, <1>1
  <2>4. Truth[p][c] = IF DOMAIN seen = {} THEN 0
                      ELSE Sum(seen, c) \div Cardinality(DOMAIN seen)
    BY <1>3 DEF Truth, Average
  <2> HIDE DEF seen
  <2>5. Sum(seen, c) \in Nat
    BY <2>2, <2>3, SumBound
  <2>6. DOMAIN seen # {} => Cardinality(DOMAIN seen) \in Nat \ {0}
    BY <2>2, <2>3, FS_EmptySet, FS_CardinalityType
  <2>7. \A x \in Nat, y \in Nat \ {0} : x \div y \in Nat
    OBVIOUS
  <2>8. CASE DOMAIN seen = {}
    BY <2>4, <2>8
  <2>9. CASE DOMAIN seen # {}
    BY ONLY <2>4, <2>5, <2>6, <2>7, <2>9
  <2> QED BY <2>8, <2>9
<1> QED BY <1>2, <1>3

\* No channel is brighter than the brightest.
LEMMA BrightestBounds ==
  ASSUME size \in Sizes, traced \in [Pixels -> Colors \cup {Ambiguous}]
  PROVE  /\ Brightest \in Nat \ {0}
         /\ \A p \in Pixels, c \in Channels : Truth[p][c] <= Brightest
<1> DEFINE V == {Truth[p][c] : p \in Pixels, c \in Channels}
           D == Pixels \X Channels
           f == [d \in D |-> Truth[d[1]][d[2]]]
           found == Max({0} \cup V)
<1>1. V \subseteq Nat
  BY TruthIsNat
<1>2. IsFiniteSet(D)
  BY PixelsAreFinite, ChannelsAssumption, FS_Product
<1>3. f \in Surjection(D, V)
  <2>1. ASSUME NEW d \in D PROVE f[d] \in V
    <3>1. d[1] \in Pixels /\ d[2] \in Channels /\ f[d] = Truth[d[1]][d[2]]
      OBVIOUS
    <3> QED BY <3>1
  <2>2. ASSUME NEW v \in V PROVE \E d \in D : f[d] = v
    <3>1. PICK p \in Pixels, c \in Channels : v = Truth[p][c]
      OBVIOUS
    <3>2. <<p, c>> \in D /\ f[<<p, c>>] = v
      BY <3>1
    <3> QED BY <3>2
  <2> HIDE DEF V
  <2> QED BY <2>1, <2>2 DEF Surjection
<1>4. IsFiniteSet(V)
  BY <1>2, <1>3, FS_Surjection
<1>5. IsFiniteSet({0} \cup V)
  <2> HIDE DEF V
  <2>1. IsFiniteSet(V \cup {0})
    BY <1>4, FS_AddElement
  <2> QED BY <2>1
<1>6. found \in {0} \cup V /\ \A y \in {0} \cup V : found >= y
  <2> HIDE DEF V
  <2>1. {0} \cup V \subseteq Nat /\ {0} \cup V # {}
    BY <1>1
  <2> QED BY ONLY <2>1, <1>5, LargestExists
<1>7. Brightest = IF found = 0 THEN 1 ELSE found
  BY DEF Brightest
<1>8. \A p \in Pixels, c \in Channels : Truth[p][c] \in V
  OBVIOUS
<1> HIDE DEF V, found
<1>9. found \in Nat /\ \A y \in V : y \in Nat /\ y <= found
  BY <1>1, <1>6
<1>10. Brightest \in Nat \ {0} /\ found <= Brightest
  BY <1>7, <1>9
<1> QED BY <1>8, <1>9, <1>10

\* A patch of the small picture lies in the large one.
LEMMA PatchIsInside ==
  ASSUME size \in Sizes, NEW p \in Nat \X Nat, p[1] < size.wide, p[2] < size.high
  PROVE  Patch(p) \subseteq Pixels
<1> SUFFICES ASSUME NEW di \in 0 .. size.antiAliasFactor - 1,
                    NEW dj \in 0 .. size.antiAliasFactor - 1
             PROVE  <<size.antiAliasFactor * p[1] + di,
                      size.antiAliasFactor * p[2] + dj>> \in Pixels
  BY DEF Patch
<1>1. /\ size.wide \in Nat /\ size.high \in Nat
      /\ size.antiAliasFactor \in Nat \ {0}
      /\ p[1] \in Nat /\ p[2] \in Nat
  BY SizeFacts
<1>2. size.antiAliasFactor * p[1] + di \in 0 .. largePixelsWide - 1
  BY <1>1, PatchInside DEF largePixelsWide
<1>3. size.antiAliasFactor * p[2] + dj \in 0 .. largePixelsHigh - 1
  BY <1>1, PatchInside DEF largePixelsHigh
<1> QED BY <1>2, <1>3, SizeFacts

\* The average of a patch, scaled by the brightest channel, fits in a byte.
LEMMA ScaledFits ==
  ASSUME size \in Sizes, traced \in [Pixels -> Colors \cup {Ambiguous}],
         NEW p, Patch(p) \subseteq Pixels, NEW c \in Channels
  PROVE  Scaled([q \in Patch(p) |-> Truth[q]], c, Brightest) \in 0 .. 255
<1> DEFINE seen == [q \in Patch(p) |-> Truth[q]]
<1>1. /\ DOMAIN seen = Patch(p)
      /\ \A q \in DOMAIN seen : seen[q][c] \in Nat /\ seen[q][c] <= Brightest
  BY TruthIsNat, BrightestBounds
<1>2. Brightest \in Nat \ {0}
  BY BrightestBounds
<1>3. /\ IsFiniteSet(DOMAIN seen) /\ Cardinality(DOMAIN seen) \in Nat
      /\ Cardinality(DOMAIN seen) <= patchSize /\ patchSize \in Nat \ {0}
  BY <1>1, PatchIsFinite
<1> HIDE DEF seen
<1>4. Sum(seen, c) \in Nat /\ Sum(seen, c) <= Brightest * Cardinality(DOMAIN seen)
  BY <1>1, <1>2, <1>3, SumBound
<1>5. Brightest * Cardinality(DOMAIN seen) <= patchSize * Brightest
  <2>1. PICK r \in Nat : patchSize = Cardinality(DOMAIN seen) + r
    <3>1. /\ patchSize - Cardinality(DOMAIN seen) \in Nat
          /\ patchSize = Cardinality(DOMAIN seen) + (patchSize - Cardinality(DOMAIN seen))
      BY <1>3
    <3> QED BY <3>1
  <2>2. \A x, y, z \in Nat : (x + y) * z = z * x + y * z /\ y * z \in Nat /\ z * x \in Nat
    OBVIOUS
  <2> QED BY <2>1, <2>2, <1>2, <1>3
<1>6. patchSize * Brightest \in Nat \ {0}
  <2>1. \A x, y \in Nat \ {0} : x * y \in Nat \ {0}
    OBVIOUS
  <2> QED BY <2>1, <1>2, <1>3
<1>7. Brightest * Cardinality(DOMAIN seen) \in Nat
  BY <1>2, <1>3
<1>8. 255 * Sum(seen, c) \in Nat /\ 255 * Sum(seen, c) <= 255 * (patchSize * Brightest)
  BY <1>4, <1>5, <1>6, <1>7
<1>9. ASSUME NEW x \in Nat, NEW y \in Nat \ {0}, x <= 255 * y PROVE x \div y \in 0 .. 255
  BY <1>9
<1>10. (255 * Sum(seen, c)) \div (patchSize * Brightest) \in 0 .. 255
  BY <1>6, <1>8, <1>9
<1> QED BY <1>10 DEF Scaled, seen

\* Once nothing is left to heal, the buffer shows what it should.
LEMMA BufferIsTrue ==
  ASSUME IInv, pc \in {"scale", "encode"}
  PROVE  \A p \in Pixels : buffer[p].color = Truth[p]
<1>1. ambigousPixel = <<>>
  BY DEF IInv, Creating
<1>2. \A p \in Pixels : ~Listed(p)
  BY <1>1 DEF Listed
<1>3. \A p \in Pixels : buffer[p] = Final(p)
  BY <1>2 DEF IInv, Healing
<1>4. \A p : Final(p).color = Truth[p]
  BY DEF Final
<1> QED BY <1>3, <1>4

\* The picture is scaled by its brightest channel.
LEMMA MaxColorValueCreates == IInv /\ MaxColorValue => Creating'
<1> SUFFICES ASSUME IInv, MaxColorValue PROVE Creating'
  OBVIOUS
<1>1. /\ pc = "scale" /\ pc' = "encode" /\ at' = <<0, 0>>
      /\ UNCHANGED <<input, ambigousPixel, rgbaBuffer>> /\ size' = size
  BY DEF MaxColorValue, input
<1>2. ambigousPixel' = <<>> /\ rgbaBuffer' = <<>>
  BY <1>1 DEF IInv, Creating
<1>3. max' = Brightest
  <2> DEFINE shown == {buffer[p].color[c] : p \in Pixels, c \in Channels}
             V == {Truth[p][c] : p \in Pixels, c \in Channels}
             Largest(S) == IF Max({0} \cup S) = 0 THEN 1 ELSE Max({0} \cup S)
  <2>1. shown = V
    BY <1>1, BufferIsTrue
  <2>2. max' = Largest(shown)
    BY DEF MaxColorValue
  <2>3. Brightest = Largest(V)
    BY DEF Brightest
  <2> HIDE DEF shown, V, Largest
  <2> QED BY <2>1, <2>2, <2>3
<1>4. Brightest' = Brightest
  BY <1>1, BytesFrame
<1>5. /\ size' \in Sizes /\ size'.wide \in Nat /\ size'.high \in Nat
  BY <1>1, SizeFacts DEF IInv
<1>6. rgbaBuffer' = [n \in 1 .. size'.wide * at'[2] + at'[1] |-> SmallPixel(n)']
  <2>1. 1 .. size'.wide * at'[2] + at'[1] = {}
    BY <1>1, <1>5
  <2>2. \A f : <<>> = [n \in {} |-> f[n]]
    OBVIOUS
  <2> QED BY <2>1, <1>2
<1> QED BY <1>1, <1>2, <1>3, <1>4, <1>5, <1>6 DEF Creating

\* The patch of the next byte is the one at hand, and the number of bytes says
\* how far the patches have been visited.
LEMMA RowByRow ==
  ASSUME NEW w \in Nat, NEW x \in Nat, NEW y \in Nat, x < w
  PROVE  /\ w * y + x \in Nat
         /\ (w * y + x) % w = x
         /\ (w * y + x) \div w = y
         /\ w * (y + 1) = w * y + w
OBVIOUS

\* The next patch becomes the next pixel, and no byte is clamped.
LEMMA EncodeCreates == IInv /\ Encode => Creating'
<1> SUFFICES ASSUME IInv, Encode PROVE Creating'
  OBVIOUS
<1> DEFINE w == size.wide
           h == size.high
           x == at[1]
           y == at[2]
           N == w * y + x
<1>1. /\ pc = "encode" /\ pc' = "encode" /\ x < w /\ y < h
      /\ at' = IF x + 1 < w THEN <<x + 1, y>> ELSE <<0, y + 1>>
      /\ UNCHANGED <<input, ambigousPixel, max>> /\ size' = size
  BY DEF Encode, input, AfterPatch
<1>2. /\ w \in Nat /\ h \in Nat /\ x \in Nat /\ y \in Nat /\ at = <<x, y>>
      /\ size \in Sizes /\ traced \in [Pixels -> Colors \cup {Ambiguous}]
  BY SizeFacts DEF IInv, Cursor
<1>3. /\ ambigousPixel = <<>> /\ max = Brightest
      /\ rgbaBuffer = [n \in 1 .. N |-> SmallPixel(n)]
  BY <1>1 DEF IInv, Creating
<1>4. Brightest' = Brightest /\ \A n : SmallPixel(n)' = SmallPixel(n)
  BY <1>1, BytesFrame
<1>5. Patch(at) \subseteq Pixels
  BY <1>1, <1>2, PatchIsInside
<1>6. BufferColor(Patch(at)) = [q \in Patch(at) |-> Truth[q]]
  BY <1>1, <1>5, BufferIsTrue DEF BufferColor
<1>7. N \in Nat /\ N % w = x /\ N \div w = y /\ w * (y + 1) = w * y + w
  BY <1>1, <1>2, RowByRow
<1>8. SmallPixel(N + 1) =
        [c \in Channels |-> Scaled([q \in Patch(at) |-> Truth[q]], c, Brightest)]
  <2>1. (N + 1) - 1 = N
    BY <1>7
  <2>2. <<((N + 1) - 1) % w, ((N + 1) - 1) \div w>> = at
    BY <2>1, <1>2, <1>7
  <2> HIDE DEF N, x, y
  <2> QED BY <2>2 DEF SmallPixel
<1>9. rgbaBuffer' = Append(rgbaBuffer, SmallPixel(N + 1))
  <2>1. \A c \in Channels :
          Scaled([q \in Patch(at) |-> Truth[q]], c, Brightest) \in 0 .. 255
    BY <1>2, <1>5, ScaledFits
  <2>2. \A v \in 0 .. 255 : ConvertPixelValue(v) = v
    BY DEF ConvertPixelValue
  <2>3. rgbaBuffer' = Append(rgbaBuffer, [c \in Channels |->
          ConvertPixelValue(Scaled([q \in Patch(at) |-> Truth[q]], c, Brightest))])
    BY <1>3, <1>6 DEF Encode
  <2> QED BY <2>1, <2>2, <2>3, <1>8
<1>10. w * at'[2] + at'[1] = N + 1
  <2>1. CASE x + 1 < w
    <3>1. at'[1] = x + 1 /\ at'[2] = y
      BY <2>1, <1>1
    <3>2. w * y \in Nat
      BY <1>2
    <3> HIDE DEF x, y, w
    <3> QED BY <3>1, <3>2, <1>2 DEF N
  <2>2. CASE ~(x + 1 < w)
    <3>1. at'[1] = 0 /\ at'[2] = y + 1 /\ w = x + 1
      BY <2>2, <1>1, <1>2
    <3>2. w * y \in Nat
      BY <1>2
    <3> HIDE DEF x, y, w
    <3>3. w * at'[2] + at'[1] = w * y + w + 0
      BY <3>1, <1>7
    <3> QED BY <3>1, <3>2, <3>3, <1>2 DEF N
  <2> QED BY <2>1, <2>2
<1> HIDE DEF N, x, y, w, h
<1>11. rgbaBuffer' = [n \in 1 .. N + 1 |-> SmallPixel(n)]
  <2> DEFINE f == [n \in 1 .. N |-> SmallPixel(n)]
             v == SmallPixel(N + 1)
  <2>1. Len(f) = N /\ \A n \in 1 .. N : f[n] = SmallPixel(n)
    BY <1>7
  <2>2. Append(f, v) = [n \in 1 .. N + 1 |-> IF n = N + 1 THEN v ELSE f[n]]
    BY <2>1, <1>7 
  <2> QED BY <2>1, <2>2, <1>3, <1>7, <1>9
<1>12. at'[2] <= h /\ (at'[1] = 0 \/ (at'[1] < w /\ at'[2] < h))
  BY <1>1, <1>2
<1> QED BY <1>1, <1>3, <1>4, <1>10, <1>11, <1>12 DEF Creating, w, h

\* After the last patch the picture is complete.
LEMMA EncodedCreates == IInv /\ Encoded => Creating'
<1> SUFFICES ASSUME IInv, Encoded PROVE Creating'
  OBVIOUS
<1>1. /\ pc = "encode" /\ pc' = "done" /\ ~(at[1] < size.wide /\ at[2] < size.high)
      /\ UNCHANGED <<input, at, ambigousPixel, max, rgbaBuffer>> /\ size' = size
  BY DEF Encoded, input
<1>2. /\ size.wide \in Nat /\ size.high \in Nat /\ at[1] \in Nat /\ at[2] \in Nat
  BY SizeFacts DEF IInv, Cursor
<1>3. Brightest' = Brightest /\ \A n : SmallPixel(n)' = SmallPixel(n)
  BY <1>1, BytesFrame
<1>4. at[2] <= size.high /\ at[1] = 0
  BY <1>1 DEF IInv, Creating
<1>5. size.wide = 0 \/ at[2] = size.high
  BY <1>1, <1>2, <1>4
<1>6. size.wide * at[2] + at[1] = size.wide * size.high
  <2>1. \A u \in Nat : 0 * u = 0 /\ u + 0 = u
    OBVIOUS
  <2>2. size.wide * size.high \in Nat
    BY <1>2
  <2> QED BY <1>2, <1>4, <1>5, <2>1, <2>2
<1> QED BY <1>1, <1>3, <1>6 DEF IInv, Creating

\* Or it is never used.
LEMMA EncoderFailsCreates == IInv /\ EncoderFails => Creating'
BY DEF IInv, Creating, EncoderFails

\* The image is made without writing to the buffer.
LEMMA CreateImageInv ==
  ASSUME IInv, MaxColorValue \/ Encode \/ Encoded \/ EncoderFails
  PROVE  IInv'
<1>1. /\ pc \in {"scale", "encode"} /\ pc' \in {"encode", "done", "failed"}
      /\ UNCHANGED <<input, saving, size, traced, buffer, columns, ambigousPixel>>
  BY DEF MaxColorValue, Encode, Encoded, EncoderFails, input
<1>2. at' \in Nat \X Nat
  <2>1. /\ size \in Sizes /\ at \in Nat \X Nat
    BY DEF IInv, Cursor
  <2>2. CASE MaxColorValue
    BY <2>2 DEF MaxColorValue
  <2>3. CASE Encode
    <3>1. at' = AfterPatch(at)
      BY <2>3 DEF Encode
    <3> QED BY <2>1, <3>1, SizeFacts DEF AfterPatch
  <2>4. CASE Encoded \/ EncoderFails
    BY <2>1, <2>4 DEF Encoded, EncoderFails
  <2> QED BY <2>2, <2>3, <2>4
<1>3. /\ Pixels' = Pixels /\ \A p : PixelAt(p)' = PixelAt(p) /\ Final(p)' = Final(p)
  BY <1>1, Frame
<1>4. \A p : Listed(p)' = Listed(p)
  BY <1>1 DEF Listed
<1>5. Creating'
  BY MaxColorValueCreates, EncodeCreates, EncodedCreates, EncoderFailsCreates
<1> QED
  BY <1>1, <1>2, <1>3, <1>4, <1>5
     DEF IInv, Cursor, Tracing, Searching, ListIsRight, Healing

\* A step that changes nothing keeps the invariant.
LEMMA StutterInv == IInv /\ UNCHANGED vars => IInv'
<1> SUFFICES ASSUME IInv, UNCHANGED vars PROVE IInv'
  OBVIOUS
<1>1. UNCHANGED <<input, saving, size, traced, buffer, pc, columns, at, ambigousPixel>>
  BY DEF vars, input
<1>2. /\ Pixels' = Pixels /\ largePixelsWide' = largePixelsWide
      /\ largePixelsHigh' = largePixelsHigh
      /\ \A p : PixelAt(p)' = PixelAt(p) /\ Final(p)' = Final(p)
  BY <1>1, Frame
<1>3. /\ \A p : Listed(p)' = Listed(p)
      /\ Visited' = Visited
  BY <1>1, <1>2 DEF Listed, Visited
<1>4. Creating'
  <2>1. Brightest' = Brightest /\ \A n : SmallPixel(n)' = SmallPixel(n)
    BY <1>1, BytesFrame
  <2> QED BY <2>1, <1>1 DEF IInv, Creating, vars
<1> QED
  BY <1>1, <1>2, <1>3, <1>4
     DEF IInv, Cursor, Tracing, Searching, ListIsRight, Healing

\* IInv holds in every state: what has been traced, listed and healed is right
\* at every step of either way.
THEOREM IInvHolds == Spec => []IInv
<1>1. Init => IInv
  BY InitInv
<1>2. IInv /\ [Next]_vars => IInv'
  <2> SUFFICES ASSUME IInv, [Next]_vars PROVE IInv'
    OBVIOUS
  <2>1. CASE SaveTraces
    BY <2>1, SaveTracesInv
  <2>2. CASE \E c \in columns : PaintColumn(c)
    BY <2>2, PaintColumnInv
  <2>3. CASE Painted
    BY <2>3, PaintedInv
  <2>4. CASE Search
    BY <2>4, SearchInv
  <2>5. CASE SaveTraced \/ Searched
    BY <2>5, HealingBegins
  <2>6. CASE Heal
    BY <2>6, HealInv
  <2>7. CASE Healed
    BY <2>7, HealedInv
  <2>8. CASE MaxColorValue \/ Encode \/ Encoded \/ EncoderFails
    BY <2>8, CreateImageInv
  <2>9. CASE UNCHANGED vars
    BY <2>9, StutterInv
  <2> QED
    BY <2>1, <2>2, <2>3, <2>4, <2>5, <2>6, <2>7, <2>8, <2>9 DEF Next
<1> QED BY <1>1, <1>2, PTL DEF Spec

\* ResolveAmbiguousPixel averages traced colors only, never healed ones, and
\* touches no other pixel: the order of healing does not matter.
THEOREM HealingIsRight == Spec => []HealedFromTraced
<1>1. IInv => HealedFromTraced
  <2> SUFFICES ASSUME IInv, pc \in {"heal", "scale", "encode", "done"},
                      NEW p \in Pixels
               PROVE  buffer[p].color = Truth[p] \/ Listed(p)
    BY DEF HealedFromTraced, Listed
  <2>1. buffer[p] = Final(p) \/ Listed(p)
    BY DEF IInv, Healing
  <2>2. Final(p).color = Truth[p]
    BY DEF Final
  <2> QED BY <2>1, <2>2
<1> QED BY <1>1, IInvHolds, PTL

\* Neither healing nor down-sampling asks for a pixel outside the buffer, so
\* ImageBuffer::Pixel never throws.
THEOREM PixelIsInside == Spec => []PixelNeverThrows
<1>1. IInv => PixelNeverThrows
  <2> SUFFICES ASSUME IInv PROVE PixelNeverThrows
    OBVIOUS
  <2>1. size \in Sizes /\ at \in Nat \X Nat /\ ambigousPixel \in Seq(Pixels)
    BY DEF IInv, Cursor, ListIsRight
  <2>2. ASSUME ambigousPixel # <<>>
        PROVE  Window(Head(ambigousPixel)) \subseteq Pixels
    <3>1. Head(ambigousPixel) \in Pixels
      BY <2>1, <2>2
    <3> QED BY <2>1, <3>1, WindowIsAround
  <2>3. ASSUME at[1] < size.wide, at[2] < size.high
        PROVE  Patch(at) \subseteq Pixels
    BY <2>1, <2>3, PatchIsInside
  <2> QED BY <2>2, <2>3 DEF PixelNeverThrows
<1> QED BY <1>1, IInvHolds, PTL

\* A finished picture is the one that was traced: every pixel is the average
\* of its patch, scaled by the brightest channel, and nothing else matters,
\* neither the order of the columns nor that of the healing; and no byte is
\* clamped.
THEOREM PictureIsMade == Spec => []OnePicture
<1>1. IInv => OnePicture
  <2> SUFFICES ASSUME IInv, pc = "done" PROVE OnePicture
    BY DEF OnePicture
  <2>1. rgbaBuffer = [n \in 1 .. size.wide * size.high |-> SmallPixel(n)]
    BY DEF IInv, Creating
  <2> QED BY <2>1 DEF OnePicture, SmallPixel, Brightest
<1> QED BY <1>1, IInvHolds, PTL

-----------------------------------------------------------------------------
\* The assembly.


\* A step of the assembly is a step of the cutting, or leaves it alone.
LEMMA StepCuts == [AssemblyNext]_assemblyVars => [ChunkNext]_chunkVars
BY DEF AssemblyNext, assemblyVars, Cut, PopChunk, PaintLine, QueueIsEmpty,
   TracePixels, Finish

\* The assembly cuts the picture as SerializeData does.
THEOREM AssemblyCuts == AssemblySpec => ChunkSpec
<1>1. AssemblyInit => ChunkInit
  BY DEF AssemblyInit
<1> QED BY <1>1, StepCuts, PTL DEF AssemblySpec, ChunkSpec

\* Nothing is missing that is not queued before the cutting begins.
LEMMA AssemblyInitInv == AssemblyInit => AssemblyIInv
<1> SUFFICES ASSUME AssemblyInit PROVE AssemblyIInv
  OBVIOUS
<1>1. ChunkIInv
  BY ChunkInitInv DEF AssemblyInit
<1> QED BY <1>1 DEF AssemblyInit, AssemblyIInv, SameDimensions, NotYetCut,
     MissingIsQueued, Init, ChunkInit, Line

\* Cutting: once it is over every line is in a chunk, and every chunk queued.
LEMMA CutInv == AssemblyIInv /\ Cut => AssemblyIInv'
<1> SUFFICES ASSUME AssemblyIInv, Cut PROVE AssemblyIInv'
  OBVIOUS
<1>1. /\ ~saving /\ ChunkNext /\ UNCHANGED <<vars, painting>>
      /\ outputQueue' = IF chunkPc' = "done" THEN DOMAIN serializedData' ELSE {}
  BY DEF Cut
<1>2. ChunkIInv'
  BY <1>1, ChunkStepInv DEF AssemblyIInv
<1>3. chunkPc # "done" /\ wide' = wide
  BY <1>1 DEF ChunkNext, StartChunk, FillChunk, EndLoop, LastChunk, sizes
<1>4. SameDimensions' /\ Line' = Line
  BY <1>1, <1>3 DEF AssemblyIInv, SameDimensions, vars, input, largePixelsWide,
     Line
<1>5. ASSUME pc = "trace" PROVE NotYetCut' /\ MissingIsQueued'
  <2>1. columns' = Line /\ painting' = <<>>
    BY <1>1, <1>3, <1>5 DEF AssemblyIInv, NotYetCut, vars
  <2>2. NotYetCut'
    BY <2>1, <1>1, <1>4 DEF NotYetCut
  <2>3. ASSUME chunkPc' = "done" PROVE \A c \in Line' : InQueue(c)'
    BY <2>3, <1>1, <1>2 DEF ChunkIInv, Covered, AtEnd, FirstOpenLine, Line,
       InQueue
  <2>4. MissingIsQueued'
    BY <2>1, <2>3, <1>1, <1>4 DEF MissingIsQueued
  <2> QED BY <2>2, <2>4
<1>6. pc' = pc /\ saving' = saving
  BY <1>1 DEF vars, input
<1> QED BY <1>2, <1>4, <1>5, <1>6 DEF AssemblyIInv

\* The columns of the chunk that is taken from the queue are in no other.
LEMMA PopChunkInv == AssemblyIInv /\ PopChunk => AssemblyIInv'
<1> SUFFICES ASSUME AssemblyIInv, PopChunk PROVE AssemblyIInv'
  OBVIOUS
<1>1. PICK k \in outputQueue :
        painting' = serializedData[k] /\ outputQueue' = outputQueue \ {k}
  BY DEF PopChunk
<1>2. /\ pc = "trace" /\ chunkPc = "done" /\ painting = <<>>
      /\ UNCHANGED <<chunkVars, vars>>
  BY DEF PopChunk
<1>3. ChunkIInv' /\ SameDimensions' /\ Line' = Line
  BY <1>2, ChunkStepInv DEF AssemblyIInv, SameDimensions, Line, chunkVars, sizes,
     vars, input, largePixelsWide
<1>4. ASSUME ~saving PROVE MissingIsQueued'
  <2>1. MissingIsQueued /\ Shapes
    BY <1>2, <1>4, ChunkTypeFacts DEF AssemblyIInv, ChunkIInv
  <2>2. /\ outputQueue \subseteq DOMAIN serializedData
        /\ columns \subseteq Line
        /\ \A c \in Line : c \in columns <=> InQueue(c)
    BY <2>1, <1>2 DEF MissingIsQueued, InPainting
  <2>3. serializedData[k] \in Seq(Line)
    BY <2>1, <2>2, <1>1 DEF Shapes
  <2>4. /\ columns' = columns /\ serializedData' = serializedData
        /\ chunkPc' = "done"
    BY <1>2 DEF vars, chunkVars
  <2>5. ASSUME NEW c \in Line PROVE InQueue(c) <=> InQueue(c)' \/ InPainting(c)'
    BY <1>1, <2>4 DEF InQueue, InPainting
  <2>6. \A m, n \in DOMAIN painting' : m < n => painting'[m] < painting'[n]
    BY <1>1, <2>2 DEF AssemblyIInv, ChunkIInv, Ascending
  <2>7. ASSUME NEW m \in DOMAIN serializedData[k], NEW l \in outputQueue, l # k,
               NEW n \in DOMAIN serializedData[l]
        PROVE  serializedData[l][n] # serializedData[k][m]
    <3>1. k \in Nat /\ l \in Nat /\ k \in DOMAIN serializedData
          /\ l \in DOMAIN serializedData
      BY <1>1, <2>2, <2>1 DEF Shapes
    <3>2. serializedData[l][n] \in Nat /\ serializedData[k][m] \in Nat
      BY <3>1, <2>1 DEF Shapes
    <3>3. CASE k < l
      BY <3>1, <3>2, <3>3 DEF AssemblyIInv, ChunkIInv, Apart
    <3>4. CASE l < k
      BY <3>1, <3>2, <3>4 DEF AssemblyIInv, ChunkIInv, Apart
    <3> QED BY <3>1, <3>3, <3>4, <2>7
  <2>8. (\A m \in DOMAIN painting : ~InQueue(painting[m]))'
    BY <1>1, <2>4, <2>7 DEF InQueue
  <2> QED BY <2>2, <2>3, <2>4, <2>5, <2>6, <2>8, <1>1, <1>3 DEF MissingIsQueued
<1>5. (NotYetCut)' /\ saving' = saving
  BY <1>2 DEF NotYetCut, chunkVars, vars, input
<1> QED BY <1>3, <1>4, <1>5 DEF AssemblyIInv

\* The column that is painted is no longer missing, the others of its chunk are.
LEMMA PaintLineInv == AssemblyIInv /\ PaintLine => AssemblyIInv'
<1> SUFFICES ASSUME AssemblyIInv, PaintLine PROVE AssemblyIInv'
  OBVIOUS
<1>1. /\ painting # <<>> /\ painting' = Tail(painting)
      /\ UNCHANGED <<chunkVars, outputQueue>>
      /\ ~saving /\ pc = "trace" /\ Head(painting) \in columns
      /\ columns' = columns \ {Head(painting)}
      /\ saving' = saving /\ size' = size /\ pc' = pc
  BY DEF PaintLine, PaintColumn, input
<1>2. ChunkIInv' /\ SameDimensions' /\ Line' = Line
  BY <1>1, ChunkStepInv DEF AssemblyIInv, SameDimensions, Line, chunkVars, sizes,
     largePixelsWide
<1>3. chunkPc = "done" /\ MissingIsQueued
  BY <1>1 DEF AssemblyIInv, NotYetCut
<1>4. /\ painting \in Seq(Line) /\ Len(painting) \in Nat /\ Len(painting) # 0
      /\ DOMAIN painting = 1 .. Len(painting)
      /\ Head(painting) = painting[1]
      /\ \A m, n \in DOMAIN painting : m < n => painting[m] < painting[n]
      /\ \A m \in DOMAIN painting : painting[m] \in Int
      /\ \A m \in DOMAIN painting : ~InQueue(painting[m])
  <2>1. /\ painting \in Seq(Line)
        /\ \A m, n \in DOMAIN painting : m < n => painting[m] < painting[n]
        /\ \A m \in DOMAIN painting : ~InQueue(painting[m])
    BY <1>3 DEF MissingIsQueued
  <2>2. /\ Len(painting) \in Nat /\ Len(painting) # 0
        /\ DOMAIN painting = 1 .. Len(painting)
        /\ Head(painting) = painting[1]
    <3>1. painting \in Seq(Line) /\ painting # <<>>
      BY <1>1, <2>1
    <3> QED BY <3>1
  <2>3. \A m \in DOMAIN painting : painting[m] \in Int
    <3>1. wide \in Nat
      BY WidthsAssumption DEF AssemblyIInv, ChunkIInv, ChunkTypeOK
    <3>2. \A m \in DOMAIN painting : painting[m] \in Line
      BY <2>1
    <3> QED BY <3>1, <3>2 DEF Line
  <2> QED BY <2>1, <2>2, <2>3
<1>5. /\ painting' \in Seq(Line)
      /\ DOMAIN painting' = 1 .. Len(painting) - 1
      /\ \A m \in DOMAIN painting' :
           m + 1 \in DOMAIN painting /\ painting'[m] = painting[m + 1]
  BY <1>1, <1>4
<1>6. \A c \in Line : InQueue(c)' <=> InQueue(c)
  BY <1>1 DEF InQueue, chunkVars
<1>7. \A c \in Line : InPainting(c)' <=> InPainting(c) /\ c # painting[1]
  <2>1. ASSUME NEW m \in DOMAIN painting, m # 1
        PROVE  m - 1 \in DOMAIN painting' /\ painting'[m - 1] = painting[m]
               /\ painting[m] # painting[1]
    <3>1. /\ m \in 1 .. Len(painting) /\ 1 \in DOMAIN painting /\ 1 < m
          /\ (m - 1) + 1 = m /\ m - 1 \in 1 .. Len(painting) - 1
      BY <1>4, <2>1
    <3>2. m - 1 \in DOMAIN painting' /\ painting'[m - 1] = painting[m]
      BY <3>1, <1>5
    <3>3. painting[1] < painting[m] /\ painting[1] \in Int /\ painting[m] \in Int
      BY <3>1, <1>4
    <3> QED BY <3>2, <3>3
  <2>2. ASSUME NEW m \in DOMAIN painting'
        PROVE  painting'[m] = painting[m + 1] /\ painting[m + 1] # painting[1]
               /\ m + 1 \in DOMAIN painting
    <3>1. /\ m + 1 \in DOMAIN painting /\ 1 \in DOMAIN painting /\ 1 < m + 1
          /\ painting'[m] = painting[m + 1]
      BY <1>4, <1>5
    <3>2. painting[1] < painting[m + 1] /\ painting[1] \in Int /\ painting[m + 1] \in Int
      BY <3>1, <1>4
    <3> QED BY <3>1, <3>2
  <2> QED BY <2>1, <2>2 DEF InPainting
<1>8. \A m, n \in DOMAIN painting' : m < n => painting'[m] < painting'[n]
  BY <1>4, <1>5
<1>9. (\A m \in DOMAIN painting : ~InQueue(painting[m]))'
  <2>1. ASSUME NEW m \in DOMAIN painting', NEW k \in outputQueue',
               NEW n \in DOMAIN serializedData'[k]
        PROVE  serializedData'[k][n] # painting'[m]
    <3>1. /\ painting'[m] = painting[m + 1] /\ m + 1 \in DOMAIN painting
          /\ outputQueue' = outputQueue /\ serializedData' = serializedData
      BY <1>1, <1>5 DEF chunkVars
    <3> QED BY <3>1, <1>4 DEF InQueue
  <2> QED BY <2>1 DEF InQueue
<1>10. \A c \in Line : c \in columns' <=> InQueue(c)' \/ InPainting(c)'
  <2>1. ~InQueue(painting[1])
    BY <1>4
  <2>2. \A c \in Line : c \in columns <=> InQueue(c) \/ InPainting(c)
    BY <1>3 DEF MissingIsQueued
  <2> QED BY <1>1, <1>4, <1>6, <1>7, <2>1, <2>2
<1>11. MissingIsQueued'
  BY <1>1, <1>2, <1>3, <1>5, <1>8, <1>9, <1>10 DEF MissingIsQueued, chunkVars
<1>12. (NotYetCut)'
  BY <1>1, <1>3 DEF NotYetCut, chunkVars
<1> QED BY <1>2, <1>11, <1>12 DEF AssemblyIInv

\* The other steps end the painting or are not the server's.
LEMMA OtherInv ==
  ASSUME AssemblyIInv, QueueIsEmpty \/ TracePixels \/ Finish
  PROVE  AssemblyIInv'
<1>1. UNCHANGED chunkVars /\ size' = size
  BY DEF QueueIsEmpty, PaintingEnds, TracePixels, SaveTraces, SaveTraced, Finish,
     Search, Searched, Heal, Healed, MaxColorValue, Encode, Encoded, EncoderFails,
     input
<1>2. ChunkIInv' /\ SameDimensions'
  BY <1>1, ChunkStepInv DEF AssemblyIInv, SameDimensions, chunkVars, sizes,
     largePixelsWide
<1>3. saving' \/ pc' # "trace"
  BY DEF QueueIsEmpty, PaintingEnds, TracePixels, SaveTraces, SaveTraced, Finish,
     Search, Searched, Heal, Healed, MaxColorValue, Encode, Encoded, EncoderFails,
     input
<1> QED BY <1>2, <1>3 DEF AssemblyIInv

\* The inductive invariant: a column that is missing from the buffer is in one
\* chunk that has still to be painted.
THEOREM AssemblyIInvHolds == AssemblySpec => []AssemblyIInv
<1>1. ASSUME AssemblyIInv, UNCHANGED assemblyVars PROVE AssemblyIInv'
  <2>1. ChunkIInv'
    BY <1>1, ChunkStepInv DEF AssemblyIInv, assemblyVars
  <2> QED BY <2>1, <1>1 DEF assemblyVars, chunkVars, vars, queueVars, input, sizes,
        AssemblyIInv, SameDimensions, largePixelsWide, NotYetCut, MissingIsQueued,
        Line, InQueue, InPainting
<1>2. AssemblyIInv /\ [AssemblyNext]_assemblyVars => AssemblyIInv'
  BY <1>1, CutInv, PopChunkInv, PaintLineInv, OtherInv DEF AssemblyNext
<1> QED BY <1>2, AssemblyInitInv, PTL DEF AssemblySpec

\* A step of the assembly is a step of the finishing: when the queue is empty
\* no column is missing.
LEMMA StepFinishes ==
  AssemblyIInv /\ [AssemblyNext]_assemblyVars => [Next]_vars
<1> SUFFICES ASSUME AssemblyIInv, [AssemblyNext]_assemblyVars PROVE [Next]_vars
  OBVIOUS
<1>1. CASE Cut \/ PopChunk
  BY <1>1 DEF Cut, PopChunk
<1>2. CASE PaintLine
  <2>1. Head(painting) \in columns
    BY <1>2 DEF PaintLine, PaintColumn
  <2> QED BY <1>2, <2>1 DEF PaintLine, Next
<1>3. CASE QueueIsEmpty
  <2>1. /\ ~saving /\ pc = "trace" /\ chunkPc = "done"
        /\ outputQueue = {} /\ painting = <<>> /\ PaintingEnds
    BY <1>3 DEF QueueIsEmpty, PaintingEnds
  <2>2. columns = {}
    BY <2>1 DEF AssemblyIInv, MissingIsQueued, InQueue, InPainting
  <2> QED BY <2>1, <2>2 DEF Painted, Next
<1>4. CASE TracePixels \/ Finish
  BY <1>4 DEF TracePixels, Finish, Next
<1>5. CASE UNCHANGED assemblyVars
  BY <1>5 DEF assemblyVars
<1> QED BY <1>1, <1>2, <1>3, <1>4, <1>5 DEF AssemblyNext

\* The assembly implements the finishing of a picture whose columns come back
\* in any order: chunks lose and repeat nothing.
THEOREM AssemblyFinishes == AssemblySpec => Spec
<1>1. AssemblyInit => Init
  BY DEF AssemblyInit
<1> QED BY <1>1, AssemblyIInvHolds, StepFinishes, PTL DEF AssemblySpec, Spec

\* Painting the chunks paints each pixel of the buffer once, and nothing
\* outside it.
THEOREM AssemblyPaintingIsExact == AssemblySpec => []EachPixelOnce
BY AssemblyCuts, PaintingIsExact, PTL

\* In whatever order the chunks come back, a healed pixel shows the average of
\* what was traced around it.
THEOREM AssemblyHealingIsRight == AssemblySpec => []HealedFromTraced
BY AssemblyFinishes, HealingIsRight, PTL

\* The server makes the picture that SaveImage makes.
THEOREM AssemblyMakesThePicture == AssemblySpec => []OnePicture
BY AssemblyFinishes, PictureIsMade, PTL

\* No pixel outside the buffer is asked for.
THEOREM AssemblyPixelIsInside == AssemblySpec => []PixelNeverThrows
BY AssemblyFinishes, PixelIsInside, PTL
=============================================================================
