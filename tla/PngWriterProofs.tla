--------------------------- MODULE PngWriterProofs ---------------------------
(***************************************************************************)
(* Proofs about the stages of the PNG writer: the repetitions (Lz77), the  *)
(* chunks of the file (PngFile), the way its pixels are stored (PngColor)  *)
(* and its scanlines filtered (PngFilter), for all inputs; and that these, *)
(* the codes (HuffmanProofs) and the blocks (DeflateProofs) hold in the    *)
(* writer as a whole (PngWriter).                                          *)
(***************************************************************************)
EXTENDS PngWriter, DeflateProofs, HuffmanProofs, TLAPS

-----------------------------------------------------------------------------
\* Arithmetic and sequences.

\* Turning back by d does not change the place in a circle of d.
LEMMA RemainderTurns ==
  ASSUME NEW c \in Nat, NEW d \in Nat \ {0}, c >= d
  PROVE  c % d = (c - d) % d
<1> DEFINE q == c \div d
           r == c % d
           p == (c - d) \div d
           s == (c - d) % d
           e == q - p - 1
<1>1. q \in Int /\ r \in 0..d - 1 /\ c = d * q + r
  OBVIOUS
<1>2. p \in Int /\ s \in 0..d - 1 /\ c - d = d * p + s
  OBVIOUS
<1> HIDE DEF q, r, p, s
<1>3. e \in Int /\ d * e = s - r
  <2>1. d * q - d * p - d = s - r
    BY <1>1, <1>2
  <2>2. d * (q - p - 1) = d * q - d * p - d
    BY <1>1, <1>2
  <2> QED BY <2>1, <2>2, <1>1, <1>2
<1> HIDE DEF e
<1>4. e = 0
  <2>1. CASE e >= 1
    <3>1. d * e >= d
      BY <2>1, <1>3
    <3> QED BY <3>1, <1>3, <1>1, <1>2
  <2>2. CASE e <= -1
    <3>1. d * e <= -d
      BY <2>2, <1>3
    <3> QED BY <3>1, <1>3, <1>1, <1>2
  <2> QED BY <2>1, <2>2, <1>3
<1>5. s = r
  BY <1>3, <1>4, <1>1, <1>2
<1> QED BY <1>5 DEF s, r

\* What division leaves of a count, now and one later: it turns at the divisor.
LEMMA Remainders ==
  ASSUME NEW c \in Nat, NEW d \in Nat \ {0}
  PROVE  /\ c % d \in 0..d - 1
         /\ c < d => c % d = c
         /\ c >= d => c % d = (c - d) % d
<1>1. c % d \in 0..d - 1
  OBVIOUS
<1>2. c < d => c % d = c
  OBVIOUS
<1> QED BY <1>1, <1>2, RemainderTurns

\* A prefix and the element after it are the next prefix.
LEMMA Prefixes ==
  ASSUME NEW S, NEW s \in Seq(S), NEW n \in 0..Len(s) - 1
  PROVE  /\ Append(SubSeq(s, 1, n), s[n + 1]) = SubSeq(s, 1, n + 1)
         /\ s[n + 1] \in S
OBVIOUS

\* The first elements of a sequence are a sequence of as many.
LEMMA PrefixElements ==
  ASSUME NEW S, NEW s \in Seq(S), NEW n \in 0..Len(s)
  PROVE  /\ SubSeq(s, 1, n) \in Seq(S)
         /\ Len(SubSeq(s, 1, n)) = n
         /\ \A i \in 1..n : SubSeq(s, 1, n)[i] = s[i]
OBVIOUS

\* Three elements at once or one by one.
LEMMA ThreeMore ==
  ASSUME NEW S, NEW s \in Seq(S), NEW x \in S, NEW y \in S, NEW z \in S
  PROVE  s \o <<x, y, z>> = Append(Append(Append(s, x), y), z)
<1> DEFINE long == s \o <<x, y, z>>
           grown == Append(Append(Append(s, x), y), z)
<1>1. <<x, y, z>> \in Seq(S) /\ Len(<<x, y, z>>) = 3
  OBVIOUS
<1>2. /\ long \in Seq(S) /\ Len(long) = Len(s) + 3
      /\ \A i \in 1..Len(s) + 3 :
           long[i] = IF i <= Len(s) THEN s[i] ELSE <<x, y, z>>[i - Len(s)]
  BY <1>1
<1>3. /\ grown \in Seq(S) /\ Len(grown) = Len(s) + 3
      /\ \A i \in 1..Len(s) : grown[i] = s[i]
      /\ grown[Len(s) + 1] = x /\ grown[Len(s) + 2] = y /\ grown[Len(s) + 3] = z
  OBVIOUS
<1>4. Len(s) \in Nat
  OBVIOUS
<1> HIDE DEF long, grown
<1>5. \A i \in 1..Len(s) + 3 : long[i] = grown[i]
  <2>1. <<x, y, z>>[1] = x /\ <<x, y, z>>[2] = y /\ <<x, y, z>>[3] = z
    OBVIOUS
  <2> QED BY <1>2, <1>3, <1>4, <2>1
<1>6. long = grown
  BY <1>2, <1>3, <1>5
<1> QED BY <1>6 DEF long, grown

-----------------------------------------------------------------------------
\* The window and the hash.

\* A place of the window, and which one it is the first time round.
LEMMA WindowPlaces ==
  ASSUME NEW p \in Nat
  PROVE  Window(p) \in 0..WindowSize - 1 /\ (p < WindowSize => Window(p) = p)
BY LzAssumption, Remainders DEF Window

\* The hash of what follows a place of the block.
LEMMA HashesAreValues ==
  ASSUME LzTypeOK, NEW p \in 0..Len(data)
  PROVE  HashAt(p) \in HashValues
<1>1. data \in Seq(Byte) /\ Len(data) \in Nat /\ blockEnd \in 0..Len(data)
  BY DEF LzTypeOK
<1>2. ASSUME NEW h \in HashValues, NEW i \in 0..2 PROVE Mixed(h, p, i) \in HashValues
  <2>1. p + i < blockEnd => In(p + i) \in Byte
    BY <1>1 DEF In
  <2> QED BY <2>1, LzAssumption DEF Mixed
<1>3. Mixed(0, p, 0) \in HashValues
  BY <1>2, LzAssumption
<1>4. Mixed(Mixed(0, p, 0), p, 1) \in HashValues
  BY <1>2, <1>3
<1> QED BY <1>2, <1>4 DEF HashAt

\* The chains stay chains when a place enters them, and go on leading back when
\* it is the next place or the newest one once more.
LEMMA ChainsAreKept ==
  ASSUME LzTypeOK, NEW p \in 0..Len(data), UpdateHashChain(p), NEW n \in Nat, p <= n
  PROVE  /\ head' \in [HashValues -> -1..WindowSize - 1]
         /\ chain' \in [0..WindowSize - 1 -> 0..WindowSize - 1]
         /\ NotAhead(n) /\ n <= p + 1 /\ p < WindowSize =>
              /\ \A i \in 0..WindowSize - 1 : chain'[i] <= i
              /\ \A h \in HashValues : head'[h] <= p
<1> DEFINE v == HashAt(p)
           w == Window(p)
<1>1. v \in HashValues
  BY HashesAreValues
<1>2. p \in Nat /\ w \in 0..WindowSize - 1 /\ (p < WindowSize => w = p)
  <2>1. p \in Nat
    BY LzAssumption DEF LzTypeOK
  <2> QED BY <2>1, WindowPlaces
<1>3. WindowSize \in Nat \ {0}
  BY LzAssumption
<1> HIDE DEF v, w
<1>4. /\ head \in [HashValues -> -1..WindowSize - 1]
      /\ chain \in [0..WindowSize - 1 -> 0..WindowSize - 1]
  BY DEF LzTypeOK
<1>5. /\ head' = [head EXCEPT ![v] = w]
      /\ chain' = [chain EXCEPT ![w] = IF head[v] = -1 THEN @ ELSE head[v]]
  BY DEF UpdateHashChain, v, w
<1>6. head' \in [HashValues -> -1..WindowSize - 1]
  BY <1>1, <1>2, <1>3, <1>4, <1>5
<1>7. chain' \in [0..WindowSize - 1 -> 0..WindowSize - 1]
  <2>1. (IF head[v] = -1 THEN chain[w] ELSE head[v]) \in 0..WindowSize - 1
    <3>1. chain[w] \in 0..WindowSize - 1 /\ head[v] \in -1..WindowSize - 1
      BY <1>1, <1>2, <1>4
    <3> QED BY <1>3, <3>1
  <2>2. chain' = [chain EXCEPT ![w] = IF head[v] = -1 THEN chain[w] ELSE head[v]]
    BY <1>2, <1>4, <1>5
  <2> QED BY <1>2, <1>4, <2>1, <2>2
<1>8. ASSUME NotAhead(n), n <= p + 1, p < WindowSize
      PROVE  /\ \A i \in 0..WindowSize - 1 : chain'[i] <= i
             /\ \A g \in HashValues : head'[g] <= p
  <2>1. /\ \A i \in 0..WindowSize - 1 : chain[i] <= i
        /\ \A g \in HashValues : head[g] < n
    BY <1>2, <1>3, <1>8 DEF NotAhead
  <2>2. w = p
    BY <1>2, <1>3, <1>8
  <2>3. ASSUME NEW i \in 0..WindowSize - 1
        PROVE  chain'[i] <= i
    BY <2>1, <2>2, <1>1, <1>2, <1>3, <1>4, <1>5, <1>8
  <2>4. ASSUME NEW g \in HashValues
        PROVE  head'[g] <= p
    BY <2>1, <2>2, <1>1, <1>2, <1>3, <1>4, <1>5, <1>8
  <2> QED BY <2>3, <2>4
<1> QED BY <1>6, <1>7, <1>8

\* How far back the place at hand is.
LEMMA OffsetsAreBack ==
  ASSUME LzTypeOK, ChainsLeadBack, lzPc \in {"search", "compare"}
  PROVE  CurrentOffset \in 0..WindowSize - 1 /\ CurrentOffset <= pos
<1>1. Window(pos) \in 0..WindowSize - 1 /\ (pos < WindowSize => Window(pos) = pos)
  BY WindowPlaces DEF LzTypeOK
<1>2. pos \in Nat /\ hashpos \in 0..WindowSize - 1 /\ (pos < WindowSize => hashpos <= pos)
  BY DEF LzTypeOK, ChainsLeadBack
<1> QED BY <1>1, <1>2, LzAssumption DEF CurrentOffset

-----------------------------------------------------------------------------
\* The conjuncts of the invariant.

\* Every step keeps the types: places stay in the window and in the block.
LEMMA TypeKept ==
  ASSUME LzIInv, LzNext
  PROVE  LzTypeOK'
<1> USE DEF LookUp, Encode
<1>0. LzTypeOK /\ ChainsLeadBack /\ MatchesRepeat
  BY DEF LzIInv
<1>1. /\ WindowSize \in Nat \ {0} /\ BlockSize \in Nat \ {0} /\ MaxMatch \in Nat
      /\ data \in Seq(Byte) /\ Len(data) \in Nat
  BY <1>0, LzAssumption DEF LzTypeOK
<1>2. \A p \in 0..Len(data) - 1 : In(p) \in Byte
  BY <1>1 DEF In
<1>3. Window(pos) \in 0..WindowSize - 1
  BY <1>0, WindowPlaces DEF LzTypeOK
<1>4. CASE StartSearch
  <2>1. pos \in 0..Len(data) /\ pos \in Nat
    BY <1>0, <1>1 DEF LzTypeOK
  <2>2. head' \in [HashValues -> -1..WindowSize - 1] /\ chain' \in [0..WindowSize - 1 -> 0..WindowSize - 1]
    BY <1>0, <1>4, <2>1, ChainsAreKept DEF StartSearch
  <2>3. hashpos' \in 0..WindowSize - 1
    BY <1>3, <1>4, <2>2 DEF StartSearch
  <2> QED BY <1>0, <1>4, <2>2, <2>3 DEF LzTypeOK, StartSearch, searchVars, lazyVars
<1>5. CASE EndSearch \/ VisitPlace \/ CompareByte
  <2>1. CASE EndSearch
    BY <1>0, <2>1 DEF LzTypeOK, EndSearch, searchVars, lazyVars
  <2>2. CASE VisitPlace
    BY <1>0, <2>2 DEF LzTypeOK, VisitPlace, lazyVars
  <2>3. CASE CompareByte
    BY <1>0, <2>3 DEF LzTypeOK, CompareByte, lazyVars
  <2> QED BY <1>5, <2>1, <2>2, <2>3
<1>6. CASE FollowChain
  <2>1. CurrentOffset \in Nat
    BY <1>0, <1>1, <1>6, OffsetsAreBack DEF FollowChain
  <2>2. hashpos' \in 0..WindowSize - 1 /\ lzPc' \in LookUp
    BY <1>0, <1>1, <1>6 DEF FollowChain, LzTypeOK
  <2> QED BY <1>0, <1>6, <2>1, <2>2 DEF LzTypeOK, FollowChain, lazyVars
<1>7. CASE PutOff
  BY <1>0, <1>1, <1>7 DEF LzTypeOK, PutOff, searchVars
<1>8. CASE EncodeNow
  BY <1>0, <1>8 DEF LzTypeOK, EncodeNow, searchVars, lazyVars
<1>9. CASE EncodeNext
  <2>1. pos - 1 \in 0..Len(data) - 1
    BY <1>0, <1>1, <1>9 DEF LzTypeOK, MatchesRepeat, EncodeNext
  <2>2. inflated' \in Seq(Byte)
    BY <1>0, <1>2, <1>9, <2>1 DEF LzTypeOK, EncodeNext
  <2> QED BY <1>0, <1>9, <2>2 DEF LzTypeOK, EncodeNext, searchVars
<1>10. CASE EncodePutOff
  <2>1. pos - 1 \in Nat
    BY <1>0, <1>10 DEF LzTypeOK, MatchesRepeat, EncodePutOff
  <2>2. head' \in [HashValues -> -1..WindowSize - 1]
    <3>1. head \in [HashValues -> -1..WindowSize - 1] /\ head' = [head EXCEPT ![HashAt(pos)] = -1]
      BY <1>0, <1>10 DEF LzTypeOK, EncodePutOff
    <3>2. -1 \in -1..WindowSize - 1
      BY <1>1
    <3> QED BY <3>1, <3>2
  <2>3. pos' \in Nat /\ pos' < blockEnd /\ blockEnd' = blockEnd /\ data' = data
    BY <1>0, <1>1, <1>10, <2>1 DEF LzTypeOK, EncodePutOff
  <2>4. lzPc' = "emit" /\ lazy' = FALSE /\ length' = lazylength /\ offset' = lazyoffset
    BY <1>10 DEF EncodePutOff
  <2>5. UNCHANGED <<chain, hashpos, matched, lazylength, lazyoffset, left, inflated>>
    BY <1>10 DEF EncodePutOff, searchVars
  <2>6. data' \in Seq(Byte) /\ lzPc' \in {"scan", "done"} \cup LookUp \cup Encode
    BY <1>0, <2>3, <2>4 DEF LzTypeOK
  <2>7. blockEnd' \in 0..Len(data') /\ pos' <= blockEnd'
    BY <1>0, <1>1, <2>3 DEF LzTypeOK
  <2>8. lazy' \in BOOLEAN /\ length' \in Nat /\ offset' \in Nat
    BY <1>0, <2>4 DEF LzTypeOK
  <2>9. /\ chain' \in [0..WindowSize - 1 -> 0..WindowSize - 1] /\ hashpos' \in 0..WindowSize - 1
        /\ matched' \in Nat /\ lazylength' \in Nat /\ lazyoffset' \in Nat /\ left' \in Nat
        /\ inflated' \in Seq(Byte)
    BY <1>0, <2>5 DEF LzTypeOK
  <2> QED BY <2>2, <2>3, <2>6, <2>7, <2>8, <2>9 DEF LzTypeOK
<1>11. CASE EmitLiteral
  <2>1. inflated' \in Seq(Byte)
    BY <1>0, <1>1, <1>2, <1>11 DEF LzTypeOK, EmitLiteral
  <2> QED BY <1>0, <1>11, <2>1 DEF LzTypeOK, EmitLiteral, searchVars, lazyVars
<1>12. CASE SpellOut
  <2>1. length = 3 /\ pos + 3 <= blockEnd
    BY <1>0, <1>12 DEF MatchesRepeat, Repeats, SpellOut, TooFar
  <2>2. In(pos) \in Byte /\ In(pos + 1) \in Byte /\ In(pos + 2) \in Byte
    BY <1>0, <1>1, <1>2, <2>1 DEF LzTypeOK
  <2>3. inflated' \in Seq(Byte)
    BY <1>0, <1>12, <2>2 DEF LzTypeOK, SpellOut
  <2> QED BY <1>0, <1>12, <2>1, <2>3 DEF LzTypeOK, SpellOut, searchVars, lazyVars
<1>13. CASE CopyByte
  <2>1. Repeats(pos, length, offset) /\ length > 0 /\ Copied \in Nat
    BY <1>0, <1>13 DEF MatchesRepeat, CopyByte, LzIInv, CopiesInTurn, LzTypeOK
  <2>2. offset \in Nat \ {0} /\ offset <= pos /\ Copied % offset \in 0..offset - 1
    BY <1>1, <2>1, Remainders DEF Repeats
  <2>3. Backward + 1 \in 1..Len(inflated)
    BY <1>0, <2>1, <2>2 DEF Backward, Copied, LzTypeOK
  <2>4. inflated' \in Seq(Byte)
    BY <1>0, <1>13, <2>3 DEF LzTypeOK, CopyByte
  <2> QED BY <1>0, <1>13, <2>4 DEF LzTypeOK, CopyByte, searchVars, lazyVars
<1>14. CASE CopyDone
  BY <1>0, <1>14 DEF LzTypeOK, CopyDone, searchVars, lazyVars
<1>15. CASE InsertByte
  <2>1. pos + 1 < blockEnd /\ pos + 1 \in 0..Len(data)
    BY <1>0, <1>1, <1>15 DEF LzTypeOK, MatchesRepeat, InsertByte
  <2>2. head' \in [HashValues -> -1..WindowSize - 1] /\ chain' \in [0..WindowSize - 1 -> 0..WindowSize - 1]
    BY <1>0, <1>1, <1>15, <2>1, ChainsAreKept DEF InsertByte
  <2> QED BY <1>0, <1>15, <2>1, <2>2 DEF LzTypeOK, InsertByte, searchVars, lazyVars
<1>16. CASE NextByte
  BY <1>0, <1>1, <1>16 DEF LzTypeOK, NextByte, searchVars, lazyVars
<1>17. CASE NextBlock
  <2>1. pos = blockEnd /\ blockEnd' \in 0..Len(data) /\ blockEnd <= blockEnd'
    BY <1>0, <1>1, <1>17 DEF LzTypeOK, NextBlock, Lower
  <2> QED BY <1>0, <1>17, <2>1 DEF LzTypeOK, NextBlock, searchVars
<1>18. CASE EndDeflate
  BY <1>0, <1>18 DEF LzTypeOK, EndDeflate, searchVars, lazyVars
<1> QED
  BY <1>4, <1>5, <1>6, <1>7, <1>8, <1>9, <1>10, <1>11, <1>12, <1>13, <1>14, <1>15, <1>16, <1>17, <1>18 DEF LzNext

\* More places may be entered than were.
LEMMA NotAheadIsWeaker ==
  ASSUME LzTypeOK, NEW n \in Nat, NotAhead(n)
  PROVE  NotAhead(n + 1)
<1>1. \A h \in HashValues : head[h] \in Int
  BY LzAssumption DEF LzTypeOK
<1> QED BY <1>1, LzAssumption DEF NotAhead

\* Every step enters its places behind those already there.
LEMMA ChainsKept ==
  ASSUME LzIInv, LzNext
  PROVE  ChainsLeadBack'
<1> USE DEF LookUp, Encode
<1>0. LzTypeOK /\ ChainsLeadBack /\ MatchesRepeat
  BY DEF LzIInv
<1>1. /\ WindowSize \in Nat \ {0} /\ pos \in Nat /\ length \in Nat /\ left \in Nat
      /\ Len(data) \in Nat /\ blockEnd \in 0..Len(data)
  BY <1>0, LzAssumption DEF LzTypeOK
<1>2. CASE StartSearch
  <2>1. pos \in 0..Len(data) /\ NotAhead(pos) /\ UpdateHashChain(pos)
    BY <1>0, <1>1, <1>2 DEF StartSearch, ChainsLeadBack
  <2>2. pos < WindowSize =>
          /\ \A i \in 0..WindowSize - 1 : chain'[i] <= i
          /\ \A h \in HashValues : head'[h] <= pos
    BY <1>0, <1>1, <2>1, ChainsAreKept
  <2>3. pos < WindowSize => chain'[Window(pos)] <= pos
    BY <1>1, <2>2, WindowPlaces
  <2>4. /\ lzPc' = "search" /\ pos' = pos /\ hashpos' = chain'[Window(pos)]
    BY <1>2 DEF StartSearch
  <2>5. head' \in [HashValues -> -1..WindowSize - 1]
    BY TypeKept DEF LzTypeOK
  <2>6. NotAhead(pos + 1)'
    BY <1>1, <2>2, <2>4, <2>5 DEF NotAhead
  <2> QED BY <2>3, <2>4, <2>6 DEF ChainsLeadBack
<1>3. CASE EndSearch \/ VisitPlace \/ CompareByte
  <2>1. lzPc \in LookUp /\ lzPc' \in LookUp /\ UNCHANGED <<pos, head, chain, hashpos>>
    BY <1>3 DEF EndSearch, VisitPlace, CompareByte, searchVars
  <2>2. lzPc' # "decide" => lzPc # "decide"
    BY <1>3 DEF EndSearch, VisitPlace, CompareByte
  <2> QED BY <1>0, <2>1, <2>2 DEF ChainsLeadBack, NotAhead
<1>4. CASE FollowChain
  <2>1. lzPc = "compare" /\ lzPc' \in {"search", "decide"} /\ UNCHANGED <<pos, head, chain>>
    BY <1>4 DEF FollowChain
  <2>2. lzPc' = "search" => hashpos' = chain[hashpos]
    BY <1>4 DEF FollowChain
  <2>3. NotAhead(pos + 1) /\ (pos < WindowSize => hashpos <= pos) /\ hashpos \in 0..WindowSize - 1
    BY <1>0, <2>1 DEF ChainsLeadBack, LzTypeOK
  <2>4. pos < WindowSize => chain[hashpos] <= hashpos /\ chain[hashpos] \in Int
    BY <1>0, <1>1, <2>3 DEF NotAhead, LzTypeOK
  <2>5. lzPc' = "search" /\ pos < WindowSize => hashpos' <= pos
    BY <1>1, <2>2, <2>3, <2>4
  <2> QED BY <2>1, <2>3, <2>5 DEF ChainsLeadBack, NotAhead
<1>5. CASE PutOff
  BY <1>0, <1>1, <1>5 DEF PutOff, ChainsLeadBack, NotAhead
<1>6. CASE EncodeNow \/ EncodeNext
  <2>1. lzPc = "decide" /\ lzPc' = "emit" /\ UNCHANGED <<pos, head, chain, length>>
    BY <1>6 DEF EncodeNow, EncodeNext
  <2>2. NotAhead(pos + 1) /\ NotAhead(pos + 2)
    <3>1. NotAhead(pos + 1) /\ NotAhead((pos + 1) + 1)
      BY <1>0, <1>1, <2>1, NotAheadIsWeaker DEF ChainsLeadBack
    <3> QED BY <1>1, <3>1
  <2> QED BY <2>1, <2>2 DEF ChainsLeadBack, NotAhead
<1>7. CASE EncodePutOff
  <2>1. lzPc = "decide" /\ lzPc' = "emit" /\ pos' = pos - 1 /\ length' = lazylength /\ chain' = chain
    BY <1>7 DEF EncodePutOff
  <2>2. lazylength \in Nat /\ lazylength >= 3
    BY <1>0, <1>7 DEF MatchesRepeat, EncodePutOff, LzTypeOK
  <2>3. \A h \in HashValues : head'[h] = head[h] \/ head'[h] = -1
    BY <1>0, <1>7 DEF EncodePutOff, LzTypeOK
  <2>4. NotAhead(pos + 1)
    BY <1>0, <2>1 DEF ChainsLeadBack
  <2>5. pos + 1 <= WindowSize => /\ \A i \in 0..WindowSize - 1 : chain'[i] <= i
                                /\ \A h \in HashValues : head'[h] < pos + 1
    BY <1>1, <2>1, <2>3, <2>4 DEF NotAhead
  <2>6. pos' + 2 = pos + 1
    BY <1>1, <2>1
  <2>7. NotAhead(pos + 2)'
    BY <2>5, <2>6 DEF NotAhead
  <2> QED BY <2>1, <2>2, <2>7 DEF ChainsLeadBack
<1>8. CASE EmitLiteral \/ SpellOut \/ CopyDone
  <2>1. /\ lzPc = "emit" /\ lzPc' = "insert" /\ UNCHANGED <<pos, head, chain>>
        /\ left' = 0 <=> length < 3
    BY <1>1, <1>8 DEF EmitLiteral, SpellOut, CopyDone, TooFar
  <2> QED BY <1>0, <2>1 DEF ChainsLeadBack, NotAhead
<1>9. CASE CopyByte
  BY <1>0, <1>9 DEF CopyByte, ChainsLeadBack, NotAhead
<1>10. CASE InsertByte
  <2>1. pos + 1 \in 0..Len(data) /\ NotAhead(pos + 2) /\ UpdateHashChain(pos + 1)
    BY <1>0, <1>1, <1>10 DEF InsertByte, ChainsLeadBack, MatchesRepeat
  <2>2. pos + 1 < WindowSize =>
          /\ \A i \in 0..WindowSize - 1 : chain'[i] <= i
          /\ \A h \in HashValues : head'[h] <= pos + 1
    <3>1. pos + 2 \in Nat /\ pos + 1 <= pos + 2 /\ pos + 2 <= (pos + 1) + 1
      BY <1>1
    <3> QED BY <1>0, <2>1, <3>1, ChainsAreKept
  <2>3. lzPc' = "insert" /\ pos' = pos + 1
    BY <1>10 DEF InsertByte
  <2>4. head' \in [HashValues -> -1..WindowSize - 1]
    BY TypeKept DEF LzTypeOK
  <2>5. NotAhead(pos + 1)' /\ NotAhead(pos + 2)'
    BY <1>1, <2>2, <2>3, <2>4 DEF NotAhead
  <2> QED BY <2>3, <2>5 DEF ChainsLeadBack
<1>11. CASE NextByte
  BY <1>0, <1>1, <1>11 DEF NextByte, ChainsLeadBack, NotAhead
<1>12. CASE NextBlock
  <2>1. pos = blockEnd
    BY <1>0, <1>1, <1>12 DEF NextBlock, LzTypeOK
  <2> QED BY <1>0, <1>12, <2>1 DEF NextBlock, ChainsLeadBack, NotAhead
<1>13. CASE EndDeflate
  BY <1>13 DEF EndDeflate, ChainsLeadBack
<1> QED
  BY <1>2, <1>3, <1>4, <1>5, <1>6, <1>7, <1>8, <1>9, <1>10, <1>11, <1>12, <1>13 DEF LzNext

\* The three parts of MatchesRepeat, one by one.
LEMMA BestMatchKept ==
  ASSUME LzIInv, LzNext, lzPc' \in LookUp \cup {"emit"}, length' > 0
  PROVE  Repeats(pos, length, offset)'
<1> USE DEF LookUp, Encode
<1>0. LzTypeOK /\ ChainsLeadBack /\ MatchesRepeat
  BY DEF LzIInv
<1>1. UNCHANGED <<data, blockEnd>>
  BY DEF LzNext, StartSearch, EndSearch, VisitPlace, CompareByte, FollowChain, PutOff,
     EncodeNow, EncodeNext, EncodePutOff, EmitLiteral, SpellOut, CopyByte, CopyDone,
     InsertByte, NextByte, NextBlock, EndDeflate
<1>2. CASE StartSearch
  BY <1>2 DEF StartSearch
<1>3. CASE FollowChain
  <2>1. lzPc = "compare" /\ pos' = pos /\ matched \in Nat /\ length \in Nat
    BY <1>0, <1>3 DEF FollowChain, LzTypeOK
  <2>2. CASE matched > length
    <3>1. length' = matched /\ offset' = CurrentOffset
      BY <1>3, <2>2 DEF FollowChain
    <3>2. Repeats(pos, matched, CurrentOffset)
      BY <1>0, <2>1, <2>2 DEF MatchesRepeat
    <3> QED BY <1>1, <2>1, <3>1, <3>2 DEF Repeats, In
  <2>3. CASE ~(matched > length)
    <3>1. length' = length /\ offset' = offset
      BY <1>3, <2>3 DEF FollowChain
    <3>2. Repeats(pos, length, offset)
      BY <1>0, <2>1, <3>1 DEF MatchesRepeat
    <3> QED BY <1>1, <2>1, <3>1, <3>2 DEF Repeats, In
  <2> QED BY <2>2, <2>3
<1>4. CASE EncodePutOff
  <2>1. Repeats(pos - 1, lazylength, lazyoffset)
    BY <1>0, <1>4 DEF MatchesRepeat, EncodePutOff
  <2>2. pos' = pos - 1 /\ length' = lazylength /\ offset' = lazyoffset
    BY <1>4 DEF EncodePutOff
  <2> QED BY <1>1, <2>1, <2>2 DEF Repeats, In
<1>5. CASE EndSearch \/ VisitPlace \/ CompareByte \/ EncodeNow \/ EncodeNext \/ CopyByte
  <2>1. lzPc \in LookUp \cup {"emit"} /\ UNCHANGED <<pos, length, offset>>
    BY <1>5 DEF EndSearch, VisitPlace, CompareByte, EncodeNow, EncodeNext, CopyByte
  <2>2. Repeats(pos, length, offset)
    BY <1>0, <2>1 DEF MatchesRepeat
  <2> QED BY <1>1, <2>1, <2>2 DEF Repeats, In
<1> QED
  BY <1>2, <1>3, <1>4, <1>5 DEF LzNext, PutOff, EmitLiteral, SpellOut, CopyDone,
     InsertByte, NextByte, NextBlock, EndDeflate

\* The bytes found equal so far are equal, also after one more comparison.
LEMMA ComparedKept ==
  ASSUME LzIInv, LzNext, lzPc' = "compare", matched' > 0
  PROVE  Repeats(pos, matched, CurrentOffset)'
<1>0. LzTypeOK /\ ChainsLeadBack /\ MatchesRepeat
  BY DEF LzIInv
<1>1. CompareByte
  BY DEF LzNext, StartSearch, EndSearch, VisitPlace, FollowChain, PutOff, EncodeNow,
     EncodeNext, EncodePutOff, EmitLiteral, SpellOut, CopyByte, CopyDone, InsertByte,
     NextByte, NextBlock, EndDeflate
<1>2. /\ UNCHANGED <<data, blockEnd, pos, hashpos>> /\ lzPc = "compare"
      /\ matched' = matched + 1 /\ matched \in Nat /\ Agrees
  BY <1>0, <1>1 DEF CompareByte, LzTypeOK
<1>3. CurrentOffset' = CurrentOffset
  BY <1>2 DEF CurrentOffset, Window
<1>4. CurrentOffset \in 1..WindowSize - 1 /\ CurrentOffset <= pos
  BY <1>0, <1>2, OffsetsAreBack, LzAssumption DEF Agrees
<1>5. pos + matched < blockEnd /\ In(pos + matched) = In(pos - CurrentOffset + matched)
  <2>1. pos + matched < Lower(blockEnd, pos + MaxMatch)
        /\ In(pos + matched) = In(pos - CurrentOffset + matched)
    BY <1>2 DEF Agrees
  <2>2. blockEnd \in Nat /\ pos \in Nat /\ MaxMatch \in Nat
    BY <1>0, LzAssumption DEF LzTypeOK
  <2> QED BY <1>2, <2>1, <2>2 DEF Lower
<1>6. \A k \in 0..matched - 1 : In(pos + k) = In(pos - CurrentOffset + k)
  BY <1>0, <1>2 DEF MatchesRepeat, Repeats
<1>7. \A k \in 0..matched : In(pos + k) = In(pos - CurrentOffset + k)
  BY <1>2, <1>5, <1>6
<1>8. pos + (matched + 1) <= blockEnd /\ (matched + 1) - 1 = matched
  BY <1>0, <1>2, <1>5, LzAssumption DEF LzTypeOK
<1> QED BY <1>2, <1>3, <1>4, <1>7, <1>8 DEF Repeats, In

\* A match that was put off is one of the byte before.
LEMMA PutOffKept ==
  ASSUME LzIInv, LzNext, lazy'
  PROVE  /\ lzPc' \in {"scan"} \cup LookUp
         /\ pos' > 0 /\ lazylength' >= 3
         /\ Repeats(pos - 1, lazylength, lazyoffset)'
<1> USE DEF LookUp, Encode
<1>0. LzTypeOK /\ MatchesRepeat
  BY DEF LzIInv
<1>1. pos \in Nat /\ blockEnd \in Nat /\ length \in Nat
  BY <1>0, LzAssumption DEF LzTypeOK
<1>2. CASE PutOff
  <2>1. /\ UNCHANGED <<data, blockEnd>> /\ lzPc' = "scan" /\ lzPc = "decide" /\ length >= 3
        /\ pos' = pos + 1 /\ lazylength' = length /\ lazyoffset' = offset
    BY <1>2 DEF PutOff
  <2>2. Repeats(pos, length, offset)
    BY <1>0, <1>1, <2>1 DEF MatchesRepeat
  <2>3. pos' - 1 = pos
    BY <1>1, <2>1
  <2> QED BY <1>1, <2>1, <2>2, <2>3 DEF Repeats, In
<1>3. CASE StartSearch \/ EndSearch \/ VisitPlace \/ CompareByte \/ FollowChain
  <2>1. UNCHANGED <<data, blockEnd, pos, lazy, lazylength, lazyoffset>> /\ lzPc' \in LookUp
    BY <1>3 DEF StartSearch, EndSearch, VisitPlace, CompareByte, FollowChain, lazyVars
  <2>2. pos > 0 /\ lazylength >= 3 /\ Repeats(pos - 1, lazylength, lazyoffset)
    BY <1>0, <2>1 DEF MatchesRepeat
  <2> QED BY <2>1, <2>2 DEF Repeats, In
<1>4. CASE EndDeflate
  <2>1. lazy /\ pos >= blockEnd
    BY <1>4 DEF EndDeflate, lazyVars
  <2>2. pos - 1 + lazylength <= blockEnd /\ lazylength >= 3 /\ lazylength \in Nat
    BY <1>0, <2>1 DEF MatchesRepeat, Repeats, LzTypeOK
  <2> QED BY <1>1, <2>1, <2>2
<1>5. CASE EncodeNow \/ EncodeNext \/ EncodePutOff \/ NextBlock
  BY <1>5 DEF EncodeNow, EncodeNext, EncodePutOff, NextBlock, lazyVars
<1>6. CASE EmitLiteral \/ SpellOut \/ CopyByte \/ CopyDone \/ InsertByte \/ NextByte
  <2>1. lazy /\ lzPc \in Encode
    BY <1>6 DEF EmitLiteral, SpellOut, CopyByte, CopyDone, InsertByte, NextByte, lazyVars
  <2> QED BY <1>0, <2>1 DEF MatchesRepeat
<1> QED BY <1>2, <1>3, <1>4, <1>5, <1>6 DEF LzNext

\* Matches, candidates and matches put off repeat what is there.
LEMMA MatchesKept ==
  ASSUME LzIInv, LzNext
  PROVE  MatchesRepeat'
<1>0. LzTypeOK /\ MatchesRepeat
  BY DEF LzIInv
<1>1. ASSUME lzPc' = "insert"
      PROVE  pos' + left' < blockEnd'
  <2>1. pos \in Nat /\ blockEnd \in Nat /\ length \in Nat /\ left \in Nat
    BY <1>0, LzAssumption DEF LzTypeOK
  <2>2. CASE EmitLiteral
    BY <1>0, <2>1, <2>2 DEF EmitLiteral, LzTypeOK, Encode
  <2>3. CASE SpellOut \/ CopyDone
    <3>1. lzPc = "emit" /\ length >= 3 /\ left' = length - 1 /\ UNCHANGED <<pos, blockEnd>>
      BY <2>1, <2>3 DEF SpellOut, CopyDone, TooFar
    <3>2. pos + length <= blockEnd
      BY <1>0, <2>1, <3>1 DEF MatchesRepeat, Repeats
    <3> QED BY <2>1, <3>1, <3>2
  <2>4. CASE InsertByte
    BY <1>0, <2>1, <2>4 DEF InsertByte, MatchesRepeat
  <2> QED
    BY <1>1, <2>2, <2>3, <2>4 DEF LzNext, StartSearch, EndSearch, VisitPlace, CompareByte,
       FollowChain, PutOff, EncodeNow, EncodeNext, EncodePutOff, CopyByte, NextByte,
       NextBlock, EndDeflate
<1> QED BY <1>1, BestMatchKept, ComparedKept, PutOffKept DEF MatchesRepeat

-----------------------------------------------------------------------------
\* What the reader has.

\* The input is a sequence of bytes, and what has gone out a part of it.
LEMMA InflatedIsPrefix ==
  ASSUME LzIInv
  PROVE  /\ data \in Seq(Byte) /\ Len(data) \in Nat /\ pos \in Nat /\ blockEnd \in Nat
         /\ pos <= blockEnd /\ blockEnd <= Len(data)
         /\ Encoded \in 0..Len(data) => Len(inflated) = Encoded
         /\ Encoded \in 0..Len(data) => \A i \in 1..Encoded : inflated[i] = data[i]
<1>1. data \in Seq(Byte) /\ inflated = SubSeq(data, 1, Encoded) /\ LzTypeOK
  BY LzAssumption DEF LzIInv, LzTypeOK
<1>2. /\ Len(data) \in Nat /\ pos \in Nat /\ blockEnd \in Nat
      /\ pos <= blockEnd /\ blockEnd <= Len(data)
  BY <1>1 DEF LzTypeOK
<1> QED BY <1>1, <1>2, PrefixElements

\* A byte after what has been encoded: it is the next of the input.
LEMMA NextByteOfInput ==
  ASSUME LzIInv, Encoded \in 0..Len(data) - 1
  PROVE  Append(inflated, In(Encoded)) = SubSeq(data, 1, Encoded + 1)
<1>1. data \in Seq(Byte) /\ inflated = SubSeq(data, 1, Encoded)
  BY LzAssumption DEF LzIInv, LzTypeOK
<1> QED BY <1>1, Prefixes DEF In

\* The byte CopyByte takes from what has been inflated is the next of the match.
LEMMA CopiesAreRight ==
  ASSUME LzIInv, lzPc = "emit", length >= 3, ~TooFar, Copied < length
  PROVE  /\ Copied \in 0..length - 1 /\ pos + Copied < Len(data)
         /\ Encoded = pos + Copied
         /\ In(pos + Copied) = In(pos - offset + (Copied % offset))
         /\ inflated[Backward + 1] = In(pos + Copied)
<1>0. LzTypeOK /\ MatchesRepeat /\ CopiesInTurn
  BY DEF LzIInv
<1>1. length \in Nat /\ pos \in Nat /\ blockEnd \in Nat /\ blockEnd <= Len(data) /\ Len(data) \in Nat
  BY <1>0, InflatedIsPrefix DEF LzTypeOK
<1>2. Copied \in 0..length - 1
  BY <1>0, <1>1 DEF CopiesInTurn
<1>3. Repeats(pos, length, offset) /\ offset \in Nat \ {0} /\ offset <= pos /\ pos + length <= blockEnd
  <2>1. Repeats(pos, length, offset)
    BY <1>0, <1>1 DEF MatchesRepeat
  <2> QED BY <2>1, LzAssumption DEF Repeats
<1>4. pos + Copied < Len(data)
  BY <1>1, <1>2, <1>3
<1>5. Encoded = pos + Copied
  BY <1>1 DEF Encoded
<1> DEFINE c == Copied
           d == offset
<1>6. In(pos + c) = In(pos - d + c)
  BY <1>2, <1>3 DEF Repeats
<1>7. \A k \in 0..c - 1 : In(pos + k) = In(pos - d + (k % d))
  BY <1>0 DEF CopiesInTurn
<1>8. c \in Nat /\ d \in Nat \ {0}
  BY <1>1, <1>2, <1>3
<1> HIDE DEF c, d
<1>9. In(pos + c) = In(pos - d + (c % d))
  <2>1. CASE c < d
    BY <1>6, <1>8, <2>1, Remainders
  <2>2. CASE c >= d
    <3>1. c - d \in 0..c - 1 /\ pos + (c - d) = pos - d + c
      BY <1>1, <1>8, <2>2
    <3>2. In(pos + (c - d)) = In(pos - d + ((c - d) % d))
      BY <1>7, <3>1
    <3>3. (c - d) % d = c % d
      BY <1>8, <2>2, Remainders
    <3> QED BY <1>6, <3>1, <3>2, <3>3
  <2> QED BY <1>8, <2>1, <2>2
<1>10. c % d \in 0..d - 1
  BY <1>8, Remainders
<1> USE DEF c, d
<1>11. Backward = pos - offset + (Copied % offset) /\ Backward + 1 \in 1..pos
  BY <1>1, <1>3, <1>10 DEF Backward
<1>12. \A i \in 1..pos + Copied : inflated[i] = data[i]
  BY <1>1, <1>2, <1>4, <1>5, InflatedIsPrefix
<1>13. inflated[Backward + 1] = In(Backward)
  BY <1>1, <1>2, <1>11, <1>12 DEF In
<1> QED BY <1>2, <1>4, <1>5, <1>9, <1>11, <1>13

\* What the reader has stays a prefix of the input, up to what is encoded.
LEMMA PrefixKept ==
  ASSUME LzIInv, LzNext
  PROVE  (inflated = SubSeq(data, 1, Encoded))'
<1> USE DEF LookUp, Encode
<1>0. /\ LzTypeOK /\ MatchesRepeat /\ CopiesInTurn
      /\ inflated = SubSeq(data, 1, Encoded)
  BY DEF LzIInv
<1>1. /\ data \in Seq(Byte) /\ Len(data) \in Nat /\ pos \in Nat /\ blockEnd \in Nat
      /\ pos <= blockEnd /\ blockEnd <= Len(data)
  BY InflatedIsPrefix
<1>2. length \in Nat /\ left \in Nat /\ (lzPc \in LookUp \cup Encode => pos < blockEnd)
  BY <1>0 DEF LzTypeOK
<1>3. data' = data
  BY DEF LzNext, StartSearch, EndSearch, VisitPlace, CompareByte, FollowChain, PutOff,
     EncodeNow, EncodeNext, EncodePutOff, EmitLiteral, SpellOut, CopyByte, CopyDone,
     InsertByte, NextByte, NextBlock, EndDeflate
<1>4. lzPc \in Encode => lazy = FALSE
  BY <1>0 DEF MatchesRepeat, LzTypeOK
<1>5. CASE StartSearch \/ EndSearch \/ VisitPlace \/ CompareByte \/ FollowChain
  <2>1. /\ lzPc \in {"scan"} \cup LookUp /\ lzPc' \in LookUp
        /\ UNCHANGED <<pos, lazy, inflated>>
    BY <1>5 DEF StartSearch, EndSearch, VisitPlace, CompareByte, FollowChain, lazyVars
  <2>2. Encoded' = Encoded
    BY <2>1 DEF Encoded
  <2> QED BY <1>0, <1>3, <2>1, <2>2
<1>6. CASE PutOff
  <2>1. /\ lzPc = "decide" /\ lzPc' = "scan" /\ ~lazy /\ lazy' = TRUE
        /\ pos' = pos + 1 /\ inflated' = inflated
    BY <1>6 DEF PutOff
  <2>2. Encoded' = Encoded
    BY <1>1, <2>1 DEF Encoded
  <2> QED BY <1>0, <1>3, <2>1, <2>2
<1>7. ASSUME lzPc = "decide", lzPc' = "emit", Len(inflated') = pos', inflated' = SubSeq(data, 1, pos')
      PROVE  (inflated = SubSeq(data, 1, Encoded))'
  <2>1. pos' \in Nat
    BY TypeKept DEF LzTypeOK
  <2>2. Encoded' = pos'
    BY <1>7, <2>1 DEF Encoded, Copied
  <2> QED BY <1>3, <1>7, <2>2
<1>8. CASE EncodeNow
  <2>1. /\ lzPc = "decide" /\ lzPc' = "emit" /\ ~lazy /\ UNCHANGED <<pos, inflated>>
    BY <1>8 DEF EncodeNow
  <2>2. Encoded = pos
    BY <2>1 DEF Encoded
  <2>3. Len(inflated) = Encoded
    BY <1>1, <2>2, InflatedIsPrefix
  <2>4. Len(inflated') = pos' /\ inflated' = SubSeq(data, 1, pos')
    BY <1>0, <2>1, <2>2, <2>3
  <2> QED BY <1>7, <2>1, <2>4
<1>9. CASE EncodeNext
  <2>1. /\ lzPc = "decide" /\ lzPc' = "emit" /\ lazy /\ pos' = pos
        /\ inflated' = Append(inflated, In(pos - 1)) /\ pos > 0
    BY <1>0, <1>9 DEF EncodeNext, MatchesRepeat
  <2>2. Encoded = pos - 1 /\ Encoded \in 0..Len(data) - 1 /\ Encoded + 1 = pos
    BY <1>1, <2>1 DEF Encoded
  <2>3. inflated' = SubSeq(data, 1, pos)
    BY <2>1, <2>2, NextByteOfInput
  <2>4. Len(SubSeq(data, 1, pos)) = pos
    BY <1>1, PrefixElements
  <2> QED BY <1>7, <2>1, <2>3, <2>4
<1>10. CASE EncodePutOff
  <2>1. /\ lzPc = "decide" /\ lzPc' = "emit" /\ lazy /\ pos' = pos - 1 /\ inflated' = inflated /\ pos > 0
    BY <1>0, <1>10 DEF EncodePutOff, MatchesRepeat
  <2>2. Encoded = pos' /\ Encoded \in 0..Len(data)
    BY <1>1, <2>1 DEF Encoded
  <2> QED BY <1>0, <1>7, <2>1, <2>2, InflatedIsPrefix
<1>11. CASE EmitLiteral
  <2>1. /\ lzPc = "emit" /\ lzPc' = "insert" /\ length < 3 /\ pos' = pos /\ left' = 0
        /\ inflated' = Append(inflated, In(pos))
    BY <1>11 DEF EmitLiteral
  <2>2. Encoded = pos /\ Encoded' = pos + 1 /\ Encoded \in 0..Len(data) - 1
    BY <1>1, <1>2, <2>1 DEF Encoded
  <2> QED BY <1>3, <2>1, <2>2, NextByteOfInput
<1>12. CASE SpellOut
  <2>1. /\ lzPc = "emit" /\ lzPc' = "insert" /\ length = 3 /\ TooFar /\ pos' = pos /\ left' = 2
        /\ inflated' = inflated \o <<In(pos), In(pos + 1), In(pos + 2)>>
    BY <1>12 DEF SpellOut, TooFar
  <2>2. pos + 3 <= Len(data)
    BY <1>0, <1>1, <2>1 DEF MatchesRepeat, Repeats
  <2>3. Encoded = pos /\ Encoded' = pos + 3
    BY <1>1, <2>1 DEF Encoded
  <2>4. /\ Append(SubSeq(data, 1, pos), data[pos + 1]) = SubSeq(data, 1, pos + 1)
        /\ Append(SubSeq(data, 1, pos + 1), data[pos + 2]) = SubSeq(data, 1, pos + 2)
        /\ Append(SubSeq(data, 1, pos + 2), data[pos + 3]) = SubSeq(data, 1, pos + 3)
    BY <1>1, <2>2
  <2>5. inflated \o <<data[pos + 1], data[pos + 2], data[pos + 3]>>
          = Append(Append(Append(inflated, data[pos + 1]), data[pos + 2]), data[pos + 3])
    <3>1. inflated \in Seq(Byte) /\ data[pos + 1] \in Byte /\ data[pos + 2] \in Byte /\ data[pos + 3] \in Byte
      BY <1>0, <1>1, <2>2 DEF LzTypeOK
    <3> QED BY <3>1, ThreeMore
  <2>6. In(pos) = data[pos + 1] /\ In(pos + 1) = data[pos + 2] /\ In(pos + 2) = data[pos + 3]
    BY <1>1 DEF In
  <2> QED BY <1>0, <1>3, <2>1, <2>3, <2>4, <2>5, <2>6
<1>13. CASE CopyByte
  <2>1. /\ lzPc = "emit" /\ lzPc' = "emit" /\ length >= 3 /\ ~TooFar /\ Copied < length
        /\ UNCHANGED <<pos, length, offset>> /\ inflated' = Append(inflated, inflated[Backward + 1])
    BY <1>13 DEF CopyByte
  <2>2. inflated' = SubSeq(data, 1, pos + Copied + 1) /\ pos + Copied + 1 \in 0..Len(data)
    BY <1>1, <1>2, <2>1, CopiesAreRight, NextByteOfInput
  <2>3. Len(inflated') = pos + Copied + 1
    BY <1>1, <2>2, PrefixElements
  <2>4. Encoded' = pos + Copied + 1
    <3>1. ~TooFar' /\ ~(length' < 3) /\ lzPc' = "emit"
      BY <1>2, <2>1 DEF TooFar
    <3>2. Encoded' = pos' + Copied'
      BY <3>1 DEF Encoded
    <3>3. Copied' = Len(inflated') - pos'
      BY DEF Copied
    <3>4. pos' + (Len(inflated') - pos') = Len(inflated')
      BY <1>1, <2>1, <2>2, <2>3
    <3> QED BY <2>3, <3>2, <3>3, <3>4
  <2> QED BY <1>3, <2>2, <2>4
<1>14. CASE CopyDone
  <2>1. /\ lzPc = "emit" /\ lzPc' = "insert" /\ length >= 3 /\ ~TooFar /\ Copied = length
        /\ UNCHANGED <<pos, inflated>> /\ left' = length - 1
    BY <1>14 DEF CopyDone
  <2>2. Encoded' = Encoded
    BY <1>1, <1>2, <2>1 DEF Encoded
  <2> QED BY <1>0, <1>3, <2>1, <2>2
<1>15. CASE InsertByte
  <2>1. /\ lzPc = "insert" /\ lzPc' = "insert" /\ pos' = pos + 1 /\ left' = left - 1 /\ inflated' = inflated
    BY <1>15 DEF InsertByte
  <2>2. Encoded' = Encoded
    BY <1>1, <1>2, <2>1 DEF Encoded
  <2> QED BY <1>0, <1>3, <2>1, <2>2
<1>16. CASE NextByte
  <2>1. /\ lzPc = "insert" /\ lzPc' = "scan" /\ left = 0 /\ pos' = pos + 1
        /\ UNCHANGED <<lazy, inflated>> /\ lazy = FALSE
    BY <1>4, <1>16 DEF NextByte, lazyVars
  <2>2. Encoded' = Encoded
    BY <1>1, <2>1 DEF Encoded
  <2> QED BY <1>0, <1>3, <2>1, <2>2
<1>17. lzPc = "scan" /\ pos >= blockEnd => lazy = FALSE /\ pos = blockEnd
  BY <1>0, <1>1 DEF MatchesRepeat, Repeats, LzTypeOK
<1>18. CASE NextBlock \/ EndDeflate
  <2>1. /\ lzPc = "scan" /\ pos >= blockEnd /\ lzPc' \in {"scan", "done"}
        /\ pos' = pos \/ pos' = blockEnd
        /\ lazy' = lazy \/ lazy' = FALSE
        /\ inflated' = inflated
    BY <1>18 DEF NextBlock, EndDeflate, lazyVars
  <2>2. Encoded' = Encoded
    BY <1>17, <2>1 DEF Encoded
  <2> QED BY <1>0, <1>3, <2>1, <2>2
<1> QED
  BY <1>5, <1>6, <1>8, <1>9, <1>10, <1>11, <1>12, <1>13, <1>14, <1>15, <1>16, <1>18 DEF LzNext

\* The bytes copied of a match come in turn from its offset.
LEMMA CopiesKept ==
  ASSUME LzIInv, LzNext
  PROVE  CopiesInTurn'
<1> SUFFICES ASSUME lzPc' = "emit", length' >= 3, ~TooFar'
             PROVE  /\ Copied' \in 0..length'
                    /\ \A k \in 0..Copied' - 1 : In(pos + k)' = In(pos - offset + (k % offset))'
  BY DEF CopiesInTurn
<1>0. LzTypeOK /\ CopiesInTurn
  BY DEF LzIInv
<1>1. /\ data' \in Seq(Byte) /\ Len(data') \in Nat /\ pos' \in Nat /\ length' \in Nat
      /\ pos' <= Len(data')
  <2>1. /\ data' \in Seq(Byte) /\ pos' \in Nat /\ length' \in Nat
        /\ blockEnd' \in 0..Len(data') /\ pos' <= blockEnd'
    BY TypeKept DEF LzTypeOK
  <2>2. data' \in Seq(Byte) /\ Len(data') \in Nat
    BY <2>1, LzAssumption
  <2> QED BY <2>1, <2>2
<1>2. CASE CopyByte
  <2>1. /\ lzPc = "emit" /\ length >= 3 /\ ~TooFar /\ Copied < length
        /\ UNCHANGED <<data, pos, length, offset>> /\ inflated' = Append(inflated, inflated[Backward + 1])
    BY <1>2 DEF CopyByte
  <2>2. Copied \in 0..length - 1 /\ In(pos + Copied) = In(pos - offset + (Copied % offset))
    BY <2>1, CopiesAreRight
  <2>3. Copied' = Copied + 1
    BY <1>0, <1>1, <2>1 DEF Copied, LzTypeOK
  <2>4. \A k \in 0..Copied - 1 : In(pos + k) = In(pos - offset + (k % offset))
    BY <1>0, <2>1 DEF CopiesInTurn
  <2>5. \A k \in 0..(Copied + 1) - 1 : In(pos + k) = In(pos - offset + (k % offset))
    BY <1>1, <2>1, <2>2, <2>4
  <2>6. Copied + 1 \in 0..length
    BY <1>1, <2>1, <2>2
  <2> QED BY <2>1, <2>3, <2>5, <2>6 DEF In
<1>3. CASE EncodeNow \/ EncodeNext \/ EncodePutOff
  <2>1. inflated' = SubSeq(data', 1, Encoded')
    BY PrefixKept
  <2>2. Encoded' = pos' + Copied' /\ Copied' = Len(inflated') - pos'
    BY <1>1 DEF Encoded, Copied
  <2>3. Len(inflated') = pos'
    <3>1. lzPc = "decide" /\ UNCHANGED data
      BY <1>3 DEF EncodeNow, EncodeNext, EncodePutOff
    <3>2. pos \in Nat /\ pos < blockEnd /\ blockEnd <= Len(data) /\ blockEnd \in Nat /\ Len(data) \in Nat
      BY <1>0, <3>1, InflatedIsPrefix DEF LzTypeOK, LookUp
    <3>3. CASE EncodeNow
      <4>1. Encoded = pos /\ UNCHANGED <<pos, inflated>>
        BY <3>1, <3>3 DEF EncodeNow, Encoded
      <4> QED BY <3>2, <4>1, InflatedIsPrefix
    <3>4. CASE EncodeNext
      <4>1. /\ Encoded = pos - 1 /\ pos' = pos /\ Len(inflated') = Len(inflated) + 1
        BY <1>0, <3>1, <3>4 DEF EncodeNext, Encoded, LzTypeOK
      <4>2. pos > 0
        BY <3>4 DEF EncodeNext, LzIInv, MatchesRepeat
      <4>3. Len(inflated) = pos - 1
        BY <3>2, <4>1, <4>2, InflatedIsPrefix
      <4> QED BY <3>2, <4>1, <4>3
    <3>5. CASE EncodePutOff
      <4>1. Encoded = pos - 1 /\ pos' = pos - 1 /\ inflated' = inflated
        BY <3>1, <3>5 DEF EncodePutOff, Encoded
      <4>2. pos > 0
        BY <3>5 DEF EncodePutOff, LzIInv, MatchesRepeat
      <4> QED BY <3>2, <4>1, <4>2, InflatedIsPrefix
    <3> QED BY <1>3, <3>3, <3>4, <3>5
  <2>4. Copied' = 0
    <3>1. pos' \in Nat
      BY TypeKept DEF LzTypeOK
    <3>2. \A n \in Nat : n - n = 0
      OBVIOUS
    <3> QED BY <2>2, <2>3, <3>1, <3>2
  <2> QED BY <1>1, <2>4
<1> QED
  BY <1>2, <1>3 DEF LzNext, StartSearch, EndSearch, VisitPlace, CompareByte, FollowChain,
     PutOff, EmitLiteral, SpellOut, CopyDone, InsertByte, NextByte, NextBlock, EndDeflate

\* The end is reached with the last block at the end of the input.
LEMMA EndKept ==
  ASSUME LzIInv, LzNext
  PROVE  (lzPc = "done" => pos = blockEnd /\ blockEnd = Len(data))'
<1> SUFFICES ASSUME lzPc' = "done"
             PROVE  pos' = blockEnd' /\ blockEnd' = Len(data')
  OBVIOUS
<1>1. EndDeflate
  BY DEF LzNext, StartSearch, EndSearch, VisitPlace, CompareByte, FollowChain, PutOff,
     EncodeNow, EncodeNext, EncodePutOff, EmitLiteral, SpellOut, CopyByte, CopyDone,
     InsertByte, NextByte, NextBlock
<1> QED BY <1>1, InflatedIsPrefix DEF EndDeflate

-----------------------------------------------------------------------------
\* The theorems.

\* Whatever bytes the deflater is given, it begins right.
LEMMA LzStartInv ==
  ASSUME NEW bytes \in Seq(Byte), LzStart(bytes, "scan")
  PROVE  LzIInv
<1>1. /\ data = bytes /\ lzPc = "scan" /\ pos = 0 /\ blockEnd = Lower(BlockSize, Len(data))
      /\ head = [h \in HashValues |-> -1] /\ chain = [i \in 0..WindowSize - 1 |-> i]
      /\ hashpos = 0 /\ matched = 0 /\ length = 0 /\ offset = 0
      /\ lazy = FALSE /\ lazylength = 0 /\ lazyoffset = 0 /\ left = 0 /\ inflated = <<>>
  BY DEF LzStart
<1>2. data \in Seq(Byte) /\ Len(data) \in Nat /\ WindowSize \in Nat \ {0} /\ BlockSize \in Nat
  BY <1>1, LzAssumption
<1>3. blockEnd \in 0..Len(data) /\ pos <= blockEnd
  BY <1>1, <1>2 DEF Lower
<1>4. LzTypeOK
  <2>1. head \in [HashValues -> -1..WindowSize - 1]
    <3>1. -1 \in -1..WindowSize - 1
      BY <1>2
    <3> QED BY <1>1, <3>1
  <2>2. chain \in [0..WindowSize - 1 -> 0..WindowSize - 1]
    BY <1>1, <1>2
  <2>3. hashpos \in 0..WindowSize - 1 /\ inflated \in Seq(Byte)
    BY <1>1, <1>2
  <2> QED BY <1>1, <1>3, <2>1, <2>2, <2>3 DEF LzTypeOK, LookUp, Encode
<1>5. ChainsLeadBack
  <2>1. NotAhead(pos)
    BY <1>1, <1>2 DEF NotAhead
  <2> QED BY <1>1, <2>1 DEF ChainsLeadBack, LookUp
<1>6. MatchesRepeat /\ CopiesInTurn
  BY <1>1 DEF MatchesRepeat, CopiesInTurn
<1>7. inflated = SubSeq(data, 1, Encoded)
  BY <1>1, <1>2 DEF Encoded
<1> QED BY <1>1, <1>4, <1>5, <1>6, <1>7 DEF LzIInv

LEMMA LzStepInv == LzIInv /\ [LzNext]_lzVars => LzIInv'
<1>1. ASSUME LzIInv, LzNext PROVE LzIInv'
  BY <1>1, TypeKept, ChainsKept, MatchesKept, CopiesKept, PrefixKept, EndKept DEF LzIInv
<1>2. ASSUME LzIInv, UNCHANGED lzVars PROVE LzIInv'
  BY <1>2 DEF LzIInv, lzVars, searchVars, lazyVars, LzTypeOK, ChainsLeadBack, NotAhead,
     MatchesRepeat, Repeats, CopiesInTurn, Copied, TooFar, CurrentOffset, Window, In, Encoded
<1> QED BY <1>1, <1>2

\* The inductive invariant: the chains lead back, matches repeat what is there,
\* copies follow them, and the reader has a prefix of the input.
THEOREM LzIInvHolds == LzSpec => []LzIInv
<1>1. LzInit => LzIInv
  BY LzStartInv, LzAssumption DEF LzInit
<1> QED BY <1>1, LzStepInv, PTL DEF LzSpec

LEMMA LzInvLossless == LzIInv => LzLossless
<1> SUFFICES ASSUME LzIInv PROVE LzLossless
  OBVIOUS
<1>0. /\ LzTypeOK /\ MatchesRepeat /\ CopiesInTurn /\ inflated = SubSeq(data, 1, Encoded)
      /\ data \in Seq(Byte)
  BY InflatedIsPrefix DEF LzIInv
<1>1. lzPc = "done" => inflated = data
  <2> SUFFICES ASSUME lzPc = "done" PROVE inflated = data
    OBVIOUS
  <2>1. lazy = FALSE
    BY <1>0 DEF MatchesRepeat, LookUp, LzTypeOK
  <2>2. Encoded = Len(data)
    BY <2>1 DEF Encoded, LzIInv
  <2> QED BY <1>0, <2>2
<1>2. lzPc = "emit" /\ length >= 3 => offset \in 1..Lower(pos, WindowSize - 1)
  <2> SUFFICES ASSUME lzPc = "emit", length >= 3
               PROVE  offset \in 1..Lower(pos, WindowSize - 1)
    OBVIOUS
  <2>1. Repeats(pos, length, offset)
    BY <1>0 DEF MatchesRepeat, LzTypeOK
  <2> QED BY <1>0, <2>1, LzAssumption DEF Repeats, Lower, LzTypeOK
<1> QED BY <1>0, <1>1, <1>2 DEF LzLossless, CopiesInTurn

\* lodepng.cpp, encodeLZ77 and inflateHuffmanBlock: what is read back is what was
\* deflated, for every input, hash, window and block.
THEOREM DeflateIsLossless == LzSpec => []LzLossless
<1> QED BY LzInvLossless, LzIInvHolds, PTL

-----------------------------------------------------------------------------
\* The file.

\* The ends of the chunks, one after the other.
LEMMA EndOfChunksIs ==
  ASSUME NEW N \in Nat, \A k \in 1..N : chunks[k].size \in Nat
  PROVE  \E f \in [0..N -> Nat] :
           /\ f[0] = SignatureSize
           /\ \A k \in 1..N : f[k] = f[k - 1] + chunks[k].size + 12
           /\ \A n \in 0..N : EndOfChunks(n) = f[n]
<1> DEFINE g == [kv \in (1..N) \X Nat |-> kv[2] + chunks[kv[1]].size + 12]
<1>1. g \in Steps(Nat, N)
  BY DEF Steps
<1>2. SignatureSize \in Nat
  BY DEF SignatureSize
<1>3. PICK f \in [0..N -> Nat] : Follows(f, N, SignatureSize, g)
  <2> HIDE DEF g
  <2>1. IsDefinedBy(Nat, N, SignatureSize, g)
    BY <1>1, <1>2, Recursion, Zenon
  <2> QED BY <2>1, Zenon DEF IsDefinedBy
<1>4. ASSUME NEW k \in 1..N PROVE f[k] = f[k - 1] + chunks[k].size + 12
  <2>1. <<k, f[k - 1]>> \in (1..N) \X Nat
    OBVIOUS
  <2>2. g[<<k, f[k - 1]>>] = f[k - 1] + chunks[k].size + 12
    BY <2>1
  <2> QED BY <2>2, <1>3 DEF Follows
<1>5. ASSUME NEW n \in 0..N PROVE EndOfChunks(n) = f[n]
  <2> DEFINE Body(e) == e = [k \in 0..n |-> IF k = 0 THEN SignatureSize ELSE e[k - 1] + chunks[k].size + 12]
             E == CHOOSE e : Body(e)
             h == [k \in 0..n |-> f[k]]
  <2>1. Body(h)
    <3>1. ASSUME NEW k \in 0..n
          PROVE  h[k] = IF k = 0 THEN SignatureSize ELSE h[k - 1] + chunks[k].size + 12
      <4>1. CASE k = 0
        BY <4>1, <1>3 DEF Follows
      <4>2. CASE k # 0
        <5>1. k \in 1..N /\ k - 1 \in 0..n
          BY <4>2
        <5>2. h[k] = f[k] /\ h[k - 1] = f[k - 1]
          BY <5>1
        <5> QED BY <4>2, <5>1, <5>2, <1>4
      <4> QED BY <4>1, <4>2
    <3>2. h = [k \in 0..n |-> h[k]]
      OBVIOUS
    <3> HIDE DEF h
    <3> QED BY <3>1, <3>2
  <2>2. Body(E)
    <3> HIDE DEF Body
    <3> QED BY <2>1, Zenon
  <2>3. EndOfChunks(n) = E[n]
    BY DEF EndOfChunks
  <2> HIDE DEF E
  <2>4. E[0] = SignatureSize /\ \A k \in 1..n : E[k] = E[k - 1] + chunks[k].size + 12
    <3>1. \A k \in 0..n : E[k] = IF k = 0 THEN SignatureSize ELSE E[k - 1] + chunks[k].size + 12
      BY <2>2
    <3>2. 0 \in 0..n /\ \A k \in 1..n : k \in 0..n /\ k # 0
      OBVIOUS
    <3> HIDE DEF Body
    <3> QED BY <3>1, <3>2
  <2>5. E[0] = f[0]
    BY <2>4, <1>3, Zenon DEF Follows
  <2> HIDE DEF Body, h
  <2>6. ASSUME NEW k \in 1..n, E[k - 1] = f[k - 1] PROVE E[k] = f[k]
    <3>1. k \in 1..N
      OBVIOUS
    <3>2. E[k] = f[k - 1] + chunks[k].size + 12
      BY ONLY <2>4, <2>6
    <3>3. f[k] = f[k - 1] + chunks[k].size + 12
      BY ONLY <3>1, <1>4
    <3> QED BY ONLY <3>2, <3>3
  <2>7. GoesAlong(E, f, n) /\ n \in Nat
    BY <2>5, <2>6 DEF GoesAlong
  <2>8. E[n] = f[n]
    BY ONLY <2>7, RecursionUnique
  <2> QED BY <2>3, <2>8
<1> QED BY <1>3, <1>4, <1>5 DEF Follows

-----------------------------------------------------------------------------

\* The sizes of a drawing are numbers.
LEMMA DrawingSizes ==
  ASSUME drawing \in Drawings
  PROVE  /\ drawing.palettesize \in 0..256 /\ drawing.zsize \in Nat \ {0}
         /\ HasPalette <=> drawing.palettesize > 0
BY FileAssumption DEF HasPalette

\* Where a chunk and what is in it end, in places of the file.
LEMMA Places ==
  ASSUME drawing \in Drawings
  PROVE  /\ AfterHeader = 33
         /\ PaletteIn => AtData \in Nat /\ AtData = 45 + 3 * drawing.palettesize /\ AtData > AfterHeader
         /\ ~PaletteIn => AtData \in Nat /\ AtData = AfterHeader
         /\ AtEnd \in Nat /\ AtEnd = AtData + drawing.zsize + 18 /\ AtEnd > AtData
<1> DEFINE p == drawing.palettesize
           z == drawing.zsize
<1>1. p \in Nat /\ z \in Nat /\ z > 0 /\ (PaletteIn => p > 0)
  BY DrawingSizes DEF PaletteIn
<1>2. /\ AtData = IF PaletteIn THEN AfterHeader + 3 * p + 12 ELSE AfterHeader
      /\ AtEnd = AtData + z + 18 /\ AfterHeader = 33
  BY DEF AtData, AtEnd, AfterHeader
<1> HIDE DEF p, z
<1>3. CASE PaletteIn
  BY <1>1, <1>2, <1>3 DEF p, z
<1>4. CASE ~PaletteIn
  BY <1>1, <1>2, <1>4 DEF p, z
<1> QED BY <1>3, <1>4

\* Short sequences, put together.
LEMMA ShortOnes ==
  ASSUME NEW x, NEW y
  PROVE  /\ Append(<<>>, x) = <<x>> /\ Append(<<x>>, y) = <<x, y>>
         /\ <<>> \o <<x>> = <<x>> /\ <<x>> \o <<>> = <<x>> /\ <<x>> \o <<y>> = <<x, y>>
         /\ <<>> \o <<>> = <<>>
<1> DEFINE S == {x, y}
<1>1. /\ <<>> \in Seq(S) /\ <<x>> \in Seq(S) /\ <<y>> \in Seq(S) /\ <<x, y>> \in Seq(S)
      /\ Len(<<x>>) = 1 /\ Len(<<y>>) = 1 /\ Len(<<x, y>>) = 2
  OBVIOUS
<1>2. Append(<<x>>, y) = <<x, y>> /\ <<x>> \o <<y>> = <<x, y>>
  <2>1. /\ Append(<<x>>, y) \in Seq(S) /\ Len(Append(<<x>>, y)) = 2
        /\ <<x>> \o <<y>> \in Seq(S) /\ Len(<<x>> \o <<y>>) = 2
    BY <1>1
  <2>2. \A i \in 1..2 : Append(<<x>>, y)[i] = <<x, y>>[i] /\ (<<x>> \o <<y>>)[i] = <<x, y>>[i]
    BY <1>1
  <2> HIDE DEF S
  <2> QED BY <1>1, <2>1, <2>2, SameElements
<1>3. Append(<<>>, x) = <<x>> /\ <<>> \o <<x>> = <<x>> /\ <<x>> \o <<>> = <<x>> /\ <<>> \o <<>> = <<>>
  BY <1>1
<1> QED BY <1>2, <1>3

\* The last one of a short sequence.
LEMMA AppendedLast ==
  ASSUME NEW x, NEW y, NEW z, NEW u
  PROVE  Append(<<x, y>>, z) = <<x, y, z>> /\ Append(<<x, y, z>>, u) = <<x, y, z, u>>
<1> DEFINE S == {x, y, z, u}
<1> x \in S /\ y \in S /\ z \in S /\ u \in S
  OBVIOUS
<1> HIDE DEF S
<1>1. <<x, y>> \in Seq(S) /\ Len(<<x, y>>) = 2
  OBVIOUS
<1>2. <<x, y, z>> \in Seq(S) /\ Len(<<x, y, z>>) = 3
  OBVIOUS
<1>3. <<x, y, z, u>> \in Seq(S) /\ Len(<<x, y, z, u>>) = 4
  OBVIOUS
<1>4. Append(<<x, y>>, z) = <<x, y, z>>
  <2>1. Append(<<x, y>>, z) \in Seq(S) /\ Len(Append(<<x, y>>, z)) = 3
    BY <1>1
  <2>2. \A i \in 1..3 : Append(<<x, y>>, z)[i] = <<x, y, z>>[i]
    BY <1>1
  <2> QED BY <2>1, <2>2, <1>2, SameElements
<1>5. Append(<<x, y, z>>, u) = <<x, y, z, u>>
  <2>1. Append(<<x, y, z>>, u) \in Seq(S) /\ Len(Append(<<x, y, z>>, u)) = 4
    BY <1>2
  <2>2. \A i \in 1..4 : Append(<<x, y, z>>, u)[i] = <<x, y, z, u>>[i]
    BY <1>2
  <2> QED BY <2>1, <2>2, <1>3, SameElements
<1> QED BY <1>4, <1>5

\* The chunks of a file whose header is there.
LEMMA ShapeOfFile ==
  ASSUME HeaderIn
  PROVE  /\ PaletteIn =>
              WholeFile = IF EndIn THEN <<HeaderChunk, PaletteChunk, DataChunk, EndChunk>>
                                   ELSE <<HeaderChunk, PaletteChunk, DataChunk>>
         /\ ~PaletteIn =>
              WholeFile = IF EndIn THEN <<HeaderChunk, DataChunk, EndChunk>>
                                   ELSE <<HeaderChunk, DataChunk>>
<1>1. BeforeData = IF PaletteIn THEN <<HeaderChunk, PaletteChunk>> ELSE <<HeaderChunk>>
  BY ShortOnes, Zenon DEF BeforeData, HeaderPart
<1>2. WithData = IF PaletteIn THEN <<HeaderChunk, PaletteChunk, DataChunk>>
                              ELSE <<HeaderChunk, DataChunk>>
  BY <1>1, ShortOnes, AppendedLast, Zenon DEF WithData
<1>3. CASE PaletteIn
  BY <1>2, <1>3, AppendedLast, Zenon DEF WholeFile
<1>4. CASE ~PaletteIn
  BY <1>2, <1>4, AppendedLast, Zenon DEF WholeFile
<1> QED BY <1>3, <1>4

\* A file without its header begins with another chunk.
LEMMA FirstOfFile ==
  /\ HeaderIn => WholeFile[1] = HeaderChunk
  /\ ~HeaderIn => WholeFile[1].name # "IHDR"
<1>1. CASE HeaderIn
  BY <1>1, ShapeOfFile
<1>2. CASE ~HeaderIn
  <2>1. BeforeData = IF PaletteIn THEN <<PaletteChunk>> ELSE <<>>
    BY <1>2, ShortOnes, Zenon DEF BeforeData, HeaderPart
  <2>2. WithData = IF PaletteIn THEN <<PaletteChunk, DataChunk>> ELSE <<DataChunk>>
    BY <2>1, ShortOnes, Zenon DEF WithData
  <2>3. /\ WholeFile = WithData \/ WholeFile = Append(WithData, EndChunk)
        /\ PaletteIn => Append(WithData, EndChunk) = <<PaletteChunk, DataChunk, EndChunk>>
        /\ ~PaletteIn => Append(WithData, EndChunk) = <<DataChunk, EndChunk>>
    BY <2>2, ShortOnes, AppendedLast, Zenon DEF WholeFile
  <2>4. WholeFile[1] = PaletteChunk \/ WholeFile[1] = DataChunk
    BY <2>2, <2>3
  <2> QED BY <1>2, <2>4 DEF PaletteChunk, DataChunk, Chunk
<1> QED BY <1>1, <1>2

\* Where each chunk ends, from where the one before it does.
LEMMA EndsFollow ==
  ASSUME Len(chunks) \in Nat, \A k \in 1..Len(chunks) : chunks[k].size \in Nat
  PROVE  /\ EndOfChunks(0) = 8
         /\ \A k \in 1..Len(chunks) : EndOfChunks(k) = EndOfChunks(k - 1) + chunks[k].size + 12
<1> DEFINE N == Len(chunks)
<1>1. N \in Nat /\ \A k \in 1..N : chunks[k].size \in Nat
  OBVIOUS
<1> HIDE DEF N
<1>2. PICK f \in [0..N -> Nat] :
        /\ f[0] = SignatureSize
        /\ \A k \in 1..N : f[k] = f[k - 1] + chunks[k].size + 12
        /\ \A n \in 0..N : EndOfChunks(n) = f[n]
  BY <1>1, EndOfChunksIs
<1>3. EndOfChunks(0) = 8
  <2>1. 0 \in 0..N
    BY <1>1
  <2> QED BY <2>1, <1>2 DEF SignatureSize
<1>4. ASSUME NEW k \in 1..N PROVE EndOfChunks(k) = EndOfChunks(k - 1) + chunks[k].size + 12
  <2>1. k \in 0..N /\ k - 1 \in 0..N
    BY <1>1
  <2> QED BY <2>1, <1>2
<1> QED BY <1>3, <1>4 DEF N

\* What the chunks of a file whose header is there are.
LEMMA ChunksOfFile ==
  ASSUME drawing \in Drawings, chunks = WholeFile, HeaderIn
  PROVE  /\ chunks[1] = HeaderChunk
         /\ PaletteIn =>
              /\ Len(chunks) = IF EndIn THEN 4 ELSE 3
              /\ chunks[2] = PaletteChunk /\ chunks[3] = DataChunk
              /\ EndIn => chunks[4] = EndChunk
         /\ ~PaletteIn =>
              /\ Len(chunks) = IF EndIn THEN 3 ELSE 2
              /\ chunks[2] = DataChunk
              /\ EndIn => chunks[3] = EndChunk
         /\ Len(chunks) \in Nat
         /\ \A k \in 1..Len(chunks) : chunks[k].size \in Nat
<1> DEFINE D == drawing.zsize + 6
           P == 3 * drawing.palettesize
<1>1. D \in Nat /\ P \in Nat
  BY DrawingSizes
<1>2. /\ HeaderChunk.size = 13 /\ PaletteChunk.size = P /\ EndChunk.size = 0
      /\ DataChunk.size = 2 + drawing.zsize + 4
  BY DEF HeaderChunk, PaletteChunk, DataChunk, EndChunk, Chunk
<1>3. DataChunk.size = D
  BY <1>2, DrawingSizes
<1> HIDE DEF D, P
<1>4. CASE PaletteIn /\ EndIn
  <2>1. chunks = <<HeaderChunk, PaletteChunk, DataChunk, EndChunk>>
    BY <1>4, ShapeOfFile
  <2> QED BY <1>1, <1>2, <1>3, <1>4, <2>1
<1>5. CASE PaletteIn /\ ~EndIn
  <2>1. chunks = <<HeaderChunk, PaletteChunk, DataChunk>>
    BY <1>5, ShapeOfFile
  <2> QED BY <1>1, <1>2, <1>3, <1>5, <2>1
<1>6. CASE ~PaletteIn /\ EndIn
  <2>1. chunks = <<HeaderChunk, DataChunk, EndChunk>>
    BY <1>6, ShapeOfFile
  <2> QED BY <1>1, <1>2, <1>3, <1>6, <2>1
<1>7. CASE ~PaletteIn /\ ~EndIn
  <2>1. chunks = <<HeaderChunk, DataChunk>>
    BY <1>7, ShapeOfFile
  <2> QED BY <1>1, <1>2, <1>3, <1>7, <2>1
<1> QED BY <1>4, <1>5, <1>6, <1>7

\* Where the chunks of such a file end.
LEMMA WholeFileEnds ==
  ASSUME drawing \in Drawings, chunks = WholeFile, HeaderIn
  PROVE  /\ EndOfChunks(0) = 8 /\ EndOfChunks(1) = AfterHeader
         /\ PaletteIn => EndOfChunks(2) = AtData /\ EndOfChunks(3) = AtEnd
         /\ ~PaletteIn => EndOfChunks(2) = AtEnd
         /\ FileSize = IF EndIn THEN AtEnd + 12 ELSE AtEnd
<1> DEFINE N == Len(chunks)
           D == drawing.zsize
           P == drawing.palettesize
<1>1. D \in Nat /\ P \in Nat
  BY DrawingSizes
<1>2. /\ HeaderChunk.size = 13 /\ PaletteChunk.size = 3 * P /\ EndChunk.size = 0
      /\ DataChunk.size = 2 + D + 4
  BY DEF HeaderChunk, PaletteChunk, DataChunk, EndChunk, Chunk
<1>3. /\ PaletteIn => AtData = 33 + 3 * P + 12
      /\ ~PaletteIn => AtData = 33
      /\ AtEnd = AtData + D + 18 /\ AfterHeader = 33
  BY DEF AtData, AtEnd, AfterHeader
<1>4. /\ EndOfChunks(0) = 8
      /\ \A k \in 1..N : EndOfChunks(k) = EndOfChunks(k - 1) + chunks[k].size + 12
  BY ChunksOfFile, EndsFollow
<1>5. FileSize = EndOfChunks(N)
  BY DEF FileSize
<1>6. /\ chunks[1] = HeaderChunk
      /\ PaletteIn => /\ N = IF EndIn THEN 4 ELSE 3
                      /\ chunks[2] = PaletteChunk /\ chunks[3] = DataChunk
                      /\ EndIn => chunks[4] = EndChunk
      /\ ~PaletteIn => /\ N = IF EndIn THEN 3 ELSE 2
                       /\ chunks[2] = DataChunk
                       /\ EndIn => chunks[3] = EndChunk
  BY ChunksOfFile
<1> HIDE DEF D, P, N
<1>7. CASE PaletteIn
  <2>1. /\ EndOfChunks(1) = EndOfChunks(0) + chunks[1].size + 12
        /\ EndOfChunks(2) = EndOfChunks(1) + chunks[2].size + 12
        /\ EndOfChunks(3) = EndOfChunks(2) + chunks[3].size + 12
    BY <1>4, <1>6, <1>7
  <2>2. EndIn => EndOfChunks(4) = EndOfChunks(3) + chunks[4].size + 12
    BY <1>4, <1>6, <1>7
  <2>3. /\ EndOfChunks(1) = 33 /\ EndOfChunks(2) = AtData /\ EndOfChunks(3) = AtEnd
        /\ AtEnd \in Nat
    BY <2>1, <1>1, <1>2, <1>3, <1>4, <1>6, <1>7
  <2>4. EndIn => EndOfChunks(4) = AtEnd + 12
    BY <2>2, <2>3, <1>2, <1>6, <1>7
  <2> QED BY <2>3, <2>4, <1>3, <1>4, <1>5, <1>6, <1>7
<1>8. CASE ~PaletteIn
  <2>1. /\ EndOfChunks(1) = EndOfChunks(0) + chunks[1].size + 12
        /\ EndOfChunks(2) = EndOfChunks(1) + chunks[2].size + 12
    BY <1>4, <1>6, <1>8
  <2>2. EndIn => EndOfChunks(3) = EndOfChunks(2) + chunks[3].size + 12
    BY <1>4, <1>6, <1>8
  <2>3. EndOfChunks(1) = 33 /\ EndOfChunks(2) = AtEnd /\ AtEnd \in Nat
    BY <2>1, <1>1, <1>2, <1>3, <1>4, <1>6, <1>8
  <2>4. EndIn => EndOfChunks(3) = AtEnd + 12
    BY <2>2, <2>3, <1>2, <1>6, <1>8
  <2> QED BY <2>3, <2>4, <1>3, <1>4, <1>5, <1>6, <1>8
<1> QED BY <1>7, <1>8

\* One place in a sequence of different ends.
LEMMA OnlyPlace ==
  ASSUME NEW n \in Nat, NEW k \in 1..n, chunkAt = EndOfChunks(k - 1), n = Len(chunks),
         \A i \in 1..n : EndOfChunks(i - 1) = chunkAt => i = k
  PROVE  ChunkNo = k
BY Zenon DEF ChunkNo

\* The reader, at the place where a chunk begins, takes this chunk.
LEMMA ChunkFound ==
  ASSUME drawing \in Drawings, chunks = WholeFile, HeaderIn
  PROVE  /\ PaletteIn /\ chunkAt = AfterHeader => chunks[ChunkNo] = PaletteChunk
         /\ chunkAt = AtData => chunks[ChunkNo] = DataChunk
         /\ EndIn /\ chunkAt = AtEnd => chunks[ChunkNo] = EndChunk
<1> DEFINE N == Len(chunks)
           E(k) == EndOfChunks(k)
<1>1. /\ PaletteIn => N = IF EndIn THEN 4 ELSE 3
      /\ ~PaletteIn => N = IF EndIn THEN 3 ELSE 2
      /\ N = Len(chunks)
  BY ChunksOfFile
<1>2. /\ E(0) = 8 /\ E(1) = AfterHeader
      /\ PaletteIn => E(2) = AtData /\ E(3) = AtEnd
      /\ ~PaletteIn => E(2) = AtEnd
  BY WholeFileEnds
<1>3. /\ AfterHeader = 33 /\ AtData \in Nat /\ AtEnd \in Nat /\ AtData < AtEnd
      /\ PaletteIn => AfterHeader < AtData
      /\ ~PaletteIn => AfterHeader = AtData
  BY Places
<1>4. ASSUME NEW n \in Nat, NEW k \in 1..n, n = N, chunkAt = E(k - 1),
             \A i \in 1..n : E(i - 1) = chunkAt => i = k
      PROVE  ChunkNo = k
  BY <1>1, <1>4, OnlyPlace
<1> HIDE DEF N, E
<1>5. ASSUME NEW n \in Nat, n = N, NEW i \in 1..n, NEW k \in 1..n, E(i - 1) = E(k - 1)
      PROVE  i = k
  <2>1. i \in {1, 2, 3, 4} /\ k \in {1, 2, 3, 4}
    BY <1>1, <1>5
  <2>2. CASE PaletteIn
    BY <1>2, <1>3, <1>5, <2>1, <2>2
  <2>3. CASE ~PaletteIn
    <3>1. i \in {1, 2, 3} /\ k \in {1, 2, 3}
      BY <1>1, <1>5, <2>3
    <3> QED BY <1>2, <1>3, <1>5, <2>3, <3>1
  <2> QED BY <2>2, <2>3
<1>6. ASSUME NEW n \in Nat, n = N, NEW k \in 1..n, chunkAt = E(k - 1) PROVE ChunkNo = k
  BY <1>4, <1>5, <1>6
<1>7. CASE PaletteIn
  <2>1. chunkAt = AfterHeader => ChunkNo = 2
    BY <1>1, <1>2, <1>6, <1>7
  <2>2. chunkAt = AtData => ChunkNo = 3
    BY <1>1, <1>2, <1>6, <1>7
  <2>3. EndIn /\ chunkAt = AtEnd => ChunkNo = 4
    BY <1>1, <1>2, <1>6, <1>7
  <2> QED BY <1>7, <2>1, <2>2, <2>3, ChunksOfFile
<1>8. CASE ~PaletteIn
  <2>1. chunkAt = AtData => ChunkNo = 2
    <3>1. 1 \in Nat /\ 2 \in 1..N /\ N \in Nat
      BY <1>1, <1>8
    <3>2. E(2 - 1) = AtData
      BY <1>2, <1>3, <1>8
    <3> QED BY <1>6, <3>1, <3>2
  <2>2. EndIn /\ chunkAt = AtEnd => ChunkNo = 3
    BY <1>1, <1>2, <1>6, <1>8
  <2> QED BY <1>8, <2>1, <2>2, ChunksOfFile
<1> QED BY <1>7, <1>8

\* What it finds there.
LEMMA ChunkContents ==
  ASSUME drawing \in Drawings
  PROVE
  /\ PaletteChunk.name = "PLTE" /\ PaletteChunk.size = 3 * drawing.palettesize
  /\ PaletteChunk.crc = <<PaletteChunk.name, PaletteChunk.data>>
  /\ DataChunk.name = "IDAT" /\ DataChunk.size = drawing.zsize + 6 /\ DataChunk.data = ZlibData
  /\ DataChunk.crc = <<DataChunk.name, DataChunk.data>>
  /\ EndChunk.name = "IEND" /\ EndChunk.size = 0
  /\ EndChunk.crc = <<EndChunk.name, EndChunk.data>>
BY DrawingSizes DEF PaletteChunk, DataChunk, EndChunk, Chunk

-----------------------------------------------------------------------------
\* What only depends on the drawing and what was dropped stays with them.
LEMMA DrawingStays ==
  ASSUME UNCHANGED <<drawing, dropped>>
  PROVE  /\ HeaderIn' = HeaderIn /\ PaletteIn' = PaletteIn /\ EndIn' = EndIn
         /\ HasPalette' = HasPalette /\ HeaderPart' = HeaderPart /\ BeforeData' = BeforeData
         /\ WithData' = WithData /\ WholeFile' = WholeFile
         /\ AfterHeader' = AfterHeader /\ AtData' = AtData /\ AtEnd' = AtEnd
         /\ HeaderData' = HeaderData /\ ZlibData' = ZlibData /\ PreProcessed' = PreProcessed
<1>1. /\ HeaderData' = HeaderData /\ HasPalette' = HasPalette /\ PreProcessed' = PreProcessed
      /\ HeaderIn' = HeaderIn /\ EndIn' = EndIn
  BY DEF HeaderData, HasPalette, PreProcessed, HeaderIn, EndIn
<1>2. ZlibData' = ZlibData /\ PaletteIn' = PaletteIn
  BY <1>1 DEF ZlibData, PaletteIn
<1>3. /\ HeaderChunk' = HeaderChunk /\ PaletteChunk' = PaletteChunk
      /\ DataChunk' = DataChunk /\ EndChunk' = EndChunk
  BY <1>1, <1>2 DEF HeaderChunk, PaletteChunk, DataChunk, EndChunk, Chunk
<1>4. HeaderPart' = HeaderPart /\ BeforeData' = BeforeData
  BY <1>1, <1>2, <1>3 DEF HeaderPart, BeforeData
<1>5. WithData' = WithData /\ WholeFile' = WholeFile
  BY <1>1, <1>3, <1>4 DEF WithData, WholeFile
<1> QED BY <1>1, <1>2, <1>4, <1>5 DEF AfterHeader, AtData, AtEnd

\* So does the file.
LEMMA SizeStays == ASSUME UNCHANGED chunks PROVE FileSize' = FileSize
BY DEF FileSize, EndOfChunks

\* A picture that is given starts with no chunk written.
LEMMA FileStartInv == ASSUME NEW d \in Drawings, FileStart(d, "check") PROVE FileIInv
BY DEF FileStart, FileIInv, Writing, NothingRead, ChunksSoFar, MayBeDropped

\* A stage with nothing to do has written nothing.
LEMMA FileIdleInv == ASSUME NEW d, FileStart(d, "idle") PROVE FileIInv
BY DEF FileStart, FileIInv

\* The writer: it adds one chunk after the other.
LEMMA CheckSettingsInv == ASSUME FileIInv, CheckSettings PROVE FileIInv'
<1>1. Writing /\ NothingRead /\ drawing \in Drawings
  BY DEF FileIInv, CheckSettings
<1>2. NothingRead'
  BY <1>1 DEF NothingRead, CheckSettings, readerVars
<1>3. CASE filePc' = "scanlines" /\ UNCHANGED reported /\ drawing.bits \in ValidBits(drawing.type)
  <2>1. Writing'
    BY <1>1, <1>3 DEF Writing, CheckSettings, ChunksSoFar, MayBeDropped
  <2> QED BY <1>1, <1>2, <1>3, <2>1 DEF CheckSettings, FileIInv
<1>4. CASE filePc' = "inspect" /\ reported' \in {37, 83}
  <2>1. GivenUp'
    BY <1>1, <1>4 DEF Writing, CheckSettings, GivenUp
  <2> QED BY <1>1, <1>2, <1>4, <2>1 DEF CheckSettings, FileIInv
<1> QED BY <1>3, <1>4 DEF CheckSettings

\* The scanlines, or what there is of them without memory.
LEMMA PreProcessScanlinesInv == ASSUME FileIInv, PreProcessScanlines PROVE FileIInv'
<1>1. Writing /\ NothingRead /\ drawing \in Drawings
  BY DEF FileIInv, PreProcessScanlines
<1>2. NothingRead'
  BY <1>1 DEF NothingRead, PreProcessScanlines, readerVars
<1>3. dropped' \subseteq {"data", "scanlines"} /\ dropped = {}
  BY <1>1 DEF PreProcessScanlines, Writing, MayBeDropped
<1>4. Writing'
  BY <1>1, <1>3 DEF Writing, PreProcessScanlines, ChunksSoFar, MayBeDropped, HasPalette
<1> QED BY <1>1, <1>2, <1>4 DEF PreProcessScanlines, FileIInv

\* The header is the first chunk, if there was memory for it.
LEMMA AddIHDRInv == ASSUME FileIInv, AddIHDR PROVE FileIInv'
<1>1. Writing /\ NothingRead /\ drawing \in Drawings
  BY DEF FileIInv, AddIHDR
<1>2. /\ UNCHANGED <<drawing, reported, written, readerVars>> /\ filePc = "IHDR"
      /\ filePc' = IF HasPalette THEN "PLTE" ELSE "IDAT"
  BY DEF AddIHDR, HasPalette
<1>3. NothingRead'
  BY <1>1, <1>2 DEF NothingRead, readerVars
<1>4. chunks = <<>> /\ dropped \subseteq {"data", "scanlines"}
  BY <1>1, <1>2 DEF Writing, ChunksSoFar, MayBeDropped
<1>5. \/ chunks' = Append(<<>>, HeaderChunk) /\ dropped' = dropped
      \/ chunks' = <<>> /\ dropped' = dropped \cup {"IHDR"}
  BY <1>4 DEF AddIHDR, AddOrDrop, AddChunk, DropChunk, HeaderChunk, HeaderData, Chunk
<1>6. HeaderChunk' = HeaderChunk /\ HasPalette' = HasPalette
  BY <1>2 DEF HeaderChunk, HeaderData, Chunk, HasPalette
<1>7. chunks' = HeaderPart' /\ dropped' \subseteq {"data", "scanlines", "IHDR"}
  BY <1>4, <1>5, <1>6, ShortOnes DEF HeaderPart, HeaderIn
<1>8. chunks' = BeforeData' \/ HasPalette
  <2>1. HeaderPart' \o <<>> = HeaderPart'
    BY ShortOnes, Zenon DEF HeaderPart
  <2> QED BY <1>6, <1>7, <2>1 DEF BeforeData, PaletteIn
<1>9. chunks' = ChunksSoFar' /\ dropped' \subseteq MayBeDropped'
  BY <1>2, <1>7, <1>8 DEF ChunksSoFar, MayBeDropped
<1>10. "PLTE" \notin dropped'
  BY <1>7
<1>11. Writing'
  BY <1>1, <1>2, <1>6, <1>9, <1>10 DEF Writing
<1> QED BY <1>1, <1>2, <1>3, <1>11 DEF FileIInv

\* The palette follows it.
LEMMA AddPLTEInv == ASSUME FileIInv, AddPLTE PROVE FileIInv'
<1>1. Writing /\ NothingRead /\ drawing \in Drawings
  BY DEF FileIInv, AddPLTE
<1>2. /\ UNCHANGED <<drawing, reported, written, readerVars>> /\ filePc = "PLTE"
      /\ filePc' = "IDAT"
  BY DEF AddPLTE
<1>3. NothingRead'
  BY <1>1, <1>2 DEF NothingRead, readerVars
<1>4. chunks = HeaderPart /\ HasPalette /\ dropped \subseteq {"data", "scanlines", "IHDR"}
  BY <1>1, <1>2 DEF Writing, ChunksSoFar, MayBeDropped
<1>5. \/ chunks' = Append(HeaderPart, PaletteChunk) /\ dropped' = dropped
      \/ chunks' = HeaderPart /\ dropped' = dropped \cup {"PLTE"}
  BY <1>4 DEF AddPLTE, AddOrDrop, AddChunk, DropChunk, PaletteChunk, Chunk
<1>6. /\ HeaderChunk' = HeaderChunk /\ PaletteChunk' = PaletteChunk /\ HasPalette' = HasPalette
      /\ HeaderIn' = HeaderIn
  BY <1>2, <1>5 DEF HeaderChunk, HeaderData, PaletteChunk, Chunk, HasPalette, HeaderIn
<1>7. HeaderPart' = HeaderPart
  BY <1>6 DEF HeaderPart
<1>8. Append(HeaderPart, PaletteChunk) = HeaderPart \o <<PaletteChunk>> /\ HeaderPart \o <<>> = HeaderPart
  BY ShortOnes, Zenon DEF HeaderPart
<1>9. chunks' = BeforeData' /\ dropped' \subseteq {"data", "scanlines", "IHDR", "PLTE"}
  BY <1>4, <1>5, <1>6, <1>7, <1>8 DEF BeforeData, PaletteIn
<1>10. chunks' = ChunksSoFar' /\ dropped' \subseteq MayBeDropped'
  BY <1>2, <1>9 DEF ChunksSoFar, MayBeDropped
<1>11. Writing'
  BY <1>1, <1>2, <1>4, <1>6, <1>10 DEF Writing
<1> QED BY <1>1, <1>2, <1>3, <1>11 DEF FileIInv

\* The data is there, or the writer gives up.
LEMMA AddIDATInv == ASSUME FileIInv, AddIDAT PROVE FileIInv'
<1>1. Writing /\ NothingRead /\ drawing \in Drawings
  BY DEF FileIInv, AddIDAT
<1>2. UNCHANGED <<drawing, written, readerVars>> /\ filePc = "IDAT"
  BY DEF AddIDAT
<1>3. NothingRead'
  BY <1>1, <1>2 DEF NothingRead, readerVars
<1>4. /\ chunks = BeforeData /\ dropped \subseteq {"data", "scanlines", "IHDR", "PLTE"}
      /\ reported = 0 /\ written = 0 /\ drawing.bits \in ValidBits(drawing.type)
      /\ "PLTE" \in dropped => HasPalette
  BY <1>1, <1>2 DEF Writing, ChunksSoFar, MayBeDropped
<1>5. CASE /\ "data" \notin dropped /\ chunks' = Append(chunks, DataChunk)
           /\ filePc' = "IEND" /\ UNCHANGED <<reported, dropped>>
  <2>1. chunks' = WithData' /\ HasPalette' = HasPalette
    BY <1>2, <1>4, <1>5, DrawingStays DEF WithData
  <2>2. dropped' \subseteq {"scanlines", "IHDR", "PLTE"}
    BY <1>4, <1>5
  <2>3. chunks' = ChunksSoFar' /\ dropped' \subseteq MayBeDropped'
    BY <1>5, <2>1, <2>2 DEF ChunksSoFar, MayBeDropped
  <2>4. Writing'
    BY <1>2, <1>4, <1>5, <2>1, <2>3 DEF Writing
  <2> QED BY <1>1, <1>2, <1>3, <1>5, <2>4 DEF FileIInv
<1>6. CASE filePc' = "inspect" /\ UNCHANGED dropped /\ (reported' = 83 \/ "data" \in dropped)
  <2>1. GivenUp'
    BY <1>2, <1>4, <1>6 DEF GivenUp
  <2> QED BY <1>1, <1>2, <1>3, <1>6, <2>1 DEF FileIInv
<1> QED BY <1>5, <1>6 DEF AddIDAT, AddChunk, DataChunk

\* The end chunk is the last one.
LEMMA AddIENDInv == ASSUME FileIInv, AddIEND PROVE FileIInv'
<1>1. Writing /\ NothingRead /\ drawing \in Drawings
  BY DEF FileIInv, AddIEND
<1>2. /\ UNCHANGED <<drawing, reported, written, readerVars>> /\ filePc = "IEND"
      /\ filePc' = "save"
  BY DEF AddIEND
<1>3. NothingRead'
  BY <1>1, <1>2 DEF NothingRead, readerVars
<1>4. chunks = WithData /\ dropped \subseteq {"scanlines", "IHDR", "PLTE"}
  BY <1>1, <1>2 DEF Writing, ChunksSoFar, MayBeDropped
<1>5. \/ chunks' = Append(WithData, EndChunk) /\ dropped' = dropped
      \/ chunks' = WithData /\ dropped' = dropped \cup {"IEND"}
  BY <1>4 DEF AddIEND, AddOrDrop, AddChunk, DropChunk, EndChunk, Chunk
<1>6. /\ HasPalette' = HasPalette /\ HeaderIn' = HeaderIn /\ PaletteIn' = PaletteIn
      /\ PreProcessed' = PreProcessed /\ HeaderData' = HeaderData /\ EndChunk' = EndChunk
      /\ PaletteChunk' = PaletteChunk
  BY <1>2, <1>5 DEF HasPalette, HeaderIn, PaletteIn, PreProcessed, HeaderData, EndChunk, PaletteChunk, Chunk
<1>7. HeaderChunk' = HeaderChunk /\ DataChunk' = DataChunk
  BY <1>2, <1>6 DEF HeaderChunk, DataChunk, ZlibData, Chunk
<1>8. WithData' = WithData
  BY <1>6, <1>7 DEF WithData, BeforeData, HeaderPart
<1>9. chunks' = WholeFile' /\ dropped' \subseteq {"scanlines", "IHDR", "PLTE", "IEND"}
  BY <1>4, <1>5, <1>6, <1>8 DEF WholeFile, EndIn
<1>10. chunks' = ChunksSoFar' /\ dropped' \subseteq MayBeDropped'
  BY <1>2, <1>9 DEF ChunksSoFar, MayBeDropped
<1>11. "PLTE" \in dropped' => HasPalette'
  BY <1>1, <1>2, <1>5, <1>6 DEF Writing
<1>12. Writing'
  BY <1>1, <1>2, <1>10, <1>11 DEF Writing
<1> QED BY <1>1, <1>2, <1>3, <1>12 DEF FileIInv

\* What is written to the disk is the file, or the part that fits.
LEMMA SaveFileInv == ASSUME FileIInv, SaveFile PROVE FileIInv'
<1>1. Writing /\ NothingRead /\ drawing \in Drawings
  BY DEF FileIInv, SaveFile
<1>2. /\ filePc = "save" /\ filePc' = "inspect" /\ written' \in 0..FileSize
      /\ UNCHANGED <<drawing, chunks, reported, dropped, readerVars>>
  BY DEF SaveFile
<1>3. /\ chunks = WholeFile /\ dropped \subseteq {"scanlines", "IHDR", "PLTE", "IEND"}
      /\ reported = 0 /\ drawing.bits \in ValidBits(drawing.type) /\ ("PLTE" \in dropped => HasPalette)
  BY <1>1, <1>2 DEF Writing, ChunksSoFar, MayBeDropped
<1>4. FileSize' = FileSize /\ WholeFile' = WholeFile /\ HasPalette' = HasPalette
  BY <1>2, SizeStays, DrawingStays
<1>5. Saved'
  BY <1>2, <1>3, <1>4 DEF Saved
<1>6. NothingRead'
  BY <1>1, <1>2 DEF NothingRead, readerVars
<1> QED BY <1>1, <1>2, <1>5, <1>6 DEF FileIInv

\* While the reader is at work, what has been saved stays.
LEMMA SavedStays ==
  ASSUME UNCHANGED writerVars
  PROVE  /\ UNCHANGED <<drawing, chunks, reported, dropped, written>> /\ FileSize' = FileSize
         /\ Saved' = Saved /\ GivenUp' = GivenUp /\ Refused' = Refused
<1>1. UNCHANGED <<drawing, chunks, reported, dropped, written>>
  BY DEF writerVars
<1>2. FileSize' = FileSize /\ WholeFile' = WholeFile /\ HasPalette' = HasPalette
  BY <1>1, SizeStays, DrawingStays
<1>3. Saved' = Saved /\ GivenUp' = GivenUp
  BY <1>1, <1>2 DEF Saved, GivenUp
<1> QED BY <1>1, <1>2, <1>3 DEF Refused

\* A reader that gives up leaves the invariant as it is.
LEMMA RefusedInv ==
  ASSUME drawing \in Drawings, UNCHANGED writerVars, filePc' = "done", decodeError' # 0, Refused
  PROVE  FileIInv'
<1>1. Refused' /\ drawing' \in Drawings
  BY SavedStays
<1> QED BY <1>1 DEF FileIInv

\* A file with its header is longer than it.
LEMMA HeaderAndMore ==
  ASSUME drawing \in Drawings, chunks = WholeFile, HeaderIn
  PROVE  FileSize \in Nat /\ FileSize > 32
<1>1. FileSize = IF EndIn THEN AtEnd + 12 ELSE AtEnd
  BY WholeFileEnds
<1>2. /\ AfterHeader = 33 /\ AtEnd \in Nat /\ AtData \in Nat /\ AtEnd > AtData
      /\ AtData >= AfterHeader
  BY Places
<1> QED BY <1>1, <1>2

\* The reader looks at the header.
LEMMA InspectInv == ASSUME FileIInv, Inspect PROVE FileIInv'
<1>1. /\ GivenUp \/ Saved
      /\ NothingRead /\ drawing \in Drawings /\ UNCHANGED <<writerVars, idat, iend, decoded>>
  BY DEF FileIInv, Inspect
<1>2. /\ Saved' = Saved /\ UNCHANGED <<drawing, dropped, chunks, written>>
  BY <1>1, SavedStays
<1>3. ASSUME Saved, written <= 32 \/ ~HeaderIn PROVE Refused
  <2>1. ~HeaderIn => dropped # {}
    BY DEF HeaderIn
  <2>2. HeaderIn => FileSize \in Nat /\ FileSize > 32
    BY <1>1, <1>3, HeaderAndMore DEF Saved
  <2> QED BY <1>3, <2>1, <2>2 DEF Refused
<1>4. CASE InspectEmpty \/ InspectShort \/ InspectNoCrc
  <2>1. written <= 32
    BY <1>4 DEF InspectEmpty, InspectShort, InspectNoCrc
  <2>2. decodeError' # 0 /\ filePc' = "done"
    BY <1>4 DEF InspectEmpty, InspectShort, InspectNoCrc, ReaderFails
  <2>3. Refused
    BY <1>1, <1>3, <2>1 DEF Refused
  <2> QED BY <1>1, <2>2, <2>3, RefusedInv
<1>5. CASE InspectHeader
  <2>1. Saved
    <3>1. written >= 29
      BY <1>5 DEF InspectHeader
    <3>2. ~GivenUp
      BY <3>1 DEF GivenUp
    <3> QED BY <1>1, <3>2
  <2>2. chunks = WholeFile /\ drawing.bits \in ValidBits(drawing.type)
    BY <2>1 DEF Saved
  <2>3. CASE ~HeaderIn
    <3>1. Header.name # "IHDR"
      BY <2>2, <2>3, FirstOfFile DEF Header
    <3>2. decodeError' # 0 /\ filePc' = "done"
      BY <1>5, <3>1 DEF InspectHeader, ReaderFails
    <3> QED BY <1>1, <1>3, <2>1, <2>3, <3>2, RefusedInv
  <2>4. CASE HeaderIn
    <3>1. Header = HeaderChunk
      BY <2>2, <2>4, FirstOfFile DEF Header
    <3>2. /\ Header.name = "IHDR" /\ Header.crc = <<Header.name, Header.data>>
          /\ Header.data = HeaderData /\ HeaderData.bits = drawing.bits /\ HeaderData.type = drawing.type
      BY <3>1 DEF HeaderChunk, Chunk, HeaderData
    <3>3. /\ info' = [header |-> HeaderData, colors |-> 0] /\ chunkAt' = 33
          /\ filePc' = "chunks" /\ UNCHANGED decodeError
      BY <1>5, <2>2, <3>2 DEF InspectHeader
    <3>4. /\ HeaderData' = HeaderData /\ PaletteIn' = PaletteIn /\ HeaderIn' = HeaderIn
          /\ AtData' = AtData /\ AfterHeader' = AfterHeader
      BY <1>2, DrawingStays
    <3>5. InfoWith(0)' /\ chunkAt' = AfterHeader'
      BY <3>3, <3>4 DEF InfoWith, AfterHeader
    <3>6. PaletteIn' \/ (chunkAt' = AtData' /\ AllInfo')
      BY <3>4, <3>5 DEF AllInfo, AtData
    <3>7. idat' = <<>> /\ ~iend' /\ decoded' = Nothing /\ decodeError' = 0
      BY <1>1, <3>3 DEF NothingRead
    <3>8. ReadingChunks'
      BY <1>2, <2>1, <2>4, <3>4, <3>5, <3>6, <3>7 DEF ReadingChunks
    <3> QED BY <1>1, <1>2, <3>3, <3>8 DEF FileIInv
  <2> QED BY <2>3, <2>4
<1> QED BY <1>4, <1>5 DEF Inspect

\* Where the reader is, and what it finds there.
LEMMA ReaderAt ==
  ASSUME ReadingChunks, drawing \in Drawings, ~iend
  PROVE  \/ /\ PaletteIn /\ chunkAt = AfterHeader /\ idat = <<>> /\ InfoWith(0)
            /\ chunks[ChunkNo] = PaletteChunk
         \/ /\ chunkAt = AtData /\ idat = <<>> /\ AllInfo
            /\ chunks[ChunkNo] = DataChunk
         \/ /\ chunkAt = AtEnd /\ idat = <<ZlibData>> /\ AllInfo
            /\ EndIn => chunks[ChunkNo] = EndChunk /\ FileSize = AtEnd + 12
            /\ ~EndIn => FileSize = AtEnd
<1>1. chunks = WholeFile /\ HeaderIn
  BY DEF ReadingChunks, Saved
<1>2. FileSize = IF EndIn THEN AtEnd + 12 ELSE AtEnd
  BY <1>1, WholeFileEnds
<1> QED BY <1>1, <1>2, ChunkFound DEF ReadingChunks

\* A file that ends before its chunks do is refused.
LEMMA ReadCutChunkInv == ASSUME FileIInv, ReadCutChunk PROVE FileIInv'
<1>1. ReadingChunks /\ drawing \in Drawings /\ ~iend /\ decodeError' # 0 /\ filePc' = "done"
  BY DEF FileIInv, ReadCutChunk, ReaderFails
<1>2. UNCHANGED writerVars
  BY DEF ReadCutChunk
<1>3. Saved /\ chunks = WholeFile /\ HeaderIn
  BY <1>1 DEF ReadingChunks, Saved
<1>4. written # FileSize \/ dropped # {}
  <2> DEFINE c == chunks[ChunkNo]
  <2> SUFFICES ASSUME dropped = {} PROVE written # FileSize
    OBVIOUS
  <2>1. EndIn /\ (HasPalette <=> PaletteIn) /\ FileSize = AtEnd + 12
    <3>1. EndIn /\ (HasPalette <=> PaletteIn)
      BY DEF EndIn, PaletteIn
    <3> QED BY <1>1, <1>3, <3>1, WholeFileEnds
  <2>2. chunkAt + 12 > written \/ chunkAt + c.size + 12 > written
    BY DEF ReadCutChunk, NoRoomForChunk, CutChunk
  <2>3. \/ PaletteIn /\ chunkAt = AfterHeader /\ c.size = 3 * drawing.palettesize
        \/ chunkAt = AtData /\ c.size = drawing.zsize + 6
        \/ chunkAt = AtEnd /\ c.size = 0
    BY <1>1, <2>1, ReaderAt, ChunkContents
  <2> HIDE DEF c
  <2> DEFINE p == drawing.palettesize
             z == drawing.zsize
  <2>4. p \in Nat /\ z \in Nat
    BY <1>1, DrawingSizes
  <2>5. /\ AfterHeader = 33
        /\ PaletteIn => AtData = 45 + 3 * p
        /\ AtData \in Nat /\ AtEnd = AtData + z + 18
    BY <1>1, Places
  <2>6. \/ PaletteIn /\ chunkAt = AfterHeader /\ c.size = 3 * p
        \/ chunkAt = AtData /\ c.size = z + 6
        \/ chunkAt = AtEnd /\ c.size = 0
    BY <2>3
  <2> HIDE DEF p, z
  <2>7. CASE PaletteIn /\ chunkAt = AfterHeader /\ c.size = 3 * p
    BY <2>1, <2>2, <2>4, <2>5, <2>7
  <2>8. CASE chunkAt = AtData /\ c.size = z + 6
    BY <2>1, <2>2, <2>4, <2>5, <2>8
  <2>9. CASE chunkAt = AtEnd /\ c.size = 0
    BY <2>1, <2>2, <2>4, <2>5, <2>9
  <2> QED BY <2>6, <2>7, <2>8, <2>9
<1>5. Refused
  BY <1>3, <1>4 DEF Refused
<1> QED BY <1>1, <1>2, <1>5, RefusedInv

\* A whole chunk is taken, and the reader goes on to the next one.
LEMMA ReadChunkInv == ASSUME FileIInv, ReadChunk PROVE FileIInv'
<1> DEFINE c == chunks[ChunkNo]
<1>1. ReadingChunks /\ drawing \in Drawings /\ ~iend
  BY DEF FileIInv, ReadChunk
<1>2. UNCHANGED <<writerVars, decoded>>
  BY DEF ReadChunk
<1>3. /\ Saved' /\ FileSize' = FileSize /\ UNCHANGED <<drawing, dropped, written>>
      /\ decoded' = Nothing /\ decodeError = 0 /\ HeaderIn
  BY <1>1, <1>2, SavedStays DEF ReadingChunks
<1>4. /\ HeaderIn' = HeaderIn /\ PaletteIn' = PaletteIn /\ EndIn' = EndIn
      /\ AfterHeader' = AfterHeader /\ AtData' = AtData /\ AtEnd' = AtEnd
      /\ HeaderData' = HeaderData /\ ZlibData' = ZlibData
  BY <1>3, DrawingStays
<1>5. /\ iend' = (c.name = "IEND")
      /\ idat' = IF c.name = "IDAT" THEN Append(idat, c.data) ELSE idat
      /\ info' = IF c.name = "PLTE" THEN [info EXCEPT !.colors = c.size \div 3] ELSE info
      /\ IF c.crc # <<c.name, c.data>> THEN ReaderFails(57)
         ELSE IF c.name = "PLTE" /\ c.size \div 3 > 256 THEN ReaderFails(38)
         ELSE UNCHANGED <<filePc, decodeError>>
      /\ chunkAt' = IF iend' THEN chunkAt ELSE chunkAt + c.size + 12
      /\ ~(chunkAt + 12 > written) /\ filePc = "chunks"
  BY DEF ReadChunk, NoRoomForChunk
<1>6. ASSUME UNCHANGED <<filePc, decodeError>>, ReadingChunks' PROVE FileIInv'
  BY <1>1, <1>3, <1>5, <1>6 DEF FileIInv
<1>7. CASE PaletteIn /\ chunkAt = AfterHeader /\ idat = <<>> /\ InfoWith(0) /\ c = PaletteChunk
  <2> DEFINE p == drawing.palettesize
  <2>1. p \in 0..256 /\ AtData = 45 + 3 * p /\ AfterHeader = 33
    BY <1>1, <1>7, Places, DrawingSizes
  <2>2. c.name = "PLTE" /\ c.crc = <<c.name, c.data>> /\ c.size = 3 * p
    BY <1>1, <1>7, ChunkContents
  <2> HIDE DEF c
  <2>3. info' = [info EXCEPT !.colors = p]
    <3> HIDE DEF p
    <3>1. c.size \div 3 = p
      BY <2>1, <2>2
    <3> QED BY <1>5, <2>2, <3>1
  <2>4. UNCHANGED <<filePc, decodeError>> /\ ~iend' /\ idat' = <<>> /\ chunkAt' = AtData
    <3> HIDE DEF p
    <3>1. ~(c.size \div 3 > 256) /\ 33 + c.size + 12 = AtData
      BY <2>1, <2>2
    <3>2. ~iend' /\ idat' = idat /\ chunkAt' = chunkAt + c.size + 12
      BY <1>5, <2>2
    <3> QED BY <1>5, <1>7, <2>1, <2>2, <3>1, <3>2
  <2>5. AllInfo'
    BY <1>3, <1>4, <1>7, <2>3 DEF AllInfo, InfoWith
  <2>6. ReadingChunks'
    BY <1>3, <1>4, <2>4, <2>5 DEF ReadingChunks
  <2> QED BY <1>6, <2>4, <2>6
<1>8. CASE chunkAt = AtData /\ idat = <<>> /\ AllInfo /\ c = DataChunk
  <2>1. /\ c.name = "IDAT" /\ c.crc = <<c.name, c.data>> /\ c.size = drawing.zsize + 6
        /\ c.data = ZlibData
    BY <1>1, <1>8, ChunkContents
  <2> HIDE DEF c
  <2>2. ~iend' /\ UNCHANGED <<filePc, decodeError, info>> /\ chunkAt' = chunkAt + c.size + 12
    BY <1>5, <2>1
  <2>3. idat' = <<ZlibData>>
    BY <1>5, <1>8, <2>1
  <2>4. chunkAt' = AtEnd
    BY <1>1, <1>8, <2>1, <2>2, Places, DrawingSizes
  <2>5. AllInfo'
    BY <1>3, <1>4, <1>8, <2>2 DEF AllInfo, InfoWith
  <2>6. ReadingChunks'
    BY <1>3, <1>4, <2>2, <2>3, <2>4, <2>5 DEF ReadingChunks
  <2> QED BY <1>6, <2>2, <2>6
<1>9. CASE /\ chunkAt = AtEnd /\ idat = <<ZlibData>> /\ AllInfo
           /\ EndIn => c = EndChunk /\ FileSize = AtEnd + 12
           /\ ~EndIn => FileSize = AtEnd
  <2>1. written \in 0..FileSize /\ AtEnd \in Nat /\ ~(AtEnd + 12 > written)
    BY <1>1, <1>5, <1>9, Places DEF ReadingChunks, Saved
  <2>2. EndIn /\ FileSize = AtEnd + 12 /\ c = EndChunk
    <3>1. CASE ~EndIn
      BY <1>9, <2>1, <3>1
    <3> QED BY <1>9, <3>1
  <2>3. c.name = "IEND" /\ c.crc = <<c.name, c.data>>
    BY <1>1, <2>2, ChunkContents
  <2> HIDE DEF c
  <2>4. iend' /\ UNCHANGED <<idat, filePc, decodeError, info, chunkAt>>
    BY <1>5, <2>3
  <2>5. AllInfo'
    BY <1>3, <1>4, <1>9, <2>4 DEF AllInfo, InfoWith
  <2>6. written = FileSize
    BY <2>1, <2>2
  <2>7. ReadingChunks'
    BY <1>3, <1>4, <1>9, <2>2, <2>4, <2>5, <2>6 DEF ReadingChunks
  <2> QED BY <1>6, <2>4, <2>7
<1> QED BY <1>1, <1>7, <1>8, <1>9, ReaderAt

\* The reader leaves its loop at the end chunk only.
LEMMA ChunksReadInv == ASSUME FileIInv, ChunksRead PROVE FileIInv'
<1>1. /\ ReadingChunks /\ drawing \in Drawings /\ iend /\ filePc' = "inflate"
      /\ UNCHANGED <<writerVars, idat, info>>
  BY DEF FileIInv, ChunksRead, readerVars
<1>2. AllRead
  BY <1>1 DEF ReadingChunks, AllRead
<1>3. AllRead'
  BY <1>1, <1>2, SavedStays, DrawingStays DEF AllRead, AllInfo, InfoWith
<1> QED BY <1>1, <1>3, SavedStays DEF FileIInv

\* The two bytes in front of the compressed data are right.
LEMMA CMFFLGIs == CMFFLG = 30721
BY DEF CMFFLG, CMF

\* What it decompresses are the scanlines; without a palette it gives up.
LEMMA DecompressInv == ASSUME FileIInv, Decompress PROVE FileIInv'
<1>1. /\ AllRead /\ drawing \in Drawings /\ filePc' = "done"
      /\ UNCHANGED <<writerVars, idat, info>>
  BY DEF FileIInv, Decompress
<1>2. UNCHANGED <<drawing, dropped>> /\ AllRead'
  BY <1>1, SavedStays, DrawingStays DEF AllRead, AllInfo, InfoWith
<1>3. idat = <<ZlibData>>
  BY <1>1 DEF AllRead
<1>4. idat # <<>> /\ idat[1] = ZlibData
  BY <1>3
<1>5. /\ ZlibData.cmfflg = CMFFLG /\ ZlibData.scanlines = PreProcessed
      /\ ZlibData.adler = <<"adler", ZlibData.scanlines>>
      /\ PreProcessed.filtered = ("scanlines" \notin dropped)
  BY DEF ZlibData, PreProcessed
<1> DEFINE colors == IF info.header.type = "palette" /\ info.colors = 0 THEN 47 ELSE 0
<1>6. /\ decodeError' = colors \/ ("scanlines" \in dropped /\ decodeError' = 36)
      /\ decoded' = IF decodeError' = 0 THEN PreProcessed ELSE Nothing
  <2> DEFINE n == CMFFLG
  <2>1. /\ idat[1].cmfflg = n /\ idat[1].adler = <<"adler", idat[1].scanlines>>
        /\ idat[1].scanlines = PreProcessed
        /\ idat[1].scanlines.filtered = ("scanlines" \notin dropped)
    BY <1>4, <1>5
  <2>2. n % 31 = 0 /\ (n \div 256) % 16 = 8 /\ ~((n \div 256) \div 16 > 7) /\ ((n % 256) \div 32) % 2 = 0
    BY CMFFLGIs
  <2> HIDE DEF n
  <2> QED BY <1>4, <2>1, <2>2 DEF Decompress
<1>7. "PLTE" \in dropped => colors # 0
  <2>1. ASSUME "PLTE" \in dropped PROVE info.header.type = "palette" /\ info.colors = 0
    <3>1. HasPalette /\ ~PaletteIn
      BY <1>1, <2>1 DEF AllRead, Saved, PaletteIn
    <3> QED BY <1>1, <3>1 DEF AllRead, AllInfo, InfoWith, HeaderData, HasPalette
  <2> QED BY <2>1
<1>8. "PLTE" \notin dropped => colors = 0
  <2>1. ASSUME "PLTE" \notin dropped, info.header.type = "palette" PROVE info.colors # 0
    <3>1. info.header.type = drawing.type
      BY <1>1 DEF AllRead, AllInfo, InfoWith, HeaderData
    <3>2. HasPalette /\ PaletteIn
      BY <2>1, <3>1 DEF PaletteIn, HasPalette
    <3> QED BY <1>1, <3>2, DrawingSizes DEF AllRead, AllInfo, InfoWith
  <2> QED BY <2>1
<1> HIDE DEF colors
<1>9. CASE decodeError' = 0
  <2>1. "PLTE" \notin dropped /\ decoded' = PreProcessed
    BY <1>6, <1>7, <1>9
  <2>2. "PLTE" \notin dropped' /\ decoded' = PreProcessed'
    BY <1>2, <2>1, DrawingStays
  <2> QED BY <1>1, <1>2, <1>9, <2>2 DEF FileIInv
<1>10. CASE decodeError' # 0
  <2>1. dropped # {}
    BY <1>6, <1>8, <1>10
  <2>2. Refused
    BY <1>1, <2>1 DEF AllRead, Refused
  <2> QED BY <1>1, <1>10, <2>2, RefusedInv
<1> QED BY <1>9, <1>10

\* One step of the writer of the file, or of its reader.
LEMMA FileStepInv == ASSUME FileIInv, [FileNext]_fileVars PROVE FileIInv'
<1>1. CASE UNCHANGED fileVars
  <2>1. UNCHANGED <<filePc, writerVars, chunkAt, info, idat, iend, decoded, decodeError>>
    BY <1>1 DEF fileVars, readerVars
  <2>2. UNCHANGED <<drawing, chunks, reported, dropped, written>>
    BY <2>1, SavedStays
  <2>3. ChunksSoFar' = ChunksSoFar /\ MayBeDropped' = MayBeDropped
    BY <2>1, <2>2, DrawingStays DEF ChunksSoFar, MayBeDropped
  <2>4. Writing' = Writing /\ NothingRead' = NothingRead
    BY <2>1, <2>2, <2>3, DrawingStays DEF Writing, NothingRead
  <2>5. ReadingChunks' = ReadingChunks /\ AllRead' = AllRead
    BY <2>1, <2>2, SavedStays, DrawingStays DEF ReadingChunks, AllRead, AllInfo, InfoWith
  <2> QED BY <2>1, <2>2, <2>4, <2>5, SavedStays, DrawingStays DEF FileIInv
<1> QED BY <1>1, CheckSettingsInv, PreProcessScanlinesInv, AddIHDRInv, AddPLTEInv, AddIDATInv,
       AddIENDInv, SaveFileInv, InspectInv, ReadCutChunkInv, ReadChunkInv, ChunksReadInv,
       DecompressInv DEF FileNext

\* The invariant says what the property does.
LEMMA FileInvHolds == FileIInv => WholeOrRefused
<1> SUFFICES ASSUME FileIInv PROVE WholeOrRefused
  OBVIOUS
<1>1. reported # 0 => written = 0
  BY DEF FileIInv, Writing, GivenUp, Saved, ReadingChunks, AllRead, Refused
<1>2. ASSUME filePc = "done", decodeError = 0
      PROVE  /\ reported = 0 /\ written = FileSize /\ dropped \subseteq {"scanlines"}
             /\ "scanlines" \notin dropped => ShowsPicture
  <2>1. AllRead /\ "PLTE" \notin dropped /\ decoded = PreProcessed /\ drawing \in Drawings
    BY <1>2 DEF FileIInv
  <2>2. reported = 0 /\ written = FileSize /\ dropped \subseteq {"scanlines"}
    BY <2>1 DEF AllRead, Saved, HeaderIn, EndIn
  <2>3. (IF PaletteIn THEN drawing.palettesize ELSE 0) = drawing.palettesize
    BY <2>1, DrawingSizes DEF PaletteIn
  <2>4. /\ info.colors = drawing.palettesize
        /\ info.header.type = drawing.type /\ info.header.bits = drawing.bits
    BY <2>1, <2>3 DEF AllRead, AllInfo, InfoWith, HeaderData
  <2>5. "scanlines" \notin dropped => decoded = [of |-> drawing, filtered |-> TRUE]
    BY <2>1 DEF PreProcessed
  <2> QED BY <1>2, <2>2, <2>4, <2>5 DEF ShowsPicture
<1>3. ASSUME filePc = "done", dropped = {}, reported = 0, written = FileSize PROVE decodeError = 0
  BY <1>3 DEF FileIInv, Refused, GivenUp
<1> QED BY <1>1, <1>2, <1>3 DEF WholeOrRefused

\* No file but a whole one is taken for a picture, and with an error reported
\* there is none: whatever the picture, its palette and the size of its data.
THEOREM FileWholeOrRefused == FileSpec => []WholeOrRefused
<1>1. FileInit => FileIInv
  BY FileStartInv DEF FileInit
<1> QED BY <1>1, FileStepInv, FileInvHolds, PTL DEF FileSpec

-----------------------------------------------------------------------------
\* The pixels.

\* What one in each place of a byte weighs, from the highest.
PlaceWeight(bits, r) ==
  CASE bits = 1 -> <<128, 64, 32, 16, 8, 4, 2, 1>>[r + 1]
    [] bits = 2 -> <<64, 16, 4, 1>>[r + 1]
    [] bits = 4 -> <<16, 1>>[r + 1]
    [] OTHER -> 1

\* The powers of two that take part.
LEMMA PowersOfTwo ==
  /\ 2^0 = 1 /\ 2^1 = 2 /\ 2^2 = 4 /\ 2^3 = 8 /\ 2^4 = 16
  /\ 2^5 = 32 /\ 2^6 = 64 /\ 2^7 = 128 /\ 2^8 = 256
OBVIOUS

\* The weight of a place is the power of two the code shifts by.
LEMMA PlaceWeightIs ==
  ASSUME NEW bits \in {1, 2, 4, 8}, NEW r \in 0..(8 \div bits) - 1
  PROVE  2^(8 - bits - r * bits) = PlaceWeight(bits, r)
<1> DEFINE e == 8 - bits - r * bits
<1>1. CASE bits = 1
  <2>1. e = 7 - r /\ r \in 0..7
    BY <1>1
  <2> HIDE DEF e
  <2>2. \/ r = 0 /\ e = 7
        \/ r = 1 /\ e = 6
        \/ r = 2 /\ e = 5
        \/ r = 3 /\ e = 4
        \/ r = 4 /\ e = 3
        \/ r = 5 /\ e = 2
        \/ r = 6 /\ e = 1
        \/ r = 7 /\ e = 0
    BY <2>1
  <2>3. PlaceWeight(bits, r) = <<128, 64, 32, 16, 8, 4, 2, 1>>[r + 1]
    BY <1>1 DEF PlaceWeight
  <2>4. 2^e = <<128, 64, 32, 16, 8, 4, 2, 1>>[r + 1]
    <3>1. r = 0 /\ e = 7 => 2^e = <<128, 64, 32, 16, 8, 4, 2, 1>>[r + 1] OBVIOUS
    <3>2. r = 1 /\ e = 6 => 2^e = <<128, 64, 32, 16, 8, 4, 2, 1>>[r + 1] OBVIOUS
    <3>3. r = 2 /\ e = 5 => 2^e = <<128, 64, 32, 16, 8, 4, 2, 1>>[r + 1] OBVIOUS
    <3>4. r = 3 /\ e = 4 => 2^e = <<128, 64, 32, 16, 8, 4, 2, 1>>[r + 1] OBVIOUS
    <3>5. r = 4 /\ e = 3 => 2^e = <<128, 64, 32, 16, 8, 4, 2, 1>>[r + 1] OBVIOUS
    <3>6. r = 5 /\ e = 2 => 2^e = <<128, 64, 32, 16, 8, 4, 2, 1>>[r + 1] OBVIOUS
    <3>7. r = 6 /\ e = 1 => 2^e = <<128, 64, 32, 16, 8, 4, 2, 1>>[r + 1] OBVIOUS
    <3>8. r = 7 /\ e = 0 => 2^e = <<128, 64, 32, 16, 8, 4, 2, 1>>[r + 1] OBVIOUS
    <3> QED BY <2>2, <3>1, <3>2, <3>3, <3>4, <3>5, <3>6, <3>7, <3>8
  <2> QED BY <2>3, <2>4 DEF e
<1>2. CASE bits = 2
  <2>1. e = 6 - 2 * r /\ r \in 0..3
    BY <1>2
  <2> HIDE DEF e
  <2>2. \/ r = 0 /\ e = 6
        \/ r = 1 /\ e = 4
        \/ r = 2 /\ e = 2
        \/ r = 3 /\ e = 0
    BY <2>1
  <2>3. PlaceWeight(bits, r) = <<64, 16, 4, 1>>[r + 1]
    BY <1>2 DEF PlaceWeight
  <2>4. 2^e = <<64, 16, 4, 1>>[r + 1]
    <3>1. r = 0 /\ e = 6 => 2^e = <<64, 16, 4, 1>>[r + 1] OBVIOUS
    <3>2. r = 1 /\ e = 4 => 2^e = <<64, 16, 4, 1>>[r + 1] OBVIOUS
    <3>3. r = 2 /\ e = 2 => 2^e = <<64, 16, 4, 1>>[r + 1] OBVIOUS
    <3>4. r = 3 /\ e = 0 => 2^e = <<64, 16, 4, 1>>[r + 1] OBVIOUS
    <3> QED BY <2>2, <3>1, <3>2, <3>3, <3>4
  <2> QED BY <2>3, <2>4 DEF e
<1>3. CASE bits = 4
  <2>1. e = 4 - 4 * r /\ r \in 0..1
    BY <1>3
  <2> HIDE DEF e
  <2>2. \/ r = 0 /\ e = 4
        \/ r = 1 /\ e = 0
    BY <2>1
  <2>3. PlaceWeight(bits, r) = <<16, 1>>[r + 1]
    BY <1>3 DEF PlaceWeight
  <2>4. 2^e = <<16, 1>>[r + 1]
    <3>1. r = 0 /\ e = 4 => 2^e = <<16, 1>>[r + 1] OBVIOUS
    <3>2. r = 1 /\ e = 0 => 2^e = <<16, 1>>[r + 1] OBVIOUS
    <3> QED BY <2>2, <3>1, <3>2
  <2> QED BY <2>3, <2>4 DEF e
<1>4. CASE bits = 8
  <2>1. e = 0
    <3>1. 8 \div bits = 1
      BY <1>4
    <3>2. r = 0
      BY <3>1
    <3> QED BY <1>4, <3>2
  <2> HIDE DEF e
  <2>2. 2^e = PlaceWeight(bits, r)
    BY <2>1, <1>4, PowersOfTwo DEF PlaceWeight
  <2> QED BY <2>2 DEF e
<1> QED BY <1>1, <1>2, <1>3, <1>4

\* The byte of a value and its place in it.
LEMMA PlaceOf ==
  ASSUME NEW bits \in {1, 2, 4, 8}, NEW i \in Nat
  PROVE  /\ 8 \div bits \in 1..8 /\ i % (8 \div bits) \in 0..(8 \div bits) - 1
         /\ i \div (8 \div bits) \in Nat
         /\ i = (8 \div bits) * (i \div (8 \div bits)) + (i % (8 \div bits))
         /\ (i * bits) \div 8 = i \div (8 \div bits)
         /\ (i * bits) % 8 = (i % (8 \div bits)) * bits
<1>1. CASE bits = 1
  <2>1. 8 \div bits = 8 /\ i * bits = 1 * i /\ (i % 8) * bits = 1 * (i % 8)
    BY <1>1
  <2>2. /\ i % 8 \in 0..7 /\ i \div 8 \in Nat /\ i = 8 * (i \div 8) + (i % 8)
    OBVIOUS
  <2>3. (1 * i) \div 8 = i \div 8 /\ (1 * i) % 8 = 1 * (i % 8)
    <3> DEFINE k == i \div 8
               r == i % 8
    <3>1. k \in Nat /\ r \in 0..7 /\ 1 * i = 8 * k + 1 * r
      BY <2>2
    <3> HIDE DEF k, r
    <3>2. (8 * k + 1 * r) \div 8 = k /\ (8 * k + 1 * r) % 8 = 1 * r
      BY <3>1
    <3> QED BY <3>1, <3>2 DEF k, r
  <2> QED BY <2>1, <2>2, <2>3
<1>2. CASE bits = 2
  <2>1. 8 \div bits = 4 /\ i * bits = 2 * i /\ (i % 4) * bits = 2 * (i % 4)
    BY <1>2
  <2>2. /\ i % 4 \in 0..3 /\ i \div 4 \in Nat /\ i = 4 * (i \div 4) + (i % 4)
    OBVIOUS
  <2>3. (2 * i) \div 8 = i \div 4 /\ (2 * i) % 8 = 2 * (i % 4)
    <3> DEFINE k == i \div 4
               r == i % 4
    <3>1. k \in Nat /\ r \in 0..3 /\ 2 * i = 8 * k + 2 * r
      BY <2>2
    <3> HIDE DEF k, r
    <3>2. (8 * k + 2 * r) \div 8 = k /\ (8 * k + 2 * r) % 8 = 2 * r
      BY <3>1
    <3> QED BY <3>1, <3>2 DEF k, r
  <2> QED BY <2>1, <2>2, <2>3
<1>3. CASE bits = 4
  <2>1. 8 \div bits = 2 /\ i * bits = 4 * i /\ (i % 2) * bits = 4 * (i % 2)
    BY <1>3
  <2>2. /\ i % 2 \in 0..1 /\ i \div 2 \in Nat /\ i = 2 * (i \div 2) + (i % 2)
    OBVIOUS
  <2>3. (4 * i) \div 8 = i \div 2 /\ (4 * i) % 8 = 4 * (i % 2)
    <3> DEFINE k == i \div 2
               r == i % 2
    <3>1. k \in Nat /\ r \in 0..1 /\ 4 * i = 8 * k + 4 * r
      BY <2>2
    <3> HIDE DEF k, r
    <3>2. (8 * k + 4 * r) \div 8 = k /\ (8 * k + 4 * r) % 8 = 4 * r
      BY <3>1
    <3> QED BY <3>1, <3>2 DEF k, r
  <2> QED BY <2>1, <2>2, <2>3
<1>4. CASE bits = 8
  <2>1. 8 \div bits = 1 /\ i * bits = 8 * i /\ (i % 1) * bits = 8 * (i % 1)
    BY <1>4
  <2>2. /\ i % 1 \in 0..0 /\ i \div 1 \in Nat /\ i = 1 * (i \div 1) + (i % 1)
    OBVIOUS
  <2>3. (8 * i) \div 8 = i \div 1 /\ (8 * i) % 8 = 8 * (i % 1)
    <3> DEFINE k == i \div 1
               r == i % 1
    <3>1. k \in Nat /\ r \in 0..0 /\ 8 * i = 8 * k + 8 * r
      BY <2>2
    <3> HIDE DEF k, r
    <3>2. (8 * k + 8 * r) \div 8 = k /\ (8 * k + 8 * r) % 8 = 8 * r
      BY <3>1
    <3> QED BY <3>1, <3>2 DEF k, r
  <2> QED BY <2>1, <2>2, <2>3
<1> QED BY <1>1, <1>2, <1>3, <1>4

\* addColorBits opens a new byte or fills up the last one.
BitsFilled(bytes, i, bits, v) ==
  LET place == i % (8 \div bits)
  IN  IF place = 0 THEN Append(bytes, v * PlaceWeight(bits, place))
                   ELSE [bytes EXCEPT ![Len(bytes)] = @ + v * PlaceWeight(bits, place)]

\* So much is left of its arithmetic.
LEMMA AddColorBitsIs ==
  ASSUME NEW bits \in {1, 2, 4, 8}, NEW bytes, NEW i \in Nat, NEW v \in 0..2^bits - 1
  PROVE  AddColorBits(bytes, i, bits, v) = BitsFilled(bytes, i, bits, v)
<1> DEFINE per == 8 \div bits
           place == i % per
<1>1. place \in 0..per - 1
  BY PlaceOf
<1>2. bits * (per - place - 1) = 8 - bits - place * bits
  <2>1. CASE bits = 1 BY <2>1, <1>1
  <2>2. CASE bits = 2 BY <2>2, <1>1
  <2>3. CASE bits = 4 BY <2>3, <1>1
  <2>4. CASE bits = 8 BY <2>4, <1>1
  <2> QED BY <2>1, <2>2, <2>3, <2>4
<1>3. v % 2^bits = v
  BY PowersOfTwo
<1>4. 2^(bits * (per - place - 1)) = PlaceWeight(bits, place)
  <2> HIDE DEF place
  <2> QED BY <1>1, <1>2, PlaceWeightIs
<1> QED BY <1>3, <1>4 DEF AddColorBits, BitsFilled

\* And the reader looks into the same place.
LEMMA ReversedBitsIs ==
  ASSUME NEW bits \in {1, 2, 4, 8}, NEW bytes, NEW i \in Nat
  PROVE  ReversedBits(bytes, i, bits) =
           (bytes[i \div (8 \div bits) + 1] \div PlaceWeight(bits, i % (8 \div bits))) % 2^bits
<1> DEFINE per == 8 \div bits
           place == i % per
<1>1. place \in 0..per - 1 /\ (i * bits) \div 8 = i \div per /\ (i * bits) % 8 = place * bits
  BY PlaceOf
<1>2. 2^(8 - bits - place * bits) = PlaceWeight(bits, place)
  <2> HIDE DEF place
  <2> QED BY <1>1, PlaceWeightIs
<1> QED BY <1>1, <1>2 DEF ReversedBits

-----------------------------------------------------------------------------
\* A value that goes into the first free place of a byte can be read back from
\* there, the values before it as well, and what is after it stays clear.
LEMMA PlaceFilled ==
  ASSUME NEW bits \in {1, 2, 4, 8}, NEW r \in 0..(8 \div bits) - 1, NEW b \in Nat, NEW x \in 0..2^bits - 1,
         r = 0 => b = 0, r # 0 => b % PlaceWeight(bits, r - 1) = 0
  PROVE  LET c == b + x * PlaceWeight(bits, r)
         IN  /\ c \in Nat /\ c % PlaceWeight(bits, r) = 0
             /\ (c \div PlaceWeight(bits, r)) % 2^bits = x
             /\ \A s \in 0..r - 1 : c \div PlaceWeight(bits, s) = b \div PlaceWeight(bits, s)
<1>1. CASE bits = 1
  <2>1. r \in 0..7 /\ x \in 0..1 /\ 2^bits = 2
    BY <1>1, PowersOfTwo
  <2>2. PlaceWeight(bits, 0) = 128 /\ PlaceWeight(bits, 1) = 64 /\ PlaceWeight(bits, 2) = 32 /\ PlaceWeight(bits, 3) = 16 /\ PlaceWeight(bits, 4) = 8 /\ PlaceWeight(bits, 5) = 4 /\ PlaceWeight(bits, 6) = 2 /\ PlaceWeight(bits, 7) = 1
    BY <1>1 DEF PlaceWeight
  <2>3. CASE r = 0
    <3>1. PlaceWeight(bits, r) = 128 /\ b + x * PlaceWeight(bits, r) = 128 * x
      BY <2>1, <2>2, <2>3
    <3>2. 128 * x \in Nat /\ (128 * x) \div 128 = x
      BY <2>1
    <3>3. (128 * x) % 128 = 0
      BY <2>1
    <3>4. x % 2 = x
      <4>1. x \in 0..1
        BY <2>1
      <4> QED BY ONLY <4>1
    <3> QED BY <2>1, <2>3, <3>1, <3>2, <3>3, <3>4
  <2>4. CASE r = 1
    <3>1. PlaceWeight(bits, r) = 64 /\ b % 128 = 0
      BY <2>2, <2>4
    <3> DEFINE c == b + x * 64
    <3>2. c \in Nat /\ c % 64 = 0 /\ (c \div 64) % 2 = x
      BY <2>1, <3>1
    <3>3. c \div 128 = b \div 128
      BY <2>1, <3>1
    <3> HIDE DEF c
    <3>4. \A s \in 0..r - 1 : c \div PlaceWeight(bits, s) = b \div PlaceWeight(bits, s)
      <4> TAKE s \in 0..r - 1
      <4>1. s = 0
        BY <2>4
      <4> QED BY <4>1, <2>2, <3>3
    <3> QED BY <2>1, <3>1, <3>2, <3>4 DEF c
  <2>5. CASE r = 2
    <3>1. PlaceWeight(bits, r) = 32 /\ b % 64 = 0
      BY <2>2, <2>5
    <3> DEFINE c == b + x * 32
    <3>2. c \in Nat /\ c % 32 = 0 /\ (c \div 32) % 2 = x
      BY <2>1, <3>1
    <3>3. c \div 128 = b \div 128 /\ c \div 64 = b \div 64
      BY <2>1, <3>1
    <3> HIDE DEF c
    <3>4. \A s \in 0..r - 1 : c \div PlaceWeight(bits, s) = b \div PlaceWeight(bits, s)
      <4> TAKE s \in 0..r - 1
      <4>1. s = 0 \/ s = 1
        BY <2>5
      <4> QED BY <4>1, <2>2, <3>3
    <3> QED BY <2>1, <3>1, <3>2, <3>4 DEF c
  <2>6. CASE r = 3
    <3>1. PlaceWeight(bits, r) = 16 /\ b % 32 = 0
      BY <2>2, <2>6
    <3> DEFINE c == b + x * 16
    <3>2. c \in Nat /\ c % 16 = 0 /\ (c \div 16) % 2 = x
      BY <2>1, <3>1
    <3>3. c \div 128 = b \div 128 /\ c \div 64 = b \div 64 /\ c \div 32 = b \div 32
      BY <2>1, <3>1
    <3> HIDE DEF c
    <3>4. \A s \in 0..r - 1 : c \div PlaceWeight(bits, s) = b \div PlaceWeight(bits, s)
      <4> TAKE s \in 0..r - 1
      <4>1. s = 0 \/ s = 1 \/ s = 2
        BY <2>6
      <4> QED BY <4>1, <2>2, <3>3
    <3> QED BY <2>1, <3>1, <3>2, <3>4 DEF c
  <2>7. CASE r = 4
    <3>1. PlaceWeight(bits, r) = 8 /\ b % 16 = 0
      BY <2>2, <2>7
    <3> DEFINE c == b + x * 8
    <3>2. c \in Nat /\ c % 8 = 0 /\ (c \div 8) % 2 = x
      BY <2>1, <3>1
    <3>3. c \div 128 = b \div 128 /\ c \div 64 = b \div 64 /\ c \div 32 = b \div 32 /\ c \div 16 = b \div 16
      BY <2>1, <3>1
    <3> HIDE DEF c
    <3>4. \A s \in 0..r - 1 : c \div PlaceWeight(bits, s) = b \div PlaceWeight(bits, s)
      <4> TAKE s \in 0..r - 1
      <4>1. s = 0 \/ s = 1 \/ s = 2 \/ s = 3
        BY <2>7
      <4> QED BY <4>1, <2>2, <3>3
    <3> QED BY <2>1, <3>1, <3>2, <3>4 DEF c
  <2>8. CASE r = 5
    <3>1. PlaceWeight(bits, r) = 4 /\ b % 8 = 0
      BY <2>2, <2>8
    <3> DEFINE c == b + x * 4
    <3>2. c \in Nat /\ c % 4 = 0 /\ (c \div 4) % 2 = x
      BY <2>1, <3>1
    <3>3. c \div 128 = b \div 128 /\ c \div 64 = b \div 64 /\ c \div 32 = b \div 32 /\ c \div 16 = b \div 16 /\ c \div 8 = b \div 8
      BY <2>1, <3>1
    <3> HIDE DEF c
    <3>4. \A s \in 0..r - 1 : c \div PlaceWeight(bits, s) = b \div PlaceWeight(bits, s)
      <4> TAKE s \in 0..r - 1
      <4>1. s = 0 \/ s = 1 \/ s = 2 \/ s = 3 \/ s = 4
        BY <2>8
      <4> QED BY <4>1, <2>2, <3>3
    <3> QED BY <2>1, <3>1, <3>2, <3>4 DEF c
  <2>9. CASE r = 6
    <3>1. PlaceWeight(bits, r) = 2 /\ b % 4 = 0
      BY <2>2, <2>9
    <3> DEFINE c == b + x * 2
    <3>2. c \in Nat /\ c % 2 = 0 /\ (c \div 2) % 2 = x
      BY <2>1, <3>1
    <3>3. c \div 128 = b \div 128 /\ c \div 64 = b \div 64 /\ c \div 32 = b \div 32 /\ c \div 16 = b \div 16 /\ c \div 8 = b \div 8 /\ c \div 4 = b \div 4
      BY <2>1, <3>1
    <3> HIDE DEF c
    <3>4. \A s \in 0..r - 1 : c \div PlaceWeight(bits, s) = b \div PlaceWeight(bits, s)
      <4> TAKE s \in 0..r - 1
      <4>1. s = 0 \/ s = 1 \/ s = 2 \/ s = 3 \/ s = 4 \/ s = 5
        BY <2>9
      <4> QED BY <4>1, <2>2, <3>3
    <3> QED BY <2>1, <3>1, <3>2, <3>4 DEF c
  <2>10. CASE r = 7
    <3>1. PlaceWeight(bits, r) = 1 /\ b % 2 = 0
      BY <2>2, <2>10
    <3> DEFINE c == b + x * 1
    <3>2. c \in Nat /\ c % 1 = 0 /\ (c \div 1) % 2 = x
      BY <2>1, <3>1
    <3>3. c \div 128 = b \div 128 /\ c \div 64 = b \div 64 /\ c \div 32 = b \div 32 /\ c \div 16 = b \div 16 /\ c \div 8 = b \div 8 /\ c \div 4 = b \div 4 /\ c \div 2 = b \div 2
      BY <2>1, <3>1
    <3> HIDE DEF c
    <3>4. \A s \in 0..r - 1 : c \div PlaceWeight(bits, s) = b \div PlaceWeight(bits, s)
      <4> TAKE s \in 0..r - 1
      <4>1. s = 0 \/ s = 1 \/ s = 2 \/ s = 3 \/ s = 4 \/ s = 5 \/ s = 6
        BY <2>10
      <4> QED BY <4>1, <2>2, <3>3
    <3> QED BY <2>1, <3>1, <3>2, <3>4 DEF c
  <2> QED BY <2>1, <2>3, <2>4, <2>5, <2>6, <2>7, <2>8, <2>9, <2>10
<1>2. CASE bits = 2
  <2>1. r \in 0..3 /\ x \in 0..3 /\ 2^bits = 4
    BY <1>2, PowersOfTwo
  <2>2. PlaceWeight(bits, 0) = 64 /\ PlaceWeight(bits, 1) = 16 /\ PlaceWeight(bits, 2) = 4 /\ PlaceWeight(bits, 3) = 1
    BY <1>2 DEF PlaceWeight
  <2>3. CASE r = 0
    <3>1. PlaceWeight(bits, r) = 64 /\ b + x * PlaceWeight(bits, r) = 64 * x
      BY <2>1, <2>2, <2>3
    <3>2. 64 * x \in Nat /\ (64 * x) \div 64 = x
      BY <2>1
    <3>3. (64 * x) % 64 = 0
      BY <2>1
    <3>4. x % 4 = x
      <4>1. x \in 0..3
        BY <2>1
      <4> QED BY ONLY <4>1
    <3> QED BY <2>1, <2>3, <3>1, <3>2, <3>3, <3>4
  <2>4. CASE r = 1
    <3>1. PlaceWeight(bits, r) = 16 /\ b % 64 = 0
      BY <2>2, <2>4
    <3> DEFINE c == b + x * 16
    <3>2. c \in Nat /\ c % 16 = 0 /\ (c \div 16) % 4 = x
      BY <2>1, <3>1
    <3>3. c \div 64 = b \div 64
      BY <2>1, <3>1
    <3> HIDE DEF c
    <3>4. \A s \in 0..r - 1 : c \div PlaceWeight(bits, s) = b \div PlaceWeight(bits, s)
      <4> TAKE s \in 0..r - 1
      <4>1. s = 0
        BY <2>4
      <4> QED BY <4>1, <2>2, <3>3
    <3> QED BY <2>1, <3>1, <3>2, <3>4 DEF c
  <2>5. CASE r = 2
    <3>1. PlaceWeight(bits, r) = 4 /\ b % 16 = 0
      BY <2>2, <2>5
    <3> DEFINE c == b + x * 4
    <3>2. c \in Nat /\ c % 4 = 0 /\ (c \div 4) % 4 = x
      BY <2>1, <3>1
    <3>3. c \div 64 = b \div 64 /\ c \div 16 = b \div 16
      BY <2>1, <3>1
    <3> HIDE DEF c
    <3>4. \A s \in 0..r - 1 : c \div PlaceWeight(bits, s) = b \div PlaceWeight(bits, s)
      <4> TAKE s \in 0..r - 1
      <4>1. s = 0 \/ s = 1
        BY <2>5
      <4> QED BY <4>1, <2>2, <3>3
    <3> QED BY <2>1, <3>1, <3>2, <3>4 DEF c
  <2>6. CASE r = 3
    <3>1. PlaceWeight(bits, r) = 1 /\ b % 4 = 0
      BY <2>2, <2>6
    <3> DEFINE c == b + x * 1
    <3>2. c \in Nat /\ c % 1 = 0 /\ (c \div 1) % 4 = x
      BY <2>1, <3>1
    <3>3. c \div 64 = b \div 64 /\ c \div 16 = b \div 16 /\ c \div 4 = b \div 4
      BY <2>1, <3>1
    <3> HIDE DEF c
    <3>4. \A s \in 0..r - 1 : c \div PlaceWeight(bits, s) = b \div PlaceWeight(bits, s)
      <4> TAKE s \in 0..r - 1
      <4>1. s = 0 \/ s = 1 \/ s = 2
        BY <2>6
      <4> QED BY <4>1, <2>2, <3>3
    <3> QED BY <2>1, <3>1, <3>2, <3>4 DEF c
  <2> QED BY <2>1, <2>3, <2>4, <2>5, <2>6
<1>3. CASE bits = 4
  <2>1. r \in 0..1 /\ x \in 0..15 /\ 2^bits = 16
    BY <1>3, PowersOfTwo
  <2>2. PlaceWeight(bits, 0) = 16 /\ PlaceWeight(bits, 1) = 1
    BY <1>3 DEF PlaceWeight
  <2>3. CASE r = 0
    <3>1. PlaceWeight(bits, r) = 16 /\ b + x * PlaceWeight(bits, r) = 16 * x
      BY <2>1, <2>2, <2>3
    <3>2. 16 * x \in Nat /\ (16 * x) \div 16 = x
      BY <2>1
    <3>3. (16 * x) % 16 = 0
      BY <2>1
    <3>4. x % 16 = x
      <4>1. x \in 0..15
        BY <2>1
      <4> QED BY ONLY <4>1
    <3> QED BY <2>1, <2>3, <3>1, <3>2, <3>3, <3>4
  <2>4. CASE r = 1
    <3>1. PlaceWeight(bits, r) = 1 /\ b % 16 = 0
      BY <2>2, <2>4
    <3> DEFINE c == b + x * 1
    <3>2. c \in Nat /\ c % 1 = 0 /\ (c \div 1) % 16 = x
      BY <2>1, <3>1
    <3>3. c \div 16 = b \div 16
      BY <2>1, <3>1
    <3> HIDE DEF c
    <3>4. \A s \in 0..r - 1 : c \div PlaceWeight(bits, s) = b \div PlaceWeight(bits, s)
      <4> TAKE s \in 0..r - 1
      <4>1. s = 0
        BY <2>4
      <4> QED BY <4>1, <2>2, <3>3
    <3> QED BY <2>1, <3>1, <3>2, <3>4 DEF c
  <2> QED BY <2>1, <2>3, <2>4
<1>4. CASE bits = 8
  <2>1. r \in 0..0 /\ x \in 0..255 /\ 2^bits = 256
    BY <1>4, PowersOfTwo
  <2>2. PlaceWeight(bits, 0) = 1
    BY <1>4 DEF PlaceWeight
  <2>3. CASE r = 0
    BY <2>1, <2>2, <2>3
  <2> QED BY <2>1, <2>3
<1> QED BY <1>1, <1>2, <1>3, <1>4

\* A byte with clear places can take one more value.
LEMMA RoomLeft ==
  ASSUME NEW W \in {2, 4, 8, 16, 32, 64, 128}, NEW b \in 0..255, b % W = 0
  PROVE  b <= 256 - W
OBVIOUS

CanTake(b, bits, r, x) ==
  /\ bits \in {1, 2, 4, 8} /\ r \in 0..(8 \div bits) - 1 /\ b \in 0..255 /\ x \in 0..2^bits - 1
  /\ r = 0 => b = 0
  /\ r # 0 => b % PlaceWeight(bits, r - 1) = 0
WithValue(b, bits, r, x) == b + x * PlaceWeight(bits, r)

LEMMA StaysAByte ==
  ASSUME NEW bits, NEW r, NEW b, NEW x, CanTake(b, bits, r, x)
  PROVE  WithValue(b, bits, r, x) \in 0..255
<1> USE DEF CanTake
<1> DEFINE w == PlaceWeight(bits, r)
           W == PlaceWeight(bits, r - 1)
<1>1. CASE bits = 1
  <2>1. r \in 0..7 /\ x \in {0, 1}
    BY <1>1, PowersOfTwo
  <2>2. PlaceWeight(bits, 0) = 128 /\ PlaceWeight(bits, 1) = 64 /\ PlaceWeight(bits, 2) = 32 /\ PlaceWeight(bits, 3) = 16 /\ PlaceWeight(bits, 4) = 8 /\ PlaceWeight(bits, 5) = 4 /\ PlaceWeight(bits, 6) = 2 /\ PlaceWeight(bits, 7) = 1
    BY <1>1 DEF PlaceWeight
  <2>3. r # 0 => W \in {2, 4, 8, 16, 32, 64, 128} /\ W = 2 * w
    BY <2>1, <2>2
  <2>4. w \in 1..128
    BY <2>1, <2>2
  <2> HIDE DEF w, W
  <2>5. r # 0 => b <= 256 - W
    <3>1. r # 0 => b % W = 0
      BY DEF W
    <3> QED BY <2>3, <3>1, RoomLeft
  <2>6. x * w \in {0, w}
    BY <2>1, <2>4
  <2>7. b + x * w \in 0..255
    <3> HIDE DEF w
    <3>1. CASE r = 0
      BY <3>1, <2>4, <2>6
    <3>2. CASE r # 0
      BY <3>2, <2>3, <2>4, <2>5, <2>6
    <3> QED BY <3>1, <3>2
  <2> QED BY <2>7 DEF w, WithValue
<1>2. CASE bits = 2
  <2>1. r \in 0..3 /\ x \in {0, 1, 2, 3}
    BY <1>2, PowersOfTwo
  <2>2. PlaceWeight(bits, 0) = 64 /\ PlaceWeight(bits, 1) = 16 /\ PlaceWeight(bits, 2) = 4 /\ PlaceWeight(bits, 3) = 1
    BY <1>2 DEF PlaceWeight
  <2>3. r # 0 => W \in {2, 4, 8, 16, 32, 64, 128} /\ W = 4 * w
    BY <2>1, <2>2
  <2>4. w \in 1..64
    BY <2>1, <2>2
  <2> HIDE DEF w, W
  <2>5. r # 0 => b <= 256 - W
    <3>1. r # 0 => b % W = 0
      BY DEF W
    <3> QED BY <2>3, <3>1, RoomLeft
  <2>6. x * w \in {0, w, 2 * w, 3 * w}
    BY <2>1, <2>4
  <2>7. b + x * w \in 0..255
    <3>1. CASE r = 0
      BY <3>1, <2>4, <2>6
    <3>2. CASE r # 0
      BY <3>2, <2>3, <2>4, <2>5, <2>6
    <3> QED BY <3>1, <3>2
  <2> QED BY <2>7 DEF w, WithValue
<1>3. CASE bits = 4
  <2>1. (r = 0 \/ r = 1) /\ x \in 0..15
    BY <1>3, PowersOfTwo
  <2>2. PlaceWeight(bits, 0) = 16 /\ PlaceWeight(bits, 1) = 1
    BY <1>3 DEF PlaceWeight
  <2>3. r = 1 => b <= 256 - 16
    <3>1. r = 1 => b % 16 = 0
      <4>1. r = 1 => r - 1 = 0
        OBVIOUS
      <4> QED BY <2>2, <4>1
    <3> QED BY <3>1, RoomLeft
  <2>4. CASE r = 0
    BY <2>1, <2>2, <2>4 DEF WithValue
  <2>5. CASE r = 1
    <3>1. w = 1
      BY <2>2, <2>5
    <3> HIDE DEF w
    <3>2. x * w = x
      BY <2>1, <3>1
    <3>3. b + x * w \in 0..255
      BY <2>1, <2>3, <2>5, <3>2
    <3> QED BY <3>3 DEF w, WithValue
  <2> QED BY <2>1, <2>4, <2>5
<1>4. CASE bits = 8
  <2>1. r = 0 /\ x \in 0..255 /\ PlaceWeight(bits, 0) = 1
    BY <1>4, PowersOfTwo DEF PlaceWeight
  <2> QED BY <2>1 DEF WithValue
<1> QED BY <1>1, <1>2, <1>3, <1>4

\* Every place weighs something.
LEMMA WeightIsPositive ==
  ASSUME NEW bits \in {1, 2, 4, 8}, NEW r \in 0..(8 \div bits) - 1
  PROVE  PlaceWeight(bits, r) \in Nat \ {0}
<1>1. CASE bits = 1
  <2>1. r = 0 \/ r = 1 \/ r = 2 \/ r = 3 \/ r = 4 \/ r = 5 \/ r = 6 \/ r = 7
    BY <1>1
  <2> QED BY <1>1, <2>1 DEF PlaceWeight
<1>2. CASE bits = 2
  <2>1. r = 0 \/ r = 1 \/ r = 2 \/ r = 3
    BY <1>2
  <2> QED BY <1>2, <2>1 DEF PlaceWeight
<1>3. CASE bits = 4
  <2>1. r = 0 \/ r = 1
    BY <1>3
  <2> QED BY <1>3, <2>1 DEF PlaceWeight
<1>4. CASE bits = 8
  BY <1>4 DEF PlaceWeight
<1> QED BY <1>1, <1>2, <1>3, <1>4

\* Where the next value goes, and how many bytes there are then.
LEMMA NextPlace ==
  ASSUME NEW bits \in {1, 2, 4, 8}, NEW n \in Nat
  PROVE  LET per == 8 \div bits
             k == n \div per
             r == n % per
         IN  /\ (n * bits + 7) \div 8 = IF r = 0 THEN k ELSE k + 1
             /\ ((n + 1) * bits + 7) \div 8 = k + 1
             /\ (n + 1) % per = IF r = per - 1 THEN 0 ELSE r + 1
             /\ r # 0 => 8 - r * bits = 8 - bits - (r - 1) * bits
             /\ r # per - 1 => 8 - (r + 1) * bits = 8 - bits - r * bits
<1> DEFINE per == 8 \div bits
           k == n \div per
           r == n % per
<1>1. k \in Nat /\ r \in 0..per - 1 /\ n = per * k + r
  BY PlaceOf
<1>2. CASE bits = 1
  <2>1. per = 8
    BY <1>2
  <2> HIDE DEF k, r, per
  <2>2. n = 8 * k + r /\ r \in 0..7
    BY <1>1, <2>1
  <2> QED BY <1>1, <1>2, <2>1, <2>2
<1>3. CASE bits = 2
  <2>1. per = 4
    BY <1>3
  <2> QED BY <1>1, <1>3, <2>1
<1>4. CASE bits = 4
  <2>1. per = 2
    BY <1>4
  <2> QED BY <1>1, <1>4, <2>1
<1>5. CASE bits = 8
  <2>1. per = 1
    BY <1>5
  <2> QED BY <1>1, <1>5, <2>1
<1> QED BY <1>2, <1>3, <1>4, <1>5

\* The bytes so far take what is written for the next value.
LEMMA ValuePacked ==
  ASSUME NEW bits \in {1, 2, 4, 8}, NEW N \in Nat, NEW values \in [0..N - 1 -> 0..2^bits - 1],
         NEW n \in 0..N - 1, NEW bytes, IsPacking(bytes, values, bits, n)
  PROVE  IsPacking(AddColorBits(bytes, n, bits, values[n]), values, bits, n + 1)
<1> DEFINE per == 8 \div bits
           k == n \div per
           r == n % per
           x == values[n]
           b == IF r = 0 THEN 0 ELSE bytes[k + 1]
           c == b + x * PlaceWeight(bits, r)
           more == AddColorBits(bytes, n, bits, x)
<1>1. /\ per \in 1..8 /\ k \in Nat /\ r \in 0..per - 1 /\ n = per * k + r
      /\ x \in 0..2^bits - 1 /\ n \in Nat
  <2>1. n \in Nat /\ x \in 0..2^bits - 1
    OBVIOUS
  <2> QED BY <2>1, PlaceOf
<1>2. /\ (n * bits + 7) \div 8 = IF r = 0 THEN k ELSE k + 1
      /\ ((n + 1) * bits + 7) \div 8 = k + 1
      /\ (n + 1) % per = IF r = per - 1 THEN 0 ELSE r + 1
      /\ r # 0 => 8 - r * bits = 8 - bits - (r - 1) * bits
      /\ r # per - 1 => 8 - (r + 1) * bits = 8 - bits - r * bits
  BY <1>1, NextPlace
<1>3. bytes \in Seq(0..255) /\ Len(bytes) = IF r = 0 THEN k ELSE k + 1
  BY <1>2 DEF IsPacking
<1>4. b \in 0..255
  <2>1. ASSUME r # 0 PROVE bytes[k + 1] \in 0..255
    <3> HIDE DEF r, k
    <3> DEFINE i == k + 1
    <3>1. i \in 1..Len(bytes) /\ bytes \in Seq(0..255)
      BY <1>1, <1>3, <2>1
    <3> HIDE DEF i
    <3>2. bytes[i] \in 0..255
      BY ONLY <3>1, ElementOf
    <3> QED BY <3>2 DEF i
  <2> HIDE DEF r, k
  <2> QED BY <2>1
<1>5. r # 0 => b % PlaceWeight(bits, r - 1) = 0
  <2> SUFFICES ASSUME r # 0 PROVE b % PlaceWeight(bits, r - 1) = 0
    OBVIOUS
  <2>1. bytes[Len(bytes)] % 2^(8 - r * bits) = 0 /\ b = bytes[Len(bytes)]
    BY <1>3 DEF IsPacking
  <2>2. r - 1 \in 0..per - 1
    BY <1>1
  <2>3. 2^(8 - bits - (r - 1) * bits) = PlaceWeight(bits, r - 1)
    <3> HIDE DEF r
    <3> QED BY <2>2, PlaceWeightIs
  <2> QED BY <1>2, <2>1, <2>3
<1>6. /\ c \in Nat /\ c % PlaceWeight(bits, r) = 0
      /\ (c \div PlaceWeight(bits, r)) % 2^bits = x
      /\ \A s \in 0..r - 1 : c \div PlaceWeight(bits, s) = b \div PlaceWeight(bits, s)
  <2>1. r = 0 => b = 0
    OBVIOUS
  <2>2. r \in 0..(8 \div bits) - 1 /\ x \in 0..2^bits - 1
    BY <1>1
  <2> HIDE DEF r, x, b
  <2>3. b \in Nat /\ b \in 0..255
    BY <1>4
  <2> QED BY <1>5, <2>1, <2>2, <2>3, PlaceFilled, Zenon
<1>6b. c \in 0..255
  <2>1. r = 0 => b = 0
    OBVIOUS
  <2>2. r \in 0..(8 \div bits) - 1 /\ x \in 0..2^bits - 1
    BY <1>1
  <2> HIDE DEF r, x, b
  <2>3. b \in 0..255
    BY <1>4
  <2>4. CanTake(b, bits, r, x)
    BY <1>5, <2>1, <2>2, <2>3, Zenon DEF CanTake
  <2>5. WithValue(b, bits, r, x) \in 0..255
    BY <2>4, StaysAByte, Zenon
  <2> QED BY <2>5 DEF WithValue
<1>7. more = IF r = 0 THEN Append(bytes, c) ELSE [bytes EXCEPT ![k + 1] = c]
  <2>1. more = IF r = 0 THEN Append(bytes, x * PlaceWeight(bits, r))
                        ELSE [bytes EXCEPT ![Len(bytes)] = @ + x * PlaceWeight(bits, r)]
    <3>1. more = BitsFilled(bytes, n, bits, x)
      <4> HIDE DEF x
      <4> QED BY <1>1, AddColorBitsIs
    <3> QED BY <3>1 DEF BitsFilled
  <2>2. r = 0 => c = x * PlaceWeight(bits, r)
    <3>1. r = 0 => b = 0
      OBVIOUS
    <3>2. PlaceWeight(bits, r) \in Nat
      <4> HIDE DEF r
      <4> QED BY <1>1, WeightIsPositive
    <3>3. x \in Nat
      BY <1>1
    <3> HIDE DEF x, b
    <3> QED BY <3>1, <3>2, <3>3
  <2> QED BY <1>3, <2>1, <2>2
<1>8. /\ more \in Seq(0..255) /\ Len(more) = k + 1 /\ more[k + 1] = c
      /\ \A j \in 1..k : more[j] = bytes[j]
  <2> HIDE DEF more, c, r, k, per
  <2>1. CASE r = 0
    BY <2>1, <1>1, <1>3, <1>7, <1>6b
  <2>2. CASE r # 0
    BY <2>2, <1>1, <1>3, <1>7, <1>6b
  <2> QED BY <2>1, <2>2
<1>9. ASSUME NEW i \in 0..n PROVE ReversedBits(more, i, bits) = values[i]
  <2> DEFINE j == i \div per
             s == i % per
  <2>1. i \in Nat /\ j \in Nat /\ s \in 0..per - 1 /\ i = per * j + s
    <3>1. i \in Nat
      BY <1>1
    <3> QED BY <3>1, PlaceOf
  <2>2. /\ ReversedBits(more, i, bits) = (more[j + 1] \div PlaceWeight(bits, s)) % 2^bits
        /\ ReversedBits(bytes, i, bits) = (bytes[j + 1] \div PlaceWeight(bits, s)) % 2^bits
    BY <2>1, ReversedBitsIs
  <2>3. \/ j = k /\ s = r /\ i = n
        \/ j = k /\ s \in 0..r - 1 /\ r # 0 /\ i \in 0..n - 1
        \/ j \in 0..k - 1 /\ i \in 0..n - 1
    <3>1. per = 8 \/ per = 4 \/ per = 2 \/ per = 1
      <4>1. CASE bits = 1 BY <4>1
      <4>2. CASE bits = 2 BY <4>2
      <4>3. CASE bits = 4 BY <4>3
      <4>4. CASE bits = 8 BY <4>4
      <4> QED BY <4>1, <4>2, <4>3, <4>4
    <3> HIDE DEF per, j, s, k, r
    <3>2. CASE per = 8
      <4>1. /\ j \in Nat /\ k \in Nat /\ r \in 0..7 /\ s \in 0..7 /\ i \in Nat /\ n \in Nat
            /\ n = 8 * k + r /\ i = 8 * j + s /\ i <= n
        BY <3>2, <2>1, <1>1
      <4>2. j < k \/ j = k
        BY <4>1
      <4> QED BY <4>1, <4>2
    <3>3. CASE per = 4
      <4>1. /\ j \in Nat /\ k \in Nat /\ r \in 0..3 /\ s \in 0..3 /\ i \in Nat /\ n \in Nat
            /\ n = 4 * k + r /\ i = 4 * j + s /\ i <= n
        BY <3>3, <2>1, <1>1
      <4>2. j < k \/ j = k
        BY <4>1
      <4> QED BY <4>1, <4>2
    <3>4. CASE per = 2 BY <3>4, <2>1, <1>1
    <3>5. CASE per = 1 BY <3>5, <2>1, <1>1
    <3> QED BY <3>1, <3>2, <3>3, <3>4, <3>5
  <2>4. i \in 0..n - 1 => ReversedBits(bytes, i, bits) = values[i]
    BY DEF IsPacking
  <2>5. CASE j = k /\ s = r /\ i = n
    BY <2>5, <2>2, <1>6, <1>8
  <2>6. CASE j = k /\ s \in 0..r - 1 /\ r # 0 /\ i \in 0..n - 1
    <3>1. b = bytes[k + 1] /\ c \div PlaceWeight(bits, s) = b \div PlaceWeight(bits, s)
      BY <2>6, <1>6
    <3> QED BY <3>1, <2>6, <2>2, <2>4, <1>8
  <2>7. CASE j \in 0..k - 1 /\ i \in 0..n - 1
    <3>1. more[j + 1] = bytes[j + 1]
      <4> HIDE DEF j, k, more
      <4> QED BY <2>7, <1>1, <1>8
    <3> QED BY <3>1, <2>7, <2>2, <2>4
  <2> QED BY <2>3, <2>5, <2>6, <2>7
<1>10. (n + 1) % per # 0 => more[Len(more)] % 2^(8 - ((n + 1) % per) * bits) = 0
  <2> SUFFICES ASSUME (n + 1) % per # 0 PROVE more[Len(more)] % 2^(8 - ((n + 1) % per) * bits) = 0
    OBVIOUS
  <2>1. (n + 1) % per = r + 1 /\ r # per - 1
    BY <1>2
  <2>2. 2^(8 - bits - r * bits) = PlaceWeight(bits, r)
    <3> HIDE DEF r
    <3> QED BY <1>1, PlaceWeightIs
  <2> QED BY <1>2, <1>6, <1>8, <2>1, <2>2
<1> HIDE DEF more
<1>11. Len(more) = ((n + 1) * bits + 7) \div 8
  BY <1>2, <1>8
<1>12. \A i \in 0..(n + 1) - 1 : ReversedBits(more, i, bits) = values[i]
  BY <1>9, <1>1
<1> QED BY <1>8, <1>10, <1>11, <1>12 DEF IsPacking, more

-----------------------------------------------------------------------------
\* How many bits a grey needs is one of the depths there are.
LEMMA RequiredBitsIs ==
  ASSUME NEW v \in 0..255
  PROVE  ValueRequiredBits(v) \in {1, 2, 4, 8}
BY DEF ValueRequiredBits

IsRestored(v, x, bits) == x \in 0..2^bits - 1 /\ (x * 255) \div (2^bits - 1) = v

\* A grey that so many bits are enough for comes back from them as it was.
LEMMA GreyIsBack ==
  ASSUME NEW bits \in {1, 2, 4, 8}, NEW v \in 0..255, ValueRequiredBits(v) <= bits
  PROVE  IsRestored(v, v \div 2^(8 - bits), bits)
<1>1. CASE bits = 1
  <2>1. v = 0 \/ v = 255
    BY <1>1 DEF ValueRequiredBits
  <2>2. 2^(8 - bits) = 128 /\ 2^bits = 2
    BY <1>1, PowersOfTwo
  <2> QED BY <2>1, <2>2 DEF IsRestored
<1>2. CASE bits = 2
  <2>1. v % 85 = 0
    BY <1>2 DEF ValueRequiredBits
  <2>2. v = 0 \/ v = 85 \/ v = 170 \/ v = 255
    BY <2>1
  <2>3. 2^(8 - bits) = 64 /\ 2^bits = 4
    BY <1>2, PowersOfTwo
  <2> QED BY <2>2, <2>3 DEF IsRestored
<1>3. CASE bits = 4
  <2>1. v % 17 = 0
    BY <1>3 DEF ValueRequiredBits
  <2>2. PICK q \in 0..15 : v = 17 * q
    <3>1. v \div 17 \in 0..15 /\ v = 17 * (v \div 17)
      BY <2>1
    <3> QED BY <3>1
  <2>3. 2^(8 - bits) = 16 /\ 2^bits = 16
    BY <1>3, PowersOfTwo
  <2>4. v \div 16 = q
    BY <2>2
  <2>5. (q * 255) \div 15 = 17 * q
    OBVIOUS
  <2> QED BY <2>2, <2>3, <2>4, <2>5 DEF IsRestored
<1>4. CASE bits = 8
  <2>1. 2^(8 - bits) = 1 /\ 2^bits = 256
    BY <1>4, PowersOfTwo
  <2>2. v \div 1 = v /\ (v * 255) \div 255 = v
    OBVIOUS
  <2> QED BY <2>1, <2>2 DEF IsRestored
<1> QED BY <1>1, <1>2, <1>3, <1>4

\* A color of the palette is found in it.
LEMMA KnownIsFound ==
  ASSUME NEW p, palette \in Seq(PixelValues), Known(p)
  PROVE  PaletteIndex(p) \in 0..Len(palette) - 1 /\ palette[PaletteIndex(p) + 1] = p
<1>1. PICK i \in 1..Len(palette) : palette[i] = p
  BY DEF Known
<1>2. i - 1 \in 0..Len(palette) - 1 /\ palette[(i - 1) + 1] = p
  BY <1>1
<1> QED BY <1>2 DEF PaletteIndex

\* What is packed fits into its bits, and tells the pixel.
LEMMA PackedFits ==
  ASSUME picture \in Seq(PixelValues), palette \in Seq(PixelValues), ModeFits, mode.type # "rgb", NEW i \in 1..Len(picture)
  PROVE  /\ mode.bits \in {1, 2, 4, 8}
         /\ Packed(picture[i]) \in 0..2^mode.bits - 1
         /\ mode.type = "grey" =>
              LET v == (Packed(picture[i]) * 255) \div (2^mode.bits - 1) IN picture[i] = <<v, v, v>>
         /\ mode.type # "grey" => palette[Packed(picture[i]) + 1] = picture[i]
<1> DEFINE p == picture[i]
<1>1. p \in PixelValues
  OBVIOUS
<1>2. CASE mode.type = "grey"
  <2>1. mode.bits \in {1, 2, 4, 8} /\ IsShownBy(p, mode.bits)
    BY <1>2 DEF ModeFits, RGB
  <2> DEFINE v == p[1]
  <2>2. v \in 0..255 /\ p = <<p[1], p[2], p[3]>>
    BY <1>1 DEF PixelValues
  <2>3. ValueRequiredBits(v) <= mode.bits /\ p[2] = v /\ p[3] = v
    BY <2>1 DEF IsShownBy, IsGrey
  <2>4. Packed(p) = v \div 2^(8 - mode.bits)
    BY <1>2 DEF Packed
  <2>5. p = <<v, v, v>>
    BY <2>2, <2>3
  <2> HIDE DEF p, v
  <2>6. IsRestored(v, Packed(p), mode.bits)
    BY <2>1, <2>2, <2>3, <2>4, GreyIsBack
  <2> QED BY <1>2, <2>1, <2>5, <2>6 DEF p, IsRestored
<1>3. CASE mode.type # "grey"
  <2>1. mode.bits \in {1, 2, 4, 8} /\ Known(p) /\ Len(palette) <= 2^mode.bits
    BY <1>3 DEF ModeFits, RGB
  <2>2. Packed(p) = PaletteIndex(p)
    BY <1>3 DEF Packed
  <2>3. 2^mode.bits \in Nat
    BY <2>1, PowersOfTwo
  <2> HIDE DEF p
  <2>4. PaletteIndex(p) \in 0..Len(palette) - 1 /\ palette[PaletteIndex(p) + 1] = p
    BY <2>1, KnownIsFound
  <2> QED BY <1>3, <2>1, <2>2, <2>3, <2>4 DEF p
<1> QED BY <1>2, <1>3

\* So the packed values are of so many bits each.
LEMMA PackedValuesFit ==
  ASSUME picture \in Seq(PixelValues), palette \in Seq(PixelValues), ModeFits, mode.type # "rgb"
  PROVE  PackedValues \in [0..Len(picture) - 1 -> 0..2^mode.bits - 1]
<1>1. ASSUME NEW i \in 0..Len(picture) - 1 PROVE Packed(picture[i + 1]) \in 0..2^mode.bits - 1
  <2>1. i + 1 \in 1..Len(picture)
    OBVIOUS
  <2> QED BY <2>1, PackedFits
<1> QED BY <1>1 DEF PackedValues

-----------------------------------------------------------------------------
\* What the profile knows after one more pixel.
LEMMA ProfileGrows ==
  ASSUME ColorIInv, ProfilePixel
  PROVE  Profiled(pixel)'
<1> DEFINE p == picture[pixel + 1]
           new == numcolors <= PaletteMax /\ ~Known(p)
<1>1. /\ pixel \in 0..Len(picture) /\ pixel < Len(picture) /\ pixel' = pixel + 1
      /\ picture \in Seq(PixelValues) /\ picture' = picture /\ Profiled(pixel) /\ PaletteMax \in 1..256
  BY ColorAssumption DEF ColorIInv, ProfilePixel
<1>2. /\ colored' = (colored \/ ~IsGrey(p))
      /\ greybits' = IF colored' \/ greybits = 8 THEN greybits ELSE Larger(greybits, ValueRequiredBits(p[1]))
      /\ numcolors' = IF new THEN numcolors + 1 ELSE numcolors
      /\ palette' = IF new /\ numcolors < PaletteMax THEN Append(palette, p) ELSE palette
  BY DEF ProfilePixel
<1>3. p \in PixelValues
  BY <1>1
<1>4. p[1] \in 0..255
  BY <1>3 DEF PixelValues
<1> HIDE DEF p
<1>5. ValueRequiredBits(p[1]) \in {1, 2, 4, 8}
  BY <1>4, RequiredBitsIs
<1>6. /\ colored \in BOOLEAN /\ greybits \in {1, 2, 4, 8}
      /\ numcolors \in 0..PaletteMax + 1 /\ palette \in Seq(PixelValues) /\ Len(palette) <= PaletteMax
  BY <1>1 DEF Profiled
<1>7. colored' \in BOOLEAN /\ greybits' \in {1, 2, 4, 8} /\ greybits <= greybits'
      /\ (~colored' => ~colored /\ IsGrey(p) /\ ValueRequiredBits(p[1]) <= greybits')
  <2>1. colored' \in BOOLEAN /\ (~colored' => ~colored /\ IsGrey(p))
    BY <1>2, <1>6
  <2>2. CASE colored' \/ greybits = 8
    <3>1. greybits' = greybits
      BY <2>2, <1>2
    <3>2. ~colored' => ValueRequiredBits(p[1]) <= greybits
      BY <2>2, <1>5
    <3> QED BY <2>1, <3>1, <3>2, <1>6
  <2>3. CASE ~(colored' \/ greybits = 8)
    <3>1. greybits' = IF greybits >= ValueRequiredBits(p[1]) THEN greybits ELSE ValueRequiredBits(p[1])
      BY <2>3, <1>2 DEF Larger
    <3>2. greybits' \in {1, 2, 4, 8} /\ greybits <= greybits' /\ ValueRequiredBits(p[1]) <= greybits'
      BY <3>1, <1>5, <1>6
    <3> QED BY <2>1, <3>2
  <2> QED BY <2>2, <2>3
<1>8. numcolors' \in 0..PaletteMax + 1 /\ palette' \in Seq(PixelValues) /\ (numcolors <= PaletteMax => Len(palette) = numcolors)
  BY <1>1, <1>2, <1>3, <1>6 DEF Profiled
<1>9. ASSUME ~colored', NEW i \in 1..pixel + 1 PROVE IsShownBy(picture[i], greybits')
  <2>1. CASE i = pixel + 1
    BY <2>1, <1>7, <1>9 DEF IsShownBy, p
  <2>2. CASE i # pixel + 1
    <3>1. i \in 1..pixel /\ IsShownBy(picture[i], greybits) /\ picture[i] \in PixelValues
      BY <2>2, <1>1, <1>7, <1>9 DEF Profiled
    <3>2. picture[i][1] \in 0..255
      BY <3>1 DEF PixelValues
    <3>3. ValueRequiredBits(picture[i][1]) \in {1, 2, 4, 8}
      BY <3>2, RequiredBitsIs
    <3> QED BY <3>1, <3>3, <1>6, <1>7 DEF IsShownBy
  <2> QED BY <2>1, <2>2
<1>10. ASSUME numcolors' <= PaletteMax
       PROVE  Len(palette') = numcolors' /\ \A i \in 1..pixel + 1 : \E j \in 1..Len(palette') : palette'[j] = picture[i]
  <2>1. numcolors <= PaletteMax /\ Len(palette) = numcolors /\ \A i \in 1..pixel : Known(picture[i])
    BY <1>10, <1>1, <1>2, <1>6 DEF Profiled
  <2>2. CASE new
    <3>1. numcolors < PaletteMax
      BY <2>2, <1>10, <1>1, <1>2, <1>6
    <3>2. palette' = Append(palette, p) /\ numcolors' = numcolors + 1
      BY <2>2, <3>1, <1>2
    <3>3. Len(palette') = numcolors + 1 /\ palette'[numcolors + 1] = p /\ \A j \in 1..Len(palette) : palette'[j] = palette[j]
      BY <3>2, <2>1, <1>3, <1>6
    <3>4. ASSUME NEW i \in 1..pixel + 1 PROVE \E j \in 1..Len(palette') : palette'[j] = picture[i]
      <4>1. CASE i = pixel + 1
        BY <4>1, <3>3, <1>6 DEF p
      <4>2. CASE i # pixel + 1
        <5>1. PICK j \in 1..Len(palette) : palette[j] = picture[i]
          BY <4>2, <2>1, <1>1 DEF Known
        <5>2. j \in 1..Len(palette') /\ palette'[j] = picture[i]
          BY <5>1, <3>3, <2>1
        <5> QED BY <5>2
      <4> QED BY <4>1, <4>2
    <3> QED BY <3>2, <3>3, <3>4
  <2>3. CASE ~new
    <3>1. palette' = palette /\ numcolors' = numcolors /\ Known(p)
      BY <2>3, <2>1, <1>2
    <3>2. ASSUME NEW i \in 1..pixel + 1 PROVE Known(picture[i])
      BY <3>1, <2>1, <1>1 DEF p
    <3> QED BY <3>1, <3>2, <2>1 DEF Known
  <2> QED BY <2>2, <2>3
<1>11. Len(palette') <= PaletteMax
  <2>1. CASE new /\ numcolors < PaletteMax
    BY <2>1, <1>1, <1>2, <1>3, <1>6, <1>8
  <2>2. CASE ~(new /\ numcolors < PaletteMax)
    BY <2>2, <1>2, <1>6
  <2> QED BY <2>1, <2>2
<1> QED BY <1>1, <1>7, <1>8, <1>9, <1>10, <1>11 DEF Profiled, Known, IsShownBy, PixelValues

\* The mode that is chosen can show every pixel.
LEMMA ChosenFits ==
  ASSUME ColorIInv, ChooseMode
  PROVE  ModeFits'
<1>1. Profiled(Len(picture)) /\ picture' = picture /\ palette' = palette /\ PaletteMax \in 1..256
  BY ColorAssumption DEF ColorIInv, ChooseMode, profileVars
<1>2. CASE ChooseGrey
  <2>1. mode' = [type |-> "grey", bits |-> greybits] /\ ~colored
    BY <1>2 DEF ChooseGrey, GreyOk
  <2>2. greybits \in {1, 2, 4, 8} /\ \A i \in 1..Len(picture) : IsShownBy(picture[i], greybits)
    BY <1>1, <2>1 DEF Profiled
  <2>3. mode' \in [type : {"grey"}, bits : {1, 2, 4, 8}] /\ mode'.bits = greybits
    BY <2>1, <2>2
  <2> QED BY <1>1, <2>2, <2>3 DEF ModeFits, IsShownBy
<1>3. CASE ChoosePalette
  <2>1. mode' = [type |-> "palette", bits |-> PaletteBits] /\ numcolors <= PaletteMax
    BY <1>3 DEF ChoosePalette, PaletteOk
  <2>2. Len(palette) = numcolors /\ numcolors \in 0..256 /\ \A i \in 1..Len(picture) : Known(picture[i])
    BY <1>1, <2>1 DEF Profiled
  <2>3. PaletteBits \in {1, 2, 4, 8} /\ numcolors <= 2^PaletteBits
    <3>1. CASE numcolors <= 2 BY <3>1, PowersOfTwo DEF PaletteBits
    <3>2. CASE numcolors \in 3..4 BY <3>2, PowersOfTwo DEF PaletteBits
    <3>3. CASE numcolors \in 5..16 BY <3>3, PowersOfTwo DEF PaletteBits
    <3>4. CASE numcolors > 16
      <4>1. PaletteBits = 8
        BY <3>4, <2>2 DEF PaletteBits
      <4> QED BY <4>1, <2>2, PowersOfTwo
    <3> QED BY <3>1, <3>2, <3>3, <3>4, <2>2
  <2>4. mode' \in [type : {"palette"}, bits : {1, 2, 4, 8}] /\ mode'.bits = PaletteBits
    BY <2>1, <2>3
  <2> QED BY <1>1, <2>2, <2>3, <2>4 DEF ModeFits, Known
<1>4. CASE ChooseRGB
  BY <1>4 DEF ChooseRGB, ModeFits, RGB
<1> QED BY <1>2, <1>3, <1>4 DEF ChooseMode

-----------------------------------------------------------------------------
\* Three more bytes for a picture whose pixels are stored in full.
HasThreeMore(more, bytes, n, x, y, z) ==
  /\ more \in Seq(0..255) /\ Len(more) = 3 * n + 3
  /\ more[3 * n + 1] = x /\ more[3 * n + 2] = y /\ more[3 * n + 3] = z
  /\ \A j \in 1..3 * n : more[j] = bytes[j]

\* Three elements at the end, and the others where they were.
LEMMA ThreeAppended ==
  ASSUME NEW bytes \in Seq(0..255), NEW n \in Nat, Len(bytes) = 3 * n,
         NEW x \in 0..255, NEW y \in 0..255, NEW z \in 0..255
  PROVE  HasThreeMore(bytes \o <<x, y, z>>, bytes, n, x, y, z)
<1> DEFINE long == bytes \o <<x, y, z>>
           m == 3 * n
<1>1. <<x, y, z>> \in Seq(0..255) /\ Len(<<x, y, z>>) = 3
  OBVIOUS
<1>2. /\ long \in Seq(0..255) /\ Len(long) = Len(bytes) + 3
      /\ \A i \in 1..Len(bytes) + 3 : long[i] = IF i <= Len(bytes) THEN bytes[i] ELSE <<x, y, z>>[i - Len(bytes)]
  BY <1>1
<1>3. m \in Nat /\ Len(bytes) = m
  OBVIOUS
<1> HIDE DEF long, m
<1>4. long[m + 1] = x /\ long[m + 2] = y /\ long[m + 3] = z
  <2>1. <<x, y, z>>[1] = x /\ <<x, y, z>>[2] = y /\ <<x, y, z>>[3] = z
    OBVIOUS
  <2> QED BY <1>2, <1>3, <2>1
<1>5. Len(long) = m + 3 /\ \A j \in 1..m : long[j] = bytes[j]
  BY <1>2, <1>3
<1> QED BY <1>2, <1>4, <1>5 DEF HasThreeMore, m, long

\* One more pixel is converted.
LEMMA ConversionGrows ==
  ASSUME ColorIInv, ConvertPixel
  PROVE  Converted(pixel)'
<1>1. /\ pixel \in 0..Len(picture) /\ pixel < Len(picture) /\ pixel' = pixel + 1
      /\ picture \in Seq(PixelValues) /\ palette \in Seq(PixelValues) /\ ModeFits /\ Converted(pixel)
      /\ picture' = picture /\ palette' = palette /\ mode' = mode
      /\ raw' = ToPixel(raw, pixel, picture[pixel + 1])
  BY DEF ColorIInv, ConvertPixel, profileVars
<1> DEFINE p == picture[pixel + 1]
<1>2. p \in PixelValues
  BY <1>1
<1>3. CASE mode.type = "rgb"
  <2>1. raw' = raw \o p
    BY <1>1, <1>3 DEF ToPixel
  <2>2. /\ raw \in Seq(0..255) /\ Len(raw) = 3 * pixel
        /\ \A i \in 0..pixel - 1 : <<raw[3 * i + 1], raw[3 * i + 2], raw[3 * i + 3]>> = picture[i + 1]
    BY <1>1, <1>3 DEF Converted
  <2>3. /\ raw' \in Seq(0..255) /\ Len(raw') = 3 * pixel + 3
        /\ <<raw'[3 * pixel + 1], raw'[3 * pixel + 2], raw'[3 * pixel + 3]>> = p
        /\ \A j \in 1..3 * pixel : raw'[j] = raw[j]
    <3>1. p[1] \in 0..255 /\ p[2] \in 0..255 /\ p[3] \in 0..255 /\ p = <<p[1], p[2], p[3]>>
      BY <1>2 DEF PixelValues
    <3> DEFINE x == p[1]
               y == p[2]
               z == p[3]
    <3>2. x \in 0..255 /\ y \in 0..255 /\ z \in 0..255 /\ p = <<x, y, z>>
      BY <3>1
    <3> HIDE DEF x, y, z, p
    <3>3. HasThreeMore(raw \o <<x, y, z>>, raw, pixel, x, y, z)
      <4>1. pixel \in Nat /\ raw \in Seq(0..255) /\ Len(raw) = 3 * pixel
        BY <1>1, <2>2
      <4> QED BY <4>1, <3>2, ThreeAppended, Zenon
    <3> QED BY <2>1, <3>2, <3>3 DEF HasThreeMore
  <2> HIDE DEF p
  <2>4. ASSUME NEW i \in 0..pixel PROVE <<raw'[3 * i + 1], raw'[3 * i + 2], raw'[3 * i + 3]>> = picture[i + 1]
    <3>1. CASE i = pixel
      BY <3>1, <2>3 DEF p
    <3>2. CASE i # pixel
      <4>1. /\ i \in 0..pixel - 1 /\ 3 * i + 1 \in 1..3 * pixel /\ 3 * i + 2 \in 1..3 * pixel
            /\ 3 * i + 3 \in 1..3 * pixel
        BY <3>2, <1>1
      <4> QED BY <4>1, <2>2, <2>3
    <3> QED BY <3>1, <3>2
  <2>5. Len(raw') = 3 * (pixel + 1) /\ 0..(pixel + 1) - 1 = 0..pixel
    BY <1>1, <2>3
  <2> QED BY <1>1, <1>3, <2>3, <2>4, <2>5 DEF Converted
<1>4. CASE mode.type # "rgb"
  <2>1. mode.bits \in {1, 2, 4, 8} /\ PackedValues \in [0..Len(picture) - 1 -> 0..2^mode.bits - 1]
    <3>1. 1 \in 1..Len(picture)
      BY <1>1
    <3>2. mode.bits \in {1, 2, 4, 8}
      BY <3>1, <1>1, <1>4, PackedFits
    <3> QED BY <3>2, <1>1, <1>4, PackedValuesFit
  <2>2. PackedValues[pixel] = Packed(p)
    BY <1>1 DEF PackedValues
  <2>3. raw' = AddColorBits(raw, pixel, mode.bits, PackedValues[pixel])
    <3>1. mode.type = "grey" => raw' = AddColorBits(raw, pixel, mode.bits, p[1] \div 2^(8 - mode.bits))
      BY <1>1 DEF ToPixel
    <3>2. mode.type # "grey" => raw' = AddColorBits(raw, pixel, mode.bits, PaletteIndex(p))
      BY <1>1, <1>4 DEF ToPixel
    <3> QED BY <3>1, <3>2, <2>2 DEF Packed
  <2>4. IsPacking(raw, PackedValues, mode.bits, pixel)
    BY <1>1, <1>4 DEF Converted
  <2>5. pixel \in 0..Len(picture) - 1 /\ Len(picture) \in Nat
    BY <1>1
  <2>6. IsPacking(raw', PackedValues, mode.bits, pixel + 1)
    BY <2>1, <2>3, <2>4, <2>5, ValuePacked
  <2>7. PackedValues' = PackedValues
    BY <1>1 DEF PackedValues, Packed, PaletteIndex
  <2> QED BY <1>1, <1>4, <2>6, <2>7 DEF Converted, IsPacking, ReversedBits
<1> QED BY <1>3, <1>4

\* A reader sees what was converted.
LEMMA PixelIsBack ==
  ASSUME picture \in Seq(PixelValues), palette \in Seq(PixelValues), ModeFits, Converted(Len(picture)),
         NEW i \in 0..Len(picture) - 1
  PROVE  PixelColor(raw, i) = picture[i + 1]
<1>1. CASE mode.type = "rgb"
  BY <1>1 DEF Converted, PixelColor
<1>2. CASE mode.type # "rgb"
  <2>1. ReversedBits(raw, i, mode.bits) = PackedValues[i]
    BY <1>2 DEF Converted, IsPacking
  <2>2. PackedValues[i] = Packed(picture[i + 1])
    BY DEF PackedValues
  <2>3. i + 1 \in 1..Len(picture)
    OBVIOUS
  <2>4. CASE mode.type = "grey"
    <3> DEFINE v == (Packed(picture[i + 1]) * 255) \div (2^mode.bits - 1)
    <3>1. PixelColor(raw, i) = <<v, v, v>>
      BY <2>1, <2>2, <2>4 DEF PixelColor
    <3>2. picture[i + 1] = <<v, v, v>>
      BY <1>2, <2>3, <2>4, PackedFits
    <3> QED BY <3>1, <3>2
  <2>5. CASE mode.type # "grey"
    <3>1. PixelColor(raw, i) = palette[Packed(picture[i + 1]) + 1]
      BY <1>2, <2>1, <2>2, <2>5 DEF PixelColor
    <3>2. palette[Packed(picture[i + 1]) + 1] = picture[i + 1]
      BY <1>2, <2>3, <2>5, PackedFits
    <3> QED BY <3>1, <3>2
  <2> QED BY <2>4, <2>5
<1> QED BY <1>1, <1>2

\* Nothing is converted to nothing.
LEMMA NothingConverted ==
  ASSUME picture \in Seq(PixelValues), ModeFits
  PROVE  raw = <<>> => Converted(0)
<1> SUFFICES ASSUME raw = <<>> PROVE Converted(0)
  OBVIOUS
<1>1. CASE mode.type = "rgb"
  BY <1>1 DEF Converted
<1>2. CASE mode.type # "rgb"
  <2>1. mode.bits \in {1, 2, 4, 8}
    BY <1>2 DEF ModeFits, RGB
  <2>2. 0 % (8 \div mode.bits) = 0 /\ (0 * mode.bits + 7) \div 8 = 0
    BY <2>1
  <2> QED BY <1>2, <2>2 DEF Converted, IsPacking
<1> QED BY <1>1, <1>2

\* A picture that is given starts with nothing known of it.
LEMMA ColorStartInv ==
  ASSUME NEW p \in Seq(PixelValues), NEW pc \in {"idle", "profile"}, ColorStart(p, pc)
  PROVE  ColorIInv
<1>1. /\ picture \in Seq(PixelValues) /\ colorPc = pc /\ pixel = 0
      /\ colored = FALSE /\ greybits = 1 /\ numcolors = 0 /\ palette = <<>>
      /\ raw = <<>> /\ shown = <<>> /\ PaletteMax \in 1..256
  BY ColorAssumption DEF ColorStart, PixelValues
<1>2. Profiled(0)
  <2>1. palette \in Seq(PixelValues) /\ Len(palette) = 0
    BY <1>1
  <2>2. 1..0 = {}
    OBVIOUS
  <2>3. colored \in BOOLEAN /\ greybits \in {1, 2, 4, 8} /\ numcolors \in 0..PaletteMax + 1
    <3>1. colored \in BOOLEAN
      BY <1>1
    <3>2. greybits \in {1, 2, 4, 8}
      BY <1>1
    <3>3. numcolors \in 0..PaletteMax + 1
      BY <1>1
    <3> QED BY <3>1, <3>2, <3>3
  <2>4. Len(palette) = numcolors /\ Len(palette) <= PaletteMax
    BY <1>1, <2>1
  <2>5. \A i \in 1..0 : IsShownBy(picture[i], greybits) /\ Known(picture[i])
    BY <2>2
  <2> QED BY <2>1, <2>3, <2>4, <2>5 DEF Profiled
<1> QED BY <1>1, <1>2 DEF ColorIInv

\* What does not change.
LEMMA ColorStays ==
  ASSUME UNCHANGED <<picture, palette, mode, raw>>
  PROVE  /\ ModeFits' = ModeFits
         /\ Converted(Len(picture))' = Converted(Len(picture))
         /\ pixel' = pixel => Converted(pixel)' = Converted(pixel)
<1>1. ModeFits' = ModeFits
  BY DEF ModeFits, Known
<1>2. PackedValues' = PackedValues
  BY DEF PackedValues, Packed, PaletteIndex
<1>3. ASSUME NEW n PROVE (mode'.type = "rgb") = (mode.type = "rgb") /\ IsPacking(raw', PackedValues', mode'.bits, n) = IsPacking(raw, PackedValues, mode.bits, n)
  BY <1>2
<1>4. Converted(Len(picture))' = Converted(Len(picture))
  BY <1>3 DEF Converted
<1>5. pixel' = pixel => Converted(pixel)' = Converted(pixel)
  BY <1>3 DEF Converted
<1> QED BY <1>1, <1>4, <1>5

\* Nor does what the profile knows of it.
LEMMA ProfileStays ==
  ASSUME UNCHANGED <<colored, greybits, numcolors, palette, picture, pixel>>
  PROVE  Profiled(pixel)' = Profiled(pixel) /\ Profiled(Len(picture))' = Profiled(Len(picture))
BY DEF Profiled, Known

\* One more element of what has been read so far.
LEMMA NextAppended ==
  ASSUME NEW S, NEW s \in Seq(S), NEW n \in 0..Len(s), n < Len(s)
  PROVE  Append(SubSeq(s, 1, n), s[n + 1]) = SubSeq(s, 1, n + 1)
OBVIOUS

\* One step of the encoder or of the reader.
LEMMA ColorStepInv ==
  ASSUME ColorIInv, [ColorNext]_colorVars
  PROVE  ColorIInv'
<1> USE DEF profileVars
<1>1. /\ pixel \in 0..Len(picture) /\ picture \in Seq(PixelValues)
  BY DEF ColorIInv
<1>2. CASE ProfilePixel
  <2>1. Profiled(pixel)'
    BY <1>2, ProfileGrows
  <2>2. /\ colorPc = "profile" /\ colorPc' = "profile" /\ picture' = picture /\ pixel' \in 0..Len(picture)
        /\ raw' = raw /\ shown' = shown
    BY <1>1, <1>2 DEF ProfilePixel
  <2> HIDE DEF PixelValues
  <2> QED BY <2>1, <2>2 DEF ColorIInv, PixelValues
<1>3. CASE ProfileDone
  <2>1. /\ colorPc = "profile" /\ colorPc' = "choose" /\ UNCHANGED <<picture, pixel, profileVars, mode, raw, shown>>
        /\ pixel = Len(picture)
    BY <1>3 DEF ProfileDone
  <2>2. Profiled(Len(picture))
    BY <2>1 DEF ColorIInv
  <2>3. Profiled(Len(picture))'
    BY <2>1, <2>2 DEF Profiled, Known
  <2> QED BY <2>1, <2>3 DEF ColorIInv
<1>4. CASE ChooseMode
  <2>1. ModeFits'
    BY <1>4, ChosenFits
  <2>2. /\ colorPc = "choose" /\ colorPc' = "convert" /\ pixel' = 0 /\ UNCHANGED <<picture, profileVars, raw, shown>>
        /\ raw = <<>> /\ palette \in Seq(PixelValues) /\ shown = <<>>
    BY <1>4 DEF ColorIInv, ChooseMode, Profiled
  <2>3. Converted(0)'
    <3>1. picture' \in Seq(PixelValues) /\ raw' = <<>>
      BY <1>1, <2>2
    <3>2. (picture \in Seq(PixelValues) /\ ModeFits => (raw = <<>> => Converted(0)))'
      BY NothingConverted, PTL
    <3> QED BY <2>1, <3>1, <3>2
  <2> QED BY <1>1, <2>1, <2>2, <2>3 DEF ColorIInv
<1>5. CASE ConvertPixel
  <2>1. Converted(pixel)'
    BY <1>5, ConversionGrows
  <2>2. /\ colorPc = "convert" /\ colorPc' = "convert" /\ picture' = picture /\ pixel' \in 0..Len(picture)
        /\ UNCHANGED <<profileVars, mode, shown>> /\ ModeFits /\ palette \in Seq(PixelValues)
    BY <1>1, <1>5 DEF ColorIInv, ConvertPixel
  <2>3. ModeFits'
    BY <2>2 DEF ModeFits, Known
  <2> QED BY <2>1, <2>2, <2>3 DEF ColorIInv
<1>6. CASE ConvertDone
  <2>1. /\ colorPc = "convert" /\ colorPc' = "read" /\ pixel' = 0 /\ pixel = Len(picture)
        /\ UNCHANGED <<picture, profileVars, mode, raw, shown>> /\ shown = <<>>
        /\ ModeFits /\ palette \in Seq(PixelValues) /\ Converted(Len(picture))
    BY <1>6 DEF ColorIInv, ConvertDone
  <2>2. ModeFits' /\ Converted(Len(picture))'
    BY <2>1, ColorStays
  <2>3. shown' = SubSeq(picture', 1, pixel')
    BY <2>1, <1>1
  <2> QED BY <1>1, <2>1, <2>2, <2>3 DEF ColorIInv
<1>7. CASE ReadPixel
  <2>1. /\ colorPc = "read" /\ colorPc' = "read" /\ pixel' = pixel + 1 /\ pixel < Len(picture)
        /\ UNCHANGED <<picture, profileVars, mode, raw>> /\ shown = SubSeq(picture, 1, pixel)
        /\ ModeFits /\ palette \in Seq(PixelValues) /\ Converted(Len(picture))
        /\ shown' = Append(shown, PixelColor(raw, pixel))
    BY <1>7 DEF ColorIInv, ReadPixel
  <2>2. ModeFits' /\ Converted(Len(picture))'
    BY <2>1, ColorStays
  <2>3. PixelColor(raw, pixel) = picture[pixel + 1]
    BY <1>1, <2>1, PixelIsBack
  <2>4. shown' = SubSeq(picture, 1, pixel + 1)
    BY <1>1, <2>1, <2>3, NextAppended
  <2> QED BY <1>1, <2>1, <2>2, <2>4 DEF ColorIInv
<1>8. CASE PixelsRead
  <2>1. /\ colorPc = "read" /\ colorPc' = "done" /\ UNCHANGED <<picture, pixel, profileVars, mode, raw, shown>>
        /\ ModeFits /\ palette \in Seq(PixelValues) /\ Converted(Len(picture))
    BY <1>8 DEF ColorIInv, PixelsRead
  <2>2. ModeFits' /\ Converted(Len(picture))'
    BY <2>1, ColorStays
  <2> QED BY <1>1, <2>1, <2>2 DEF ColorIInv
<1>9. CASE UNCHANGED colorVars
  <2>1. /\ UNCHANGED <<picture, palette, mode, raw>>
        /\ UNCHANGED <<colored, greybits, numcolors, palette, picture>> /\ UNCHANGED <<colorPc, pixel, shown>>
    BY <1>9 DEF colorVars
  <2>2. /\ Profiled(pixel)' = Profiled(pixel) /\ Profiled(Len(picture))' = Profiled(Len(picture))
        /\ Converted(pixel)' = Converted(pixel) /\ Converted(Len(picture))' = Converted(Len(picture))
        /\ ModeFits' = ModeFits
    BY <2>1, ColorStays, ProfileStays
  <2> QED BY <2>1, <2>2 DEF ColorIInv
<1> QED BY <1>2, <1>3, <1>4, <1>5, <1>6, <1>7, <1>8, <1>9 DEF ColorNext

\* The invariant says what the property does.
LEMMA ColorInvLossless ==
  ASSUME ColorIInv
  PROVE  ColorModeIsLossless
<1>1. \A i \in 1..Len(shown) : shown[i] = picture[i]
  <2>1. CASE colorPc \in {"read", "done"}
    BY <2>1 DEF ColorIInv
  <2>2. CASE colorPc \notin {"read", "done"}
    BY <2>2 DEF ColorIInv
  <2> QED BY <2>1, <2>2
<1>2. ASSUME colorPc \in {"read", "done"} PROVE Len(raw) = (Len(picture) * BitsPerPixel(mode) + 7) \div 8
  <2>1. Converted(Len(picture)) /\ Len(picture) \in Nat
    BY <1>2 DEF ColorIInv
  <2>2. CASE mode.type = "rgb"
    <3>1. Len(raw) = 3 * Len(picture) /\ BitsPerPixel(mode) = 24
      BY <2>1, <2>2 DEF Converted, BitsPerPixel
    <3> QED BY <2>1, <3>1
  <2>3. CASE mode.type # "rgb"
    BY <2>1, <2>3 DEF Converted, IsPacking, BitsPerPixel
  <2> QED BY <2>2, <2>3
<1> QED BY <1>1, <1>2 DEF ColorModeIsLossless

\* The way the pixels are stored loses none of them, for every picture.
THEOREM ColorLossless == ColorSpec => []ColorModeIsLossless
<1>1. ColorInit => ColorIInv
  BY ColorStartInv, ColorAssumption DEF ColorInit, PixelValues
<1>2. ColorIInv /\ [ColorNext]_colorVars => ColorIInv'
  BY ColorStepInv
<1>3. ColorIInv => ColorModeIsLossless
  BY ColorInvLossless
<1> QED BY <1>1, <1>2, <1>3, PTL DEF ColorSpec

-----------------------------------------------------------------------------
\* The scanlines: bits and bytes.

BitValue == {0, 1}

\* A row of bits is filled up to whole bytes, by zeros behind it.
LEMMA PaddingIsWhole ==
  ASSUME NEW row \in Seq(BitValue)
  PROVE  /\ PaddedBits(row) \in Seq(BitValue)
         /\ Len(PaddedBits(row)) = 8 * ((Len(row) + 7) \div 8)
         /\ \A i \in 1..Len(row) : PaddedBits(row)[i] = row[i]
<1> DEFINE n == Len(row)
           k == (8 - (n % 8)) % 8
           zeros == [i \in 1..k |-> 0]
<1>1. n \in Nat
  OBVIOUS
<1>2. k \in Nat /\ n + k = 8 * ((n + 7) \div 8)
  BY <1>1
<1>3. zeros \in Seq(BitValue) /\ Len(zeros) = k
  <2>1. k \in Nat
    BY <1>2
  <2> HIDE DEF k
  <2> QED BY <2>1 DEF BitValue
<1>4. PaddedBits(row) = row \o zeros
  BY DEF PaddedBits
<1> HIDE DEF k, zeros
<1>5. /\ row \o zeros \in Seq(BitValue) /\ Len(row \o zeros) = n + k
      /\ \A i \in 1..n : (row \o zeros)[i] = row[i]
  BY <1>1, <1>2, <1>3
<1> QED BY <1>2, <1>4, <1>5

\* Eight bits are a byte, and can be read off it again.
LEMMA BitsOfByte ==
  ASSUME NEW bits \in Seq(BitValue), NEW b \in Nat, 8 * b <= Len(bits), b >= 1
  PROVE  /\ PackedByte(bits, b) \in Byte256
         /\ \A r \in 0..7 : (PackedByte(bits, b) \div BitWeight[1 + r]) % 2 = bits[8 * (b - 1) + r + 1]
<1> DEFINE byte == PackedByte(bits, b)
           b1 == bits[8 * (b - 1) + 1]
           b2 == bits[8 * (b - 1) + 2]
           b3 == bits[8 * (b - 1) + 3]
           b4 == bits[8 * (b - 1) + 4]
           b5 == bits[8 * (b - 1) + 5]
           b6 == bits[8 * (b - 1) + 6]
           b7 == bits[8 * (b - 1) + 7]
           b8 == bits[8 * (b - 1) + 8]
<1>1. /\ b1 \in 0..1 /\ b2 \in 0..1 /\ b3 \in 0..1 /\ b4 \in 0..1
      /\ b5 \in 0..1 /\ b6 \in 0..1 /\ b7 \in 0..1 /\ b8 \in 0..1
  <2>1. \A i \in 1..8 : 8 * (b - 1) + i \in 1..Len(bits)
    OBVIOUS
  <2>2. \A i \in 1..8 : bits[8 * (b - 1) + i] \in 0..1
    BY <2>1 DEF BitValue
  <2> QED BY <2>2
<1>2. byte = 128 * b1 + 64 * b2 + 32 * b3 + 16 * b4 + 8 * b5 + 4 * b6 + 2 * b7 + b8
  BY DEF PackedByte
<1> HIDE DEF byte, b1, b2, b3, b4, b5, b6, b7, b8
<1>3. byte \in Byte256
  BY <1>1, <1>2 DEF Byte256
<1>4. (byte \div 128) % 2 = b1
  BY <1>1, <1>2
<1>5. (byte \div 64) % 2 = b2
  BY <1>1, <1>2
<1>6. (byte \div 32) % 2 = b3
  BY <1>1, <1>2
<1>7. (byte \div 16) % 2 = b4
  BY <1>1, <1>2
<1>8. (byte \div 8) % 2 = b5
  BY <1>1, <1>2
<1>9. (byte \div 4) % 2 = b6
  BY <1>1, <1>2
<1>10. (byte \div 2) % 2 = b7
  BY <1>1, <1>2
<1>11. (byte \div 1) % 2 = b8
  BY <1>1, <1>2
<1>12. \A r \in 0..7 : (byte \div BitWeight[1 + r]) % 2 = bits[8 * (b - 1) + r + 1]
  <2>1. /\ BitWeight[1] = 128 /\ BitWeight[2] = 64 /\ BitWeight[3] = 32 /\ BitWeight[4] = 16
        /\ BitWeight[5] = 8 /\ BitWeight[6] = 4 /\ BitWeight[7] = 2 /\ BitWeight[8] = 1
    BY DEF BitWeight
  <2>2. TAKE r \in 0..7
  <2>3. CASE r = 0
    <3>1. 1 + r = 1 /\ 8 * (b - 1) + r + 1 = 8 * (b - 1) + 1
      BY <2>3
    <3> QED BY <1>4, <2>1, <3>1 DEF b1
  <2>4. CASE r = 1
    <3>1. 1 + r = 2 /\ 8 * (b - 1) + r + 1 = 8 * (b - 1) + 2
      BY <2>4
    <3> QED BY <1>5, <2>1, <3>1 DEF b2
  <2>5. CASE r = 2
    <3>1. 1 + r = 3 /\ 8 * (b - 1) + r + 1 = 8 * (b - 1) + 3
      BY <2>5
    <3> QED BY <1>6, <2>1, <3>1 DEF b3
  <2>6. CASE r = 3
    <3>1. 1 + r = 4 /\ 8 * (b - 1) + r + 1 = 8 * (b - 1) + 4
      BY <2>6
    <3> QED BY <1>7, <2>1, <3>1 DEF b4
  <2>7. CASE r = 4
    <3>1. 1 + r = 5 /\ 8 * (b - 1) + r + 1 = 8 * (b - 1) + 5
      BY <2>7
    <3> QED BY <1>8, <2>1, <3>1 DEF b5
  <2>8. CASE r = 5
    <3>1. 1 + r = 6 /\ 8 * (b - 1) + r + 1 = 8 * (b - 1) + 6
      BY <2>8
    <3> QED BY <1>9, <2>1, <3>1 DEF b6
  <2>9. CASE r = 6
    <3>1. 1 + r = 7 /\ 8 * (b - 1) + r + 1 = 8 * (b - 1) + 7
      BY <2>9
    <3> QED BY <1>10, <2>1, <3>1 DEF b7
  <2>10. CASE r = 7
    <3>1. 1 + r = 8 /\ 8 * (b - 1) + r + 1 = 8 * (b - 1) + 8
      BY <2>10
    <3> QED BY <1>11, <2>1, <3>1 DEF b8
  <2> QED BY <2>3, <2>4, <2>5, <2>6, <2>7, <2>8, <2>9, <2>10
<1> QED BY <1>3, <1>12 DEF byte

\* A packed row is bytes, as many as rows of that length have.
LEMMA PackedIsBytes ==
  ASSUME NEW row \in Seq(BitValue)
  PROVE  PackedRow(row) \in Seq(Byte256) /\ Len(PackedRow(row)) = (Len(row) + 7) \div 8
<1> DEFINE bits == PaddedBits(row)
           m == (Len(row) + 7) \div 8
<1>1. bits \in Seq(BitValue) /\ Len(bits) = 8 * m /\ m \in Nat
  BY PaddingIsWhole
<1>2. Len(bits) \div 8 = m
  BY <1>1
<1>3. PackedRow(row) = [b \in 1..m |-> PackedByte(bits, b)]
  BY <1>2 DEF PackedRow
<1> HIDE DEF bits, m
<1>4. \A b \in 1..m : PackedByte(bits, b) \in Byte256
  BY <1>1, BitsOfByte
<1>5. PackedRow(row) \in Seq(Byte256) /\ Len(PackedRow(row)) = m
  BY <1>1, <1>3, <1>4
<1> QED BY <1>5 DEF m

\* removePaddingBits undoes addPaddingBits.
LEMMA UnpackedIsRow ==
  ASSUME NEW row \in Seq(BitValue)
  PROVE  UnpackedRow(PackedRow(row), Len(row)) = row
<1> DEFINE bits == PaddedBits(row)
           m == (Len(row) + 7) \div 8
           n == Len(row)
<1>1. bits \in Seq(BitValue) /\ Len(bits) = 8 * m /\ m \in Nat /\ n \in Nat /\ \A i \in 1..n : bits[i] = row[i]
  BY PaddingIsWhole
<1>2. PackedRow(row) = [b \in 1..m |-> PackedByte(bits, b)]
  BY <1>1 DEF PackedRow
<1>3. ASSUME NEW i \in 1..n
      PROVE  (PackedRow(row)[(i - 1) \div 8 + 1] \div BitWeight[1 + ((i - 1) % 8)]) % 2 = row[i]
  <2> DEFINE b == (i - 1) \div 8 + 1
             r == (i - 1) % 8
  <2>1. r \in 0..7 /\ 8 * (b - 1) + r + 1 = i /\ b \in Nat \ {0}
    <3>1. i - 1 \in Nat /\ i \in Nat
      BY <1>1
    <3> QED BY ONLY <3>1
  <2>5. b <= m
    BY <1>1
  <2> HIDE DEF b, r, m, bits
  <2>6. b \in 1..m
    BY <1>1, <2>1, <2>5
  <2>2. PackedRow(row)[b] = PackedByte(bits, b)
    BY <1>2, <2>6
  <2>3. b \in Nat /\ b >= 1 /\ 8 * b <= Len(bits)
    BY <1>1, <2>6
  <2>4. (PackedByte(bits, b) \div BitWeight[1 + r]) % 2 = bits[8 * (b - 1) + r + 1]
    BY <1>1, <2>1, <2>3, BitsOfByte
  <2> QED BY <1>1, <2>1, <2>2, <2>4 DEF b, r
<1>4. UnpackedRow(PackedRow(row), n) = [i \in 1..n |-> row[i]]
  BY <1>3 DEF UnpackedRow
<1> QED BY <1>4

-----------------------------------------------------------------------------
\* Scanlines and predictions.

\* The scanlines of an image are rows of bytes of one length, as many as the
\* image has.
LEMMA ScanlinesAreBytes ==
  ASSUME IsImage(image)
  PROVE  /\ Scanlines \in Seq(Seq(Byte256)) /\ Len(Scanlines) = Len(image.rows)
         /\ \A y, z \in 1..Len(Scanlines) : Len(Scanlines[y]) = Len(Scanlines[z])
<1> DEFINE rows == image.rows
<1>1. /\ image.bpp \in Nat \ {0} /\ Len(rows) \in Nat
      /\ rows \in Seq(Seq(IF image.bpp < 8 THEN {0, 1} ELSE Byte256))
      /\ \A y, z \in 1..Len(rows) : Len(rows[y]) = Len(rows[z])
  <2>1. IsImage(image)
    BY FilterAssumption
  <2>2. image.rows \in Seq(Seq(IF image.bpp < 8 THEN {0, 1} ELSE Byte256))
    BY <2>1 DEF IsImage
  <2> HIDE DEF rows
  <2>3. Len(rows) \in Nat
    BY <2>2 DEF rows
  <2> QED BY <2>1, <2>3 DEF IsImage, rows
<1> HIDE DEF rows
<1>2. CASE image.bpp < 8
  <2>1. rows \in Seq(Seq(BitValue))
    BY <1>1, <1>2 DEF BitValue
  <2>2. Scanlines = [y \in 1..Len(rows) |-> PackedRow(rows[y])]
    BY <1>2 DEF Scanlines, rows
  <2>3. \A y \in 1..Len(rows) : rows[y] \in Seq(BitValue)
    BY <2>1
  <2>4. \A y \in 1..Len(rows) :
          PackedRow(rows[y]) \in Seq(Byte256) /\ Len(PackedRow(rows[y])) = (Len(rows[y]) + 7) \div 8
    BY <2>3, PackedIsBytes
  <2>5. Scanlines \in Seq(Seq(Byte256)) /\ Len(Scanlines) = Len(rows)
    <3>1. \A y \in 1..Len(rows) : PackedRow(rows[y]) \in Seq(Byte256)
      BY <2>4
    <3> DEFINE S == Seq(Byte256)
    <3> HIDE DEF S
    <3>2. [y \in 1..Len(rows) |-> PackedRow(rows[y])] \in Seq(S)
      BY <1>1, <3>1 DEF S
    <3> QED BY <1>1, <2>2, <3>2 DEF S
  <2>6. \A y \in 1..Len(rows) : Scanlines[y] = PackedRow(rows[y])
    BY <2>2
  <2>7. \A y, z \in 1..Len(rows) : Len(Scanlines[y]) = Len(Scanlines[z])
    BY <1>1, <2>4, <2>6
  <2> QED BY <2>5, <2>7 DEF rows
<1>3. CASE ~(image.bpp < 8)
  BY <1>1, <1>3 DEF Scanlines, rows
<1> QED BY <1>2, <1>3

\* Bytes are numbers.
LEMMA BytesAreNumbers == \A b \in Byte256 : b \in Int
BY DEF Byte256

\* The line above, as an argument of a prediction.
IsLineAbove(above, i) == above = <<>> \/ \A j \in 1..i : above[j] \in Byte256

\* paethPredictor returns one of its arguments.
LEMMA PaethIsOneOfThem ==
  ASSUME NEW a, NEW b, NEW c
  PROVE  Paeth(a, b, c) \in {a, b, c}
BY DEF Paeth

\* A prediction is a number and looks only at the bytes before its place.
LEMMA PredictedFromTheLeft ==
  ASSUME IsImage(image), NEW t \in 0..4, NEW i \in Nat \ {0},
         NEW above, IsLineAbove(above, i), NEW line, NEW other,
         \A j \in 1..i - 1 : line[j] \in Byte256 /\ other[j] = line[j]
  PROVE  /\ Predicted(t, line, above, i) \in Int
         /\ Predicted(t, other, above, i) = Predicted(t, line, above, i)
<1> DEFINE w == Bytewidth
           leftByte(l) == IF i > w THEN l[i - w] ELSE 0
           up == IF above # <<>> THEN above[i] ELSE 0
<1>1. w \in Nat \ {0}
  BY FilterAssumption DEF IsImage, Bytewidth
<1> HIDE DEF w
<1>2. leftByte(other) = leftByte(line) /\ leftByte(line) \in Int
  BY <1>1 DEF Byte256
<1>3. up \in Int
  <2>1. CASE above = <<>>
    BY <2>1
  <2>2. CASE above # <<>>
    <3>1. above[i] \in Byte256
      BY <2>2 DEF IsLineAbove
    <3> QED BY <2>2, <3>1, BytesAreNumbers
  <2> QED BY <2>1, <2>2
<1>4. \A l : Predicted(t, l, above, i) =
        CASE t = 0 -> 0
          [] t = 1 -> leftByte(l)
          [] t = 2 -> up
          [] t = 3 -> (leftByte(l) + up) \div 2
          [] t = 4 /\ above = <<>> -> leftByte(l)
          [] t = 4 /\ above # <<>> /\ i <= w -> up
          [] OTHER -> Paeth(leftByte(l), up, above[i - w])
  BY DEF Predicted, w
<1>5. t = 4 /\ above # <<>> /\ ~(i <= w) => above[i - w] \in Int
  <2> SUFFICES ASSUME above # <<>>, ~(i <= w) PROVE above[i - w] \in Int
    OBVIOUS
  <2>1. i - w \in 1..i
    BY <1>1
  <2>2. above[i - w] \in Byte256
    BY <2>1 DEF IsLineAbove
  <2> QED BY <2>2, BytesAreNumbers
<1> HIDE DEF leftByte, up
<1>6. Predicted(t, other, above, i) = Predicted(t, line, above, i)
  BY <1>2, <1>4
<1>7. Predicted(t, line, above, i) \in Int
  <2>1. CASE t = 4 /\ above # <<>> /\ ~(i <= w)
    <3>1. Predicted(t, line, above, i) = Paeth(leftByte(line), up, above[i - w])
      BY <1>4, <2>1
    <3> QED BY <1>2, <1>3, <1>5, <2>1, <3>1, PaethIsOneOfThem
  <2>2. CASE t = 3
    <3>1. Predicted(t, line, above, i) = (leftByte(line) + up) \div 2
      BY <1>4, <2>2
    <3> QED BY <1>2, <1>3, <3>1
  <2>3. CASE t \in {0, 1, 2} \/ (t = 4 /\ (above = <<>> \/ i <= w))
    <3>1. Predicted(t, line, above, i) \in {0, leftByte(line), up}
      BY <1>4, <2>3
    <3> QED BY <1>2, <1>3, <3>1
  <2> QED BY <2>1, <2>2, <2>3
<1> QED BY <1>6, <1>7

\* What is taken off a byte modulo 256 can be put back.
LEMMA DifferenceUndone ==
  ASSUME NEW b \in Byte256, NEW p \in Int
  PROVE  (((b - p) % 256) + p) % 256 = b
BY DEF Byte256

-----------------------------------------------------------------------------
\* What the invariant says of the rows.

\* After padding the scanlines are rows of bytes of one length.
LEMMA LinesAreBytes ==
  ASSUME FilterTypeOK
  PROVE  /\ lines \in Seq(Seq(Byte256))
         /\ \A y, z \in 1..Len(lines) : Len(lines[y]) = Len(lines[z])
BY ScanlinesAreBytes DEF FilterTypeOK

\* The line above a scanline holds bytes wherever the scanline does.
LEMMA AboveIsBytes ==
  ASSUME FilterTypeOK, NEW y \in 1..Len(lines), NEW i \in 1..Len(lines[y])
  PROVE  IsLineAbove(LineAbove(lines, y), i)
<1>1. /\ lines \in Seq(Seq(Byte256)) /\ Len(lines) \in Nat
      /\ \A z \in 1..Len(lines) : Len(lines[z]) = Len(lines[y])
  BY LinesAreBytes
<1>2. CASE y = 1
  BY <1>2 DEF LineAbove, IsLineAbove
<1>3. CASE y # 1
  <2>1. y - 1 \in 1..Len(lines)
    BY <1>1, <1>3
  <2>2. lines[y - 1] \in Seq(Byte256) /\ Len(lines[y - 1]) = Len(lines[y])
    BY <1>1, <2>1
  <2>3. \A j \in 1..i : lines[y - 1][j] \in Byte256
    BY <2>2
  <2> QED BY <1>3, <2>3 DEF LineAbove, IsLineAbove
<1> QED BY <1>2, <1>3

\* A filtered row is bytes.
LEMMA AttemptIsBytes ==
  ASSUME FilterTypeOK, NEW t \in 0..4, Row \in 1..Len(lines)
  PROVE  Attempt(t) \in Seq(Byte256)
<1> DEFINE line == lines[Row]
           above == LineAbove(lines, Row)
<1>1. line \in Seq(Byte256) /\ Len(line) \in Nat /\ IsImage(image)
  BY LinesAreBytes DEF FilterTypeOK
<1>2. ASSUME NEW i \in 1..Len(line)
      PROVE  FilteredByte(t, line, above, i) \in Byte256
  <2>1. IsLineAbove(above, i)
    BY AboveIsBytes
  <2>2. \A j \in 1..i : line[j] \in Byte256
    BY <1>1
  <2> HIDE DEF line, above
  <2>3. i \in Nat \ {0} /\ \A j \in 1..i - 1 : line[j] \in Byte256 /\ line[j] = line[j]
    BY <1>1, <2>2
  <2>4. Predicted(t, line, above, i) \in Int
    BY <1>1, <2>1, <2>3, PredictedFromTheLeft
  <2>5. line[i] \in Int
    BY <1>1, <2>2, BytesAreNumbers
  <2>6. \A d \in Int : d % 256 \in 0..255
    OBVIOUS
  <2>7. line[i] - Predicted(t, line, above, i) \in Int
    BY <2>4, <2>5
  <2> QED BY <2>6, <2>7 DEF FilteredByte, Byte256
<1> HIDE DEF line, above
<1>3. [i \in 1..Len(line) |-> FilteredByte(t, line, above, i)] \in Seq(Byte256)
  BY <1>1, <1>2
<1> QED BY <1>3 DEF Attempt, line, above

\* What the reader computes for a byte is the byte of the scanline.
LEMMA RestoredByte ==
  ASSUME FilterIInv, UnfilterByte
  PROVE  /\ ReconRow \in 1..Len(lines) /\ Len(reconLine) + 1 \in 1..Len(lines[ReconRow])
         /\ reconLine' = Append(reconLine, lines[ReconRow][Len(reconLine) + 1])
<1> DEFINE y == ReconRow
           i == Len(reconLine) + 1
           row == filtered[y]
           line == lines[y]
           above == LineAbove(lines, y)
<1>0. FilterTypeOK /\ RowsAreFiltered /\ RowsAreRestored /\ IsImage(image)
  BY DEF FilterIInv, FilterTypeOK
<1>1. /\ lines \in Seq(Seq(Byte256)) /\ Len(lines) \in Nat /\ Len(recon) \in Nat
      /\ reconLine \in Seq(Byte256) /\ Len(reconLine) \in Nat /\ Len(filtered) \in 0..Len(lines)
      /\ filtered \in Seq([type : 0..4, bytes : Seq(Byte256)])
  BY <1>0, LinesAreBytes DEF FilterTypeOK, RowsAreFiltered
<1>2. y \in 1..Len(filtered) /\ y \in 1..Len(lines)
  BY <1>1 DEF UnfilterByte, ReconRow
<1>3. line \in Seq(Byte256)
  BY <1>1, <1>2
<1>4. row.bytes = [k \in 1..Len(line) |-> FilteredByte(row.type, line, above, k)]
  BY <1>0, <1>2 DEF RowsAreFiltered, FilteredFrom
<1>40. row.type \in 0..4
  <2> DEFINE ImageRows == [type : 0..4, bytes : Seq(Byte256)]
  <2>1. filtered \in Seq(ImageRows)
    BY <1>1
  <2> HIDE DEF ImageRows
  <2>2. row \in ImageRows
    BY <1>2, <2>1
  <2> QED BY <2>2 DEF ImageRows
<1>5. Len(row.bytes) = Len(line)
  BY <1>3, <1>4
<1>6. i \in 1..Len(line)
  BY <1>1, <1>3, <1>5 DEF UnfilterByte
<1>7. reconLine' = Append(reconLine, (row.bytes[i] + Predicted(row.type, reconLine, LineAbove(recon, y), i)) % 256)
  BY DEF UnfilterByte
<1>8. LineAbove(recon, y) = above
  <2>1. y # 1 => y - 1 \in 1..Len(recon)
    BY <1>1, <1>2 DEF ReconRow
  <2> QED BY <1>0, <2>1 DEF LineAbove, RowsAreRestored
<1>9. row.bytes[i] = (line[i] - Predicted(row.type, line, above, i)) % 256
  BY <1>4, <1>6 DEF FilteredByte
<1>10. IsLineAbove(above, i)
  BY <1>0, <1>2, <1>6, AboveIsBytes
<1>11. \A j \in 1..i - 1 : line[j] \in Byte256 /\ reconLine[j] = line[j]
  BY <1>0, <1>1, <1>3, <1>6 DEF RowsAreRestored
<1> HIDE DEF i, row, line, above
<1>12. /\ Predicted(row.type, line, above, i) \in Int
       /\ Predicted(row.type, reconLine, above, i) = Predicted(row.type, line, above, i)
  <2>1. i \in Nat \ {0}
    BY <1>3, <1>6
  <2> QED BY <1>0, <1>40, <1>10, <1>11, <2>1, PredictedFromTheLeft
<1>13. line[i] \in Byte256
  BY <1>3, <1>6
<1>14. (row.bytes[i] + Predicted(row.type, reconLine, above, i)) % 256 = line[i]
  BY <1>9, <1>12, <1>13, DifferenceUndone
<1> QED BY <1>2, <1>6, <1>7, <1>8, <1>14 DEF i, row, line, above

\* Every step keeps the types, and the scanlines are computed once.
LEMMA FilterTypeKept ==
  ASSUME FilterIInv, FilterNext
  PROVE  FilterTypeOK'
<1>0. FilterTypeOK /\ RowsAreFiltered /\ RowsAreRestored
  BY DEF FilterIInv
<1>1. Scanlines' = Scanlines /\ image' = image
  BY DEF FilterNext, AddPadding, TryType, PutRow, FilterDone, UnfilterByte, UnfilterRow,
     UnfilterDone, RemovePadding, Scanlines
<1>2. CASE AddPadding
  BY <1>0, <1>1, <1>2 DEF AddPadding, FilterTypeOK
<1>3. CASE TryType
  <2>1. type \in 0..4 /\ type' = type + 1 /\ bestType' \in {type, bestType} /\ bestType \in 0..4
    <3>1. type \in Nat /\ type <= 4 /\ bestType \in 0..4
      BY <1>0, <1>3 DEF TryType, FilterTypeOK
    <3>2. type' = type + 1 /\ (bestType' = type \/ bestType' = bestType)
      BY <1>3, Zenon DEF TryType
    <3> QED BY <3>1, <3>2
  <2>2. type' \in Nat /\ bestType' \in 0..4
    BY <2>1
  <2> QED BY <1>0, <1>1, <1>3, <2>2 DEF TryType, FilterTypeOK
<1>4. CASE PutRow
  <2> DEFINE t == IF image.zero THEN 0 ELSE bestType
             ImageRows == [type : 0..4, bytes : Seq(Byte256)]
  <2>1. t \in 0..4 /\ type' \in Nat /\ filtered \in Seq(ImageRows)
    BY <1>0, <1>4 DEF PutRow, FilterTypeOK
  <2>2. Row \in 1..Len(lines)
    BY <1>0, <1>4, <2>1, LinesAreBytes DEF PutRow, Row
  <2>3. [type |-> t, bytes |-> Attempt(t)] \in ImageRows
    BY <1>0, <2>1, <2>2, AttemptIsBytes
  <2>4. filtered' \in Seq(ImageRows)
    BY <1>4, <2>1, <2>3 DEF PutRow
  <2> QED BY <1>0, <1>1, <1>4, <2>1, <2>4 DEF PutRow, FilterTypeOK
<1>5. CASE FilterDone \/ UnfilterDone \/ RemovePadding
  BY <1>0, <1>1, <1>5 DEF FilterDone, UnfilterDone, RemovePadding, FilterTypeOK
<1>6. CASE UnfilterByte
  <2>1. ReconRow \in 1..Len(lines) /\ Len(reconLine) + 1 \in 1..Len(lines[ReconRow])
    BY <1>6, RestoredByte
  <2>2. lines[ReconRow][Len(reconLine) + 1] \in Byte256
    BY <1>0, <2>1, LinesAreBytes
  <2>3. reconLine' = Append(reconLine, lines[ReconRow][Len(reconLine) + 1])
    BY <1>6, RestoredByte
  <2>4. reconLine' \in Seq(Byte256)
    BY <1>0, <2>2, <2>3 DEF FilterTypeOK
  <2> QED BY <1>0, <1>1, <1>6, <2>4 DEF FilterTypeOK, UnfilterByte
<1>7. CASE UnfilterRow
  BY <1>0, <1>1, <1>7 DEF UnfilterRow, FilterTypeOK
<1> QED BY <1>2, <1>3, <1>4, <1>5, <1>6, <1>7 DEF FilterNext

\* Being filtered from a scanline is about the image and the scanlines.
LEMMA FilteredFromStays ==
  ASSUME UNCHANGED <<image, lines>>, NEW y, NEW row, filtered'[y] = row, FilteredFrom(row, y)
  PROVE  FilteredFrom(filtered[y], y)'
<1>1. lines' = lines /\ image' = image /\ filtered'[y] = row
  OBVIOUS
<1>2. row.bytes = [i \in 1..Len(lines[y]) |-> FilteredByte(row.type, lines[y], LineAbove(lines, y), i)]
  BY DEF FilteredFrom
<1>3. \A i : Predicted(filtered[y].type, lines[y], LineAbove(lines, y), i)'
                = Predicted(row.type, lines[y], LineAbove(lines, y), i)
  BY <1>1 DEF LineAbove, Predicted, Bytewidth, Paeth, Abs
<1>4. \A i : FilteredByte(filtered[y].type, lines[y], LineAbove(lines, y), i)'
                = FilteredByte(row.type, lines[y], LineAbove(lines, y), i)
  BY <1>1, <1>3 DEF FilteredByte
<1> QED BY <1>1, <1>2, <1>4 DEF FilteredFrom

\* The rows that were put out stay the filtered scanlines.
LEMMA FilteredKept ==
  ASSUME FilterIInv, FilterNext
  PROVE  RowsAreFiltered'
<1> DEFINE ImageRows == [type : 0..4, bytes : Seq(Byte256)]
<1>0. /\ FilterTypeOK /\ RowsAreFiltered
      /\ filtered \in Seq(ImageRows) /\ Len(filtered) \in Nat /\ Len(lines) \in Nat
  BY LinesAreBytes DEF FilterIInv, FilterTypeOK
<1>1. CASE AddPadding
  <2>1. Len(filtered) = 0 /\ filtered' = filtered /\ filterPc' = "try"
    <3>1. Len(filtered) <= Len(lines) /\ lines = <<>>
      BY <1>0, <1>1 DEF AddPadding, FilterTypeOK, RowsAreFiltered
    <3> QED BY <1>0, <1>1, <3>1 DEF AddPadding
  <2>2. Len(lines') \in Nat
    BY ScanlinesAreBytes, <1>0, <1>1 DEF AddPadding, FilterTypeOK
  <2> QED BY <2>1, <2>2 DEF RowsAreFiltered
<1>2. CASE PutRow
  <2> DEFINE t == IF image.zero THEN 0 ELSE bestType
             row == [type |-> t, bytes |-> Attempt(t)]
  <2>1. /\ Row <= Len(lines) /\ filtered' = Append(filtered, row)
        /\ UNCHANGED <<image, lines, filterPc>> /\ filterPc = "try"
    BY <1>2 DEF PutRow
  <2>2. FilteredFrom(row, Row)
    BY DEF FilteredFrom, Attempt
  <2>3. t \in 0..4 /\ Row \in 1..Len(lines) /\ Row = Len(filtered) + 1
    BY <1>0, <2>1 DEF Row, FilterTypeOK
  <2>4. row \in ImageRows
    BY <1>0, <2>3, AttemptIsBytes
  <2> HIDE DEF row, ImageRows
  <2>5. /\ Len(filtered') = Len(filtered) + 1
        /\ filtered'[Row] = row /\ \A y \in 1..Len(filtered) : filtered'[y] = filtered[y]
    BY <1>0, <2>1, <2>3, <2>4
  <2>6. \A y \in 1..Len(filtered) + 1 : FilteredFrom(filtered'[y], y)
    BY <1>0, <2>2, <2>3, <2>5 DEF RowsAreFiltered
  <2>7. \A y \in 1..Len(filtered') : FilteredFrom(filtered[y], y)'
    BY <2>1, <2>5, <2>6, FilteredFromStays
  <2> QED BY <1>0, <2>1, <2>3, <2>5, <2>7 DEF RowsAreFiltered
<1>3. CASE FilterDone
  <2>1. UNCHANGED <<image, lines, filtered>> /\ Row > Len(lines)
    BY <1>3 DEF FilterDone
  <2>2. Len(filtered) = Len(lines)
    BY <1>0, <2>1 DEF Row, RowsAreFiltered
  <2>3. \A y \in 1..Len(filtered') : FilteredFrom(filtered[y], y)'
    BY <1>0, <2>1, FilteredFromStays DEF RowsAreFiltered
  <2> QED BY <1>0, <2>1, <2>2, <2>3 DEF RowsAreFiltered
<1>4. CASE TryType \/ UnfilterByte \/ UnfilterRow \/ UnfilterDone \/ RemovePadding
  <2>1. /\ UNCHANGED <<image, lines, filtered>>
        /\ filterPc' \in {"unfilter", "unpad", "done"} => filterPc \in {"unfilter", "unpad", "done"}
    BY <1>4 DEF TryType, UnfilterByte, UnfilterRow, UnfilterDone, RemovePadding
  <2>2. \A y \in 1..Len(filtered') : FilteredFrom(filtered[y], y)'
    BY <1>0, <2>1, FilteredFromStays DEF RowsAreFiltered
  <2> QED BY <1>0, <2>1, <2>2 DEF RowsAreFiltered
<1> QED BY <1>1, <1>2, <1>3, <1>4 DEF FilterNext

\* What the invariant says of the sequences of a state.
LEMMA Lengths ==
  ASSUME FilterIInv
  PROVE  /\ lines \in Seq(Seq(Byte256)) /\ Len(lines) \in Nat
         /\ Len(filtered) \in Nat
         /\ recon \in Seq(Seq(Byte256)) /\ Len(recon) \in Nat
         /\ reconLine \in Seq(Byte256) /\ Len(reconLine) \in Nat
BY LinesAreBytes DEF FilterIInv, FilterTypeOK

\* A complete row of the reader is the scanline.
LEMMA CompleteRow ==
  ASSUME FilterIInv, UnfilterRow
  PROVE  ReconRow \in 1..Len(lines) /\ reconLine = lines[ReconRow]
<1> DEFINE y == ReconRow
           line == lines[y]
<1>0. RowsAreFiltered /\ RowsAreRestored
  BY DEF FilterIInv
<1>1. y \in 1..Len(filtered) /\ y \in 1..Len(lines)
  BY <1>0, Lengths DEF UnfilterRow, ReconRow, RowsAreFiltered
<1>2. line \in Seq(Byte256) /\ Len(line) \in Nat
  BY <1>1, Lengths
<1>3. Len(filtered[y].bytes) = Len(line)
  <2>1. filtered[y].bytes = [i \in 1..Len(line) |-> FilteredByte(filtered[y].type, line, LineAbove(lines, y), i)]
    BY <1>0, <1>1 DEF RowsAreFiltered, FilteredFrom
  <2> HIDE DEF line
  <2> QED BY <1>2, <2>1
<1>4. Len(reconLine) = Len(line)
  BY <1>3 DEF UnfilterRow
<1>5. \A i \in 1..Len(reconLine) : reconLine[i] = line[i]
  BY <1>0 DEF RowsAreRestored
<1> HIDE DEF y, line
<1>6. \A s, r \in Seq(Byte256) : Len(s) = Len(r) /\ (\A i \in 1..Len(s) : s[i] = r[i]) => s = r
  OBVIOUS
<1>7. reconLine = line
  BY <1>2, <1>4, <1>5, <1>6, Lengths
<1> QED BY <1>1, <1>7 DEF y, line

\* What removePaddingBits makes of the restored scanlines is the image.
LEMMA UnpaddedIsImage ==
  ASSUME FilterIInv, RemovePadding
  PROVE  unpadded' = image.rows
<1> DEFINE rows == image.rows
<1>0. FilterTypeOK /\ RowsAreRestored /\ IsImage(image)
  BY DEF FilterIInv, FilterTypeOK
<1>1. lines = Scanlines /\ Len(recon) = Len(lines) /\ \A y \in 1..Len(recon) : recon[y] = lines[y]
  BY <1>0 DEF RemovePadding, FilterTypeOK, RowsAreRestored
<1>2. recon = lines
  <2> DEFINE S == Seq(Byte256)
  <2>1. recon \in Seq(S) /\ lines \in Seq(S)
    BY Lengths
  <2> HIDE DEF S
  <2>2. \A s, r \in Seq(S) : Len(s) = Len(r) /\ (\A i \in 1..Len(s) : s[i] = r[i]) => s = r
    OBVIOUS
  <2> QED BY <1>1, <2>1, <2>2
<1>3. CASE image.bpp < 8
  <2>1. rows \in Seq(Seq(BitValue)) /\ \A y, z \in 1..Len(rows) : Len(rows[y]) = Len(rows[z])
    BY <1>0, <1>3, FilterAssumption DEF IsImage, BitValue
  <2>2. recon = [y \in 1..Len(rows) |-> PackedRow(rows[y])]
    BY <1>1, <1>2, <1>3 DEF Scanlines
  <2>3. unpadded' = [y \in 1..Len(recon) |-> UnpackedRow(recon[y], Len(rows[1]))]
    BY <1>3 DEF RemovePadding
  <2> HIDE DEF rows
  <2> DEFINE S == Seq(BitValue)
  <2>4. rows \in Seq(S) /\ Len(rows) \in Nat
    BY <2>1
  <2>5. \A y \in 1..Len(rows) : rows[y] \in S
    <3> HIDE DEF S
    <3> QED BY <2>4
  <2>6. Len(recon) = Len(rows)
    <3>1. \A n \in Nat : \A f : f = [y \in 1..n |-> PackedRow(rows[y])] => f \in Seq({f[y] : y \in 1..n}) /\ Len(f) = n
      OBVIOUS
    <3> QED BY <2>2, <2>4, <3>1
  <2>7. ASSUME NEW y \in 1..Len(rows)
        PROVE  UnpackedRow(recon[y], Len(rows[1])) = rows[y]
    <3>1. recon[y] = PackedRow(rows[y])
      BY <2>2
    <3>2. Len(rows[1]) = Len(rows[y])
      BY <2>1, <2>4
    <3>3. rows[y] \in Seq(BitValue)
      BY <2>5
    <3> QED BY <3>1, <3>2, <3>3, UnpackedIsRow
  <2>8. unpadded' = [y \in 1..Len(rows) |-> rows[y]]
    BY <2>3, <2>6, <2>7
  <2> HIDE DEF S
  <2>9. \A s \in Seq(S) : [y \in 1..Len(s) |-> s[y]] = s
    OBVIOUS
  <2> QED BY <2>4, <2>8, <2>9 DEF rows
<1>4. CASE ~(image.bpp < 8)
  BY <1>1, <1>2, <1>4 DEF RemovePadding, Scanlines
<1> QED BY <1>3, <1>4

\* What the reader has restored stays the scanlines.
LEMMA RestoredKept ==
  ASSUME FilterIInv, FilterNext
  PROVE  RowsAreRestored'
<1>0. RowsAreFiltered /\ RowsAreRestored
  BY DEF FilterIInv
<1>1. CASE AddPadding
  <2>1. recon = <<>> /\ reconLine = <<>> /\ UNCHANGED <<recon, reconLine, filtered>> /\ filterPc' = "try"
    BY <1>0, <1>1 DEF AddPadding, RowsAreRestored
  <2> QED BY <2>1, Lengths DEF RowsAreRestored
<1>2. CASE PutRow
  <2>1. recon = <<>> /\ reconLine = <<>> /\ UNCHANGED <<recon, reconLine, filterPc>> /\ filterPc = "try"
    BY <1>0, <1>2 DEF PutRow, RowsAreRestored
  <2>2. Len(filtered') \in Nat
    BY FilterTypeKept DEF FilterTypeOK
  <2> QED BY <2>1, <2>2 DEF RowsAreRestored
<1>3. CASE TryType \/ FilterDone
  BY <1>0, <1>3 DEF TryType, FilterDone, RowsAreRestored, ReconRow
<1>4. CASE UnfilterByte
  <2>1. /\ ReconRow \in 1..Len(lines) /\ Len(reconLine) + 1 \in 1..Len(lines[ReconRow])
        /\ reconLine' = Append(reconLine, lines[ReconRow][Len(reconLine) + 1])
    BY <1>4, RestoredByte
  <2>2. /\ UNCHANGED <<lines, filtered, recon, filterPc>> /\ filterPc = "unfilter"
        /\ ReconRow' = ReconRow /\ ReconRow <= Len(filtered)
    BY <1>4 DEF UnfilterByte, ReconRow
  <2>3. lines[ReconRow] \in Seq(Byte256)
    BY <2>1, Lengths
  <2> DEFINE line == lines[ReconRow]
  <2>4. \A i \in 1..Len(reconLine) : reconLine[i] = line[i]
    BY <1>0 DEF RowsAreRestored
  <2> HIDE DEF line
  <2>5. /\ Len(reconLine') = Len(reconLine) + 1
        /\ \A i \in 1..Len(reconLine') : reconLine'[i] = line[i]
    <3>1. line \in Seq(Byte256) /\ reconLine \in Seq(Byte256) /\ Len(reconLine) + 1 \in 1..Len(line)
      BY <2>1, <2>3, Lengths DEF line
    <3>2. reconLine' = Append(reconLine, line[Len(reconLine) + 1])
      BY <2>1 DEF line
    <3> QED BY <2>4, <3>1, <3>2
  <2>6. Len(reconLine') <= Len(line)
    BY <2>1, <2>5 DEF line
  <2> QED BY <1>0, <2>2, <2>5, <2>6 DEF RowsAreRestored, line
<1>5. CASE UnfilterRow
  <2>1. ReconRow \in 1..Len(lines) /\ reconLine = lines[ReconRow]
    BY <1>5, CompleteRow
  <2>2. /\ UNCHANGED <<lines, filtered, filterPc>> /\ filterPc = "unfilter" /\ reconLine' = <<>>
        /\ recon' = Append(recon, reconLine) /\ ReconRow = Len(recon) + 1 /\ ReconRow <= Len(filtered)
    BY <1>5 DEF UnfilterRow, ReconRow
  <2> DEFINE S == Seq(Byte256)
  <2>3. recon \in Seq(S) /\ reconLine \in S /\ Len(recon) \in Nat /\ Len(filtered) \in Nat
    BY Lengths
  <2> HIDE DEF S
  <2>4. /\ Len(recon') = Len(recon) + 1 /\ recon'[Len(recon) + 1] = reconLine
        /\ \A y \in 1..Len(recon) : recon'[y] = recon[y]
    BY <2>2, <2>3
  <2>5. \A y \in 1..Len(recon) : recon[y] = lines[y]
    BY <1>0 DEF RowsAreRestored
  <2>6. \A y \in 1..Len(recon') : recon'[y] = lines[y]
    BY <2>1, <2>2, <2>3, <2>4, <2>5
  <2> QED BY <2>2, <2>3, <2>4, <2>6 DEF RowsAreRestored
<1>6. CASE UnfilterDone
  <2>1. /\ UNCHANGED <<lines, filtered, recon, reconLine>> /\ filterPc' = "unpad"
        /\ filterPc = "unfilter" /\ Len(recon) + 1 > Len(filtered)
    BY <1>6 DEF UnfilterDone, ReconRow
  <2>2. reconLine = <<>> /\ Len(recon) = Len(lines)
    BY <1>0, <2>1, Lengths DEF RowsAreRestored, RowsAreFiltered, ReconRow
  <2> QED BY <1>0, <2>1, <2>2 DEF RowsAreRestored
<1>7. CASE RemovePadding
  <2>1. unpadded' = image'.rows /\ UNCHANGED <<lines, filtered, recon, reconLine>> /\ filterPc = "unpad" /\ filterPc' = "done"
    BY <1>7, UnpaddedIsImage DEF RemovePadding
  <2>2. reconLine = <<>>
    BY <1>0, <2>1 DEF RowsAreRestored
  <2> QED BY <1>0, <2>1, <2>2 DEF RowsAreRestored
<1> QED BY <1>1, <1>2, <1>3, <1>4, <1>5, <1>6, <1>7 DEF FilterNext

\* The invariant does not depend on the steps of others.
LEMMA FilterStutter ==
  ASSUME FilterIInv, UNCHANGED filterVars
  PROVE  FilterIInv'
<1>1. UNCHANGED <<image, filterPc, lines, type, smallest, bestType, filtered, recon, reconLine, unpadded>>
  BY DEF filterVars
<1>2. FilterTypeOK'
  BY <1>1 DEF FilterIInv, FilterTypeOK, Scanlines
<1>3. RowsAreFiltered'
  <2>1. \A y \in 1..Len(filtered) : FilteredFrom(filtered[y], y)'
    BY <1>1, FilteredFromStays DEF FilterIInv, RowsAreFiltered
  <2> QED BY <1>1, <2>1 DEF FilterIInv, RowsAreFiltered
<1>4. RowsAreRestored'
  BY <1>1 DEF FilterIInv, RowsAreRestored, ReconRow
<1> QED BY <1>2, <1>3, <1>4 DEF FilterIInv

-----------------------------------------------------------------------------
\* Whatever image the filter is given, it begins right.
LEMMA FilterStartInv == ASSUME NEW img, IsImage(img), FilterStart(img, "pad") PROVE FilterIInv
<1>1. FilterTypeOK
  BY DEF FilterStart, FilterTypeOK
<1>2. Len(lines) = 0 /\ Len(filtered) = 0 /\ Len(recon) = 0 /\ Len(reconLine) = 0
  BY DEF FilterStart
<1>3. RowsAreFiltered /\ RowsAreRestored
  BY <1>2 DEF FilterStart, RowsAreFiltered, RowsAreRestored
<1> QED BY <1>1, <1>3 DEF FilterIInv

LEMMA FilterStepInv == FilterIInv /\ [FilterNext]_filterVars => FilterIInv'
BY FilterTypeKept, FilteredKept, RestoredKept, FilterStutter DEF FilterIInv

LEMMA FilterInvUndone == FilterIInv => FilterUndone
BY DEF FilterIInv, RowsAreRestored, FilterUndone

\* The invariant of the filter stage: each row that was put out is its
\* scanline less the predictions of its type, and the reader's rows are the
\* scanlines up to where it is.
THEOREM FilterIInvHolds == FilterSpec => []FilterIInv
<1>1. FilterInit => FilterIInv
  BY FilterStartInv, FilterAssumption DEF FilterInit
<1> QED BY <1>1, FilterStepInv, PTL DEF FilterSpec

\* What preProcessScanlines and filter do to the rows of an image is undone by
\* unfilter and removePaddingBits, for every image and filter type.
THEOREM FilterIsUndone == FilterSpec => []FilterUndone
<1> QED BY FilterInvUndone, FilterIInvHolds, PTL

-----------------------------------------------------------------------------
\* From the converted picture to scanlines.

\* A number is so many times what divides it.
LEMMA Quotient ==
  ASSUME NEW n \in Nat, NEW w \in Nat \ {0}, n % w = 0
  PROVE  n \div w \in Nat /\ w * (n \div w) = n
OBVIOUS

\* Row y of h rows of w ends before they do.
LEMMA RowWithin ==
  ASSUME NEW w \in Nat, NEW h \in Nat, NEW y \in 1..h
  PROVE  (y - 1) * w \in Nat /\ (y - 1) * w + w = y * w /\ y * w <= w * h
<1>1. PICK d \in Nat : h = y + d
  <2>1. h - y \in Nat /\ h = y + (h - y)
    OBVIOUS
  <2> QED BY <2>1
<1>2. w * h = y * w + d * w /\ d * w \in Nat
  BY <1>1
<1>3. (y - 1) * w \in Nat /\ y * w \in Nat /\ (y - 1) * w + w = y * w
  OBVIOUS
<1> QED BY <1>2, <1>3

\* A part of a sequence.
LEMMA PartOfRow ==
  ASSUME NEW S, NEW s \in Seq(S), NEW m \in Nat, NEW w \in Nat, m + w <= Len(s)
  PROVE  SubSeq(s, m + 1, m + w) \in Seq(S) /\ Len(SubSeq(s, m + 1, m + w)) = w
OBVIOUS

\* Rows of w bytes are cut out of as many as there are.
HasRows(s, S, w, h) == s \in Seq(S) /\ w \in Nat /\ h \in Nat /\ Len(s) = w * h
RowOf(s, w, y) == SubSeq(s, (y - 1) * w + 1, y * w)

LEMMA RowsOfBytes ==
  ASSUME NEW s, NEW S, NEW w, NEW h, HasRows(s, S, w, h), NEW y \in 1..h
  PROVE  RowOf(s, w, y) \in Seq(S) /\ Len(RowOf(s, w, y)) = w
<1> USE DEF HasRows
<1> DEFINE m == (y - 1) * w
<1>1. m \in Nat /\ m + w = y * w /\ m + w <= Len(s)
  BY RowWithin
<1> HIDE DEF m
<1>2. SubSeq(s, m + 1, m + w) \in Seq(S) /\ Len(SubSeq(s, m + 1, m + w)) = w
  BY <1>1, PartOfRow
<1> QED BY <1>1, <1>2 DEF m, RowOf

\* A bit of some bytes is one.
LEMMA BitIs ==
  ASSUME NEW bytes \in Seq(Nat), NEW i \in Nat, i < 8 * Len(bytes)
  PROVE  BitOf(bytes, i) \in {0, 1}
<1> DEFINE k == i \div 8
           r == i % 8
<1>1. k \in Nat /\ r \in 0..7 /\ i = 8 * k + r
  OBVIOUS
<1>2. BitOf(bytes, i) = (bytes[k + 1] \div PlaceWeight(1, r)) % 2
  <2>1. 8 \div 1 = 8 /\ 2^1 = 2
    BY PowersOfTwo
  <2> QED BY <2>1, ReversedBitsIs DEF BitOf
<1> HIDE DEF k, r
<1>3. PlaceWeight(1, r) \in Nat \ {0}
  <2>1. r \in 0..(8 \div 1) - 1
    BY <1>1
  <2> QED BY <2>1, WeightIsPositive
<1>4. bytes[k + 1] \in Nat
  <2>1. k + 1 \in 1..Len(bytes)
    BY <1>1
  <2> QED BY <2>1, ElementOf
<1> DEFINE v == bytes[k + 1]
           p == PlaceWeight(1, r)
<1>5. v \in Nat
  BY <1>4
<1>6. BitOf(bytes, i) = (v \div p) % 2 /\ p \in Nat \ {0}
  BY <1>2, <1>3, Zenon
<1> HIDE DEF v, p
<1>7. v \div p \in Nat
  BY <1>5, <1>6
<1> QED BY <1>6, <1>7

\* What makes an image.
LEMMA ImageIs ==
  ASSUME NEW b \in Nat \ {0}, NEW zero \in BOOLEAN, b < 8 => zero, NEW h \in Nat, NEW n,
         NEW rows, rows = [y \in 1..h |-> rows[y]],
         \A y \in 1..h : rows[y] \in Seq(IF b < 8 THEN {0, 1} ELSE Byte256) /\ Len(rows[y]) = n
  PROVE  IsImage([rows |-> rows, bpp |-> b, zero |-> zero])
<1>1. rows \in Seq(Seq(IF b < 8 THEN {0, 1} ELSE Byte256)) /\ Len(rows) = h
  OBVIOUS
<1> QED BY <1>1 DEF IsImage

\* What is of a kind is of a wider one.
LEMMA WiderSeq == ASSUME NEW S, NEW T, S \subseteq T, NEW s \in Seq(S) PROVE s \in Seq(T)
OBVIOUS

\* lodepng_encode and preProcessScanlines: the converted bytes are those of an
\* image with rows of one length, whatever the width of the picture is.
LEMMA ConvertedIsImage ==
  ASSUME ColorIInv, colorPc = "done", NEW w \in 1..Len(picture), Len(picture) % w = 0
  PROVE  IsImage([rows |-> [y \in 1..Len(picture) \div w |-> ConvertedRow(w, y)],
                  bpp  |-> BitsPerPixel(mode),
                  zero |-> mode.type = "palette" \/ mode.bits < 8])
<1> DEFINE N == Len(picture)
           h == N \div w
           rows == [y \in 1..h |-> ConvertedRow(w, y)]
           b == BitsPerPixel(mode)
           zero == mode.type = "palette" \/ mode.bits < 8
           img == [rows |-> rows, bpp |-> b, zero |-> zero]
<1>1. N \in Nat /\ w \in Nat \ {0} /\ ModeFits /\ Converted(N)
  BY DEF ColorIInv
<1>2. h \in Nat /\ w * h = N
  BY <1>1, Quotient
<1> HIDE DEF N, h
<1>3. rows = [y \in 1..h |-> rows[y]]
  OBVIOUS
<1>4. ASSUME mode.type = "rgb" PROVE IsImage(img)
  <2>1. mode = RGB
    BY <1>1, <1>4 DEF ModeFits
  <2>2. b = 24 /\ zero = FALSE
    BY <2>1 DEF RGB, BitsPerPixel
  <2>3. raw \in Seq(Byte256) /\ Len(raw) = 3 * N
    BY <1>1, <1>4 DEF Converted, Byte256
  <2> DEFINE v == w * 3
  <2>4. v \in Nat /\ Len(raw) = v * h
    <3>1. v * h = 3 * (w * h)
      BY <1>1, <1>2
    <3> QED BY <1>1, <1>2, <2>3, <3>1
  <2>5. ASSUME NEW y \in 1..h PROVE rows[y] \in Seq(Byte256) /\ Len(rows[y]) = v
    <3>1. rows[y] = RowOf(raw, v, y)
      <4>1. 24 \div 8 = 3
        OBVIOUS
      <4> QED BY <2>2, <4>1 DEF ConvertedRow, RowOf
    <3> HIDE DEF v, rows
    <3>2. RowOf(raw, v, y) \in Seq(Byte256) /\ Len(RowOf(raw, v, y)) = v
      <4>1. HasRows(raw, Byte256, v, h)
        BY <1>2, <2>3, <2>4 DEF HasRows
      <4> QED BY <4>1, RowsOfBytes
    <3> QED BY <3>1, <3>2, Zenon
  <2> HIDE DEF v, rows, b, zero
  <2>6. b \in Nat \ {0} /\ ~(b < 8)
    BY <2>2
  <2>7. zero \in BOOLEAN
    BY <2>2, Zenon
  <2> QED BY <1>2, <1>3, <2>5, <2>6, <2>7, ImageIs
<1>5. ASSUME mode.type # "rgb" PROVE IsImage(img)
  <2>1. mode.bits \in {1, 2, 4, 8} /\ b = mode.bits /\ zero \in BOOLEAN /\ (mode.bits < 8 => zero)
    BY <1>1, <1>5 DEF ModeFits, RGB, BitsPerPixel
  <2>2. raw \in Seq(Byte256) /\ Len(raw) = (N * mode.bits + 7) \div 8
    BY <1>1, <1>5 DEF Converted, IsPacking, Byte256
  <2>3. CASE mode.bits = 8
    <3>1. Len(raw) = w * h
      BY <1>1, <1>2, <2>2, <2>3
    <3>2. ASSUME NEW y \in 1..h PROVE rows[y] \in Seq(Byte256) /\ Len(rows[y]) = w
      <4>1. rows[y] = RowOf(raw, w * 1, y)
        <5>1. 8 \div 8 = 1
          OBVIOUS
        <5> QED BY <2>1, <2>3, <5>1 DEF ConvertedRow, RowOf
      <4>2. w * 1 = w
        OBVIOUS
      <4> HIDE DEF rows
      <4>3. RowOf(raw, w, y) \in Seq(Byte256) /\ Len(RowOf(raw, w, y)) = w
        <5>1. HasRows(raw, Byte256, w, h)
          BY <1>1, <1>2, <2>2, <3>1 DEF HasRows
        <5> QED BY <5>1, RowsOfBytes
      <4> QED BY <4>1, <4>2, <4>3, Zenon
    <3> HIDE DEF rows, b, zero
    <3>3. b \in Nat \ {0} /\ zero \in BOOLEAN /\ ~(b < 8)
      BY <2>1, <2>3
    <3> QED BY <1>2, <1>3, <3>2, <3>3, ImageIs
  <2>4. CASE mode.bits < 8
    <3> DEFINE v == w * mode.bits
    <3>1. v \in Nat /\ v * h <= 8 * Len(raw)
      <4>1. v * h = N * mode.bits
        BY <1>1, <1>2, <2>1
      <4>2. N * mode.bits \in Nat
        BY <1>1, <2>1
      <4>3. N * mode.bits <= 8 * ((N * mode.bits + 7) \div 8)
        <5> DEFINE m == N * mode.bits
        <5> HIDE DEF m
        <5>1. m \in Nat
          BY <4>2 DEF m
        <5>2. m <= 8 * ((m + 7) \div 8)
          BY <5>1
        <5> QED BY <5>2 DEF m
      <4>4. v \in Nat
        BY <1>1, <2>1
      <4> HIDE DEF v
      <4> QED BY <2>2, <4>1, <4>3, <4>4
    <3>2. ASSUME NEW y \in 1..h PROVE rows[y] \in Seq({0, 1}) /\ Len(rows[y]) = v
      <4>1. rows[y] = [i \in 1..v |-> BitOf(raw, (y - 1) * w * mode.bits + i - 1)]
        BY <2>1, <2>4 DEF ConvertedRow
      <4>2. (y - 1) * w * mode.bits = (y - 1) * v
        BY <1>1, <2>1
      <4> DEFINE m == (y - 1) * v
      <4>3. m \in Nat /\ m + v <= 8 * Len(raw)
        <5> HIDE DEF v
        <5>1. m \in Nat /\ m + v = y * v /\ y * v <= v * h
          BY <1>2, <3>1, RowWithin
        <5> HIDE DEF m
        <5>2. Len(raw) \in Nat /\ y * v \in Nat /\ v * h \in Nat
          BY <1>2, <2>2, <3>1
        <5> QED BY <3>1, <5>1, <5>2
      <4> HIDE DEF m, v
      <4>4. ASSUME NEW i \in 1..v PROVE BitOf(raw, m + i - 1) \in {0, 1}
        <5>1. m + i - 1 \in Nat /\ m + i - 1 < 8 * Len(raw)
          BY <3>1, <4>3, <2>2
        <5>2. raw \in Seq(Nat)
          <6>1. Byte256 \subseteq Nat
            BY DEF Byte256
          <6> QED BY <2>2, <6>1, WiderSeq
        <5> QED BY <5>1, <5>2, BitIs
      <4>5. rows[y] = [i \in 1..v |-> BitOf(raw, m + i - 1)]
        BY <4>1, <4>2 DEF m
      <4> HIDE DEF rows
      <4> QED BY <3>1, <4>4, <4>5
    <3> HIDE DEF v
    <3> HIDE DEF v, rows, b, zero
    <3>3. b \in Nat \ {0} /\ zero \in BOOLEAN /\ b < 8 /\ zero
      BY <2>1, <2>4
    <3> QED BY <1>2, <1>3, <3>2, <3>3, ImageIs
  <2> QED BY <2>1, <2>3, <2>4
<1>6. IsImage(img)
  BY <1>4, <1>5
<1> QED BY <1>6 DEF h, N

-----------------------------------------------------------------------------
\* From the filtered scanlines to the bytes that are deflated.

\* addChunk_IDAT: they are the filter types and the bytes of the lines, in turn.
LEMMA FilteredBytesAre ==
  ASSUME filtered \in Seq([type : 0..4, bytes : Seq(Byte256)])
  PROVE  FilteredBytes \in Seq(Byte)
<1> DEFINE N == Len(filtered)
           V == Seq(Byte)
           g == [kv \in (1..N) \X V |-> Append(kv[2], filtered[kv[1]].type) \o filtered[kv[1]].bytes]
<1>1. N \in Nat /\ <<>> \in V
  OBVIOUS
<1>2. ASSUME NEW k \in 1..N, NEW v \in V
      PROVE  Append(v, filtered[k].type) \o filtered[k].bytes \in V
  <2>1. filtered[k] \in [type : 0..4, bytes : Seq(Byte256)]
    BY ElementOf
  <2>2. 0..4 \subseteq Byte /\ Byte256 \subseteq Byte
    BY WriterAssumption DEF Byte256
  <2>3. filtered[k].type \in Byte /\ filtered[k].bytes \in Seq(Byte)
    BY <2>1, <2>2, WiderSeq
  <2> DEFINE t == filtered[k].type
             bs == filtered[k].bytes
  <2> HIDE DEF t, bs
  <2>4. Append(v, t) \in Seq(Byte)
    BY <2>3 DEF t
  <2> QED BY <2>3, <2>4 DEF t, bs
<1>3. g \in Steps(V, N)
  <2>1. \A kv \in (1..N) \X V : g[kv] \in V
    BY <1>2
  <2> HIDE DEF V
  <2> QED BY <2>1 DEF Steps
<1>4. PICK f \in [0..N -> V] : Follows(f, N, <<>>, g)
  <2> HIDE DEF g, V, N
  <2>1. IsDefinedBy(V, N, <<>>, g)
    BY <1>1, <1>3, Recursion, Zenon
  <2> QED BY <2>1, Zenon DEF IsDefinedBy
<1>5. ASSUME NEW k \in 1..N PROVE f[k] = Append(f[k - 1], filtered[k].type) \o filtered[k].bytes
  <2>1. f[k - 1] \in V
    <3> HIDE DEF V
    <3>1. k - 1 \in 0..N
      BY <1>1
    <3> QED BY <1>4, <3>1
  <2>2. f[k] = g[<<k, f[k - 1]>>]
    BY <1>4 DEF Follows
  <2> HIDE DEF V
  <2> QED BY <2>1, <2>2
<1> DEFINE Body(e) == e = [y \in 0..N |-> IF y = 0 THEN <<>> ELSE Append(e[y - 1], filtered[y].type) \o filtered[y].bytes]
           E == CHOOSE e : Body(e)
<1>6. Body(f)
  <2>1. f[0] = <<>>
    BY <1>4 DEF Follows
  <2> HIDE DEF V
  <2>2. f = [y \in 0..N |-> f[y]]
    BY <1>4
  <2>3. ASSUME NEW y \in 0..N
        PROVE  f[y] = IF y = 0 THEN <<>> ELSE Append(f[y - 1], filtered[y].type) \o filtered[y].bytes
    <3>1. CASE y = 0
      BY <2>1, <3>1
    <3>2. CASE y # 0
      <4>1. y \in 1..N
        BY <3>2
      <4> QED BY <3>2, <4>1, <1>5
    <3> QED BY <3>1, <3>2
  <2> QED BY <2>2, <2>3
<1>7. Body(E)
  <2> HIDE DEF Body
  <2> QED BY <1>6
<1>8. E[0] = <<>> /\ \A k \in 1..N : E[k] = Append(E[k - 1], filtered[k].type) \o filtered[k].bytes
  <2> HIDE DEF E
  <2>1. E = [y \in 0..N |-> IF y = 0 THEN <<>> ELSE Append(E[y - 1], filtered[y].type) \o filtered[y].bytes]
    BY <1>7
  <2>2. E[0] = <<>>
    <3>1. 0 \in 0..N
      BY <1>1
    <3> QED BY <2>1, <3>1, Zenon
  <2>3. ASSUME NEW k \in 1..N PROVE E[k] = Append(E[k - 1], filtered[k].type) \o filtered[k].bytes
    <3>1. k \in 0..N /\ k # 0
      BY <1>1
    <3> QED BY <2>1, <3>1, Zenon
  <2> QED BY <2>2, <2>3
<1>9. E[N] = f[N]
  <2> HIDE DEF E, V
  <2>1. E[0] = f[0]
    BY <1>4, <1>8 DEF Follows
  <2>2. ASSUME NEW k \in 1..N, E[k - 1] = f[k - 1] PROVE E[k] = f[k]
    BY <1>5, <1>8, <2>2
  <2>3. GoesAlong(E, f, N)
    BY <2>1, <2>2 DEF GoesAlong
  <2> HIDE DEF N
  <2> QED BY ONLY <1>1, <2>3, RecursionUnique
<1>10. FilteredBytes = E[N]
  BY DEF FilteredBytes
<1>11. f[N] \in V
  BY <1>1, <1>4
<1> QED BY <1>9, <1>10, <1>11

-----------------------------------------------------------------------------
\* The writer as a whole: each stage is in its own invariant, or is idle.
WriterIInv ==
  /\ ColorIInv /\ FileIInv
  /\ FilterIdle \/ FilterIInv
  /\ LzIdle \/ LzIInv
  /\ CodeIInv
  /\ LensIdle \/ LensIInv
  /\ TokenIdle \/ TokenIInv

\* The stages of the writer take no other steps than their own and the
\* hand-overs to them.
LEMMA StagesApart ==
  [PngNext]_pngVars =>
    /\ [ColorNext]_colorVars /\ [FileNext]_fileVars
    /\ [CodeNext]_codeVars /\ [LensNext]_lensVars /\ [TokenNext]_tokenVars
    /\ HandToFilter \/ [FilterNext]_filterVars
    /\ HandToDeflate \/ [LzNext]_lzVars
BY DEF PngNext, pngVars, ColorStep, HandToFilter, FilterStep, HandToDeflate, LzStep, CodeStep, LensStep,
   TokenStep, FileStep, Terminating

\* A stage that is idle does nothing on its own.
LEMMA FilterStaysIdle == FilterIdle /\ [FilterNext]_filterVars => FilterIdle'
BY DEF FilterIdle, FilterStart, filterVars, FilterNext, AddPadding, TryType, PutRow, FilterDone, UnfilterByte,
   UnfilterRow, UnfilterDone, RemovePadding

LEMMA LzStaysIdle == LzIdle /\ [LzNext]_lzVars => LzIdle'
<1> SUFFICES ASSUME LzIdle, [LzNext]_lzVars PROVE LzIdle'
  OBVIOUS
<1>1. ~LzNext
  <2>1. lzPc = "idle"
    BY DEF LzIdle, LzStart
  <2> QED BY <2>1 DEF LzNext, StartSearch, EndSearch, VisitPlace, CompareByte, FollowChain, PutOff, EncodeNow,
                      EncodeNext, EncodePutOff, EmitLiteral, SpellOut, CopyByte, CopyDone, InsertByte, NextByte,
                      NextBlock, EndDeflate
<1>2. UNCHANGED lzVars
  BY <1>1
<1> QED BY <1>2 DEF LzIdle, LzStart, lzVars, searchVars, lazyVars

LEMMA LensStaysIdle == LensIdle /\ [LensNext]_lensVars => LensIdle'
<1> SUFFICES ASSUME LensIdle, [LensNext]_lensVars PROVE LensIdle'
  OBVIOUS
<1>1. ~LensNext
  <2>1. lensPc = "idle"
    BY DEF LensIdle, LensStart
  <2> QED BY <2>1 DEF LensNext, EncodeZeros, EncodeRepeats, EncodeOne, Encoding, MakeClTree, WriteHeader,
                      ReadHeader, ReadLength, ReadRepeat, Reading, ReadDone
<1>2. UNCHANGED lensVars
  BY <1>1
<1> QED BY <1>2 DEF LensIdle, LensStart, lensVars

LEMMA TokenStaysIdle == TokenIdle /\ [TokenNext]_tokenVars => TokenIdle'
<1> SUFFICES ASSUME TokenIdle, [TokenNext]_tokenVars PROVE TokenIdle'
  OBVIOUS
<1>1. ~TokenNext
  <2>1. tokenPc = "idle"
    BY DEF TokenIdle, TokenStart
  <2> QED BY <2>1 DEF TokenNext, EncodeToken, EncodeDone, CountSymbol, WriteBlockHead, WriteSymbol, WriteEnd,
                      ReadBlockHead, InflateDone, ReadSymbol
<1>2. UNCHANGED tokenVars
  BY <1>1
<1> QED BY <1>2 DEF TokenIdle, TokenStart, tokenVars

\* Of no blocks there are no tokens.
LEMMA NoTokens ==
  ASSUME blocks = <<>>
  PROVE  AllTokens \in Seq(Token) /\ Len(AllTokens) = 0
<1>1. blocks \in Seq(Seq(Token)) /\ Len(blocks) = 0
  OBVIOUS
<1>2. PICK from : BlocksAt(from)
  BY <1>1, AllTokensAre
<1> QED BY <1>1, <1>2 DEF BlocksAt

\* What the filter is handed is an image, and it begins with it.
FilterBegins == \E img : IsImage(img) /\ FilterStart(img, "pad")

LEMMA FilterBegun == FilterBegins => FilterIInv
BY FilterStartInv DEF FilterBegins

LEMMA HandedToFilter ==
  ASSUME ColorIInv, FilterIdle, HandToFilter
  PROVE  FilterBegins'
<1>1. PICK w \in {n \in 1..Len(picture) : Len(picture) % n = 0} :
        image' = [rows |-> [y \in 1..Len(picture) \div w |-> ConvertedRow(w, y)],
                  bpp  |-> BitsPerPixel(mode),
                  zero |-> mode.type = "palette" \/ mode.bits < 8]
  BY DEF HandToFilter
<1>2. IsImage(image')
  <2>1. colorPc = "done" /\ w \in 1..Len(picture) /\ Len(picture) % w = 0
    BY DEF HandToFilter
  <2>2. IsImage([rows |-> [y \in 1..Len(picture) \div w |-> ConvertedRow(w, y)],
                 bpp  |-> BitsPerPixel(mode),
                 zero |-> mode.type = "palette" \/ mode.bits < 8])
    BY <2>1, ConvertedIsImage
  <2> QED BY <1>1, <2>2, Zenon
<1>3. FilterStart(image, "pad")'
  BY DEF HandToFilter, FilterIdle, FilterStart
<1> QED BY <1>2, <1>3 DEF FilterBegins

\* What the deflater is handed are bytes, and it begins with them.
LzBegins == \E bytes \in Seq(Byte) : LzStart(bytes, "scan")

LEMMA LzBegun == LzBegins => LzIInv
BY LzStartInv DEF LzBegins

LEMMA HandedToDeflate ==
  ASSUME FilterIInv, LzIdle, HandToDeflate
  PROVE  LzBegins'
<1>1. FilteredBytes \in Seq(Byte)
  BY FilteredBytesAre DEF FilterIInv, FilterTypeOK
<1>2. data' = FilteredBytes /\ lzPc' = "scan" /\ blockEnd' = Lower(BlockSize, Len(FilteredBytes))
      /\ UNCHANGED <<pos, head, chain, searchVars, length, offset, lazyVars, left, inflated>>
  BY DEF HandToDeflate
<1>3. data' \in Seq(Byte)
  BY <1>1, <1>2
<1>4. blockEnd' = Lower(BlockSize, Len(data'))
  BY <1>2
<1>5. LzStart(data, "scan")'
  BY <1>2, <1>4 DEF LzIdle, LzStart, searchVars, lazyVars
<1> QED BY <1>3, <1>5 DEF LzBegins

\* A writer starts with its first stage or with another one, and then with
\* nothing to do in that stage.
LEMMA WriterStarts == PngInit => WriterIInv
<1>1. ColorInit \/ ColorIdle => ColorIInv
  <2>1. ColorInit => ColorIInv
    BY ColorStartInv, ColorAssumption DEF ColorInit, PixelValues
  <2>2. ColorIdle => ColorIInv
    <3>1. <<>> \in Seq(PixelValues)
      OBVIOUS
    <3> QED BY <3>1, ColorStartInv DEF ColorIdle
  <2> QED BY <2>1, <2>2
<1>2. FileInit \/ FileIdle => FileIInv
  BY FileStartInv, FileIdleInv DEF FileInit, FileIdle
<1>3. FilterInit => FilterIInv
  BY FilterStartInv, FilterAssumption DEF FilterInit
<1>4. LzInit => LzIInv
  BY LzStartInv, LzAssumption DEF LzInit
<1>5. LensInit => LensIInv
  BY LensStartInv DEF LensInit
<1>6. TokenInit => TokenIInv
  BY TokenStartInv, TokenAssumption DEF TokenInit, Token
<1>7. CodeInit \/ CodeIdle => CodeIInv
  BY CodeStartHolds, CodeIdleHolds, HuffmanAssumption DEF CodeInit, CodeIdle, NoCode
<1> QED BY <1>1, <1>2, <1>3, <1>4, <1>5, <1>6, <1>7, Zenon DEF PngInit, WriterIInv

LEMMA WriterSteps == WriterIInv /\ [PngNext]_pngVars => WriterIInv'
<1> SUFFICES ASSUME WriterIInv, [PngNext]_pngVars PROVE WriterIInv'
  OBVIOUS
<1>1. (ColorIInv /\ FileIInv)'
  BY StagesApart, ColorStepInv, FileStepInv DEF WriterIInv
<1>2. (FilterIdle \/ FilterIInv)'
  <2>1. CASE HandToFilter
    <3>1. FilterIdle
      BY <2>1 DEF WriterIInv, HandToFilter, FilterIInv, FilterTypeOK
    <3>2. FilterBegins'
      BY <2>1, <3>1, HandedToFilter DEF WriterIInv
    <3>3. FilterBegins' => FilterIInv'
      BY FilterBegun, PTL
    <3> QED BY <3>2, <3>3
  <2>2. CASE [FilterNext]_filterVars
    BY <2>2, FilterStepInv, FilterStaysIdle DEF WriterIInv
  <2> QED BY <2>1, <2>2, StagesApart
<1>3. (LzIdle \/ LzIInv)'
  <2>1. CASE HandToDeflate
    <3>1. FilterIInv
      BY <2>1 DEF WriterIInv, HandToDeflate, FilterIdle, FilterStart
    <3>2. LzIdle
      BY <2>1 DEF WriterIInv, HandToDeflate, LzIInv, LzTypeOK, LookUp, Encode
    <3>3. LzBegins'
      BY <2>1, <3>1, <3>2, HandedToDeflate
    <3>4. LzBegins' => LzIInv'
      BY LzBegun, PTL
    <3> QED BY <3>3, <3>4
  <2>2. CASE [LzNext]_lzVars
    BY <2>2, LzStepInv, LzStaysIdle DEF WriterIInv
  <2> QED BY <2>1, <2>2, StagesApart
<1>4. (LensIdle \/ LensIInv)'
  BY StagesApart, LensNextInv, LensStaysIdle DEF WriterIInv
<1>5. (TokenIdle \/ TokenIInv)'
  BY StagesApart, TokenNextInv, TokenStaysIdle DEF WriterIInv
<1>6. CodeIInv'
  BY StagesApart, CodeNextKeeps DEF WriterIInv
<1> QED BY <1>1, <1>2, <1>3, <1>4, <1>5, <1>6 DEF WriterIInv

\* The invariant says of each stage what its property does.
LEMMA WriterInvHolds ==
  WriterIInv =>
    /\ ColorModeIsLossless /\ FilterUndone /\ LzLossless /\ CodeIsDecodable /\ CodeIsOptimal
    /\ BlockReadBack /\ WholeOrRefused
<1>1. FilterIdle => FilterUndone
  BY DEF FilterIdle, FilterStart, FilterUndone
<1>2. LzIdle => LzLossless
  BY DEF LzIdle, LzStart, LzLossless, Encoded
<1>3. LensIdle => LengthsRestored
  BY DEF LensIdle, LensStart, LengthsRestored
<1>4. TokenIdle => TokensReadBack
  <2> SUFFICES ASSUME TokenIdle PROVE TokensReadBack
    OBVIOUS
  <2>1. blocks = <<>> /\ tokenPc = "idle" /\ outTokens = <<>> /\ inflateError = 0
    BY DEF TokenIdle, TokenStart
  <2>2. Len(AllTokens) = 0
    BY <2>1, NoTokens
  <2>3. Len(outTokens) = 0
    BY <2>1
  <2> HIDE DEF AllTokens
  <2> QED BY <2>1, <2>2, <2>3 DEF TokensReadBack
<1>5. LensIInv => LengthsRestored
  BY LensRestored
<1>6. TokenIInv => TokensReadBack
  BY TokensRestored
<1> QED BY <1>1, <1>2, <1>3, <1>4, <1>5, <1>6, ColorInvLossless, FilterInvUndone, LzInvLossless, FileInvHolds,
           IInvDecodable, IInvOptimal
        DEF WriterIInv, BlockReadBack

\* lodepng_encode as a whole: whatever picture it is given, and wherever it is,
\* what each of its stages hands to the next is what that one can
\* take, and the reader gets back the pixels, the scanlines, the bytes, and of
\* each block of the deflater the lengths of its codes and its tokens; the codes
\* cost as little as any and lead back to their symbols; and the file is whole
\* or refused.
THEOREM WriterStagesHold ==
  PngSpec => [](/\ ColorModeIsLossless /\ FilterUndone /\ LzLossless /\ CodeIsDecodable /\ CodeIsOptimal
                /\ BlockReadBack /\ WholeOrRefused)
<1> QED BY WriterStarts, WriterSteps, WriterInvHolds, PTL DEF PngSpec

\* getTreeInflateDynamic and inflateHuffmanBlock read a block back as
\* deflateDynamic has written it, in the writer as a whole.
THEOREM BlocksAreReadBack == PngSpec => []BlockReadBack
<1> QED BY WriterStagesHold, PTL
=============================================================================
