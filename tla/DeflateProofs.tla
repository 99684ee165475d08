---------------------------- MODULE DeflateProofs ----------------------------
(***************************************************************************)
(* Proofs about what a deflate block tells of itself: the lengths of its   *)
(* codes (CodeLengths) and its tokens (DeflateTokens), for all lengths and *)
(* all tokens there can be.                                                *)
(*                                                                         *)
(* The first part has what is needed of sequences, loops and functions     *)
(* that are defined by recursion: an induction over the natural numbers in *)
(* terms of sets.                                                          *)
(***************************************************************************)
EXTENDS CodeLengths, DeflateTokens, WellFoundedInduction, TLAPS

\* What holds of 0, and of n + 1 if of n, holds of every natural number.
LEMMA NatSetInduction ==
  ASSUME NEW S, 0 \in S, \A n \in Nat : n \in S => n + 1 \in S
  PROVE  Nat \subseteq S
<1> DEFINE T == Nat \ S
<1>1. SUFFICES ASSUME T # {} PROVE FALSE
  OBVIOUS
<1>2. PICK x \in T : \A y \in T : ~(<<y, x>> \in OpToRel(<, Nat))
  <2>1. T \subseteq Nat
    OBVIOUS
  <2> QED BY <1>1, <2>1, WFMin, NatLessThanWellFounded
<1>3. x # 0
  OBVIOUS
<1>4. x - 1 \in Nat /\ x \in Nat
  BY <1>3
<1>5. <<x - 1, x>> \in OpToRel(<, Nat)
  BY <1>4 DEF OpToRel
<1>6. x - 1 \in S
  BY <1>2, <1>4, <1>5
<1>7. (x - 1) + 1 = x
  BY <1>4
<1> QED BY <1>4, <1>6, <1>7

\* A loop that goes on at the places of S and has nowhere to go from N stops.
Stops(S, N, j) == (j < N => j \notin S) /\ \A k \in 0..j - 1 : k \in S

LEMMA LoopStops ==
  ASSUME NEW S, NEW N \in Nat
  PROVE  \E j \in 0..N : Stops(S, N, j)
<1> DEFINE T == {j \in 0..N : j < N => j \notin S}
<1>1. T # {} /\ T \subseteq Nat
  <2>1. N \in T
    OBVIOUS
  <2> QED BY <2>1
<1>2. PICK j \in T : \A k \in T : ~(<<k, j>> \in OpToRel(<, Nat))
  BY <1>1, WFMin, NatLessThanWellFounded
<1>3. ASSUME NEW k \in 0..j - 1 PROVE k \in S
  <2>1. k \in 0..N /\ k \in Nat /\ j \in Nat /\ k < j
    OBVIOUS
  <2>2. k \notin T
    BY <1>2, <2>1 DEF OpToRel
  <2> QED BY <2>1, <2>2
<1>4. j \in 0..N /\ (j < N => j \notin S)
  OBVIOUS
<1> QED BY <1>3, <1>4 DEF Stops

\* The elements of a sequence over a set are in it.
LEMMA ElementOf ==
  ASSUME NEW S, NEW s \in Seq(S), NEW i \in 1..Len(s)
  PROVE  s[i] \in S
OBVIOUS

\* Sequences of as many elements, all the same, are the same.
LEMMA SameElements ==
  ASSUME NEW S, NEW s \in Seq(S), NEW t \in Seq(S), Len(s) = Len(t), \A k \in 1..Len(s) : s[k] = t[k]
  PROVE  s = t
OBVIOUS

\* Two sequences, one behind the other.
LEMMA Joined ==
  ASSUME NEW S, NEW s \in Seq(S), NEW t \in Seq(S)
  PROVE  /\ s \o t \in Seq(S) /\ Len(s \o t) = Len(s) + Len(t)
         /\ \A i \in 1..Len(s) : (s \o t)[i] = s[i]
         /\ \A i \in 1..Len(t) : (s \o t)[Len(s) + i] = t[i]
OBVIOUS

\* A function that never descends.
LEMMA Ascends ==
  ASSUME NEW N \in Nat, NEW on \in [0..N -> Nat], \A k \in 1..N : on[k - 1] <= on[k]
  PROVE  \A k \in 0..N : on[0] <= on[k] /\ on[k] <= on[N]
<1> DEFINE S == {n \in Nat : n <= N => on[0] <= on[n]}
           R == {n \in Nat : n <= N => on[N - n] <= on[N]}
<1>1. \A n \in Nat : n \in S => n + 1 \in S
  <2> SUFFICES ASSUME NEW n \in Nat, n \in S, n + 1 <= N PROVE on[0] <= on[n + 1]
    OBVIOUS
  <2>1. n + 1 \in 1..N /\ (n + 1) - 1 = n /\ on[0] <= on[n]
    OBVIOUS
  <2>2. on[n] <= on[n + 1]
    BY <2>1
  <2>3. on[0] \in Nat /\ on[n] \in Nat /\ on[n + 1] \in Nat
    OBVIOUS
  <2> QED BY <2>1, <2>2, <2>3
<1>2. \A n \in Nat : n \in R => n + 1 \in R
  <2> SUFFICES ASSUME NEW n \in Nat, n \in R, n + 1 <= N PROVE on[N - (n + 1)] <= on[N]
    OBVIOUS
  <2>1. N - n \in 1..N /\ (N - n) - 1 = N - (n + 1) /\ on[N - n] <= on[N]
    OBVIOUS
  <2>2. on[N - (n + 1)] <= on[N - n]
    BY <2>1
  <2>3. on[N - (n + 1)] \in Nat /\ on[N - n] \in Nat /\ on[N] \in Nat
    OBVIOUS
  <2> QED BY <2>1, <2>2, <2>3
<1>3. 0 \in S /\ 0 \in R
  OBVIOUS
<1>4. Nat \subseteq S /\ Nat \subseteq R
  <2> HIDE DEF S, R
  <2> QED BY <1>1, <1>2, <1>3, NatSetInduction
<1>5. ASSUME NEW k \in 0..N PROVE on[0] <= on[k] /\ on[k] <= on[N]
  <2>1. N - k \in Nat /\ k \in Nat /\ N - (N - k) = k
    OBVIOUS
  <2>2. N - k \in R /\ k \in S
    BY <1>4, <2>1
  <2> QED BY <2>1, <2>2
<1> QED BY <1>5

\* A recursion up to N: from a, by a step that looks at the place.
Steps(V, N) == [(1..N) \X V -> V]
Follows(f, N, a, g) == f[0] = a /\ \A k \in 1..N : f[k] = g[<<k, f[k - 1]>>]
IsDefinedBy(V, N, a, g) == \E f \in [0..N -> V] : Follows(f, N, a, g)

\* There is a function that is as the recursion says.
LEMMA Recursion ==
  ASSUME NEW V, NEW a \in V, NEW N \in Nat, NEW g \in Steps(V, N)
  PROVE  IsDefinedBy(V, N, a, g)
<1> DEFINE S == {n \in Nat : n <= N => \E f \in [0..n -> V] : Follows(f, n, a, g)}
<1> USE DEF Follows, Steps
<1>1. 0 \in S
  <2> DEFINE f == [k \in 0..0 |-> a]
  <2>1. f \in [0..0 -> V] /\ Follows(f, 0, a, g)
    OBVIOUS
  <2> QED BY <2>1
<1>2. ASSUME NEW n \in Nat, n \in S PROVE n + 1 \in S
  <2> SUFFICES ASSUME n + 1 <= N PROVE \E f \in [0..n + 1 -> V] : Follows(f, n + 1, a, g)
    OBVIOUS
  <2>1. PICK f \in [0..n -> V] : Follows(f, n, a, g)
    BY <1>2
  <2> DEFINE v == g[<<n + 1, f[n]>>]
             h == [k \in 0..n + 1 |-> IF k = n + 1 THEN v ELSE f[k]]
  <2>2. v \in V
    OBVIOUS
  <2> HIDE DEF v
  <2>3. h \in [0..n + 1 -> V]
    BY <2>2
  <2>4. ASSUME NEW k \in 1..n + 1 PROVE h[k] = g[<<k, h[k - 1]>>]
    <3>1. k - 1 \in 0..n /\ h[k - 1] = f[k - 1]
      OBVIOUS
    <3>2. CASE k = n + 1
      <4>1. h[k] = v
        BY <3>2
      <4>2. h[k - 1] = f[n] /\ k = n + 1
        BY <3>1, <3>2
      <4>3. v = g[<<n + 1, f[n]>>]
        BY DEF v
      <4> HIDE DEF h
      <4> QED BY ONLY <4>1, <4>2, <4>3
    <3>3. CASE k # n + 1
      <4>1. k \in 1..n /\ h[k] = f[k]
        BY <3>3
      <4> QED BY <4>1, <3>1, <2>1
    <3> QED BY <3>2, <3>3
  <2>5. h[0] = a
    BY <2>1
  <2> QED BY <2>3, <2>4, <2>5
<1> HIDE DEF S
<1>3. Nat \subseteq S
  BY <1>1, <1>2, NatSetInduction
<1>4. N \in S
  BY <1>3
<1> QED BY <1>4 DEF S, IsDefinedBy

\* Whatever takes the same steps from the same start comes to the same.
GoesAlong(e, f, n) == e[0] = f[0] /\ \A k \in 1..n : e[k - 1] = f[k - 1] => e[k] = f[k]

LEMMA RecursionUnique ==
  ASSUME NEW n \in Nat, NEW e, NEW f, GoesAlong(e, f, n)
  PROVE  e[n] = f[n]
<1> USE DEF GoesAlong
<1> DEFINE S == {k \in Nat : k <= n => e[k] = f[k]}
<1>1. 0 \in S
  OBVIOUS
<1>2. ASSUME NEW k \in Nat, k \in S PROVE k + 1 \in S
  <2> SUFFICES ASSUME k + 1 <= n PROVE e[k + 1] = f[k + 1]
    OBVIOUS
  <2>1. k + 1 \in 1..n /\ (k + 1) - 1 = k
    OBVIOUS
  <2>2. e[k] = f[k]
    BY <1>2
  <2> QED BY <2>1, <2>2
<1> HIDE DEF S
<1>3. Nat \subseteq S
  BY <1>1, <1>2, NatSetInduction
<1>4. n \in S
  BY <1>3
<1> QED BY <1>4 DEF S

-----------------------------------------------------------------------------
(* What is invariant: each code tells some of the lengths, those behind one
   place and up to another, ... *)
Span(e) == IF e[1] <= 15 THEN 1 ELSE ReplengthBase(e[1]) + (e[2] % 2^RepeatBits(e[1]))

Tells(e, from, to) ==
  /\ to = from + Span(e)
  /\ e[1] <= 15 => bitlen_lld[to] = e[1]
  /\ e[1] = 16 => from >= 1
  /\ e[1] >= 16 => \A i \in from + 1..to : bitlen_lld[i] = IF e[1] = 16 THEN bitlen_lld[from] ELSE 0

(* ... one after the other from the first length to where the writer is, and
   the reader has what was told by the codes it has read; ... *)
ToldUpTo(at) ==
  /\ at \in [0..Len(bitlen_lld_e) -> 0..lenPos]
  /\ at[0] = 0 /\ at[Len(bitlen_lld_e)] = lenPos
  /\ \A k \in 1..Len(bitlen_lld_e) : Tells(bitlen_lld_e[k], at[k - 1], at[k])
  /\ restored = SubSeq(bitlen_lld, 1, at[readPos])

(* ... and what of bitlen_cl is not in the file is 0. *)
HeaderTells ==
  /\ header.hlit = 29 /\ header.hdist = 29 /\ header.hclen \in 0..15
  /\ \A k \in 1..Len(CLCL_ORDER) : AllCl[k] = IF k <= Hclen THEN header.clcl[k] ELSE 0

LensTypeOK ==
  /\ bitlen_lld \in Seq(0..15) /\ Len(bitlen_lld) = NumLl + NumD /\ bitlen_lld[EndCode + 1] > 0
  /\ lensPc \in {"encode", "write", "head", "read", "done"}
  /\ lenPos \in 0..Len(bitlen_lld)
  /\ bitlen_lld_e \in Seq(ClCodes \X Nat)
  /\ treeClLengths \in [ClCodes -> {0, 5, 7}]
  /\ readPos \in 0..Len(bitlen_lld_e)

LensIInvAt(at) ==
  /\ LensTypeOK
  /\ lensPc # "encode" => lenPos = Len(bitlen_lld)
  /\ lensPc \in {"encode", "write", "head"} => readPos = 0
  /\ lensPc \in {"head", "read", "done"} => HeaderTells
  /\ lensPc \in {"read", "done"} => readCl = treeClLengths
  /\ lensPc = "done" => readPos = Len(bitlen_lld_e)
  /\ readError = 0
  /\ ToldUpTo(at)

LensIInv == \E at \in [0..Len(bitlen_lld_e) -> Nat] : LensIInvAt(at)

\* Lengths there are, and how many.
LEMMA LengthsAre ==
  ASSUME LensTypeOK
  PROVE  /\ Len(bitlen_lld) = 316 /\ \A i \in 1..316 : bitlen_lld[i] \in 0..15
         /\ bitlen_lld[257] > 0 /\ lenPos \in 0..316
<1>1. NumLl + NumD = 316 /\ EndCode + 1 = 257
  BY DEF NumLl, NumD, EndCode
<1>2. bitlen_lld \in Seq(0..15) /\ Len(bitlen_lld) = 316 /\ bitlen_lld[257] > 0 /\ lenPos \in 0..316
  BY <1>1 DEF LensTypeOK
<1>3. ASSUME NEW i \in 1..316 PROVE bitlen_lld[i] \in 0..15
  <2>1. i \in 1..Len(bitlen_lld)
    BY <1>2
  <2> DEFINE L == 0..15
  <2>2. bitlen_lld \in Seq(L)
    BY <1>2
  <2> HIDE DEF L
  <2>3. bitlen_lld[i] \in L
    BY <2>1, <2>2, ElementOf
  <2> QED BY <2>3 DEF L
<1> QED BY <1>2, <1>3

LEMMA LengthsEnd ==
  ASSUME LensTypeOK
  PROVE  Len(bitlen_lld) = 316 /\ lenPos \in Nat /\ lenPos <= 316
<1>1. lenPos \in 0..316 /\ Len(bitlen_lld) = 316
  BY LengthsAre
<1> QED BY <1>1

\* As many lengths as there are repetitions are the same as the next.
LEMMA RepetitionsRepeat ==
  ASSUME LensTypeOK, lenPos < Len(bitlen_lld)
  PROVE  /\ Repetitions \in Nat /\ lenPos + 1 + Repetitions <= Len(bitlen_lld)
         /\ \A i \in lenPos + 1..lenPos + 1 + Repetitions : bitlen_lld[i] = bitlen_lld[lenPos + 1]
<1> DEFINE N == Len(bitlen_lld) - lenPos - 1
           S == {j \in Nat : IsRepeated(j)}
<1>1. N \in Nat /\ lenPos \in Nat /\ Len(bitlen_lld) = N + lenPos + 1
  <2>1. Len(bitlen_lld) = 316 /\ lenPos \in Nat /\ lenPos <= 316
    BY LengthsEnd
  <2> QED BY <2>1
<1> HIDE DEF N
<1>2. \E j \in 0..N : /\ j < N => ~IsRepeated(j)
                      /\ \A k \in 0..j - 1 : IsRepeated(k)
  <2>1. PICK j \in 0..N : Stops(S, N, j)
    <3> HIDE DEF S
    <3> QED BY <1>1, LoopStops
  <2>2. (j < N => ~IsRepeated(j)) /\ \A k \in 0..j - 1 : IsRepeated(k)
    BY <2>1, <1>1 DEF Stops
  <2> QED BY <2>2
<1>3. /\ Repetitions \in 0..N
      /\ \A k \in 0..Repetitions - 1 : IsRepeated(k)
  BY <1>2 DEF Repetitions, N
<1>4. ASSUME NEW i \in lenPos + 1..lenPos + 1 + Repetitions PROVE bitlen_lld[i] = bitlen_lld[lenPos + 1]
  <2>1. CASE i = lenPos + 1
    BY <2>1
  <2>2. CASE i # lenPos + 1
    <3>1. i - lenPos - 2 \in 0..Repetitions - 1 /\ lenPos + (i - lenPos - 2) + 2 = i
      BY <1>1, <1>3, <2>2
    <3> QED BY <3>1, <1>3 DEF IsRepeated
  <2> QED BY <2>1, <2>2
<1> QED BY <1>1, <1>3, <1>4

\* How many lengths a code tells.
LEMMA Spans ==
  ASSUME NEW e \in ClCodes \X Nat
  PROVE  Span(e) \in Nat \ {0}
<1> DEFINE r == e[2] % 2^RepeatBits(e[1])
<1>1. r \in Nat
  <2>1. 2^RepeatBits(e[1]) \in {4, 8, 128}
    BY DEF RepeatBits
  <2>2. e[2] \in Nat
    OBVIOUS
  <2> QED BY <2>1, <2>2
<1> HIDE DEF r
<1>2. Span(e) = IF e[1] <= 15 THEN 1 ELSE ReplengthBase(e[1]) + r
  BY DEF Span, r
<1> QED BY <1>1, <1>2 DEF ReplengthBase

\* More codes, that tell the lengths from where the writer was to where it is.
Adds(more, to) ==
  /\ bitlen_lld_e' = bitlen_lld_e \o more /\ lenPos' = to
  /\ UNCHANGED <<bitlen_lld, lensPc, treeClLengths, header, readCl, readPos, restored, readError>>

TellOn(more, on) ==
  /\ more \in Seq(ClCodes \X Nat)
  /\ on \in [0..Len(more) -> Nat] /\ on[0] = lenPos
  /\ \A k \in 1..Len(more) : Tells(more[k], on[k - 1], on[k])

\* Codes that tell on from where the writer is are told after the others.
LEMMA ToldOn ==
  ASSUME NEW at, NEW more, NEW on, LensTypeOK, ToldUpTo(at), TellOn(more, on), on[Len(more)] <= Len(bitlen_lld),
         readPos = 0, Adds(more, on[Len(more)])
  PROVE  \E new \in [0..Len(bitlen_lld_e') -> Nat] : ToldUpTo(new)'
<1> DEFINE n == Len(bitlen_lld_e)
           m == Len(more)
<1>0. PICK new : new = [k \in 0..n + m |-> IF k <= n THEN at[k] ELSE on[k - n]]
  OBVIOUS
<1>1. n \in Nat /\ m \in Nat /\ bitlen_lld_e \in Seq(ClCodes \X Nat) /\ more \in Seq(ClCodes \X Nat)
  BY DEF LensTypeOK, TellOn
<1>2. /\ bitlen_lld_e' = bitlen_lld_e \o more
      /\ bitlen_lld_e' \in Seq(ClCodes \X Nat) /\ Len(bitlen_lld_e') = n + m
      /\ \A k \in 1..n : bitlen_lld_e'[k] = bitlen_lld_e[k]
      /\ \A k \in 1..m : bitlen_lld_e'[n + k] = more[k]
  <2>1. bitlen_lld_e' = bitlen_lld_e \o more
    BY DEF Adds
  <2> QED BY <2>1, <1>1
<1>3. /\ lenPos' = on[m] /\ bitlen_lld' = bitlen_lld /\ restored' = restored /\ readPos' = 0
      /\ lenPos \in Nat
  BY DEF Adds, LensTypeOK
<1>4. /\ at \in [0..n -> 0..lenPos] /\ at[0] = 0 /\ at[n] = lenPos
      /\ \A k \in 1..n : Tells(bitlen_lld_e[k], at[k - 1], at[k])
      /\ restored = SubSeq(bitlen_lld, 1, at[readPos])
  BY DEF ToldUpTo
<1>5. /\ on \in [0..m -> Nat] /\ on[0] = lenPos
      /\ \A k \in 1..m : Tells(more[k], on[k - 1], on[k])
  BY DEF TellOn
<1>6. \A k \in 0..m : lenPos <= on[k] /\ on[k] <= on[m]
  <2>1. ASSUME NEW k \in 1..m PROVE on[k - 1] <= on[k]
    <3>1. Span(more[k]) \in Nat
      BY <1>1, Spans, ElementOf
    <3>2. on[k] = on[k - 1] + Span(more[k])
      BY <1>5 DEF Tells
    <3>3. on[k - 1] \in Nat /\ on[k] \in Nat
      <4>1. k \in 0..m /\ k - 1 \in 0..m
        BY <1>1
      <4> HIDE DEF m
      <4> QED BY <4>1, <1>5
    <3> QED BY <3>1, <3>2, <3>3
  <2> HIDE DEF m
  <2> QED BY <2>1, <1>1, <1>5, Ascends
<1> HIDE DEF n, m
<1>7. new \in [0..n + m -> 0..on[m]] /\ new[0] = 0 /\ new[n + m] = on[m]
  <2>1. on[m] \in Nat /\ lenPos <= on[m]
    BY <1>1, <1>5, <1>6
  <2>2. ASSUME NEW k \in 0..n + m PROVE new[k] \in 0..on[m]
    <3>1. CASE k <= n
      <4>1. k \in 0..n /\ at[k] \in 0..lenPos
        BY <3>1, <1>1, <1>4
      <4>2. new[k] = at[k]
        BY <1>0, <3>1
      <4> QED BY <4>1, <4>2, <2>1, <1>3
    <3>2. CASE ~(k <= n)
      <4>1. k - n \in 0..m
        BY <3>2, <1>1
      <4>2. on[k - n] \in Nat /\ on[k - n] <= on[m]
        BY <4>1, <1>5, <1>6
      <4>3. new[k] = on[k - n]
        BY <1>0, <3>2
      <4> QED BY <4>2, <4>3
    <3> QED BY <3>1, <3>2
  <2>3. new[n + m] = on[m]
    <3>1. CASE m = 0
      BY <3>1, <1>0, <1>1, <1>4, <1>5
    <3>2. CASE m # 0
      <4>1. n + m \in 0..n + m /\ ~(n + m <= n) /\ (n + m) - n = m
        BY <3>2, <1>1
      <4> QED BY <4>1, <1>0
    <3> QED BY <3>1, <3>2
  <2>4. new[0] = 0
    BY <1>0, <1>1, <1>4
  <2> QED BY <2>2, <2>3, <2>4, <1>0
<1>8. ASSUME NEW k \in 1..n + m PROVE Tells(bitlen_lld_e[k], new[k - 1], new[k])'
  <2>1. CASE k <= n
    <3>1. new[k] = at[k] /\ new[k - 1] = at[k - 1] /\ k \in 1..n
      BY <2>1, <1>0, <1>1
    <3>2. Tells(bitlen_lld_e[k], at[k - 1], at[k])
      BY <3>1, <1>4
    <3>3. bitlen_lld_e'[k] = bitlen_lld_e[k]
      BY <3>1, <1>2
    <3> QED BY <3>1, <3>2, <3>3, <1>3 DEF Tells
  <2>2. CASE ~(k <= n)
    <3> DEFINE j == k - n
    <3>1. j \in 1..m /\ k = n + j
      BY <2>2, <1>1
    <3>2. new[k] = on[j] /\ new[k - 1] = on[j - 1]
      <4>1. CASE j = 1
        <5>1. k - 1 \in 0..n + m /\ k - 1 <= n /\ k - 1 = n /\ j - 1 = 0
          BY <4>1, <3>1, <1>1
        <5>2. new[k - 1] = at[n]
          BY <5>1, <1>0
        <5>3. new[k] = on[j]
          BY <2>2, <1>0
        <5> QED BY <5>1, <5>2, <5>3, <1>4, <1>5
      <4>2. CASE j # 1
        <5>1. k - 1 \in 0..n + m /\ ~(k - 1 <= n) /\ (k - 1) - n = j - 1
          BY <4>2, <3>1, <1>1
        <5> QED BY <5>1, <2>2, <1>0
      <4> QED BY <4>1, <4>2
    <3>3. Tells(more[j], on[j - 1], on[j])
      BY <3>1, <1>5
    <3>4. bitlen_lld_e'[k] = more[j]
      BY <3>1, <1>2
    <3> HIDE DEF j
    <3> QED BY <3>2, <3>3, <3>4, <1>3 DEF Tells
  <2> QED BY <2>1, <2>2
<1>9. restored' = SubSeq(bitlen_lld', 1, new[readPos'])
  BY <1>3, <1>4, <1>7
<1>10. new \in [0..n + m -> Nat]
  <2>1. on[m] \in Nat
    BY <1>1, <1>5
  <2> QED BY <1>7, <2>1
<1>11. ToldUpTo(new)'
  BY <1>2, <1>3, <1>7, <1>8, <1>9 DEF ToldUpTo
<1> QED BY <1>2, <1>10, <1>11

\* What LengthsRestored rests on is kept while the writer tells more.
LEMMA TellingOn ==
  ASSUME NEW more, NEW on, LensIInv, lensPc = "encode", TellOn(more, on), on[Len(more)] <= Len(bitlen_lld),
         Adds(more, on[Len(more)])
  PROVE  LensIInv'
<1>1. PICK at \in [0..Len(bitlen_lld_e) -> Nat] : LensIInvAt(at)
  BY DEF LensIInv
<1>2. LensTypeOK /\ readPos = 0 /\ readError = 0 /\ ToldUpTo(at)
  BY <1>1 DEF LensIInvAt
<1>3. PICK new \in [0..Len(bitlen_lld_e') -> Nat] : ToldUpTo(new)'
  BY <1>2, ToldOn
<1>4. LensTypeOK'
  <2>1. bitlen_lld_e' \in Seq(ClCodes \X Nat)
    <3>1. bitlen_lld_e \in Seq(ClCodes \X Nat) /\ more \in Seq(ClCodes \X Nat) /\ bitlen_lld_e' = bitlen_lld_e \o more
      BY <1>2 DEF LensTypeOK, TellOn, Adds
    <3> QED BY <3>1
  <2>2. lenPos' \in 0..Len(bitlen_lld)
    <3>1. lenPos' = on[Len(more)] /\ on \in [0..Len(more) -> Nat] /\ more \in Seq(ClCodes \X Nat) /\ Len(bitlen_lld) = 316
      BY <1>2, LengthsEnd DEF TellOn, Adds
    <3>2. Len(more) \in 0..Len(more) /\ on[Len(more)] <= 316
      BY <3>1
    <3>3. on[Len(more)] \in Nat
      BY <3>1, <3>2
    <3>4. lenPos' = on[Len(more)] /\ Len(bitlen_lld) = 316
      BY <3>1
    <3>5. \A x \in Nat : x <= 316 => x \in 0..316
      OBVIOUS
    <3>6. on[Len(more)] \in 0..316
      BY ONLY <3>2, <3>3, <3>5
    <3> QED BY ONLY <3>4, <3>6
  <2>3. readPos' = 0
    BY <1>2 DEF Adds
  <2> QED BY <1>2, <2>1, <2>2, <2>3 DEF LensTypeOK, Adds
<1>5. LensIInvAt(new)'
  BY <1>2, <1>3, <1>4 DEF LensIInvAt, Adds
<1> QED BY <1>3, <1>5 DEF LensIInv

LEMMA EncodeZerosInv == LensIInv /\ EncodeZeros => LensIInv'
<1> SUFFICES ASSUME LensIInv, EncodeZeros PROVE LensIInv'
  OBVIOUS
<1>1. LensTypeOK /\ lensPc = "encode" /\ lenPos < Len(bitlen_lld)
  BY DEF LensIInv, LensIInvAt, EncodeZeros, Encoding
<1> DEFINE j == Repetitions
           zeros == IF j + 1 > 138 THEN 138 ELSE j + 1
           code == IF zeros <= 10 THEN <<17, zeros - 3>> ELSE <<18, zeros - 11>>
<1>2. /\ j \in Nat /\ lenPos + 1 + j <= Len(bitlen_lld)
      /\ \A i \in lenPos + 1..lenPos + 1 + j : bitlen_lld[i] = bitlen_lld[lenPos + 1]
  BY <1>1, RepetitionsRepeat
<1>3. j >= 2 /\ bitlen_lld[lenPos + 1] = 0
  BY DEF EncodeZeros, IsZeroRun
<1>4. lenPos \in Nat /\ Len(bitlen_lld) \in Nat
  BY <1>1, LengthsEnd
<1>5. Adds(<<code>>, lenPos + zeros)
  <2>1. bitlen_lld_e' = Append(bitlen_lld_e, code) /\ bitlen_lld_e \in Seq(ClCodes \X Nat)
    BY <1>1 DEF EncodeZeros, LensTypeOK
  <2> HIDE DEF code
  <2>2. bitlen_lld_e' = bitlen_lld_e \o <<code>>
    BY <2>1
  <2>3. lenPos' = lenPos + zeros
    BY DEF EncodeZeros
  <2> QED BY <2>2, <2>3 DEF Adds, EncodeZeros
<1> HIDE DEF j
<1>6. zeros \in 3..138 /\ zeros <= j + 1
  BY <1>2, <1>3
<1>7. Span(code) = zeros /\ code \in ClCodes \X Nat /\ code[1] \in {17, 18}
  <2> HIDE DEF zeros
  <2>1. CASE zeros <= 10
    <3>1. code = <<17, zeros - 3>> /\ (zeros - 3) % 8 = zeros - 3 /\ 2^3 = 8
      BY <1>6, <2>1
    <3> HIDE DEF code
    <3> QED BY <1>6, <2>1, <3>1 DEF Span, ReplengthBase, RepeatBits, ClCodes
  <2>2. CASE ~(zeros <= 10)
    <3>1. code = <<18, zeros - 11>> /\ (zeros - 11) % 128 = zeros - 11 /\ 2^7 = 128
      BY <1>6, <2>2
    <3> HIDE DEF code
    <3> QED BY <1>6, <2>2, <3>1 DEF Span, ReplengthBase, RepeatBits, ClCodes
  <2> QED BY <2>1, <2>2
<1> HIDE DEF code, zeros
<1>8. PICK more, on : more = <<code>> /\ on = [k \in 0..1 |-> IF k = 0 THEN lenPos ELSE lenPos + zeros]
  OBVIOUS
<1>9. Len(more) = 1 /\ on[0] = lenPos /\ on[1] = lenPos + zeros /\ more[1] = code /\ on \in [0..1 -> Nat]
  BY <1>4, <1>6, <1>8
<1>10. Tells(code, lenPos, lenPos + zeros)
  <2>1. ASSUME NEW i \in lenPos + 1..lenPos + zeros PROVE bitlen_lld[i] = 0
    <3>1. i \in lenPos + 1..lenPos + 1 + j
      BY <1>2, <1>4, <1>6
    <3> QED BY <3>1, <1>2, <1>3
  <2> QED BY <1>7, <2>1 DEF Tells
<1>11. TellOn(more, on)
  <2>1. more \in Seq(ClCodes \X Nat)
    BY <1>7, <1>8
  <2>2. \A k \in 1..1 : k = 1 /\ k - 1 = 0
    OBVIOUS
  <2> QED BY <2>1, <2>2, <1>9, <1>10 DEF TellOn
<1>12. on[Len(more)] <= Len(bitlen_lld)
  BY <1>2, <1>4, <1>6, <1>9
<1>13. Adds(more, on[Len(more)])
  BY <1>5, <1>8, <1>9
<1> QED BY <1>1, <1>11, <1>12, <1>13, TellingOn

LEMMA EncodeOneInv == LensIInv /\ EncodeOne => LensIInv'
<1> SUFFICES ASSUME LensIInv, EncodeOne PROVE LensIInv'
  OBVIOUS
<1>1. LensTypeOK /\ lensPc = "encode" /\ lenPos < Len(bitlen_lld)
  BY DEF LensIInv, LensIInvAt, EncodeOne, Encoding
<1>2. lenPos + 1 \in 1..316 /\ lenPos \in Nat /\ Len(bitlen_lld) = 316 /\ bitlen_lld[lenPos + 1] \in 0..15
  <2>1. lenPos \in Nat /\ Len(bitlen_lld) = 316 /\ lenPos + 1 \in 1..316
    <3>1. lenPos \in Nat /\ Len(bitlen_lld) = 316
      BY <1>1, LengthsEnd
    <3> QED BY <1>1, <3>1
  <2>2. \A i \in 1..316 : bitlen_lld[i] \in 0..15
    BY <1>1, LengthsAre
  <2> QED BY <2>1, <2>2
<1>3. PICK code : code = <<bitlen_lld[lenPos + 1], 0>>
  OBVIOUS
<1>4. code \in ClCodes \X Nat /\ code[1] \in 0..15 /\ Span(code) = 1
  BY <1>2, <1>3 DEF ClCodes, Span
<1>5. Adds(<<code>>, lenPos + 1)
  <2>1. bitlen_lld_e' = Append(bitlen_lld_e, code) /\ bitlen_lld_e \in Seq(ClCodes \X Nat)
    BY <1>1, <1>3 DEF EncodeOne, LensTypeOK
  <2>2. bitlen_lld_e' = bitlen_lld_e \o <<code>>
    BY <2>1
  <2> QED BY <2>2 DEF Adds, EncodeOne
<1>6. PICK more, on : more = <<code>> /\ on = [k \in 0..1 |-> IF k = 0 THEN lenPos ELSE lenPos + 1]
  OBVIOUS
<1>7. Len(more) = 1 /\ on[0] = lenPos /\ on[1] = lenPos + 1 /\ more[1] = code /\ on \in [0..1 -> Nat]
  BY <1>2, <1>6
<1>8. Tells(code, lenPos, lenPos + 1)
  BY <1>3, <1>4 DEF Tells
<1>9. TellOn(more, on)
  <2>1. more \in Seq(ClCodes \X Nat)
    BY <1>4, <1>6
  <2>2. \A k \in 1..1 : k = 1 /\ k - 1 = 0
    OBVIOUS
  <2> QED BY <2>1, <2>2, <1>7, <1>8 DEF TellOn
<1>10. on[Len(more)] <= Len(bitlen_lld)
  BY <1>2, <1>7
<1>11. Adds(more, on[Len(more)])
  BY <1>5, <1>6, <1>7
<1> QED BY <1>1, <1>9, <1>10, <1>11, TellingOn

Regroups(a, b, c, x) == (Append(a, x) \o b) \o c = a \o ((<<x>> \o b) \o c)

LEMMA Regrouped ==
  ASSUME NEW S, NEW a \in Seq(S), NEW b \in Seq(S), NEW c \in Seq(S), NEW x \in S
  PROVE  Regroups(a, b, c, x)
<1> SUFFICES (Append(a, x) \o b) \o c = a \o ((<<x>> \o b) \o c)
  BY DEF Regroups
<1> DEFINE p == <<x>> \o b
           l == Append(a, x) \o b
<1>1. p \in Seq(S) /\ Len(p) = 1 + Len(b) /\ p[1] = x /\ \A k \in 1..Len(b) : p[1 + k] = b[k]
  OBVIOUS
<1>2. /\ l \in Seq(S) /\ Len(l) = Len(a) + 1 + Len(b) /\ l[Len(a) + 1] = x
      /\ \A k \in 1..Len(a) : l[k] = a[k]
      /\ \A k \in 1..Len(b) : l[Len(a) + 1 + k] = b[k]
  OBVIOUS
<1> HIDE DEF p, l
<1>3. l = a \o p
  <2>1. PICK d : d = a \o p
    OBVIOUS
  <2>2. /\ d \in Seq(S) /\ Len(d) = Len(a) + Len(p)
        /\ \A k \in 1..Len(a) : d[k] = a[k]
        /\ \A k \in 1..Len(p) : d[Len(a) + k] = p[k]
    <3>1. PICK t \in Seq(S) : t = p
      BY <1>1
    <3>2. d = a \o t
      BY <2>1, <3>1
    <3>3. /\ d \in Seq(S) /\ Len(d) = Len(a) + Len(t)
          /\ \A k \in 1..Len(a) : d[k] = a[k]
          /\ \A k \in 1..Len(t) : d[Len(a) + k] = t[k]
      BY ONLY <3>2, a \in Seq(S), t \in Seq(S)
    <3> QED BY <3>1, <3>3
  <2>3. Len(a) \in Nat /\ Len(b) \in Nat
    OBVIOUS
  <2>4. ASSUME NEW k \in 1..Len(l) PROVE l[k] = d[k]
    <3>1. CASE k <= Len(a)
      <4>1. k \in 1..Len(a)
        BY <3>1, <1>2, <2>3
      <4> QED BY <4>1, <1>2, <2>2
    <3>2. CASE k = Len(a) + 1
      <4>1. 1 \in 1..Len(p)
        BY <1>1, <2>3
      <4> QED BY <4>1, <3>2, <1>1, <1>2, <2>2
    <3>3. CASE k > Len(a) + 1
      <4>1. PICK i \in 1..Len(b) : k = Len(a) + 1 + i
        <5>1. k - Len(a) - 1 \in 1..Len(b) /\ k = Len(a) + 1 + (k - Len(a) - 1)
          BY <3>3, <1>2, <2>3
        <5> QED BY <5>1
      <4>2. l[k] = b[i]
        BY <4>1, <1>2
      <4>3. 1 + i \in 1..Len(p) /\ Len(a) + (1 + i) = k
        BY <4>1, <1>1, <2>3
      <4>4. d[k] = p[1 + i]
        BY <4>3, <2>2
      <4> QED BY <4>2, <4>4, <1>1
    <3> QED BY <3>1, <3>2, <3>3, <1>2, <2>3
  <2>5. Len(l) = Len(d)
    BY <1>1, <1>2, <2>2, <2>3
  <2>6. l = d
    BY <2>2, <2>4, <2>5, <1>2, SameElements
  <2> QED BY <2>1, <2>6
<1>4. (a \o p) \o c = a \o (p \o c)
  BY <1>1
<1> QED BY <1>3, <1>4 DEF l, p

\* The length itself, then sixes of it, then what is left if it is enough.
LEMMA EncodeRepeatsInv == LensIInv /\ EncodeRepeats => LensIInv'
<1> SUFFICES ASSUME LensIInv, EncodeRepeats PROVE LensIInv'
  OBVIOUS
<1>1. LensTypeOK /\ lensPc = "encode" /\ lenPos < Len(bitlen_lld)
  BY DEF LensIInv, LensIInvAt, EncodeRepeats, Encoding
<1> DEFINE j == Repetitions
           rest == j % 6
           q == j \div 6
           sixes == [k \in 1..q |-> <<16, 3>>]
           tail == IF rest >= 3 THEN <<<<16, rest - 3>>>> ELSE <<>>
           code == <<bitlen_lld[lenPos + 1], 0>>
           n == IF rest >= 3 THEN j ELSE j - rest
<1>2. /\ j \in Nat /\ lenPos + 1 + j <= Len(bitlen_lld)
      /\ \A i \in lenPos + 1..lenPos + 1 + j : bitlen_lld[i] = bitlen_lld[lenPos + 1]
  BY <1>1, RepetitionsRepeat
<1>3. /\ bitlen_lld_e' = Append(bitlen_lld_e, code) \o sixes \o tail
      /\ lenPos' = lenPos + 1 + n
      /\ UNCHANGED <<bitlen_lld, lensPc, treeClLengths, header, readCl, readPos, restored, readError>>
  BY DEF EncodeRepeats
<1> HIDE DEF j
<1>4. lenPos + 1 \in 1..316 /\ lenPos \in Nat /\ Len(bitlen_lld) = 316 /\ bitlen_lld[lenPos + 1] \in 0..15
  <2>1. lenPos \in Nat /\ Len(bitlen_lld) = 316 /\ lenPos + 1 \in 1..316
    <3>1. lenPos \in Nat /\ Len(bitlen_lld) = 316
      BY <1>1, LengthsEnd
    <3> QED BY <1>1, <3>1
  <2>2. \A i \in 1..316 : bitlen_lld[i] \in 0..15
    BY <1>1, LengthsAre
  <2> QED BY <2>1, <2>2
<1>5. q \in Nat /\ rest \in 0..5 /\ j = 6 * q + rest
  BY <1>2
<1> HIDE DEF q, rest
<1>6. code \in ClCodes \X Nat /\ code[1] = bitlen_lld[lenPos + 1] /\ code[1] \in 0..15 /\ Span(code) = 1
  BY <1>4 DEF ClCodes, Span
<1>7. <<16, 3>> \in ClCodes \X Nat /\ Span(<<16, 3>>) = 6
  <2>1. 2^2 = 4 /\ 3 % 4 = 3
    OBVIOUS
  <2> QED BY <2>1 DEF Span, ReplengthBase, RepeatBits, ClCodes
<1>8. rest >= 3 => <<16, rest - 3>> \in ClCodes \X Nat /\ Span(<<16, rest - 3>>) = rest
  <2> SUFFICES ASSUME rest >= 3 PROVE <<16, rest - 3>> \in ClCodes \X Nat /\ Span(<<16, rest - 3>>) = rest
    OBVIOUS
  <2>1. 2^2 = 4 /\ (rest - 3) % 4 = rest - 3 /\ rest - 3 \in Nat
    BY <1>5
  <2> QED BY <2>1, <1>5 DEF Span, ReplengthBase, RepeatBits, ClCodes
<1> HIDE DEF code
<1> DEFINE m == 1 + q + IF rest >= 3 THEN 1 ELSE 0
<1>9. PICK more : more = [k \in 1..m |-> IF k = 1 THEN code ELSE IF k <= 1 + q THEN <<16, 3>> ELSE <<16, rest - 3>>]
  OBVIOUS
<1>10. PICK on : on = [k \in 0..m |-> IF k = 0 THEN lenPos ELSE IF k <= 1 + q THEN lenPos + 1 + 6 * (k - 1)
                                                                ELSE lenPos + 1 + j]
  OBVIOUS
<1>11. more \in Seq(ClCodes \X Nat) /\ Len(more) = m /\ m \in Nat
  <2>1. m \in Nat
    BY <1>5
  <2> DEFINE S == ClCodes \X Nat
  <2>2. ASSUME NEW k \in 1..m PROVE more[k] \in S
    <3>1. k = 1 \/ k <= 1 + q \/ rest >= 3
      BY <1>5
    <3>2. more[k] = IF k = 1 THEN code ELSE IF k <= 1 + q THEN <<16, 3>> ELSE <<16, rest - 3>>
      BY <1>9
    <3>3. code \in S /\ <<16, 3>> \in S /\ (rest >= 3 => <<16, rest - 3>> \in S)
      BY <1>6, <1>7, <1>8
    <3> HIDE DEF S
    <3> QED BY <3>1, <3>2, <3>3
  <2> HIDE DEF S, m
  <2>3. more \in [1..m -> S]
    BY <2>2, <1>9
  <2> QED BY <2>1, <2>3 DEF S
<1>12. bitlen_lld_e' = bitlen_lld_e \o more
  <2>1. bitlen_lld_e \in Seq(ClCodes \X Nat)
    BY <1>1 DEF LensTypeOK
  <2>2. sixes \in Seq({<<16, 3>>}) /\ Len(sixes) = q /\ \A k \in 1..q : sixes[k] = <<16, 3>>
    BY <1>5
  <2>a. tail \in Seq(ClCodes \X Nat) /\ Len(tail) = m - (1 + q) /\ (rest >= 3 => tail[1] = <<16, rest - 3>>)
    <3>1. CASE rest >= 3
      BY <3>1, <1>5, <1>8
    <3>2. CASE ~(rest >= 3)
      BY <3>2, <1>5
    <3> QED BY <3>1, <3>2
  <2>b. sixes \in Seq(ClCodes \X Nat)
    BY <1>5, <1>7
  <2>c. m \in Nat /\ m <= q + 2 /\ (m = q + 2 => rest >= 3)
    BY <1>5
  <2> HIDE DEF sixes, tail, m
  <2>3. more = <<code>> \o sixes \o tail
    <3>1. /\ <<code>> \o sixes \in Seq(ClCodes \X Nat) /\ Len(<<code>> \o sixes) = 1 + q
          /\ (<<code>> \o sixes)[1] = code
          /\ \A k \in 1..q : (<<code>> \o sixes)[1 + k] = <<16, 3>>
      BY <2>2, <2>b, <1>5, <1>6
    <3>2. PICK c \in Seq(ClCodes \X Nat) : c = <<code>> \o sixes
      BY <3>1
    <3>3. /\ c \o tail \in Seq(ClCodes \X Nat) /\ Len(c \o tail) = m
          /\ \A k \in 1..1 + q : (c \o tail)[k] = c[k]
          /\ rest >= 3 /\ m = q + 2 => (c \o tail)[q + 2] = <<16, rest - 3>>
      BY <3>1, <3>2, <2>a, <2>c, <1>5
    <3>4. ASSUME NEW k \in 1..m PROVE more[k] = (c \o tail)[k]
      <4>1. more[k] = IF k = 1 THEN code ELSE IF k <= 1 + q THEN <<16, 3>> ELSE <<16, rest - 3>>
        BY <1>9
      <4>2. CASE k = 1
        BY <4>1, <4>2, <3>1, <3>2, <3>3, <1>5
      <4>3. CASE k # 1 /\ k <= 1 + q
        <5>1. k - 1 \in 1..q /\ 1 + (k - 1) = k /\ k \in 1..1 + q
          BY <4>3, <1>5
        <5>2. c[k] = <<16, 3>>
          BY <5>1, <3>1, <3>2
        <5> QED BY <4>1, <4>3, <5>1, <5>2, <3>3
      <4>4. CASE ~(k <= 1 + q)
        <5>1. k = q + 2 /\ m = q + 2
          BY <4>4, <2>c, <1>5
        <5>2. more[k] = <<16, rest - 3>>
          BY <4>1, <5>1, <1>5
        <5> QED BY <5>1, <5>2, <2>c, <3>3
      <4> QED BY <4>2, <4>3, <4>4
    <3>5. more = c \o tail
      <4>1. more \in Seq(ClCodes \X Nat) /\ Len(more) = m
        BY <1>11
      <4>2. PICK d \in Seq(ClCodes \X Nat) : d = c \o tail
        BY <3>3
      <4>3. d \in Seq(ClCodes \X Nat) /\ Len(d) = m /\ \A k \in 1..m : more[k] = d[k]
        BY <3>3, <3>4, <4>2
      <4> HIDE DEF m
      <4>4. more = d
        BY <4>1, <4>3, SameElements
      <4> QED BY <4>2, <4>4
    <3> QED BY <3>2, <3>5
  <2>5. Append(bitlen_lld_e, code) \o sixes \o tail = bitlen_lld_e \o (<<code>> \o sixes \o tail)
    <3> DEFINE S == ClCodes \X Nat
    <3>1. bitlen_lld_e \in Seq(S) /\ code \in S /\ sixes \in Seq(S) /\ tail \in Seq(S)
      BY <2>1, <2>a, <2>b, <1>6
    <3> HIDE DEF S
    <3>2. Regroups(bitlen_lld_e, sixes, tail, code)
      BY ONLY <3>1, Regrouped
    <3> QED BY <3>2 DEF Regroups
  <2> QED BY <2>3, <2>5, <1>3
<1>13. on \in [0..m -> Nat] /\ on[0] = lenPos /\ on[m] = lenPos + 1 + n
  <2>1. m \in 1..q + 2
    BY <1>5
  <2>2. on[m] = lenPos + 1 + n
    <3>1. CASE rest >= 3
      BY <3>1, <2>1, <1>5, <1>10
    <3>2. CASE ~(rest >= 3)
      <4>1. n = 6 * q /\ m = 1 + q
        BY <3>2, <1>5
      <4> HIDE DEF n
      <4> QED BY <4>1, <2>1, <1>5, <1>10
    <3> QED BY <3>1, <3>2
  <2>3. ASSUME NEW k \in 0..m PROVE on[k] \in Nat
    BY <1>2, <1>4, <1>5, <1>10
  <2> HIDE DEF m, n
  <2> QED BY <2>1, <2>2, <2>3, <1>5, <1>10
<1>14. ASSUME NEW k \in 1..m PROVE Tells(more[k], on[k - 1], on[k])
  <2>1. \A i \in lenPos + 1..lenPos + 1 + j : bitlen_lld[i] = bitlen_lld[lenPos + 1]
    BY <1>2
  <2>2. CASE k = 1
    <3>1. more[k] = code /\ on[k - 1] = lenPos /\ on[k] = lenPos + 1
      BY <2>2, <1>4, <1>5, <1>9, <1>10
    <3> QED BY <3>1, <1>4, <1>6 DEF Tells
  <2>3. CASE k # 1 /\ k <= 1 + q
    <3>1. more[k] = <<16, 3>> /\ on[k] = lenPos + 1 + 6 * (k - 1) /\ on[k - 1] = lenPos + 1 + 6 * (k - 2)
      BY <2>3, <1>4, <1>5, <1>9, <1>10
    <3>2. /\ lenPos + 1 + 6 * (k - 2) >= lenPos + 1
          /\ lenPos + 1 + 6 * (k - 1) <= lenPos + 1 + j
          /\ lenPos + 1 + 6 * (k - 1) = lenPos + 1 + 6 * (k - 2) + 6
      BY <2>3, <1>4, <1>5
    <3>3. on[k - 1] \in lenPos + 1..lenPos + 1 + j /\ on[k] <= lenPos + 1 + j /\ on[k] = on[k - 1] + 6 /\ on[k - 1] >= 1
      BY <3>1, <3>2, <2>3, <1>2, <1>4
    <3>4. on[k] \in Int /\ on[k - 1] \in Int
      BY <3>1, <2>3, <1>4
    <3>5. ASSUME NEW i \in on[k - 1] + 1..on[k] PROVE bitlen_lld[i] = bitlen_lld[on[k - 1]]
      <4>1. i \in lenPos + 1..lenPos + 1 + j
        BY <3>3, <3>4, <1>2, <1>4
      <4> QED BY <4>1, <2>1, <3>3
    <3> QED BY <3>1, <3>3, <3>5, <1>7 DEF Tells
  <2>4. CASE ~(k <= 1 + q)
    <3>1. rest >= 3 /\ k = q + 2
      BY <2>4, <1>5
    <3>2. more[k] = <<16, rest - 3>> /\ on[k] = lenPos + 1 + j /\ on[k - 1] = lenPos + 1 + 6 * q
      BY <2>4, <3>1, <1>4, <1>5, <1>9, <1>10
    <3>3. on[k - 1] \in lenPos + 1..lenPos + 1 + j /\ on[k] = on[k - 1] + rest /\ on[k - 1] >= 1
      BY <3>2, <1>2, <1>4, <1>5
    <3>4. on[k] \in Int /\ on[k - 1] \in Int
      BY <3>2, <1>2, <1>4, <1>5
    <3>5. ASSUME NEW i \in on[k - 1] + 1..on[k] PROVE bitlen_lld[i] = bitlen_lld[on[k - 1]]
      <4>1. i \in lenPos + 1..lenPos + 1 + j
        BY <3>2, <3>3, <3>4, <1>2, <1>4
      <4> QED BY <4>1, <2>1, <3>3
    <3> QED BY <3>1, <3>2, <3>3, <3>5, <1>8 DEF Tells
  <2> QED BY <2>2, <2>3, <2>4
<1>15. TellOn(more, on)
  <2> HIDE DEF m
  <2> QED BY <1>11, <1>13, <1>14 DEF TellOn
<1>16. on[Len(more)] <= Len(bitlen_lld)
  <2>1. lenPos + 1 + n <= lenPos + 1 + j
    BY <1>2, <1>4, <1>5
  <2>2. n \in Nat
    BY <1>5
  <2> HIDE DEF n, m
  <2> QED BY <2>1, <2>2, <1>2, <1>4, <1>11, <1>13
<1>17. Adds(more, on[Len(more)])
  <2> HIDE DEF n, m, sixes, tail
  <2> QED BY <1>3, <1>11, <1>12, <1>13 DEF Adds
<1> QED BY <1>1, <1>15, <1>16, <1>17, TellingOn

LEMMA LensStartInv ==
  ASSUME NEW lens \in LengthInputs, LensStart(lens, "encode")
  PROVE  LensIInv
<1>1. /\ bitlen_lld \in Seq(0..15) /\ Len(bitlen_lld) = NumLl + NumD /\ bitlen_lld[EndCode + 1] > 0
      /\ Len(bitlen_lld) = 316
  BY LengthAssumption DEF LensStart, NumLl, NumD
<1>2. /\ lensPc = "encode" /\ lenPos = 0 /\ bitlen_lld_e = <<>> /\ readPos = 0 /\ restored = <<>> /\ readError = 0
      /\ treeClLengths \in [ClCodes -> {0, 5, 7}]
  BY DEF LensStart
<1>3. LensTypeOK
  BY <1>1, <1>2 DEF LensTypeOK
<1>4. PICK at : at = [k \in 0..0 |-> 0]
  OBVIOUS
<1>5. ToldUpTo(at)
  <2>1. SubSeq(bitlen_lld, 1, 0) = <<>>
    BY <1>1
  <2>2. at \in [0..0 -> 0..0] /\ at[0] = 0
    BY <1>4
  <2>3. Len(bitlen_lld_e) = 0
    BY <1>2
  <2> QED BY <1>2, <2>1, <2>2, <2>3 DEF ToldUpTo
<1>6. LensIInvAt(at)
  BY <1>2, <1>3, <1>5 DEF LensIInvAt
<1>7. at \in [0..Len(bitlen_lld_e) -> Nat]
  BY <1>2, <1>4
<1> QED BY <1>6, <1>7 DEF LensIInv

\* A step that writes no code and reads none keeps what has been told.
LEMMA ToldStays ==
  ASSUME NEW at, ToldUpTo(at), UNCHANGED <<bitlen_lld, lenPos, bitlen_lld_e, readPos, restored>>
  PROVE  ToldUpTo(at)'
BY DEF ToldUpTo, Tells

LEMMA MakeClTreeInv == LensIInv /\ MakeClTree => LensIInv'
<1> SUFFICES ASSUME LensIInv, MakeClTree PROVE LensIInv'
  OBVIOUS
<1>1. PICK at \in [0..Len(bitlen_lld_e) -> Nat] : LensIInvAt(at)
  BY DEF LensIInv
<1>2. LensTypeOK /\ readPos = 0 /\ readError = 0 /\ ToldUpTo(at)
  BY <1>1 DEF LensIInvAt, MakeClTree
<1>3. LensTypeOK'
  <2>1. treeClLengths' \in [ClCodes -> {0, 5, 7}]
    BY DEF MakeClTree
  <2> QED BY <1>2, <2>1 DEF LensTypeOK, MakeClTree
<1>4. lenPos = Len(bitlen_lld)
  <2>1. Len(bitlen_lld) = 316 /\ lenPos \in Nat /\ lenPos <= 316
    BY <1>2, LengthsEnd
  <2>2. lenPos >= Len(bitlen_lld)
    BY DEF MakeClTree
  <2> QED BY <2>1, <2>2
<1>5. ToldUpTo(at)'
  BY <1>2, ToldStays DEF MakeClTree
<1>6. LensIInvAt(at)'
  BY <1>2, <1>3, <1>4, <1>5 DEF LensIInvAt, MakeClTree
<1>7. (at \in [0..Len(bitlen_lld_e) -> Nat])'
  BY DEF MakeClTree
<1> QED BY <1>6, <1>7 DEF LensIInv

\* What is cut from bitlen_cl is 0.
LEMMA Trimmed ==
  ASSUME LensTypeOK
  PROVE  /\ \A k \in 1..19 : AllCl[k] \in {0, 5, 7}
         /\ Len(BitlenCl) \in 4..19
         /\ \A k \in 1..19 : IF k <= Len(BitlenCl) THEN BitlenCl[k] = AllCl[k] ELSE AllCl[k] = 0
<1>1. Len(CLCL_ORDER) = 19 /\ \A k \in 1..19 : CLCL_ORDER[k] \in ClCodes
  BY DEF CLCL_ORDER, ClCodes
<1>2. \A k \in 1..19 : AllCl[k] \in {0, 5, 7}
  BY <1>1 DEF AllCl, LensTypeOK
<1>3. AllCl \in Seq({0, 5, 7}) /\ Len(AllCl) = 19
  BY <1>1, <1>2 DEF AllCl
<1> DEFINE S == {k \in Nat : AllCl[19 - k] = 0}
           Last(n) == n > 4 => AllCl[n] # 0
           Zero(n) == \A k \in n + 1..19 : AllCl[k] = 0
<1>4. \E n \in 4..19 : Last(n) /\ Zero(n)
  <2>1. PICK j \in 0..15 : Stops(S, 15, j)
    <3> HIDE DEF S
    <3> QED BY LoopStops
  <2>2. Last(19 - j)
    BY <2>1 DEF Stops
  <2>3. ASSUME NEW k \in 19 - j + 1..19 PROVE AllCl[k] = 0
    <3>1. 19 - k \in 0..j - 1 /\ 19 - (19 - k) = k
      OBVIOUS
    <3> QED BY <3>1, <2>1 DEF Stops
  <2>4. 19 - j \in 4..19
    OBVIOUS
  <2> QED BY <2>2, <2>3, <2>4
<1>5. PICK n \in 4..19 : BitlenCl = SubSeq(AllCl, 1, n) /\ Zero(n)
  BY <1>3, <1>4 DEF BitlenCl
<1>6. Len(BitlenCl) = n /\ \A k \in 1..n : BitlenCl[k] = AllCl[k]
  BY <1>3, <1>5
<1>7. ASSUME NEW k \in 1..19 PROVE IF k <= n THEN BitlenCl[k] = AllCl[k] ELSE AllCl[k] = 0
  BY <1>5, <1>6
<1> QED BY <1>2, <1>6, <1>7

LEMMA WriteHeaderInv == LensIInv /\ WriteHeader => LensIInv'
<1> SUFFICES ASSUME LensIInv, WriteHeader PROVE LensIInv'
  OBVIOUS
<1>1. PICK at \in [0..Len(bitlen_lld_e) -> Nat] : LensIInvAt(at)
  BY DEF LensIInv
<1>2. LensTypeOK /\ readPos = 0 /\ readError = 0 /\ ToldUpTo(at) /\ lenPos = Len(bitlen_lld)
  BY <1>1 DEF LensIInvAt, WriteHeader
<1>3. LensTypeOK'
  BY <1>2 DEF LensTypeOK, WriteHeader
<1>4. HeaderTells'
  <2> DEFINE n == Len(BitlenCl)
  <2>1. /\ n \in 4..19 /\ \A k \in 1..19 : AllCl[k] \in {0, 5, 7}
        /\ \A k \in 1..19 : IF k <= n THEN BitlenCl[k] = AllCl[k] ELSE AllCl[k] = 0
    BY <1>2, Trimmed
  <2>2. header' = [hlit |-> (NumLl - 257) % 2^5, hdist |-> (NumD - 1) % 2^5, hclen |-> (n - 4) % 2^4,
                   clcl |-> [k \in 1..n |-> BitlenCl[k] % 2^3]]
    BY DEF WriteHeader
  <2> HIDE DEF n
  <2>3. (NumLl - 257) % 2^5 = 29 /\ (NumD - 1) % 2^5 = 29
    BY DEF NumLl, NumD
  <2>4. (n - 4) % 2^4 = n - 4
    <3>1. 2^4 = 16
      OBVIOUS
    <3>2. n \in 4..19
      BY <2>1
    <3>3. \A x \in 4..19 : (x - 4) % 16 = x - 4
      OBVIOUS
    <3>4. (n - 4) % 16 = n - 4
      BY <3>2, <3>3
    <3> QED BY <3>1, <3>4
  <2>5. \A x \in {0, 5, 7} : x % 2^3 = x
    <3>1. 2^3 = 8
      OBVIOUS
    <3> QED BY <3>1
  <2>6. /\ header'.hlit = 29 /\ header'.hdist = 29 /\ header'.hclen = n - 4
        /\ \A k \in 1..n : header'.clcl[k] = BitlenCl[k] % 2^3
    BY <2>2, <2>3, <2>4
  <2>7. AllCl' = AllCl
    BY DEF AllCl, WriteHeader
  <2>8. Len(CLCL_ORDER) = 19
    BY DEF CLCL_ORDER
  <2>9. ASSUME NEW k \in 1..19 PROVE AllCl[k] = IF k <= n THEN header'.clcl[k] ELSE 0
    <3>1. CASE k <= n
      <4>1. k \in 1..n
        <5>1. n \in Nat
          BY <2>1
        <5> QED BY ONLY <5>1, <3>1, k \in 1..19
      <4>2. AllCl[k] = BitlenCl[k] /\ AllCl[k] \in {0, 5, 7}
        BY ONLY <2>1, <3>1, k \in 1..19
      <4>3. header'.clcl[k] = BitlenCl[k] % 2^3
        BY ONLY <2>6, <4>1
      <4>4. BitlenCl[k] % 2^3 = BitlenCl[k]
        BY ONLY <2>5, <4>2
      <4> QED BY ONLY <3>1, <4>2, <4>3, <4>4, Zenon
    <3>2. CASE ~(k <= n)
      BY <3>2, <2>1
    <3> QED BY <3>1, <3>2
  <2>10. Hclen' = n /\ header'.hclen \in 0..15
    BY <2>1, <2>6 DEF Hclen
  <2> QED BY <2>6, <2>7, <2>8, <2>9, <2>10 DEF HeaderTells
<1>5. ToldUpTo(at)'
  BY <1>2, ToldStays DEF WriteHeader
<1>6. LensIInvAt(at)'
  BY <1>2, <1>3, <1>4, <1>5 DEF LensIInvAt, WriteHeader
<1>7. (at \in [0..Len(bitlen_lld_e) -> Nat])'
  BY DEF WriteHeader
<1> QED BY <1>6, <1>7 DEF LensIInv

\* Every code has one place in CLCL_ORDER.
ClPlace == <<4, 18, 16, 14, 12, 10, 8, 6, 5, 7, 9, 11, 13, 15, 17, 19, 1, 2, 3>>

LEMMA ClOrderIsOneToOne ==
  /\ \A k \in 1..19 : CLCL_ORDER[k] \in ClCodes /\ ClPlace[CLCL_ORDER[k] + 1] = k
  /\ \A c \in ClCodes : ClPlace[c + 1] \in 1..19 /\ CLCL_ORDER[ClPlace[c + 1]] = c
BY DEF CLCL_ORDER, ClPlace, ClCodes

LEMMA ReadHeaderInv == LensIInv /\ ReadHeader => LensIInv'
<1> SUFFICES ASSUME LensIInv, ReadHeader PROVE LensIInv'
  OBVIOUS
<1>1. PICK at \in [0..Len(bitlen_lld_e) -> Nat] : LensIInvAt(at)
  BY DEF LensIInv
<1>2. LensTypeOK /\ readPos = 0 /\ readError = 0 /\ ToldUpTo(at) /\ lenPos = Len(bitlen_lld) /\ HeaderTells
  BY <1>1 DEF LensIInvAt, ReadHeader
<1>3. LensTypeOK'
  BY <1>2 DEF LensTypeOK, ReadHeader
<1>4. readCl' = treeClLengths
  <2> DEFINE Known(c) == \E k \in 1..Hclen : CLCL_ORDER[k] = c
             At(c) == CHOOSE k \in 1..Hclen : CLCL_ORDER[k] = c
  <2>1. readCl' = [c \in ClCodes |-> IF Known(c) THEN header.clcl[At(c)] ELSE 0]
    BY DEF ReadHeader
  <2>2. ASSUME NEW c \in ClCodes PROVE (IF Known(c) THEN header.clcl[At(c)] ELSE 0) = treeClLengths[c]
    <3> DEFINE p == ClPlace[c + 1]
    <3>1. p \in 1..19 /\ CLCL_ORDER[p] = c
      BY ClOrderIsOneToOne
    <3>2. Hclen \in 4..19 /\ Len(CLCL_ORDER) = 19
      <4>1. header.hclen \in 0..15
        BY <1>2 DEF HeaderTells
      <4>2. Len(CLCL_ORDER) = 19
        BY ONLY DEF CLCL_ORDER
      <4> QED BY ONLY <4>1, <4>2 DEF Hclen
    <3>3. \A k \in 1..Hclen : CLCL_ORDER[k] = c => k = p
      <4>1. \A k \in 1..19 : CLCL_ORDER[k] = c => k = p
        BY ClOrderIsOneToOne
      <4>2. \A k \in 1..Hclen : k \in 1..19
        BY <3>2
      <4> HIDE DEF p
      <4> QED BY <4>1, <4>2
    <3> HIDE DEF p
    <3>4. AllCl[p] = treeClLengths[c]
      BY <3>1, <3>2 DEF AllCl
    <3>5. AllCl[p] = IF p <= Hclen THEN header.clcl[p] ELSE 0
      BY <1>2, <3>1, <3>2 DEF HeaderTells
    <3>6. CASE p <= Hclen
      <4>1. p \in 1..Hclen
        BY <3>6, <3>1, <3>2
      <4>2. Known(c) /\ At(c) = p
        BY <4>1, <3>1, <3>3
      <4> QED BY <4>2, <3>4, <3>5, <3>6
    <3>7. CASE ~(p <= Hclen)
      <4>1. ~Known(c)
        BY <3>7, <3>1, <3>2, <3>3
      <4> QED BY <4>1, <3>4, <3>5, <3>7
    <3> QED BY <3>6, <3>7
  <2>3. treeClLengths = [c \in ClCodes |-> treeClLengths[c]]
    BY <1>2 DEF LensTypeOK
  <2> HIDE DEF Known, At
  <2> QED BY <2>1, <2>2, <2>3
<1>5. ToldUpTo(at)'
  BY <1>2, ToldStays DEF ReadHeader
<1>6. HeaderTells'
  BY <1>2 DEF HeaderTells, ReadHeader, AllCl, Hclen
<1>7. LensIInvAt(at)'
  BY <1>2, <1>3, <1>4, <1>5, <1>6 DEF LensIInvAt, ReadHeader
<1>8. (at \in [0..Len(bitlen_lld_e) -> Nat])'
  BY DEF ReadHeader
<1> QED BY <1>7, <1>8 DEF LensIInv

\* A beginning and what follows it are a longer beginning.
LEMMA LongerBeginning ==
  ASSUME NEW S, NEW s \in Seq(S), NEW m \in Nat, NEW t \in Seq(S), m + Len(t) <= Len(s),
         \A k \in 1..Len(t) : t[k] = s[m + k]
  PROVE  SubSeq(s, 1, m) \o t = SubSeq(s, 1, m + Len(t))
<1>1. PICK b \in Seq(S) : b = SubSeq(s, 1, m)
  <2>1. SubSeq(s, 1, m) \in Seq(S)
    OBVIOUS
  <2> QED BY <2>1
<1>2. PICK d \in Seq(S) : d = SubSeq(s, 1, m + Len(t))
  <2>1. SubSeq(s, 1, m + Len(t)) \in Seq(S)
    OBVIOUS
  <2> QED BY <2>1
<1>3. Len(b) = m /\ \A k \in 1..m : b[k] = s[k]
  BY <1>1
<1>4. Len(d) = m + Len(t) /\ \A k \in 1..m + Len(t) : d[k] = s[k]
  BY <1>2
<1>5. PICK e : e = b \o t
  OBVIOUS
<1>6. /\ e \in Seq(S) /\ Len(e) = m + Len(t)
      /\ (\A k \in 1..m : e[k] = b[k]) /\ \A k \in 1..Len(t) : e[m + k] = t[k]
  <2>1. b \in Seq(S) /\ t \in Seq(S) /\ m \in Nat
    OBVIOUS
  <2>2. e \in Seq(S) /\ Len(e) = Len(b) + Len(t)
    BY ONLY <2>1, <1>5
  <2>3. ASSUME NEW k \in 1..Len(b) PROVE e[k] = b[k]
    BY ONLY <2>1, <1>5, k \in 1..Len(b)
  <2>4. ASSUME NEW k \in 1..Len(t) PROVE e[Len(b) + k] = t[k]
    BY ONLY <2>1, <1>5, k \in 1..Len(t)
  <2> QED BY <2>2, <2>3, <2>4, <1>3
<1>7. ASSUME NEW k \in 1..Len(e) PROVE e[k] = d[k]
  <2>0. k \in 1..m + Len(t) /\ Len(t) \in Nat
    BY <1>6
  <2>1. CASE k <= m
    <3>1. k \in 1..m
      BY ONLY <2>0, <2>1, m \in Nat
    <3>2. e[k] = b[k] /\ b[k] = s[k] /\ d[k] = s[k]
      BY ONLY <2>0, <3>1, <1>3, <1>4, <1>6, Zenon
    <3> QED BY ONLY <3>2, Zenon
  <2>2. CASE k > m
    <3>1. PICK i \in 1..Len(t) : m + i = k
      <4>1. k - m \in 1..Len(t) /\ m + (k - m) = k
        BY ONLY <2>0, <2>2, m \in Nat
      <4> QED BY <4>1
    <3>2. e[m + i] = t[i] /\ t[i] = s[m + i] /\ d[k] = s[k]
      BY <2>0, <1>4, <1>6, Zenon
    <3> QED BY ONLY <3>1, <3>2, Zenon
  <2> QED BY <2>1, <2>2
<1>8. e = d
  BY <1>4, <1>6, <1>7, SameElements
<1> QED BY <1>1, <1>2, <1>5, <1>8

LEMMA BeginningIn ==
  ASSUME NEW S, NEW s \in Seq(S), NEW m \in Nat, m <= Len(s)
  PROVE  SubSeq(s, 1, m) \in Seq(S)
OBVIOUS

\* The beginnings of the lengths.
LEMMA Beginnings ==
  ASSUME LensTypeOK, NEW n \in 0..316
  PROVE  /\ SubSeq(bitlen_lld, 1, n) \in Seq(0..15) /\ Len(SubSeq(bitlen_lld, 1, n)) = n
         /\ \A i \in 1..n : SubSeq(bitlen_lld, 1, n)[i] = bitlen_lld[i]
<1> DEFINE L == 0..15
<1>1. bitlen_lld \in Seq(L) /\ Len(bitlen_lld) = 316
  BY LengthsEnd DEF LensTypeOK
<1> HIDE DEF L
<1>2. n \in Nat /\ n <= Len(bitlen_lld)
  BY <1>1
<1>3. /\ SubSeq(bitlen_lld, 1, n) \in Seq(L) /\ Len(SubSeq(bitlen_lld, 1, n)) = n
      /\ \A i \in 1..n : SubSeq(bitlen_lld, 1, n)[i] = bitlen_lld[i]
  <2>1. SubSeq(bitlen_lld, 1, n) \in Seq(L)
    BY <1>1, <1>2, BeginningIn
  <2>2. Len(SubSeq(bitlen_lld, 1, n)) = n
    BY ONLY <1>1, <1>2
  <2>3. ASSUME NEW i \in 1..n PROVE SubSeq(bitlen_lld, 1, n)[i] = bitlen_lld[i]
    BY ONLY <1>1, <1>2, i \in 1..n
  <2> QED BY <2>1, <2>2, <2>3
<1> QED BY <1>3 DEF L

\* Where the reader is, the next code is there and tells the lengths behind those it has.
LEMMA NextCode ==
  ASSUME NEW at, LensIInvAt(at), Reading
  PROVE  /\ readPos + 1 \in 1..Len(bitlen_lld_e) /\ bitlen_lld_e[readPos + 1] \in ClCodes \X Nat
         /\ at[readPos] \in Nat /\ at[readPos + 1] \in 0..316 /\ Len(restored) = at[readPos]
         /\ Tells(bitlen_lld_e[readPos + 1], at[readPos], at[readPos + 1])
         /\ Hlit + Hdist = 316
<1> DEFINE n == Len(bitlen_lld_e)
<1>1. /\ LensTypeOK /\ lenPos = Len(bitlen_lld) /\ ToldUpTo(at) /\ lensPc = "read" /\ HeaderTells
  BY DEF LensIInvAt, Reading
<1>2. Len(bitlen_lld) = 316 /\ bitlen_lld_e \in Seq(ClCodes \X Nat) /\ readPos \in 0..n /\ n \in Nat
      /\ bitlen_lld \in Seq(0..15)
  BY <1>1, LengthsEnd DEF LensTypeOK
<1> HIDE DEF n
<1>3. /\ at \in [0..n -> 0..316] /\ at[n] = 316 /\ restored = SubSeq(bitlen_lld, 1, at[readPos])
      /\ \A k \in 1..n : Tells(bitlen_lld_e[k], at[k - 1], at[k])
  BY <1>1, <1>2 DEF ToldUpTo, n
<1>4. at[readPos] \in 0..316
  BY <1>2, <1>3
<1>5. Len(restored) = at[readPos]
  BY <1>1, <1>3, <1>4, Beginnings
<1>6. Hlit + Hdist = 316
  BY <1>1 DEF HeaderTells, Hlit, Hdist
<1>7. Len(restored) < 316
  BY <1>6 DEF Reading
<1>8. readPos + 1 \in 1..n
  <2>1. readPos # n
    BY <1>3, <1>5, <1>7
  <2> QED BY <2>1, <1>2
<1>9. (readPos + 1) - 1 = readPos /\ readPos + 1 \in 0..n
  BY <1>2, <1>8
<1>10. at[readPos + 1] \in 0..316
  BY <1>3, <1>9
<1>11. Tells(bitlen_lld_e[readPos + 1], at[readPos], at[readPos + 1])
  BY <1>3, <1>8, <1>9
<1>12. bitlen_lld_e[readPos + 1] \in ClCodes \X Nat
  <2> DEFINE S == ClCodes \X Nat
  <2>1. bitlen_lld_e \in Seq(S) /\ readPos + 1 \in 1..Len(bitlen_lld_e)
    BY <1>2, <1>8 DEF n
  <2> HIDE DEF S
  <2>2. bitlen_lld_e[readPos + 1] \in S
    BY <2>1, ElementOf
  <2> QED BY <2>2 DEF S
<1> QED BY <1>4, <1>5, <1>6, <1>8, <1>10, <1>11, <1>12 DEF n

\* What LengthsRestored rests on is kept when the reader has what the next code tells.
Takes(from, to) ==
  /\ restored' = SubSeq(bitlen_lld, 1, to) /\ readPos' = readPos + 1 /\ readError' = 0
  /\ UNCHANGED <<bitlen_lld, lensPc, lenPos, bitlen_lld_e, treeClLengths, header, readCl>>

LEMMA TakingOn ==
  ASSUME NEW at \in [0..Len(bitlen_lld_e) -> Nat], LensIInvAt(at), Reading, Takes(at[readPos], at[readPos + 1])
  PROVE  LensIInv'
<1>1. readPos + 1 \in 1..Len(bitlen_lld_e)
  BY NextCode
<1>2. LensTypeOK /\ lensPc = "read" /\ ToldUpTo(at)
  BY DEF LensIInvAt, Reading
<1>3. readPos' \in 0..Len(bitlen_lld_e)
  BY <1>1, <1>2 DEF Takes, LensTypeOK
<1>4. LensTypeOK'
  BY <1>2, <1>3 DEF LensTypeOK, Takes
<1>5. ToldUpTo(at)'
  BY <1>2 DEF ToldUpTo, Tells, Takes
<1>6. HeaderTells' = HeaderTells
  BY DEF HeaderTells, AllCl, Hclen, Takes
<1>7. LensIInvAt(at)'
  BY <1>2, <1>4, <1>5, <1>6 DEF LensIInvAt, Takes
<1>8. (at \in [0..Len(bitlen_lld_e) -> Nat])'
  BY DEF Takes
<1> QED BY <1>7, <1>8 DEF LensIInv

LEMMA ReadLengthInv == LensIInv /\ ReadLength => LensIInv'
<1> SUFFICES ASSUME LensIInv, ReadLength PROVE LensIInv'
  OBVIOUS
<1>1. PICK at \in [0..Len(bitlen_lld_e) -> Nat] : LensIInvAt(at)
  BY DEF LensIInv
<1>2. Reading /\ Code <= 15
  BY DEF ReadLength
<1>3. PICK e \in ClCodes \X Nat : e = bitlen_lld_e[readPos + 1]
  BY <1>1, <1>2, NextCode
<1>4. PICK from \in Nat, to \in 0..316 : from = at[readPos] /\ to = at[readPos + 1]
  <2>1. at[readPos] \in Nat /\ at[readPos + 1] \in 0..316
    BY <1>1, <1>2, NextCode
  <2> QED BY <2>1
<1>5. Tells(e, from, to) /\ e[1] = Code /\ e[1] \in 0..15
  <2>1. Tells(e, from, to)
    BY <1>1, <1>2, <1>3, <1>4, NextCode
  <2>2. e[1] = Code
    BY <1>3 DEF Code
  <2>3. e[1] \in ClCodes
    BY <1>3
  <2>4. e[1] \in 0..15
    <3>1. PICK c : c = e[1]
      OBVIOUS
    <3>2. c \in 0..18 /\ c <= 15
      BY <3>1, <2>2, <2>3, <1>2 DEF ClCodes
    <3>3. c \in 0..15
      BY ONLY <3>2
    <3> QED BY <3>1, <3>3
  <2> QED BY <2>1, <2>2, <2>4
<1>6. to = from + 1 /\ bitlen_lld[to] = Code
  BY <1>5 DEF Tells, Span
<1>7. restored = SubSeq(bitlen_lld, 1, from) /\ bitlen_lld \in Seq(0..15) /\ Len(bitlen_lld) = 316
  BY <1>1, <1>4, LengthsEnd DEF LensIInvAt, ToldUpTo, LensTypeOK
<1>8. restored' = SubSeq(bitlen_lld, 1, to)
  <2> DEFINE L == 0..15
  <2>1. PICK c \in L : c = Code
    BY <1>5
  <2>2. bitlen_lld \in Seq(L) /\ <<c>> \in Seq(L)
    BY <1>7
  <2> HIDE DEF L
  <2>3. Len(<<c>>) = 1 /\ \A k \in 1..1 : <<c>>[k] = bitlen_lld[from + k]
    BY <1>6, <2>1
  <2>4. from + 1 <= Len(bitlen_lld)
    BY <1>6, <1>7
  <2>5. SubSeq(bitlen_lld, 1, from) \o <<c>> = SubSeq(bitlen_lld, 1, from + 1)
    <3>1. PICK t \in Seq(L) : t = <<c>>
      BY <2>2
    <3>2. SubSeq(bitlen_lld, 1, from) \o t = SubSeq(bitlen_lld, 1, from + Len(t))
      BY <3>1, <2>2, <2>3, <2>4, LongerBeginning
    <3> QED BY <3>1, <3>2, <2>3
  <2>6. restored' = Append(restored, c)
    BY <2>1 DEF ReadLength
  <2>7. restored \in Seq(L)
    <3>1. from \in 0..316 /\ LensTypeOK
      <4>1. LensTypeOK
        BY <1>1 DEF LensIInvAt
      <4>2. to \in 0..316 /\ to = from + 1 /\ from \in Nat
        BY <1>6
      <4>3. from \in 0..316
        BY ONLY <4>2
      <4> QED BY <4>1, <4>3
    <3> QED BY <3>1, <1>7, Beginnings DEF L
  <2>8. restored' = restored \o <<c>>
    BY ONLY <2>6, <2>7, c \in L
  <2> QED BY <2>5, <2>8, <1>6, <1>7
<1>9. readError = 0
  BY <1>1 DEF LensIInvAt
<1>10. Takes(at[readPos], at[readPos + 1])
  BY <1>4, <1>8, <1>9 DEF Takes, ReadLength
<1> QED BY <1>1, <1>2, <1>10, TakingOn

LEMMA ReadRepeatInv == LensIInv /\ ReadRepeat => LensIInv'
<1> SUFFICES ASSUME LensIInv, ReadRepeat PROVE LensIInv'
  OBVIOUS
<1>1. PICK at \in [0..Len(bitlen_lld_e) -> Nat] : LensIInvAt(at)
  BY DEF LensIInv
<1>2. Reading /\ Code >= 16
  BY DEF ReadRepeat
<1>3. PICK e \in ClCodes \X Nat : e = bitlen_lld_e[readPos + 1]
  BY <1>1, <1>2, NextCode
<1>4. PICK from \in Nat, to \in 0..316 : from = at[readPos] /\ to = at[readPos + 1]
  <2>1. at[readPos] \in Nat /\ at[readPos + 1] \in 0..316
    BY <1>1, <1>2, NextCode
  <2> QED BY <2>1
<1>5. Tells(e, from, to) /\ e[1] = Code /\ e[1] \in 16..18 /\ Span(e) \in Nat
  <2>1. Tells(e, from, to)
    BY <1>1, <1>2, <1>3, <1>4, NextCode
  <2>2. e[1] = Code
    BY <1>3 DEF Code
  <2>3. e[1] \in 0..18
    BY <1>3 DEF ClCodes
  <2>4. Span(e) \in Nat
    BY Spans
  <2> QED BY <2>1, <2>2, <2>3, <2>4, <1>2
<1>6. Replength = Span(e)
  BY <1>3, <1>5 DEF Replength, Span, Code
<1>7. /\ to = from + Span(e) /\ (Code = 16 => from >= 1)
      /\ \A i \in from + 1..to : bitlen_lld[i] = IF Code = 16 THEN bitlen_lld[from] ELSE 0
  BY <1>5 DEF Tells
<1>8. /\ restored = SubSeq(bitlen_lld, 1, from) /\ bitlen_lld \in Seq(0..15) /\ Len(bitlen_lld) = 316
      /\ Len(restored) = from /\ Hlit + Hdist = 316
  BY <1>1, <1>2, <1>4, NextCode, LengthsEnd DEF LensIInvAt, ToldUpTo, LensTypeOK
<1>9. PICK n \in Nat : n = Span(e)
  BY <1>5
<1>10. Replength <= Hlit + Hdist - Len(restored) /\ ~(Code = 16 /\ Len(restored) = 0)
  <2>1. /\ Replength = n /\ Hlit + Hdist = 316 /\ Len(restored) = from /\ to = from + n
        /\ from \in Nat /\ to \in 0..316 /\ n \in Nat /\ (Code = 16 => from >= 1)
    BY <1>4, <1>6, <1>7, <1>8, <1>9
  <2>2. n <= 316 - from
    <3>1. to = from + n /\ to \in 0..316
      BY <2>1
    <3> QED BY ONLY <3>1, from \in Nat, n \in Nat
  <2>3. Replength <= Hlit + Hdist - Len(restored)
    BY <2>1, <2>2, SMTT(30)
  <2>4. ~(Code = 16 /\ Len(restored) = 0)
    <3>1. ~(0 >= 1)
      OBVIOUS
    <3> QED BY ONLY <2>1, <3>1, Zenon
  <2> QED BY ONLY <2>3, <2>4, Zenon
<1>11. PICK t : t = [k \in 1..n |-> IF Code = 16 THEN restored[from] ELSE 0]
  OBVIOUS
<1>12. restored' = restored \o t /\ readError' = 0
  BY <1>6, <1>8, <1>9, <1>10, <1>11 DEF ReadRepeat
<1>13. Code = 16 => restored[from] = bitlen_lld[from] /\ bitlen_lld[from] \in 0..15
  <2> SUFFICES ASSUME Code = 16 PROVE restored[from] = bitlen_lld[from] /\ bitlen_lld[from] \in 0..15
    OBVIOUS
  <2>1. from \in 1..316 /\ from \in 0..316 /\ from \in 1..from
    <3>1. from >= 1 /\ to = from + n /\ from \in Nat /\ to \in 0..316 /\ n \in Nat
      BY <1>4, <1>7, <1>9
    <3> QED BY ONLY <3>1
  <2>2. LensTypeOK
    BY <1>1 DEF LensIInvAt
  <2>3. bitlen_lld[from] \in 0..15
    BY <2>1, <2>2, LengthsAre
  <2>4. restored[from] = bitlen_lld[from]
    <3>1. \A i \in 1..from : SubSeq(bitlen_lld, 1, from)[i] = bitlen_lld[i]
      BY <2>1, <2>2, Beginnings
    <3> QED BY ONLY <2>1, <3>1, <1>8
  <2> QED BY <2>3, <2>4
<1>14. restored' = SubSeq(bitlen_lld, 1, to)
  <2> DEFINE L == 0..15
  <2>1. \A k \in 1..n : t[k] \in L
    BY <1>11, <1>13
  <2>2. bitlen_lld \in Seq(L)
    BY <1>8
  <2>3. ASSUME NEW k \in 1..n PROVE t[k] = bitlen_lld[from + k]
    <3>1. from + k \in from + 1..to
      BY <1>7, <1>9
    <3>2. bitlen_lld[from + k] = IF Code = 16 THEN bitlen_lld[from] ELSE 0
      BY <3>1, <1>7
    <3> QED BY <3>2, <1>11, <1>13
  <2> HIDE DEF L
  <2>4. t \in Seq(L) /\ Len(t) = n
    <3>1. t \in [1..n -> L]
      BY <2>1, <1>11
    <3> QED BY <3>1
  <2>5. from + n <= Len(bitlen_lld)
    <3>1. from + n = to /\ to \in 0..316 /\ Len(bitlen_lld) = 316
      BY <1>7, <1>8, <1>9
    <3> QED BY ONLY <3>1
  <2>6. SubSeq(bitlen_lld, 1, from) \o t = SubSeq(bitlen_lld, 1, from + Len(t))
    BY <2>2, <2>3, <2>4, <2>5, LongerBeginning
  <2> QED BY <2>4, <2>6, <1>7, <1>8, <1>9, <1>12
<1>15. Takes(at[readPos], at[readPos + 1])
  BY <1>4, <1>12, <1>14 DEF Takes, ReadRepeat
<1> QED BY <1>1, <1>2, <1>15, TakingOn

LEMMA ReadDoneInv == LensIInv /\ ReadDone => LensIInv'
<1> SUFFICES ASSUME LensIInv, ReadDone PROVE LensIInv'
  OBVIOUS
<1>1. PICK at \in [0..Len(bitlen_lld_e) -> Nat] : LensIInvAt(at)
  BY DEF LensIInv
<1> DEFINE n == Len(bitlen_lld_e)
<1>2. LensTypeOK /\ readError = 0 /\ ToldUpTo(at) /\ lenPos = Len(bitlen_lld) /\ HeaderTells /\ lensPc = "read"
  BY <1>1 DEF LensIInvAt, ReadDone
<1>3. Len(bitlen_lld) = 316 /\ bitlen_lld \in Seq(0..15) /\ readPos \in 0..n /\ n \in Nat
      /\ bitlen_lld_e \in Seq(ClCodes \X Nat) /\ bitlen_lld[257] > 0
  <2>1. bitlen_lld[257] > 0
    BY <1>2, LengthsAre
  <2> QED BY <2>1, <1>2, LengthsEnd DEF LensTypeOK
<1> HIDE DEF n
<1>4. /\ at \in [0..n -> 0..316] /\ at[n] = 316 /\ restored = SubSeq(bitlen_lld, 1, at[readPos])
      /\ \A k \in 1..n : Tells(bitlen_lld_e[k], at[k - 1], at[k])
  BY <1>2, <1>3 DEF ToldUpTo, n
<1>5. Len(restored) >= 316
  <2>1. Hlit + Hdist = 316
    BY <1>2 DEF HeaderTells, Hlit, Hdist
  <2> QED BY <2>1, <1>2 DEF ReadDone
<1>6. at[readPos] = 316
  <2>1. at[readPos] \in 0..316
    BY <1>3, <1>4
  <2>2. Len(restored) = at[readPos]
    BY <2>1, <1>2, <1>4, Beginnings
  <2>3. \A x : x \in 0..316 /\ x >= 316 => x = 316
    OBVIOUS
  <2> QED BY ONLY <2>1, <2>2, <2>3, <1>5
<1>7. \A k \in 1..n : at[k - 1] < at[k]
  <2> SUFFICES ASSUME NEW k \in 1..n PROVE at[k - 1] < at[k]
    OBVIOUS
  <2>1. bitlen_lld_e[k] \in ClCodes \X Nat
    <3> DEFINE S == ClCodes \X Nat
    <3>1. bitlen_lld_e \in Seq(S) /\ k \in 1..Len(bitlen_lld_e)
      BY <1>3 DEF n
    <3> HIDE DEF S
    <3>2. bitlen_lld_e[k] \in S
      BY <3>1, ElementOf
    <3> QED BY <3>2 DEF S
  <2>2. at[k] = at[k - 1] + Span(bitlen_lld_e[k])
    BY <1>4 DEF Tells
  <2>3. at[k - 1] \in 0..316
    <3>1. k - 1 \in 0..n
      BY <1>3
    <3> QED BY <3>1, <1>4
  <2>4. Span(bitlen_lld_e[k]) \in Nat \ {0}
    BY <2>1, Spans
  <2>5. \A x, y, z : x \in 0..316 /\ z \in Nat \ {0} /\ y = x + z => x < y
    OBVIOUS
  <2> QED BY ONLY <2>2, <2>3, <2>4, <2>5
<1>8. readPos = n
  <2> SUFFICES ASSUME readPos # n PROVE FALSE
    OBVIOUS
  <2>1. readPos + 1 \in 1..n /\ readPos + 1 \in 0..n /\ (readPos + 1) - 1 = readPos
    BY <1>3
  <2>2. at \in [0..n -> 0..316] /\ \A k \in 1..n : at[k - 1] < at[k]
    BY <1>4, <1>7
  <2>3. PICK q : q = readPos + 1
    OBVIOUS
  <2>4. q \in 1..n /\ q \in 0..n /\ q - 1 = readPos
    BY ONLY <2>1, <2>3
  <2>5. at[q] \in 0..316 /\ at[q - 1] < at[q]
    BY ONLY <2>2, <2>4
  <2>6. at[readPos] < at[q]
    BY ONLY <2>4, <2>5
  <2>7. 316 < at[q]
    BY ONLY <2>6, <1>6
  <2>8. \A x : x \in 0..316 => ~(316 < x)
    OBVIOUS
  <2> QED BY ONLY <2>5, <2>7, <2>8
<1>9. readError' = 0
  <2>1. restored[257] = bitlen_lld[257]
    BY <1>3, <1>4, <1>6
  <2> QED BY <2>1, <1>2, <1>3 DEF ReadDone, EndCode
<1>10. LensTypeOK'
  BY <1>2 DEF LensTypeOK, ReadDone
<1>11. ToldUpTo(at)'
  BY <1>2, ToldStays DEF ReadDone
<1>12. HeaderTells' = HeaderTells
  BY DEF HeaderTells, AllCl, Hclen, ReadDone
<1>13. readPos = Len(bitlen_lld_e)
  BY <1>8 DEF n
<1>14. LensIInvAt(at)'
  BY <1>1, <1>2, <1>9, <1>10, <1>11, <1>12, <1>13 DEF LensIInvAt, ReadDone
<1>15. (at \in [0..Len(bitlen_lld_e) -> Nat])'
  BY DEF ReadDone
<1> QED BY <1>14, <1>15 DEF LensIInv

LEMMA LensStays == LensIInv /\ UNCHANGED lensVars => LensIInv'
<1> SUFFICES ASSUME LensIInv, UNCHANGED lensVars PROVE LensIInv'
  OBVIOUS
<1>1. PICK at \in [0..Len(bitlen_lld_e) -> Nat] : LensIInvAt(at)
  BY DEF LensIInv
<1>2. LensTypeOK' = LensTypeOK
  BY DEF LensTypeOK, lensVars
<1>3. ToldUpTo(at)' = ToldUpTo(at)
  BY DEF ToldUpTo, Tells, lensVars
<1>4. HeaderTells' = HeaderTells
  BY DEF HeaderTells, AllCl, Hclen, lensVars
<1>5. LensIInvAt(at)'
  BY <1>1, <1>2, <1>3, <1>4 DEF LensIInvAt, lensVars
<1>6. (at \in [0..Len(bitlen_lld_e) -> Nat])'
  BY DEF lensVars
<1> QED BY <1>5, <1>6 DEF LensIInv

\* All steps do.
LEMMA LensNextInv == LensIInv /\ [LensNext]_lensVars => LensIInv'
BY EncodeZerosInv, EncodeRepeatsInv, EncodeOneInv, MakeClTreeInv, WriteHeaderInv, ReadHeaderInv, ReadLengthInv,
   ReadRepeatInv, ReadDoneInv, LensStays DEF LensNext

\* The invariant is what the reader needs.
LEMMA LensRestored == LensIInv => LengthsRestored
<1> SUFFICES ASSUME LensIInv PROVE LengthsRestored
  OBVIOUS
<1>1. PICK at \in [0..Len(bitlen_lld_e) -> Nat] : LensIInvAt(at)
  BY DEF LensIInv
<1>2. LensTypeOK /\ readError = 0 /\ ToldUpTo(at) /\ readPos \in 0..Len(bitlen_lld_e)
  BY <1>1 DEF LensIInvAt, LensTypeOK
<1>3. Len(bitlen_lld) = 316 /\ bitlen_lld \in Seq(0..15) /\ lenPos \in 0..316
  BY <1>2, LengthsAre DEF LensTypeOK
<1>4. at[readPos] \in 0..316 /\ restored = SubSeq(bitlen_lld, 1, at[readPos])
  <2>1. at \in [0..Len(bitlen_lld_e) -> 0..lenPos] /\ restored = SubSeq(bitlen_lld, 1, at[readPos])
    BY <1>2 DEF ToldUpTo
  <2>2. at[readPos] \in 0..lenPos
    BY ONLY <2>1, <1>2
  <2>3. at[readPos] \in 0..316
    <3>1. \A x, y : y \in 0..316 /\ x \in 0..y => x \in 0..316
      OBVIOUS
    <3>2. lenPos \in 0..316
      BY <1>3
    <3> QED BY ONLY <2>2, <3>1, <3>2
  <2> QED BY <2>1, <2>3
<1>5. \A i \in 1..Len(restored) : restored[i] = bitlen_lld[i]
  BY <1>2, <1>4, Beginnings
<1>6. lensPc \in {"read", "done"} => readCl = treeClLengths
  BY <1>1 DEF LensIInvAt
<1>7. ASSUME lensPc = "done" PROVE restored = bitlen_lld /\ readPos = Len(bitlen_lld_e) /\ Hlit = NumLl
  <2>1. readPos = Len(bitlen_lld_e) /\ lenPos = Len(bitlen_lld) /\ HeaderTells
    BY <1>1, <1>7 DEF LensIInvAt
  <2>2. at[readPos] = 316
    BY <2>1, <1>2, <1>3 DEF ToldUpTo
  <2>3. restored = bitlen_lld
    BY <2>2, <1>3, <1>4
  <2>4. Hlit = NumLl
    BY <2>1 DEF HeaderTells, Hlit, NumLl
  <2> QED BY <2>1, <2>3, <2>4
<1> QED BY <1>2, <1>5, <1>6, <1>7 DEF LengthsRestored

\* What each code tells, at every moment, of the lengths of the block's codes.
THEOREM LensIInvHolds == LensSpec => []LensIInv
<1>1. LensInit => LensIInv
  BY LensStartInv DEF LensInit
<1> QED BY <1>1, LensNextInv, PTL DEF LensSpec

\* getTreeInflateDynamic gets the lengths deflateDynamic has put in front of a
\* block: all of them, whatever runs there are among them.
THEOREM LengthsComeBack == LensSpec => []LengthsRestored
<1> QED BY LensIInvHolds, LensRestored, PTL

-----------------------------------------------------------------------------
\* A table that ascends, and how many of its entries are not larger.
Ascending(array) == \A i, j \in 1..Len(array) : i < j => array[i] < array[j]
UpTo(array, value, m) == \A i \in 1..Len(array) : array[i] <= value <=> i <= m

LEMMA HowMany ==
  ASSUME NEW array \in Seq(Nat), NEW value \in Nat, Ascending(array), Len(array) > 0, array[1] <= value
  PROVE  \E m \in 1..Len(array) : UpTo(array, value, m)
<1> DEFINE n == Len(array)
           S == {j \in Nat : array[j + 2] <= value}
<1>1. n \in Nat \ {0} /\ \A i \in 1..n : array[i] \in Nat
  OBVIOUS
<1> HIDE DEF n
<1>2. PICK j \in 0..n - 1 : Stops(S, n - 1, j)
  <2>1. n - 1 \in Nat
    BY <1>1
  <2> HIDE DEF S
  <2> QED BY <2>1, LoopStops
<1>3. ASSUME NEW i \in 1..n PROVE array[i] <= value <=> i <= j + 1
  <2>1. CASE i = 1
    BY <2>1, <1>1, <1>2
  <2>2. CASE i # 1 /\ i <= j + 1
    <3>1. i - 2 \in 0..j - 1 /\ (i - 2) + 2 = i
      BY <2>2, <1>2
    <3> QED BY <2>2, <3>1, <1>2 DEF Stops
  <2>3. CASE ~(i <= j + 1)
    <3>1. j < n - 1 /\ j \in Nat /\ j + 2 \in 1..n /\ j + 2 <= i
      BY <2>3, <1>1, <1>2
    <3>2. ~(array[j + 2] <= value)
      BY <3>1, <1>2 DEF Stops
    <3>3. array[j + 2] <= array[i]
      <4>1. CASE j + 2 = i
        BY <4>1, <1>1
      <4>2. CASE j + 2 < i
        <5>1. array[j + 2] < array[i]
          BY <4>2, <3>1 DEF Ascending, n
        <5> QED BY <5>1, <3>1, <1>1
      <4> QED BY <3>1, <4>1, <4>2, <1>1
    <3>4. array[j + 2] \in Nat /\ array[i] \in Nat
      BY <3>1, <1>1
    <3> QED BY <2>3, <3>2, <3>3, <3>4
  <2> QED BY <2>1, <2>2, <2>3
<1>4. j + 1 \in 1..n
  BY <1>1, <1>2
<1> QED BY <1>3, <1>4 DEF UpTo, n

\* searchCodeIndex finds the last of them.
LEMMA SearchIs ==
  ASSUME NEW array \in Seq(Nat), NEW value \in Nat, NEW m \in 1..Len(array), UpTo(array, value, m)
  PROVE  SearchCodeIndex(array, value) = m - 1
<1> DEFINE n == Len(array)
           D == (1..n) \X (0..n - 1)
           Of(e, left, right) ==
             LET mid == (left + right) \div 2
             IN  IF left > right THEN n - 1
                 ELSE IF array[mid + 1] <= value THEN e[<<mid + 1, right>>]
                 ELSE IF array[mid] > value THEN e[<<left, mid - 1>>]
                 ELSE mid - 1
           Body(e) == e = [lr \in D |-> Of(e, lr[1], lr[2])]
           E == CHOOSE e : Body(e)
           F(left, right) == IF left <= m /\ m <= right THEN m - 1 ELSE n - 1
           f == [lr \in D |-> F(lr[1], lr[2])]
<1>1. n \in Nat /\ m \in 1..n /\ (\A i \in 1..n : array[i] <= value <=> i <= m) /\ \A i \in 1..n : array[i] \in Nat
  BY DEF UpTo
<1> HIDE DEF n
<1>2. ASSUME NEW left \in 1..n, NEW right \in 0..n - 1, left <= right
      PROVE  LET mid == (left + right) \div 2 IN
               /\ mid \in left..right /\ mid + 1 \in 1..n /\ mid - 1 \in 0..n - 1 /\ mid \in 1..n
               /\ mid + 1 <= m => F(left, right) = F(mid + 1, right)
               /\ mid > m => F(left, right) = F(left, mid - 1)
               /\ mid = m => F(left, right) = mid - 1
  <2> DEFINE mid == (left + right) \div 2
  <2>1. mid \in left..right
    BY <1>1, <1>2
  <2> HIDE DEF mid
  <2>2. mid + 1 \in 1..n /\ mid - 1 \in 0..n - 1 /\ mid \in 1..n
    BY <2>1, <1>1, <1>2
  <2>3. mid + 1 <= m => F(left, right) = F(mid + 1, right)
    BY <2>1, <1>1
  <2>4. mid > m => F(left, right) = F(left, mid - 1)
    BY <2>1, <1>1
  <2>5. mid = m => F(left, right) = mid - 1
    BY <2>1, <1>1
  <2> QED BY <2>1, <2>2, <2>3, <2>4, <2>5 DEF mid

\* What goes the same way from a window as F does.
<1>3. ASSUME NEW e, NEW left \in 1..n, NEW right \in 0..n - 1,
             \A l \in 1..n, r \in 0..n - 1 : r - l < right - left => e[<<l, r>>] = F(l, r)
      PROVE  Of(e, left, right) = F(left, right)
  <2>1. CASE left > right
    BY <2>1, <1>1, <1>3
  <2>2. CASE left <= right
    <3> DEFINE mid == (left + right) \div 2
    <3>1. /\ mid \in left..right /\ mid + 1 \in 1..n /\ mid - 1 \in 0..n - 1 /\ mid \in 1..n
          /\ mid + 1 <= m => F(left, right) = F(mid + 1, right)
          /\ mid > m => F(left, right) = F(left, mid - 1)
          /\ mid = m => F(left, right) = mid - 1
      BY <1>2, <2>2
    <3>2. (array[mid + 1] <= value <=> mid + 1 <= m) /\ (array[mid] > value <=> mid > m)
      BY <3>1, <1>1
    <3>3. Of(e, left, right) = IF array[mid + 1] <= value THEN e[<<mid + 1, right>>]
                               ELSE IF array[mid] > value THEN e[<<left, mid - 1>>] ELSE mid - 1
      <4>1. ~(left > right)
        BY <2>2, <1>1
      <4> HIDE DEF mid
      <4> QED BY <4>1 DEF mid
    <3> HIDE DEF mid, F, Of
    <3>4. e[<<mid + 1, right>>] = F(mid + 1, right)
      BY <3>1, <2>2, <1>1, <1>3
    <3>5. e[<<left, mid - 1>>] = F(left, mid - 1)
      BY <3>1, <2>2, <1>1, <1>3
    <3>6. mid + 1 <= m \/ mid > m \/ mid = m
      BY <3>1, <1>1
    <3>7. ~(mid + 1 <= m /\ mid > m) /\ (mid = m => ~(mid + 1 <= m) /\ ~(mid > m))
      BY <3>1, <1>1
    <3> QED BY <3>1, <3>2, <3>3, <3>4, <3>5, <3>6, <3>7
  <2> QED BY <2>1, <2>2, <1>1
<1> HIDE DEF Of, F
<1>4. Body(f)
  <2>1. ASSUME NEW left \in 1..n, NEW right \in 0..n - 1 PROVE Of(f, left, right) = F(left, right)
    BY <1>3
  <2>2. \A lr \in D : F(lr[1], lr[2]) = Of(f, lr[1], lr[2])
    BY <2>1
  <2> HIDE DEF D
  <2> QED BY <2>2
<1>5. Body(E)
  <2> HIDE DEF Body
  <2> QED BY <1>4
<1> HIDE DEF E
<1>6. \A left \in 1..n, right \in 0..n - 1 : E[<<left, right>>] = Of(E, left, right)
  BY <1>5
<1> DEFINE S == {d \in Nat : \A l \in 1..n, r \in 0..n - 1 : r - l + n < d => E[<<l, r>>] = F(l, r)}
<1>7. 0 \in S
  BY <1>1
<1>8. ASSUME NEW d \in Nat, d \in S PROVE d + 1 \in S
  <2> SUFFICES ASSUME NEW left \in 1..n, NEW right \in 0..n - 1, right - left + n < d + 1
               PROVE  E[<<left, right>>] = F(left, right)
    OBVIOUS
  <2>1. \A l \in 1..n, r \in 0..n - 1 : r - l < right - left => E[<<l, r>>] = F(l, r)
    <3>1. \A l \in 1..n, r \in 0..n - 1 : r - l < right - left => r - l + n < d
      BY ONLY <1>1, d \in Nat, left \in 1..n, right \in 0..n - 1, right - left + n < d + 1
    <3>2. \A l \in 1..n, r \in 0..n - 1 : r - l + n < d => E[<<l, r>>] = F(l, r)
      BY <1>8
    <3> HIDE DEF F
    <3> QED BY ONLY <3>1, <3>2
  <2> QED BY <2>1, <1>3, <1>6
<1>9. Nat \subseteq S
  <2> HIDE DEF S
  <2> QED BY <1>7, <1>8, NatSetInduction
<1>10. E[<<1, n - 1>>] = F(1, n - 1)
  <2>1. 3 * n \in S /\ 3 * n \in Nat
    <3>1. 3 * n \in Nat
      BY <1>1
    <3> QED BY <3>1, <1>9
  <2>2. 1 \in 1..n /\ n - 1 \in 0..n - 1 /\ (n - 1) - 1 + n < 3 * n
    BY <1>1
  <2> QED BY <2>1, <2>2
<1>11. SearchCodeIndex(array, value) = E[<<1, n - 1>>]
  BY DEF SearchCodeIndex, E, Of, n
<1>12. F(1, n - 1) = m - 1
  BY <1>1 DEF F
<1> QED BY <1>10, <1>11, <1>12

\* The tables of deflate: each code with its extra bits reaches to the next.
Reaches(base, extra, m) == m < Len(base) => base[m + 1] - base[m] <= 2^extra[m]

\* The tables of deflate: they ascend, and the extra bits reach from each entry to
\* the next.
LEMMA LengthTable ==
  /\ LENGTHBASE \in Seq(Nat) /\ Len(LENGTHBASE) = 29 /\ Ascending(LENGTHBASE)
  /\ LENGTHBASE[1] = 3 /\ LENGTHBASE[29] = 258 /\ LENGTHEXTRA[29] = 0
  /\ \A m \in 1..29 : Reaches(LENGTHBASE, LENGTHEXTRA, m)
  /\ \A m \in 1..29 : LENGTHEXTRA[m] \in 0..5
<1>1. LENGTHBASE \in Seq(Nat) /\ Len(LENGTHBASE) = 29
  BY DEF LENGTHBASE
<1>2. LENGTHBASE[1] = 3 /\ LENGTHBASE[29] = 258 /\ LENGTHEXTRA[29] = 0
  BY DEF LENGTHBASE, LENGTHEXTRA
<1>3. \A m \in 1..29 : LENGTHEXTRA[m] \in 0..5
  BY DEF LENGTHEXTRA
<1>4. \A m \in 1..28 : LENGTHBASE[m + 1] - LENGTHBASE[m] <= 2^LENGTHEXTRA[m]
  <2>1. \A m \in 1..28 :
          \/ LENGTHEXTRA[m] = 0 /\ LENGTHBASE[m + 1] - LENGTHBASE[m] <= 1
          \/ LENGTHEXTRA[m] = 1 /\ LENGTHBASE[m + 1] - LENGTHBASE[m] <= 2
          \/ LENGTHEXTRA[m] = 2 /\ LENGTHBASE[m + 1] - LENGTHBASE[m] <= 4
          \/ LENGTHEXTRA[m] = 3 /\ LENGTHBASE[m + 1] - LENGTHBASE[m] <= 8
          \/ LENGTHEXTRA[m] = 4 /\ LENGTHBASE[m + 1] - LENGTHBASE[m] <= 16
          \/ LENGTHEXTRA[m] = 5 /\ LENGTHBASE[m + 1] - LENGTHBASE[m] <= 32
    BY DEF LENGTHBASE, LENGTHEXTRA
  <2>2. 2^0 = 1 /\ 2^1 = 2 /\ 2^2 = 4 /\ 2^3 = 8 /\ 2^4 = 16 /\ 2^5 = 32
    OBVIOUS
  <2> SUFFICES ASSUME NEW m \in 1..28 PROVE LENGTHBASE[m + 1] - LENGTHBASE[m] <= 2^LENGTHEXTRA[m]
    OBVIOUS
  <2> QED BY <2>1, <2>2
<1>5. ASSUME NEW m \in 1..29 PROVE Reaches(LENGTHBASE, LENGTHEXTRA, m)
  <2>1. m < 29 => m \in 1..28
    OBVIOUS
  <2> QED BY <2>1, <1>1, <1>4 DEF Reaches
<1>6. Ascending(LENGTHBASE)
  BY DEF LENGTHBASE, Ascending
<1> QED BY <1>1, <1>2, <1>3, <1>5, <1>6

LEMMA DistanceExtraBits == \A m \in 1..30 : DISTANCEEXTRA[m] \in 0..13
BY DEF DISTANCEEXTRA

LEMMA DistanceTable ==
  /\ DISTANCEBASE \in Seq(Nat) /\ Len(DISTANCEBASE) = 30 /\ Ascending(DISTANCEBASE)
  /\ DISTANCEBASE[1] = 1 /\ DISTANCEBASE[30] = 24577 /\ DISTANCEEXTRA[30] = 13
  /\ \A m \in 1..30 : Reaches(DISTANCEBASE, DISTANCEEXTRA, m)
  /\ \A m \in 1..30 : DISTANCEEXTRA[m] \in 0..13
<1>1. DISTANCEBASE \in Seq(Nat) /\ Len(DISTANCEBASE) = 30
  BY DEF DISTANCEBASE
<1>2. DISTANCEBASE[1] = 1 /\ DISTANCEBASE[30] = 24577 /\ DISTANCEEXTRA[30] = 13
  BY DEF DISTANCEBASE, DISTANCEEXTRA
<1>3. \A m \in 1..30 : DISTANCEEXTRA[m] \in 0..13
  BY DEF DISTANCEEXTRA
<1>4. \A m \in 1..29 : DISTANCEBASE[m + 1] - DISTANCEBASE[m] <= 2^DISTANCEEXTRA[m]
  <2>1. \A m \in 1..29 :
          \/ DISTANCEEXTRA[m] = 0 /\ DISTANCEBASE[m + 1] - DISTANCEBASE[m] <= 1
          \/ DISTANCEEXTRA[m] = 1 /\ DISTANCEBASE[m + 1] - DISTANCEBASE[m] <= 2
          \/ DISTANCEEXTRA[m] = 2 /\ DISTANCEBASE[m + 1] - DISTANCEBASE[m] <= 4
          \/ DISTANCEEXTRA[m] = 3 /\ DISTANCEBASE[m + 1] - DISTANCEBASE[m] <= 8
          \/ DISTANCEEXTRA[m] = 4 /\ DISTANCEBASE[m + 1] - DISTANCEBASE[m] <= 16
          \/ DISTANCEEXTRA[m] = 5 /\ DISTANCEBASE[m + 1] - DISTANCEBASE[m] <= 32
          \/ DISTANCEEXTRA[m] = 6 /\ DISTANCEBASE[m + 1] - DISTANCEBASE[m] <= 64
          \/ DISTANCEEXTRA[m] = 7 /\ DISTANCEBASE[m + 1] - DISTANCEBASE[m] <= 128
          \/ DISTANCEEXTRA[m] = 8 /\ DISTANCEBASE[m + 1] - DISTANCEBASE[m] <= 256
          \/ DISTANCEEXTRA[m] = 9 /\ DISTANCEBASE[m + 1] - DISTANCEBASE[m] <= 512
          \/ DISTANCEEXTRA[m] = 10 /\ DISTANCEBASE[m + 1] - DISTANCEBASE[m] <= 1024
          \/ DISTANCEEXTRA[m] = 11 /\ DISTANCEBASE[m + 1] - DISTANCEBASE[m] <= 2048
          \/ DISTANCEEXTRA[m] = 12 /\ DISTANCEBASE[m + 1] - DISTANCEBASE[m] <= 4096
          \/ DISTANCEEXTRA[m] = 13 /\ DISTANCEBASE[m + 1] - DISTANCEBASE[m] <= 8192
    BY DEF DISTANCEBASE, DISTANCEEXTRA
  <2>2. 2^0 = 1 /\ 2^1 = 2 /\ 2^2 = 4 /\ 2^3 = 8 /\ 2^4 = 16 /\ 2^5 = 32 /\ 2^6 = 64 /\ 2^7 = 128 /\ 2^8 = 256 /\ 2^9 = 512 /\ 2^10 = 1024 /\ 2^11 = 2048 /\ 2^12 = 4096 /\ 2^13 = 8192
    OBVIOUS
  <2> SUFFICES ASSUME NEW m \in 1..29 PROVE DISTANCEBASE[m + 1] - DISTANCEBASE[m] <= 2^DISTANCEEXTRA[m]
    OBVIOUS
  <2> DEFINE D == DISTANCEBASE[m + 1] - DISTANCEBASE[m]
             x == DISTANCEEXTRA[m]
             P(k) == x = k => D <= 2^k
  <2>3. x \in 0..13
    BY <1>3
  <2>4. P(0) /\ P(1) /\ P(2) /\ P(3) /\ P(4) /\ P(5) /\ P(6) /\ P(7) /\ P(8) /\ P(9) /\ P(10) /\ P(11) /\ P(12) /\ P(13)
    BY <2>1, <2>2
  <2> HIDE DEF P
  <2>5. P(x)
    BY <2>3, <2>4
  <2> QED BY <2>5 DEF P
<1>5. ASSUME NEW m \in 1..30 PROVE Reaches(DISTANCEBASE, DISTANCEEXTRA, m)
  <2>1. m < 30 => m \in 1..29
    OBVIOUS
  <2> QED BY <2>1, <1>1, <1>4 DEF Reaches
<1>6. Ascending(DISTANCEBASE)
  BY DEF DISTANCEBASE, Ascending
<1> QED BY <1>1, <1>2, <1>3, <1>5, <1>6

\* One bit more of a number.
LEMMA OneBitMore ==
  ASSUME NEW v \in Nat, NEW i \in 1..13
  PROVE  v % 2^i = (v % 2^(i - 1)) + ((v \div 2^(i - 1)) % 2) * 2^(i - 1)
<1> DEFINE P(k) == v % 2^k = (v % 2^(k - 1)) + ((v \div 2^(k - 1)) % 2) * 2^(k - 1)
<1>1. P(1) /\ P(2) /\ P(3) /\ P(4)
  OBVIOUS
<1>2. P(5) /\ P(6) /\ P(7) /\ P(8)
  OBVIOUS
<1>3. P(9) /\ P(10) /\ P(11)
  OBVIOUS
<1>4. P(12) /\ P(13)
  OBVIOUS
<1> HIDE DEF P
<1>5. P(i)
  BY <1>1, <1>2, <1>3, <1>4
<1> QED BY <1>5 DEF P

\* A field is read as the number it was written for.
LEMMA ReadBitsIs ==
  ASSUME NEW p, NEW n \in 0..13, NEW v \in Nat, v < 2^n,
         \A i \in 1..n : stream[p + i][2] = (v \div 2^(i - 1)) % 2
  PROVE  ReadBits(p, n) = v
<1> DEFINE Body(e) == e = [i \in 0..n |-> IF i = 0 THEN 0 ELSE e[i - 1] + stream[p + i][2] * 2^(i - 1)]
           E == CHOOSE e : Body(e)
           f == [i \in 0..n |-> v % 2^i]
<1>1. Body(f)
  <2>1. f[0] = 0
    <3>1. v % 2^0 = 0
      OBVIOUS
    <3> QED BY <3>1
  <2>2. ASSUME NEW i \in 1..n PROVE f[i] = f[i - 1] + stream[p + i][2] * 2^(i - 1)
    <3>1. i \in 0..n /\ i - 1 \in 0..n /\ i \in 1..13
      OBVIOUS
    <3>2. f[i] = v % 2^i /\ f[i - 1] = v % 2^(i - 1)
      BY <3>1
    <3>3. v % 2^i = (v % 2^(i - 1)) + ((v \div 2^(i - 1)) % 2) * 2^(i - 1)
      BY <3>1, OneBitMore
    <3>4. stream[p + i][2] = (v \div 2^(i - 1)) % 2
      OBVIOUS
    <3> HIDE DEF f
    <3> QED BY ONLY <3>2, <3>3, <3>4
  <2>3. f = [i \in 0..n |-> f[i]]
    OBVIOUS
  <2> HIDE DEF f
  <2>4. ASSUME NEW i \in 0..n PROVE f[i] = IF i = 0 THEN 0 ELSE f[i - 1] + stream[p + i][2] * 2^(i - 1)
    <3>1. i # 0 => i \in 1..n
      OBVIOUS
    <3> QED BY <3>1, <2>1, <2>2
  <2> QED BY <2>3, <2>4
<1>2. Body(E)
  <2> HIDE DEF Body, f
  <2> QED BY <1>1
<1>3. E[n] = f[n]
  <2>1. Body(f) /\ Body(E)
    BY <1>1, <1>2
  <2> HIDE DEF E, f
  <2>2. GoesAlong(E, f, n)
    <3>1. E[0] = f[0]
      BY <2>1
    <3>2. ASSUME NEW k \in 1..n, E[k - 1] = f[k - 1] PROVE E[k] = f[k]
      <4>1. k \in 0..n /\ k # 0
        OBVIOUS
      <4> QED BY <4>1, <3>2, <2>1
    <3> QED BY <3>1, <3>2 DEF GoesAlong
  <2>3. n \in Nat
    OBVIOUS
  <2> QED BY ONLY <2>2, <2>3, RecursionUnique
<1>4. ReadBits(p, n) = E[n]
  BY DEF ReadBits
<1>5. v % 2^n = v
  <2> DEFINE P(k) == v < 2^k => v % 2^k = v
  <2>1. P(0) /\ P(1) /\ P(2) /\ P(3) /\ P(4) /\ P(5) /\ P(6)
    OBVIOUS
  <2>2. P(7) /\ P(8) /\ P(9) /\ P(10) /\ P(11) /\ P(12) /\ P(13)
    OBVIOUS
  <2> HIDE DEF P
  <2>3. P(n)
    BY <2>1, <2>2
  <2> QED BY <2>3 DEF P
<1>6. f[n] = v % 2^n
  OBVIOUS
<1> QED BY <1>3, <1>4, <1>5, <1>6

\* The values a match is written with tell its length and its distance.
CodesTell(v, t) ==
  /\ v \in Seq(Nat) /\ Len(v) = 4
  /\ v[1] \in 257..285 /\ v[2] < 2^LENGTHEXTRA[v[1] - 256] /\ LENGTHBASE[v[1] - 256] + v[2] = t[1]
  /\ v[3] \in 0..29 /\ v[4] < 2^DISTANCEEXTRA[v[3] + 1] /\ DISTANCEBASE[v[3] + 1] + v[4] = t[2]

Fits(base, extra, value, m) ==
  /\ SearchCodeIndex(base, value) = m - 1
  /\ value - base[m] \in Nat /\ value - base[m] < 2^extra[m]

\* What searchCodeIndex finds leaves a rest that fits into the extra bits.
LEMMA Found ==
  ASSUME NEW base \in Seq(Nat), NEW extra, NEW value \in Nat, Ascending(base), Len(base) > 0, base[1] <= value,
         \A m \in 1..Len(base) : Reaches(base, extra, m), value < base[Len(base)] + 2^extra[Len(base)],
         \A m \in 1..Len(base) : 2^extra[m] \in Nat
  PROVE  \E m \in 1..Len(base) : Fits(base, extra, value, m)
<1>1. PICK m \in 1..Len(base) : UpTo(base, value, m)
  BY HowMany
<1>2. SearchCodeIndex(base, value) = m - 1
  BY <1>1, SearchIs
<1> DEFINE n == Len(base)
<1>3. n \in Nat /\ m \in 1..n /\ \A i \in 1..n : base[i] \in Nat /\ (base[i] <= value <=> i <= m)
  BY <1>1 DEF UpTo
<1>4. \A k \in 1..n : 2^extra[k] \in Nat
  OBVIOUS
<1>5. \A k \in 1..n : Reaches(base, extra, k)
  OBVIOUS
<1> HIDE DEF n
<1>6. value - base[m] \in Nat
  BY <1>3
<1>7. value - base[m] < 2^extra[m]
  <2>1. CASE m = n
    <3>1. value < base[n] + 2^extra[n]
      BY DEF n
    <3>2. 2^extra[n] \in Nat /\ base[n] \in Nat
      BY <2>1, <1>3, <1>4
    <3>3. PICK x \in Nat, b \in Nat : x = 2^extra[n] /\ b = base[n]
      BY <3>2
    <3>4. value < b + x
      BY <3>1, <3>3
    <3>5. value - b < x
      BY <3>4
    <3> QED BY <3>3, <3>5, <2>1
  <2>2. CASE m # n
    <3>1. m + 1 \in 1..n /\ m < n
      BY <2>2, <1>3
    <3>2. base[m + 1] - base[m] <= 2^extra[m]
      BY <3>1, <1>3, <1>5 DEF Reaches, n
    <3>3. PICK x \in Nat, b \in Nat, c \in Nat : x = 2^extra[m] /\ b = base[m] /\ c = base[m + 1]
      BY <3>1, <1>3, <1>4
    <3>4. value < c
      <4>1. ~(base[m + 1] <= value)
        BY <3>1, <1>3
      <4> QED BY <4>1, <3>3
    <3>5. c - b <= x
      BY <3>2, <3>3
    <3>6. value - b < x
      BY ONLY <3>4, <3>5, value \in Nat, x \in Nat, b \in Nat, c \in Nat
    <3> QED BY <3>3, <3>6
  <2> QED BY <2>1, <2>2
<1> QED BY <1>2, <1>6, <1>7 DEF Fits

\* The powers of two of as many bits as a field may have.
LEMMA SmallPowers == \A x \in 0..13 : 2^x \in Nat
<1> DEFINE P(x) == 2^x \in Nat
<1>1. P(0) /\ P(1) /\ P(2) /\ P(3) /\ P(4) /\ P(5) /\ P(6) /\ P(7) /\ P(8) /\ P(9) /\ P(10) /\ P(11) /\ P(12) /\ P(13)
  OBVIOUS
<1> HIDE DEF P
<1>2. \A x \in 0..13 : P(x)
  BY <1>1
<1> QED BY <1>2 DEF P

\* So every length has a code, and every distance of the window.
LEMMA LengthFound ==
  ASSUME NEW len \in 3..258
  PROVE  \E m \in 1..29 : Fits(LENGTHBASE, LENGTHEXTRA, len, m)
<1>1. \A m \in 1..29 : 2^LENGTHEXTRA[m] \in Nat
  <2>1. \A m \in 1..29 : LENGTHEXTRA[m] \in 0..13
    <3>1. \A m \in 1..29 : LENGTHEXTRA[m] \in 0..5
      BY ONLY LengthTable, Zenon
    <3>2. \A x \in 0..5 : x \in 0..13
      OBVIOUS
    <3> QED BY ONLY <3>1, <3>2
  <2> QED BY <2>1, SmallPowers
<1>2. len < LENGTHBASE[29] + 2^LENGTHEXTRA[29]
  <2>1. 2^0 = 1 /\ LENGTHBASE[29] = 258 /\ LENGTHEXTRA[29] = 0
    BY LengthTable
  <2>2. len < 258 + 1
    OBVIOUS
  <2> QED BY ONLY <2>1, <2>2
<1>3. len \in Nat /\ LENGTHBASE[1] <= len
  <2>1. LENGTHBASE[1] = 3
    BY LengthTable
  <2> QED BY ONLY <2>1, len \in 3..258
<1>4. LENGTHBASE \in Seq(Nat) /\ Len(LENGTHBASE) = 29 /\ Ascending(LENGTHBASE) /\ Len(LENGTHBASE) > 0
      /\ \A m \in 1..29 : Reaches(LENGTHBASE, LENGTHEXTRA, m)
  BY LengthTable
<1> QED BY <1>1, <1>2, <1>3, <1>4, Found

LEMMA DistanceFound ==
  ASSUME NEW dist \in Distances
  PROVE  \E m \in 1..30 : Fits(DISTANCEBASE, DISTANCEEXTRA, dist, m)
<1>1. \A m \in 1..30 : 2^DISTANCEEXTRA[m] \in Nat
  <2>1. \A m \in 1..30 : DISTANCEEXTRA[m] \in 0..13
    BY DistanceExtraBits
  <2> QED BY <2>1, SmallPowers
<1>0. dist \in Nat /\ 1 <= dist /\ dist < 24577 + 8192
  BY DEF Distances
<1>2. dist < DISTANCEBASE[30] + 2^DISTANCEEXTRA[30]
  <2>1. 2^13 = 8192 /\ DISTANCEBASE[30] = 24577 /\ DISTANCEEXTRA[30] = 13
    BY DistanceTable
  <2> QED BY ONLY <2>1, <1>0
<1>3. dist \in Nat /\ DISTANCEBASE[1] <= dist
  <2>1. DISTANCEBASE[1] = 1
    BY DistanceTable
  <2> QED BY ONLY <2>1, <1>0
<1>4. DISTANCEBASE \in Seq(Nat) /\ Len(DISTANCEBASE) = 30 /\ Ascending(DISTANCEBASE) /\ Len(DISTANCEBASE) > 0
      /\ \A m \in 1..30 : Reaches(DISTANCEBASE, DISTANCEEXTRA, m)
  BY DistanceTable
<1> QED BY <1>1, <1>2, <1>3, <1>4, Found

\* What addLengthDistance leaves tells the match.
LEMMA MatchCodes ==
  ASSUME NEW t \in Match
  PROVE  CodesTell(LengthDistance(t[1], t[2]), t)
<1>1. PICK len \in 3..258, dist \in Distances : t[1] = len /\ t[2] = dist
  <2>1. t[1] \in 3..258 /\ t[2] \in Distances
    BY DEF Match
  <2> QED BY <2>1
<1>2. PICK m \in 1..29 : Fits(LENGTHBASE, LENGTHEXTRA, len, m)
  BY LengthFound
<1>3. PICK k \in 1..30 : Fits(DISTANCEBASE, DISTANCEEXTRA, dist, k)
  BY DistanceFound
<1>4. PICK v : v = LengthDistance(len, dist)
  OBVIOUS
<1>5. v = <<m + 256, len - LENGTHBASE[m], k - 1, dist - DISTANCEBASE[k]>>
  <2>1. (m - 1) + 1 = m /\ (k - 1) + 1 = k /\ (m - 1) + 257 = m + 256
    OBVIOUS
  <2> QED BY <2>1, <1>2, <1>3, <1>4 DEF LengthDistance, FirstLengthCode, Fits
<1>6. v \in Seq(Nat) /\ Len(v) = 4
  BY <1>2, <1>3, <1>5 DEF Fits
<1>7. v[1] = m + 256 /\ v[2] = len - LENGTHBASE[m] /\ v[3] = k - 1 /\ v[4] = dist - DISTANCEBASE[k]
  BY <1>5
<1>8. v[1] - 256 = m /\ v[3] + 1 = k /\ v[1] \in 257..285 /\ v[3] \in 0..29
  BY <1>7
<1>9. LENGTHBASE[m] \in Nat /\ DISTANCEBASE[k] \in Nat
  <2>1. LENGTHBASE \in Seq(Nat) /\ m \in 1..Len(LENGTHBASE)
    BY LengthTable
  <2>2. DISTANCEBASE \in Seq(Nat) /\ k \in 1..Len(DISTANCEBASE)
    BY DistanceTable
  <2> QED BY <2>1, <2>2, ElementOf
<1>10. LENGTHBASE[m] + v[2] = len /\ DISTANCEBASE[k] + v[4] = dist
  <2>1. \A x, y, z : x \in Nat /\ y \in Nat /\ z = x - y => y + z = x
    OBVIOUS
  <2>2. len \in Nat /\ dist \in Nat
    <3>1. Distances \subseteq Nat
      BY ONLY SMT DEF Distances
    <3>2. dist \in Nat
      BY ONLY dist \in Distances, <3>1, Zenon
    <3> QED BY ONLY <3>2, len \in 3..258
  <2>3. v[2] = len - LENGTHBASE[m] /\ v[4] = dist - DISTANCEBASE[k]
    BY <1>7
  <2>4. LENGTHBASE[m] + v[2] = len
    BY ONLY <2>1, <2>2, <2>3, <1>9, Zenon
  <2>5. DISTANCEBASE[k] + v[4] = dist
    <3>1. dist \in Nat /\ DISTANCEBASE[k] \in Nat /\ v[4] = dist - DISTANCEBASE[k]
      BY <2>2, <2>3, <1>9
    <3> QED BY ONLY <2>1, <3>1, Zenon
  <2> QED BY <2>4, <2>5
<1>11. CodesTell(v, t)
  BY <1>1, <1>2, <1>3, <1>6, <1>7, <1>8, <1>10 DEF CodesTell, Fits
<1> QED BY <1>1, <1>4, <1>11

\* Where each block begins in the tokens of all of them.
Token == Match \cup Literal
BlocksAt(from) ==
  /\ from \in [0..Len(blocks) -> Nat] /\ from[0] = 0
  /\ AllTokens \in Seq(Token) /\ Len(AllTokens) = from[Len(blocks)]
  /\ \A b \in 1..Len(blocks) :
       /\ from[b] = from[b - 1] + Len(blocks[b])
       /\ \A i \in 1..Len(blocks[b]) : AllTokens[from[b - 1] + i] = blocks[b][i]

LEMMA AllTokensAre ==
  ASSUME blocks \in Seq(Seq(Token))
  PROVE  \E from : BlocksAt(from)
<1> DEFINE N == Len(blocks)
           V == Seq(Token)
           g == [kv \in (1..N) \X V |-> kv[2] \o blocks[kv[1]]]
<1>1. N \in Nat /\ <<>> \in V /\ \A k \in 1..N : blocks[k] \in V
  <2> HIDE DEF V
  <2>1. blocks \in Seq(V)
    BY DEF V
  <2>2. \A k \in 1..N : blocks[k] \in V
    BY <2>1, ElementOf
  <2>3. <<>> \in V
    BY DEF V
  <2> QED BY <2>1, <2>2, <2>3
<1>2. g \in Steps(V, N)
  <2>1. ASSUME NEW k \in 1..N, NEW v \in V PROVE v \o blocks[k] \in V
    <3>1. blocks[k] \in V
      BY <1>1
    <3> HIDE DEF N
    <3> QED BY ONLY <3>1, v \in V, Joined
  <2>2. \A kv \in (1..N) \X V : g[kv] \in V
    BY <2>1
  <2> HIDE DEF V
  <2> QED BY <2>2 DEF Steps
<1>3. PICK f \in [0..N -> V] : Follows(f, N, <<>>, g)
  <2> HIDE DEF g, V, N
  <2>1. IsDefinedBy(V, N, <<>>, g)
    BY <1>1, <1>2, Recursion, Zenon
  <2> QED BY <2>1, Zenon DEF IsDefinedBy
<1>4. ASSUME NEW k \in 1..N PROVE f[k - 1] \in V /\ f[k] \in V /\ f[k] = f[k - 1] \o blocks[k]
  <2>1. f[k - 1] \in V /\ f[k] \in V
    <3> HIDE DEF V
    <3>1. k - 1 \in 0..N /\ k \in 0..N
      BY <1>1
    <3> QED BY <1>3, <3>1
  <2>2. f[k] = g[<<k, f[k - 1]>>]
    BY <1>3 DEF Follows
  <2> HIDE DEF V
  <2> QED BY <2>1, <2>2
<1> DEFINE Body(e) == e = [k \in 0..N |-> IF k = 0 THEN <<>> ELSE e[k - 1] \o blocks[k]]
           E == CHOOSE e : Body(e)
<1>5. Body(f)
  <2>1. f[0] = <<>>
    BY <1>3 DEF Follows
  <2> HIDE DEF V
  <2>2. f = [k \in 0..N |-> f[k]]
    BY <1>3
  <2>3. ASSUME NEW k \in 0..N PROVE f[k] = IF k = 0 THEN <<>> ELSE f[k - 1] \o blocks[k]
    <3>1. CASE k = 0
      BY <2>1, <3>1
    <3>2. CASE k # 0
      <4>1. k \in 1..N
        BY <3>2
      <4> QED BY <3>2, <4>1, <1>4
    <3> QED BY <3>1, <3>2
  <2> QED BY <2>2, <2>3
<1>6. Body(E)
  <2> HIDE DEF Body
  <2> QED BY <1>5
<1>7. E[0] = <<>> /\ \A k \in 1..N : E[k] = E[k - 1] \o blocks[k]
  <2> HIDE DEF E
  <2>1. E = [k \in 0..N |-> IF k = 0 THEN <<>> ELSE E[k - 1] \o blocks[k]]
    BY <1>6
  <2>2. E[0] = <<>>
    <3>1. 0 \in 0..N
      BY <1>1
    <3> QED BY <2>1, <3>1, Zenon
  <2>3. ASSUME NEW k \in 1..N PROVE E[k] = E[k - 1] \o blocks[k]
    <3>1. k \in 0..N /\ k # 0
      BY <1>1
    <3> QED BY <2>1, <3>1, Zenon
  <2> QED BY <2>2, <2>3
<1>8. E[N] = f[N]
  <2> HIDE DEF E, V
  <2>1. E[0] = f[0]
    BY <1>3, <1>7 DEF Follows
  <2>2. ASSUME NEW k \in 1..N, E[k - 1] = f[k - 1] PROVE E[k] = f[k]
    BY <1>4, <1>7, <2>2
  <2>3. GoesAlong(E, f, N)
    BY <2>1, <2>2 DEF GoesAlong
  <2> HIDE DEF N
  <2> QED BY ONLY <1>1, <2>3, RecursionUnique
<1>9. AllTokens = f[N]
  <2>1. AllTokens = E[N]
    BY DEF AllTokens
  <2> QED BY <1>8, <2>1
<1>10. f[0] = <<>>
  BY <1>3 DEF Follows
<1> HIDE DEF E, Body, g
<1>11. ASSUME NEW k \in 1..N
       PROVE  /\ Len(f[k]) = Len(f[k - 1]) + Len(blocks[k])
              /\ \A i \in 1..Len(f[k - 1]) : f[k][i] = f[k - 1][i]
              /\ \A i \in 1..Len(blocks[k]) : f[k][Len(f[k - 1]) + i] = blocks[k][i]
  <2>1. PICK s \in V, t \in V : s = f[k - 1] /\ t = blocks[k]
    BY <1>1, <1>4
  <2>2. f[k] = s \o t
    BY <1>4, <2>1
  <2>3. s \in Seq(Token) /\ t \in Seq(Token)
    OBVIOUS
  <2>4. /\ Len(s \o t) = Len(s) + Len(t)
        /\ \A i \in 1..Len(s) : (s \o t)[i] = s[i]
        /\ \A i \in 1..Len(t) : (s \o t)[Len(s) + i] = t[i]
    BY ONLY <2>3, Joined
  <2> HIDE DEF V, N
  <2> QED BY ONLY <2>1, <2>2, <2>4
<1> DEFINE S == {n \in Nat : n <= N =>
                   \A k \in 0..n : /\ Len(f[k]) <= Len(f[n])
                                   /\ \A i \in 1..Len(f[k]) : f[n][i] = f[k][i]}
<1>12. \A k \in 0..N : Len(f[k]) \in Nat
  BY <1>3
<1> HIDE DEF V
<1>13. 0 \in S
  <2>1. Len(f[0]) = 0
    BY <1>10
  <2> QED BY <2>1
<1>14. ASSUME NEW n \in Nat, n \in S PROVE n + 1 \in S
  <2> SUFFICES ASSUME n + 1 <= N, NEW k \in 0..n + 1
               PROVE  Len(f[k]) <= Len(f[n + 1]) /\ \A i \in 1..Len(f[k]) : f[n + 1][i] = f[k][i]
    OBVIOUS
  <2>1. /\ n + 1 \in 1..N /\ (n + 1) - 1 = n /\ n \in 0..N /\ n + 1 \in 0..N /\ k \in 0..N
    BY <1>1
  <2>2. /\ Len(f[n + 1]) = Len(f[n]) + Len(blocks[n + 1])
        /\ \A i \in 1..Len(f[n]) : f[n + 1][i] = f[n][i]
    <3>1. PICK q \in 1..N : q = n + 1 /\ q - 1 = n
      BY <2>1
    <3>2. /\ Len(f[q]) = Len(f[q - 1]) + Len(blocks[q])
          /\ \A i \in 1..Len(f[q - 1]) : f[q][i] = f[q - 1][i]
      BY <1>11
    <3> QED BY ONLY <3>1, <3>2
  <2>3. Len(blocks[n + 1]) \in Nat /\ Len(f[n]) \in Nat /\ Len(f[k]) \in Nat
    BY <1>1, <1>12, <2>1 DEF V
  <2>4. CASE k = n + 1
    BY <2>3, <2>4
  <2>5. CASE k # n + 1
    <3>1. k \in 0..n /\ n <= N
      BY <2>5, <1>1
    <3>2. Len(f[k]) <= Len(f[n]) /\ \A i \in 1..Len(f[k]) : f[n][i] = f[k][i]
      BY <3>1, <1>14
    <3>3. Len(f[k]) <= Len(f[n + 1])
      <4>1. \A x, y, z, w : x \in Nat /\ y \in Nat /\ z \in Nat /\ w = y + z /\ x <= y => x <= w
        OBVIOUS
      <4>2. Len(f[n + 1]) = Len(f[n]) + Len(blocks[n + 1]) /\ Len(f[k]) <= Len(f[n])
        BY <2>2, <3>2
      <4> QED BY ONLY <4>1, <4>2, <2>3
    <3>4. \A i \in 1..Len(f[k]) : i \in 1..Len(f[n])
      BY <3>2, <2>3
    <3> QED BY <3>2, <3>3, <3>4, <2>2
  <2> QED BY <2>4, <2>5
<1>15. N \in S
  <2> HIDE DEF S
  <2>1. Nat \subseteq S
    BY <1>13, <1>14, NatSetInduction
  <2> QED BY <1>1, <2>1
<1>16. PICK from : from = [k \in 0..N |-> Len(f[k])]
  OBVIOUS
<1>17. from \in [0..N -> Nat] /\ from[0] = 0
  BY <1>1, <1>10, <1>12, <1>16
<1>18. f[N] \in Seq(Token) /\ Len(f[N]) = from[N]
  BY <1>1, <1>3, <1>16 DEF V
<1>19. ASSUME NEW b \in 1..N
       PROVE  /\ from[b] = from[b - 1] + Len(blocks[b])
              /\ \A i \in 1..Len(blocks[b]) : f[N][from[b - 1] + i] = blocks[b][i]
  <2>1. b \in 0..N /\ b - 1 \in 0..N /\ N <= N
    BY <1>1
  <2>2. from[b] = Len(f[b]) /\ from[b - 1] = Len(f[b - 1])
    BY <1>16, <2>1
  <2>3. Len(blocks[b]) \in Nat /\ Len(f[b - 1]) \in Nat
    BY <1>1, <1>12, <2>1 DEF V
  <2>4. ASSUME NEW i \in 1..Len(blocks[b]) PROVE f[N][from[b - 1] + i] = blocks[b][i]
    <3>1. f[b][Len(f[b - 1]) + i] = blocks[b][i] /\ Len(f[b]) = Len(f[b - 1]) + Len(blocks[b])
      BY <1>11
    <3>2. Len(f[b - 1]) + i \in 1..Len(f[b])
      <4>1. \A x, y, z, j : x \in Nat /\ y \in Nat /\ z = x + y /\ j \in 1..y => x + j \in 1..z
        OBVIOUS
      <4>2. i \in 1..Len(blocks[b])
        OBVIOUS
      <4>3. Len(f[b]) = Len(f[b - 1]) + Len(blocks[b])
        BY <3>1
      <4> QED BY ONLY <4>1, <4>2, <4>3, <2>3
    <3>3. f[N][Len(f[b - 1]) + i] = f[b][Len(f[b - 1]) + i]
      BY <3>2, <2>1, <1>15
    <3> QED BY <3>1, <3>3, <2>2
  <2> QED BY <2>2, <2>4, <1>11
<1> HIDE DEF S
<1>20. BlocksAt(from)
  BY <1>9, <1>17, <1>18, <1>19 DEF BlocksAt
<1> QED BY <1>20

(* What is invariant: lz77_encoded holds the values of a token behind those
   of the one before, and vals are the places where they begin, ... *)
StreamItem == {"bit", "ll", "d"} \X Nat

TokenTypeOK ==
  /\ blocks \in Seq(Seq(Token)) /\ blockNo \in 1..Len(blocks)
  /\ lz77_encoded \in Seq(Nat) /\ index \in Nat
  /\ stream \in Seq(StreamItem)

FourAt(p) == <<lz77_encoded[p + 1], lz77_encoded[p + 2], lz77_encoded[p + 3], lz77_encoded[p + 4]>>
ValuesIn(p, q, t) ==
  /\ q <= Len(lz77_encoded)
  /\ t \in Literal => q = p + 1 /\ lz77_encoded[p + 1] = t[1]
  /\ t \notin Literal => q = p + 4 /\ CodesTell(FourAt(p), t)

ValuesFrom(vals) ==
  /\ vals \in Seq(Nat) /\ Len(vals) >= 1 /\ vals[1] = 0 /\ vals[Len(vals)] = Len(lz77_encoded)
  /\ Len(vals) <= Len(Tokens) + 1
  /\ \A i \in 1..Len(vals) - 1 : ValuesIn(vals[i], vals[i + 1], Tokens[i])

CountedAt(p) ==
  /\ <<"ll", lz77_encoded[p + 1]>> \in frequencies
  /\ IsLength(lz77_encoded[p + 1]) => <<"d", lz77_encoded[p + 3]>> \in frequencies

(* ... and the stream is told by marks: up to where, how many tokens and block
   heads there are so far, and what was the last of them. *)
Mark == [at : Nat, got : Nat, no : Nat, kind : {"head", "token", "end"}]
FirstMark == [at |-> 0, got |-> 0, no |-> 0, kind |-> "end"]

HeadBetween(a, b) ==
  /\ a.kind = "end" /\ b.kind = "head"
  /\ b.at = a.at + 3 /\ b.got = a.got /\ b.no = a.no + 1
  /\ stream[a.at + 1] = Bit(IF b.no = Len(blocks) THEN 1 ELSE 0)
  /\ stream[a.at + 2] = Bit(0) /\ stream[a.at + 3] = Bit(1)

FieldAt(p, n, v) == \A i \in 1..n : stream[p + i] = Bit((v \div 2^(i - 1)) % 2)

MatchBetween(p, q, v) ==
  LET l == LENGTHEXTRA[v[1] - 256]
      d == DISTANCEEXTRA[v[3] + 1]
  IN  /\ q = p + 2 + l + d
      /\ stream[p + 1] = <<"ll", v[1]>> /\ FieldAt(p + 1, l, v[2])
      /\ stream[p + 2 + l] = <<"d", v[3]>> /\ FieldAt(p + 2 + l, d, v[4])

TokenBetween(a, b) ==
  /\ a.kind # "end" /\ b.kind = "token"
  /\ b.got = a.got + 1 /\ b.no = a.no
  /\ LET t == AllTokens[b.got]
     IN  /\ t \in Literal => b.at = a.at + 1 /\ stream[b.at] = <<"ll", t[1]>>
         /\ t \notin Literal => \E v : CodesTell(v, t) /\ MatchBetween(a.at, b.at, v)

EndBetween(a, b) ==
  /\ a.kind # "end" /\ b.kind = "end"
  /\ b.at = a.at + 1 /\ b.got = a.got /\ b.no = a.no
  /\ stream[b.at] = <<"ll", EndSymbol>>

Between(a, b) == HeadBetween(a, b) \/ TokenBetween(a, b) \/ EndBetween(a, b)

Written(marks) ==
  /\ marks \in Seq(Mark) /\ Len(marks) >= 1 /\ marks[1] = FirstMark
  /\ marks[Len(marks)].at = Len(stream)
  /\ \A k \in 1..Len(marks) :
       marks[k].at <= Len(stream) /\ marks[k].got <= Len(AllTokens) /\ marks[k].no <= Len(blocks)
  /\ \A k \in 1..Len(marks) - 1 : Between(marks[k], marks[k + 1])

NothingInflated == bp = 0 /\ bfinal = 0 /\ outTokens = <<>>

(* The writer has written the blocks before this one, and j tokens of this. *)
EncodesAt(from, last, vals, j) ==
  /\ tokenPc = "encode" /\ Len(vals) = j + 1 /\ index = j
  /\ last.kind = "end" /\ last.no = blockNo - 1 /\ last.got = from[blockNo - 1]
CountsAt(from, last, vals, j) ==
  /\ tokenPc = "count" /\ Len(vals) = Len(Tokens) + 1 /\ index = vals[j + 1]
  /\ last.kind = "end" /\ last.no = blockNo - 1 /\ last.got = from[blockNo - 1]
  /\ \A i \in 1..j : CountedAt(vals[i])
WritesAt(from, last, vals, j) ==
  /\ tokenPc = "write" /\ Len(vals) = Len(Tokens) + 1 /\ index = vals[j + 1]
  /\ last.kind # "end" /\ last.no = blockNo /\ last.got = from[blockNo - 1] + j
  /\ \A i \in 1..Len(Tokens) : CountedAt(vals[i])

Deflating(from, marks) ==
  /\ NothingInflated
  /\ \E vals : \E j \in 0..Len(Tokens) :
       /\ ValuesFrom(vals)
       /\ \/ EncodesAt(from, marks[Len(marks)], vals, j)
          \/ CountsAt(from, marks[Len(marks)], vals, j)
          \/ WritesAt(from, marks[Len(marks)], vals, j)

(* The reader has read up to the mark r. *)
Inflating(from, marks) ==
  /\ marks[Len(marks)].kind = "end" /\ marks[Len(marks)].no = Len(blocks)
  /\ marks[Len(marks)].got = Len(AllTokens)
  /\ \E r \in 1..Len(marks) :
       /\ bp = marks[r].at /\ outTokens = SubSeq(AllTokens, 1, marks[r].got)
       /\ bfinal = IF marks[r].no = Len(blocks) THEN 1 ELSE 0
       /\ \/ tokenPc = "blockhead" /\ marks[r].kind = "end"
          \/ tokenPc = "symbols" /\ marks[r].kind # "end"
          \/ tokenPc = "done" /\ r = Len(marks)

TokenIInvAt(from, marks) ==
  /\ TokenTypeOK /\ inflateError = 0
  /\ BlocksAt(from) /\ Written(marks)
  /\ Deflating(from, marks) \/ Inflating(from, marks)

TokenIInv == \E from, marks : TokenIInvAt(from, marks)

\* Where a block begins, as long as nothing else is asked of the blocks.
LEMMA BlockPlaces ==
  ASSUME NEW from, TokenTypeOK, BlocksAt(from)
  PROVE  /\ from[blockNo - 1] \in Nat /\ from[blockNo] = from[blockNo - 1] + Len(Tokens)
         /\ from[blockNo] <= Len(AllTokens) /\ Tokens \in Seq(Token) /\ Len(AllTokens) \in Nat
         /\ \A i \in 1..Len(Tokens) : AllTokens[from[blockNo - 1] + i] = Tokens[i]
<1> DEFINE N == Len(blocks)
<1>1. N \in Nat /\ blockNo \in 1..N /\ blockNo \in 0..N /\ blockNo - 1 \in 0..N
  BY DEF TokenTypeOK
<1>2. /\ from \in [0..N -> Nat] /\ AllTokens \in Seq(Token) /\ Len(AllTokens) = from[N]
      /\ \A b \in 1..N : /\ from[b] = from[b - 1] + Len(blocks[b])
                         /\ \A i \in 1..Len(blocks[b]) : AllTokens[from[b - 1] + i] = blocks[b][i]
  BY DEF BlocksAt
<1>3. \A b \in 1..N : blocks[b] \in Seq(Token)
  <2> DEFINE V == Seq(Token)
  <2>1. blocks \in Seq(V)
    BY DEF TokenTypeOK
  <2> HIDE DEF V
  <2>2. \A b \in 1..N : blocks[b] \in V
    BY <2>1, ElementOf
  <2> QED BY <2>2 DEF V
<1>4. \A b \in 1..N : Len(blocks[b]) \in Nat
  BY <1>3
<1> HIDE DEF N
<1>5. \A b \in 1..N : from[b - 1] <= from[b]
  <2> SUFFICES ASSUME NEW b \in 1..N PROVE from[b - 1] <= from[b]
    OBVIOUS
  <2>1. b - 1 \in 0..N
    BY <1>1
  <2>2. from[b - 1] \in Nat /\ Len(blocks[b]) \in Nat /\ from[b] = from[b - 1] + Len(blocks[b])
    BY <2>1, <1>2, <1>4
  <2>3. \A x, y, z : x \in Nat /\ y \in Nat /\ z = x + y => x <= z
    OBVIOUS
  <2> QED BY ONLY <2>2, <2>3
<1>6. from[blockNo] <= from[N]
  <2>1. N \in Nat /\ from \in [0..N -> Nat] /\ blockNo \in 0..N
    BY <1>1, <1>2
  <2>2. \A k \in 0..N : from[0] <= from[k] /\ from[k] <= from[N]
    BY ONLY <2>1, <1>5, Ascends
  <2> QED BY ONLY <2>1, <2>2
<1> QED BY <1>1, <1>2, <1>3, <1>6 DEF Tokens

\* The fields are small.
LEMMA ExtraBits ==
  ASSUME NEW v, NEW t, CodesTell(v, t)
  PROVE  /\ LENGTHEXTRA[v[1] - 256] \in 0..13 /\ DISTANCEEXTRA[v[3] + 1] \in 0..13
         /\ v[1] - 256 \in 1..29 /\ v[3] + 1 \in 1..30 /\ v[2] \in Nat /\ v[4] \in Nat
<1>1. v[1] \in 257..285 /\ v[3] \in 0..29 /\ v \in Seq(Nat) /\ Len(v) = 4
  BY DEF CodesTell
<1>2. v[1] - 256 \in 1..29 /\ v[3] + 1 \in 1..30
  <2>1. \A x \in 257..285 : x - 256 \in 1..29
    OBVIOUS
  <2>2. \A y \in 0..29 : y + 1 \in 1..30
    OBVIOUS
  <2>3. v[1] \in 257..285 /\ v[3] \in 0..29
    BY <1>1
  <2> QED BY ONLY <2>1, <2>2, <2>3, Zenon
<1>3. \A m \in 1..29 : LENGTHEXTRA[m] \in 0..5
  BY LengthTable
<1>4. \A x \in 0..5 : x \in 0..13
  OBVIOUS
<1>5. v[2] \in Nat /\ v[4] \in Nat
  <2>1. 2 \in 1..Len(v) /\ 4 \in 1..Len(v)
    BY <1>1
  <2> QED BY <2>1, <1>1, ElementOf
<1> QED BY <1>2, <1>3, <1>4, <1>5, DistanceExtraBits

\* What has been written stays when more is written.
More(piece) == piece \in Seq(StreamItem) /\ stream' = stream \o piece /\ blocks' = blocks

LEMMA MoreIs ==
  ASSUME NEW piece, stream \in Seq(StreamItem), More(piece)
  PROVE  /\ stream' \in Seq(StreamItem) /\ Len(stream') = Len(stream) + Len(piece)
         /\ Len(stream) \in Nat /\ Len(piece) \in Nat
         /\ \A i \in 1..Len(stream) : stream'[i] = stream[i]
         /\ \A i \in 1..Len(piece) : stream'[Len(stream) + i] = piece[i]
         /\ AllTokens' = AllTokens
<1>1. piece \in Seq(StreamItem) /\ stream' = stream \o piece
  BY DEF More
<1>2. AllTokens' = AllTokens
  BY DEF More, AllTokens
<1>3. /\ stream \o piece \in Seq(StreamItem) /\ Len(stream \o piece) = Len(stream) + Len(piece)
      /\ \A i \in 1..Len(stream) : (stream \o piece)[i] = stream[i]
      /\ \A i \in 1..Len(piece) : (stream \o piece)[Len(stream) + i] = piece[i]
  BY <1>1, Joined
<1>4. Len(stream) \in Nat /\ Len(piece) \in Nat
  BY <1>1
<1> QED BY <1>1, <1>2, <1>3, <1>4

LEMMA BetweenStays ==
  ASSUME NEW piece, stream \in Seq(StreamItem), More(piece), NEW a \in Mark, NEW b \in Mark, Between(a, b), b.at <= Len(stream)
  PROVE  Between(a, b)'
<1>1. /\ Len(stream) \in Nat /\ AllTokens' = AllTokens /\ blocks' = blocks
      /\ \A i \in 1..Len(stream) : stream'[i] = stream[i]
  BY MoreIs DEF More
<1>2. PICK p \in Nat, q \in Nat : p = a.at /\ q = b.at
  BY DEF Mark
<1>3. q <= Len(stream)
  BY <1>2
<1>4. CASE HeadBetween(a, b)
  <2>1. p + 1 \in 1..Len(stream) /\ p + 2 \in 1..Len(stream) /\ p + 3 \in 1..Len(stream)
    <3>1. q = p + 3
      BY <1>2, <1>4 DEF HeadBetween
    <3> QED BY ONLY <3>1, <1>1, <1>2, <1>3, p \in Nat
  <2>2. stream'[p + 1] = stream[p + 1] /\ stream'[p + 2] = stream[p + 2] /\ stream'[p + 3] = stream[p + 3]
    BY <2>1, <1>1
  <2> QED BY <2>2, <1>1, <1>2, <1>4 DEF Between, HeadBetween, Bit
<1>5. CASE EndBetween(a, b)
  <2>1. q \in 1..Len(stream)
    <3>1. q = p + 1
      BY <1>2, <1>5 DEF EndBetween
    <3> QED BY ONLY <3>1, <1>1, <1>3, p \in Nat
  <2>2. stream'[q] = stream[q]
    BY <2>1, <1>1
  <2> QED BY <2>2, <1>2, <1>5 DEF Between, EndBetween
<1>6. CASE TokenBetween(a, b)
  <2> DEFINE t == AllTokens[b.got]
  <2>1. CASE t \in Literal
    <3>1. q = p + 1
      BY <1>2, <1>6, <2>1 DEF TokenBetween
    <3>2. q \in 1..Len(stream)
      BY ONLY <3>1, <1>1, <1>3, p \in Nat
    <3>3. stream'[q] = stream[q]
      BY <3>2, <1>1
    <3> QED BY <3>3, <2>1, <1>1, <1>2, <1>6 DEF Between, TokenBetween
  <2>2. CASE t \notin Literal
    <3>1. PICK v : CodesTell(v, t) /\ MatchBetween(p, q, v)
      BY <2>2, <1>2, <1>6 DEF TokenBetween
    <3>2. PICK l \in 0..13, d \in 0..13 : l = LENGTHEXTRA[v[1] - 256] /\ d = DISTANCEEXTRA[v[3] + 1]
      BY <3>1, ExtraBits
    <3>3. /\ q = p + 2 + l + d
          /\ stream[p + 1] = <<"ll", v[1]>> /\ FieldAt(p + 1, l, v[2])
          /\ stream[p + 2 + l] = <<"d", v[3]>> /\ FieldAt(p + 2 + l, d, v[4])
      BY <3>1, <3>2 DEF MatchBetween
    <3>4. p + 1 \in 1..Len(stream) /\ p + 2 + l \in 1..Len(stream)
      <4>1. \A L, P, Q, x, y : /\ L \in Nat /\ P \in Nat /\ x \in 0..13 /\ y \in 0..13
                              /\ Q = P + 2 + x + y /\ Q <= L => P + 1 \in 1..L /\ P + 2 + x \in 1..L
        OBVIOUS
      <4>2. q = p + 2 + l + d
        BY <3>3
      <4> QED BY ONLY <4>1, <4>2, <1>1, <1>3, p \in Nat, l \in 0..13, d \in 0..13
    <3>5. (\A i \in 1..l : p + 1 + i \in 1..Len(stream)) /\ \A i \in 1..d : p + 2 + l + i \in 1..Len(stream)
      <4>1. \A L, P, Q, x, y : /\ L \in Nat /\ P \in Nat /\ x \in 0..13 /\ y \in 0..13
                              /\ Q = P + 2 + x + y /\ Q <= L
              => (\A i \in 1..x : P + 1 + i \in 1..L) /\ \A i \in 1..y : P + 2 + x + i \in 1..L
        OBVIOUS
      <4>2. q = p + 2 + l + d
        BY <3>3
      <4> QED BY ONLY <4>1, <4>2, <1>1, <1>3, p \in Nat, l \in 0..13, d \in 0..13
    <3>6. FieldAt(p + 1, l, v[2])' /\ FieldAt(p + 2 + l, d, v[4])'
      BY <3>3, <3>5, <1>1 DEF FieldAt, Bit
    <3>7. stream'[p + 1] = <<"ll", v[1]>> /\ stream'[p + 2 + l] = <<"d", v[3]>>
      BY <3>3, <3>4, <1>1
    <3>8. MatchBetween(p, q, v)'
      BY <3>2, <3>3, <3>6, <3>7 DEF MatchBetween
    <3>9. CodesTell(v, t)'
      BY <3>1, <1>1 DEF CodesTell
    <3> QED BY <3>8, <3>9, <2>2, <1>1, <1>2, <1>6 DEF Between, TokenBetween
  <2> QED BY <2>1, <2>2
<1> QED BY <1>4, <1>5, <1>6 DEF Between

\* A mark more.
LEMMA WrittenOn ==
  ASSUME NEW marks, NEW piece, NEW b \in Mark, stream \in Seq(StreamItem), More(piece), Written(marks),
         b.at = Len(stream) + Len(piece), b.got <= Len(AllTokens), b.no <= Len(blocks),
         Between(marks[Len(marks)], b)'
  PROVE  /\ Written(Append(marks, b))'
         /\ Len(Append(marks, b)) = Len(marks) + 1 /\ Append(marks, b)[Len(marks) + 1] = b
<1> DEFINE n == Len(marks)
<1>0. PICK new : new = Append(marks, b)
  OBVIOUS
<1>1. marks \in Seq(Mark) /\ n \in Nat /\ n >= 1 /\ marks[1] = FirstMark
  BY DEF Written
<1>2. /\ new \in Seq(Mark) /\ Len(new) = n + 1 /\ new[n + 1] = b
      /\ \A k \in 1..n : new[k] = marks[k]
  BY <1>0, <1>1
<1>3. /\ \A k \in 1..n : marks[k].at <= Len(stream) /\ marks[k].got <= Len(AllTokens) /\ marks[k].no <= Len(blocks)
      /\ \A k \in 1..n - 1 : Between(marks[k], marks[k + 1])
  BY DEF Written
<1>4. /\ Len(stream') = Len(stream) + Len(piece) /\ Len(stream) \in Nat /\ Len(piece) \in Nat
      /\ AllTokens' = AllTokens /\ blocks' = blocks
  BY MoreIs DEF More
<1>5. \A k \in 1..n : marks[k] \in Mark
  BY <1>1, ElementOf
<1>6. Between(marks[n], b)'
  OBVIOUS
<1> HIDE DEF n
<1>7. ASSUME NEW k \in 1..n + 1
      PROVE  new[k].at <= Len(stream') /\ new[k].got <= Len(AllTokens') /\ new[k].no <= Len(blocks')
  <2>1. CASE k = n + 1
    BY <2>1, <1>2, <1>4
  <2>2. CASE k # n + 1
    <3>1. k \in 1..n
      BY <2>2, <1>1
    <3>2. marks[k] \in Mark /\ new[k] = marks[k]
      BY <3>1, <1>2, <1>5
    <3>3. marks[k].at <= Len(stream) /\ marks[k].got <= Len(AllTokens) /\ marks[k].no <= Len(blocks)
      BY <3>1, <1>3
    <3>4. PICK x \in Nat : x = marks[k].at
      BY <3>2 DEF Mark
    <3>5. x <= Len(stream')
      BY <3>3, <3>4, <1>4
    <3> QED BY <3>2, <3>3, <3>4, <3>5, <1>4
  <2> QED BY <2>1, <2>2
<1>8. ASSUME NEW k \in 1..n PROVE Between(new[k], new[k + 1])'
  <2>1. CASE k = n
    <3>1. new[k] = marks[n] /\ new[k + 1] = b
      BY <2>1, <1>1, <1>2
    <3> QED BY <3>1, <1>6
  <2>2. CASE k # n
    <3>1. k \in 1..n - 1 /\ k + 1 \in 1..n
      BY <2>2, <1>1
    <3>2. new[k] = marks[k] /\ new[k + 1] = marks[k + 1] /\ marks[k] \in Mark /\ marks[k + 1] \in Mark
      BY <3>1, <1>2, <1>5
    <3>3. Between(marks[k], marks[k + 1]) /\ marks[k + 1].at <= Len(stream)
      BY <3>1, <1>3
    <3>4. Between(marks[k], marks[k + 1])'
      BY <3>2, <3>3, BetweenStays
    <3> QED BY <3>2, <3>4
  <2> QED BY <2>1, <2>2
<1>9. new[1] = FirstMark
  BY <1>1, <1>2
<1>10. \A k \in 1..(n + 1) - 1 : Between(new[k], new[k + 1])'
  <2>1. (n + 1) - 1 = n
    BY <1>1
  <2> QED BY <2>1, <1>8
<1>11. new[n + 1].at = Len(stream') /\ n + 1 >= 1
  BY <1>1, <1>2, <1>4
<1>12. Written(new)'
  BY <1>2, <1>7, <1>9, <1>10, <1>11 DEF Written
<1> QED BY <1>0, <1>2, <1>12 DEF n

\* Nothing that is told of the stream and of the blocks changes with anything else.
LEMMA StreamStays ==
  ASSUME NEW from, NEW marks, BlocksAt(from), Written(marks), stream' = stream, blocks' = blocks
  PROVE  BlocksAt(from)' /\ Written(marks)'
<1>1. AllTokens' = AllTokens
  BY DEF AllTokens
<1>2. BlocksAt(from)'
  BY <1>1 DEF BlocksAt
<1>3. ASSUME NEW a, NEW b, Between(a, b) PROVE Between(a, b)'
  <2>1. CASE HeadBetween(a, b)
    BY <2>1 DEF Between, HeadBetween, Bit
  <2>2. CASE TokenBetween(a, b)
    <3>1. \A p, q, v : MatchBetween(p, q, v) => MatchBetween(p, q, v)'
      BY DEF MatchBetween, FieldAt, Bit
    <3> QED BY <3>1, <2>2, <1>1 DEF Between, TokenBetween
  <2>3. CASE EndBetween(a, b)
    BY <2>3 DEF Between, EndBetween
  <2> QED BY <2>1, <2>2, <2>3, <1>3 DEF Between
<1>4. \A k \in 1..Len(marks) - 1 : Between(marks[k], marks[k + 1])'
  BY <1>3 DEF Written
<1>5. Written(marks)'
  BY <1>1, <1>4 DEF Written
<1> QED BY <1>2, <1>5

\* A token is a literal or a match.
LEMMA TokensAre ==
  ASSUME TokenTypeOK, NEW i \in 1..Len(Tokens)
  PROVE  /\ Tokens \in Seq(Token) /\ Tokens[i] \in Token /\ Len(Tokens) \in Nat
         /\ Tokens[i] \in Literal => Tokens[i] = <<Tokens[i][1]>> /\ Tokens[i][1] \in 0..255
         /\ Tokens[i] \notin Literal => Tokens[i] \in Match
<1>1. Tokens \in Seq(Token)
  <2> DEFINE V == Seq(Token)
  <2>1. blocks \in Seq(V) /\ blockNo \in 1..Len(blocks)
    BY DEF TokenTypeOK
  <2> HIDE DEF V
  <2>2. blocks[blockNo] \in V
    BY <2>1, ElementOf
  <2> QED BY <2>2 DEF V, Tokens
<1>2. Tokens[i] \in Token
  BY <1>1, ElementOf
<1>3. PICK t : t = Tokens[i]
  OBVIOUS
<1>4. t \in Literal => t = <<t[1]>> /\ t[1] \in 0..255
  BY DEF Literal
<1>5. t \notin Literal => t \in Match
  BY <1>2, <1>3 DEF Token
<1>6. Len(Tokens) \in Nat
  BY <1>1
<1> QED BY <1>1, <1>2, <1>3, <1>4, <1>5, <1>6

\* Where the writer is in the values, and what is there.
AtLiteral(q, t) == q = index + 1 /\ t[1] = Value(0) /\ Value(0) \in 0..255 /\ ~IsLength(Value(0)) /\ t = <<Value(0)>>
AtMatch(q, t) ==
  /\ q = index + 4 /\ IsLength(Value(0)) /\ CodesTell(FourAt(index), t)
  /\ FourAt(index) = <<Value(0), Value(1), Value(2), Value(3)>>

LEMMA AtValue ==
  ASSUME TokenTypeOK, NEW vals, ValuesFrom(vals), Len(vals) = Len(Tokens) + 1,
         NEW j \in 0..Len(Tokens), index = vals[j + 1]
  PROVE  /\ index = Len(lz77_encoded) => j = Len(Tokens)
         /\ index < Len(lz77_encoded) =>
              /\ j + 1 \in 1..Len(Tokens) /\ vals[j + 2] \in Nat
              /\ Tokens[j + 1] \in Literal => AtLiteral(vals[j + 2], Tokens[j + 1])
              /\ Tokens[j + 1] \notin Literal => AtMatch(vals[j + 2], Tokens[j + 1])
<1> DEFINE N == Len(Tokens)
           L == Len(lz77_encoded)
<1>1. N \in Nat /\ L \in Nat /\ index \in Nat
  <2>1. lz77_encoded \in Seq(Nat) /\ index \in Nat
    BY DEF TokenTypeOK
  <2>2. Len(vals) \in Nat
    BY DEF ValuesFrom
  <2>3. Tokens \in Seq(Token)
    <3> DEFINE V == Seq(Token)
    <3>1. blocks \in Seq(V) /\ blockNo \in 1..Len(blocks)
      BY DEF TokenTypeOK
    <3> HIDE DEF V
    <3>2. blocks[blockNo] \in V
      BY <3>1, ElementOf
    <3> QED BY <3>2 DEF V, Tokens
  <2> QED BY <2>1, <2>3
<1>2. /\ vals \in Seq(Nat) /\ Len(vals) = N + 1 /\ vals[N + 1] = L
      /\ \A i \in 1..N : ValuesIn(vals[i], vals[i + 1], Tokens[i])
  <2>1. (N + 1) - 1 = N
    BY <1>1
  <2> QED BY <2>1 DEF ValuesFrom
<1>3. ASSUME index < L
      PROVE j # N
  <2> HIDE DEF N, L
  <2> QED BY <1>1, <1>2, <1>3
<1>4. ASSUME j # N
      PROVE  /\ j + 1 \in 1..N /\ (j + 1) + 1 = j + 2 /\ vals[j + 2] \in Nat
             /\ ValuesIn(index, vals[j + 2], Tokens[j + 1])
  <2> HIDE DEF N, L
  <2>0. j \in 0..N
    BY DEF N
  <2>1. j + 1 \in 1..N /\ (j + 1) + 1 = j + 2 /\ j + 2 \in 1..N + 1
    BY ONLY <1>1, <1>4, <2>0
  <2>2. ValuesIn(vals[j + 1], vals[(j + 1) + 1], Tokens[j + 1])
    BY <2>1, <1>2
  <2>3. vals[j + 2] \in Nat
    BY <2>1, <1>2, ElementOf
  <2> QED BY <2>1, <2>2, <2>3
<1>5. ASSUME j # N PROVE Tokens[j + 1] \in Literal => AtLiteral(vals[j + 2], Tokens[j + 1])
  <2> SUFFICES ASSUME Tokens[j + 1] \in Literal PROVE AtLiteral(vals[j + 2], Tokens[j + 1])
    OBVIOUS
  <2>1. PICK b \in 0..255 : Tokens[j + 1] = <<b>>
    BY DEF Literal
  <2>2. vals[j + 2] = index + 1 /\ lz77_encoded[index + 1] = Tokens[j + 1][1]
    BY <1>4, <1>5 DEF ValuesIn
  <2>3. index + 1 + 0 = index + 1
    BY <1>1
  <2>4. Value(0) = b
    BY <2>1, <2>2, <2>3 DEF Value
  <2>5. ~IsLength(b)
    <3>1. \A x \in 0..255 : ~(x > 256)
      OBVIOUS
    <3> QED BY ONLY <3>1, b \in 0..255 DEF IsLength, EndSymbol
  <2>6. Tokens[j + 1][1] = b
    BY <2>1
  <2>7. ~IsLength(Value(0)) /\ Value(0) \in 0..255 /\ Tokens[j + 1] = <<Value(0)>> /\ Tokens[j + 1][1] = Value(0)
    BY <2>1, <2>4, <2>5, <2>6, Zenon
  <2>8. vals[j + 2] = index + 1
    BY <2>2
  <2> QED BY ONLY <2>7, <2>8 DEF AtLiteral
<1>6. ASSUME j # N PROVE Tokens[j + 1] \notin Literal => AtMatch(vals[j + 2], Tokens[j + 1])
  <2> SUFFICES ASSUME Tokens[j + 1] \notin Literal PROVE AtMatch(vals[j + 2], Tokens[j + 1])
    OBVIOUS
  <2>1. vals[j + 2] = index + 4 /\ CodesTell(FourAt(index), Tokens[j + 1])
    BY <1>4, <1>6 DEF ValuesIn
  <2>2. index + 1 + 0 = index + 1 /\ index + 1 + 1 = index + 2 /\ index + 1 + 2 = index + 3 /\ index + 1 + 3 = index + 4
    BY <1>1
  <2>3. FourAt(index) = <<Value(0), Value(1), Value(2), Value(3)>>
    BY <2>2 DEF Value, FourAt
  <2>4. FourAt(index)[1] = Value(0) /\ FourAt(index)[1] \in 257..285
    BY <2>1, <2>3 DEF CodesTell
  <2>5. IsLength(Value(0))
    <3>1. \A x \in 257..285 : x > 256
      OBVIOUS
    <3>2. Value(0) \in 257..285
      BY <2>4
    <3> QED BY ONLY <3>1, <3>2 DEF IsLength, EndSymbol
  <2> QED BY <2>1, <2>3, <2>5 DEF AtMatch
<1>7. index = L => j = N
  <2> SUFFICES ASSUME index = L, j # N PROVE FALSE
    OBVIOUS
  <2>1. vals[j + 2] \in Nat /\ vals[j + 2] <= L
    BY <1>4 DEF ValuesIn
  <2>2. vals[j + 2] = index + 1 \/ vals[j + 2] = index + 4
    BY <1>5, <1>6 DEF AtLiteral, AtMatch
  <2> HIDE DEF N, L
  <2> QED BY <2>1, <2>2, <1>1
<1> QED BY <1>3, <1>4, <1>5, <1>6, <1>7

\* The values that have been written stay when those of a token more come.
LEMMA ValuesStay ==
  ASSUME lz77_encoded \in Seq(Nat), NEW piece \in Seq(Nat), lz77_encoded' = lz77_encoded \o piece,
         NEW p \in Nat, NEW q, NEW t, ValuesIn(p, q, t)
  PROVE  ValuesIn(p, q, t)'
<1>1. PICK s \in Seq(Nat) : s = lz77_encoded
  OBVIOUS
<1>2. PICK L \in Nat, P \in Nat : L = Len(s) /\ P = Len(piece)
  OBVIOUS
<1>3. /\ Len(s \o piece) = L + P /\ \A i \in 1..L : (s \o piece)[i] = s[i]
  BY <1>2, Joined
<1>4. /\ Len(lz77_encoded') = L + P /\ \A i \in 1..L : lz77_encoded'[i] = lz77_encoded[i]
  BY <1>1, <1>3
<1>5. q <= L
  BY <1>1, <1>2 DEF ValuesIn
<1>6. CASE t \in Literal
  <2>1. q = p + 1 /\ lz77_encoded[p + 1] = t[1]
    BY <1>6 DEF ValuesIn
  <2>2. p + 1 \in 1..L /\ q <= L + P
    BY ONLY <2>1, <1>5, p \in Nat, L \in Nat, P \in Nat
  <2>3. lz77_encoded'[p + 1] = t[1]
    BY <2>1, <2>2, <1>4
  <2> QED BY <2>1, <2>2, <2>3, <1>4, <1>6 DEF ValuesIn
<1>7. CASE t \notin Literal
  <2>1. q = p + 4 /\ CodesTell(FourAt(p), t)
    BY <1>7 DEF ValuesIn
  <2>2. p + 1 \in 1..L /\ p + 2 \in 1..L /\ p + 3 \in 1..L /\ p + 4 \in 1..L /\ q <= L + P
    BY ONLY <2>1, <1>5, p \in Nat, L \in Nat, P \in Nat
  <2>3. /\ lz77_encoded'[p + 1] = lz77_encoded[p + 1] /\ lz77_encoded'[p + 2] = lz77_encoded[p + 2]
        /\ lz77_encoded'[p + 3] = lz77_encoded[p + 3] /\ lz77_encoded'[p + 4] = lz77_encoded[p + 4]
    BY <2>2, <1>4
  <2>4. FourAt(p)' = FourAt(p)
    BY <2>3 DEF FourAt
  <2> QED BY <2>1, <2>2, <2>4, <1>4, <1>7 DEF ValuesIn
<1> QED BY <1>6, <1>7

\* The values of a token.
LEMMA PieceIs ==
  ASSUME NEW t \in Token, NEW piece, piece = IF IsLiteral(t) THEN t ELSE LengthDistance(t[1], t[2])
  PROVE  /\ piece \in Seq(Nat)
         /\ t \in Literal => Len(piece) = 1 /\ piece[1] = t[1]
         /\ t \notin Literal => Len(piece) = 4 /\ CodesTell(piece, t)
<1>1. CASE t \in Literal
  <2>1. PICK b \in 0..255 : t = <<b>>
    BY <1>1 DEF Literal
  <2>2. piece = t
    BY <1>1 DEF IsLiteral
  <2>3. <<b>> \in Seq(Nat) /\ Len(<<b>>) = 1
    OBVIOUS
  <2> QED BY <2>1, <2>2, <2>3, <1>1, Zenon
<1>2. CASE t \notin Literal
  <2>1. piece = LengthDistance(t[1], t[2])
    BY <1>2 DEF IsLiteral
  <2>2. t \in Match
    BY <1>2 DEF Token
  <2>3. CodesTell(piece, t)
    BY <2>1, <2>2, MatchCodes
  <2>4. piece \in Seq(Nat) /\ Len(piece) = 4
    BY <2>3 DEF CodesTell
  <2> QED BY <2>3, <2>4, <1>2
<1> QED BY <1>1, <1>2

\* Each step of the writer keeps the invariant.
LEMMA EncodeTokenInv ==
  ASSUME NEW from, NEW marks, TokenIInvAt(from, marks), EncodeToken
  PROVE  TokenIInvAt(from, marks)'
<1>1. TokenTypeOK /\ BlocksAt(from) /\ Written(marks) /\ inflateError = 0
  BY DEF TokenIInvAt
<1>2. /\ tokenPc = "encode" /\ index < Len(Tokens) /\ index' = index + 1 /\ tokenPc' = tokenPc
      /\ blocks' = blocks /\ blockNo' = blockNo /\ stream' = stream /\ frequencies' = frequencies
      /\ bp' = bp /\ bfinal' = bfinal /\ outTokens' = outTokens /\ inflateError' = inflateError
  BY DEF EncodeToken
<1>3. NothingInflated /\ \E vals : \E j \in 0..Len(Tokens) : ValuesFrom(vals) /\ EncodesAt(from, marks[Len(marks)], vals, j)
  BY <1>2 DEF TokenIInvAt, Deflating, Inflating, CountsAt, WritesAt
<1>4. PICK vals : \E j \in 0..Len(Tokens) : ValuesFrom(vals) /\ EncodesAt(from, marks[Len(marks)], vals, j)
  BY <1>3
<1>5. PICK j \in 0..Len(Tokens) : ValuesFrom(vals) /\ EncodesAt(from, marks[Len(marks)], vals, j)
  BY <1>4
<1>6. PICK t : t = Tokens[index + 1]
  OBVIOUS
<1>7. PICK piece : piece = IF IsLiteral(t) THEN t ELSE LengthDistance(t[1], t[2])
  OBVIOUS
<1>8. lz77_encoded' = lz77_encoded \o piece
  BY <1>6, <1>7 DEF EncodeToken
<1>9. /\ j \in Nat /\ Len(vals) = j + 1 /\ index = j /\ vals[j + 1] = Len(lz77_encoded) /\ j < Len(Tokens)
      /\ j + 1 \in 1..Len(Tokens) /\ Len(Tokens) \in Nat
  <2>0. 1..Len(Tokens) # {}
    <3>1. Tokens \in Seq(Token)
      BY <1>1, BlockPlaces
    <3>2. index = j /\ j < Len(Tokens)
      BY <1>2, <1>5 DEF EncodesAt
    <3>3. Len(Tokens) \in Nat /\ j \in 0..Len(Tokens)
      BY <3>1
    <3>4. 1 \in 1..Len(Tokens)
      BY ONLY <3>2, <3>3
    <3> QED BY <3>4
  <2>1. Len(Tokens) \in Nat
    BY <1>1, <2>0, TokensAre
  <2>2. Len(vals) = j + 1 /\ index = j /\ vals[Len(vals)] = Len(lz77_encoded) /\ j < Len(Tokens)
    BY <1>2, <1>5 DEF EncodesAt, ValuesFrom
  <2> QED BY <2>1, <2>2
<1>10. t \in Token
  BY <1>1, <1>6, <1>9, TokensAre
<1>11. /\ piece \in Seq(Nat)
       /\ t \in Literal => Len(piece) = 1 /\ piece[1] = t[1]
       /\ t \notin Literal => Len(piece) = 4 /\ CodesTell(piece, t)
  BY <1>7, <1>10, PieceIs
<1>12. PICK L \in Nat, P \in Nat, s \in Seq(Nat) : s = lz77_encoded /\ L = Len(s) /\ P = Len(piece)
  BY <1>1, <1>11 DEF TokenTypeOK
<1>13. /\ lz77_encoded' \in Seq(Nat) /\ Len(lz77_encoded') = L + P
       /\ \A i \in 1..P : lz77_encoded'[L + i] = piece[i]
  <2>1. /\ s \o piece \in Seq(Nat) /\ Len(s \o piece) = L + P
        /\ \A i \in 1..P : (s \o piece)[L + i] = piece[i]
    BY <1>11, <1>12, Joined
  <2> QED BY <2>1, <1>8, <1>12
<1>14. PICK new : new = Append(vals, L + P)
  OBVIOUS
<1>15. /\ new \in Seq(Nat) /\ Len(new) = j + 2 /\ new[j + 2] = L + P /\ \A i \in 1..j + 1 : new[i] = vals[i]
  <2>1. vals \in Seq(Nat)
    BY <1>5 DEF ValuesFrom
  <2>2. (j + 1) + 1 = j + 2 /\ L + P \in Nat
    BY <1>9
  <2> QED BY ONLY <2>1, <2>2, <1>9, <1>14
<1>16. ASSUME NEW i \in 1..j PROVE ValuesIn(new[i], new[i + 1], Tokens[i])'
  <2>1. i \in 1..j + 1 /\ i + 1 \in 1..j + 1 /\ i \in 1..Len(vals) - 1 /\ i \in 1..Len(vals)
    BY <1>9
  <2>2. ValuesIn(vals[i], vals[i + 1], Tokens[i]) /\ vals \in Seq(Nat)
    BY <2>1, <1>5 DEF ValuesFrom
  <2>3. vals[i] \in Nat
    BY <2>1, <2>2, ElementOf
  <2>4. PICK p \in Nat : \E q, u : p = vals[i] /\ q = vals[i + 1] /\ u = Tokens[i]
    BY <2>3
  <2>8. PICK q, u : p = vals[i] /\ q = vals[i + 1] /\ u = Tokens[i]
    BY <2>4
  <2>5. ValuesIn(p, q, u)'
    BY <2>2, <2>8, <1>8, <1>11, <1>12, ValuesStay
  <2>6. u = Tokens[i]'
    BY <2>8, <1>2 DEF Tokens
  <2>7. new[i] = p /\ new[i + 1] = q
    BY <2>1, <2>8, <1>15
  <2> QED BY <2>5, <2>6, <2>7
<1>17. ValuesIn(new[j + 1], new[j + 2], Tokens[j + 1])'
  <2>1. new[j + 1] = L /\ new[j + 2] = L + P
    BY <1>9, <1>12, <1>15
  <2>2. t = Tokens[j + 1]'
    BY <1>2, <1>6, <1>9 DEF Tokens
  <2>3. CASE t \in Literal
    <3>1. P = 1 /\ lz77_encoded'[L + 1] = t[1]
      BY <2>3, <1>11, <1>12, <1>13
    <3>2. ValuesIn(L, L + P, t)'
      BY <3>1, <2>3, <1>13 DEF ValuesIn
    <3> QED BY <3>2, <2>1, <2>2
  <2>4. CASE t \notin Literal
    <3>1. P = 4 /\ CodesTell(piece, t)
      BY <2>4, <1>11, <1>12
    <3>2. FourAt(L)' = <<piece[1], piece[2], piece[3], piece[4]>>
      <4>1. 1 \in 1..P /\ 2 \in 1..P /\ 3 \in 1..P /\ 4 \in 1..P
        BY <3>1
      <4>2. /\ lz77_encoded'[L + 1] = piece[1] /\ lz77_encoded'[L + 2] = piece[2]
            /\ lz77_encoded'[L + 3] = piece[3] /\ lz77_encoded'[L + 4] = piece[4]
        BY <4>1, <1>13
      <4> QED BY <4>2 DEF FourAt
    <3>3. piece = <<piece[1], piece[2], piece[3], piece[4]>>
      BY ONLY <3>1, <1>11, <1>12
    <3>4. CodesTell(FourAt(L)', t)
      BY <3>1, <3>2, <3>3
    <3>5. ValuesIn(L, L + P, t)'
      BY <3>1, <3>4, <2>4, <1>13 DEF ValuesIn
    <3> QED BY <3>5, <2>1, <2>2
  <2> QED BY <2>3, <2>4
<1>18. ASSUME NEW i \in 1..Len(new) - 1 PROVE ValuesIn(new[i], new[i + 1], Tokens[i])'
  <2>1. i \in 1..j \/ i = j + 1
    BY <1>9, <1>15
  <2>2. CASE i = j + 1
    <3>1. i + 1 = j + 2
      BY <2>2, <1>9
    <3> QED BY <3>1, <2>2, <1>17
  <2> QED BY <2>1, <2>2, <1>16
<1>19. ValuesFrom(new)'
  <2>1. vals[1] = 0
    BY <1>5 DEF ValuesFrom
  <2>2. new[1] = 0 /\ Len(new) >= 1 /\ Len(new) <= Len(Tokens) + 1 /\ new[Len(new)] = L + P
    <3>1. 1 \in 1..j + 1
      BY <1>9
    <3>2. new[1] = 0
      BY <3>1, <2>1, <1>15
    <3> QED BY <3>2, <1>9, <1>15
  <2>3. Tokens' = Tokens
    BY <1>2 DEF Tokens
  <2> QED BY <2>2, <2>3, <1>13, <1>15, <1>18 DEF ValuesFrom
<1>20. TokenTypeOK' /\ NothingInflated'
  <2>1. index' \in Nat
    BY <1>2, <1>9
  <2> QED BY <2>1, <1>1, <1>2, <1>3, <1>13 DEF TokenTypeOK, NothingInflated
<1>21. EncodesAt(from, marks[Len(marks)], new, j + 1)'
  <2>1. index' = j + 1 /\ Len(new) = (j + 1) + 1
    BY <1>2, <1>9, <1>15
  <2> QED BY <2>1, <1>2, <1>5 DEF EncodesAt
<1>22. Deflating(from, marks)'
  <2>1. j + 1 \in 0..Len(Tokens')
    <3>1. Tokens' = Tokens
      BY <1>2 DEF Tokens
    <3> QED BY <3>1, <1>9
  <2> QED BY <2>1, <1>19, <1>20, <1>21 DEF Deflating
<1>23. BlocksAt(from)' /\ Written(marks)'
  BY <1>1, <1>2, StreamStays
<1> QED BY <1>1, <1>2, <1>20, <1>22, <1>23 DEF TokenIInvAt

\* Nothing that is told of the values changes but with them.
LEMMA ValuesFromStays ==
  ASSUME NEW vals, ValuesFrom(vals), lz77_encoded' = lz77_encoded, blocks' = blocks, blockNo' = blockNo
  PROVE  ValuesFrom(vals)' /\ Tokens' = Tokens
<1>1. Tokens' = Tokens
  BY DEF Tokens
<1>2. ASSUME NEW i \in 1..Len(vals) - 1 PROVE ValuesIn(vals[i], vals[i + 1], Tokens[i])'
  <2>1. ValuesIn(vals[i], vals[i + 1], Tokens[i])
    BY DEF ValuesFrom
  <2> QED BY <2>1, <1>1 DEF ValuesIn, FourAt
<1> QED BY <1>1, <1>2 DEF ValuesFrom

LEMMA EncodeDoneInv ==
  ASSUME NEW from, NEW marks, TokenIInvAt(from, marks), EncodeDone
  PROVE  TokenIInvAt(from, marks)'
<1>1. TokenTypeOK /\ BlocksAt(from) /\ Written(marks) /\ inflateError = 0
  BY DEF TokenIInvAt
<1>2. /\ tokenPc = "encode" /\ index = Len(Tokens) /\ index' = 0 /\ tokenPc' = "count"
      /\ blocks' = blocks /\ blockNo' = blockNo /\ stream' = stream /\ lz77_encoded' = lz77_encoded
      /\ bp' = bp /\ bfinal' = bfinal /\ outTokens' = outTokens /\ inflateError' = inflateError
  BY DEF EncodeDone
<1>3. NothingInflated /\ \E vals : \E j \in 0..Len(Tokens) : ValuesFrom(vals) /\ EncodesAt(from, marks[Len(marks)], vals, j)
  BY <1>2 DEF TokenIInvAt, Deflating, Inflating, CountsAt, WritesAt
<1>4. PICK vals : \E j \in 0..Len(Tokens) : ValuesFrom(vals) /\ EncodesAt(from, marks[Len(marks)], vals, j)
  BY <1>3
<1>5. PICK j \in 0..Len(Tokens) : ValuesFrom(vals) /\ EncodesAt(from, marks[Len(marks)], vals, j)
  BY <1>4
<1>6. ValuesFrom(vals)' /\ Tokens' = Tokens
  BY <1>2, <1>5, ValuesFromStays
<1>7. Len(vals) = Len(Tokens) + 1 /\ vals[1] = 0
  BY <1>2, <1>5 DEF EncodesAt, ValuesFrom
<1>8. CountsAt(from, marks[Len(marks)], vals, 0)'
  <2>1. 0 + 1 = 1 /\ \A i \in 1..0 : FALSE
    OBVIOUS
  <2> QED BY <2>1, <1>2, <1>5, <1>6, <1>7 DEF CountsAt, EncodesAt
<1>9. NothingInflated' /\ TokenTypeOK'
  BY <1>1, <1>2, <1>3 DEF NothingInflated, TokenTypeOK
<1>10. 0 \in 0..Len(Tokens')
  <2>1. Len(Tokens) \in Nat
    BY <1>1, <1>2 DEF TokenTypeOK
  <2> QED BY <2>1, <1>6
<1>11. Deflating(from, marks)'
  BY <1>6, <1>8, <1>9, <1>10 DEF Deflating
<1>12. BlocksAt(from)' /\ Written(marks)'
  BY <1>1, <1>2, StreamStays
<1> QED BY <1>1, <1>2, <1>9, <1>11, <1>12 DEF TokenIInvAt

LEMMA CountSymbolInv ==
  ASSUME NEW from, NEW marks, TokenIInvAt(from, marks), CountSymbol
  PROVE  TokenIInvAt(from, marks)'
<1>1. TokenTypeOK /\ BlocksAt(from) /\ Written(marks) /\ inflateError = 0
  BY DEF TokenIInvAt
<1>2. /\ tokenPc = "count" /\ index < Len(lz77_encoded) /\ tokenPc' = tokenPc
      /\ index' = index + IF IsLength(Value(0)) THEN 4 ELSE 1
      /\ blocks' = blocks /\ blockNo' = blockNo /\ stream' = stream /\ lz77_encoded' = lz77_encoded
      /\ bp' = bp /\ bfinal' = bfinal /\ outTokens' = outTokens /\ inflateError' = inflateError
  BY DEF CountSymbol
<1>3. NothingInflated /\ \E vals : \E j \in 0..Len(Tokens) : ValuesFrom(vals) /\ CountsAt(from, marks[Len(marks)], vals, j)
  BY <1>2 DEF TokenIInvAt, Deflating, Inflating, EncodesAt, WritesAt
<1>4. PICK vals : \E j \in 0..Len(Tokens) : ValuesFrom(vals) /\ CountsAt(from, marks[Len(marks)], vals, j)
  BY <1>3
<1>5. PICK j \in 0..Len(Tokens) : ValuesFrom(vals) /\ CountsAt(from, marks[Len(marks)], vals, j)
  BY <1>4
<1>6. ValuesFrom(vals)' /\ Tokens' = Tokens
  BY <1>2, <1>5, ValuesFromStays
<1>7. index = vals[j + 1] /\ Len(vals) = Len(Tokens) + 1
  BY <1>5 DEF CountsAt
<1>8. /\ j + 1 \in 1..Len(Tokens) /\ vals[j + 2] \in Nat
      /\ Tokens[j + 1] \in Literal => AtLiteral(vals[j + 2], Tokens[j + 1])
      /\ Tokens[j + 1] \notin Literal => AtMatch(vals[j + 2], Tokens[j + 1])
  BY <1>1, <1>2, <1>5, <1>7, AtValue
<1>9. index' = vals[j + 2] /\ index' \in Nat
  BY <1>2, <1>8 DEF AtLiteral, AtMatch
<1>10. CountedAt(vals[j + 1])'
  <2>1. index + 1 + 0 = index + 1 /\ index + 1 + 2 = index + 3
    BY <1>1 DEF TokenTypeOK
  <2>2. Value(0) = lz77_encoded[index + 1] /\ Value(2) = lz77_encoded[index + 3]
    BY <2>1 DEF Value
  <2>3. <<"ll", Value(0)>> \in frequencies' /\ (IsLength(Value(0)) => <<"d", Value(2)>> \in frequencies')
    BY DEF CountSymbol
  <2> QED BY <2>2, <2>3, <1>2, <1>7 DEF CountedAt, IsLength, EndSymbol
<1>11. ASSUME NEW i \in 1..j PROVE CountedAt(vals[i])'
  <2>1. CountedAt(vals[i])
    BY <1>5 DEF CountsAt
  <2>2. frequencies \subseteq frequencies'
    BY DEF CountSymbol
  <2> QED BY <2>1, <2>2, <1>2 DEF CountedAt, IsLength, EndSymbol
<1>12. j \in Nat /\ j + 1 \in 0..Len(Tokens) /\ (j + 1) + 1 = j + 2
  BY <1>8
<1>13. \A i \in 1..j + 1 : CountedAt(vals[i])'
  <2> SUFFICES ASSUME NEW i \in 1..j + 1 PROVE CountedAt(vals[i])'
    OBVIOUS
  <2>1. i \in 1..j \/ i = j + 1
    BY <1>12
  <2> QED BY <2>1, <1>10, <1>11
<1>14. CountsAt(from, marks[Len(marks)], vals, j + 1)'
  BY <1>2, <1>5, <1>6, <1>9, <1>12, <1>13 DEF CountsAt
<1>15. NothingInflated' /\ TokenTypeOK'
  BY <1>1, <1>2, <1>3, <1>9 DEF NothingInflated, TokenTypeOK
<1>16. Deflating(from, marks)'
  BY <1>6, <1>12, <1>14, <1>15 DEF Deflating
<1>17. BlocksAt(from)' /\ Written(marks)'
  BY <1>1, <1>2, StreamStays
<1> QED BY <1>1, <1>2, <1>15, <1>16, <1>17 DEF TokenIInvAt

\* Where the blocks begin stays what it is.
LEMMA BlocksStay ==
  ASSUME NEW from, BlocksAt(from), blocks' = blocks
  PROVE  BlocksAt(from)'
<1>1. AllTokens' = AllTokens
  BY DEF AllTokens
<1> QED BY <1>1 DEF BlocksAt

LEMMA WriteBlockHeadInv ==
  ASSUME NEW from, NEW marks, TokenIInvAt(from, marks), WriteBlockHead
  PROVE  TokenIInv'
<1>1. TokenTypeOK /\ BlocksAt(from) /\ Written(marks) /\ inflateError = 0
  BY DEF TokenIInvAt
<1>2. /\ tokenPc = "count" /\ index = Len(lz77_encoded) /\ tokenPc' = "write" /\ index' = 0
      /\ blocks' = blocks /\ blockNo' = blockNo /\ lz77_encoded' = lz77_encoded /\ frequencies' = frequencies
      /\ bp' = bp /\ bfinal' = bfinal /\ outTokens' = outTokens /\ inflateError' = inflateError
  BY DEF WriteBlockHead
<1>3. NothingInflated /\ \E vals : \E j \in 0..Len(Tokens) : ValuesFrom(vals) /\ CountsAt(from, marks[Len(marks)], vals, j)
  BY <1>2 DEF TokenIInvAt, Deflating, Inflating, EncodesAt, WritesAt
<1>4. PICK vals : \E j \in 0..Len(Tokens) : ValuesFrom(vals) /\ CountsAt(from, marks[Len(marks)], vals, j)
  BY <1>3
<1>5. PICK j \in 0..Len(Tokens) : ValuesFrom(vals) /\ CountsAt(from, marks[Len(marks)], vals, j)
  BY <1>4
<1>6. ValuesFrom(vals)' /\ Tokens' = Tokens
  BY <1>2, <1>5, ValuesFromStays
<1>7. index = vals[j + 1] /\ Len(vals) = Len(Tokens) + 1
  BY <1>5 DEF CountsAt
<1>8. j = Len(Tokens) /\ vals[1] = 0
  BY <1>1, <1>2, <1>5, <1>7, AtValue DEF ValuesFrom
<1>9. \A i \in 1..Len(Tokens) : CountedAt(vals[i])
  BY <1>5, <1>8 DEF CountsAt
<1>10. PICK piece : piece = <<Bit(BitFinal), Bit(0), Bit(1)>>
  OBVIOUS
<1>11. More(piece) /\ Len(piece) = 3 /\ piece[1] = Bit(BitFinal) /\ piece[2] = Bit(0) /\ piece[3] = Bit(1)
  <2>1. Bit(BitFinal) \in StreamItem /\ Bit(0) \in StreamItem /\ Bit(1) \in StreamItem
    BY DEF BitFinal, Bit, StreamItem
  <2>2. piece \in Seq(StreamItem)
    BY <2>1, <1>10
  <2>3. stream' = stream \o piece
    BY <1>10 DEF WriteBlockHead
  <2> QED BY <2>2, <2>3, <1>2, <1>10 DEF More
<1>12. PICK last \in Mark : last = marks[Len(marks)]
  <2>1. Len(marks) \in 1..Len(marks) /\ marks \in Seq(Mark)
    BY <1>1 DEF Written
  <2> QED BY <2>1, ElementOf
<1>13. last.kind = "end" /\ last.no = blockNo - 1 /\ last.got = from[blockNo - 1] /\ last.at = Len(stream)
  BY <1>1, <1>5, <1>12 DEF CountsAt, Written
<1>14. PICK b : b = [at |-> Len(stream) + 3, got |-> last.got, no |-> blockNo, kind |-> "head"]
  OBVIOUS
<1>15. blockNo \in Nat /\ blockNo - 1 + 1 = blockNo /\ blockNo <= Len(blocks)
  BY <1>1 DEF TokenTypeOK
<1>16. Len(stream) \in Nat /\ stream \in Seq(StreamItem)
  BY <1>1 DEF TokenTypeOK
<1>17. b \in Mark /\ b.kind = "head" /\ b.at = Len(stream) + Len(piece) /\ b.got = last.got /\ b.no = blockNo
  <2>1. last.got \in Nat /\ Len(stream) + 3 \in Nat
    BY <1>16 DEF Mark
  <2> QED BY <2>1, <1>11, <1>14, <1>15 DEF Mark
<1>18. b.got <= Len(AllTokens) /\ b.no <= Len(blocks)
  <2>1. Len(marks) \in 1..Len(marks)
    BY <1>1 DEF Written
  <2>2. last.got <= Len(AllTokens)
    BY <2>1, <1>1, <1>12 DEF Written
  <2> QED BY <2>2, <1>15, <1>17
<1>19. Between(last, b)'
  <2>1. \A i \in 1..3 : stream'[Len(stream) + i] = piece[i]
    BY <1>11, <1>16, MoreIs
  <2>2. 1 \in 1..3 /\ 2 \in 1..3 /\ 3 \in 1..3
    OBVIOUS
  <2>3. stream'[last.at + 1] = Bit(BitFinal) /\ stream'[last.at + 2] = Bit(0) /\ stream'[last.at + 3] = Bit(1)
    BY <2>1, <2>2, <1>11, <1>13
  <2>4. b.no = last.no + 1 /\ b.at = last.at + 3
    BY <1>11, <1>13, <1>15, <1>17
  <2> QED BY <2>3, <2>4, <1>2, <1>13, <1>17 DEF Between, HeadBetween, BitFinal, Bit
<1>20. PICK new : new = Append(marks, b)
  OBVIOUS
<1>21. Written(new)' /\ Len(new) = Len(marks) + 1 /\ new[Len(marks) + 1] = b
  BY <1>1, <1>11, <1>12, <1>16, <1>17, <1>18, <1>19, <1>20, WrittenOn
<1>22. new[Len(new)] = b
  BY <1>21
<1>23. WritesAt(from, b, vals, 0)'
  <2>1. from[blockNo - 1] \in Nat
    BY <1>1, BlockPlaces
  <2>2. b.got = from[blockNo - 1] + 0
    BY <2>1, <1>13, <1>17
  <2>3. \A i \in 1..Len(Tokens) : CountedAt(vals[i])'
    BY <1>2, <1>9 DEF CountedAt, IsLength, EndSymbol
  <2>4. index' = vals[0 + 1] /\ Len(vals) = Len(Tokens') + 1
    BY <1>2, <1>6, <1>7, <1>8
  <2> QED BY <2>2, <2>3, <2>4, <1>2, <1>6, <1>17 DEF WritesAt
<1>24. 0 \in 0..Len(Tokens')
  <2>1. Len(Tokens) \in Nat
    BY <1>1, BlockPlaces
  <2> QED BY <2>1, <1>6
<1>25. stream' \in Seq(StreamItem)
  BY <1>11, <1>16, MoreIs
<1>26. NothingInflated' /\ TokenTypeOK'
  BY <1>1, <1>2, <1>3, <1>25 DEF NothingInflated, TokenTypeOK
<1>27. Deflating(from, new)'
  BY <1>6, <1>22, <1>23, <1>24, <1>26 DEF Deflating
<1>28. BlocksAt(from)'
  BY <1>1, <1>2, BlocksStay
<1>29. TokenIInvAt(from, new)'
  BY <1>1, <1>2, <1>21, <1>26, <1>27, <1>28 DEF TokenIInvAt
<1> QED BY <1>29 DEF TokenIInv

\* A symbol and what comes behind it.
LEMMA AppendMore ==
  ASSUME NEW S, NEW s \in Seq(S), NEW x \in S, NEW r \in Seq(S)
  PROVE  /\ <<x>> \o r \in Seq(S) /\ Len(<<x>> \o r) = 1 + Len(r) /\ (<<x>> \o r)[1] = x
         /\ \A i \in 1..Len(r) : (<<x>> \o r)[1 + i] = r[i]
         /\ Append(s, x) \o r = s \o (<<x>> \o r)
OBVIOUS

LEMMA PowersPositive == \A x \in 0..13 : 2^x > 0
<1> DEFINE P(x) == 2^x > 0
<1>1. P(0) /\ P(1) /\ P(2) /\ P(3) /\ P(4) /\ P(5) /\ P(6) /\ P(7) /\ P(8) /\ P(9) /\ P(10) /\ P(11) /\ P(12) /\ P(13)
  OBVIOUS
<1> HIDE DEF P
<1>2. \A x \in 0..13 : P(x)
  BY <1>1
<1> QED BY <1>2 DEF P

\* The bits of a field.
LEMMA BitsAre ==
  ASSUME NEW v \in Nat, NEW n \in 0..13
  PROVE  /\ Bits(v, n) \in Seq(StreamItem) /\ Len(Bits(v, n)) = n
         /\ \A i \in 1..n : Bits(v, n)[i] = Bit((v \div 2^(i - 1)) % 2)
<1>1. ASSUME NEW i \in 1..n PROVE Bit((v \div 2^(i - 1)) % 2) \in StreamItem
  <2>1. i - 1 \in 0..13
    OBVIOUS
  <2>2. PICK x \in 0..13 : x = i - 1
    BY <2>1
  <2>3. 2^x \in Nat
    BY SmallPowers
  <2>4. (v \div 2^x) % 2 \in Nat
    <3>1. 2^x > 0
      BY PowersPositive
    <3>2. PICK y \in Nat : y = 2^x /\ y > 0
      BY <2>3, <3>1
    <3>3. v \div y \in Nat
      BY <3>2
    <3>4. (v \div y) % 2 \in Nat
      BY <3>3
    <3> QED BY <3>2, <3>4
  <2> QED BY <2>2, <2>4 DEF Bit, StreamItem
<1>2. Bits(v, n) = [i \in 1..n |-> Bit((v \div 2^(i - 1)) % 2)]
  BY DEF Bits
<1>3. Bits(v, n) \in [1..n -> StreamItem]
  BY <1>1, <1>2
<1>4. n \in Nat
  OBVIOUS
<1>5. Bits(v, n) \in Seq(StreamItem) /\ Len(Bits(v, n)) = n
  <2>1. PICK f \in [1..n -> StreamItem] : f = Bits(v, n)
    BY <1>3
  <2>2. f \in Seq(StreamItem) /\ Len(f) = n
    BY ONLY <1>4, f \in [1..n -> StreamItem]
  <2> QED BY <2>1, <2>2
<1>6. \A i \in 1..n : Bits(v, n)[i] = Bit((v \div 2^(i - 1)) % 2)
  BY <1>2
<1> QED BY <1>5, <1>6

\* What writeLZ77data puts out for a match.
PieceTells(piece, v, l, d) ==
  /\ piece \in Seq(StreamItem) /\ Len(piece) = 2 + l + d
  /\ piece[1] = <<"ll", v[1]>> /\ \A i \in 1..l : piece[1 + i] = Bit((v[2] \div 2^(i - 1)) % 2)
  /\ piece[2 + l] = <<"d", v[3]>> /\ \A i \in 1..d : piece[2 + l + i] = Bit((v[4] \div 2^(i - 1)) % 2)

LEMMA MatchPiece ==
  ASSUME NEW v, NEW t, CodesTell(v, t), stream \in Seq(StreamItem), NEW l \in 0..13, NEW d \in 0..13
  PROVE  LET rest == Bits(v[2], l) \o <<<<"d", v[3]>>>> \o Bits(v[4], d)
         IN  /\ PieceTells(<<<<"ll", v[1]>>>> \o rest, v, l, d)
             /\ Append(stream, <<"ll", v[1]>>) \o rest = stream \o (<<<<"ll", v[1]>>>> \o rest)
<1>1. v[1] \in Nat /\ v[2] \in Nat /\ v[3] \in Nat /\ v[4] \in Nat
  <2>1. v[1] \in Nat /\ v[3] \in Nat
    <3>1. v[1] \in 257..285 /\ v[3] \in 0..29
      BY DEF CodesTell
    <3> QED BY ONLY <3>1
  <2> QED BY <2>1, ExtraBits
<1>2. PICK x \in StreamItem, y \in StreamItem : x = <<"ll", v[1]>> /\ y = <<"d", v[3]>>
  BY <1>1 DEF StreamItem
<1>3. PICK A : A = Bits(v[2], l)
  OBVIOUS
<1>4. PICK B : B = Bits(v[4], d)
  OBVIOUS
<1>5. A \in Seq(StreamItem) /\ Len(A) = l /\ \A i \in 1..l : A[i] = Bit((v[2] \div 2^(i - 1)) % 2)
  BY <1>1, <1>3, BitsAre
<1>6. B \in Seq(StreamItem) /\ Len(B) = d /\ \A i \in 1..d : B[i] = Bit((v[4] \div 2^(i - 1)) % 2)
  BY <1>1, <1>4, BitsAre
<1>7. PICK Y : Y = <<y>>
  OBVIOUS
<1>8. Y \in Seq(StreamItem) /\ Len(Y) = 1 /\ Y[1] = y
  BY <1>7
<1>9. PICK C : C = A \o Y
  OBVIOUS
<1>10. /\ C \in Seq(StreamItem) /\ Len(C) = l + 1 /\ \A i \in 1..l : C[i] = A[i]
       /\ C[l + 1] = y
  <2>1. /\ A \o Y \in Seq(StreamItem) /\ Len(A \o Y) = Len(A) + Len(Y)
        /\ \A i \in 1..Len(A) : (A \o Y)[i] = A[i]
        /\ \A i \in 1..Len(Y) : (A \o Y)[Len(A) + i] = Y[i]
    <3>1. A \in Seq(StreamItem) /\ Y \in Seq(StreamItem)
      BY <1>5, <1>8
    <3> QED BY ONLY <3>1, Joined
  <2>2. 1 \in 1..1
    OBVIOUS
  <2> QED BY <2>1, <2>2, <1>5, <1>8, <1>9
<1>11. PICK R : R = C \o B
  OBVIOUS
<1>12. /\ R \in Seq(StreamItem) /\ Len(R) = l + 1 + d /\ \A i \in 1..l + 1 : R[i] = C[i]
       /\ \A i \in 1..d : R[l + 1 + i] = B[i]
  <2>1. /\ C \o B \in Seq(StreamItem) /\ Len(C \o B) = Len(C) + Len(B)
        /\ \A i \in 1..Len(C) : (C \o B)[i] = C[i]
        /\ \A i \in 1..Len(B) : (C \o B)[Len(C) + i] = B[i]
    <3>1. C \in Seq(StreamItem) /\ B \in Seq(StreamItem)
      BY <1>6, <1>10
    <3> QED BY ONLY <3>1, Joined
  <2> QED BY <2>1, <1>6, <1>10, <1>11
<1>13. PICK Q : Q = <<x>> \o R
  OBVIOUS
<1>14. /\ Q \in Seq(StreamItem) /\ Len(Q) = 1 + Len(R) /\ Q[1] = x /\ \A i \in 1..Len(R) : Q[1 + i] = R[i]
       /\ Append(stream, x) \o R = stream \o Q
  <2>1. x \in StreamItem /\ R \in Seq(StreamItem)
    BY <1>12
  <2>2. /\ <<x>> \o R \in Seq(StreamItem) /\ Len(<<x>> \o R) = 1 + Len(R) /\ (<<x>> \o R)[1] = x
        /\ \A i \in 1..Len(R) : (<<x>> \o R)[1 + i] = R[i]
        /\ Append(stream, x) \o R = stream \o (<<x>> \o R)
    <3>1. stream \in Seq(StreamItem)
      OBVIOUS
    <3> QED BY ONLY <2>1, <3>1, AppendMore
  <2> QED BY ONLY <2>2, <1>13, Zenon
<1>15. \A i \in 1..l : Q[1 + i] = A[i]
  <2>1. \A i \in 1..l : i \in 1..l + 1 /\ i \in 1..Len(R)
    BY <1>12
  <2> QED BY <2>1, <1>10, <1>12, <1>14
<1>16. Q[2 + l] = y
  <2>1. l + 1 \in 1..l + 1 /\ l + 1 \in 1..Len(R) /\ 1 + (l + 1) = 2 + l
    BY <1>12
  <2> QED BY <2>1, <1>10, <1>12, <1>14
<1>17. \A i \in 1..d : Q[2 + l + i] = B[i]
  <2>1. \A i \in 1..d : l + 1 + i \in 1..Len(R) /\ 1 + (l + 1 + i) = 2 + l + i
    BY <1>12
  <2> QED BY <2>1, <1>12, <1>14
<1>18. Len(Q) = 2 + l + d
  <2>1. 1 + (l + 1 + d) = 2 + l + d
    OBVIOUS
  <2> QED BY <2>1, <1>12, <1>14
<1>19. PieceTells(Q, v, l, d)
  BY <1>2, <1>5, <1>6, <1>14, <1>15, <1>16, <1>17, <1>18 DEF PieceTells
<1>20. R = Bits(v[2], l) \o <<<<"d", v[3]>>>> \o Bits(v[4], d) /\ Q = <<<<"ll", v[1]>>>> \o R
  BY <1>2, <1>3, <1>4, <1>7, <1>9, <1>11, <1>13
<1> QED BY <1>2, <1>14, <1>19, <1>20

\* One symbol with its bits: what the stream gets, and that it tells the token.
WritesToken(piece, t) ==
  /\ t \in Literal => Len(piece) = 1 /\ piece[1] = <<"ll", t[1]>>
  /\ t \notin Literal => \E v : \E l \in 0..13, d \in 0..13 :
       /\ CodesTell(v, t) /\ PieceTells(piece, v, l, d)
       /\ l = LENGTHEXTRA[v[1] - 256] /\ d = DISTANCEEXTRA[v[3] + 1]

LEMMA SymbolWritten ==
  ASSUME TokenTypeOK, WriteSymbol, NEW t, NEW q,
         t \in Literal => AtLiteral(q, t), t \notin Literal => AtMatch(q, t)
  PROVE  /\ \E piece : More(piece) /\ WritesToken(piece, t)
         /\ index' = q
<1>1. stream \in Seq(StreamItem) /\ index \in Nat
  BY DEF TokenTypeOK
<1>2. blocks' = blocks /\ index' = index + IF IsLength(Value(0)) THEN 4 ELSE 1
  BY DEF WriteSymbol
<1>3. CASE t \in Literal
  <2>1. q = index + 1 /\ t[1] = Value(0) /\ Value(0) \in 0..255 /\ ~IsLength(Value(0))
    BY <1>3 DEF AtLiteral
  <2>2. PICK x \in StreamItem : x = <<"ll", Value(0)>>
    <3>1. PICK c \in 0..255 : c = Value(0)
      BY <2>1
    <3>2. <<"ll", c>> \in StreamItem
      BY DEF StreamItem
    <3> QED BY <3>1, <3>2
  <2>3. stream' = Append(stream, x) \o <<>>
    BY <2>1, <2>2 DEF WriteSymbol
  <2>4. Append(stream, x) \o <<>> = stream \o <<x>> /\ <<x>> \in Seq(StreamItem) /\ Len(<<x>>) = 1 /\ <<x>>[1] = x
    BY <1>1
  <2>5. PICK piece : piece = <<x>>
    OBVIOUS
  <2>6. More(piece)
    BY <2>3, <2>4, <2>5, <1>2 DEF More
  <2>7. WritesToken(piece, t)
    BY <2>1, <2>2, <2>4, <2>5, <1>3 DEF WritesToken
  <2> QED BY <2>1, <2>6, <2>7, <1>2
<1>4. CASE t \notin Literal
  <2>1. /\ q = index + 4 /\ IsLength(Value(0)) /\ CodesTell(FourAt(index), t)
        /\ FourAt(index) = <<Value(0), Value(1), Value(2), Value(3)>>
    BY <1>4 DEF AtMatch
  <2>2. PICK v : v = FourAt(index)
    OBVIOUS
  <2>3. v[1] = Value(0) /\ v[2] = Value(1) /\ v[3] = Value(2) /\ v[4] = Value(3)
    BY <2>1, <2>2
  <2>4. CodesTell(v, t)
    BY <2>1, <2>2
  <2>5. PICK l \in 0..13, d \in 0..13 : l = LENGTHEXTRA[v[1] - 256] /\ d = DISTANCEEXTRA[v[3] + 1]
    BY <2>4, ExtraBits
  <2>6. v[1] - FirstLengthCode + 1 = v[1] - 256
    <3>1. v[1] \in 257..285
      BY <2>4 DEF CodesTell
    <3> QED BY ONLY <3>1 DEF FirstLengthCode
  <2>7. PICK rest : rest = Bits(v[2], l) \o <<<<"d", v[3]>>>> \o Bits(v[4], d)
    OBVIOUS
  <2>8. stream' = Append(stream, <<"ll", v[1]>>) \o rest
    BY <2>1, <2>3, <2>5, <2>6, <2>7 DEF WriteSymbol
  <2>9. PICK piece : piece = <<<<"ll", v[1]>>>> \o rest
    OBVIOUS
  <2>10. PieceTells(piece, v, l, d) /\ stream' = stream \o piece
    BY <1>1, <2>4, <2>7, <2>8, <2>9, MatchPiece
  <2>11. More(piece)
    BY <2>10, <1>2 DEF More, PieceTells
  <2>12. WritesToken(piece, t)
    BY <2>4, <2>5, <2>10, <1>4 DEF WritesToken
  <2> QED BY <2>1, <2>11, <2>12, <1>2
<1> QED BY <1>3, <1>4

\* The mark behind a token.
LEMMA TokenMarked ==
  ASSUME NEW a \in Mark, NEW b \in Mark, NEW piece, stream \in Seq(StreamItem), More(piece), a.kind # "end", a.at = Len(stream),
         b.kind = "token", b.at = a.at + Len(piece), b.got = a.got + 1, b.no = a.no,
         WritesToken(piece, AllTokens[b.got])
  PROVE  Between(a, b)'
<1> DEFINE t == AllTokens[b.got]
<1>1. /\ AllTokens' = AllTokens /\ Len(stream) \in Nat
      /\ \A i \in 1..Len(piece) : stream'[Len(stream) + i] = piece[i]
  BY MoreIs
<1>2. PICK p \in Nat : p = a.at /\ p = Len(stream)
  BY <1>1
<1>3. \A i \in 1..Len(piece) : stream'[p + i] = piece[i]
  BY <1>1, <1>2
<1>4. CASE t \in Literal
  <2>1. Len(piece) = 1 /\ piece[1] = <<"ll", t[1]>>
    BY <1>4 DEF WritesToken
  <2>2. stream'[p + 1] = <<"ll", t[1]>> /\ b.at = p + 1
    <3>1. 1 \in 1..Len(piece)
      BY <2>1
    <3> QED BY <3>1, <2>1, <1>2, <1>3
  <2>3. TokenBetween(a, b)'
    BY <2>2, <1>1, <1>2, <1>4 DEF TokenBetween
  <2> QED BY <2>3 DEF Between
<1>5. CASE t \notin Literal
  <2>1. PICK v : \E l \in 0..13, d \in 0..13 :
          /\ CodesTell(v, t) /\ PieceTells(piece, v, l, d)
          /\ l = LENGTHEXTRA[v[1] - 256] /\ d = DISTANCEEXTRA[v[3] + 1]
    BY <1>5 DEF WritesToken
  <2>2. PICK l \in 0..13, d \in 0..13 :
          /\ CodesTell(v, t) /\ PieceTells(piece, v, l, d)
          /\ l = LENGTHEXTRA[v[1] - 256] /\ d = DISTANCEEXTRA[v[3] + 1]
    BY <2>1
  <2>3. /\ Len(piece) = 2 + l + d
        /\ piece[1] = <<"ll", v[1]>> /\ \A i \in 1..l : piece[1 + i] = Bit((v[2] \div 2^(i - 1)) % 2)
        /\ piece[2 + l] = <<"d", v[3]>> /\ \A i \in 1..d : piece[2 + l + i] = Bit((v[4] \div 2^(i - 1)) % 2)
    BY <2>2 DEF PieceTells
  <2>4. /\ 1 \in 1..Len(piece) /\ 2 + l \in 1..Len(piece)
        /\ \A i \in 1..l : 1 + i \in 1..Len(piece)
        /\ \A i \in 1..d : 2 + l + i \in 1..Len(piece)
    <3>1. Len(piece) = 2 + l + d
      BY <2>3
    <3> QED BY ONLY <3>1, l \in 0..13, d \in 0..13
  <2>5. p + (2 + l) = p + 2 + l /\ \A i \in Nat : p + (1 + i) = p + 1 + i /\ p + (2 + l + i) = p + 2 + l + i
    OBVIOUS
  <2>6. stream'[p + 1] = <<"ll", v[1]>> /\ stream'[p + 2 + l] = <<"d", v[3]>>
    BY <2>3, <2>4, <2>5, <1>3
  <2>7. \A i \in 1..l : stream'[p + 1 + i] = Bit((v[2] \div 2^(i - 1)) % 2)
    <3> SUFFICES ASSUME NEW i \in 1..l PROVE stream'[p + 1 + i] = Bit((v[2] \div 2^(i - 1)) % 2)
      OBVIOUS
    <3>1. stream'[p + (1 + i)] = piece[1 + i] /\ i \in Nat
      <4>1. 1 + i \in 1..Len(piece)
        BY <2>4
      <4> QED BY <4>1, <1>3
    <3>2. p + (1 + i) = p + 1 + i
      BY <3>1
    <3>3. piece[1 + i] = Bit((v[2] \div 2^(i - 1)) % 2)
      BY <2>3
    <3> QED BY ONLY <3>1, <3>2, <3>3, Zenon
  <2>8. \A i \in 1..d : stream'[p + 2 + l + i] = Bit((v[4] \div 2^(i - 1)) % 2)
    <3> SUFFICES ASSUME NEW i \in 1..d PROVE stream'[p + 2 + l + i] = Bit((v[4] \div 2^(i - 1)) % 2)
      OBVIOUS
    <3>1. stream'[p + (2 + l + i)] = piece[2 + l + i] /\ i \in Nat
      <4>1. 2 + l + i \in 1..Len(piece)
        BY <2>4
      <4> QED BY <4>1, <1>3
    <3>2. p + (2 + l + i) = p + 2 + l + i
      BY <3>1
    <3>3. piece[2 + l + i] = Bit((v[4] \div 2^(i - 1)) % 2)
      BY <2>3
    <3> QED BY ONLY <3>1, <3>2, <3>3, Zenon
  <2>9. b.at = p + 2 + l + d
    <3>1. b.at = p + Len(piece) /\ Len(piece) = 2 + l + d
      BY <2>3, <1>2
    <3> QED BY ONLY <3>1, p \in Nat, l \in 0..13, d \in 0..13
  <2>10. MatchBetween(p, b.at, v)'
    BY <2>2, <2>6, <2>7, <2>8, <2>9 DEF MatchBetween, FieldAt, Bit
  <2>11. CodesTell(v, t)
    BY <2>2
  <2>12. TokenBetween(a, b)'
    BY <2>10, <2>11, <1>1, <1>2, <1>5 DEF TokenBetween
  <2> QED BY <2>12 DEF Between
<1> QED BY <1>4, <1>5

LEMMA WriteSymbolInv ==
  ASSUME NEW from, NEW marks, TokenIInvAt(from, marks), WriteSymbol
  PROVE  TokenIInv'
<1>1. TokenTypeOK /\ BlocksAt(from) /\ Written(marks) /\ inflateError = 0
  BY DEF TokenIInvAt
<1>2. /\ tokenPc = "write" /\ index < Len(lz77_encoded) /\ tokenPc' = tokenPc
      /\ blocks' = blocks /\ blockNo' = blockNo /\ lz77_encoded' = lz77_encoded /\ frequencies' = frequencies
      /\ bp' = bp /\ bfinal' = bfinal /\ outTokens' = outTokens /\ inflateError' = inflateError
  BY DEF WriteSymbol
<1>3. NothingInflated /\ \E vals : \E j \in 0..Len(Tokens) : ValuesFrom(vals) /\ WritesAt(from, marks[Len(marks)], vals, j)
  BY <1>2 DEF TokenIInvAt, Deflating, Inflating, EncodesAt, CountsAt
<1>4. PICK vals : \E j \in 0..Len(Tokens) : ValuesFrom(vals) /\ WritesAt(from, marks[Len(marks)], vals, j)
  BY <1>3
<1>5. PICK j \in 0..Len(Tokens) : ValuesFrom(vals) /\ WritesAt(from, marks[Len(marks)], vals, j)
  BY <1>4
<1>6. ValuesFrom(vals)' /\ Tokens' = Tokens
  BY <1>2, <1>5, ValuesFromStays
<1>7. index = vals[j + 1] /\ Len(vals) = Len(Tokens) + 1
  BY <1>5 DEF WritesAt
<1>8. PICK t : t = Tokens[j + 1]
  OBVIOUS
<1>9. /\ j + 1 \in 1..Len(Tokens) /\ vals[j + 2] \in Nat
      /\ t \in Literal => AtLiteral(vals[j + 2], t)
      /\ t \notin Literal => AtMatch(vals[j + 2], t)
  BY <1>1, <1>2, <1>5, <1>7, <1>8, AtValue
<1>10. (\E piece : More(piece) /\ WritesToken(piece, t)) /\ index' = vals[j + 2]
  BY <1>1, <1>9, SymbolWritten
<1>11. PICK piece : More(piece) /\ WritesToken(piece, t)
  BY <1>10
<1>12. stream \in Seq(StreamItem) /\ Len(stream) \in Nat
  BY <1>1 DEF TokenTypeOK
<1>13. Len(piece) \in Nat /\ stream' \in Seq(StreamItem)
  BY <1>11, <1>12, MoreIs
<1>14. PICK last \in Mark : last = marks[Len(marks)]
  <2>1. Len(marks) \in 1..Len(marks) /\ marks \in Seq(Mark)
    BY <1>1 DEF Written
  <2> QED BY <2>1, ElementOf
<1>15. last.kind # "end" /\ last.no = blockNo /\ last.got = from[blockNo - 1] + j /\ last.at = Len(stream)
  BY <1>1, <1>5, <1>14 DEF WritesAt, Written
<1>16. PICK b : b = [at |-> Len(stream) + Len(piece), got |-> last.got + 1, no |-> blockNo, kind |-> "token"]
  OBVIOUS
<1>17. blockNo \in Nat /\ blockNo <= Len(blocks)
  BY <1>1 DEF TokenTypeOK
<1>18. /\ b \in Mark /\ b.kind = "token" /\ b.at = Len(stream) + Len(piece) /\ b.at = last.at + Len(piece)
       /\ b.got = last.got + 1 /\ b.no = last.no /\ b.no = blockNo
  <2>1. last.got + 1 \in Nat /\ Len(stream) + Len(piece) \in Nat
    BY <1>12, <1>13 DEF Mark
  <2> QED BY <2>1, <1>15, <1>16, <1>17 DEF Mark
<1>19. /\ b.got \in Nat /\ b.got <= Len(AllTokens) /\ AllTokens[b.got] = t
       /\ from[blockNo - 1] + (j + 1) = b.got
  <2>1. PICK f \in Nat, N \in Nat, A \in Nat : f = from[blockNo - 1] /\ N = Len(Tokens) /\ A = Len(AllTokens)
    <3>1. from[blockNo - 1] \in Nat /\ Len(AllTokens) \in Nat /\ Tokens \in Seq(Token)
      BY <1>1, BlockPlaces
    <3> QED BY <3>1
  <2>2. from[blockNo] = f + N /\ from[blockNo] <= A /\ \A i \in 1..N : AllTokens[f + i] = Tokens[i]
    BY <1>1, <2>1, BlockPlaces
  <2>3. j + 1 \in 1..N
    BY <1>9, <2>1
  <2>4. b.got = f + j + 1
    BY <1>15, <1>18, <2>1
  <2>5. f + (j + 1) = f + j + 1 /\ f + j + 1 <= A /\ f + j + 1 \in Nat
    <3>1. j \in 0..N
      BY <2>1
    <3>2. f + N <= A
      BY <2>2
    <3> QED BY ONLY <2>3, <3>1, <3>2, f \in Nat, N \in Nat, A \in Nat
  <2>6. AllTokens[f + (j + 1)] = Tokens[j + 1]
    BY <2>2, <2>3
  <2> QED BY <2>1, <2>4, <2>5, <2>6, <1>8
<1>20. Between(last, b)'
  BY <1>11, <1>12, <1>15, <1>18, <1>19, TokenMarked
<1>21. b.no <= Len(blocks)
  BY <1>17, <1>18
<1>22. PICK new : new = Append(marks, b)
  OBVIOUS
<1>23. Written(new)' /\ Len(new) = Len(marks) + 1 /\ new[Len(marks) + 1] = b
  BY <1>1, <1>11, <1>12, <1>14, <1>18, <1>19, <1>20, <1>21, <1>22, WrittenOn
<1>24. new[Len(new)] = b
  BY <1>23
<1>25. j \in Nat /\ j + 1 \in 0..Len(Tokens) /\ (j + 1) + 1 = j + 2
  BY <1>9
<1>26. WritesAt(from, b, vals, j + 1)'
  <2>1. \A i \in 1..Len(Tokens) : CountedAt(vals[i])
    BY <1>5 DEF WritesAt
  <2>2. \A i \in 1..Len(Tokens) : CountedAt(vals[i])'
    BY <2>1, <1>2 DEF CountedAt, IsLength, EndSymbol
  <2>3. index' = vals[(j + 1) + 1] /\ Len(vals) = Len(Tokens') + 1
    BY <1>6, <1>7, <1>10, <1>25
  <2>4. b.got = from[blockNo - 1] + (j + 1)
    BY <1>19
  <2> QED BY <2>2, <2>3, <2>4, <1>2, <1>6, <1>18 DEF WritesAt
<1>27. NothingInflated' /\ TokenTypeOK'
  <2>1. index' \in Nat
    BY <1>9, <1>10
  <2> QED BY <2>1, <1>1, <1>2, <1>3, <1>13 DEF NothingInflated, TokenTypeOK
<1>28. Deflating(from, new)'
  BY <1>6, <1>24, <1>25, <1>26, <1>27 DEF Deflating
<1>29. BlocksAt(from)'
  BY <1>1, <1>2, BlocksStay
<1>30. TokenIInvAt(from, new)'
  BY <1>1, <1>2, <1>23, <1>27, <1>28, <1>29 DEF TokenIInvAt
<1> QED BY <1>30 DEF TokenIInv

LEMMA WriteEndInv ==
  ASSUME NEW from, NEW marks, TokenIInvAt(from, marks), WriteEnd
  PROVE  TokenIInv'
<1>1. TokenTypeOK /\ BlocksAt(from) /\ Written(marks) /\ inflateError = 0
  BY DEF TokenIInvAt
<1>2. /\ tokenPc = "write" /\ index = Len(lz77_encoded) /\ index' = 0 /\ lz77_encoded' = <<>>
      /\ blocks' = blocks /\ frequencies' = frequencies
      /\ bp' = bp /\ bfinal' = bfinal /\ outTokens' = outTokens /\ inflateError' = inflateError
  BY DEF WriteEnd
<1>3. NothingInflated /\ \E vals : \E j \in 0..Len(Tokens) : ValuesFrom(vals) /\ WritesAt(from, marks[Len(marks)], vals, j)
  BY <1>2 DEF TokenIInvAt, Deflating, Inflating, EncodesAt, CountsAt
<1>4. PICK vals : \E j \in 0..Len(Tokens) : ValuesFrom(vals) /\ WritesAt(from, marks[Len(marks)], vals, j)
  BY <1>3
<1>5. PICK j \in 0..Len(Tokens) : ValuesFrom(vals) /\ WritesAt(from, marks[Len(marks)], vals, j)
  BY <1>4
<1>6. index = vals[j + 1] /\ Len(vals) = Len(Tokens) + 1
  BY <1>5 DEF WritesAt
<1>7. j = Len(Tokens)
  BY <1>1, <1>2, <1>5, <1>6, AtValue
<1>8. PICK last \in Mark : last = marks[Len(marks)]
  <2>1. Len(marks) \in 1..Len(marks) /\ marks \in Seq(Mark)
    BY <1>1 DEF Written
  <2> QED BY <2>1, ElementOf
<1>9. /\ last.kind # "end" /\ last.no = blockNo /\ last.got = from[blockNo - 1] + j /\ last.at = Len(stream)
      /\ last.got <= Len(AllTokens) /\ last.no <= Len(blocks)
  <2>1. Len(marks) \in 1..Len(marks)
    BY <1>1 DEF Written
  <2>2. last.got <= Len(AllTokens) /\ last.no <= Len(blocks)
    BY <2>1, <1>1, <1>8 DEF Written
  <2> QED BY <2>2, <1>1, <1>5, <1>8 DEF WritesAt, Written
<1>10. last.got = from[blockNo]
  <2>1. from[blockNo] = from[blockNo - 1] + Len(Tokens)
    BY <1>1, BlockPlaces
  <2> QED BY <2>1, <1>7, <1>9
<1>11. PICK x \in StreamItem : x = <<"ll", EndSymbol>>
  <2>1. <<"ll", 256>> \in StreamItem
    BY ONLY DEF StreamItem
  <2> QED BY ONLY <2>1 DEF EndSymbol
<1>12. stream \in Seq(StreamItem) /\ Len(stream) \in Nat
  BY <1>1 DEF TokenTypeOK
<1>13. PICK piece : piece = <<x>>
  OBVIOUS
<1>14. More(piece) /\ Len(piece) = 1 /\ piece[1] = x
  <2>1. stream' = Append(stream, x)
    BY <1>11 DEF WriteEnd
  <2>2. Append(stream, x) = stream \o <<x>> /\ <<x>> \in Seq(StreamItem) /\ Len(<<x>>) = 1 /\ <<x>>[1] = x
    BY <1>12
  <2> QED BY <2>1, <2>2, <1>2, <1>13 DEF More
<1>15. /\ stream' \in Seq(StreamItem) /\ AllTokens' = AllTokens
       /\ stream'[Len(stream) + 1] = x
  <2>1. 1 \in 1..Len(piece)
    BY <1>14
  <2> QED BY <2>1, <1>12, <1>14, MoreIs
<1>16. PICK b : b = [at |-> Len(stream) + 1, got |-> last.got, no |-> last.no, kind |-> "end"]
  OBVIOUS
<1>17. /\ b \in Mark /\ b.kind = "end" /\ b.at = Len(stream) + Len(piece) /\ b.at = last.at + 1
       /\ b.got = last.got /\ b.no = last.no
  <2>1. last.got \in Nat /\ last.no \in Nat /\ Len(stream) + 1 \in Nat
    BY <1>12 DEF Mark
  <2> QED BY <2>1, <1>9, <1>14, <1>16 DEF Mark
<1>18. Between(last, b)'
  <2>1. b.at = Len(stream) + 1
    BY <1>16
  <2> QED BY <2>1, <1>9, <1>11, <1>15, <1>17 DEF Between, EndBetween, EndSymbol
<1>19. PICK new : new = Append(marks, b)
  OBVIOUS
<1>20. Written(new)' /\ Len(new) = Len(marks) + 1 /\ new[Len(marks) + 1] = b
  BY <1>1, <1>8, <1>9, <1>12, <1>14, <1>17, <1>18, <1>19, WrittenOn
<1>21. new[Len(new)] = b
  BY <1>20
<1>22. BlocksAt(from)'
  BY <1>1, <1>2, BlocksStay
<1>23. blockNo \in Nat /\ Len(blocks) \in Nat /\ blockNo >= 1 /\ blockNo <= Len(blocks)
  BY <1>1 DEF TokenTypeOK
<1>24. NothingInflated'
  BY <1>2, <1>3 DEF NothingInflated
<1>25. CASE blockNo < Len(blocks)
  <2>1. blockNo' = blockNo + 1 /\ tokenPc' = "encode"
    BY <1>25 DEF WriteEnd
  <2>2. blockNo' \in 1..Len(blocks') /\ blockNo' - 1 = blockNo
    BY <2>1, <1>2, <1>23, <1>25
  <2>3. TokenTypeOK'
    <3>1. <<>> \in Seq(Nat) /\ 0 \in Nat
      OBVIOUS
    <3> QED BY <3>1, <2>2, <1>1, <1>2, <1>15 DEF TokenTypeOK
  <2>4. Len(Tokens') \in Nat
    <3>1. (Len(Tokens) \in Nat)'
      BY <2>3, <1>22, BlockPlaces
    <3> QED BY <3>1
  <2>5. PICK first : first = <<0>>
    OBVIOUS
  <2>6. first \in Seq(Nat) /\ Len(first) = 1 /\ first[1] = 0
    BY <2>5
  <2>7. ValuesFrom(first)'
    <3>1. Len(lz77_encoded') = 0
      BY <1>2
    <3>2. \A i \in 1..1 - 1 : FALSE
      OBVIOUS
    <3>3. 1 >= 1 /\ 1 <= Len(Tokens') + 1
      BY <2>4
    <3> QED BY <3>1, <3>2, <3>3, <2>6 DEF ValuesFrom
  <2>8. EncodesAt(from, b, first, 0)'
    <3>1. 0 + 1 = 1
      OBVIOUS
    <3> QED BY <3>1, <2>1, <2>2, <2>6, <1>2, <1>9, <1>10, <1>17 DEF EncodesAt
  <2>9. Deflating(from, new)'
    <3>1. 0 \in 0..Len(Tokens')
      BY <2>4
    <3> QED BY <3>1, <2>7, <2>8, <1>21, <1>24 DEF Deflating
  <2>10. TokenIInvAt(from, new)'
    BY <2>3, <2>9, <1>1, <1>2, <1>20, <1>22 DEF TokenIInvAt
  <2> QED BY <2>10 DEF TokenIInv
<1>26. CASE blockNo = Len(blocks)
  <2>1. blockNo' = blockNo /\ tokenPc' = "blockhead"
    BY <1>23, <1>26 DEF WriteEnd
  <2>2. TokenTypeOK'
    <3>1. <<>> \in Seq(Nat) /\ 0 \in Nat
      OBVIOUS
    <3> QED BY <3>1, <2>1, <1>1, <1>2, <1>15 DEF TokenTypeOK
  <2>3. b.no = Len(blocks') /\ b.got = Len(AllTokens')
    <3>1. Len(AllTokens) = from[Len(blocks)]
      BY <1>1 DEF BlocksAt
    <3> QED BY <3>1, <1>2, <1>9, <1>10, <1>15, <1>17, <1>26
  <2>4. new[1] = FirstMark
    BY <1>20 DEF Written
  <2>5. new[1].at = 0 /\ new[1].got = 0 /\ new[1].no = 0 /\ new[1].kind = "end"
    BY <2>4 DEF FirstMark
  <2>6. AllTokens' \in Seq(Token)
    BY <1>22 DEF BlocksAt
  <2>7. SubSeq(AllTokens', 1, 0) = <<>>
    BY <2>6
  <2>8. 1 \in 1..Len(new)
    BY <1>1, <1>20 DEF Written
  <2>9. Len(blocks') # 0
    BY <1>2, <1>23
  <2>10. bp' = 0 /\ bfinal' = 0 /\ outTokens' = <<>>
    BY <1>24 DEF NothingInflated
  <2>11. Inflating(from, new)'
    BY <2>1, <2>3, <2>5, <2>7, <2>8, <2>9, <2>10, <1>17, <1>21 DEF Inflating
  <2>12. TokenIInvAt(from, new)'
    BY <2>2, <2>11, <1>1, <1>2, <1>20, <1>22 DEF TokenIInvAt
  <2> QED BY <2>12 DEF TokenIInv
<1> QED BY <1>23, <1>25, <1>26

\* One token more of all of them.
LEMMA OneMoreOf ==
  ASSUME NEW S, NEW s \in Seq(S), NEW g \in Nat, g + 1 <= Len(s)
  PROVE  SubSeq(s, 1, g + 1) = Append(SubSeq(s, 1, g), s[g + 1])
OBVIOUS

\* Where the reader is, and the mark it reads to.
ReadsAt(marks, r) ==
  /\ r \in 1..Len(marks) /\ bp = marks[r].at /\ outTokens = SubSeq(AllTokens, 1, marks[r].got)
  /\ bfinal = IF marks[r].no = Len(blocks) THEN 1 ELSE 0

HasRead(marks, r) ==
  /\ r \in 1..Len(marks) /\ bp' = marks[r].at /\ outTokens' = SubSeq(AllTokens, 1, marks[r].got)
  /\ bfinal' = IF marks[r].no = Len(blocks) THEN 1 ELSE 0

ReadsTo(marks, r) ==
  /\ r + 1 \in 1..Len(marks) /\ Between(marks[r], marks[r + 1])
  /\ marks[r] \in Mark /\ marks[r + 1] \in Mark
  /\ marks[r + 1].at <= Len(stream) /\ marks[r + 1].got <= Len(AllTokens) /\ marks[r + 1].no <= Len(blocks)

\* There is a mark to read to until the last.
LEMMA NextMark ==
  ASSUME NEW marks, Written(marks), NEW r \in 1..Len(marks), r # Len(marks)
  PROVE  ReadsTo(marks, r)
<1>1. marks \in Seq(Mark) /\ Len(marks) \in Nat
  BY DEF Written
<1>2. r + 1 \in 1..Len(marks) /\ r \in 1..Len(marks) - 1
  BY <1>1
<1>3. marks[r] \in Mark /\ marks[r + 1] \in Mark
  BY <1>1, <1>2, ElementOf
<1> QED BY <1>2, <1>3 DEF Written, ReadsTo

\* What remains of the invariant when the reader has done a step.
LEMMA ReaderMoves ==
  ASSUME NEW from, NEW marks, TokenIInvAt(from, marks), Inflating(from, marks), NEW r, HasRead(marks, r),
         inflateError' = 0,
         UNCHANGED <<blocks, blockNo, index, lz77_encoded, frequencies, stream>>,
         \/ tokenPc' = "blockhead" /\ marks[r].kind = "end"
         \/ tokenPc' = "symbols" /\ marks[r].kind # "end"
         \/ tokenPc' = "done" /\ r = Len(marks)
  PROVE  TokenIInvAt(from, marks)'
<1>1. TokenTypeOK /\ BlocksAt(from) /\ Written(marks)
  BY DEF TokenIInvAt
<1>2. AllTokens' = AllTokens
  BY DEF AllTokens
<1>3. TokenTypeOK'
  BY <1>1 DEF TokenTypeOK
<1>4. BlocksAt(from)' /\ Written(marks)'
  BY <1>1, StreamStays
<1>5. Inflating(from, marks)'
  BY <1>2 DEF Inflating, HasRead
<1> QED BY <1>3, <1>4, <1>5 DEF TokenIInvAt

\* Each step of the reader keeps the invariant.
LEMMA ReadBlockHeadInv ==
  ASSUME NEW from, NEW marks, TokenIInvAt(from, marks), ReadBlockHead
  PROVE  TokenIInvAt(from, marks)'
<1>1. TokenTypeOK /\ BlocksAt(from) /\ Written(marks) /\ inflateError = 0
  BY DEF TokenIInvAt
<1>2. /\ tokenPc = "blockhead" /\ bfinal = 0 /\ outTokens' = outTokens
      /\ UNCHANGED <<blocks, blockNo, index, lz77_encoded, frequencies, stream>>
  BY DEF ReadBlockHead
<1>3. Inflating(from, marks)
  BY <1>2 DEF TokenIInvAt, Deflating, EncodesAt, CountsAt, WritesAt
<1>4. PICK r \in 1..Len(marks) : ReadsAt(marks, r) /\ marks[r].kind = "end"
  BY <1>2, <1>3 DEF Inflating, ReadsAt
<1>5. marks[r].no # Len(blocks)
  BY <1>2, <1>4 DEF ReadsAt
<1>6. r # Len(marks)
  BY <1>3, <1>5 DEF Inflating
<1>7. ReadsTo(marks, r)
  BY <1>1, <1>6, NextMark
<1>8. PICK a \in Mark, b \in Mark : a = marks[r] /\ b = marks[r + 1]
  BY <1>7 DEF ReadsTo
<1>9. HeadBetween(a, b) /\ b.at <= Len(stream)
  BY <1>4, <1>7, <1>8 DEF ReadsTo, Between, TokenBetween, EndBetween
<1>10. PICK p \in Nat, n \in 0..1 : p = a.at /\ n = IF b.no = Len(blocks) THEN 1 ELSE 0
  BY DEF Mark
<1>11. /\ bp = p /\ p + 3 = b.at /\ b.kind = "head" /\ b.got = a.got
       /\ stream[p + 1] = Bit(n) /\ stream[p + 2] = Bit(0) /\ stream[p + 3] = Bit(1)
  BY <1>4, <1>8, <1>9, <1>10 DEF HeadBetween, ReadsAt
<1>12. IsField(bp, 3)
  <2>1. \A i \in 1..3 : i = 1 \/ i = 2 \/ i = 3
    OBVIOUS
  <2>2. stream[p + 1][1] = "bit" /\ stream[p + 2][1] = "bit" /\ stream[p + 3][1] = "bit"
    BY <1>11 DEF Bit
  <2>3. \A i \in 1..3 : stream[p + i][1] = "bit"
    BY <2>1, <2>2
  <2> QED BY <2>3, <1>9, <1>11 DEF IsField
<1>13. ReadBits(bp, 1) = n
  <2>1. n < 2^1 /\ \A i \in 1..1 : i = 1 /\ (n \div 2^(i - 1)) % 2 = n
    <3>1. 2^1 = 2 /\ 2^(1 - 1) = 1
      OBVIOUS
    <3>2. n \div 1 = n /\ n % 2 = n
      <4>1. n = 0 \/ n = 1
        OBVIOUS
      <4> QED BY <4>1
    <3>3. \A i \in 1..1 : i = 1
      OBVIOUS
    <3>4. n < 2
      OBVIOUS
    <3> QED BY ONLY <3>1, <3>2, <3>3, <3>4
  <2>2. stream[p + 1][2] = n
    BY <1>11 DEF Bit
  <2>3. \A i \in 1..1 : stream[p + i][2] = (n \div 2^(i - 1)) % 2
    BY <2>1, <2>2
  <2>4. n \in Nat /\ 1 \in 0..13
    OBVIOUS
  <2> QED BY <2>1, <2>3, <2>4, <1>11, ReadBitsIs
<1>14. ReadBits(bp + 1, 2) = 2
  <2>1. 2 < 2^2 /\ (2 \div 2^(1 - 1)) % 2 = 0 /\ (2 \div 2^(2 - 1)) % 2 = 1
    OBVIOUS
  <2>2. \A i \in 1..2 : i = 1 \/ i = 2
    OBVIOUS
  <2>3. p + 1 + 1 = p + 2 /\ p + 1 + 2 = p + 3
    OBVIOUS
  <2>4. stream[p + 1 + 1][2] = 0 /\ stream[p + 1 + 2][2] = 1
    BY <2>3, <1>11 DEF Bit
  <2>5. \A i \in 1..2 : stream[p + 1 + i][2] = (2 \div 2^(i - 1)) % 2
    BY <2>1, <2>2, <2>4
  <2>6. 2 \in Nat /\ 2 \in 0..13
    OBVIOUS
  <2> QED BY <2>1, <2>5, <2>6, <1>11, ReadBitsIs
<1>15. tokenPc' = "symbols" /\ inflateError' = 0 /\ bfinal' = n /\ bp' = p + 3
  BY <1>1, <1>11, <1>12, <1>13, <1>14 DEF ReadBlockHead, DynamicType
<1>16. HasRead(marks, r + 1)
  <2>1. r + 1 \in 1..Len(marks)
    BY <1>7 DEF ReadsTo
  <2> QED BY <2>1, <1>2, <1>4, <1>8, <1>10, <1>11, <1>15 DEF ReadsAt, HasRead
<1>17. marks[r + 1].kind # "end"
  BY <1>8, <1>11
<1> QED BY <1>2, <1>3, <1>15, <1>16, <1>17, ReaderMoves

LEMMA InflateDoneInv ==
  ASSUME NEW from, NEW marks, TokenIInvAt(from, marks), InflateDone
  PROVE  TokenIInvAt(from, marks)'
<1>1. TokenTypeOK /\ BlocksAt(from) /\ Written(marks) /\ inflateError = 0
  BY DEF TokenIInvAt
<1>2. /\ tokenPc = "blockhead" /\ bfinal = 1 /\ tokenPc' = "done"
      /\ UNCHANGED <<blocks, blockNo, index, lz77_encoded, frequencies, stream, bp, bfinal, outTokens, inflateError>>
  BY DEF InflateDone
<1>3. Inflating(from, marks)
  BY <1>2 DEF TokenIInvAt, Deflating, EncodesAt, CountsAt, WritesAt
<1>4. PICK r \in 1..Len(marks) : ReadsAt(marks, r) /\ marks[r].kind = "end"
  BY <1>2, <1>3 DEF Inflating, ReadsAt
<1>5. marks[r].no = Len(blocks)
  BY <1>2, <1>4 DEF ReadsAt
<1>6. r = Len(marks)
  <2> SUFFICES ASSUME r # Len(marks) PROVE FALSE
    OBVIOUS
  <2>1. ReadsTo(marks, r)
    BY <1>1, NextMark
  <2>2. HeadBetween(marks[r], marks[r + 1])
    BY <2>1, <1>4 DEF ReadsTo, Between, TokenBetween, EndBetween
  <2>3. marks[r + 1].no = Len(blocks) + 1 /\ marks[r + 1].no <= Len(blocks)
    BY <2>1, <2>2, <1>5 DEF HeadBetween, ReadsTo
  <2>4. Len(blocks) \in Nat
    BY <1>1 DEF TokenTypeOK
  <2> QED BY ONLY <2>3, <2>4
<1>7. HasRead(marks, r)
  BY <1>2, <1>4 DEF ReadsAt, HasRead
<1> QED BY <1>1, <1>2, <1>3, <1>6, <1>7, ReaderMoves

\* A field of the stream is read as the value that was written.
LEMMA FieldRead ==
  ASSUME NEW p \in Nat, NEW n \in 0..13, NEW v \in Nat, v < 2^n, FieldAt(p, n, v), p + n <= Len(stream)
  PROVE  IsField(p, n) /\ ReadBits(p, n) = v
<1>1. \A i \in 1..n : stream[p + i] = <<"bit", (v \div 2^(i - 1)) % 2>>
  BY DEF FieldAt, Bit
<1>2. \A i \in 1..n : stream[p + i][1] = "bit" /\ stream[p + i][2] = (v \div 2^(i - 1)) % 2
  <2> SUFFICES ASSUME NEW i \in 1..n
               PROVE  stream[p + i][1] = "bit" /\ stream[p + i][2] = (v \div 2^(i - 1)) % 2
    OBVIOUS
  <2>1. PICK x : x = (v \div 2^(i - 1)) % 2
    OBVIOUS
  <2>2. stream[p + i] = <<"bit", x>>
    BY <1>1, <2>1
  <2> QED BY ONLY <2>1, <2>2
<1>3. IsField(p, n)
  BY <1>2 DEF IsField
<1>4. ReadBits(p, n) = v
  BY <1>2, ReadBitsIs
<1> QED BY <1>3, <1>4

\* What one symbol does to the reader: up to q, with the token t.
Reads(q, t) ==
  /\ bp' = q /\ outTokens' = Append(outTokens, t)
  /\ tokenPc' = tokenPc /\ inflateError' = inflateError

\* Each kind of symbol is read as what it was written for.
LEMMA LiteralRead ==
  ASSUME ReadSymbol, stream \in Seq(StreamItem), NEW p \in Nat, bp = p, p + 1 <= Len(stream), NEW t \in Literal,
         stream[p + 1] = <<"ll", t[1]>>
  PROVE  Reads(p + 1, t)
<1>1. PICK c \in 0..255 : t = <<c>>
  BY DEF Literal
<1>2. stream[p + 1] = <<"ll", c>>
  BY <1>1
<1>3. SymbolAt(bp) = c /\ stream[bp + 1][1] = "ll"
  BY <1>2 DEF SymbolAt
<1>4. IsSymbol(bp, "ll")
  <2>1. p < Len(stream)
    BY DEF StreamItem
  <2> QED BY <2>1, <1>3 DEF IsSymbol
<1>5. ~IsLength(c) /\ c # EndSymbol
  <2>1. c < 256
    OBVIOUS
  <2>2. ~(c > 256) /\ c # 256
    OBVIOUS
  <2> QED BY ONLY <2>2 DEF IsLength, EndSymbol
<1>6. ReadLiteral
  BY <1>3, <1>4, <1>5 DEF ReadSymbol, ReadMatch, ReadEnd
<1> QED BY <1>1, <1>3, <1>6 DEF ReadLiteral, Reads

LEMMA EndRead ==
  ASSUME ReadSymbol, stream \in Seq(StreamItem), NEW p \in Nat, bp = p, p + 1 <= Len(stream),
         stream[p + 1] = <<"ll", EndSymbol>>
  PROVE  ReadEnd
<1>1. SymbolAt(bp) = 256 /\ stream[bp + 1][1] = "ll"
  BY DEF SymbolAt, EndSymbol
<1>2. IsSymbol(bp, "ll")
  <2>1. p < Len(stream)
    OBVIOUS
  <2> QED BY <2>1, <1>1 DEF IsSymbol
<1>3. ~ReadLiteral /\ ~ReadMatch
  <2>1. ~(256 < 256) /\ ~(256 > 256)
    OBVIOUS
  <2> QED BY <2>1, <1>1 DEF ReadLiteral, ReadMatch, IsLength, EndSymbol
<1> QED BY <1>2, <1>3 DEF ReadSymbol

LEMMA MatchRead ==
  ASSUME ReadSymbol, stream \in Seq(StreamItem), NEW p \in Nat, bp = p, NEW q, q <= Len(stream), NEW t \in Match,
         NEW v, CodesTell(v, t), MatchBetween(p, q, v)
  PROVE  Reads(q, t)
<1>1. PICK l \in 0..13, d \in 0..13 : l = LENGTHEXTRA[v[1] - 256] /\ d = DISTANCEEXTRA[v[3] + 1]
  BY ExtraBits
<1>2. /\ q = p + 2 + l + d
      /\ stream[p + 1] = <<"ll", v[1]>> /\ FieldAt(p + 1, l, v[2])
      /\ stream[p + 2 + l] = <<"d", v[3]>> /\ FieldAt(p + 2 + l, d, v[4])
  BY <1>1 DEF MatchBetween
<1>3. /\ v[1] \in 257..285 /\ v[2] < 2^l /\ LENGTHBASE[v[1] - 256] + v[2] = t[1]
      /\ v[3] \in 0..29 /\ v[4] < 2^d /\ DISTANCEBASE[v[3] + 1] + v[4] = t[2]
  BY <1>1 DEF CodesTell
<1>4. v[2] \in Nat /\ v[4] \in Nat
  BY ExtraBits
<1>5. PICK x \in 257..285, y \in 0..29 : x = v[1] /\ y = v[3]
  BY <1>3
<1>6. Len(stream) \in Nat
  OBVIOUS
<1>7. /\ p + 1 \in Nat /\ p + 2 + l \in Nat /\ p + 1 + l <= Len(stream) /\ p + 2 + l + d <= Len(stream)
      /\ p < Len(stream) /\ p + 1 + l < Len(stream)
  <2>1. \A L, Q, P, e, f : /\ L \in Nat /\ P \in Nat /\ e \in 0..13 /\ f \in 0..13 /\ Q = P + 2 + e + f /\ Q <= L
          => /\ P + 1 \in Nat /\ P + 2 + e \in Nat /\ P + 1 + e <= L /\ P + 2 + e + f <= L
             /\ P < L /\ P + 1 + e < L
    OBVIOUS
  <2>2. q = p + 2 + l + d /\ q <= Len(stream)
    BY <1>2
  <2> QED BY ONLY <2>1, <2>2, <1>6, p \in Nat, l \in 0..13, d \in 0..13
<1>8. IsField(p + 1, l) /\ ReadBits(p + 1, l) = v[2]
  <2>1. PICK P \in Nat, w \in Nat : P = p + 1 /\ w = v[2]
    BY <1>4, <1>7
  <2>2. w < 2^l /\ FieldAt(P, l, w) /\ P + l <= Len(stream)
    BY <2>1, <1>2, <1>3, <1>7
  <2>3. IsField(P, l) /\ ReadBits(P, l) = w
    BY <2>2, FieldRead
  <2> QED BY <2>1, <2>3
<1>9. IsField(p + 2 + l, d) /\ ReadBits(p + 2 + l, d) = v[4]
  <2>1. PICK P \in Nat, w \in Nat : P = p + 2 + l /\ w = v[4]
    BY <1>4, <1>7
  <2>2. w < 2^d /\ FieldAt(P, d, w) /\ P + d <= Len(stream)
    BY <2>1, <1>2, <1>3, <1>7
  <2>3. IsField(P, d) /\ ReadBits(P, d) = w
    BY <2>2, FieldRead
  <2> QED BY <2>1, <2>3
<1>10. SymbolAt(bp) = x /\ stream[bp + 1][1] = "ll"
  BY <1>2, <1>5 DEF SymbolAt
<1>11. IsSymbol(bp, "ll")
  BY <1>7, <1>10 DEF IsSymbol
<1>12. p + 1 + l + 1 = p + 2 + l
  OBVIOUS
<1>13. SymbolAt(p + 1 + l) = y /\ stream[p + 1 + l + 1][1] = "d"
  BY <1>2, <1>5, <1>12 DEF SymbolAt
<1>14. IsSymbol(p + 1 + l, "d")
  BY <1>7, <1>13 DEF IsSymbol
<1>15. ~ReadLiteral /\ ~ReadEnd
  <2>1. ~(x < 256) /\ x # 256
    OBVIOUS
  <2> QED BY ONLY <2>1, <1>10 DEF ReadLiteral, ReadEnd, EndSymbol
<1>16. ReadMatch
  BY <1>11, <1>15 DEF ReadSymbol
<1>17. x - FirstLengthCode + 1 = v[1] - 256 /\ y + 1 = v[3] + 1
  BY <1>5 DEF FirstLengthCode
<1>18. LENGTHEXTRA[x - FirstLengthCode + 1] = l /\ DISTANCEEXTRA[y + 1] = d
  BY <1>1, <1>17
<1>19. LENGTHBASE[x - FirstLengthCode + 1] + v[2] = t[1] /\ DISTANCEBASE[y + 1] + v[4] = t[2]
  BY <1>3, <1>17
<1>20. t = <<t[1], t[2]>>
  BY DEF Match
<1>21. /\ outTokens' = Append(outTokens, <<t[1], t[2]>>)
       /\ bp' = p + 2 + l + d /\ UNCHANGED <<tokenPc, inflateError>>
  BY <1>8, <1>9, <1>10, <1>12, <1>13, <1>14, <1>16, <1>18, <1>19 DEF ReadMatch
<1> QED BY <1>2, <1>20, <1>21 DEF Reads

LEMMA ReadSymbolInv ==
  ASSUME NEW from, NEW marks, TokenIInvAt(from, marks), ReadSymbol
  PROVE  TokenIInvAt(from, marks)'
<1>1. TokenTypeOK /\ BlocksAt(from) /\ Written(marks) /\ inflateError = 0
  BY DEF TokenIInvAt
<1>2. /\ tokenPc = "symbols" /\ bfinal' = bfinal
      /\ UNCHANGED <<blocks, blockNo, index, lz77_encoded, frequencies, stream>>
  BY DEF ReadSymbol
<1>3. Inflating(from, marks)
  BY <1>2 DEF TokenIInvAt, Deflating, EncodesAt, CountsAt, WritesAt
<1>4. PICK r \in 1..Len(marks) : ReadsAt(marks, r) /\ marks[r].kind # "end"
  BY <1>2, <1>3 DEF Inflating, ReadsAt
<1>5. r # Len(marks)
  BY <1>3, <1>4 DEF Inflating
<1>6. ReadsTo(marks, r)
  BY <1>1, <1>5, NextMark
<1>7. PICK a \in Mark, b \in Mark : a = marks[r] /\ b = marks[r + 1]
  BY <1>6 DEF ReadsTo
<1>8. /\ TokenBetween(a, b) \/ EndBetween(a, b)
      /\ b.at <= Len(stream) /\ b.got <= Len(AllTokens) /\ r + 1 \in 1..Len(marks)
  BY <1>4, <1>6, <1>7 DEF ReadsTo, Between, HeadBetween
<1>9. PICK p \in Nat, g \in Nat : p = a.at /\ g = a.got
  BY DEF Mark
<1>10. stream \in Seq(StreamItem)
  BY <1>1 DEF TokenTypeOK
<1>11. /\ bp = p /\ outTokens = SubSeq(AllTokens, 1, g)
       /\ bfinal = IF a.no = Len(blocks) THEN 1 ELSE 0
  BY <1>4, <1>7, <1>9 DEF ReadsAt
<1>12. AllTokens \in Seq(Token)
  BY <1>1 DEF BlocksAt
<1>13. CASE TokenBetween(a, b)
  <2> DEFINE t == AllTokens[b.got]
  <2>1. b.kind = "token" /\ b.got = g + 1 /\ b.no = a.no
    BY <1>9, <1>13 DEF TokenBetween
  <2>2. g + 1 <= Len(AllTokens) /\ g + 1 \in 1..Len(AllTokens)
    <3>1. Len(AllTokens) \in Nat
      BY <1>12
    <3>2. g + 1 <= Len(AllTokens)
      BY <2>1, <1>8
    <3> QED BY ONLY <3>1, <3>2, g \in Nat
  <2>3. t \in Token
    BY <2>1, <2>2, <1>12, ElementOf
  <2>4. Reads(b.at, t)
    <3>1. CASE t \in Literal
      <4>1. b.at = p + 1 /\ stream[p + 1] = <<"ll", t[1]>>
        BY <3>1, <1>9, <1>13 DEF TokenBetween
      <4>2. p + 1 <= Len(stream)
        BY <4>1, <1>8
      <4>3. Reads(p + 1, t)
        BY <4>1, <4>2, <3>1, <1>10, <1>11, LiteralRead
      <4> QED BY <4>1, <4>3
    <3>2. CASE t \notin Literal
      <4>1. PICK v : CodesTell(v, t) /\ MatchBetween(p, b.at, v)
        BY <3>2, <1>9, <1>13 DEF TokenBetween
      <4>2. t \in Match
        BY <3>2, <2>3 DEF Token
      <4> QED BY <4>1, <4>2, <1>8, <1>10, <1>11, MatchRead
    <3> QED BY <3>1, <3>2
  <2>5. outTokens' = SubSeq(AllTokens, 1, g + 1)
    <3>1. SubSeq(AllTokens, 1, g + 1) = Append(SubSeq(AllTokens, 1, g), AllTokens[g + 1])
      BY <2>2, <1>12, OneMoreOf
    <3> QED BY <3>1, <2>1, <2>4, <1>11 DEF Reads
  <2>6. HasRead(marks, r + 1)
    BY <2>1, <2>4, <2>5, <1>2, <1>7, <1>8, <1>11 DEF HasRead, Reads
  <2>7. tokenPc' = "symbols" /\ inflateError' = 0 /\ marks[r + 1].kind # "end"
    BY <2>1, <2>4, <1>1, <1>2, <1>7 DEF Reads
  <2> QED BY <2>6, <2>7, <1>2, <1>3, ReaderMoves
<1>14. CASE EndBetween(a, b)
  <2>1. b.kind = "end" /\ b.got = g /\ b.no = a.no /\ b.at = p + 1 /\ stream[p + 1] = <<"ll", EndSymbol>>
    BY <1>9, <1>14 DEF EndBetween
  <2>2. ReadEnd
    BY <2>1, <1>8, <1>10, <1>11, EndRead
  <2>3. bp' = p + 1 /\ tokenPc' = "blockhead" /\ outTokens' = outTokens /\ inflateError' = inflateError
    BY <2>2, <1>11 DEF ReadEnd
  <2>4. HasRead(marks, r + 1)
    BY <2>1, <2>3, <1>2, <1>7, <1>8, <1>11 DEF HasRead
  <2>5. marks[r + 1].kind = "end"
    BY <2>1, <1>7
  <2> QED BY <2>3, <2>4, <2>5, <1>1, <1>2, <1>3, ReaderMoves
<1> QED BY <1>8, <1>13, <1>14

\* So does a step that changes nothing.
LEMMA TokenUnchanged ==
  ASSUME TokenIInv, UNCHANGED tokenVars
  PROVE  TokenIInv'
<1>1. PICK from, marks : TokenIInvAt(from, marks)
  BY DEF TokenIInv
<1>2. TokenTypeOK /\ BlocksAt(from) /\ Written(marks) /\ inflateError = 0
  BY <1>1 DEF TokenIInvAt
<1>3. UNCHANGED <<blocks, tokenPc, blockNo, index, lz77_encoded, frequencies, stream, bp, bfinal, outTokens, inflateError>>
  BY DEF tokenVars
<1>4. BlocksAt(from)' /\ Written(marks)'
  BY <1>2, <1>3, StreamStays
<1>5. TokenTypeOK' /\ inflateError' = 0
  BY <1>2, <1>3 DEF TokenTypeOK
<1>6. CASE Deflating(from, marks)
  <2>1. PICK vals : \E j \in 0..Len(Tokens) :
         /\ ValuesFrom(vals)
         /\ \/ EncodesAt(from, marks[Len(marks)], vals, j)
            \/ CountsAt(from, marks[Len(marks)], vals, j)
            \/ WritesAt(from, marks[Len(marks)], vals, j)
    BY <1>6 DEF Deflating
  <2>2. PICK j \in 0..Len(Tokens) :
         /\ ValuesFrom(vals)
         /\ \/ EncodesAt(from, marks[Len(marks)], vals, j)
            \/ CountsAt(from, marks[Len(marks)], vals, j)
            \/ WritesAt(from, marks[Len(marks)], vals, j)
    BY <2>1
  <2>3. ValuesFrom(vals)' /\ Tokens' = Tokens
    BY <2>2, <1>3, ValuesFromStays
  <2>4. \A q : CountedAt(q) => CountedAt(q)'
    BY <1>3 DEF CountedAt, IsLength, EndSymbol
  <2>5. \/ EncodesAt(from, marks[Len(marks)], vals, j)'
        \/ CountsAt(from, marks[Len(marks)], vals, j)'
        \/ WritesAt(from, marks[Len(marks)], vals, j)'
    <3>1. CASE EncodesAt(from, marks[Len(marks)], vals, j)
      BY <3>1, <1>3 DEF EncodesAt
    <3>2. CASE CountsAt(from, marks[Len(marks)], vals, j)
      BY <2>3, <2>4, <3>2, <1>3 DEF CountsAt
    <3>3. CASE WritesAt(from, marks[Len(marks)], vals, j)
      BY <2>3, <2>4, <3>3, <1>3 DEF WritesAt
    <3> QED BY <2>2, <3>1, <3>2, <3>3
  <2>6. NothingInflated'
    BY <1>3, <1>6 DEF Deflating, NothingInflated
  <2>7. j \in 0..Len(Tokens')
    BY <2>3
  <2>8. Deflating(from, marks)'
    BY <2>3, <2>5, <2>6, <2>7 DEF Deflating
  <2> QED BY <2>8, <1>4, <1>5 DEF TokenIInvAt, TokenIInv
<1>7. CASE Inflating(from, marks)
  <2>1. AllTokens' = AllTokens
    BY <1>3 DEF AllTokens
  <2>2. Inflating(from, marks)'
    BY <2>1, <1>3, <1>7 DEF Inflating
  <2> QED BY <2>2, <1>4, <1>5 DEF TokenIInvAt, TokenIInv
<1> QED BY <1>1, <1>6, <1>7 DEF TokenIInvAt

\* All steps do.
LEMMA TokenNextInv ==
  TokenIInv /\ [TokenNext]_tokenVars => TokenIInv'
<1> SUFFICES ASSUME TokenIInv, [TokenNext]_tokenVars PROVE TokenIInv'
  OBVIOUS
<1>1. PICK from, marks : TokenIInvAt(from, marks)
  BY DEF TokenIInv
<1>2. CASE EncodeToken
  BY <1>1, <1>2, EncodeTokenInv DEF TokenIInv
<1>3. CASE EncodeDone
  BY <1>1, <1>3, EncodeDoneInv DEF TokenIInv
<1>4. CASE CountSymbol
  BY <1>1, <1>4, CountSymbolInv DEF TokenIInv
<1>5. CASE WriteBlockHead
  BY <1>1, <1>5, WriteBlockHeadInv
<1>6. CASE WriteSymbol
  BY <1>1, <1>6, WriteSymbolInv
<1>7. CASE WriteEnd
  BY <1>1, <1>7, WriteEndInv
<1>8. CASE ReadBlockHead
  BY <1>1, <1>8, ReadBlockHeadInv DEF TokenIInv
<1>9. CASE InflateDone
  BY <1>1, <1>9, InflateDoneInv DEF TokenIInv
<1>10. CASE ReadSymbol
  BY <1>1, <1>10, ReadSymbolInv DEF TokenIInv
<1>11. CASE UNCHANGED tokenVars
  BY <1>11, TokenUnchanged
<1> QED BY <1>2, <1>3, <1>4, <1>5, <1>6, <1>7, <1>8, <1>9, <1>10, <1>11 DEF TokenNext

\* The invariant holds in the beginning, ...
LEMMA TokenStartInv ==
  ASSUME NEW bs, bs \in Seq(Seq(Token)), Len(bs) >= 1, TokenStart(bs, "encode")
  PROVE  TokenIInv
<1>1. /\ blocks = bs /\ tokenPc = "encode" /\ blockNo = 1 /\ index = 0
      /\ lz77_encoded = <<>> /\ frequencies = {} /\ stream = <<>>
      /\ bp = 0 /\ bfinal = 0 /\ outTokens = <<>> /\ inflateError = 0
  BY DEF TokenStart
<1>2. PICK from : BlocksAt(from)
  BY <1>1, AllTokensAre
<1>3. TokenTypeOK
  <2>1. <<>> \in Seq(Nat) /\ <<>> \in Seq(StreamItem) /\ 0 \in Nat
    OBVIOUS
  <2>2. 1 \in 1..Len(bs)
    <3>1. Len(bs) \in Nat
      <4> DEFINE V == Seq(Token)
      <4>1. bs \in Seq(V)
        OBVIOUS
      <4> HIDE DEF V
      <4> QED BY <4>1
    <3> QED BY <3>1
  <2> QED BY <2>1, <2>2, <1>1 DEF TokenTypeOK
<1>4. PICK marks : marks = <<FirstMark>>
  OBVIOUS
<1>5. FirstMark \in Mark
  BY DEF FirstMark, Mark
<1>6. marks \in Seq(Mark) /\ Len(marks) = 1 /\ marks[1] = FirstMark
  BY <1>4, <1>5
<1>7. FirstMark.at = 0 /\ FirstMark.got = 0 /\ FirstMark.no = 0 /\ FirstMark.kind = "end"
  BY DEF FirstMark
<1>8. Len(AllTokens) \in Nat /\ Len(blocks) \in Nat /\ Len(Tokens) \in Nat /\ Len(stream) = 0
  <2>1. Len(AllTokens) \in Nat /\ Tokens \in Seq(Token)
    BY <1>2, <1>3, BlockPlaces
  <2>2. Len(blocks) \in Nat
    BY <1>2, <1>3 DEF TokenTypeOK
  <2> QED BY <2>1, <2>2, <1>1
<1>9. Written(marks)
  <2>1. \A k \in 1..1 : k = 1
    OBVIOUS
  <2>2. \A k \in 1..1 - 1 : FALSE
    OBVIOUS
  <2>3. \A k \in 1..1 : marks[k].at <= Len(stream) /\ marks[k].got <= Len(AllTokens) /\ marks[k].no <= Len(blocks)
    <3>1. 0 <= 0 /\ 0 <= Len(AllTokens) /\ 0 <= Len(blocks)
      BY <1>8
    <3> QED BY <3>1, <2>1, <1>6, <1>7, <1>8
  <2> QED BY <2>2, <2>3, <1>6, <1>7, <1>8 DEF Written
<1>10. PICK vals : vals = <<0>>
  OBVIOUS
<1>11. vals \in Seq(Nat) /\ Len(vals) = 1 /\ vals[1] = 0
  BY <1>10
<1>12. ValuesFrom(vals)
  <2>1. \A i \in 1..1 - 1 : FALSE
    OBVIOUS
  <2>2. Len(lz77_encoded) = 0 /\ 1 >= 1 /\ 1 <= Len(Tokens) + 1
    BY <1>1, <1>8
  <2> QED BY <2>1, <2>2, <1>11 DEF ValuesFrom
<1>13. EncodesAt(from, marks[Len(marks)], vals, 0)
  <2>1. 0 + 1 = 1 /\ 1 - 1 = 0
    OBVIOUS
  <2>2. from[0] = 0
    BY <1>2 DEF BlocksAt
  <2> QED BY <2>1, <2>2, <1>1, <1>6, <1>7, <1>11 DEF EncodesAt
<1>14. Deflating(from, marks)
  <2>1. 0 \in 0..Len(Tokens)
    BY <1>8
  <2> QED BY <2>1, <1>1, <1>12, <1>13 DEF Deflating, NothingInflated
<1> QED BY <1>1, <1>2, <1>3, <1>9, <1>14 DEF TokenIInv, TokenIInvAt

\* ... and it is what the reader needs.
LEMMA TokensRestored ==
  ASSUME TokenIInv
  PROVE  TokensReadBack
<1>1. PICK from, marks : TokenIInvAt(from, marks)
  BY DEF TokenIInv
<1>2. TokenTypeOK /\ BlocksAt(from) /\ Written(marks) /\ inflateError = 0
  BY <1>1 DEF TokenIInvAt
<1>3. AllTokens \in Seq(Token) /\ Len(AllTokens) \in Nat
  <2>1. AllTokens \in Seq(Token)
    BY <1>2 DEF BlocksAt
  <2> QED BY <2>1
<1>4. CASE Deflating(from, marks)
  <2>1. outTokens = <<>> /\ bp = 0
    BY <1>4 DEF Deflating, NothingInflated
  <2>2. tokenPc # "done"
    BY <1>4 DEF Deflating, EncodesAt, CountsAt, WritesAt
  <2>3. Len(outTokens) <= Len(AllTokens) /\ \A i \in 1..Len(outTokens) : outTokens[i] = AllTokens[i]
    BY <2>1, <1>3
  <2>4. ASSUME tokenPc = "write", index < Len(lz77_encoded)
        PROVE  <<"ll", Value(0)>> \in frequencies /\ (IsLength(Value(0)) => <<"d", Value(2)>> \in frequencies)
    <3>1. \E vals : \E j \in 0..Len(Tokens) : ValuesFrom(vals) /\ WritesAt(from, marks[Len(marks)], vals, j)
      BY <2>4, <1>4 DEF Deflating, EncodesAt, CountsAt
    <3>2. PICK vals : \E j \in 0..Len(Tokens) : ValuesFrom(vals) /\ WritesAt(from, marks[Len(marks)], vals, j)
      BY <3>1
    <3>3. PICK j \in 0..Len(Tokens) : ValuesFrom(vals) /\ WritesAt(from, marks[Len(marks)], vals, j)
      BY <3>2
    <3>4. index = vals[j + 1] /\ Len(vals) = Len(Tokens) + 1 /\ \A i \in 1..Len(Tokens) : CountedAt(vals[i])
      BY <3>3 DEF WritesAt
    <3>5. j + 1 \in 1..Len(Tokens)
      BY <2>4, <3>3, <3>4, <1>2, AtValue
    <3>6. CountedAt(index)
      BY <3>4, <3>5
    <3>7. index + 1 + 0 = index + 1 /\ index + 1 + 2 = index + 3
      BY <1>2 DEF TokenTypeOK
    <3> QED BY <3>6, <3>7 DEF CountedAt, Value
  <2> QED BY <2>2, <2>3, <2>4, <1>2 DEF TokensReadBack
<1>5. CASE Inflating(from, marks)
  <2>1. PICK r \in 1..Len(marks) :
          /\ bp = marks[r].at /\ outTokens = SubSeq(AllTokens, 1, marks[r].got)
          /\ tokenPc = "done" => r = Len(marks)
    BY <1>5 DEF Inflating
  <2>2. PICK g \in Nat : g = marks[r].got /\ g <= Len(AllTokens)
    <3>1. marks[r] \in Mark /\ marks[r].got <= Len(AllTokens)
      BY <1>2, ElementOf DEF Written
    <3> QED BY <3>1 DEF Mark
  <2>3. /\ Len(SubSeq(AllTokens, 1, g)) = g /\ \A i \in 1..g : SubSeq(AllTokens, 1, g)[i] = AllTokens[i]
        /\ g = Len(AllTokens) => SubSeq(AllTokens, 1, g) = AllTokens
    BY <2>2, <1>3
  <2>7. outTokens = SubSeq(AllTokens, 1, g)
    <3>1. g = marks[r].got /\ outTokens = SubSeq(AllTokens, 1, marks[r].got)
      BY <2>1, <2>2, Zenon
    <3> QED BY ONLY <3>1, Zenon
  <2>4. Len(outTokens) <= Len(AllTokens) /\ \A i \in 1..Len(outTokens) : outTokens[i] = AllTokens[i]
    <3>1. Len(outTokens) = g
      BY <2>3, <2>7
    <3>2. \A i \in 1..g : outTokens[i] = AllTokens[i]
      BY <2>3, <2>7
    <3> QED BY ONLY <3>1, <3>2, <2>2
  <2>5. tokenPc = "done" => outTokens = AllTokens /\ bp = Len(stream)
    <3>1. marks[Len(marks)].got = Len(AllTokens) /\ marks[Len(marks)].at = Len(stream)
      BY <1>2, <1>5 DEF Inflating, Written
    <3>2. tokenPc = "done" => g = Len(AllTokens) /\ bp = Len(stream)
      <4>1. tokenPc = "done" => r = Len(marks)
        BY <2>1, Zenon
      <4>2. bp = marks[r].at /\ g = marks[r].got
        BY <2>1, <2>2, Zenon
      <4> QED BY ONLY <3>1, <4>1, <4>2, Zenon
    <3> QED BY <3>2, <2>3, <2>7, Zenon
  <2>6. tokenPc # "write"
    BY <1>5 DEF Inflating
  <2> QED BY <2>4, <2>5, <2>6, <1>2 DEF TokensReadBack
<1> QED BY <1>1, <1>4, <1>5 DEF TokenIInvAt

\* What the stream of all blocks says, at every moment, and how much of it has been
\* read.
THEOREM TokenIInvHolds == TokenSpec => []TokenIInv
<1>1. TokenInit => TokenIInv
  BY TokenStartInv, TokenAssumption DEF TokenInit, Token
<1> QED BY <1>1, TokenNextInv, PTL DEF TokenSpec

\* inflateHuffmanBlock finds the tokens writeLZ77data has written, those of every block,
\* in their order, and no symbol is written that was not counted.
THEOREM TokensComeBack == TokenSpec => []TokensReadBack
<1> QED BY TokenIInvHolds, TokensRestored, PTL
=============================================================================
