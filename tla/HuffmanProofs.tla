---------------------------- MODULE HuffmanProofs ----------------------------
(***************************************************************************)
(* Proofs about the Huffman codes (Huffman), for any frequencies: the      *)
(* package-merge algorithm finds code lengths that cost as little as any   *)
(* can, the codes are laid end to end, and the tree that is made of them   *)
(* leads each code to its symbol.                                          *)
(*                                                                         *)
(* A row of coins is good (GoodRow) when its coins weigh what their        *)
(* symbols do, the lightest coins give code lengths of exactly the width   *)
(* the coins are worth, and code lengths of that width never cost less.    *)
(* Sorting, pairing and adding the symbols' coins keep that, up to the     *)
(* last row. The tree is labelled with paths: each of its cells stands for *)
(* the codes that start with the cell's path (TreeShape).                  *)
(***************************************************************************)
EXTENDS Huffman, DeflateProofs, FiniteSetTheorems

-----------------------------------------------------------------------------
\* Sums.
Ints(f, n) == \A k \in 1..n : f[k] \in Int

SumsOf(f, N, e) ==
  /\ e[0] = 0
  /\ \A k \in 1..N : e[k] = e[k - 1] + f[k]
  /\ \A n \in 0..N : Total(f, n) = e[n]

\* A total follows its terms: each adds the next one to the last sum.
LEMMA TotalFollows ==
  ASSUME NEW N \in Nat, NEW f, Ints(f, N)
  PROVE  \E e \in [0..N -> Int] : SumsOf(f, N, e)
<1> DEFINE g == [kv \in (1..N) \X Int |-> kv[2] + f[kv[1]]]
<1>1. g \in Steps(Int, N)
  BY DEF Steps, Ints
<1>2. PICK e \in [0..N -> Int] : Follows(e, N, 0, g)
  <2> HIDE DEF g
  <2>1. IsDefinedBy(Int, N, 0, g)
    BY <1>1, Recursion, 0 \in Int, Zenon
  <2> QED BY <2>1, Zenon DEF IsDefinedBy
<1>3. ASSUME NEW k \in 1..N PROVE e[k] = e[k - 1] + f[k]
  <2>1. <<k, e[k - 1]>> \in (1..N) \X Int
    OBVIOUS
  <2>2. g[<<k, e[k - 1]>>] = e[k - 1] + f[k]
    BY <2>1
  <2> QED BY <2>2, <1>2 DEF Follows
<1>4. ASSUME NEW n \in 0..N PROVE Total(f, n) = e[n]
  <2> DEFINE Body(s) == s = [k \in 0..n |-> IF k = 0 THEN 0 ELSE s[k - 1] + f[k]]
             E == CHOOSE s : Body(s)
             h == [k \in 0..n |-> e[k]]
  <2>1. Body(h)
    <3>1. ASSUME NEW k \in 0..n PROVE h[k] = IF k = 0 THEN 0 ELSE h[k - 1] + f[k]
      <4>1. CASE k = 0
        BY <4>1, <1>2 DEF Follows
      <4>2. CASE k # 0
        <5>1. k \in 1..N /\ k - 1 \in 0..n
          BY <4>2
        <5>2. h[k] = e[k] /\ h[k - 1] = e[k - 1]
          BY <5>1
        <5> QED BY <4>2, <5>1, <5>2, <1>3
      <4> QED BY <4>1, <4>2
    <3>2. h = [k \in 0..n |-> h[k]]
      OBVIOUS
    <3> HIDE DEF h
    <3> QED BY <3>1, <3>2
  <2>2. Body(E)
    <3> HIDE DEF Body
    <3> QED BY <2>1, Zenon
  <2>3. Total(f, n) = E[n]
    BY DEF Total
  <2>4. GoesAlong(E, h, n)
    <3>1. E[0] = 0 /\ \A k \in 1..n : E[k] = E[k - 1] + f[k]
      <4> HIDE DEF E
      <4> QED BY <2>2
    <3>2. h[0] = 0 /\ \A k \in 1..n : h[k] = h[k - 1] + f[k]
      <4> HIDE DEF h
      <4> QED BY <2>1
    <3> HIDE DEF E, h
    <3> QED BY <3>1, <3>2 DEF GoesAlong
  <2>5. E[n] = h[n]
    <3> HIDE DEF E, h
    <3> QED BY <2>4, RecursionUnique
  <2> QED BY <2>3, <2>5
<1> QED BY <1>2, <1>3, <1>4 DEF Follows, SumsOf

\* A sum of none is 0, and a sum of one more has one summand more.
LEMMA TotalSteps ==
  ASSUME NEW N \in Nat, NEW f, Ints(f, N)
  PROVE  /\ Total(f, 0) = 0
         /\ \A n \in 0..N : Total(f, n) \in Int
         /\ \A n \in 1..N : Total(f, n) = Total(f, n - 1) + f[n]
         /\ \A n \in 0..N - 1 : Total(f, n + 1) = Total(f, n) + f[n + 1]
<1>0. PICK e \in [0..N -> Int] : SumsOf(f, N, e)
  BY TotalFollows
<1>1. /\ e[0] = 0
      /\ \A k \in 1..N : e[k] = e[k - 1] + f[k]
      /\ \A n \in 0..N : Total(f, n) = e[n]
  BY <1>0 DEF SumsOf
<1>2. \A n \in 1..N : n - 1 \in 0..N /\ n \in 0..N
  OBVIOUS
<1>3. \A n \in 0..N - 1 : n + 1 \in 1..N /\ (n + 1) - 1 = n
  OBVIOUS
<1>4. \A n \in 1..N : Total(f, n) = Total(f, n - 1) + f[n]
  BY <1>1, <1>2
<1>5. \A n \in 0..N : Total(f, n) \in Int
  BY <1>1
<1>6. 0 \in 0..N
  OBVIOUS
<1> QED BY <1>1, <1>3, <1>4, <1>5, <1>6

\* An induction as far as N.
LEMMA UpToN ==
  ASSUME NEW N \in Nat, NEW S, 0 \in S, \A n \in 0..N - 1 : n \in S => n + 1 \in S
  PROVE  0..N \subseteq S
<1> DEFINE R == {n \in Nat : n <= N => n \in S}
<1>1. 0 \in R /\ \A n \in Nat : n \in R => n + 1 \in R
  OBVIOUS
<1>2. Nat \subseteq R
  <2> HIDE DEF R
  <2> QED BY <1>1, NatSetInduction
<1> QED BY <1>2

\* Sums of larger summands are larger, and those of the same summands the same.
LEMMA TotalLe ==
  ASSUME NEW N \in Nat, NEW f, NEW g, Ints(f, N), Ints(g, N), \A k \in 1..N : f[k] <= g[k]
  PROVE  Total(f, N) <= Total(g, N)
<1> DEFINE S == {n \in 0..N : Total(f, n) <= Total(g, n)}
<1>0. 0 \in S
  BY TotalSteps
<1>1. ASSUME NEW n \in 0..N - 1, n \in S PROVE n + 1 \in S
  <2>1. n + 1 \in 1..N /\ n \in 0..N
    OBVIOUS
  <2>2. f[n + 1] <= g[n + 1] /\ f[n + 1] \in Int /\ g[n + 1] \in Int
    BY <2>1 DEF Ints
  <2>3. Total(f, n + 1) = Total(f, n) + f[n + 1] /\ Total(g, n + 1) = Total(g, n) + g[n + 1]
    BY TotalSteps
  <2>4. Total(f, n) \in Int /\ Total(g, n) \in Int
    BY <2>1, TotalSteps
  <2> QED BY <1>1, <2>2, <2>3, <2>4
<1> HIDE DEF S
<1>2. 0..N \subseteq S
  BY <1>0, <1>1, UpToN
<1> QED BY <1>2 DEF S

\* Equal terms have equal totals.
LEMMA TotalSame ==
  ASSUME NEW N \in Nat, NEW f, NEW g, Ints(f, N), \A k \in 1..N : f[k] = g[k]
  PROVE  Total(f, N) = Total(g, N)
<1>1. Ints(g, N) /\ (\A k \in 1..N : f[k] <= g[k]) /\ (\A k \in 1..N : g[k] <= f[k])
  BY DEF Ints
<1>2. Total(f, N) <= Total(g, N) /\ Total(g, N) <= Total(f, N)
  BY <1>1, TotalLe
<1>3. Total(f, N) \in Int /\ Total(g, N) \in Int
  BY <1>1, TotalSteps
<1> QED BY <1>2, <1>3

\* A sum of sums, of multiples, of nothing, of ones.
LEMMA TotalPlus ==
  ASSUME NEW N \in Nat, NEW f, NEW g, NEW h, Ints(f, N), Ints(g, N), \A k \in 1..N : h[k] = f[k] + g[k]
  PROVE  Total(h, N) = Total(f, N) + Total(g, N)
<1> DEFINE S == {n \in 0..N : Total(h, n) = Total(f, n) + Total(g, n)}
<1>a. Ints(h, N)
  BY DEF Ints
<1>0. 0 \in S
  BY TotalSteps, <1>a
<1>1. ASSUME NEW n \in 0..N - 1, n \in S PROVE n + 1 \in S
  <2>1. n + 1 \in 1..N /\ n \in 0..N
    OBVIOUS
  <2>2. h[n + 1] = f[n + 1] + g[n + 1] /\ f[n + 1] \in Int /\ g[n + 1] \in Int
    BY <2>1 DEF Ints
  <2>3. Total(f, n + 1) = Total(f, n) + f[n + 1] /\ Total(g, n + 1) = Total(g, n) + g[n + 1]
    BY TotalSteps
  <2>4. Total(h, n + 1) = Total(h, n) + h[n + 1]
    BY TotalSteps, <1>a
  <2>5. Total(f, n) \in Int /\ Total(g, n) \in Int
    BY <2>1, TotalSteps
  <2> QED BY <1>1, <2>1, <2>2, <2>3, <2>4, <2>5
<1> HIDE DEF S
<1>2. 0..N \subseteq S
  BY <1>0, <1>1, UpToN
<1> QED BY <1>2 DEF S

\* A factor of all terms is one of the total.
LEMMA TotalTimes ==
  ASSUME NEW N \in Nat, NEW f, NEW h, NEW c \in Int, Ints(f, N), \A k \in 1..N : h[k] = c * f[k]
  PROVE  Total(h, N) = c * Total(f, N)
<1> DEFINE S == {n \in 0..N : Total(h, n) = c * Total(f, n)}
<1>a. Ints(h, N)
  BY DEF Ints
<1>0. 0 \in S
  BY TotalSteps, <1>a
<1>1. ASSUME NEW n \in 0..N - 1, n \in S PROVE n + 1 \in S
  <2>1. n + 1 \in 1..N /\ n \in 0..N
    OBVIOUS
  <2>2. h[n + 1] = c * f[n + 1] /\ f[n + 1] \in Int
    BY <2>1 DEF Ints
  <2>3. Total(f, n + 1) = Total(f, n) + f[n + 1]
    BY TotalSteps
  <2>4. Total(h, n + 1) = Total(h, n) + h[n + 1]
    BY TotalSteps, <1>a
  <2>5. Total(f, n) \in Int
    BY <2>1, TotalSteps
  <2>6. \A x, y \in Int : c * (x + y) = c * x + c * y
    OBVIOUS
  <2> QED BY <1>1, <2>1, <2>2, <2>3, <2>4, <2>5, <2>6
<1> HIDE DEF S
<1>2. 0..N \subseteq S
  BY <1>0, <1>1, UpToN
<1> QED BY <1>2 DEF S

\* N equal terms.
LEMMA TotalConstant ==
  ASSUME NEW N \in Nat, NEW f, NEW c \in Int, \A k \in 1..N : f[k] = c
  PROVE  Total(f, N) = c * N
<1> DEFINE S == {n \in 0..N : Total(f, n) = c * n}
<1>a. Ints(f, N)
  BY DEF Ints
<1>0. 0 \in S
  BY TotalSteps, <1>a
<1>1. ASSUME NEW n \in 0..N - 1, n \in S PROVE n + 1 \in S
  <2>1. n + 1 \in 1..N /\ n \in 0..N /\ n \in Int
    OBVIOUS
  <2>3. Total(f, n + 1) = Total(f, n) + c
    BY TotalSteps, <1>a, <2>1
  <2>6. \A x \in Int : c * (x + 1) = c * x + c
    OBVIOUS
  <2> QED BY <1>1, <2>1, <2>3, <2>6
<1> HIDE DEF S
<1>2. 0..N \subseteq S
  BY <1>0, <1>1, UpToN
<1> QED BY <1>2 DEF S

\* One summand in place of another.
LEMMA TotalReplaced ==
  ASSUME NEW N \in Nat, NEW f, NEW g, NEW i \in 1..N, Ints(f, N), Ints(g, N),
         \A k \in 1..N : k # i => g[k] = f[k]
  PROVE  Total(g, N) = Total(f, N) - f[i] + g[i]
<1> DEFINE S == {n \in 0..N : Total(g, n) = Total(f, n) + (IF i <= n THEN g[i] - f[i] ELSE 0)}
<1>0. 0 \in S
  BY TotalSteps
<1>1. ASSUME NEW n \in 0..N - 1, n \in S PROVE n + 1 \in S
  <2>1. n + 1 \in 1..N /\ n \in 0..N
    OBVIOUS
  <2>2. f[n + 1] \in Int /\ g[n + 1] \in Int /\ f[i] \in Int /\ g[i] \in Int
    BY <2>1 DEF Ints
  <2>3. Total(f, n + 1) = Total(f, n) + f[n + 1] /\ Total(g, n + 1) = Total(g, n) + g[n + 1]
    BY TotalSteps
  <2>4. Total(f, n) \in Int /\ Total(g, n) \in Int
    BY <2>1, TotalSteps
  <2>5. n + 1 # i => g[n + 1] = f[n + 1]
    BY <2>1
  <2>6. Total(g, n) = Total(f, n) + (IF i <= n THEN g[i] - f[i] ELSE 0)
    BY <1>1
  <2> HIDE DEF S
  <2>7. CASE n + 1 = i
    <3>1. Total(g, n) = Total(f, n)
      BY <2>6, <2>7, <2>4
    <3>2. i <= n + 1
      BY <2>7
    <3> QED BY <2>7, <3>1, <3>2, <2>1, <2>2, <2>3, <2>4 DEF S
  <2>8. CASE n + 1 # i
    <3>1. i <= n + 1 <=> i <= n
      BY <2>8
    <3> QED BY <2>5, <2>6, <2>8, <3>1, <2>1, <2>2, <2>3, <2>4 DEF S
  <2> QED BY <2>7, <2>8
<1> HIDE DEF S
<1>2. 0..N \subseteq S
  BY <1>0, <1>1, UpToN
<1>3. N \in S
  BY <1>2
<1>4. Total(g, N) = Total(f, N) + (g[i] - f[i])
  BY <1>3 DEF S
<1>5. f[i] \in Int /\ g[i] \in Int /\ Total(f, N) \in Int
  BY TotalSteps DEF Ints
<1> QED BY <1>4, <1>5

\* The order of two summands does not matter.
Exchanged(f, i, j) == [f EXCEPT ![i] = f[j], ![j] = f[i]]

\* The order of two terms does not matter.
LEMMA TotalExchanged ==
  ASSUME NEW N \in Nat, NEW f \in [1..N -> Int], NEW i \in 1..N, NEW j \in 1..N
  PROVE  Total(Exchanged(f, i, j), N) = Total(f, N)
<1> DEFINE e == [f EXCEPT ![i] = f[j]]
           x == Exchanged(f, i, j)
<1>1. Ints(f, N) /\ Ints(e, N) /\ Ints(x, N)
  BY DEF Ints, Exchanged
<1>2. \A k \in 1..N : k # i => e[k] = f[k]
  OBVIOUS
<1>3. \A k \in 1..N : k # j => x[k] = e[k]
  BY DEF Exchanged
<1>4. e[i] = f[j] /\ x[j] = f[i]
  BY DEF Exchanged
<1>5. e[j] = f[j]
  OBVIOUS
<1> HIDE DEF e, x
<1>6. Total(e, N) = Total(f, N) - f[i] + e[i]
  BY <1>1, <1>2, TotalReplaced
<1>8. Total(x, N) = Total(e, N) - e[j] + x[j]
  BY <1>1, <1>3, TotalReplaced
<1>7. Total(f, N) \in Int /\ f[i] \in Int /\ f[j] \in Int
  BY <1>1, TotalSteps
<1> QED BY <1>4, <1>5, <1>6, <1>7, <1>8 DEF x

\* A sum in two parts, and a sum of pairs.
LEMMA TotalParts ==
  ASSUME NEW a \in Nat, NEW b \in Nat, NEW f, NEW g, Ints(f, a + b), \A k \in 1..b : g[k] = f[a + k]
  PROVE  Total(f, a + b) = Total(f, a) + Total(g, b)
<1> DEFINE S == {n \in 0..b : Total(f, a + n) = Total(f, a) + Total(g, n)}
<1>a. Ints(g, b)
  BY DEF Ints
<1>b. a \in 0..a + b /\ Total(f, a) \in Int
  BY TotalSteps
<1>0. 0 \in S
  <2>1. Total(g, 0) = 0
    BY TotalSteps, <1>a
  <2> QED BY <2>1, <1>b
<1>1. ASSUME NEW n \in 0..b - 1, n \in S PROVE n + 1 \in S
  <2>1. n + 1 \in 1..b /\ n \in 0..b /\ a + n \in 0..(a + b) - 1 /\ a + (n + 1) = (a + n) + 1 /\ a + (n + 1) \in 1..a + b
    OBVIOUS
  <2>2. f[a + (n + 1)] \in Int /\ g[n + 1] = f[a + (n + 1)]
    BY <2>1 DEF Ints
  <2>3. Total(g, n + 1) = Total(g, n) + g[n + 1] /\ Total(g, n) \in Int
    BY TotalSteps, <1>a, <2>1
  <2>4. Total(f, (a + n) + 1) = Total(f, a + n) + f[(a + n) + 1]
    BY TotalSteps, <2>1
  <2> QED BY <1>1, <2>1, <2>2, <2>3, <2>4, <1>b
<1> HIDE DEF S
<1>2. 0..b \subseteq S
  BY <1>0, <1>1, UpToN
<1> QED BY <1>2 DEF S

\* Terms added two by two.
LEMMA TotalPairs ==
  ASSUME NEW m \in Nat, NEW f, NEW g, Ints(f, 2 * m), \A k \in 1..m : g[k] = f[2 * k - 1] + f[2 * k]
  PROVE  Total(f, 2 * m) = Total(g, m)
<1> DEFINE S == {n \in 0..m : Total(f, 2 * n) = Total(g, n)}
<1>a. Ints(g, m)
  <2> SUFFICES ASSUME NEW k \in 1..m PROVE g[k] \in Int
    BY DEF Ints
  <2>1. 2 * k - 1 \in 1..2 * m /\ 2 * k \in 1..2 * m
    OBVIOUS
  <2> QED BY <2>1 DEF Ints
<1>0. 0 \in S
  <2>1. Total(g, 0) = 0 /\ Total(f, 0) = 0
    BY TotalSteps, <1>a
  <2> QED BY <2>1
<1>1. ASSUME NEW n \in 0..m - 1, n \in S PROVE n + 1 \in S
  <2>1. /\ n + 1 \in 1..m /\ n \in 0..m
        /\ 2 * n \in 0..2 * m - 1 /\ 2 * n + 1 \in 0..2 * m - 1 /\ 2 * n \in 0..2 * m
        /\ 2 * (n + 1) = (2 * n + 1) + 1 /\ 2 * (n + 1) - 1 = 2 * n + 1
        /\ 2 * n + 1 \in 1..2 * m /\ (2 * n + 1) + 1 \in 1..2 * m
    OBVIOUS
  <2>2. f[2 * n + 1] \in Int /\ f[(2 * n + 1) + 1] \in Int
    BY <2>1 DEF Ints
  <2>3. g[n + 1] = f[2 * (n + 1) - 1] + f[2 * (n + 1)]
    BY <2>1
  <2>4. Total(g, n + 1) = Total(g, n) + g[n + 1]
    BY TotalSteps, <1>a
  <2>5. Total(f, (2 * n + 1) + 1) = Total(f, 2 * n + 1) + f[(2 * n + 1) + 1] /\ Total(f, 2 * n + 1) = Total(f, 2 * n) + f[2 * n + 1]
    BY TotalSteps, <2>1
  <2>6. Total(f, 2 * n) \in Int
    BY TotalSteps, <2>1
  <2>7. Total(f, 2 * n) = Total(g, n)
    BY <1>1
  <2> HIDE DEF S
  <2>8. Total(f, 2 * (n + 1)) = Total(g, n + 1)
    BY <2>1, <2>2, <2>3, <2>4, <2>5, <2>6, <2>7
  <2> QED BY <2>1, <2>8 DEF S
<1> HIDE DEF S
<1>2. 0..m \subseteq S
  BY <1>0, <1>1, UpToN
<1> QED BY <1>2 DEF S

\* The sums of the rows and of the columns of a table.
Down(f, N, j) == [i \in 1..N |-> f[i][j]]
RowSums(r, f, N, M) == \A i \in 1..N : r[i] = Total(f[i], M)
ColumnSums(c, f, N, M) == \A j \in 1..M : c[j] = Total(Down(f, N, j), N)

\* Summing a table by its rows or by its columns.
LEMMA TotalTable ==
  ASSUME NEW N \in Nat, NEW M \in Nat, NEW f \in [1..N -> [1..M -> Int]],
         NEW r, NEW c, RowSums(r, f, N, M), ColumnSums(c, f, N, M)
  PROVE  Total(r, N) = Total(c, M)
<1> DEFINE col(j) == [i \in 1..N |-> f[i][j]]
           part(n) == [j \in 1..M |-> Total(col(j), n)]
           S == {n \in 0..N : Total(r, n) = Total(part(n), M)}
<1>1. \A j \in 1..M : Ints(col(j), N)
  BY DEF Ints
<1>2. \A i \in 1..N : Ints(f[i], M)
  BY DEF Ints
<1>3. Ints(r, N)
  <2> SUFFICES ASSUME NEW i \in 1..N PROVE r[i] \in Int
    BY DEF Ints
  <2>1. M \in 0..M
    OBVIOUS
  <2> QED BY <1>2, <2>1, TotalSteps DEF RowSums
<1>4. \A n \in 0..N : \A j \in 1..M : part(n)[j] = Total(col(j), n) /\ Total(col(j), n) \in Int
  <2> HIDE DEF col
  <2> QED BY <1>1, TotalSteps
<1>5. \A n \in 0..N : Ints(part(n), M)
  <2> HIDE DEF part
  <2> QED BY <1>4 DEF Ints
<1>0. 0 \in S
  <2>1. 0 \in 0..N
    OBVIOUS
  <2>2. \A j \in 1..M : part(0)[j] = 0
    <3> HIDE DEF col
    <3> QED BY <1>1, TotalSteps
  <2>3. Total(part(0), M) = 0 * M
    <3> HIDE DEF part
    <3> QED BY <2>2, TotalConstant
  <2>4. Total(r, 0) = 0
    BY <1>3, TotalSteps
  <2> HIDE DEF part
  <2> QED BY <2>1, <2>3, <2>4
<1>6. ASSUME NEW n \in 0..N - 1, n \in S PROVE n + 1 \in S
  <2>1. n + 1 \in 1..N /\ n \in 0..N /\ n + 1 \in 0..N
    OBVIOUS
  <2>2. \A j \in 1..M : part(n + 1)[j] = part(n)[j] + f[n + 1][j]
    <3> SUFFICES ASSUME NEW j \in 1..M PROVE part(n + 1)[j] = part(n)[j] + f[n + 1][j]
      OBVIOUS
    <3>1. col(j)[n + 1] = f[n + 1][j]
      BY <2>1
    <3>2. Total(col(j), n + 1) = Total(col(j), n) + col(j)[n + 1]
      <4> HIDE DEF col
      <4> QED BY <1>1, TotalSteps
    <3> HIDE DEF col, part
    <3> QED BY <3>1, <3>2, <1>4, <2>1
  <2>3. Total(part(n + 1), M) = Total(part(n), M) + Total(f[n + 1], M)
    <3> HIDE DEF part, col
    <3> QED BY <1>5, <1>2, <2>1, <2>2, TotalPlus
  <2>4. Total(r, n + 1) = Total(r, n) + r[n + 1]
    BY <1>3, TotalSteps
  <2>5. r[n + 1] = Total(f[n + 1], M)
    BY <2>1 DEF RowSums
  <2>6. Total(r, n) = Total(part(n), M)
    BY <1>6
  <2> HIDE DEF part
  <2> QED BY <2>1, <2>3, <2>4, <2>5, <2>6
<1> HIDE DEF S
<1>7. 0..N \subseteq S
  BY <1>0, <1>6, UpToN
<1>8. N \in S
  BY <1>7
<1>9. Total(r, N) = Total(part(N), M)
  BY <1>8 DEF S
<1>10. Total(part(N), M) = Total(c, M)
  <2>1. \A j \in 1..M : part(N)[j] = c[j]
    BY DEF Down, ColumnSums
  <2>2. N \in 0..N
    OBVIOUS
  <2> HIDE DEF part
  <2> QED BY <2>1, <2>2, <1>5, TotalSame
<1> QED BY <1>9, <1>10

Without(f, i, N, g) == \A k \in 1..N : g[k] = IF k = i THEN 0 ELSE f[k]

\* No summand of a sum of natural numbers is larger than the sum, and no two are.
LEMMA TotalNat ==
  ASSUME NEW N \in Nat, NEW f, \A k \in 1..N : f[k] \in Nat
  PROVE  /\ Total(f, N) \in Nat
         /\ \A i \in 1..N : f[i] <= Total(f, N)
         /\ \A i, j \in 1..N : i # j => f[i] + f[j] <= Total(f, N)
<1>1. Ints(f, N)
  BY DEF Ints
<1>2. ASSUME NEW g, \A k \in 1..N : g[k] \in Nat PROVE Total(g, N) \in Nat
  <2> DEFINE z == [k \in 1..N |-> 0]
  <2>1. Total(z, N) = 0 * N
    BY TotalConstant
  <2>2. Ints(g, N) /\ Ints(z, N) /\ \A k \in 1..N : z[k] <= g[k]
    BY <1>2 DEF Ints
  <2> HIDE DEF z
  <2>3. Total(z, N) <= Total(g, N)
    BY <2>2, TotalLe
  <2>4. Total(g, N) \in Int
    BY <2>2, TotalSteps
  <2> QED BY <2>1, <2>3, <2>4
<1>3. ASSUME NEW i \in 1..N PROVE \E g : Without(f, i, N, g) /\ Total(g, N) = Total(f, N) - f[i]
  <2> DEFINE g == [k \in 1..N |-> IF k = i THEN 0 ELSE f[k]]
  <2>1. Ints(g, N) /\ g[i] = 0 /\ \A k \in 1..N : k # i => g[k] = f[k]
    BY DEF Ints
  <2>2. \A k \in 1..N : g[k] = IF k = i THEN 0 ELSE f[k]
    OBVIOUS
  <2> HIDE DEF g
  <2>3. Total(g, N) = Total(f, N) - f[i] + g[i]
    BY <1>1, <2>1, TotalReplaced
  <2>4. Total(f, N) \in Int /\ f[i] \in Int
    BY <1>1, TotalSteps
  <2>5. Without(f, i, N, g)
    BY <2>2 DEF Without
  <2>6. Total(g, N) = Total(f, N) - f[i]
    BY <2>1, <2>3, <2>4
  <2> QED BY <2>5, <2>6
<1>4. ASSUME NEW i \in 1..N PROVE f[i] <= Total(f, N)
  <2>1. PICK g : Without(f, i, N, g) /\ Total(g, N) = Total(f, N) - f[i]
    BY <1>3
  <2>2. \A k \in 1..N : g[k] \in Nat
    BY <2>1 DEF Without
  <2>3. Total(g, N) \in Nat
    BY <2>2, <1>2
  <2>4. Total(f, N) \in Int /\ f[i] \in Int
    BY <1>1, TotalSteps
  <2> QED BY <2>1, <2>3, <2>4
<1>5. ASSUME NEW i \in 1..N, NEW j \in 1..N, i # j PROVE f[i] + f[j] <= Total(f, N)
  <2>1. PICK g : Without(f, i, N, g) /\ Total(g, N) = Total(f, N) - f[i]
    BY <1>3
  <2>2. (\A k \in 1..N : g[k] \in Nat) /\ g[j] = f[j]
    BY <2>1, <1>5 DEF Without
  <2> DEFINE h == [k \in 1..N |-> IF k = j THEN 0 ELSE g[k]]
  <2>3. h[j] = 0 /\ \A k \in 1..N : h[k] \in Nat
    BY <2>2
  <2>7. \A k \in 1..N : k # j => h[k] = g[k]
    OBVIOUS
  <2>8. Ints(g, N) /\ Ints(h, N)
    BY <2>2, <2>3 DEF Ints
  <2> HIDE DEF h
  <2>4. Total(h, N) = Total(g, N) - g[j] + h[j]
    BY <2>7, <2>8, TotalReplaced
  <2>6. Total(h, N) \in Nat
    BY <2>3, <1>2
  <2>5. Total(f, N) \in Int /\ f[i] \in Nat /\ f[j] \in Nat
    BY <1>1, TotalSteps
  <2> QED BY <2>1, <2>2, <2>3, <2>4, <2>5, <2>6
<1> QED BY <1>2, <1>4, <1>5

-----------------------------------------------------------------------------
\* Powers of two, of as many bits as a code may have.
LEMMA Powers ==
  /\ \A x \in 0..15 : 2^x \in Nat /\ 2^x >= 1
  /\ 2^0 = 1 /\ 2^1 = 2
  /\ \A x \in 0..14 : 2^(x + 1) = 2 * 2^x
<1> DEFINE P(x) == 2^x \in Nat /\ 2^x >= 1
           Q(x) == 2^(x + 1) = 2 * 2^x
<1>1. P(0) /\ P(1) /\ P(2) /\ P(3) /\ P(4) /\ P(5) /\ P(6) /\ P(7) /\ P(8) /\ P(9) /\ P(10) /\ P(11) /\ P(12) /\ P(13) /\ P(14) /\ P(15)
  OBVIOUS
<1>2. Q(0) /\ Q(1) /\ Q(2) /\ Q(3) /\ Q(4) /\ Q(5) /\ Q(6) /\ Q(7) /\ Q(8) /\ Q(9) /\ Q(10) /\ Q(11) /\ Q(12) /\ Q(13) /\ Q(14)
  OBVIOUS
<1>3. 2^0 = 1 /\ 2^1 = 2
  OBVIOUS
<1> HIDE DEF P, Q
<1>4. (\A x \in 0..15 : P(x)) /\ (\A x \in 0..14 : Q(x))
  BY <1>1, <1>2
<1> QED BY <1>3, <1>4 DEF P, Q

\* Powers of two multiply by adding their exponents.
LEMMA PowerSum ==
  ASSUME NEW x \in 0..15, NEW y \in 0..15, x + y <= 15
  PROVE  2^(x + y) = 2^x * 2^y
<1> DEFINE S == {n \in 0..y : 2^(x + n) = 2^x * 2^n}
<1>1. 0 \in S
  <2>1. 2^x \in Nat
    BY Powers
  <2>3. x + 0 = x /\ 2^0 = 1
    OBVIOUS
  <2>2. 0 \in 0..y /\ \A v \in Nat : v = v * 1
    OBVIOUS
  <2> QED BY <2>1, <2>2, <2>3
<1>2. ASSUME NEW n \in 0..y - 1, n \in S PROVE n + 1 \in S
  <2>1. n \in 0..14 /\ x + n \in 0..14 /\ x + (n + 1) = (x + n) + 1 /\ x \in 0..15 /\ n \in 0..15 /\ n + 1 \in 0..y
    OBVIOUS
  <2>2. 2^(n + 1) = 2 * 2^n /\ 2^((x + n) + 1) = 2 * 2^(x + n) /\ 2^x \in Nat /\ 2^n \in Nat
    BY <2>1, Powers
  <2>3. 2^(x + n) = 2^x * 2^n
    BY <1>2
  <2>4. \A u, v \in Nat : 2 * (u * v) = u * (2 * v)
    OBVIOUS
  <2>5. 2^(x + (n + 1)) = 2^x * 2^(n + 1)
    BY <2>1, <2>2, <2>3, <2>4
  <2> QED BY <2>1, <2>5
<1> HIDE DEF S
<1>3. 0..y \subseteq S
  BY <1>1, <1>2, UpToN
<1> QED BY <1>3 DEF S

-----------------------------------------------------------------------------
\* Picking from a row, and the lightest of it.
Picks(n) == [1..n -> {0, 1}]
Terms(a, f, n) == [k \in 1..n |-> a[k] * f[k]]
Picked(a, f, n) == Total(Terms(a, f, n), n)
LightestBy(a, w, n, theta) == \A k \in 1..n : (a[k] = 1 => w[k] <= theta) /\ (a[k] = 0 => theta <= w[k])

\* The terms of what is picked.
LEMMA PickedTerms ==
  ASSUME NEW n \in Nat, NEW a \in Picks(n), NEW f \in [1..n -> Int]
  PROVE  /\ \A k \in 1..n : Terms(a, f, n)[k] = IF a[k] = 1 THEN f[k] ELSE 0
         /\ Ints(Terms(a, f, n), n)
<1>1. ASSUME NEW k \in 1..n PROVE a[k] * f[k] = IF a[k] = 1 THEN f[k] ELSE 0
  <2>1. a[k] \in {0, 1} /\ f[k] \in Int
    BY DEF Picks
  <2>2. \A x \in Int : 0 * x = 0 /\ 1 * x = x
    OBVIOUS
  <2> QED BY <2>1, <2>2
<1>2. \A k \in 1..n : Terms(a, f, n)[k] = IF a[k] = 1 THEN f[k] ELSE 0
  BY <1>1 DEF Terms
<1>3. ASSUME NEW k \in 1..n PROVE Terms(a, f, n)[k] \in Int
  BY <1>2
<1> QED BY <1>2, <1>3 DEF Ints

\* How many a picker takes.
LEMMA PickedNumber ==
  ASSUME NEW n \in Nat, NEW a \in Picks(n)
  PROVE  Ints(a, n) /\ Total(a, n) \in Nat
<1>1. \A k \in 1..n : a[k] \in Nat
  BY DEF Picks
<1>2. Total(a, n) \in Nat
  BY <1>1, TotalNat
<1> QED BY <1>1, <1>2 DEF Ints

\* Picking among natural numbers gives one.
LEMMA PickedNat ==
  ASSUME NEW n \in Nat, NEW a \in Picks(n), NEW f \in [1..n -> Nat]
  PROVE  Picked(a, f, n) \in Nat
<1> DEFINE g == Terms(a, f, n)
<1>1. f \in [1..n -> Int]
  OBVIOUS
<1>2. \A k \in 1..n : g[k] = IF a[k] = 1 THEN f[k] ELSE 0
  BY <1>1, PickedTerms
<1> HIDE DEF g
<1>3. \A k \in 1..n : g[k] \in Nat
  BY <1>2
<1>4. Total(g, n) \in Nat
  BY <1>3, TotalNat
<1> QED BY <1>4 DEF Picked, g

\* The lightest weigh less than as many others.
LEMMA LightestWeigh ==
  ASSUME NEW n \in Nat, NEW a \in Picks(n), NEW c \in Picks(n), NEW w \in [1..n -> Nat],
         NEW theta \in Nat, LightestBy(a, w, n, theta), Total(a, n) <= Total(c, n)
  PROVE  Picked(a, w, n) <= Picked(c, w, n)
<1> DEFINE wa == Terms(a, w, n)
           wc == Terms(c, w, n)
           ta == [k \in 1..n |-> theta * a[k]]
           tc == [k \in 1..n |-> theta * c[k]]
           l == [k \in 1..n |-> wa[k] + tc[k]]
           r == [k \in 1..n |-> wc[k] + ta[k]]
<1>1. w \in [1..n -> Int]
  OBVIOUS
<1>2. /\ \A k \in 1..n : wa[k] = IF a[k] = 1 THEN w[k] ELSE 0
      /\ \A k \in 1..n : wc[k] = IF c[k] = 1 THEN w[k] ELSE 0
      /\ Ints(wa, n) /\ Ints(wc, n) /\ Ints(a, n) /\ Ints(c, n)
  <2>1. (\A k \in 1..n : wa[k] = IF a[k] = 1 THEN w[k] ELSE 0) /\ Ints(wa, n)
    BY <1>1, PickedTerms
  <2>2. (\A k \in 1..n : wc[k] = IF c[k] = 1 THEN w[k] ELSE 0) /\ Ints(wc, n)
    BY <1>1, PickedTerms
  <2>3. Ints(a, n) /\ Ints(c, n)
    BY PickedNumber
  <2> QED BY <2>1, <2>2, <2>3
<1>3. ASSUME NEW k \in 1..n
      PROVE  /\ ta[k] = IF a[k] = 1 THEN theta ELSE 0
             /\ tc[k] = IF c[k] = 1 THEN theta ELSE 0
  <2>1. a[k] \in {0, 1} /\ c[k] \in {0, 1}
    BY DEF Picks
  <2>2. theta * 0 = 0 /\ theta * 1 = theta
    OBVIOUS
  <2> QED BY <2>1, <2>2
<1>a. (\A k \in 1..n : ta[k] = theta * a[k]) /\ (\A k \in 1..n : tc[k] = theta * c[k])
  OBVIOUS
<1> HIDE DEF wa, wc, ta, tc
<1>4. Ints(ta, n) /\ Ints(tc, n)
  BY <1>3 DEF Ints
<1>5. ASSUME NEW k \in 1..n PROVE l[k] <= r[k] /\ l[k] \in Int /\ r[k] \in Int
  <2>1. a[k] \in {0, 1} /\ c[k] \in {0, 1} /\ w[k] \in Nat
    BY DEF Picks
  <2>2. (a[k] = 1 => w[k] <= theta) /\ (a[k] = 0 => theta <= w[k])
    BY DEF LightestBy
  <2>3. l[k] = wa[k] + tc[k] /\ r[k] = wc[k] + ta[k]
    OBVIOUS
  <2> HIDE DEF l, r
  <2>4. CASE a[k] = 0
    <3>1. wa[k] = 0 /\ ta[k] = 0
      BY <2>4, <1>2, <1>3
    <3>2. wc[k] \in Nat /\ tc[k] \in Nat /\ tc[k] <= wc[k]
      BY <2>1, <2>2, <2>4, <1>2, <1>3
    <3> QED BY <3>1, <3>2, <2>3
  <2>5. CASE a[k] = 1
    <3>1. wa[k] = w[k] /\ ta[k] = theta
      BY <2>5, <1>2, <1>3
    <3>2. (c[k] = 0 => wc[k] = 0 /\ tc[k] = 0) /\ (c[k] = 1 => wc[k] = w[k] /\ tc[k] = theta)
      BY <2>1, <1>2, <1>3
    <3> QED BY <3>1, <3>2, <2>1, <2>2, <2>3, <2>5
  <2> QED BY <2>1, <2>4, <2>5
<1>6. Ints(l, n) /\ Ints(r, n) /\ \A k \in 1..n : l[k] <= r[k]
  BY <1>5 DEF Ints
<1>b. (\A k \in 1..n : l[k] = wa[k] + tc[k]) /\ (\A k \in 1..n : r[k] = wc[k] + ta[k])
  OBVIOUS
<1> HIDE DEF l, r
<1>7. Total(l, n) <= Total(r, n)
  BY <1>6, TotalLe
<1>8. Total(l, n) = Total(wa, n) + Total(tc, n)
  BY <1>2, <1>4, <1>b, TotalPlus
<1>9. Total(r, n) = Total(wc, n) + Total(ta, n)
  BY <1>2, <1>4, <1>b, TotalPlus
<1>10. Total(ta, n) = theta * Total(a, n)
  BY <1>2, <1>a, TotalTimes
<1>11. Total(tc, n) = theta * Total(c, n)
  BY <1>2, <1>a, TotalTimes
<1>12. theta * Total(a, n) <= theta * Total(c, n)
  <2>1. Total(a, n) \in Nat /\ Total(c, n) \in Nat
    BY PickedNumber
  <2>2. \A x, y \in Nat : x <= y => theta * x <= theta * y
    OBVIOUS
  <2> QED BY <2>1, <2>2
<1>13. Total(wa, n) \in Int /\ Total(wc, n) \in Int /\ Total(ta, n) \in Int /\ Total(tc, n) \in Int
  BY <1>2, <1>4, TotalSteps
<1>14. Total(wa, n) <= Total(wc, n)
  BY <1>7, <1>8, <1>9, <1>10, <1>11, <1>12, <1>13
<1> QED BY <1>14 DEF Picked, wa, wc

-----------------------------------------------------------------------------
\* Rows of coins.  A row is good for codes of up to e bits and worth W a coin
\* if each coin weighs what its symbols do; the lightest coins, as many as one
\* likes, have codes of so many bits of their symbols in them, whose widths are
\* what the coins are worth; and whoever takes codes of as much width has not
\* paid less than for as many coins.
Coin == [weight : Nat, symbols : [Symbols -> Nat]]
Price(t) == Total([k \in 1..numcodes |-> freq[k] * t[k - 1]], numcodes)
Width(t, e) == Total([k \in 1..numcodes |-> 2^e - 2^(e - t[k - 1])], numcodes)
Weights(row) == [i \in 1..Len(row) |-> row[i].weight]
Column(row, s) == [i \in 1..Len(row) |-> row[i].symbols[s]]
Number(row, a) == Total(a, Len(row))
Weight(row, a) == Picked(a, Weights(row), Len(row))
Counts(row, a) == [s \in Symbols |-> Picked(a, Column(row, s), Len(row))]
Lightest(row, a) == \E theta \in Nat : LightestBy(a, Weights(row), Len(row), theta)
Depths(e) == {t \in [Symbols -> 0..e] : \A s \in Symbols : Freq(s) = 0 => t[s] = 0}

IsCoin(c) ==
  /\ c \in Coin
  /\ c.weight = Price(c.symbols) /\ c.weight > 0
  /\ \A s \in Symbols : Freq(s) = 0 => c.symbols[s] = 0
IsRow(row) == row \in Seq(Coin) /\ \A i \in 1..Len(row) : IsCoin(row[i])
Fills(row, e, W) ==
  \A a \in Picks(Len(row)) : Lightest(row, a) =>
    Counts(row, a) \in Depths(e) /\ Width(Counts(row, a), e) = Number(row, a) * W
Bought(row, c, k, t) == Number(row, c) >= k /\ Weight(row, c) <= Price(t)
Saves(row, e, W) ==
  \A t \in Depths(e) : \A k \in Nat :
    k * W <= Width(t, e) => \E c \in Picks(Len(row)) : Bought(row, c, k, t)
GoodRow(row, e, W) == IsRow(row) /\ Fills(row, e, W) /\ Saves(row, e, W)

\* A picker follows a coin that changes its place.
LEMMA ExchangedAt ==
  ASSUME NEW n, NEW f, DOMAIN f = 1..n, NEW i \in 1..n, NEW j \in 1..n
  PROVE  /\ DOMAIN Exchanged(f, i, j) = 1..n
         /\ \A k \in 1..n : Exchanged(f, i, j)[k] = f[IF k = j THEN i ELSE IF k = i THEN j ELSE k]
BY DEF Exchanged

\* A pick with two of its places exchanged picks as many.
LEMMA PicksExchanged ==
  ASSUME NEW n \in Nat, NEW a \in Picks(n), NEW i \in 1..n, NEW j \in 1..n
  PROVE  /\ Exchanged(a, i, j) \in Picks(n)
         /\ Total(Exchanged(a, i, j), n) = Total(a, n)
<1>1. a \in [1..n -> Int]
  BY DEF Picks
<1>2. Exchanged(a, i, j) \in Picks(n)
  BY DEF Picks, Exchanged
<1>3. Total(Exchanged(a, i, j), n) = Total(a, n)
  BY <1>1, TotalExchanged
<1> QED BY <1>2, <1>3

\* Picking where two values changed places is picking with the places changed back.
LEMMA PickedExchanged ==
  ASSUME NEW n \in Nat, NEW a \in Picks(n), NEW f \in [1..n -> Int], NEW g \in [1..n -> Int],
         NEW i \in 1..n, NEW j \in 1..n, \A k \in 1..n : g[k] = f[IF k = j THEN i ELSE IF k = i THEN j ELSE k]
  PROVE  Picked(a, g, n) = Picked(Exchanged(a, i, j), f, n)
<1>9. \A r : DOMAIN r = 1..n => \A l \in 1..n : Exchanged(r, i, j)[l] = r[IF l = j THEN i ELSE IF l = i THEN j ELSE l]
  BY DEF Exchanged
<1>7. DOMAIN a = 1..n
  BY DEF Picks
<1>8. \A l \in 1..n : Exchanged(a, i, j)[l] = a[IF l = j THEN i ELSE IF l = i THEN j ELSE l]
  BY ONLY <1>9, <1>7
<1> DEFINE x == Exchanged(a, i, j)
           p == Terms(a, g, n)
           q == Terms(x, f, n)
           y == Exchanged(q, i, j)
<1>1. x \in Picks(n)
  BY PicksExchanged
<1>2. q \in [1..n -> Int]
  <2> SUFFICES ASSUME NEW k \in 1..n PROVE x[k] * f[k] \in Int
    BY DEF Terms
  <2>1. x[k] \in Int /\ f[k] \in Int
    BY <1>1 DEF Picks
  <2> HIDE DEF x
  <2> QED BY <2>1
<1>3. Total(y, n) = Total(q, n)
  <2> HIDE DEF q
  <2> QED BY <1>2, TotalExchanged
<1>4. ASSUME NEW k \in 1..n PROVE y[k] = p[k]
  <2> DEFINE m == IF k = j THEN i ELSE IF k = i THEN j ELSE k
  <2>1. m \in 1..n
    OBVIOUS
  <2>2. DOMAIN q = 1..n /\ DOMAIN a = 1..n
    BY DEF Picks, Terms
  <2>3. y[k] = q[m]
    <3>1. \A l \in 1..n : y[l] = q[IF l = j THEN i ELSE IF l = i THEN j ELSE l]
      <4>1. DOMAIN q = 1..n
        BY <2>2
      <4> HIDE DEF q
      <4> QED BY ONLY <4>1, <1>9 DEF y
    <3> HIDE DEF q, y
    <3> QED BY <3>1
  <2>4. q[m] = x[m] * f[m]
    BY <2>1 DEF Terms
  <2>5. x[m] = a[IF m = j THEN i ELSE IF m = i THEN j ELSE m]
    <3>1. \A l \in 1..n : x[l] = a[IF l = j THEN i ELSE IF l = i THEN j ELSE l]
      BY ONLY <1>8 DEF x
    <3> HIDE DEF m, x
    <3> QED BY <3>1, <2>1
  <2>6. (IF m = j THEN i ELSE IF m = i THEN j ELSE m) = k
    OBVIOUS
  <2>7. p[k] = a[k] * g[k] /\ g[k] = f[m]
    BY DEF Terms
  <2> HIDE DEF x, y, p, q, m
  <2> QED BY <2>3, <2>4, <2>5, <2>6, <2>7
<1>5. Ints(y, n) /\ Ints(p, n)
  <2>1. \A k \in 1..n : p[k] \in Int
    <3> SUFFICES ASSUME NEW k \in 1..n PROVE p[k] \in Int
      OBVIOUS
    <3>1. a[k] \in Int /\ g[k] \in Int
      BY DEF Picks
    <3> QED BY <3>1 DEF Terms
  <2> HIDE DEF y, p
  <2> QED BY <2>1, <1>4 DEF Ints
<1> HIDE DEF y, p
<1>6. Total(y, n) = Total(p, n)
  BY <1>4, <1>5, TotalSame
<1> QED BY <1>3, <1>6 DEF Picked, p, q, x

\* What the columns and the weights of a row are.
LEMMA RowValues ==
  ASSUME NEW row, IsRow(row)
  PROVE  /\ Len(row) \in Nat /\ DOMAIN row = 1..Len(row)
         /\ Weights(row) \in [1..Len(row) -> Nat]
         /\ \A s \in Symbols : Column(row, s) \in [1..Len(row) -> Nat]
<1>1. row \in Seq(Coin)
  BY DEF IsRow
<1>2. \A i \in 1..Len(row) : row[i] \in Coin
  BY <1>1, ElementOf
<1>3. \A c \in Coin : c.weight \in Nat /\ \A s \in Symbols : c.symbols[s] \in Nat
  BY DEF Coin
<1>4. Weights(row) \in [1..Len(row) -> Nat]
  BY <1>2, <1>3 DEF Weights
<1>5. \A s \in Symbols : Column(row, s) \in [1..Len(row) -> Nat]
  BY <1>2, <1>3 DEF Column
<1> QED BY <1>1, <1>4, <1>5

\* Coins that change places leave a good row good.
LEMMA SwapRow ==
  ASSUME NEW row, IsRow(row), NEW i \in 1..Len(row), NEW j \in 1..Len(row)
  PROVE  /\ IsRow(Swap(row, i, j))
         /\ Len(Swap(row, i, j)) = Len(row)
         /\ \A k \in 1..Len(row) : Swap(row, i, j)[k] = row[IF k = j THEN i ELSE IF k = i THEN j ELSE k]
<1>1. row \in Seq(Coin) /\ \A k \in 1..Len(row) : IsCoin(row[k])
  BY DEF IsRow
<1>2. Swap(row, i, j) = Exchanged(row, i, j)
  BY DEF Swap, Exchanged
<1>3. row[i] \in Coin /\ row[j] \in Coin
  BY <1>1, ElementOf
<1>4. Swap(row, i, j) \in Seq(Coin) /\ Len(Swap(row, i, j)) = Len(row)
  BY <1>1, <1>3 DEF Swap
<1>5. \A k \in 1..Len(row) : Swap(row, i, j)[k] = row[IF k = j THEN i ELSE IF k = i THEN j ELSE k]
  BY <1>1, <1>2, ExchangedAt
<1>6. \A k \in 1..Len(row) : IsCoin(Swap(row, i, j)[k])
  BY <1>1, <1>5
<1> QED BY <1>4, <1>5, <1>6 DEF IsRow

\* What is picked in a row with two coins swapped is picked in the row itself.
LEMMA SwapPicked ==
  ASSUME NEW row, IsRow(row), NEW i \in 1..Len(row), NEW j \in 1..Len(row), NEW a \in Picks(Len(row))
  PROVE  /\ Counts(Swap(row, i, j), a) = Counts(row, Exchanged(a, i, j))
         /\ Weight(Swap(row, i, j), a) = Weight(row, Exchanged(a, i, j))
         /\ Number(Swap(row, i, j), a) = Number(row, Exchanged(a, i, j))
         /\ Lightest(Swap(row, i, j), a) => Lightest(row, Exchanged(a, i, j))
<1> DEFINE new == Swap(row, i, j)
           n == Len(row)
           x == Exchanged(a, i, j)
           at(k) == IF k = j THEN i ELSE IF k = i THEN j ELSE k
<1>1. IsRow(new) /\ Len(new) = n /\ \A k \in 1..n : new[k] = row[at(k)]
  BY SwapRow
<1>2. n \in Nat /\ x \in Picks(n) /\ DOMAIN a = 1..n
  BY RowValues, PicksExchanged DEF Picks
<1>3. \A k \in 1..n : at(k) \in 1..n /\ at(at(k)) = k
  OBVIOUS
<1>4. \A k \in 1..n : x[k] = a[at(k)]
  BY <1>2, ExchangedAt
<1> HIDE DEF new, x
<1>5. /\ Weights(new) \in [1..n -> Nat] /\ Weights(row) \in [1..n -> Nat]
      /\ \A s \in Symbols : Column(new, s) \in [1..n -> Nat] /\ Column(row, s) \in [1..n -> Nat]
  BY <1>1, RowValues
<1>6. \A k \in 1..n : Weights(new)[k] = Weights(row)[at(k)]
  BY <1>1, <1>3 DEF Weights
<1>7. \A s \in Symbols : \A k \in 1..n : Column(new, s)[k] = Column(row, s)[at(k)]
  BY <1>1, <1>3 DEF Column
<1>0. \A f, g \in [1..n -> Int] : (\A k \in 1..n : g[k] = f[at(k)]) => Picked(a, g, n) = Picked(x, f, n)
  <2> SUFFICES ASSUME NEW f \in [1..n -> Int], NEW g \in [1..n -> Int],
                      \A k \in 1..n : g[k] = f[IF k = j THEN i ELSE IF k = i THEN j ELSE k]
               PROVE  Picked(a, g, n) = Picked(Exchanged(a, i, j), f, n)
    BY DEF x
  <2>1. n \in Nat
    BY <1>2
  <2> HIDE DEF n, at
  <2>2. i \in 1..n /\ j \in 1..n /\ a \in Picks(n)
    BY DEF n
  <2> HIDE DEF x
  <2> QED BY ONLY <2>1, <2>2, PickedExchanged, f \in [1..n -> Int], g \in [1..n -> Int],
                  \A k \in 1..n : g[k] = f[IF k = j THEN i ELSE IF k = i THEN j ELSE k], SMTT(30)
<1>8. Picked(a, Weights(new), n) = Picked(x, Weights(row), n)
  <2>1. Weights(new) \in [1..n -> Int] /\ Weights(row) \in [1..n -> Int]
    BY <1>5
  <2> HIDE DEF at
  <2> QED BY <2>1, <1>0, <1>6
<1>9. \A s \in Symbols : Picked(a, Column(new, s), n) = Picked(x, Column(row, s), n)
  <2> SUFFICES ASSUME NEW s \in Symbols PROVE Picked(a, Column(new, s), n) = Picked(x, Column(row, s), n)
    OBVIOUS
  <2>1. Column(new, s) \in [1..n -> Int] /\ Column(row, s) \in [1..n -> Int]
    BY <1>5
  <2>2. \A k \in 1..n : Column(new, s)[k] = Column(row, s)[at(k)]
    BY <1>7
  <2> HIDE DEF at
  <2> QED BY <2>1, <2>2, <1>0
<1>10. Counts(new, a) = Counts(row, x)
  BY <1>9, <1>1 DEF Counts
<1>11. Number(new, a) = Number(row, x)
  BY <1>1, <1>2, PicksExchanged DEF Number, x
<1>12. ASSUME Lightest(new, a) PROVE Lightest(row, x)
  <2>1. PICK theta \in Nat : LightestBy(a, Weights(new), n, theta)
    BY <1>12, <1>1 DEF Lightest
  <2>2. ASSUME NEW k \in 1..n PROVE (x[k] = 1 => Weights(row)[k] <= theta) /\ (x[k] = 0 => theta <= Weights(row)[k])
    <3>1. at(k) \in 1..n /\ x[k] = a[at(k)]
      BY <1>3, <1>4
    <3>2. Weights(new)[at(k)] = Weights(row)[k]
      BY <1>6, <1>3
    <3>3. (a[at(k)] = 1 => Weights(new)[at(k)] <= theta) /\ (a[at(k)] = 0 => theta <= Weights(new)[at(k)])
      <4> HIDE DEF at
      <4> QED BY <3>1, <2>1 DEF LightestBy
    <3> HIDE DEF at
    <3> QED BY <3>1, <3>2, <3>3
  <2>3. LightestBy(x, Weights(row), n, theta)
    BY <2>2 DEF LightestBy
  <2> QED BY <2>3 DEF Lightest
<1> QED BY <1>1, <1>8, <1>10, <1>11, <1>12 DEF Weight, new, x

\* Swapping two coins keeps a row good: the sort changes the order alone.
LEMMA SwapGood ==
  ASSUME NEW row, NEW e, NEW W, GoodRow(row, e, W), NEW i \in 1..Len(row), NEW j \in 1..Len(row)
  PROVE  GoodRow(Swap(row, i, j), e, W) /\ Len(Swap(row, i, j)) = Len(row)
<1> DEFINE new == Swap(row, i, j)
<1>1. IsRow(row) /\ Fills(row, e, W) /\ Saves(row, e, W)
  BY DEF GoodRow
<1>2. IsRow(new) /\ Len(new) = Len(row) /\ Len(row) \in Nat
  BY <1>1, SwapRow, RowValues
<1>3. ASSUME NEW a \in Picks(Len(row))
      PROVE  /\ Exchanged(a, i, j) \in Picks(Len(row))
             /\ Counts(new, a) = Counts(row, Exchanged(a, i, j))
             /\ Weight(new, a) = Weight(row, Exchanged(a, i, j))
             /\ Number(new, a) = Number(row, Exchanged(a, i, j))
             /\ Lightest(new, a) => Lightest(row, Exchanged(a, i, j))
  BY <1>1, <1>2, PicksExchanged, SwapPicked
<1> HIDE DEF new
<1>4. Fills(new, e, W)
  <2> SUFFICES ASSUME NEW a \in Picks(Len(row)), Lightest(new, a)
               PROVE  Counts(new, a) \in Depths(e) /\ Width(Counts(new, a), e) = Number(new, a) * W
    BY <1>2 DEF Fills
  <2> QED BY <1>3, <1>1 DEF Fills
<1>5. Saves(new, e, W)
  <2> SUFFICES ASSUME NEW t \in Depths(e), NEW k \in Nat, k * W <= Width(t, e)
               PROVE  \E c \in Picks(Len(row)) : Bought(new, c, k, t)
    BY <1>2 DEF Saves
  <2>1. PICK c \in Picks(Len(row)) : Bought(row, c, k, t)
    BY <1>1 DEF Saves
  <2> DEFINE x == Exchanged(c, i, j)
  <2>2. x \in Picks(Len(row))
    BY <1>3
  <2>3. Exchanged(x, i, j) = c
    BY DEF Exchanged, Picks
  <2> HIDE DEF x
  <2>4. Weight(new, x) = Weight(row, c) /\ Number(new, x) = Number(row, c)
    BY <1>3, <2>2, <2>3
  <2> QED BY <2>1, <2>2, <2>4 DEF Bought
<1> QED BY <1>2, <1>4, <1>5 DEF GoodRow, new

-----------------------------------------------------------------------------
\* The comb sort.
Rows(n, e, W) == {r \in Seq(Coin) : GoodRow(r, e, W) /\ Len(r) = n}
Compared(r, i, g) == IF r[i + g].weight < r[i].weight THEN Swap(r, i, i + g) ELSE r
PassOf(p, row, g, M) ==
  /\ p[0] = row
  /\ \A i \in 1..M : p[i] = Compared(p[i - 1], i, g)
  /\ CombPass(row, g) = p[M]

\* A pass goes from one good row to the next.
LEMMA PassGoes ==
  ASSUME NEW row, NEW e, NEW W, GoodRow(row, e, W), NEW g \in 1..Len(row)
  PROVE  \E p \in [0..Len(row) - g -> Rows(Len(row), e, W)] : PassOf(p, row, g, Len(row) - g)
<1> DEFINE n == Len(row)
           M == n - g
           V == Rows(n, e, W)
           step == [ir \in (1..M) \X V |-> Compared(ir[2], ir[1], g)]
<1>1. n \in Nat /\ row \in V /\ M \in Nat /\ g \in Nat \ {0} /\ M + g = n
  <2>1. IsRow(row) /\ n \in Nat
    BY RowValues DEF GoodRow
  <2>2. row \in Seq(Coin)
    BY <2>1 DEF IsRow
  <2> QED BY <2>1, <2>2 DEF Rows
<1> HIDE DEF n, M, V
<1>2. ASSUME NEW i \in 1..M, NEW r \in V PROVE Compared(r, i, g) \in V
  <2>1. GoodRow(r, e, W) /\ Len(r) = n
    BY DEF V, Rows
  <2>2. i \in 1..Len(r) /\ i + g \in 1..Len(r)
    BY <1>1, <2>1
  <2>3. GoodRow(Swap(r, i, i + g), e, W) /\ Len(Swap(r, i, i + g)) = n
    BY <2>1, <2>2, SwapGood
  <2>4. Swap(r, i, i + g) \in Seq(Coin)
    BY <2>3 DEF GoodRow, IsRow
  <2>5. Swap(r, i, i + g) \in V
    BY <2>3, <2>4 DEF V, Rows
  <2> QED BY <2>5 DEF Compared
<1>3. step \in Steps(V, M)
  BY <1>2 DEF Steps
<1>4. PICK p \in [0..M -> V] : Follows(p, M, row, step)
  <2> HIDE DEF step
  <2>1. IsDefinedBy(V, M, row, step)
    BY <1>1, <1>3, Recursion
  <2> QED BY <2>1 DEF IsDefinedBy
<1>5. ASSUME NEW i \in 1..M PROVE p[i] = Compared(p[i - 1], i, g)
  <2>1. <<i, p[i - 1]>> \in (1..M) \X V
    BY <1>1
  <2>2. step[<<i, p[i - 1]>>] = Compared(p[i - 1], i, g)
    BY <2>1
  <2> QED BY <2>2, <1>4 DEF Follows
<1>6. p[0] = row
  BY <1>4 DEF Follows
<1>7. CombPass(row, g) = p[M]
  <2> DEFINE Body(s) == s = [i \in 0..n - g |-> IF i = 0 THEN row
                               ELSE LET r == s[i - 1] IN IF r[i + g].weight < r[i].weight THEN Swap(r, i, i + g) ELSE r]
             E == CHOOSE s : Body(s)
  <2>1. Body(p)
    <3>1. ASSUME NEW i \in 0..M
          PROVE  p[i] = IF i = 0 THEN row
                        ELSE LET r == p[i - 1] IN IF r[i + g].weight < r[i].weight THEN Swap(r, i, i + g) ELSE r
      <4>1. CASE i = 0
        BY <4>1, <1>6
      <4>2. CASE i # 0
        <5>1. i \in 1..M
          BY <4>2, <1>1
        <5> QED BY <4>2, <5>1, <1>5 DEF Compared
      <4> QED BY <4>1, <4>2
    <3>2. p = [i \in 0..M |-> p[i]]
      OBVIOUS
    <3>3. n - g = M
      BY DEF M
    <3> QED BY <3>1, <3>2, <3>3
  <2>2. Body(E)
    <3> HIDE DEF Body
    <3> QED BY <2>1, Zenon
  <2>3. CombPass(row, g) = E[M]
    BY DEF CombPass, M, n
  <2>4. GoesAlong(E, p, M)
    <3>1. E[0] = row /\ \A i \in 1..M : E[i] = Compared(E[i - 1], i, g)
      <4>1. n - g = M
        BY DEF M
      <4> HIDE DEF E
      <4>2. ASSUME NEW i \in 1..M PROVE E[i] = Compared(E[i - 1], i, g)
        <5>1. i \in 0..n - g /\ i # 0
          BY <4>1, <1>1
        <5> QED BY <5>1, <2>2 DEF Compared
      <4>3. 0 \in 0..n - g
        BY <4>1, <1>1
      <4>4. E[0] = row
        BY <4>3, <2>2
      <4> QED BY <4>2, <4>4
    <3> HIDE DEF E
    <3> QED BY <3>1, <1>5, <1>6 DEF GoesAlong
  <2>5. E[M] = p[M]
    <3> HIDE DEF E
    <3> QED BY <2>4, <1>1, RecursionUnique
  <2> QED BY <2>3, <2>5
<1> QED BY <1>4, <1>5, <1>6, <1>7 DEF PassOf, M, V, n

\* A pass of the comb sort is a sequence of swaps.
LEMMA PassGood ==
  ASSUME NEW row, NEW e, NEW W, GoodRow(row, e, W), NEW g \in 1..Len(row)
  PROVE  GoodRow(CombPass(row, g), e, W) /\ Len(CombPass(row, g)) = Len(row)
<1>1. PICK p \in [0..Len(row) - g -> Rows(Len(row), e, W)] : PassOf(p, row, g, Len(row) - g)
  BY PassGoes
<1>2. Len(row) \in Nat
  BY RowValues DEF GoodRow
<1>3. Len(row) - g \in 0..Len(row) - g
  BY <1>2
<1>4. CombPass(row, g) \in Rows(Len(row), e, W)
  BY <1>1, <1>3 DEF PassOf
<1> QED BY <1>4 DEF Rows

\* A pass between neighbours that changes nothing has found them in order.
Ordered(row) == \A i, j \in 1..Len(row) : i <= j => row[i].weight <= row[j].weight
NeighboursInOrder(row) == \A i \in 1..Len(row) - 1 : row[i].weight <= row[i + 1].weight

\* A row whose neighbours are in order is in order.
LEMMA OrderedByNeighbours ==
  ASSUME NEW row, IsRow(row), NeighboursInOrder(row)
  PROVE  Ordered(row)
<1> DEFINE n == Len(row)
           w == Weights(row)
           S == {d \in Nat : \A i \in 1..n : i + d <= n => w[i] <= w[i + d]}
<1>1. n \in Nat /\ w \in [1..n -> Nat]
  BY RowValues
<1>2. \A i \in 1..n : w[i] = row[i].weight
  BY DEF Weights
<1> HIDE DEF w, n
<1>3. 0 \in S
  BY <1>1
<1>4. ASSUME NEW d \in Nat, d \in S PROVE d + 1 \in S
  <2> SUFFICES ASSUME NEW i \in 1..n, i + (d + 1) <= n PROVE w[i] <= w[i + (d + 1)]
    OBVIOUS
  <2>1. i + d \in 1..n - 1 /\ i + d \in 1..n /\ i + (d + 1) = (i + d) + 1 /\ i + (d + 1) \in 1..n
    BY <1>1
  <2>2. w[i] <= w[i + d]
    BY <1>4, <2>1
  <2>3. w[i + d] <= w[(i + d) + 1]
    BY <2>1, <1>2 DEF NeighboursInOrder, n
  <2>4. w[i] \in Nat /\ w[i + d] \in Nat /\ w[(i + d) + 1] \in Nat
    BY <1>1, <2>1
  <2> QED BY <2>1, <2>2, <2>3, <2>4
<1> HIDE DEF S
<1>5. Nat \subseteq S
  BY <1>3, <1>4, NatSetInduction
<1>6. ASSUME NEW i \in 1..n, NEW j \in 1..n, i <= j PROVE row[i].weight <= row[j].weight
  <2>1. j - i \in Nat /\ i + (j - i) = j
    BY <1>1, <1>6
  <2>2. j - i \in S
    BY <1>5, <2>1
  <2>3. w[i] <= w[j]
    BY <2>1, <2>2, <1>6, <1>1 DEF S
  <2> QED BY <2>3, <1>2
<1> QED BY <1>6 DEF Ordered, n

\* A pass with gap 1 that swaps nothing finds the row in order.
LEMMA PassSorted ==
  ASSUME NEW row, NEW e, NEW W, GoodRow(row, e, W), Len(row) >= 1, CombPass(row, 1) = row
  PROVE  Ordered(row)
<1> DEFINE M == Len(row) - 1
<1>1. Len(row) \in Nat /\ IsRow(row) /\ 1 \in 1..Len(row)
  BY RowValues DEF GoodRow
<1>2. PICK p \in [0..M -> Rows(Len(row), e, W)] : PassOf(p, row, 1, M)
  BY <1>1, PassGoes
<1>3. M \in Nat /\ M + 1 = Len(row)
  BY <1>1
<1> HIDE DEF M
<1>4. \A m \in 0..M : IsRow(p[m]) /\ Len(p[m]) = Len(row)
  <2> SUFFICES ASSUME NEW m \in 0..M PROVE IsRow(p[m]) /\ Len(p[m]) = Len(row)
    OBVIOUS
  <2>1. p[m] \in Rows(Len(row), e, W)
    OBVIOUS
  <2> QED BY <2>1 DEF Rows, GoodRow
<1>5. p[0] = row /\ p[M] = row /\ \A i \in 1..M : p[i] = Compared(p[i - 1], i, 1)
  BY <1>2 DEF PassOf
<1>6. ASSUME NEW i \in 1..M PROVE p[M][i] = p[i][i]
  <2> DEFINE S == {m \in 0..M : i <= m => p[m][i] = p[i][i]}
  <2>1. 0 \in S
    BY <1>3
  <2>2. ASSUME NEW m \in 0..M - 1, m \in S PROVE m + 1 \in S
    <3>1. m + 1 \in 0..M /\ m + 1 \in 1..M /\ (m + 1) - 1 = m /\ m \in 0..M
      BY <1>3
    <3> SUFFICES ASSUME i <= m + 1 PROVE p[m + 1][i] = p[i][i]
      BY <3>1
    <3>2. CASE i = m + 1
      BY <3>2
    <3>3. CASE i # m + 1
      <4>1. i <= m /\ p[m][i] = p[i][i]
        BY <3>3, <2>2, <3>1
      <4>2. p[m + 1] = Compared(p[m], m + 1, 1)
        BY <1>5, <3>1
      <4>3. m + 1 \in 1..Len(p[m]) /\ (m + 1) + 1 \in 1..Len(p[m]) /\ i \in 1..Len(p[m]) /\ IsRow(p[m])
        BY <3>1, <1>3, <1>4
      <4>4. Swap(p[m], m + 1, (m + 1) + 1)[i] = p[m][IF i = (m + 1) + 1 THEN m + 1 ELSE IF i = m + 1 THEN (m + 1) + 1 ELSE i]
        BY <4>3, SwapRow
      <4>5. i # (m + 1) + 1
        BY <4>1, <3>1
      <4> QED BY <4>1, <4>2, <4>4, <4>5, <3>3 DEF Compared
    <3> QED BY <3>2, <3>3
  <2> HIDE DEF S
  <2>3. 0..M \subseteq S
    BY <1>3, <2>1, <2>2, UpToN
  <2>4. M \in S /\ i <= M
    BY <2>3, <1>3
  <2> QED BY <2>4 DEF S
<1>7. \A k \in 1..Len(row) : row[k].weight \in Nat
  <2>1. Weights(row) \in [1..Len(row) -> Nat]
    BY <1>1, RowValues
  <2> QED BY <2>1 DEF Weights
<1> DEFINE S == {m \in 0..M : p[m] = row /\ \A i \in 1..m : row[i].weight <= row[i + 1].weight}
<1>8. 0 \in S
  BY <1>3, <1>5
<1>9. ASSUME NEW m \in 0..M - 1, m \in S PROVE m + 1 \in S
  <2>1. m + 1 \in 0..M /\ m + 1 \in 1..M /\ (m + 1) - 1 = m /\ m + 1 \in 1..Len(row) /\ (m + 1) + 1 \in 1..Len(row)
    BY <1>3
  <2>2. p[m + 1] = Compared(row, m + 1, 1)
    BY <2>1, <1>5, <1>9
  <2>3. ~(row[(m + 1) + 1].weight < row[m + 1].weight)
    <3> SUFFICES ASSUME row[(m + 1) + 1].weight < row[m + 1].weight PROVE FALSE
      OBVIOUS
    <3>1. p[m + 1] = Swap(row, m + 1, (m + 1) + 1)
      BY <2>2 DEF Compared
    <3>2. Swap(row, m + 1, (m + 1) + 1)[m + 1] = row[IF m + 1 = (m + 1) + 1 THEN m + 1 ELSE IF m + 1 = m + 1 THEN (m + 1) + 1 ELSE m + 1]
      BY <2>1, <1>1, SwapRow
    <3>3. p[m + 1][m + 1] = row[(m + 1) + 1]
      BY <3>1, <3>2
    <3>4. row[m + 1] = row[(m + 1) + 1]
      BY <3>3, <1>6, <2>1, <1>5
    <3> QED BY <3>4, <2>1, <1>7
  <2>4. p[m + 1] = row
    BY <2>2, <2>3 DEF Compared
  <2>5. row[m + 1].weight <= row[(m + 1) + 1].weight
    BY <2>3, <2>1, <1>7
  <2>6. ASSUME NEW i \in 1..m + 1 PROVE row[i].weight <= row[i + 1].weight
    <3>1. i \in 1..m \/ i = m + 1
      OBVIOUS
    <3> QED BY <3>1, <2>5, <1>9
  <2> QED BY <2>1, <2>4, <2>6
<1> HIDE DEF S
<1>10. 0..M \subseteq S
  BY <1>3, <1>8, <1>9, UpToN
<1>11. M \in S
  BY <1>10, <1>3
<1>12. NeighboursInOrder(row)
  BY <1>11 DEF S, NeighboursInOrder, M
<1> QED BY <1>12, <1>1, OrderedByNeighbours

\* The gap shrinks until it is 1.
LEMMA GapShrinks ==
  ASSUME gap \in Nat \ {0}
  PROVE  NextGap \in Nat \ {0} /\ NextGap <= gap /\ (gap > 1 => NextGap < gap) /\ (gap = 1 => NextGap = 1)
<1> DEFINE g == (gap * 10) \div 13
<1>1. g \in Nat /\ 13 * g <= 10 * gap /\ 10 * gap < 13 * g + 13
  OBVIOUS
<1>2. NextGap = IF g < 1 THEN 1 ELSE IF g \in {9, 10} THEN 11 ELSE g
  BY DEF NextGap
<1> HIDE DEF g
<1> QED BY <1>1, <1>2

-----------------------------------------------------------------------------
\* The coins at the front of a row in order are its lightest.
First(n, k) == [i \in 1..n |-> IF i <= k THEN 1 ELSE 0]

\* The first k places, as a pick.
LEMMA FirstPicked ==
  ASSUME NEW n \in Nat, NEW k \in 0..n
  PROVE  First(n, k) \in Picks(n) /\ Total(First(n, k), n) = k
<1> DEFINE f == First(n, k)
           g == [i \in 1..n - k |-> 0]
<1>1. f \in Picks(n)
  BY DEF First, Picks
<1>2. (\A i \in 1..k : f[i] = 1) /\ (\A i \in 1..n - k : g[i] = f[k + i]) /\ (\A i \in 1..n - k : g[i] = 0)
  BY DEF First
<1>3. k \in Nat /\ n - k \in Nat /\ k + (n - k) = n
  OBVIOUS
<1>4. \A i \in 1..n : f[i] \in Int
  BY DEF First
<1> HIDE DEF f, g
<1>5. Ints(f, n)
  BY <1>4 DEF Ints
<1>6. Total(f, k + (n - k)) = Total(f, k) + Total(g, n - k)
  <2>1. Ints(f, k + (n - k))
    BY <1>5, <1>3
  <2> QED BY <2>1, <1>2, <1>3, TotalParts
<1>7. Total(f, k) = 1 * k
  BY <1>2, <1>3, TotalConstant
<1>8. Total(g, n - k) = 0 * (n - k)
  BY <1>2, <1>3, TotalConstant
<1> QED BY <1>1, <1>3, <1>6, <1>7, <1>8 DEF f

\* In an ordered row the first k coins are the lightest k.
LEMMA FirstLightest ==
  ASSUME NEW row, IsRow(row), Ordered(row), NEW k \in 0..Len(row)
  PROVE  Lightest(row, First(Len(row), k))
<1> DEFINE n == Len(row)
           w == Weights(row)
           f == First(n, k)
<1>1. n \in Nat /\ w \in [1..n -> Nat]
  BY RowValues
<1>2. \A i, j \in 1..n : i <= j => w[i] <= w[j]
  BY DEF Ordered, Weights
<1>3. \A i \in 1..n : f[i] = IF i <= k THEN 1 ELSE 0
  BY DEF First
<1> HIDE DEF w, n, f
<1>4. CASE k = 0
  <2>1. LightestBy(f, w, n, 0)
    BY <1>1, <1>3, <1>4 DEF LightestBy
  <2> QED BY <2>1 DEF Lightest, n, w, f
<1>5. CASE k # 0
  <2>1. k \in 1..n /\ w[k] \in Nat
    BY <1>1, <1>5 DEF n
  <2>2. LightestBy(f, w, n, w[k])
    BY <1>1, <1>2, <1>3, <2>1 DEF LightestBy
  <2> QED BY <2>1, <2>2 DEF Lightest, n, w, f
<1> QED BY <1>4, <1>5

\* No picker picks more than there are.
LEMMA NumberAtMost ==
  ASSUME NEW n \in Nat, NEW a \in Picks(n)
  PROVE  Total(a, n) \in 0..n
<1> DEFINE one == [k \in 1..n |-> 1]
<1>1. (\A k \in 1..n : a[k] \in Nat /\ a[k] <= one[k]) /\ (\A k \in 1..n : one[k] = 1)
  BY DEF Picks
<1> HIDE DEF one
<1>2. Ints(a, n) /\ Ints(one, n)
  BY <1>1 DEF Ints
<1>3. Total(a, n) <= Total(one, n)
  BY <1>1, <1>2, TotalLe
<1>4. Total(one, n) = 1 * n
  BY <1>1, TotalConstant
<1>5. Total(a, n) \in Nat
  BY <1>1, TotalNat
<1> QED BY <1>3, <1>4, <1>5

-----------------------------------------------------------------------------
\* Merging.  Who picks a merged coin has picked the two it is made of.
Spread(a, n) == [i \in 1..n |-> IF i <= 2 * (n \div 2) THEN a[(i + 1) \div 2] ELSE 0]

\* The pairs of n places, and the one that is left over when n is odd.
LEMMA Halves ==
  ASSUME NEW n \in Nat
  PROVE  /\ n \div 2 \in Nat /\ 2 * (n \div 2) \in 0..n
         /\ n = 2 * (n \div 2) \/ n = 2 * (n \div 2) + 1
         /\ \A k \in 1..n \div 2 : /\ 2 * k - 1 \in 1..n /\ 2 * k \in 1..n
                                   /\ 2 * k - 1 \in 1..2 * (n \div 2) /\ 2 * k \in 1..2 * (n \div 2)
         /\ \A k \in Nat : ((2 * k - 1) + 1) \div 2 = k /\ (2 * k + 1) \div 2 = k
         /\ \A i \in 1..2 * (n \div 2) : /\ (i + 1) \div 2 \in 1..n \div 2
                                         /\ i = 2 * ((i + 1) \div 2) - 1 \/ i = 2 * ((i + 1) \div 2)
<1>1. n \div 2 \in Nat /\ (n = 2 * (n \div 2) \/ n = 2 * (n \div 2) + 1)
  OBVIOUS
<1> DEFINE m == n \div 2
<1>2. m \in Nat /\ (n = 2 * m \/ n = 2 * m + 1)
  BY <1>1
<1> HIDE DEF m
<1>3. \A k \in Nat : ((2 * k - 1) + 1) \div 2 = k /\ (2 * k + 1) \div 2 = k
  OBVIOUS
<1>4. \A i \in 1..2 * m : (i + 1) \div 2 \in 1..m /\ (i = 2 * ((i + 1) \div 2) - 1 \/ i = 2 * ((i + 1) \div 2))
  BY <1>2
<1>5. \A k \in 1..m : 2 * k - 1 \in 1..n /\ 2 * k \in 1..n /\ 2 * k - 1 \in 1..2 * m /\ 2 * k \in 1..2 * m
  BY <1>2
<1> QED BY <1>2, <1>3, <1>4, <1>5 DEF m

\* A pick of the pairs picks both coins of each pair, and not the one left over.
LEMMA SpreadAt ==
  ASSUME NEW n \in Nat, NEW a \in Picks(n \div 2)
  PROVE  /\ Spread(a, n) \in Picks(n)
         /\ \A k \in 1..n \div 2 : Spread(a, n)[2 * k - 1] = a[k] /\ Spread(a, n)[2 * k] = a[k]
         /\ n = 2 * (n \div 2) + 1 => Spread(a, n)[n] = 0
<1> DEFINE m == n \div 2
           b == Spread(a, n)
<1>1. \A i \in 1..n : b[i] = IF i <= 2 * m THEN a[(i + 1) \div 2] ELSE 0
  BY DEF Spread
<1>2. DOMAIN b = 1..n
  BY DEF Spread
<1>3. m \in Nat /\ a \in [1..m -> {0, 1}]
  BY Halves DEF Picks
<1>4. /\ \A k \in 1..m : 2 * k - 1 \in 1..n /\ 2 * k \in 1..n /\ 2 * k - 1 \in 1..2 * m /\ 2 * k \in 1..2 * m
      /\ \A k \in Nat : ((2 * k - 1) + 1) \div 2 = k /\ (2 * k + 1) \div 2 = k
      /\ \A i \in 1..2 * m : (i + 1) \div 2 \in 1..m
  BY Halves
<1>a. b = [i \in 1..n |-> b[i]]
  BY DEF Spread
<1> HIDE DEF m, b
<1>5. \A i \in 1..n : b[i] \in {0, 1}
  <2> SUFFICES ASSUME NEW i \in 1..n PROVE b[i] \in {0, 1}
    OBVIOUS
  <2>1. CASE i <= 2 * m
    <3>1. i \in 1..2 * m
      BY <2>1, <1>3
    <3>2. (i + 1) \div 2 \in 1..m
      BY <3>1, <1>4
    <3> QED BY <3>2, <2>1, <1>1, <1>3
  <2>2. CASE ~(i <= 2 * m)
    BY <2>2, <1>1
  <2> QED BY <2>1, <2>2
<1>6. b \in Picks(n)
  BY <1>5, <1>a DEF Picks
<1>7. ASSUME NEW k \in 1..m PROVE b[2 * k - 1] = a[k] /\ b[2 * k] = a[k]
  <2>1. 2 * k - 1 <= 2 * m /\ 2 * k <= 2 * m /\ 2 * k - 1 \in 1..n /\ 2 * k \in 1..n
    BY <1>4, <1>3
  <2>2. ((2 * k - 1) + 1) \div 2 = k /\ (2 * k + 1) \div 2 = k
    BY <1>4, <1>3
  <2> QED BY <2>1, <2>2, <1>1
<1>8. n = 2 * m + 1 => b[n] = 0
  BY <1>1, <1>3
<1> QED BY <1>6, <1>7, <1>8 DEF m, b

\* Totals over the pairs.
LEMMA SpreadTotal ==
  ASSUME NEW n \in Nat, NEW f, NEW g, Ints(f, n), \A k \in 1..n \div 2 : g[k] = f[2 * k - 1] + f[2 * k],
         n = 2 * (n \div 2) + 1 => f[n] = 0
  PROVE  Total(f, n) = Total(g, n \div 2)
<1> DEFINE m == n \div 2
<1>1. m \in Nat /\ 2 * m \in 0..n /\ (n = 2 * m \/ n = 2 * m + 1)
  BY Halves
<1>2. Ints(f, 2 * m)
  BY <1>1 DEF Ints
<1>a. \A k \in 1..m : g[k] = f[2 * k - 1] + f[2 * k]
  OBVIOUS
<1>b. n = 2 * m + 1 => f[n] = 0
  OBVIOUS
<1> HIDE DEF m
<1>3. Total(f, 2 * m) = Total(g, m)
  BY <1>1, <1>2, <1>a, TotalPairs
<1>4. n = 2 * m + 1 => Total(f, n) = Total(f, 2 * m) + f[n]
  <2> SUFFICES ASSUME n = 2 * m + 1 PROVE Total(f, n) = Total(f, 2 * m) + f[n]
    OBVIOUS
  <2>1. n \in 1..n /\ n - 1 = 2 * m
    BY <1>1
  <2>2. Total(f, n) = Total(f, n - 1) + f[n]
    BY <2>1, TotalSteps
  <2> QED BY <2>1, <2>2
<1>5. Total(f, 2 * m) \in Int
  BY <1>1, TotalSteps
<1> QED BY <1>1, <1>3, <1>4, <1>5, <1>b DEF m

\* What a pick of the pairs picks of the single coins.
LEMMA SpreadPicked ==
  ASSUME NEW n \in Nat, NEW a \in Picks(n \div 2), NEW f \in [1..n -> Int], NEW g \in [1..n \div 2 -> Int],
         \A k \in 1..n \div 2 : g[k] = f[2 * k - 1] + f[2 * k]
  PROVE  Picked(a, g, n \div 2) = Picked(Spread(a, n), f, n)
<1> DEFINE m == n \div 2
           b == Spread(a, n)
           q == Terms(b, f, n)
           p == Terms(a, g, m)
<1>1. /\ b \in Picks(n)
      /\ \A k \in 1..m : b[2 * k - 1] = a[k] /\ b[2 * k] = a[k]
      /\ n = 2 * m + 1 => b[n] = 0
  BY SpreadAt
<1>2. /\ m \in Nat /\ (n = 2 * m + 1 => n \in 1..n)
      /\ \A k \in 1..m : 2 * k - 1 \in 1..n /\ 2 * k \in 1..n
  BY Halves
<1>3. \A k \in 1..m : g[k] = f[2 * k - 1] + f[2 * k] /\ g[k] \in Int
  OBVIOUS
<1>4. a \in Picks(m)
  OBVIOUS
<1> HIDE DEF m, b
<1>5. \A k \in 1..n : q[k] = IF b[k] = 1 THEN f[k] ELSE 0
  BY <1>1, PickedTerms
<1>6. Ints(q, n)
  BY <1>1, PickedTerms
<1>7. \A k \in 1..m : p[k] = IF a[k] = 1 THEN g[k] ELSE 0
  <2>1. g \in [1..m -> Int]
    BY DEF m
  <2> QED BY <1>2, <1>4, <2>1, PickedTerms
<1> HIDE DEF p, q
<1>8. ASSUME NEW k \in 1..m PROVE p[k] = q[2 * k - 1] + q[2 * k]
  <2>1. q[2 * k - 1] = (IF a[k] = 1 THEN f[2 * k - 1] ELSE 0) /\ q[2 * k] = (IF a[k] = 1 THEN f[2 * k] ELSE 0)
    <3> DEFINE i == 2 * k - 1
               j == 2 * k
    <3>1. i \in 1..n /\ j \in 1..n /\ b[i] = a[k] /\ b[j] = a[k]
      BY <1>1, <1>2
    <3> HIDE DEF i, j
    <3>2. q[i] = (IF a[k] = 1 THEN f[i] ELSE 0) /\ q[j] = (IF a[k] = 1 THEN f[j] ELSE 0)
      BY <3>1, <1>5
    <3> QED BY <3>2 DEF i, j
  <2> QED BY <2>1, <1>3, <1>7
<1>9. n = 2 * m + 1 => q[n] = 0
  <2> SUFFICES ASSUME n = 2 * m + 1 PROVE q[n] = 0
    OBVIOUS
  <2>1. n \in 1..n /\ b[n] = 0
    BY <1>1, <1>2
  <2>2. q[n] = IF b[n] = 1 THEN f[n] ELSE 0
    BY <2>1, <1>5
  <2> QED BY <2>1, <2>2
<1>10. Total(q, n) = Total(p, m)
  <2>1. \A k \in 1..n \div 2 : p[k] = q[2 * k - 1] + q[2 * k]
    BY <1>8 DEF m
  <2>2. n = 2 * (n \div 2) + 1 => q[n] = 0
    BY <1>9 DEF m
  <2> QED BY <1>6, <2>1, <2>2, SpreadTotal DEF m
<1> QED BY <1>10 DEF Picked, p, q, b, m

\* Twice as many single coins as pairs.
LEMMA SpreadNumber ==
  ASSUME NEW n \in Nat, NEW a \in Picks(n \div 2)
  PROVE  Total(Spread(a, n), n) = 2 * Total(a, n \div 2)
<1> DEFINE m == n \div 2
           b == Spread(a, n)
           p == [k \in 1..m |-> 2 * a[k]]
<1>1. /\ b \in Picks(n)
      /\ \A k \in 1..m : b[2 * k - 1] = a[k] /\ b[2 * k] = a[k]
      /\ n = 2 * m + 1 => b[n] = 0
  BY SpreadAt
<1>2. m \in Nat /\ Ints(a, m) /\ \A k \in 1..m : a[k] \in Int
  BY Halves DEF Picks, Ints
<1>3. Ints(b, n)
  BY <1>1 DEF Ints, Picks
<1>4. \A k \in 1..m : p[k] = 2 * a[k]
  OBVIOUS
<1> HIDE DEF m, b, p
<1>5. Total(p, m) = 2 * Total(a, m)
  BY <1>2, <1>4, TotalTimes
<1>6. \A k \in 1..m : p[k] = b[2 * k - 1] + b[2 * k]
  BY <1>1, <1>2, <1>4
<1>7. Total(b, n) = Total(p, m)
  BY <1>3, <1>6, <1>1, SpreadTotal DEF m
<1> QED BY <1>5, <1>7 DEF m, b

\* The first k pairs are the first 2 k coins.
LEMMA SpreadFirst ==
  ASSUME NEW n \in Nat, NEW k \in 0..n \div 2
  PROVE  Spread(First(n \div 2, k), n) = First(n, 2 * k)
<1> DEFINE m == n \div 2
           a == First(m, k)
           b == Spread(a, n)
<1>1. m \in Nat /\ 2 * m \in 0..n
  BY Halves
<1>2. \A i \in 1..m : a[i] = IF i <= k THEN 1 ELSE 0
  BY DEF First
<1>3. \A i \in 1..n : b[i] = IF i <= 2 * m THEN a[(i + 1) \div 2] ELSE 0
  BY DEF Spread
<1>4. \A i \in 1..2 * m : /\ (i + 1) \div 2 \in 1..m
                          /\ i = 2 * ((i + 1) \div 2) - 1 \/ i = 2 * ((i + 1) \div 2)
  BY Halves
<1>5. b = [i \in 1..n |-> b[i]] /\ k \in 0..m
  BY DEF Spread
<1> HIDE DEF m, a, b
<1>6. ASSUME NEW i \in 1..n PROVE b[i] = IF i <= 2 * k THEN 1 ELSE 0
  <2>1. CASE i <= 2 * m
    <3>1. i \in 1..2 * m
      BY <2>1, <1>1
    <3> DEFINE h == (i + 1) \div 2
    <3>2. h \in 1..m /\ (i = 2 * h - 1 \/ i = 2 * h)
      BY <3>1, <1>4
    <3>3. b[i] = a[h]
      BY <2>1, <1>3
    <3> HIDE DEF h
    <3>4. b[i] = IF h <= k THEN 1 ELSE 0
      BY <3>2, <3>3, <1>2
    <3>5. h <= k <=> i <= 2 * k
      BY <3>2, <1>5, <1>1
    <3> QED BY <3>4, <3>5
  <2>2. CASE ~(i <= 2 * m)
    <3>1. ~(i <= 2 * k)
      BY <2>2, <1>1, <1>5
    <3> QED BY <2>2, <3>1, <1>3
  <2> QED BY <2>1, <2>2
<1> QED BY <1>5, <1>6 DEF First, a, b, m

\* The last one picked, if any.
LEMMA LastPicked ==
  ASSUME NEW n \in Nat, NEW a \in Picks(n)
  PROVE  \/ \A k \in 1..n : a[k] = 0
         \/ \E p \in 1..n : a[p] = 1 /\ \A k \in 1..n : a[k] = 1 => k <= p
<1> DEFINE Last(j, p) == a[p] = 1 /\ \A k \in 1..j : a[k] = 1 => k <= p
           S == {j \in 0..n : (\A k \in 1..j : a[k] = 0) \/ \E p \in 1..j : Last(j, p)}
<1>1. 0 \in S
  OBVIOUS
<1>2. ASSUME NEW j \in 0..n - 1, j \in S PROVE j + 1 \in S
  <2>1. j + 1 \in 0..n /\ j + 1 \in 1..n /\ \A k \in 1..j + 1 : k \in 1..j \/ k = j + 1
    OBVIOUS
  <2>2. a[j + 1] \in {0, 1}
    BY <2>1 DEF Picks
  <2>3. CASE a[j + 1] = 1
    <3>1. Last(j + 1, j + 1)
      BY <2>3
    <3> QED BY <3>1, <2>1
  <2>4. CASE a[j + 1] = 0 /\ \A k \in 1..j : a[k] = 0
    <3>1. \A k \in 1..j + 1 : a[k] = 0
      BY <2>4, <2>1
    <3> QED BY <3>1, <2>1
  <2>5. CASE a[j + 1] = 0 /\ \E p \in 1..j : Last(j, p)
    <3>1. PICK p \in 1..j : Last(j, p)
      BY <2>5
    <3>2. Last(j + 1, p)
      BY <3>1, <2>5, <2>1
    <3> QED BY <3>2, <2>1
  <2> QED BY <1>2, <2>2, <2>3, <2>4, <2>5
<1> HIDE DEF S
<1>3. 0..n \subseteq S
  BY <1>1, <1>2, UpToN
<1>4. n \in S
  BY <1>3
<1> QED BY <1>4 DEF S

\* The price of codes together is that of each.
LEMMA PriceTerms ==
  ASSUME freq \in Seq(Nat), NEW t, \A s \in Symbols : t[s] \in Nat
  PROVE  /\ numcodes \in Nat
         /\ \A k \in 1..numcodes : k - 1 \in Symbols /\ freq[k] \in Nat /\ freq[k] = Freq(k - 1)
         /\ \A k \in 1..numcodes : [j \in 1..numcodes |-> freq[j] * t[j - 1]][k] = freq[k] * t[k - 1]
         /\ \A k \in 1..numcodes : freq[k] * t[k - 1] \in Nat
<1>1. numcodes \in Nat
  BY DEF numcodes
<1>2. \A k \in 1..numcodes : k - 1 \in Symbols /\ freq[k] \in Nat /\ freq[k] = Freq(k - 1)
  BY <1>1 DEF numcodes, Symbols, Freq
<1>3. \A k \in 1..numcodes : freq[k] * t[k - 1] \in Nat
  <2> SUFFICES ASSUME NEW k \in 1..numcodes PROVE freq[k] * t[k - 1] \in Nat
    OBVIOUS
  <2>1. freq[k] \in Nat /\ t[k - 1] \in Nat
    BY <1>2
  <2> QED BY <2>1
<1> QED BY <1>1, <1>2, <1>3

\* The price of two lists of code lengths taken together.
LEMMA PricePlus ==
  ASSUME freq \in Seq(Nat), NEW t, NEW u, NEW v,
         \A s \in Symbols : t[s] \in Nat /\ u[s] \in Nat /\ v[s] = t[s] + u[s]
  PROVE  Price(v) = Price(t) + Price(u)
<1> DEFINE F(x) == [k \in 1..numcodes |-> freq[k] * x[k - 1]]
<1>1. \A s \in Symbols : t[s] \in Nat /\ u[s] \in Nat /\ v[s] \in Nat
  OBVIOUS
<1>2. numcodes \in Nat /\ \A k \in 1..numcodes : k - 1 \in Symbols /\ freq[k] \in Nat
  BY <1>1, PriceTerms
<1>3. \A k \in 1..numcodes : /\ F(t)[k] \in Nat /\ F(u)[k] \in Nat /\ F(v)[k] \in Nat
  BY <1>1, PriceTerms
<1>4. ASSUME NEW k \in 1..numcodes PROVE F(v)[k] = F(t)[k] + F(u)[k]
  <2>1. freq[k] \in Nat /\ t[k - 1] \in Nat /\ u[k - 1] \in Nat /\ v[k - 1] = t[k - 1] + u[k - 1]
    BY <1>2
  <2>2. \A x, y, z \in Nat : x * (y + z) = x * y + x * z
    OBVIOUS
  <2> QED BY <2>1, <2>2
<1> HIDE DEF F
<1>5. Ints(F(t), numcodes) /\ Ints(F(u), numcodes)
  BY <1>3 DEF Ints
<1>6. Total(F(v), numcodes) = Total(F(t), numcodes) + Total(F(u), numcodes)
  BY <1>2, <1>4, <1>5, TotalPlus
<1> QED BY <1>6 DEF Price, F

\* A coin is as heavy as any symbol in it.
LEMMA PriceAtLeast ==
  ASSUME freq \in Seq(Nat), NEW t, \A s \in Symbols : t[s] \in Nat
  PROVE  Price(t) \in Nat /\ \A s \in Symbols : t[s] > 0 => Freq(s) <= Price(t)
<1> DEFINE F == [k \in 1..numcodes |-> freq[k] * t[k - 1]]
<1>1. numcodes \in Nat /\ \A k \in 1..numcodes : F[k] \in Nat /\ F[k] = freq[k] * t[k - 1] /\ freq[k] \in Nat
  BY PriceTerms
<1> HIDE DEF F
<1>2. Total(F, numcodes) \in Nat /\ \A k \in 1..numcodes : F[k] <= Total(F, numcodes)
  BY <1>1, TotalNat
<1>3. Price(t) = Total(F, numcodes)
  BY DEF Price, F
<1>4. ASSUME NEW s \in Symbols, t[s] > 0 PROVE Freq(s) <= Price(t)
  <2>1. s + 1 \in 1..numcodes /\ (s + 1) - 1 = s
    BY <1>1 DEF Symbols
  <2>2. F[s + 1] = Freq(s) * t[s] /\ Freq(s) \in Nat /\ t[s] \in Nat
    BY <2>1, <1>1 DEF Freq
  <2>3. \A x, y \in Nat : y > 0 => x <= x * y
    OBVIOUS
  <2>4. Freq(s) <= F[s + 1]
    BY <2>2, <2>3, <1>4
  <2>5. F[s + 1] <= Total(F, numcodes) /\ F[s + 1] \in Nat
    BY <2>1, <1>1, <1>2
  <2> QED BY <1>2, <1>3, <2>2, <2>4, <2>5
<1> QED BY <1>2, <1>3, <1>4

\* Every coin outweighs the symbols it is merged from.
Heavy(row) == \A i \in 1..Len(row) : \A s \in Symbols : row[i].symbols[s] > 0 => Freq(s) < row[i].weight

\* The row of the pairs: what its coins weigh and count.
LEMMA MergedRow ==
  ASSUME freq \in Seq(Nat), NEW row, IsRow(row)
  PROVE  /\ IsRow(Merged(row)) /\ Len(Merged(row)) = Len(row) \div 2
         /\ Heavy(Merged(row))
         /\ \A k \in 1..Len(row) \div 2 :
              /\ Weights(Merged(row))[k] = Weights(row)[2 * k - 1] + Weights(row)[2 * k]
              /\ \A s \in Symbols : Column(Merged(row), s)[k] = Column(row, s)[2 * k - 1] + Column(row, s)[2 * k]
<1> DEFINE n == Len(row)
           m == n \div 2
           new == Merged(row)
           both(k) == [s \in Symbols |-> row[2 * k - 1].symbols[s] + row[2 * k].symbols[s]]
<1>1. n \in Nat /\ m \in Nat /\ \A k \in 1..m : 2 * k - 1 \in 1..n /\ 2 * k \in 1..n
  BY RowValues, Halves
<1>2. \A i \in 1..n : IsCoin(row[i])
  BY DEF IsRow
<1>3. \A k \in 1..m : new[k] = [weight |-> row[2 * k - 1].weight + row[2 * k].weight, symbols |-> both(k)]
  BY DEF Merged
<1>4. new = [k \in 1..m |-> new[k]]
  BY DEF Merged
<1> HIDE DEF n, m, new
<1>5. ASSUME NEW k \in 1..m
      PROVE  /\ IsCoin(new[k])
             /\ \A s \in Symbols : new[k].symbols[s] = row[2 * k - 1].symbols[s] + row[2 * k].symbols[s]
             /\ new[k].weight = row[2 * k - 1].weight + row[2 * k].weight
             /\ \A s \in Symbols : new[k].symbols[s] > 0 => Freq(s) < new[k].weight
  <2> DEFINE a == row[2 * k - 1]
             b == row[2 * k]
             c == new[k]
  <2>1. IsCoin(a) /\ IsCoin(b)
    BY <1>1, <1>2
  <2>2. c = [weight |-> a.weight + b.weight, symbols |-> [s \in Symbols |-> a.symbols[s] + b.symbols[s]]]
    BY <1>3
  <2> HIDE DEF a, b, c
  <2>3. /\ a.weight \in Nat /\ b.weight \in Nat /\ a.weight > 0 /\ b.weight > 0
        /\ \A s \in Symbols : a.symbols[s] \in Nat /\ b.symbols[s] \in Nat
    BY <2>1 DEF IsCoin, Coin
  <2>4. c.weight = a.weight + b.weight /\ \A s \in Symbols : c.symbols[s] = a.symbols[s] + b.symbols[s]
    BY <2>2
  <2>5. c \in Coin
    BY <2>2, <2>3 DEF Coin
  <2>6. Price(c.symbols) = Price(a.symbols) + Price(b.symbols)
    BY <2>3, <2>4, PricePlus
  <2>7. a.weight = Price(a.symbols) /\ b.weight = Price(b.symbols)
    BY <2>1 DEF IsCoin
  <2>8. \A s \in Symbols : Freq(s) = 0 => c.symbols[s] = 0
    BY <2>1, <2>4 DEF IsCoin
  <2>9. IsCoin(c)
    BY <2>3, <2>4, <2>5, <2>6, <2>7, <2>8 DEF IsCoin
  <2>10. ASSUME NEW s \in Symbols, c.symbols[s] > 0 PROVE Freq(s) < c.weight
    <3>1. a.symbols[s] > 0 \/ b.symbols[s] > 0
      BY <2>3, <2>4, <2>10
    <3>2. a.symbols[s] > 0 => Freq(s) <= a.weight
      BY <2>3, <2>7, PriceAtLeast
    <3>3. b.symbols[s] > 0 => Freq(s) <= b.weight
      BY <2>3, <2>7, PriceAtLeast
    <3>4. Freq(s) \in Nat
      BY DEF Freq, Symbols, numcodes
    <3> QED BY <3>1, <3>2, <3>3, <3>4, <2>3, <2>4
  <2> QED BY <2>4, <2>9, <2>10 DEF a, b, c
<1>6. new \in Seq(Coin) /\ Len(new) = m
  <2>1. \A k \in 1..m : new[k] \in Coin
    BY <1>5 DEF IsCoin
  <2> QED BY <2>1, <1>1, <1>4
<1>7. IsRow(new)
  BY <1>5, <1>6 DEF IsRow
<1>8. Heavy(new)
  BY <1>5, <1>6 DEF Heavy
<1>9. ASSUME NEW k \in 1..m
      PROVE  /\ Weights(new)[k] = Weights(row)[2 * k - 1] + Weights(row)[2 * k]
             /\ \A s \in Symbols : Column(new, s)[k] = Column(row, s)[2 * k - 1] + Column(row, s)[2 * k]
  BY <1>1, <1>5, <1>6 DEF Weights, Column, n
<1> QED BY <1>6, <1>7, <1>8, <1>9 DEF n, m, new

\* Who picks the lightest merged coins of a row in order has the lightest coins
\* of the row.
LEMMA MergedLightest ==
  ASSUME freq \in Seq(Nat), NEW row, IsRow(row), Ordered(row),
         NEW a \in Picks(Len(row) \div 2), Lightest(Merged(row), a)
  PROVE  Lightest(row, Spread(a, Len(row)))
<1> DEFINE n == Len(row)
           m == n \div 2
           b == Spread(a, n)
           w == Weights(row)
           v == Weights(Merged(row))
<1>1. /\ n \in Nat /\ m \in Nat /\ 2 * m \in 0..n
      /\ \A k \in 1..m : 2 * k - 1 \in 1..n /\ 2 * k \in 1..n
      /\ \A i \in 1..2 * m : (i + 1) \div 2 \in 1..m /\ (i = 2 * ((i + 1) \div 2) - 1 \/ i = 2 * ((i + 1) \div 2))
  BY RowValues, Halves
<1>2. w \in [1..n -> Nat] /\ \A i, j \in 1..n : i <= j => w[i] <= w[j]
  BY RowValues DEF Ordered, Weights
<1>3. Len(Merged(row)) = m /\ \A k \in 1..m : v[k] = w[2 * k - 1] + w[2 * k]
  BY MergedRow
<1>4. PICK theta \in Nat : LightestBy(a, v, m, theta)
  BY <1>3 DEF Lightest
<1>5. b \in Picks(n) /\ \A k \in 1..m : b[2 * k - 1] = a[k] /\ b[2 * k] = a[k]
  BY <1>1, SpreadAt
<1>6. \A i \in 1..n : b[i] = IF i <= 2 * m THEN a[(i + 1) \div 2] ELSE 0
  BY DEF Spread
<1>7. a \in Picks(m) /\ \A k \in 1..m : a[k] \in {0, 1}
  BY DEF Picks
<1> HIDE DEF n, m, b, w, v
<1>8. CASE \A k \in 1..m : a[k] = 0
  <2>1. ASSUME NEW i \in 1..n PROVE b[i] = 0
    <3>1. CASE i <= 2 * m
      <4>1. i \in 1..2 * m
        BY <3>1, <1>1
      <4>2. (i + 1) \div 2 \in 1..m
        BY <4>1, <1>1
      <4> QED BY <4>2, <3>1, <1>6, <1>8
    <3>2. CASE ~(i <= 2 * m)
      BY <3>2, <1>6
    <3> QED BY <3>1, <3>2
  <2>2. LightestBy(b, w, n, 0)
    BY <2>1, <1>2 DEF LightestBy
  <2> QED BY <2>2 DEF Lightest, n, w, b
<1>9. CASE \E p \in 1..m : a[p] = 1 /\ \A k \in 1..m : a[k] = 1 => k <= p
  <2>1. PICK p \in 1..m : a[p] = 1 /\ \A k \in 1..m : a[k] = 1 => k <= p
    BY <1>9
  <2>2. 2 * p - 1 \in 1..n /\ 2 * p \in 1..n /\ p \in Nat
    BY <1>1
  <2>3. v[p] <= theta /\ v[p] = w[2 * p - 1] + w[2 * p]
    BY <2>1, <1>3, <1>4 DEF LightestBy
  <2>4. ASSUME NEW i \in 1..n PROVE (b[i] = 1 => w[i] <= w[2 * p]) /\ (b[i] = 0 => w[2 * p] <= w[i])
    <3>1. CASE ~(i <= 2 * m)
      <4>1. b[i] = 0 /\ 2 * p <= i
        BY <3>1, <1>1, <1>6
      <4>2. w[2 * p] <= w[i]
        BY <4>1, <1>2, <2>2
      <4> QED BY <4>1, <4>2
    <3>2. CASE i <= 2 * m
      <4> DEFINE h == (i + 1) \div 2
      <4>1. i \in 1..2 * m
        BY <3>2, <1>1
      <4>2. h \in 1..m /\ (i = 2 * h - 1 \/ i = 2 * h)
        BY <4>1, <1>1
      <4>3. b[i] = a[h]
        BY <3>2, <1>6
      <4> HIDE DEF h
      <4>4. 2 * h - 1 \in 1..n /\ 2 * h \in 1..n /\ h \in Nat
        BY <4>2, <1>1
      <4>5. CASE a[h] = 1
        <5>1. h <= p
          BY <4>5, <4>2, <2>1
        <5>2. i <= 2 * p
          BY <5>1, <4>2, <4>4, <2>2
        <5>3. w[i] <= w[2 * p]
          BY <5>2, <2>2, <1>2
        <5> QED BY <5>3, <4>5, <4>3
      <4>6. CASE a[h] = 0 /\ h > p
        <5>1. 2 * p <= i
          BY <4>6, <4>2, <4>4, <2>2
        <5>2. w[2 * p] <= w[i]
          BY <5>1, <2>2, <1>2
        <5> QED BY <5>2, <4>6, <4>3
      <4>7. CASE a[h] = 0 /\ h < p
        <5>1. theta <= v[h] /\ v[h] = w[2 * h - 1] + w[2 * h]
          BY <4>2, <4>7, <1>3, <1>4 DEF LightestBy
        <5>2. 2 * h - 1 <= 2 * h /\ 2 * h <= 2 * p - 1 /\ 2 * p - 1 <= 2 * p
          BY <4>7, <4>4, <2>2
        <5>3. w[2 * h - 1] <= w[2 * h] /\ w[2 * h] <= w[2 * p - 1] /\ w[2 * p - 1] <= w[2 * p]
          BY <5>2, <4>4, <2>2, <1>2
        <5>4. w[2 * h - 1] \in Nat /\ w[2 * h] \in Nat /\ w[2 * p - 1] \in Nat /\ w[2 * p] \in Nat
          BY <4>4, <2>2, <1>2
        <5>5. w[2 * p] <= w[2 * h - 1] /\ w[2 * p] <= w[2 * h]
          BY <5>1, <5>3, <5>4, <2>3
        <5>6. w[2 * p] <= w[i]
          BY <5>5, <4>2
        <5> QED BY <5>6, <4>3, <4>7
      <4>8. a[h] = 1 \/ a[h] = 0
        BY <4>2, <1>7
      <4>9. h # p \/ a[h] = 1
        BY <2>1
      <4> QED BY <4>4, <4>5, <4>6, <4>7, <4>8, <4>9, <2>2
    <3> QED BY <3>1, <3>2
  <2>5. w[2 * p] \in Nat /\ LightestBy(b, w, n, w[2 * p])
    BY <2>2, <2>4, <1>2 DEF LightestBy
  <2> QED BY <2>5 DEF Lightest, n, w, b
<1>10. \/ \A k \in 1..m : a[k] = 0
       \/ \E p \in 1..m : a[p] = 1 /\ \A k \in 1..m : a[k] = 1 => k <= p
  BY <1>1, <1>7, LastPicked
<1> QED BY <1>8, <1>9, <1>10

\* A pick of the pairs is a pick of the coins they were made of.
LEMMA MergedPicked ==
  ASSUME freq \in Seq(Nat), NEW row, IsRow(row), NEW a \in Picks(Len(row) \div 2)
  PROVE  /\ Counts(Merged(row), a) = Counts(row, Spread(a, Len(row)))
         /\ Weight(Merged(row), a) = Weight(row, Spread(a, Len(row)))
         /\ Number(row, Spread(a, Len(row))) = 2 * Number(Merged(row), a)
<1> DEFINE n == Len(row)
           m == n \div 2
           new == Merged(row)
           b == Spread(a, n)
<1>1. /\ IsRow(new) /\ Len(new) = m
      /\ \A k \in 1..m :
           /\ Weights(new)[k] = Weights(row)[2 * k - 1] + Weights(row)[2 * k]
           /\ \A s \in Symbols : Column(new, s)[k] = Column(row, s)[2 * k - 1] + Column(row, s)[2 * k]
  BY MergedRow
<1>2. n \in Nat
  BY RowValues
<1>3. /\ Weights(row) \in [1..n -> Int] /\ \A s \in Symbols : Column(row, s) \in [1..n -> Int]
  BY RowValues
<1>4. /\ Weights(new) \in [1..m -> Int] /\ \A s \in Symbols : Column(new, s) \in [1..m -> Int]
  <2> HIDE DEF new
  <2> QED BY <1>1, RowValues
<1> HIDE DEF new
<1>5. Picked(a, Weights(new), m) = Picked(b, Weights(row), n)
  BY <1>1, <1>2, <1>3, <1>4, SpreadPicked
<1>6. ASSUME NEW s \in Symbols PROVE Picked(a, Column(new, s), m) = Picked(b, Column(row, s), n)
  BY <1>1, <1>2, <1>3, <1>4, SpreadPicked
<1>7. Total(b, n) = 2 * Total(a, m)
  BY <1>2, SpreadNumber
<1>8. Counts(new, a) = Counts(row, b)
  BY <1>1, <1>6 DEF Counts
<1> QED BY <1>1, <1>5, <1>7, <1>8 DEF Weight, Number, new

\* Merging the coins of a good row in order makes them worth twice as much.
LEMMA MergedGood ==
  ASSUME freq \in Seq(Nat), NEW row, NEW e, NEW W \in Nat, GoodRow(row, e, W), Ordered(row)
  PROVE  GoodRow(Merged(row), e, 2 * W)
<1> DEFINE n == Len(row)
           m == n \div 2
           new == Merged(row)
<1>1. IsRow(row) /\ Fills(row, e, W) /\ Saves(row, e, W)
  BY DEF GoodRow
<1>2. IsRow(new) /\ Len(new) = m /\ n \in Nat /\ m \in Nat /\ (n = 2 * m \/ n = 2 * m + 1)
  BY <1>1, MergedRow, RowValues, Halves
<1>3. ASSUME NEW a \in Picks(m)
      PROVE  /\ Spread(a, n) \in Picks(n)
             /\ Counts(new, a) = Counts(row, Spread(a, n))
             /\ Weight(new, a) = Weight(row, Spread(a, n))
             /\ Number(row, Spread(a, n)) = 2 * Number(new, a)
             /\ Number(new, a) \in Nat
  <2>1. Spread(a, n) \in Picks(n)
    BY <1>2, SpreadAt
  <2>2. Number(new, a) \in Nat
    BY <1>2, NumberAtMost DEF Number
  <2> QED BY <2>1, <2>2, <1>1, MergedPicked
<1>4. \A a \in Picks(m) : Lightest(new, a) => Lightest(row, Spread(a, n))
  BY <1>1, MergedLightest
<1> HIDE DEF new
<1>5. Fills(new, e, 2 * W)
  <2> SUFFICES ASSUME NEW a \in Picks(m), Lightest(new, a)
               PROVE  Counts(new, a) \in Depths(e) /\ Width(Counts(new, a), e) = Number(new, a) * (2 * W)
    BY <1>2 DEF Fills
  <2> DEFINE b == Spread(a, n)
  <2>1. b \in Picks(n) /\ Lightest(row, b)
    BY <1>3, <1>4
  <2>2. Counts(row, b) \in Depths(e) /\ Width(Counts(row, b), e) = Number(row, b) * W
    <3> HIDE DEF b
    <3> QED BY <2>1, <1>1 DEF Fills
  <2>3. \A x \in Nat : (2 * x) * W = x * (2 * W)
    OBVIOUS
  <2>4. Number(row, b) * W = Number(new, a) * (2 * W)
    BY <2>3, <1>3
  <2> QED BY <2>2, <2>4, <1>3
<1>6. Saves(new, e, 2 * W)
  <2> SUFFICES ASSUME NEW t \in Depths(e), NEW k \in Nat, k * (2 * W) <= Width(t, e)
               PROVE  \E c \in Picks(m) : Bought(new, c, k, t)
    BY <1>2 DEF Saves
  <2>1. 2 * k \in Nat /\ (2 * k) * W = k * (2 * W)
    <3>1. \A x \in Nat : (2 * x) * W = x * (2 * W)
      OBVIOUS
    <3> QED BY <3>1
  <2>2. PICK c \in Picks(n) : Bought(row, c, 2 * k, t)
    <3>1. (2 * k) * W <= Width(t, e)
      BY <2>1
    <3> QED BY <2>1, <3>1, <1>1 DEF Saves
  <2>3. Number(row, c) >= 2 * k /\ Weight(row, c) <= Price(t) /\ Number(row, c) \in 0..n
    BY <2>2, <1>2, NumberAtMost DEF Bought, Number
  <2>4. k \in 0..m /\ 2 * k \in 0..n
    BY <2>3, <1>2
  <2> DEFINE a == First(m, k)
             b == First(n, 2 * k)
  <2>5. a \in Picks(m) /\ Total(a, m) = k /\ b \in Picks(n) /\ Total(b, n) = 2 * k
    BY <2>4, <1>2, FirstPicked
  <2>6. Spread(a, n) = b
    BY <2>4, <1>2, SpreadFirst
  <2>7. PICK theta \in Nat : LightestBy(b, Weights(row), n, theta)
    <3>1. Lightest(row, b)
      BY <2>4, <1>1, FirstLightest
    <3> HIDE DEF b
    <3> QED BY <3>1 DEF Lightest
  <2> HIDE DEF a, b
  <2>8. Weight(row, b) <= Weight(row, c)
    <3>1. Weights(row) \in [1..n -> Nat]
      BY <1>1, RowValues
    <3>2. Total(b, n) <= Total(c, n)
      BY <2>5, <2>3, <2>4 DEF Number
    <3>3. n \in Nat /\ c \in Picks(n) /\ b \in Picks(n)
      BY <1>2, <2>5
    <3>4. Picked(b, Weights(row), n) <= Picked(c, Weights(row), n)
      <4> HIDE DEF n
      <4> QED BY <3>1, <3>2, <3>3, <2>7, LightestWeigh
    <3> QED BY <3>4 DEF Weight
  <2>9. Weight(new, a) = Weight(row, b) /\ Number(new, a) = k
    BY <2>5, <2>6, <1>2, <1>3 DEF Number
  <2>10. Weight(row, b) \in Nat /\ Weight(row, c) \in Nat
    <3>1. Weights(row) \in [1..n -> Nat]
      BY <1>1, RowValues
    <3> QED BY <3>1, <2>5, <1>2, PickedNat DEF Weight
  <2>11. Price(t) \in Nat
    <3>1. \A s \in Symbols : t[s] \in Nat
      BY DEF Depths
    <3> QED BY <3>1, PriceAtLeast
  <2>12. Bought(new, a, k, t)
    BY <2>3, <2>8, <2>9, <2>10, <2>11 DEF Bought
  <2> QED BY <2>5, <2>12
<1> QED BY <1>2, <1>5, <1>6 DEF GoodRow, new

-----------------------------------------------------------------------------
\* The symbols of a set below n, in their order.
Longer(l, S, n) == IF n \in S THEN Append(l, n) ELSE l
ListsOf(l, S, N) ==
  /\ l[0] = <<>>
  /\ \A m \in 1..N : l[m] = IF m - 1 \in S THEN Append(l[m - 1], m - 1) ELSE l[m - 1]
  /\ \A m \in 0..N : InOrder(S, m) = l[m]

\* The list of the members of a set below n, one n after the other.
LEMMA InOrderFollows ==
  ASSUME NEW N \in Nat, NEW S
  PROVE  \E l \in [0..N -> Seq(Nat)] : ListsOf(l, S, N)
<1> DEFINE V == Seq(Nat)
           step == [ml \in (1..N) \X V |-> IF ml[1] - 1 \in S THEN Append(ml[2], ml[1] - 1) ELSE ml[2]]
<1>1. step \in Steps(V, N)
  <2> SUFFICES ASSUME NEW m \in 1..N, NEW l \in V PROVE (IF m - 1 \in S THEN Append(l, m - 1) ELSE l) \in V
    BY DEF Steps
  <2>1. m - 1 \in Nat
    OBVIOUS
  <2> QED BY <2>1
<1>2. <<>> \in V
  OBVIOUS
<1> HIDE DEF V
<1>3. PICK l \in [0..N -> V] : Follows(l, N, <<>>, step)
  <2> HIDE DEF step
  <2>1. IsDefinedBy(V, N, <<>>, step)
    BY <1>1, <1>2, Recursion
  <2> QED BY <2>1 DEF IsDefinedBy
<1>4. ASSUME NEW m \in 1..N PROVE l[m] = IF m - 1 \in S THEN Append(l[m - 1], m - 1) ELSE l[m - 1]
  <2>1. <<m, l[m - 1]>> \in (1..N) \X V
    OBVIOUS
  <2>2. step[<<m, l[m - 1]>>] = IF m - 1 \in S THEN Append(l[m - 1], m - 1) ELSE l[m - 1]
    BY <2>1
  <2> QED BY <2>2, <1>3 DEF Follows
<1>5. l[0] = <<>>
  BY <1>3 DEF Follows
<1>6. ASSUME NEW n \in 0..N PROVE InOrder(S, n) = l[n]
  <2> DEFINE Body(x) == x = [m \in 0..n |-> IF m = 0 THEN <<>> ELSE IF m - 1 \in S THEN Append(x[m - 1], m - 1) ELSE x[m - 1]]
             E == CHOOSE x : Body(x)
             h == [m \in 0..n |-> l[m]]
  <2>1. Body(h)
    <3>1. ASSUME NEW m \in 0..n
          PROVE  h[m] = IF m = 0 THEN <<>> ELSE IF m - 1 \in S THEN Append(h[m - 1], m - 1) ELSE h[m - 1]
      <4>1. CASE m = 0
        BY <4>1, <1>5
      <4>2. CASE m # 0
        <5>1. m \in 1..N /\ m - 1 \in 0..n
          BY <4>2
        <5>2. h[m] = l[m] /\ h[m - 1] = l[m - 1]
          BY <5>1
        <5> QED BY <4>2, <5>1, <5>2, <1>4
      <4> QED BY <4>1, <4>2
    <3>2. h = [m \in 0..n |-> h[m]]
      OBVIOUS
    <3> HIDE DEF h
    <3> QED BY <3>1, <3>2
  <2>2. Body(E)
    <3> HIDE DEF Body
    <3> QED BY <2>1, Zenon
  <2>3. InOrder(S, n) = E[n]
    BY DEF InOrder
  <2>4. GoesAlong(E, h, n)
    <3> DEFINE Extended(l1, m) == IF m - 1 \in S THEN Append(l1, m - 1) ELSE l1
    <3>1. ASSUME NEW x, x = [m \in 0..n |-> IF m = 0 THEN <<>> ELSE Extended(x[m - 1], m)]
          PROVE  x[0] = <<>> /\ \A m \in 1..n : x[m] = Extended(x[m - 1], m)
      <4> HIDE DEF Extended
      <4> QED BY <3>1
    <3>2. E = [m \in 0..n |-> IF m = 0 THEN <<>> ELSE Extended(E[m - 1], m)]
      <4> HIDE DEF E
      <4> QED BY <2>2, Zenon
    <3>3. h = [m \in 0..n |-> IF m = 0 THEN <<>> ELSE Extended(h[m - 1], m)]
      <4> HIDE DEF h
      <4> QED BY <2>1, Zenon
    <3> HIDE DEF E, h, Extended
    <3>4. E[0] = <<>> /\ \A m \in 1..n : E[m] = Extended(E[m - 1], m)
      BY <3>1, <3>2
    <3>5. h[0] = <<>> /\ \A m \in 1..n : h[m] = Extended(h[m - 1], m)
      BY <3>1, <3>3
    <3> QED BY <3>4, <3>5 DEF GoesAlong
  <2>5. E[n] = h[n]
    <3>1. n \in Nat
      OBVIOUS
    <3> HIDE DEF E, h
    <3> QED BY ONLY <2>4, <3>1, RecursionUnique
  <2> QED BY <2>3, <2>5
<1> QED BY <1>4, <1>5, <1>6 DEF ListsOf, V

\* The list grows by n when n is a member.
LEMMA InOrderSteps ==
  ASSUME NEW N \in Nat, NEW S
  PROVE  /\ InOrder(S, 0) = <<>>
         /\ \A n \in 0..N : InOrder(S, n) \in Seq(Nat)
         /\ \A n \in 0..N - 1 : InOrder(S, n + 1) = Longer(InOrder(S, n), S, n)
<1>1. PICK l \in [0..N -> Seq(Nat)] : ListsOf(l, S, N)
  BY InOrderFollows
<1>2. \A n \in 0..N - 1 : n + 1 \in 1..N /\ n + 1 \in 0..N /\ (n + 1) - 1 = n /\ n \in 0..N
  OBVIOUS
<1>3. 0 \in 0..N
  OBVIOUS
<1>4. InOrder(S, 0) = <<>>
  BY <1>1, <1>3 DEF ListsOf
<1>5. \A n \in 0..N : InOrder(S, n) \in Seq(Nat)
  BY <1>1 DEF ListsOf
<1>6. ASSUME NEW n \in 0..N - 1
      PROVE  InOrder(S, n + 1) = Longer(InOrder(S, n), S, n)
  <2>1. InOrder(S, n + 1) = l[n + 1] /\ InOrder(S, n) = l[n]
    BY <1>1, <1>2 DEF ListsOf
  <2>2. l[n + 1] = IF (n + 1) - 1 \in S THEN Append(l[(n + 1) - 1], (n + 1) - 1) ELSE l[(n + 1) - 1]
    BY <1>1, <1>2 DEF ListsOf
  <2> QED BY <2>1, <2>2, <1>2 DEF Longer
<1> QED BY <1>4, <1>5, <1>6

\* They are there once each, and a sum along the list is a sum over the set.
Lists(l, S, n) ==
  /\ l \in Seq(Nat)
  /\ \A j \in 1..Len(l) : l[j] \in S /\ l[j] < n
  /\ \A i, j \in 1..Len(l) : i < j => l[i] < l[j]
  /\ \A s \in S : s < n => \E j \in 1..Len(l) : l[j] = s

\* The list holds the members, each once.
LEMMA InOrderLists ==
  ASSUME NEW N \in Nat, NEW S, S \subseteq Nat
  PROVE  \A n \in 0..N : Lists(InOrder(S, n), S, n)
<1> DEFINE R == {n \in 0..N : Lists(InOrder(S, n), S, n)}
<1>1. 0 \in R
  <2>1. InOrder(S, 0) = <<>>
    BY InOrderSteps
  <2>2. Lists(<<>>, S, 0)
    BY DEF Lists
  <2> QED BY <2>1, <2>2
<1>2. ASSUME NEW n \in 0..N - 1, n \in R PROVE n + 1 \in R
  <2> DEFINE l == InOrder(S, n)
             k == InOrder(S, n + 1)
  <2>0. k = Longer(l, S, n)
    BY InOrderSteps
  <2>1. k = IF n \in S THEN Append(l, n) ELSE l
    BY <2>0 DEF Longer
  <2>2. Lists(l, S, n)
    BY <1>2
  <2> HIDE DEF l, k
  <2>3. CASE n \notin S
    <3>1. \A s \in S : s < n + 1 => s < n
      BY <2>3
    <3>2. \A s \in Nat : s < n => s < n + 1
      OBVIOUS
    <3>3. Lists(l, S, n + 1)
      BY <2>2, <3>1, <3>2 DEF Lists
    <3> QED BY <2>1, <2>3, <3>3 DEF k
  <2>4. CASE n \in S
    <3>1. k = Append(l, n) /\ l \in Seq(Nat) /\ n \in Nat
      BY <2>1, <2>4, <2>2 DEF Lists
    <3>2. /\ k \in Seq(Nat) /\ Len(k) = Len(l) + 1 /\ k[Len(l) + 1] = n /\ Len(l) \in Nat
          /\ \A j \in 1..Len(l) : k[j] = l[j]
      BY <3>1
    <3>3. \A j \in 1..Len(l) : l[j] \in S /\ l[j] < n /\ l[j] \in Nat
      BY <2>2, <3>1 DEF Lists
    <3>4. ASSUME NEW j \in 1..Len(k) PROVE k[j] \in S /\ k[j] < n + 1
      <4>1. j \in 1..Len(l) \/ j = Len(l) + 1
        BY <3>2
      <4> QED BY <4>1, <3>2, <3>3, <2>4
    <3>5. ASSUME NEW i \in 1..Len(k), NEW j \in 1..Len(k), i < j PROVE k[i] < k[j]
      <4>0. \A h \in Nat : \A p, q \in 1..h + 1 : p < q => p \in 1..h /\ (q \in 1..h \/ q = h + 1)
        OBVIOUS
      <4>1. i \in 1..Len(l) /\ (j \in 1..Len(l) \/ j = Len(l) + 1)
        BY <4>0, <3>2, <3>5
      <4>2. j \in 1..Len(l) => l[i] < l[j]
        BY <4>1, <3>5, <2>2 DEF Lists
      <4> QED BY <4>1, <4>2, <3>2, <3>3
    <3>6. ASSUME NEW s \in S, s < n + 1 PROVE \E j \in 1..Len(k) : k[j] = s
      <4>1. CASE s = n
        BY <4>1, <3>2
      <4>2. CASE s # n
        <5>1. s < n
          BY <4>2, <3>6
        <5>2. PICK j \in 1..Len(l) : l[j] = s
          BY <5>1, <2>2 DEF Lists
        <5>3. j \in 1..Len(k) /\ k[j] = s
          BY <5>2, <3>2
        <5> QED BY <5>3
      <4> QED BY <4>1, <4>2
    <3>7. Lists(k, S, n + 1)
      BY <3>2, <3>4, <3>5, <3>6 DEF Lists
    <3> QED BY <3>7 DEF k
  <2> QED BY <2>3, <2>4
<1> HIDE DEF R
<1>3. 0..N \subseteq R
  BY <1>1, <1>2, UpToN
<1> QED BY <1>3 DEF R

\* A total over the list is one over the set.
LEMMA InOrderTotal ==
  ASSUME NEW N \in Nat, NEW S, S \subseteq Nat, NEW g, \A s \in 0..N - 1 : g[s] \in Int
  PROVE  Total([j \in 1..Len(InOrder(S, N)) |-> g[InOrder(S, N)[j]]], Len(InOrder(S, N)))
           = Total([k \in 1..N |-> IF k - 1 \in S THEN g[k - 1] ELSE 0], N)
<1> DEFINE f == [k \in 1..N |-> IF k - 1 \in S THEN g[k - 1] ELSE 0]
           along(l) == [j \in 1..Len(l) |-> g[l[j]]]
           R == {n \in 0..N : Total(along(InOrder(S, n)), Len(InOrder(S, n))) = Total(f, n)}
<1>1. \A k \in 1..N : f[k] = (IF k - 1 \in S THEN g[k - 1] ELSE 0) /\ f[k] \in Int
  <2> SUFFICES ASSUME NEW k \in 1..N PROVE (IF k - 1 \in S THEN g[k - 1] ELSE 0) \in Int
    OBVIOUS
  <2>1. k - 1 \in 0..N - 1
    OBVIOUS
  <2> QED BY <2>1
<1> HIDE DEF f
<1>2. Ints(f, N)
  BY <1>1 DEF Ints
<1>3. \A n \in 0..N : Lists(InOrder(S, n), S, n)
  BY InOrderLists
<1>4. \A n \in 0..N : Ints(along(InOrder(S, n)), Len(InOrder(S, n))) /\ Len(InOrder(S, n)) \in Nat
  <2> SUFFICES ASSUME NEW n \in 0..N PROVE Ints(along(InOrder(S, n)), Len(InOrder(S, n))) /\ Len(InOrder(S, n)) \in Nat
    OBVIOUS
  <2> DEFINE l == InOrder(S, n)
  <2>1. Lists(l, S, n)
    BY <1>3
  <2> HIDE DEF l
  <2>2. l \in Seq(Nat) /\ \A j \in 1..Len(l) : l[j] \in Nat /\ l[j] < n
    BY <2>1 DEF Lists
  <2>3. \A j \in 1..Len(l) : l[j] \in 0..N - 1
    BY <2>2
  <2>4. Ints(along(l), Len(l)) /\ Len(l) \in Nat
    BY <2>2, <2>3 DEF Ints
  <2> QED BY <2>4 DEF l
<1>5. 0 \in R
  <2>1. InOrder(S, 0) = <<>> /\ Total(f, 0) = 0
    BY <1>2, InOrderSteps, TotalSteps
  <2>2. Len(InOrder(S, 0)) = 0 /\ Ints(along(<<>>), 0)
    BY <2>1 DEF Ints
  <2>3. Total(along(<<>>), 0) = 0
    <3> HIDE DEF along
    <3> QED BY <2>2, TotalSteps
  <2> HIDE DEF along
  <2> QED BY <2>1, <2>2, <2>3
<1>6. ASSUME NEW n \in 0..N - 1, n \in R PROVE n + 1 \in R
  <2> DEFINE l == InOrder(S, n)
             m == InOrder(S, n + 1)
  <2>0. m = Longer(l, S, n)
    BY InOrderSteps
  <2>1. m = IF n \in S THEN Append(l, n) ELSE l
    BY <2>0 DEF Longer
  <2>2. Total(along(l), Len(l)) = Total(f, n)
    BY <1>6
  <2>3. Lists(l, S, n) /\ Ints(along(l), Len(l)) /\ Ints(along(m), Len(m)) /\ Len(l) \in Nat /\ Len(m) \in Nat
    <3>1. n \in 0..N /\ n + 1 \in 0..N
      OBVIOUS
    <3> HIDE DEF along
    <3> QED BY <3>1, <1>3, <1>4
  <2>4. Total(f, n + 1) = Total(f, n) + f[n + 1] /\ Total(f, n) \in Int
    <3>1. n \in 0..N
      OBVIOUS
    <3> QED BY <3>1, <1>2, TotalSteps
  <2>5. f[n + 1] = IF n \in S THEN g[n] ELSE 0
    <3>1. n + 1 \in 1..N /\ (n + 1) - 1 = n
      OBVIOUS
    <3> QED BY <3>1, <1>1
  <2> HIDE DEF l, m
  <2>6. CASE n \notin S
    <3>1. m = l
      BY <2>1, <2>6
    <3>2. Total(along(m), Len(m)) = Total(f, n + 1)
      <4> HIDE DEF along
      <4> QED BY <3>1, <2>2, <2>4, <2>5, <2>6
    <3> HIDE DEF along
    <3> QED BY <3>2 DEF m
  <2>7. CASE n \in S
    <3>1. l \in Seq(Nat) /\ n \in Nat /\ m = Append(l, n)
      BY <2>1, <2>3, <2>7 DEF Lists
    <3>2. Len(m) = Len(l) + 1 /\ m[Len(l) + 1] = n /\ \A j \in 1..Len(l) : m[j] = l[j]
      BY <3>1
    <3>3. (\A j \in 1..Len(l) : along(m)[j] = along(l)[j]) /\ along(m)[Len(l) + 1] = g[n]
      BY <3>2, <2>3
    <3> HIDE DEF along
    <3>4. Total(along(m), Len(l)) = Total(along(l), Len(l))
      BY <2>3, <3>3, TotalSame
    <3>5. Total(along(m), Len(l) + 1) = Total(along(m), Len(l)) + along(m)[Len(l) + 1]
      <4>1. Len(l) \in 0..Len(m) - 1
        BY <3>2, <2>3
      <4> QED BY <4>1, <2>3, TotalSteps
    <3>6. Total(along(m), Len(m)) = Total(f, n + 1)
      BY <3>2, <3>3, <3>4, <3>5, <2>2, <2>4, <2>5, <2>7
    <3> QED BY <3>6 DEF m
  <2> QED BY <2>6, <2>7
<1> HIDE DEF R
<1>7. 0..N \subseteq R
  BY <1>5, <1>6, UpToN
<1>8. N \in R
  BY <1>7
<1> QED BY <1>8 DEF R, f

-----------------------------------------------------------------------------
\* A sum with one summand that counts.
LEMMA TotalOne ==
  ASSUME NEW N \in Nat, NEW f, NEW i \in 1..N, f[i] \in Int, \A k \in 1..N : k # i => f[k] = 0
  PROVE  Total(f, N) = f[i]
<1> DEFINE z == [k \in 1..N |-> 0]
<1>1. Ints(f, N) /\ Ints(z, N) /\ z[i] = 0 /\ (\A k \in 1..N : z[k] = 0) /\ \A k \in 1..N : k # i => f[k] = z[k]
  BY DEF Ints
<1> HIDE DEF z
<1>2. Total(z, N) = 0 * N
  BY <1>1, TotalConstant
<1>3. Total(f, N) = Total(z, N) - z[i] + f[i]
  BY <1>1, TotalReplaced
<1> QED BY <1>1, <1>2, <1>3

\* The coins of the symbols.
LEMMA PresentIs ==
  ASSUME freq \in Seq(Nat)
  PROVE  /\ numcodes \in Nat /\ numpresent \in Nat /\ PresentSet \subseteq Nat
         /\ \A s \in Symbols : s \in Nat /\ Freq(s) \in Nat /\ (s \in PresentSet <=> Freq(s) > 0)
         /\ Lists(Present, PresentSet, numcodes)
         /\ \A j \in 1..numpresent : Present[j] \in Symbols /\ Present[j] \in PresentSet
         /\ \A s \in PresentSet : \E j \in 1..numpresent : Present[j] = s
         /\ \A i, j \in 1..numpresent : i # j => Present[i] # Present[j]
<1>1. numcodes \in Nat
  BY DEF numcodes
<1>2. \A s \in Symbols : s \in Nat /\ Freq(s) \in Nat
  <2> SUFFICES ASSUME NEW s \in Symbols PROVE s \in Nat /\ Freq(s) \in Nat
    OBVIOUS
  <2>1. s \in Nat /\ s + 1 \in 1..Len(freq)
    BY <1>1 DEF Symbols, numcodes
  <2> QED BY <2>1 DEF Freq
<1>3. PresentSet \subseteq Nat /\ \A s \in Symbols : s \in PresentSet <=> Freq(s) > 0
  BY <1>2 DEF PresentSet
<1>4. Lists(Present, PresentSet, numcodes)
  <2>1. numcodes \in 0..numcodes
    BY <1>1
  <2> QED BY <2>1, <1>1, <1>3, InOrderLists DEF Present
<1>5. Present \in Seq(Nat) /\ numpresent \in Nat /\ \A j \in 1..numpresent : Present[j] \in Nat
  BY <1>4 DEF Lists, numpresent
<1>6. \A j \in 1..numpresent : Present[j] \in Symbols /\ Present[j] \in PresentSet
  BY <1>4 DEF Lists, numpresent, PresentSet
<1>7. ASSUME NEW s \in PresentSet PROVE \E j \in 1..numpresent : Present[j] = s
  <2>1. s \in Symbols /\ s < numcodes
    BY <1>1 DEF PresentSet, Symbols
  <2> QED BY <2>1, <1>4 DEF Lists, numpresent
<1>8. \A i, j \in 1..numpresent : i # j => Present[i] # Present[j]
  <2> SUFFICES ASSUME NEW i \in 1..numpresent, NEW j \in 1..numpresent, i # j PROVE Present[i] # Present[j]
    OBVIOUS
  <2>1. i < j \/ j < i
    BY <1>5
  <2>2. (i < j => Present[i] < Present[j]) /\ (j < i => Present[j] < Present[i])
    BY <1>4 DEF Lists, numpresent
  <2> QED BY <2>1, <2>2, <1>5
<1> QED BY <1>1, <1>2, <1>3, <1>4, <1>5, <1>6, <1>7, <1>8

\* The coins of the symbols: one for each symbol that occurs, as heavy as it is frequent.
LEMMA SymbolCoinsAre ==
  ASSUME freq \in Seq(Nat)
  PROVE  /\ IsRow(SymbolCoins) /\ Len(SymbolCoins) = numpresent
         /\ \A j \in 1..numpresent : Weights(SymbolCoins)[j] = Freq(Present[j])
         /\ \A s \in Symbols : \A j \in 1..numpresent : Column(SymbolCoins, s)[j] = IF s = Present[j] THEN 1 ELSE 0
<1> DEFINE q == numpresent
           row == SymbolCoins
           only(j) == [s \in Symbols |-> IF s = Present[j] THEN 1 ELSE 0]
<1>1. /\ numcodes \in Nat /\ q \in Nat
      /\ \A s \in Symbols : s \in Nat /\ Freq(s) \in Nat /\ (s \in PresentSet <=> Freq(s) > 0)
      /\ \A j \in 1..q : Present[j] \in Symbols /\ Present[j] \in PresentSet
  BY PresentIs
<1>2. row = [j \in 1..q |-> [weight |-> Freq(Present[j]), symbols |-> only(j)]]
  BY DEF SymbolCoins
<1>2b. row = [j \in 1..q |-> row[j]]
  BY DEF SymbolCoins
<1> HIDE DEF q, row
<1>3. ASSUME NEW j \in 1..q PROVE IsCoin(row[j])
  <2> DEFINE t == only(j)
             p == Present[j]
             f == [k \in 1..numcodes |-> freq[k] * t[k - 1]]
  <2>1. row[j] = [weight |-> Freq(p), symbols |-> t]
    BY <1>2
  <2>2. p \in Symbols /\ Freq(p) \in Nat /\ Freq(p) > 0 /\ p \in Nat
    BY <1>1
  <2>3. \A s \in Symbols : t[s] = IF s = p THEN 1 ELSE 0
    OBVIOUS
  <2>4. t \in [Symbols -> Nat]
    OBVIOUS
  <2> HIDE DEF t, p
  <2>5. row[j] \in Coin
    BY <2>1, <2>2, <2>4 DEF Coin
  <2>6. /\ \A k \in 1..numcodes : k - 1 \in Symbols /\ freq[k] \in Nat /\ freq[k] = Freq(k - 1)
        /\ \A k \in 1..numcodes : f[k] = freq[k] * t[k - 1]
    BY <2>4, PriceTerms
  <2> HIDE DEF f
  <2>7. p + 1 \in 1..numcodes /\ (p + 1) - 1 = p
    BY <2>2, <1>1 DEF Symbols
  <2>8. f[p + 1] = Freq(p)
    <3>1. f[p + 1] = freq[p + 1] * t[p] /\ t[p] = 1 /\ freq[p + 1] = Freq(p)
      BY <2>2, <2>3, <2>6, <2>7
    <3> QED BY <3>1, <2>2
  <2>9. ASSUME NEW k \in 1..numcodes, k # p + 1 PROVE f[k] = 0
    <3>1. k - 1 \in Symbols /\ k - 1 # p
      BY <2>6, <2>9, <2>2
    <3>2. t[k - 1] = 0 /\ freq[k] \in Nat
      BY <3>1, <2>3, <2>6
    <3> QED BY <3>2, <2>6
  <2>10. Total(f, numcodes) = Freq(p)
    <3>1. f[p + 1] \in Int
      BY <2>8, <2>2
    <3> QED BY <3>1, <2>7, <2>8, <2>9, <1>1, TotalOne
  <2>11. Price(t) = Freq(p)
    BY <2>10 DEF Price, f
  <2>12. \A s \in Symbols : Freq(s) = 0 => t[s] = 0
    BY <2>2, <2>3
  <2> QED BY <2>1, <2>2, <2>5, <2>11, <2>12 DEF IsCoin
<1>4. row \in Seq(Coin) /\ Len(row) = q
  <2>1. \A j \in 1..q : row[j] \in Coin
    BY <1>3 DEF IsCoin
  <2> QED BY ONLY <2>1, <1>2b, <1>1
<1>5. IsRow(row)
  BY <1>3, <1>4 DEF IsRow
<1>6. ASSUME NEW j \in 1..q PROVE Weights(row)[j] = Freq(Present[j])
  BY <1>2, <1>4 DEF Weights
<1>7. ASSUME NEW s \in Symbols, NEW j \in 1..q PROVE Column(row, s)[j] = IF s = Present[j] THEN 1 ELSE 0
  BY <1>2, <1>4 DEF Column
<1> QED BY <1>4, <1>5, <1>6, <1>7 DEF q, row

\* Of codes that have a bit each or none: how many there are.
Several(u) == Total([k \in 1..numcodes |-> u[k - 1]], numcodes)
OneOrNone == {u \in [Symbols -> {0, 1}] : \A s \in Symbols : Freq(s) = 0 => u[s] = 0}

\* Picking coins of the symbols is choosing a set of symbols.
LEMMA SymbolPicks ==
  ASSUME freq \in Seq(Nat), NEW a \in Picks(numpresent), NEW u \in OneOrNone,
         \A j \in 1..numpresent : u[Present[j]] = a[j]
  PROVE  /\ Counts(SymbolCoins, a) = u
         /\ Number(SymbolCoins, a) = Several(u)
         /\ Weight(SymbolCoins, a) = Price(u)
<1> DEFINE q == numpresent
           row == SymbolCoins
<1>1. /\ numcodes \in Nat /\ q \in Nat /\ PresentSet \subseteq Nat
      /\ \A s \in Symbols : s \in Nat /\ Freq(s) \in Nat /\ (s \in PresentSet <=> Freq(s) > 0)
      /\ \A j \in 1..q : Present[j] \in Symbols /\ Present[j] \in PresentSet
      /\ \A s \in PresentSet : \E j \in 1..q : Present[j] = s
      /\ \A i, j \in 1..q : i # j => Present[i] # Present[j]
  BY PresentIs
<1>2. /\ IsRow(row) /\ Len(row) = q
      /\ \A j \in 1..q : Weights(row)[j] = Freq(Present[j])
      /\ \A s \in Symbols : \A j \in 1..q : Column(row, s)[j] = IF s = Present[j] THEN 1 ELSE 0
  BY SymbolCoinsAre
<1>3. a \in [1..q -> {0, 1}] /\ u \in [Symbols -> {0, 1}] /\ \A s \in Symbols : Freq(s) = 0 => u[s] = 0
  BY DEF Picks, OneOrNone
<1>4. \A j \in 1..q : u[Present[j]] = a[j]
  OBVIOUS
<1>5. Weights(row) \in [1..q -> Int] /\ \A s \in Symbols : Column(row, s) \in [1..q -> Int]
  BY <1>2, RowValues
<1> HIDE DEF q, row
<1>6. a \in Picks(q)
  BY <1>3 DEF Picks
<1>7. ASSUME NEW s \in Symbols PROVE Picked(a, Column(row, s), q) = u[s]
  <2> DEFINE c == Column(row, s)
             f == Terms(a, c, q)
  <2>1. \A j \in 1..q : f[j] = IF a[j] = 1 THEN c[j] ELSE 0
    <3>1. c \in [1..q -> Int]
      BY <1>5
    <3>2. q \in Nat
      BY <1>1
    <3> HIDE DEF c
    <3>3. \A k \in 1..q : Terms(a, c, q)[k] = IF a[k] = 1 THEN c[k] ELSE 0
      BY ONLY <3>1, <3>2, <1>6, PickedTerms
    <3> QED BY <3>3
  <2> HIDE DEF f
  <2>2. \A j \in 1..q : f[j] = IF s = Present[j] THEN a[j] ELSE 0
    BY <2>1, <1>2, <1>3
  <2>3. CASE s \notin PresentSet
    <3>1. \A j \in 1..q : f[j] = 0
      BY <2>2, <2>3, <1>1
    <3>2. Total(f, q) = 0 * q
      BY <3>1, <1>1, TotalConstant
    <3>3. u[s] = 0
      <4>1. Freq(s) = 0
        BY <2>3, <1>1
      <4> QED BY <4>1, <1>3
    <3> QED BY <3>2, <3>3, <1>1 DEF Picked, f
  <2>4. CASE s \in PresentSet
    <3>1. PICK i \in 1..q : Present[i] = s
      BY <2>4, <1>1
    <3>2. f[i] = u[s] /\ f[i] \in Int
      BY <3>1, <2>2, <1>3, <1>4
    <3>3. \A k \in 1..q : k # i => f[k] = 0
      BY <3>1, <2>2, <1>1
    <3>4. Total(f, q) = f[i]
      BY <3>2, <3>3, <1>1, TotalOne
    <3> QED BY <3>2, <3>4 DEF Picked, f
  <2> QED BY <2>3, <2>4
<1>8. Counts(row, a) = u
  <2>1. Counts(row, a) = [s \in Symbols |-> u[s]]
    BY <1>7, <1>2 DEF Counts
  <2> QED BY <2>1, <1>3
<1>9. ASSUME NEW g, \A s \in Symbols : g[s] \in Int /\ (Freq(s) = 0 => g[s] = 0)
      PROVE  Total([j \in 1..q |-> g[Present[j]]], q) = Total([k \in 1..numcodes |-> g[k - 1]], numcodes)
  <2> DEFINE x == [k \in 1..numcodes |-> IF k - 1 \in PresentSet THEN g[k - 1] ELSE 0]
             y == [k \in 1..numcodes |-> g[k - 1]]
  <2>1. \A s \in 0..numcodes - 1 : g[s] \in Int
    BY <1>9 DEF Symbols
  <2>2. Total([j \in 1..q |-> g[Present[j]]], q) = Total(x, numcodes)
    BY <2>1, <1>1, InOrderTotal DEF q, numpresent, Present
  <2>3. ASSUME NEW k \in 1..numcodes PROVE x[k] = y[k] /\ x[k] \in Int
    <3>1. k - 1 \in Symbols
      BY <1>1 DEF Symbols
    <3>2. k - 1 \notin PresentSet => g[k - 1] = 0
      BY <3>1, <1>1, <1>9
    <3> QED BY <3>1, <3>2, <1>9
  <2> HIDE DEF x, y
  <2>4. Ints(x, numcodes)
    BY <2>3 DEF Ints
  <2>5. Total(x, numcodes) = Total(y, numcodes)
    BY <2>3, <2>4, <1>1, TotalSame
  <2> QED BY <2>2, <2>5 DEF y
<1>10. Number(row, a) = Several(u)
  <2> DEFINE x == [j \in 1..q |-> u[Present[j]]]
  <2>1. \A s \in Symbols : u[s] \in Int /\ (Freq(s) = 0 => u[s] = 0)
    BY <1>3
  <2>2. Total(x, q) = Several(u)
    BY <2>1, <1>9 DEF Several
  <2>3. \A j \in 1..q : a[j] = x[j] /\ a[j] \in Int
    BY <1>3, <1>4
  <2> HIDE DEF x
  <2>4. Total(a, q) = Total(x, q)
    <3>1. Ints(a, q)
      BY <2>3 DEF Ints
    <3> QED BY <3>1, <2>3, <1>1, TotalSame
  <2> QED BY <2>2, <2>4, <1>2 DEF Number
<1>11. Weight(row, a) = Price(u)
  <2> DEFINE g == [s \in Symbols |-> Freq(s) * u[s]]
             x == [j \in 1..q |-> g[Present[j]]]
             y == [j \in 1..q |-> a[j] * Weights(row)[j]]
             v == [k \in 1..numcodes |-> g[k - 1]]
             z == [k \in 1..numcodes |-> freq[k] * u[k - 1]]
  <2>1. ASSUME NEW s \in Symbols PROVE g[s] \in Int /\ (Freq(s) = 0 => g[s] = 0)
    <3>1. Freq(s) \in Nat /\ u[s] \in Nat /\ g[s] = Freq(s) * u[s]
      BY <1>1, <1>3
    <3> QED BY <3>1
  <2>2. Total(x, q) = Total(v, numcodes)
    <3> HIDE DEF g
    <3> QED BY <2>1, <1>9
  <2>3. \A j \in 1..q : y[j] = x[j]
    <3> SUFFICES ASSUME NEW j \in 1..q PROVE y[j] = x[j]
      OBVIOUS
    <3>1. a[j] \in Nat /\ Freq(Present[j]) \in Nat /\ Present[j] \in Symbols
      BY <1>1, <1>3
    <3>2. x[j] = Freq(Present[j]) * a[j] /\ y[j] = a[j] * Freq(Present[j])
      BY <3>1, <1>2, <1>4
    <3> QED BY <3>1, <3>2
  <2>4. \A j \in 1..q : x[j] \in Int
    <3> HIDE DEF g
    <3> QED BY <2>1, <1>1
  <2>5. ASSUME NEW k \in 1..numcodes PROVE z[k] = v[k] /\ v[k] \in Int
    <3>1. k - 1 \in Symbols /\ freq[k] = Freq(k - 1)
      BY <1>1 DEF Symbols, Freq
    <3> HIDE DEF g
    <3>2. v[k] = g[k - 1] /\ g[k - 1] \in Int
      BY <3>1, <2>1
    <3>3. g[k - 1] = Freq(k - 1) * u[k - 1]
      BY <3>1 DEF g
    <3> QED BY <3>1, <3>2, <3>3
  <2> HIDE DEF x, y, z, v, g
  <2>6. Total(x, q) = Total(y, q)
    <3>1. Ints(x, q)
      BY <2>4 DEF Ints
    <3> QED BY <3>1, <2>3, <1>1, TotalSame
  <2>7. Total(v, numcodes) = Total(z, numcodes)
    <3>1. Ints(v, numcodes)
      BY <2>5 DEF Ints
    <3> QED BY <3>1, <2>5, <1>1, TotalSame
  <2> QED BY <2>2, <2>6, <2>7, <1>2 DEF Weight, Picked, Terms, Price, y, z
<1> QED BY <1>8, <1>10, <1>11 DEF row

\* There are such codes for all picks, and picks for all such codes.
LEMMA PicksOfSymbols ==
  ASSUME freq \in Seq(Nat)
  PROVE  /\ \A a \in Picks(numpresent) : \E u \in OneOrNone : \A j \in 1..numpresent : u[Present[j]] = a[j]
         /\ \A u \in OneOrNone : \E a \in Picks(numpresent) : \A j \in 1..numpresent : u[Present[j]] = a[j]
<1>1. /\ numcodes \in Nat /\ numpresent \in Nat
      /\ \A s \in Symbols : s \in Nat /\ Freq(s) \in Nat /\ (s \in PresentSet <=> Freq(s) > 0)
      /\ \A j \in 1..numpresent : Present[j] \in Symbols /\ Present[j] \in PresentSet
      /\ \A i, j \in 1..numpresent : i # j => Present[i] # Present[j]
  BY PresentIs
<1>2. ASSUME NEW a \in Picks(numpresent)
      PROVE  \E u \in OneOrNone : \A j \in 1..numpresent : u[Present[j]] = a[j]
  <2> DEFINE here(s) == \E j \in 1..numpresent : Present[j] = s /\ a[j] = 1
             u == [s \in Symbols |-> IF here(s) THEN 1 ELSE 0]
  <2>1. \A s \in Symbols : Freq(s) = 0 => ~here(s)
    BY <1>1
  <2>2. u \in OneOrNone
    <3> HIDE DEF here
    <3> QED BY <2>1 DEF OneOrNone
  <2>3. ASSUME NEW j \in 1..numpresent PROVE u[Present[j]] = a[j]
    <3>1. a[j] \in {0, 1}
      BY DEF Picks
    <3>2. here(Present[j]) <=> a[j] = 1
      BY <1>1
    <3> HIDE DEF here
    <3>3. u[Present[j]] = IF here(Present[j]) THEN 1 ELSE 0
      BY <1>1
    <3> QED BY <3>1, <3>2, <3>3
  <2> HIDE DEF u
  <2> QED BY <2>2, <2>3
<1>3. ASSUME NEW u \in OneOrNone
      PROVE  \E a \in Picks(numpresent) : \A j \in 1..numpresent : u[Present[j]] = a[j]
  <2> DEFINE a == [j \in 1..numpresent |-> u[Present[j]]]
  <2>1. a \in Picks(numpresent)
    BY <1>1 DEF Picks, OneOrNone
  <2>2. \A j \in 1..numpresent : u[Present[j]] = a[j]
    OBVIOUS
  <2> HIDE DEF a
  <2> QED BY <2>1, <2>2
<1> QED BY <1>2, <1>3

-----------------------------------------------------------------------------
\* Two rows in one.
LEMMA JoinedRow ==
  ASSUME NEW r1, NEW r2, IsRow(r1), IsRow(r2)
  PROVE  /\ IsRow(r1 \o r2) /\ Len(r1 \o r2) = Len(r1) + Len(r2)
         /\ \A k \in 1..Len(r1) : Weights(r1 \o r2)[k] = Weights(r1)[k]
         /\ \A k \in 1..Len(r2) : Weights(r1 \o r2)[Len(r1) + k] = Weights(r2)[k]
         /\ \A s \in Symbols : \A k \in 1..Len(r1) : Column(r1 \o r2, s)[k] = Column(r1, s)[k]
         /\ \A s \in Symbols : \A k \in 1..Len(r2) : Column(r1 \o r2, s)[Len(r1) + k] = Column(r2, s)[k]
<1> DEFINE row == r1 \o r2
           n == Len(r1)
           m == Len(r2)
<1>1. r1 \in Seq(Coin) /\ r2 \in Seq(Coin) /\ n \in Nat /\ m \in Nat
  BY DEF IsRow
<1>2. row \in Seq(Coin) /\ Len(row) = n + m
  BY <1>1
<1>3. (\A k \in 1..n : row[k] = r1[k]) /\ (\A k \in 1..m : row[n + k] = r2[k])
  BY <1>1
<1>4. (\A k \in 1..n : k \in 1..Len(row)) /\ (\A k \in 1..m : n + k \in 1..Len(row))
  BY <1>1, <1>2
<1> HIDE DEF row, n, m
<1>5. IsRow(row)
  <2> SUFFICES ASSUME NEW i \in 1..Len(row) PROVE IsCoin(row[i])
    BY <1>2 DEF IsRow
  <2>1. CASE i <= n
    <3>1. i \in 1..n
      BY <2>1, <1>1, <1>2
    <3> QED BY <3>1, <1>3 DEF IsRow, n
  <2>2. CASE i > n
    <3>1. i - n \in 1..m /\ n + (i - n) = i
      BY <2>2, <1>1, <1>2
    <3>2. row[n + (i - n)] = r2[i - n]
      BY <3>1, <1>3
    <3> QED BY <3>1, <3>2 DEF IsRow, m
  <2> QED BY <2>1, <2>2, <1>1, <1>2
<1>6. (\A k \in 1..n : Weights(row)[k] = Weights(r1)[k]) /\ (\A k \in 1..m : Weights(row)[n + k] = Weights(r2)[k])
  BY <1>3, <1>4 DEF Weights, n, m
<1>7. ASSUME NEW s \in Symbols
      PROVE  (\A k \in 1..n : Column(row, s)[k] = Column(r1, s)[k]) /\ (\A k \in 1..m : Column(row, s)[n + k] = Column(r2, s)[k])
  BY <1>3, <1>4 DEF Column, n, m
<1> QED BY <1>2, <1>5, <1>6, <1>7 DEF row, n, m

\* What is picked of two lists put together.
LEMMA JoinedValues ==
  ASSUME NEW n \in Nat, NEW m \in Nat, NEW a \in Picks(n + m), NEW b \in Picks(n), NEW c \in Picks(m),
         \A k \in 1..n : b[k] = a[k], \A k \in 1..m : c[k] = a[n + k],
         NEW f \in [1..n + m -> Int], NEW g \in [1..n -> Int], NEW h \in [1..m -> Int],
         \A k \in 1..n : f[k] = g[k], \A k \in 1..m : f[n + k] = h[k]
  PROVE  Picked(a, f, n + m) = Picked(b, g, n) + Picked(c, h, m)
<1> DEFINE x == Terms(a, f, n + m)
           y == Terms(b, g, n)
           z == Terms(c, h, m)
<1>1. n + m \in Nat /\ (\A k \in 1..n : k \in 1..n + m) /\ (\A k \in 1..m : n + k \in 1..n + m)
  OBVIOUS
<1>2. Ints(x, n + m)
  BY <1>1, PickedTerms
<1>3. Ints(y, n)
  BY PickedTerms
<1>4. \A k \in 1..n : x[k] = y[k]
  BY <1>1 DEF Terms
<1>5. \A k \in 1..m : z[k] = x[n + k]
  BY <1>1 DEF Terms
<1> HIDE DEF x, y, z
<1>6. Total(x, n + m) = Total(x, n) + Total(z, m)
  BY <1>2, <1>5, TotalParts
<1>7. Total(y, n) = Total(x, n)
  BY <1>3, <1>4, TotalSame
<1> QED BY <1>6, <1>7 DEF Picked, x, y, z

\* How many are picked of two lists put together.
LEMMA JoinedNumber ==
  ASSUME NEW n \in Nat, NEW m \in Nat, NEW a \in Picks(n + m), NEW b \in Picks(n), NEW c \in Picks(m),
         \A k \in 1..n : b[k] = a[k], \A k \in 1..m : c[k] = a[n + k]
  PROVE  Total(a, n + m) = Total(b, n) + Total(c, m)
<1>1. Ints(a, n + m) /\ Ints(b, n)
  BY DEF Ints, Picks
<1>2. Total(a, n + m) = Total(a, n) + Total(c, m)
  BY <1>1, TotalParts
<1>3. Total(b, n) = Total(a, n)
  BY <1>1, TotalSame
<1> QED BY <1>2, <1>3

\* What is picked of two rows put together.
LEMMA JoinedPicked ==
  ASSUME NEW r1, NEW r2, IsRow(r1), IsRow(r2),
         NEW a \in Picks(Len(r1 \o r2)), NEW b \in Picks(Len(r1)), NEW c \in Picks(Len(r2)),
         \A k \in 1..Len(r1) : b[k] = a[k], \A k \in 1..Len(r2) : c[k] = a[Len(r1) + k]
  PROVE  /\ \A s \in Symbols : Counts(r1 \o r2, a)[s] = Counts(r1, b)[s] + Counts(r2, c)[s]
         /\ Weight(r1 \o r2, a) = Weight(r1, b) + Weight(r2, c)
         /\ Number(r1 \o r2, a) = Number(r1, b) + Number(r2, c)
<1> DEFINE row == r1 \o r2
           n == Len(r1)
           m == Len(r2)
<1>1. /\ IsRow(row) /\ Len(row) = n + m
      /\ \A k \in 1..n : Weights(row)[k] = Weights(r1)[k]
      /\ \A k \in 1..m : Weights(row)[n + k] = Weights(r2)[k]
      /\ \A s \in Symbols : \A k \in 1..n : Column(row, s)[k] = Column(r1, s)[k]
      /\ \A s \in Symbols : \A k \in 1..m : Column(row, s)[n + k] = Column(r2, s)[k]
  BY JoinedRow
<1>2. n \in Nat /\ Weights(r1) \in [1..n -> Int] /\ \A s \in Symbols : Column(r1, s) \in [1..n -> Int]
  BY RowValues
<1>3. m \in Nat /\ Weights(r2) \in [1..m -> Int] /\ \A s \in Symbols : Column(r2, s) \in [1..m -> Int]
  BY RowValues
<1>4. Weights(row) \in [1..Len(row) -> Int] /\ \A s \in Symbols : Column(row, s) \in [1..Len(row) -> Int]
  <2>1. IsRow(row)
    BY <1>1
  <2> HIDE DEF row
  <2> QED BY <2>1, RowValues
<1>5. a \in Picks(n + m) /\ b \in Picks(n) /\ c \in Picks(m) /\ (\A k \in 1..n : b[k] = a[k]) /\ (\A k \in 1..m : c[k] = a[n + k])
  BY <1>1
<1> HIDE DEF row, n, m
<1>6. Picked(a, Weights(row), n + m) = Picked(b, Weights(r1), n) + Picked(c, Weights(r2), m)
  <2> DEFINE f == Weights(row)
             g == Weights(r1)
             h == Weights(r2)
  <2>1. /\ f \in [1..n + m -> Int] /\ g \in [1..n -> Int] /\ h \in [1..m -> Int]
        /\ (\A k \in 1..n : f[k] = g[k]) /\ (\A k \in 1..m : f[n + k] = h[k])
        /\ n \in Nat /\ m \in Nat
    BY <1>1, <1>2, <1>3, <1>4
  <2> HIDE DEF f, g, h
  <2>2. Picked(a, f, n + m) = Picked(b, g, n) + Picked(c, h, m)
    BY <2>1, <1>5, JoinedValues
  <2> QED BY <2>2 DEF f, g, h
<1>7. ASSUME NEW s \in Symbols
      PROVE  Picked(a, Column(row, s), n + m) = Picked(b, Column(r1, s), n) + Picked(c, Column(r2, s), m)
  <2> DEFINE f == Column(row, s)
             g == Column(r1, s)
             h == Column(r2, s)
  <2>1. /\ f \in [1..n + m -> Int] /\ g \in [1..n -> Int] /\ h \in [1..m -> Int]
        /\ (\A k \in 1..n : f[k] = g[k]) /\ (\A k \in 1..m : f[n + k] = h[k])
        /\ n \in Nat /\ m \in Nat
    BY <1>1, <1>2, <1>3, <1>4
  <2> HIDE DEF f, g, h
  <2>2. Picked(a, f, n + m) = Picked(b, g, n) + Picked(c, h, m)
    BY <2>1, <1>5, JoinedValues
  <2> QED BY <2>2 DEF f, g, h
<1>8. Total(a, n + m) = Total(b, n) + Total(c, m)
  BY <1>2, <1>3, <1>5, JoinedNumber
<1>9. Weight(row, a) = Weight(r1, b) + Weight(r2, c) /\ Number(row, a) = Number(r1, b) + Number(r2, c)
  BY <1>1, <1>6, <1>8 DEF Weight, Number, n, m
<1>10. \A s \in Symbols : Counts(row, a)[s] = Counts(r1, b)[s] + Counts(r2, c)[s]
  BY <1>1, <1>7 DEF Counts, n, m
<1> QED BY <1>9, <1>10 DEF row

\* One bit more for the symbols of u, which are all that have bits.
LEMMA WidthMore ==
  ASSUME freq \in Seq(Nat), NEW e \in 0..14, NEW t \in [Symbols -> 0..e], NEW u \in [Symbols -> {0, 1}],
         NEW v, \A s \in Symbols : v[s] = t[s] + u[s] /\ (u[s] = 0 => t[s] = 0)
  PROVE  /\ Width(v, e + 1) = 2^e * Several(u) + Width(t, e)
         /\ Width(t, e) \in Nat /\ Several(u) \in Nat
<1> DEFINE x == [k \in 1..numcodes |-> u[k - 1]]
           y == [k \in 1..numcodes |-> 2^e - 2^(e - t[k - 1])]
           z == [k \in 1..numcodes |-> 2^(e + 1) - 2^((e + 1) - v[k - 1])]
           w == [k \in 1..numcodes |-> 2^e * u[k - 1]]
<1>1. numcodes \in Nat /\ \A k \in 1..numcodes : k - 1 \in Symbols
  BY DEF numcodes, Symbols
<1>2. 2^e \in Nat /\ 2^(e + 1) = 2 * 2^e /\ e \in Nat
  <2>1. e \in 0..15 /\ e \in 0..14
    OBVIOUS
  <2>2. 2^e \in Nat
    BY <2>1, Powers
  <2>3. 2^(e + 1) = 2 * 2^e
    BY <2>1, Powers
  <2> QED BY <2>2, <2>3
<1>3. ASSUME NEW k \in 1..numcodes
      PROVE  x[k] \in Nat /\ y[k] \in Nat /\ w[k] \in Nat /\ w[k] = 2^e * x[k] /\ z[k] = w[k] + y[k]
  <2> DEFINE s == k - 1
             p == 2^(e - t[s])
             h == 2^e
  <2>1. s \in Symbols /\ t[s] \in 0..e /\ u[s] \in {0, 1} /\ v[s] = t[s] + u[s] /\ (u[s] = 0 => t[s] = 0)
    BY <1>1
  <2>2. x[k] = u[s] /\ y[k] = h - p /\ w[k] = h * u[s] /\ z[k] = 2^(e + 1) - 2^((e + 1) - v[s])
    OBVIOUS
  <2>3. e - t[s] \in 0..15 /\ t[s] \in 0..15 /\ (e - t[s]) + t[s] = e
    <3>1. \A i \in 0..14 : \A j \in 0..i : i - j \in 0..15 /\ j \in 0..15 /\ (i - j) + j = i
      OBVIOUS
    <3> HIDE DEF s
    <3> QED BY ONLY <2>1, <3>1, e \in 0..14
  <2>4. p \in Nat /\ p >= 1
    BY <2>3, Powers
  <2>5. 2^t[s] \in Nat /\ 2^t[s] >= 1
    BY <2>3, Powers
  <2>6. h = p * 2^t[s]
    <3>1. \A x1, y1 \in 0..15 : x1 + y1 <= 15 => 2^(x1 + y1) = 2^x1 * 2^y1
      BY PowerSum
    <3>2. (e - t[s]) + t[s] <= 15
      BY <2>3
    <3>3. 2^((e - t[s]) + t[s]) = 2^(e - t[s]) * 2^t[s]
      BY ONLY <2>3, <3>1, <3>2
    <3> QED BY <2>3, <3>3
  <2>7. p <= h
    <3>1. \A i, j \in Nat : j >= 1 => i <= i * j
      OBVIOUS
    <3> HIDE DEF p, h
    <3> QED BY <2>4, <2>5, <2>6, <3>1
  <2>8. CASE u[s] = 1
    <3>1. (e + 1) - v[s] = e - t[s]
      BY <2>1, <2>8
    <3>2. z[k] = 2 * h - p
      BY <3>1, <2>2, <1>2
    <3> HIDE DEF p, h, x, y, z, w
    <3>3. h \in Nat
      BY <1>2 DEF h
    <3> QED BY <3>2, <3>3, <2>2, <2>4, <2>7, <2>8 DEF h
  <2>9. CASE u[s] = 0
    <3>0. v[s] = 0 /\ t[s] = 0
      <4>1. t[s] = 0 /\ v[s] = t[s] + u[s]
        BY <2>1, <2>9
      <4> HIDE DEF s
      <4> QED BY <4>1, <2>9
    <3>1. (e + 1) - v[s] = e + 1 /\ e - t[s] = e
      <4> HIDE DEF s
      <4> QED BY <3>0, <1>2
    <3>2. z[k] = 2^(e + 1) - 2^(e + 1) /\ p = h
      BY <3>1, <2>2
    <3>3. z[k] = 0 /\ h \in Nat
      BY <3>2, <1>2
    <3> HIDE DEF p, h, x, y, z, w
    <3> QED BY <3>2, <3>3, <2>2, <2>4, <2>9 DEF h
  <2> QED BY <2>1, <2>8, <2>9
<1> HIDE DEF x, y, z, w
<1>4. Ints(x, numcodes) /\ Ints(y, numcodes) /\ Ints(w, numcodes)
  BY <1>3 DEF Ints
<1>5. Total(w, numcodes) = 2^e * Total(x, numcodes)
  <2> DEFINE c == 2^e
  <2>1. c \in Int /\ \A k \in 1..numcodes : w[k] = c * x[k]
    BY <1>2, <1>3
  <2> HIDE DEF c
  <2>2. Total(w, numcodes) = c * Total(x, numcodes)
    BY <2>1, <1>1, <1>4, TotalTimes
  <2> QED BY <2>2 DEF c
<1>6. Total(z, numcodes) = Total(w, numcodes) + Total(y, numcodes)
  BY <1>1, <1>3, <1>4, TotalPlus
<1>7. Total(x, numcodes) \in Nat
  BY <1>1, <1>3, TotalNat
<1>8. Total(y, numcodes) \in Nat
  BY <1>1, <1>3, TotalNat
<1> QED BY <1>5, <1>6, <1>7, <1>8 DEF Width, Several, x, y, z

\* Of picks of a row whose symbols are all counted, a symbol that is counted is in a coin that is picked.
LEMMA PickedSymbol ==
  ASSUME NEW row, IsRow(row), NEW a \in Picks(Len(row)), NEW s \in Symbols, Counts(row, a)[s] # 0
  PROVE  \E i \in 1..Len(row) : a[i] = 1 /\ row[i].symbols[s] > 0
<1> DEFINE n == Len(row)
           c == Column(row, s)
           x == [k \in 1..n |-> a[k] * c[k]]
<1>1. n \in Nat /\ c \in [1..n -> Nat] /\ \A k \in 1..n : c[k] = row[k].symbols[s]
  BY RowValues DEF Column
<1>2. Counts(row, a)[s] = Total(x, n)
  BY DEF Counts, Picked, Terms
<1>3. SUFFICES ASSUME \A i \in 1..n : a[i] = 1 => ~(c[i] > 0) PROVE FALSE
  BY <1>1
<1>4. \A k \in 1..n : x[k] = 0
  <2> SUFFICES ASSUME NEW k \in 1..n PROVE x[k] = 0
    OBVIOUS
  <2>1. a[k] \in {0, 1} /\ c[k] \in Nat /\ (a[k] = 1 => ~(c[k] > 0)) /\ x[k] = a[k] * c[k]
    BY <1>1, <1>3 DEF Picks
  <2> HIDE DEF c, x
  <2>2. a[k] = 1 => c[k] = 0
    BY <2>1
  <2> QED BY <2>1, <2>2
<1> HIDE DEF x, c, n
<1>5. Total(x, n) = 0 * n
  BY <1>1, <1>4, TotalConstant
<1> QED BY <1>1, <1>2, <1>5

\* Two picks make one of both lists together.
LEMMA JoinPicks ==
  ASSUME NEW n \in Nat, NEW m \in Nat, NEW b \in Picks(n), NEW c \in Picks(m)
  PROVE  \E a \in Picks(n + m) : (\A k \in 1..n : b[k] = a[k]) /\ \A k \in 1..m : c[k] = a[n + k]
<1> DEFINE a == [k \in 1..n + m |-> IF k <= n THEN b[k] ELSE c[k - n]]
<1>1. a \in Picks(n + m)
  <2>1. \A k \in 1..n + m : IF k <= n THEN k \in 1..n ELSE k - n \in 1..m
    OBVIOUS
  <2> QED BY <2>1 DEF Picks
<1>2. \A k \in 1..n : b[k] = a[k]
  OBVIOUS
<1>3. \A k \in 1..m : c[k] = a[n + k]
  <2> SUFFICES ASSUME NEW k \in 1..m PROVE c[k] = a[n + k]
    OBVIOUS
  <2>1. n + k \in 1..n + m /\ ~(n + k <= n) /\ (n + k) - n = k
    OBVIOUS
  <2> QED BY <2>1
<1> HIDE DEF a
<1> QED BY <1>1, <1>2, <1>3

\* A pick of two lists together is a pick of each.
LEMMA SplitPicks ==
  ASSUME NEW n \in Nat, NEW m \in Nat, NEW a \in Picks(n + m)
  PROVE  /\ \E b \in Picks(n) : \A k \in 1..n : b[k] = a[k]
         /\ \E c \in Picks(m) : \A k \in 1..m : c[k] = a[n + k]
<1>1. ([k \in 1..n |-> a[k]]) \in Picks(n)
  BY DEF Picks
<1>2. ([k \in 1..m |-> a[n + k]]) \in Picks(m)
  <2>1. \A k \in 1..m : n + k \in 1..n + m
    OBVIOUS
  <2> QED BY <2>1 DEF Picks
<1>3. (\A k \in 1..n : [j \in 1..n |-> a[j]][k] = a[k]) /\ \A k \in 1..m : [j \in 1..m |-> a[n + j]][k] = a[n + k]
  OBVIOUS
<1> QED BY <1>1, <1>2, <1>3

\* The lightest coins of a row to which coins of the symbols have come are
\* the lightest of the row and codes of a bit or none, at least as deep.
LEMMA AddSymbolsFills ==
  ASSUME freq \in Seq(Nat), NEW row, NEW e \in 0..14, GoodRow(row, e, 2^e), Heavy(row)
  PROVE  Fills(row \o SymbolCoins, e + 1, 2^e)
<1> DEFINE all == row \o SymbolCoins
           n == Len(row)
           q == numpresent
<1>1. IsRow(row) /\ IsRow(SymbolCoins) /\ n \in Nat /\ q \in Nat /\ Len(SymbolCoins) = q
  BY SymbolCoinsAre, PresentIs, RowValues DEF GoodRow
<1>2. /\ IsRow(all) /\ Len(all) = n + q
      /\ \A k \in 1..n : Weights(all)[k] = Weights(row)[k]
      /\ \A k \in 1..q : Weights(all)[n + k] = Weights(SymbolCoins)[k]
  BY <1>1, JoinedRow
<1>3. SUFFICES ASSUME NEW a \in Picks(Len(all)), Lightest(all, a)
      PROVE  Counts(all, a) \in Depths(e + 1) /\ Width(Counts(all, a), e + 1) = Number(all, a) * 2^e
  BY DEF Fills
<1>4. PICK theta \in Nat : LightestBy(a, Weights(all), Len(all), theta)
  BY <1>3 DEF Lightest
<1> HIDE DEF n, q
<1>4b. a \in Picks(n + q)
  BY <1>2
<1>4c. /\ \E b \in Picks(n) : \A k \in 1..n : b[k] = a[k]
       /\ \E c \in Picks(q) : \A k \in 1..q : c[k] = a[n + k]
  BY <1>1, <1>4b, SplitPicks
<1>5. PICK b \in Picks(n) : \A k \in 1..n : b[k] = a[k]
  BY <1>4c
<1>6. PICK c \in Picks(q) : \A k \in 1..q : c[k] = a[n + k]
  BY <1>4c
<1>7. PICK u \in OneOrNone : \A j \in 1..q : u[Present[j]] = c[j]
  BY PicksOfSymbols DEF q
<1>8. Counts(SymbolCoins, c) = u /\ Number(SymbolCoins, c) = Several(u)
  BY <1>7, SymbolPicks DEF q
<1>9. /\ \A s \in Symbols : Counts(all, a)[s] = Counts(row, b)[s] + u[s]
      /\ Number(all, a) = Number(row, b) + Several(u)
  <2>1. /\ \A s \in Symbols : Counts(all, a)[s] = Counts(row, b)[s] + Counts(SymbolCoins, c)[s]
        /\ Number(all, a) = Number(row, b) + Number(SymbolCoins, c)
    BY <1>1, <1>5, <1>6, JoinedPicked DEF n
  <2> QED BY <2>1, <1>8
<1>10. \A k \in 1..n : (b[k] = 1 => Weights(row)[k] <= theta) /\ (b[k] = 0 => theta <= Weights(row)[k])
  <2>1. \A k \in 1..n : k \in 1..Len(all)
    BY <1>1, <1>2
  <2> QED BY <2>1, <1>2, <1>4, <1>5 DEF LightestBy
<1>11. \A k \in 1..q : c[k] = 0 => theta <= Weights(SymbolCoins)[k]
  <2>1. \A k \in 1..q : n + k \in 1..Len(all)
    BY <1>1, <1>2
  <2> QED BY <2>1, <1>2, <1>4, <1>6 DEF LightestBy
<1> DEFINE t == Counts(row, b)
<1>12. t \in Depths(e) /\ Width(t, e) = Number(row, b) * 2^e
  <2>1. Lightest(row, b)
    BY <1>10 DEF Lightest, LightestBy, n
  <2> QED BY <2>1 DEF GoodRow, Fills, n
<1>13. ASSUME NEW s \in Symbols PROVE u[s] = 0 => t[s] = 0
  <2> SUFFICES ASSUME u[s] = 0, t[s] # 0 PROVE FALSE
    OBVIOUS
  <2>1. PICK i \in 1..n : b[i] = 1 /\ row[i].symbols[s] > 0
    BY <1>1, PickedSymbol DEF n
  <2>2. Freq(s) < Weights(row)[i] /\ Weights(row)[i] <= theta
    BY <2>1, <1>10 DEF Heavy, Weights, n
  <2>3. Freq(s) \in Nat /\ (s \in PresentSet <=> Freq(s) > 0)
    BY PresentIs
  <2>4. s \in PresentSet
    BY <2>3, <1>12 DEF Depths
  <2>5. PICK j \in 1..q : Present[j] = s
    BY <2>4, PresentIs DEF q
  <2>6. c[j] = 0
    BY <2>5, <1>7
  <2>7. theta <= Freq(s)
    BY <2>5, <2>6, <1>11, SymbolCoinsAre DEF q
  <2>8. Weights(row)[i] \in Nat
    BY <1>1, RowValues DEF n
  <2> QED BY <2>2, <2>3, <2>7, <2>8
<1> DEFINE v == Counts(all, a)
<1>14. t \in [Symbols -> 0..e] /\ u \in [Symbols -> {0, 1}]
  BY <1>12 DEF Depths, OneOrNone
<1>15. \A s \in Symbols : v[s] = t[s] + u[s] /\ (u[s] = 0 => t[s] = 0)
  BY <1>9, <1>13
<1>16. v \in [Symbols -> 0..e + 1] /\ \A s \in Symbols : Freq(s) = 0 => v[s] = 0
  <2>1. v = [s \in Symbols |-> v[s]]
    BY DEF Counts
  <2>2. \A s \in Symbols : Freq(s) = 0 => t[s] = 0 /\ u[s] = 0
    BY <1>12 DEF Depths, OneOrNone
  <2>3. ASSUME NEW s \in Symbols PROVE v[s] \in 0..e + 1 /\ (Freq(s) = 0 => v[s] = 0)
    <3>1. t[s] \in 0..e /\ u[s] \in {0, 1} /\ v[s] = t[s] + u[s] /\ (Freq(s) = 0 => t[s] = 0 /\ u[s] = 0)
      BY <1>14, <1>15, <2>2
    <3> HIDE DEF t, v
    <3> QED BY <3>1
  <2> HIDE DEF v
  <2> QED BY <2>1, <2>3
<1> HIDE DEF t, v, all
<1>17. Width(v, e + 1) = 2^e * Several(u) + Width(t, e) /\ Several(u) \in Nat
  BY <1>14, <1>15, WidthMore
<1>18. Width(v, e + 1) = Number(all, a) * 2^e
  <2>1. e \in 0..15
    OBVIOUS
  <2>2. 2^e \in Nat
    BY <2>1, Powers
  <2>3. Number(row, b) \in Nat
    <3>1. Number(row, b) \in 0..n
      BY <1>1, NumberAtMost DEF Number, n
    <3> QED BY <3>1, <1>1
  <2>4. \A x, y, z \in Nat : z * x + y * z = (y + x) * z
    OBVIOUS
  <2>5. 2^e * Several(u) + Number(row, b) * 2^e = (Number(row, b) + Several(u)) * 2^e
    BY <2>2, <2>3, <2>4, <1>17
  <2> QED BY <2>5, <1>9, <1>12, <1>17
<1> QED BY <1>16, <1>18 DEF Depths, v

\* A code of at most e + 1 bits is one of at most e bits and a bit more for
\* the symbols it has: coins that cost no more.
LEMMA AddSymbolsSaves ==
  ASSUME freq \in Seq(Nat), NEW row, NEW e \in 0..14, GoodRow(row, e, 2^e)
  PROVE  Saves(row \o SymbolCoins, e + 1, 2^e)
<1> DEFINE all == row \o SymbolCoins
           n == Len(row)
           q == numpresent
<1>1. IsRow(row) /\ IsRow(SymbolCoins) /\ n \in Nat /\ q \in Nat /\ Len(SymbolCoins) = q
  BY SymbolCoinsAre, PresentIs, RowValues DEF GoodRow
<1>2. Len(all) = n + q
  BY <1>1, JoinedRow
<1>3. SUFFICES ASSUME NEW v \in Depths(e + 1), NEW k \in Nat, k * 2^e <= Width(v, e + 1)
      PROVE  \E a \in Picks(Len(all)) : Bought(all, a, k, v)
  BY DEF Saves
<1> HIDE DEF n, q
<1> DEFINE u == [s \in Symbols |-> IF v[s] > 0 THEN 1 ELSE 0]
           t == [s \in Symbols |-> IF v[s] > 0 THEN v[s] - 1 ELSE 0]
<1>4. v \in [Symbols -> 0..e + 1] /\ \A s \in Symbols : Freq(s) = 0 => v[s] = 0
  BY DEF Depths
<1>5. t \in [Symbols -> 0..e] /\ \A s \in Symbols : Freq(s) = 0 => t[s] = 0
  BY <1>4
<1>6. u \in [Symbols -> {0, 1}] /\ \A s \in Symbols : Freq(s) = 0 => u[s] = 0
  BY <1>4
<1>7. \A s \in Symbols : v[s] = t[s] + u[s] /\ (u[s] = 0 => t[s] = 0)
  BY <1>4
<1> HIDE DEF u, t
<1>8. t \in Depths(e) /\ u \in OneOrNone
  BY <1>5, <1>6 DEF Depths, OneOrNone
<1>9. Width(v, e + 1) = 2^e * Several(u) + Width(t, e) /\ Width(t, e) \in Nat /\ Several(u) \in Nat
  <2>1. t \in [Symbols -> 0..e] /\ u \in [Symbols -> {0, 1}]
    BY <1>5, <1>6
  <2>2. \A s \in Symbols : v[s] = t[s] + u[s] /\ (u[s] = 0 => t[s] = 0)
    BY <1>7
  <2> QED BY ONLY <2>1, <2>2, WidthMore, freq \in Seq(Nat), e \in 0..14
<1>10. 2^e \in Nat
  <2>1. e \in 0..15
    OBVIOUS
  <2> QED BY <2>1, Powers
<1> DEFINE r == IF k <= Several(u) THEN 0 ELSE k - Several(u)
<1>11. r \in Nat /\ k <= r + Several(u)
  BY <1>9
<1>12. r * 2^e <= Width(t, e)
  <2> DEFINE W == 2^e
             S == Several(u)
             w == Width(t, e)
  <2>1. W \in Nat /\ S \in Nat /\ w \in Nat /\ k * W <= W * S + w
    BY <1>3, <1>9, <1>10
  <2> HIDE DEF W, S, w
  <2>2. CASE k <= S
    <3>1. r = 0
      BY <2>2 DEF S
    <3>2. 0 * W = 0
      BY <2>1
    <3> HIDE DEF r
    <3> QED BY <3>1, <3>2, <2>1 DEF W, w
  <2>3. CASE k > S
    <3>1. (k - S) * W = k * W - W * S
      BY <2>1
    <3>2. r = k - S
      BY <2>1, <2>3 DEF S
    <3> HIDE DEF r
    <3>3. k * W - W * S <= w
      <4>1. k * W \in Nat /\ W * S \in Nat
        BY <2>1
      <4> QED BY <4>1, <2>1
    <3> QED BY <3>1, <3>2, <3>3 DEF W, w
  <2> QED BY <2>1, <2>2, <2>3 DEF W, w
<1> HIDE DEF r
<1>13. PICK b \in Picks(n) : Bought(row, b, r, t)
  BY <1>8, <1>11, <1>12 DEF GoodRow, Saves, n
<1>14. PICK c \in Picks(q) : \A j \in 1..q : u[Present[j]] = c[j]
  BY <1>8, PicksOfSymbols DEF q
<1>15. Number(SymbolCoins, c) = Several(u) /\ Weight(SymbolCoins, c) = Price(u)
  BY <1>8, <1>14, SymbolPicks DEF q
<1>16. PICK a \in Picks(n + q) : (\A j \in 1..n : b[j] = a[j]) /\ \A j \in 1..q : c[j] = a[n + j]
  <2>1. n \in Nat /\ q \in Nat /\ b \in Picks(n) /\ c \in Picks(q)
    BY <1>1
  <2> HIDE DEF n, q
  <2> QED BY ONLY <2>1, JoinPicks
<1>17. a \in Picks(Len(all))
  BY <1>2
<1>18. Weight(all, a) = Weight(row, b) + Price(u) /\ Number(all, a) = Number(row, b) + Several(u)
  <2>1. Weight(all, a) = Weight(row, b) + Weight(SymbolCoins, c) /\ Number(all, a) = Number(row, b) + Number(SymbolCoins, c)
    BY <1>1, <1>16, <1>17, JoinedPicked DEF n
  <2> QED BY <2>1, <1>15
<1>19. Price(v) = Price(t) + Price(u)
  <2>1. \A s \in Symbols : t[s] \in Nat /\ u[s] \in Nat /\ v[s] = t[s] + u[s]
    <3>1. \A s \in Symbols : t[s] \in 0..e /\ u[s] \in {0, 1}
      BY <1>5, <1>6
    <3> QED BY <3>1, <1>7
  <2> QED BY <2>1, PricePlus
<1>20. Number(row, b) >= r /\ Weight(row, b) <= Price(t)
  BY <1>13 DEF Bought
<1>21. Weight(row, b) \in Nat /\ Number(row, b) \in Nat
  <2>1. Number(row, b) \in 0..n
    BY <1>1, NumberAtMost DEF Number, n
  <2>2. Weights(row) \in [1..n -> Nat] /\ n \in Nat /\ b \in Picks(n)
    BY <1>1, RowValues DEF n
  <2>3. Picked(b, Weights(row), n) \in Nat
    <3> HIDE DEF n
    <3> QED BY ONLY <2>2, PickedNat
  <2>4. Weight(row, b) \in Nat /\ Number(row, b) = Total(b, n)
    BY <2>3 DEF Weight, Number, n
  <2> HIDE DEF n
  <2> QED BY <2>1, <2>4
<1>22. Price(t) \in Nat /\ Price(u) \in Nat
  <2>1. (\A s \in Symbols : t[s] \in Nat) /\ \A s \in Symbols : u[s] \in Nat
    <3>1. \A s \in Symbols : t[s] \in 0..e /\ u[s] \in {0, 1}
      BY <1>5, <1>6
    <3> QED BY <3>1
  <2>2. Price(t) \in Nat
    BY <2>1, PriceAtLeast
  <2>3. Price(u) \in Nat
    BY <2>1, PriceAtLeast
  <2> QED BY <2>2, <2>3
<1> HIDE DEF all
<1>23. Number(all, a) >= k /\ Weight(all, a) <= Price(v)
  BY <1>9, <1>11, <1>18, <1>19, <1>20, <1>21, <1>22
<1> QED BY <1>17, <1>23 DEF Bought

\* Putting the symbols' coins to the pairs gives code lengths of one bit more.
LEMMA AddSymbolsGood ==
  ASSUME freq \in Seq(Nat), NEW row, NEW e \in 0..14, GoodRow(row, e, 2^e), Heavy(row)
  PROVE  /\ GoodRow(row \o SymbolCoins, e + 1, 2^e)
         /\ Len(row \o SymbolCoins) = Len(row) + numpresent
<1>1. IsRow(row) /\ IsRow(SymbolCoins) /\ Len(SymbolCoins) = numpresent
  BY SymbolCoinsAre DEF GoodRow
<1>2. IsRow(row \o SymbolCoins) /\ Len(row \o SymbolCoins) = Len(row) + numpresent
  BY <1>1, JoinedRow
<1>3. Fills(row \o SymbolCoins, e + 1, 2^e)
  BY AddSymbolsFills
<1>4. Saves(row \o SymbolCoins, e + 1, 2^e)
  BY AddSymbolsSaves
<1> QED BY <1>2, <1>3, <1>4 DEF GoodRow

\* No coins, before there is any row.
LEMMA NoCoins ==
  ASSUME freq \in Seq(Nat)
  PROVE  GoodRow(<<>>, 0, 2^0) /\ Heavy(<<>>) /\ <<>> \o SymbolCoins = SymbolCoins
<1> DEFINE row == <<>>
           none == [s \in Symbols |-> 0]
<1>1. row \in Seq(Coin) /\ Len(row) = 0 /\ 1..Len(row) = {}
  OBVIOUS
<1>2. IsRow(row) /\ Heavy(row)
  BY <1>1 DEF IsRow, Heavy
<1>3. numcodes \in Nat /\ \A k \in 1..numcodes : k - 1 \in Symbols
  BY DEF numcodes, Symbols
<1>4. 2^0 = 1
  BY Powers
<1>5. \A f : Total(f, 0) = 0
  <2> SUFFICES ASSUME NEW f PROVE Total(f, 0) = 0
    OBVIOUS
  <2>1. 0 \in Nat /\ Ints(f, 0)
    BY DEF Ints
  <2> QED BY <2>1, TotalSteps
<1>6. \A t \in Depths(0) : Width(t, 0) = 0
  <2> SUFFICES ASSUME NEW t \in Depths(0) PROVE Width(t, 0) = 0
    OBVIOUS
  <2> DEFINE x == [k \in 1..numcodes |-> 2^0 - 2^(0 - t[k - 1])]
  <2>1. ASSUME NEW k \in 1..numcodes PROVE x[k] = 0
    <3>1. t[k - 1] = 0
      BY <1>3 DEF Depths
    <3>2. 0 - t[k - 1] = 0
      BY <3>1
    <3>3. x[k] = 2^0 - 2^0
      BY <3>2
    <3> QED BY <3>3, <1>4
  <2> HIDE DEF x
  <2>2. Total(x, numcodes) = 0 * numcodes
    BY <2>1, <1>3, TotalConstant
  <2> QED BY <2>2, <1>3 DEF Width, x
<1>7. \A a : Counts(row, a) = none /\ Number(row, a) = 0 /\ Weight(row, a) = 0
  BY <1>1, <1>5 DEF Counts, Number, Weight, Picked
<1>8. none \in Depths(0)
  BY DEF Depths
<1> HIDE DEF row, none
<1>9. Fills(row, 0, 2^0)
  BY <1>4, <1>6, <1>7, <1>8 DEF Fills
<1>10. Saves(row, 0, 2^0)
  <2> SUFFICES ASSUME NEW t \in Depths(0), NEW k \in Nat, k * 2^0 <= Width(t, 0)
               PROVE  \E c \in Picks(Len(row)) : Bought(row, c, k, t)
    BY DEF Saves
  <2>1. k = 0
    BY <1>4, <1>6
  <2>2. ([i \in 1..Len(row) |-> 0]) \in Picks(Len(row))
    BY DEF Picks
  <2>3. Price(t) \in Nat
    BY PriceAtLeast DEF Depths
  <2> QED BY <2>1, <2>2, <2>3, <1>7 DEF Bought
<1>11. GoodRow(row, 0, 2^0)
  BY <1>2, <1>9, <1>10 DEF GoodRow
<1>12. row \o SymbolCoins = SymbolCoins
  <2>1. SymbolCoins \in Seq(Coin)
    BY SymbolCoinsAre DEF IsRow
  <2> QED BY <2>1 DEF row
<1> QED BY <1>2, <1>11, <1>12 DEF row

\* Coins weigh what the codes cost whose bits they are.
LEMMA WeightIsPrice ==
  ASSUME freq \in Seq(Nat), NEW row, IsRow(row), NEW a \in Picks(Len(row))
  PROVE  Weight(row, a) = Price(Counts(row, a))
<1> DEFINE n == Len(row)
           m == numcodes
           sym(i, k) == row[i].symbols[k - 1]
           f == [i \in 1..n |-> [k \in 1..m |-> a[i] * (freq[k] * sym(i, k))]]
           r == [i \in 1..n |-> a[i] * Weights(row)[i]]
           c == [k \in 1..m |-> freq[k] * Counts(row, a)[k - 1]]
<1>1. n \in Nat /\ m \in Nat /\ (\A k \in 1..m : k - 1 \in Symbols /\ freq[k] \in Nat) /\ \A i \in 1..n : a[i] \in {0, 1}
  <2>1. n \in Nat
    BY RowValues
  <2>2. m \in Nat /\ \A k \in 1..m : k - 1 \in Symbols /\ freq[k] \in Nat
    BY DEF numcodes, Symbols
  <2>3. \A i \in 1..n : a[i] \in {0, 1}
    BY DEF Picks
  <2> QED BY <2>1, <2>2, <2>3
<1>2. ASSUME NEW i \in 1..n PROVE row[i].symbols \in [Symbols -> Nat] /\ row[i].weight = Price(row[i].symbols)
  BY DEF IsRow, IsCoin, Coin
<1>3. \A i \in 1..n : \A k \in 1..m : sym(i, k) \in Nat /\ freq[k] * sym(i, k) \in Nat /\ a[i] * (freq[k] * sym(i, k)) \in Int
  <2> SUFFICES ASSUME NEW i \in 1..n, NEW k \in 1..m
               PROVE  sym(i, k) \in Nat /\ freq[k] * sym(i, k) \in Nat /\ a[i] * (freq[k] * sym(i, k)) \in Int
    OBVIOUS
  <2>1. sym(i, k) \in Nat /\ freq[k] \in Nat /\ a[i] \in {0, 1}
    BY <1>1, <1>2
  <2> HIDE DEF sym
  <2>2. freq[k] * sym(i, k) \in Nat
    BY <2>1
  <2> QED BY <2>1, <2>2
<1>4. f \in [1..n -> [1..m -> Int]]
  BY <1>3
<1>5. ASSUME NEW i \in 1..n PROVE r[i] = Total(f[i], m)
  <2> DEFINE p == [k \in 1..m |-> freq[k] * row[i].symbols[k - 1]]
             g == f[i]
             d == a[i]
  <2>1. (\A k \in 1..m : g[k] = d * p[k]) /\ d \in Int
    BY <1>1
  <2>2. Ints(p, m)
    BY <1>3 DEF Ints
  <2>3. Total(p, m) = row[i].weight
    BY <1>2 DEF Price
  <2>4. r[i] = d * row[i].weight
    BY DEF Weights
  <2> HIDE DEF p, g, d, r
  <2>5. Total(g, m) = d * Total(p, m)
    BY <2>1, <2>2, <1>1, TotalTimes
  <2> QED BY <2>3, <2>4, <2>5 DEF g
<1>6. ASSUME NEW k \in 1..m PROVE c[k] = Total(Down(f, n, k), n)
  <2> DEFINE p == [i \in 1..n |-> a[i] * Column(row, k - 1)[i]]
             g == [i \in 1..n |-> f[i][k]]
             d == freq[k]
  <2>1. d \in Int
    BY <1>1
  <2>2. \A i \in 1..n : p[i] = a[i] * sym(i, k) /\ g[i] = a[i] * (d * sym(i, k))
    BY DEF Column
  <2>3. \A x, y, z \in Int : x * (y * z) = y * (x * z)
    OBVIOUS
  <2>4. \A i \in 1..n : a[i] \in Int /\ sym(i, k) \in Int
    <3>1. \A i \in 1..n : sym(i, k) \in Nat
      BY <1>3
    <3> HIDE DEF sym
    <3> QED BY <1>1, <3>1
  <2> HIDE DEF p, g, sym, d
  <2>5. Ints(p, n)
    BY <2>2, <2>4 DEF Ints
  <2>6. \A i \in 1..n : g[i] = d * p[i]
    <3> SUFFICES ASSUME NEW i \in 1..n PROVE g[i] = d * p[i]
      OBVIOUS
    <3>1. a[i] \in Int /\ sym(i, k) \in Int /\ p[i] = a[i] * sym(i, k) /\ g[i] = a[i] * (d * sym(i, k))
      BY <2>2, <2>4
    <3> QED BY ONLY <3>1, <2>1, <2>3
  <2>7. Total(g, n) = d * Total(p, n)
    BY <2>1, <2>5, <2>6, <1>1, TotalTimes
  <2>8. c[k] = d * Total(p, n)
    <3>1. Counts(row, a)[k - 1] = Total(p, n)
      BY <1>1 DEF Counts, Picked, Terms, p
    <3> QED BY <3>1 DEF d
  <2> QED BY <2>7, <2>8 DEF g, Down
<1>6b. RowSums(r, f, n, m)
  BY <1>5 DEF RowSums
<1>6c. ColumnSums(c, f, n, m)
  BY <1>6 DEF ColumnSums
<1> HIDE DEF f, r, c
<1>7. Total(r, n) = Total(c, m)
  <2>1. n \in Nat /\ m \in Nat
    BY <1>1
  <2>2. f \in [1..n -> [1..m -> Int]]
    BY <1>4
  <2>3. \A n1, m1 \in Nat : \A f1 \in [1..n1 -> [1..m1 -> Int]] : \A r1, c1 :
          RowSums(r1, f1, n1, m1) /\ ColumnSums(c1, f1, n1, m1) => Total(r1, n1) = Total(c1, m1)
    BY ONLY TotalTable
  <2> HIDE DEF n, m
  <2>5. \A r1, c1 :
          RowSums(r1, f, n, m) /\ ColumnSums(c1, f, n, m) => Total(r1, n) = Total(c1, m)
    BY ONLY <2>1, <2>2, <2>3
  <2> QED BY <2>5, <1>6b, <1>6c
<1> QED BY <1>7 DEF Weight, Picked, Terms, Price, r, c

-----------------------------------------------------------------------------
\* The sum of Kraft's inequality, in units of the longest code.
Filled(t) ==
  Total([k \in 1..numcodes |-> IF k - 1 \in PresentSet THEN 2^(maxbitlen - t[k - 1]) ELSE 0], numcodes)

\* What the code lengths of the symbols that occur should be.
IsBest(lens) ==
  /\ lens \in Depths(maxbitlen)
  /\ \A s \in PresentSet : lens[s] >= 1
  /\ Filled(lens) = 2^maxbitlen
  /\ \A t \in Depths(maxbitlen) : Filled(t) <= 2^maxbitlen => Price(lens) <= Price(t)

\* A total of equal terms over the symbols that occur.
LEMMA PresentTotal ==
  ASSUME freq \in Seq(Nat), NEW c \in Int
  PROVE  Total([k \in 1..numcodes |-> IF k - 1 \in PresentSet THEN c ELSE 0], numcodes) = c * numpresent
<1> DEFINE g == [s \in Symbols |-> c]
           x == [j \in 1..numpresent |-> g[Present[j]]]
           y == [k \in 1..numcodes |-> IF k - 1 \in PresentSet THEN g[k - 1] ELSE 0]
           z == [k \in 1..numcodes |-> IF k - 1 \in PresentSet THEN c ELSE 0]
<1>1. /\ numcodes \in Nat /\ numpresent \in Nat /\ PresentSet \subseteq Nat
      /\ \A j \in 1..numpresent : Present[j] \in Symbols
  BY PresentIs
<1>2. \A s \in 0..numcodes - 1 : g[s] \in Int
  BY DEF Symbols
<1>3. Total(x, numpresent) = Total(y, numcodes)
  <2> HIDE DEF g
  <2> QED BY <1>1, <1>2, InOrderTotal DEF numpresent, Present
<1>4. \A j \in 1..numpresent : x[j] = c
  BY <1>1
<1>5. \A k \in 1..numcodes : z[k] = y[k] /\ z[k] \in Int
  BY <1>1 DEF PresentSet
<1> HIDE DEF x, y, z
<1>6. Total(x, numpresent) = c * numpresent
  BY <1>1, <1>4, TotalConstant
<1>7. Ints(z, numcodes)
  BY <1>5 DEF Ints
<1>8. Total(z, numcodes) = Total(y, numcodes)
  BY <1>1, <1>5, <1>7, TotalSame
<1> QED BY <1>3, <1>6, <1>8 DEF z

\* Width taken and share filled add up to the whole: what is not taken as width fills.
LEMMA WidthFilled ==
  ASSUME freq \in Seq(Nat), maxbitlen \in 0..15, NEW t \in Depths(maxbitlen)
  PROVE  /\ Width(t, maxbitlen) + Filled(t) = 2^maxbitlen * numpresent
         /\ Width(t, maxbitlen) \in Int /\ Filled(t) \in Nat
         /\ \A s \in PresentSet : 2^(maxbitlen - t[s]) \in Nat /\ 2^(maxbitlen - t[s]) >= 1
         /\ \A r, s \in PresentSet : r # s => 2^(maxbitlen - t[r]) + 2^(maxbitlen - t[s]) <= Filled(t)
<1> DEFINE L == maxbitlen
           P == 2^L
           y == [k \in 1..numcodes |-> P - 2^(L - t[k - 1])]
           f == [k \in 1..numcodes |-> IF k - 1 \in PresentSet THEN 2^(L - t[k - 1]) ELSE 0]
           p == [k \in 1..numcodes |-> IF k - 1 \in PresentSet THEN P ELSE 0]
<1>1. /\ numcodes \in Nat /\ numpresent \in Nat
      /\ \A s \in Symbols : s \in Nat /\ Freq(s) \in Nat /\ (s \in PresentSet <=> Freq(s) > 0)
  BY PresentIs
<1>2. \A k \in 1..numcodes : k - 1 \in Symbols
  BY <1>1 DEF Symbols
<1>3. \A s \in Symbols : t[s] \in 0..L /\ (s \notin PresentSet => t[s] = 0)
  <2>1. \A s \in Symbols : t[s] \in 0..L /\ (Freq(s) = 0 => t[s] = 0)
    BY DEF Depths
  <2>2. \A s \in Symbols : s \notin PresentSet => Freq(s) = 0
    BY <1>1
  <2> QED BY <2>1, <2>2
<1>4. \A s \in Symbols : L - t[s] \in 0..15
  <2> SUFFICES ASSUME NEW s \in Symbols PROVE L - t[s] \in 0..15
    OBVIOUS
  <2>1. t[s] \in 0..L /\ L \in 0..15
    BY <1>3
  <2>2. \A i \in 0..15 : \A j \in 0..i : i - j \in 0..15
    OBVIOUS
  <2> HIDE DEF L
  <2> QED BY ONLY <2>1, <2>2
<1>5. P \in Nat /\ \A s \in Symbols : 2^(L - t[s]) \in Nat /\ 2^(L - t[s]) >= 1
  <2>1. P \in Nat
    BY Powers
  <2>2. \A s \in Symbols : 2^(L - t[s]) \in Nat /\ 2^(L - t[s]) >= 1
    BY <1>4, Powers
  <2> QED BY <2>1, <2>2
<1>6. ASSUME NEW k \in 1..numcodes PROVE y[k] \in Int /\ f[k] \in Nat /\ p[k] = y[k] + f[k]
  <2> DEFINE s == k - 1
             h == 2^(L - t[s])
  <2>1. s \in Symbols /\ h \in Nat
    BY <1>2, <1>5
  <2>2. s \notin PresentSet => h = P
    <3> SUFFICES ASSUME s \notin PresentSet PROVE h = P
      OBVIOUS
    <3>1. t[s] = 0
      BY <2>1, <1>3
    <3>2. L - t[s] = L
      BY <3>1
    <3> QED BY <3>2
  <2>3. y[k] = P - h /\ f[k] = (IF s \in PresentSet THEN h ELSE 0) /\ p[k] = (IF s \in PresentSet THEN P ELSE 0)
    OBVIOUS
  <2> HIDE DEF s, h, P, y, f, p
  <2> QED BY <2>1, <2>2, <2>3, <1>5
<1>7. ASSUME NEW r \in PresentSet, NEW s \in PresentSet, r # s
      PROVE  2^(L - t[r]) + 2^(L - t[s]) <= Total(f, numcodes)
  <2>1. r + 1 \in 1..numcodes /\ s + 1 \in 1..numcodes /\ r + 1 # s + 1 /\ (r + 1) - 1 = r /\ (s + 1) - 1 = s
    BY <1>1, <1>7 DEF PresentSet, Symbols
  <2>2. f[r + 1] = 2^(L - t[r]) /\ f[s + 1] = 2^(L - t[s])
    BY <2>1
  <2>3. f[r + 1] + f[s + 1] <= Total(f, numcodes)
    <3> HIDE DEF f
    <3>1. \A i, j \in 1..numcodes : i # j => f[i] + f[j] <= Total(f, numcodes)
      BY <1>1, <1>6, TotalNat
    <3> QED BY <3>1, <2>1
  <2> QED BY <2>2, <2>3
<1>8. Total(p, numcodes) = P * numpresent
  <2> HIDE DEF P
  <2> QED BY <1>5, PresentTotal
<1> HIDE DEF y, f, p
<1>9. Ints(y, numcodes) /\ Ints(f, numcodes)
  BY <1>6 DEF Ints
<1>10. Total(p, numcodes) = Total(y, numcodes) + Total(f, numcodes)
  BY <1>1, <1>6, <1>9, TotalPlus
<1>11. Total(f, numcodes) \in Nat
  BY <1>1, <1>6, TotalNat
<1>12. Total(y, numcodes) \in Int
  <2>1. numcodes \in 0..numcodes
    BY <1>1
  <2> QED BY <2>1, <1>1, <1>9, TotalSteps
<1>13. Filled(t) = Total(f, numcodes) /\ Width(t, L) = Total(y, numcodes)
  BY DEF Filled, Width, f, y
<1>14. \A s \in PresentSet : s \in Symbols
  BY DEF PresentSet
<1> HIDE DEF L, P
<1>15. Width(t, L) + Filled(t) = P * numpresent /\ Width(t, L) \in Int /\ Filled(t) \in Nat
  BY <1>8, <1>10, <1>11, <1>12, <1>13
<1>16. \A s \in PresentSet : 2^(L - t[s]) \in Nat /\ 2^(L - t[s]) >= 1
  BY <1>5, <1>14
<1>17. \A r, s \in PresentSet : r # s => 2^(L - t[r]) + 2^(L - t[s]) <= Filled(t)
  BY <1>7, <1>13
<1> QED BY <1>15, <1>16, <1>17 DEF L, P

\* The number of a symbol's coins among the first ones of a row.
LEMMA CoinsOfFirst ==
  ASSUME NEW row, IsRow(row), NEW k \in 0..Len(row), NEW s \in Symbols
  PROVE  CoinsOf(s, row, k) = Counts(row, First(Len(row), k))[s]
<1> DEFINE n == Len(row)
           c == Column(row, s)
           a == First(n, k)
           x == [i \in 1..n |-> a[i] * c[i]]
           y == [i \in 1..k |-> row[i].symbols[s]]
           m == n - k
           z == [i \in 1..m |-> x[k + i]]
<1>1. n \in Nat /\ c \in [1..n -> Nat] /\ k \in Nat /\ m \in Nat /\ k + m = n
  <2>1. n \in Nat /\ c \in [1..n -> Nat]
    BY RowValues
  <2> HIDE DEF c
  <2> QED BY <2>1
<1>2. \A i \in 1..n : a[i] = IF i <= k THEN 1 ELSE 0
  BY DEF First
<1>3. \A i \in 1..n : c[i] \in Nat /\ c[i] = row[i].symbols[s]
  BY <1>1 DEF Column
<1>4. (\A i \in 1..n : x[i] = a[i] * c[i]) /\ (\A i \in 1..k : y[i] = row[i].symbols[s]) /\ \A i \in 1..m : z[i] = x[k + i]
  OBVIOUS
<1> HIDE DEF n, m, c, a, x, y, z
<1>5. \A i \in 1..n : x[i] = IF i <= k THEN c[i] ELSE 0
  <2> SUFFICES ASSUME NEW i \in 1..n PROVE x[i] = IF i <= k THEN c[i] ELSE 0
    OBVIOUS
  <2>1. x[i] = a[i] * c[i] /\ c[i] \in Nat /\ a[i] = IF i <= k THEN 1 ELSE 0
    BY <1>2, <1>3, <1>4
  <2> QED BY <2>1
<1>6. Ints(x, k + m)
  BY <1>1, <1>3, <1>5 DEF Ints
<1>7. Total(x, k + m) = Total(x, k) + Total(z, m)
  BY <1>1, <1>4, <1>6, TotalParts
<1>8. Total(z, m) = 0 * m
  <2>1. \A i \in 1..m : z[i] = 0
    <3>1. \A i \in 1..m : k + i \in 1..n /\ ~(k + i <= k)
      BY <1>1
    <3> QED BY <3>1, <1>4, <1>5
  <2> QED BY <2>1, <1>1, TotalConstant
<1>9. \A i \in 1..k : y[i] = x[i] /\ y[i] \in Nat
  <2>1. \A i \in 1..k : i \in 1..n /\ i <= k
    BY <1>1
  <2> QED BY <2>1, <1>3, <1>4, <1>5
<1>10. Total(y, k) = Total(x, k)
  <2>1. Ints(y, k)
    BY <1>9 DEF Ints
  <2> QED BY <2>1, <1>9, <1>1, TotalSame
<1>11. Total(x, k) \in Int
  <2>1. Ints(x, n) /\ k \in 0..n
    BY <1>1, <1>6
  <2> QED BY <2>1, <1>1, TotalSteps
<1>12. Total(y, k) = Total(x, n)
  <2>1. Total(z, m) = 0
    BY <1>8, <1>1
  <2> QED BY <2>1, <1>1, <1>7, <1>10, <1>11
<1> QED BY <1>12 DEF CoinsOf, Counts, Picked, Terms, n, c, a, x, y

\* No more symbols occur than there are.
LEMMA PresentAtMost ==
  ASSUME freq \in Seq(Nat)
  PROVE  numpresent <= numcodes
<1> DEFINE p == [k \in 1..numcodes |-> IF k - 1 \in PresentSet THEN 1 ELSE 0]
           q == [k \in 1..numcodes |-> 1]
<1>1. numcodes \in Nat /\ numpresent \in Nat
  BY PresentIs
<1>2. Total(p, numcodes) = 1 * numpresent
  BY PresentTotal
<1>3. Ints(p, numcodes) /\ Ints(q, numcodes) /\ (\A k \in 1..numcodes : p[k] <= q[k]) /\ \A k \in 1..numcodes : q[k] = 1
  BY DEF Ints
<1> HIDE DEF p, q
<1>4. Total(q, numcodes) = 1 * numcodes
  BY <1>1, <1>3, TotalConstant
<1>5. Total(p, numcodes) <= Total(q, numcodes)
  BY <1>1, <1>3, TotalLe
<1> QED BY <1>1, <1>2, <1>4, <1>5

\* There are enough coins: codes of the longest length for all symbols would
\* buy numpresent - 1 of them.
LEMMA EnoughCoins ==
  ASSUME freq \in Seq(Nat), maxbitlen \in 0..15, numpresent >= 2, 2^maxbitlen >= numpresent,
         NEW row, GoodRow(row, maxbitlen, 2^maxbitlen)
  PROVE  numpresent - 1 \in 0..Len(row)
<1> DEFINE L == maxbitlen
           P == 2^L
           q == numpresent
           t == [s \in Symbols |-> IF s \in PresentSet THEN L ELSE 0]
           f == [k \in 1..numcodes |-> IF k - 1 \in PresentSet THEN 2^(L - t[k - 1]) ELSE 0]
           g == [k \in 1..numcodes |-> IF k - 1 \in PresentSet THEN 1 ELSE 0]
<1>1. /\ numcodes \in Nat /\ q \in Nat /\ P \in Nat /\ 2^0 = 1
      /\ \A s \in Symbols : s \in PresentSet <=> Freq(s) > 0
  <2>1. numcodes \in Nat /\ q \in Nat /\ \A s \in Symbols : s \in PresentSet <=> Freq(s) > 0
    BY PresentIs
  <2>2. P \in Nat /\ 2^0 = 1
    BY Powers
  <2> QED BY <2>1, <2>2
<1>2. t \in Depths(L)
  BY <1>1 DEF Depths
<1>3. \A k \in 1..numcodes : f[k] = g[k] /\ g[k] \in Int
  <2> SUFFICES ASSUME NEW k \in 1..numcodes PROVE f[k] = g[k] /\ g[k] \in Int
    OBVIOUS
  <2>1. CASE k - 1 \in PresentSet
    <3>1. t[k - 1] = L
      BY <2>1 DEF PresentSet
    <3>2. L - t[k - 1] = 0
      BY <3>1
    <3>3. f[k] = 2^0 /\ g[k] = 1
      BY <2>1, <3>2
    <3> QED BY <3>3, <1>1
  <2>2. CASE k - 1 \notin PresentSet
    BY <2>2
  <2> QED BY <2>1, <2>2
<1>4. Filled(t) = Total(f, numcodes)
  BY DEF Filled
<1>5. Total(g, numcodes) = 1 * q
  BY PresentTotal
<1> HIDE DEF t, f, g
<1>6. Total(g, numcodes) = Total(f, numcodes)
  <2>1. Ints(g, numcodes)
    BY <1>3 DEF Ints
  <2> QED BY <2>1, <1>1, <1>3, TotalSame
<1>7. Width(t, L) + Filled(t) = P * q /\ Width(t, L) \in Int
  BY <1>2, WidthFilled
<1>8. (q - 1) * P <= Width(t, L)
  <2> DEFINE w == Width(t, L)
  <2>1. w + q = P * q /\ w \in Int /\ q <= P /\ q \in Nat /\ P \in Nat
    BY <1>1, <1>4, <1>5, <1>6, <1>7
  <2> HIDE DEF w, P, q
  <2>2. (q - 1) * P = P * q - P
    BY <2>1
  <2> QED BY <2>1, <2>2 DEF w
<1>9. q - 1 \in Nat
  BY <1>1
<1>10. PICK c \in Picks(Len(row)) : Bought(row, c, q - 1, t)
  <2> HIDE DEF q, L
  <2> QED BY <1>2, <1>8, <1>9 DEF GoodRow, Saves, L
<1>11. Number(row, c) \in 0..Len(row) /\ Len(row) \in Nat
  <2>1. Len(row) \in Nat
    BY RowValues DEF GoodRow
  <2> QED BY <2>1, NumberAtMost DEF Number
<1> QED BY <1>1, <1>9, <1>10, <1>11 DEF Bought

\* The lightest 2 n - 2 coins of a good last row give code lengths that are best.
LEMMA BestFound ==
  ASSUME freq \in Seq(Nat), maxbitlen \in 0..15, numpresent >= 2, 2^maxbitlen >= numpresent,
         NEW row, GoodRow(row, maxbitlen, 2^maxbitlen), Ordered(row)
  PROVE  IsBest([s \in Symbols |-> CoinsOf(s, row, numpresent - 1)])
<1> DEFINE L == maxbitlen
           P == 2^L
           q == numpresent
           k == q - 1
           n == Len(row)
           a == First(n, k)
           lens == [s \in Symbols |-> CoinsOf(s, row, q - 1)]
<1>1. k \in 0..n /\ IsRow(row) /\ n \in Nat
  BY EnoughCoins, RowValues DEF GoodRow
<1>2. lens = Counts(row, a)
  <2>1. \A s \in Symbols : CoinsOf(s, row, k) = Counts(row, a)[s]
    BY <1>1, CoinsOfFirst
  <2> QED BY <2>1 DEF Counts
<1>3. a \in Picks(n) /\ Total(a, n) = k
  BY <1>1, FirstPicked
<1>4. Lightest(row, a)
  BY <1>1, FirstLightest
<1> HIDE DEF a, lens
<1>5. lens \in Depths(L) /\ Width(lens, L) = k * P
  <2>1. Number(row, a) = k
    BY <1>3 DEF Number
  <2>2. Counts(row, a) \in Depths(L) /\ Width(Counts(row, a), L) = Number(row, a) * P
    BY <1>3, <1>4 DEF GoodRow, Fills
  <2> QED BY <1>2, <2>1, <2>2
<1>6. \A t \in Depths(L) :
        /\ Width(t, L) + Filled(t) = P * q /\ Width(t, L) \in Int /\ Filled(t) \in Nat
        /\ \A s \in PresentSet : 2^(L - t[s]) \in Nat /\ 2^(L - t[s]) >= 1
        /\ \A r, s \in PresentSet : r # s => 2^(L - t[r]) + 2^(L - t[s]) <= Filled(t)
  BY WidthFilled
<1>7. P \in Nat /\ q \in Nat
  BY Powers, PresentIs
<1>8. k * P = P * q - P
  <2> HIDE DEF P, q
  <2> QED BY <1>7
<1>9. Filled(lens) = P
  <2>1. Width(lens, L) + Filled(lens) = P * q /\ Width(lens, L) \in Int /\ Filled(lens) \in Nat
    BY <1>5, <1>6
  <2>2. P * q \in Int
    BY <1>7
  <2> HIDE DEF P, q, k, L
  <2> QED BY <2>1, <2>2, <1>5, <1>7, <1>8
<1>10. ASSUME NEW s \in PresentSet PROVE lens[s] >= 1
  <2> SUFFICES ASSUME ~(lens[s] >= 1) PROVE FALSE
    OBVIOUS
  <2>1. s \in Symbols
    BY DEF PresentSet
  <2>2. lens[s] \in 0..L
    BY <2>1, <1>5 DEF Depths
  <2>3. lens[s] = 0
    BY <2>2
  <2>4. L - lens[s] = L
    BY <2>3
  <2>5. PICK r \in PresentSet : r # s
    <3>1. 1 \in 1..q /\ 2 \in 1..q
      BY <1>7
    <3>2. Present[1] \in PresentSet /\ Present[2] \in PresentSet /\ Present[1] # Present[2]
      BY <3>1, PresentIs
    <3> QED BY <3>2
  <2>6. 2^(L - lens[r]) + 2^(L - lens[s]) <= Filled(lens) /\ 2^(L - lens[r]) >= 1 /\ 2^(L - lens[r]) \in Nat
    BY <2>5, <1>5, <1>6
  <2>7. 2^(L - lens[s]) = P
    BY <2>4
  <2> HIDE DEF P
  <2> QED BY <2>6, <2>7, <1>7, <1>9
<1>11. ASSUME NEW t \in Depths(L), Filled(t) <= P PROVE Price(lens) <= Price(t)
  <2>1. Width(t, L) + Filled(t) = P * q /\ Width(t, L) \in Int /\ Filled(t) \in Nat
    BY <1>6
  <2>2. k * P <= Width(t, L)
    <3>1. P * q \in Int
      BY <1>7
    <3>2. Filled(t) <= P
      BY <1>11
    <3> HIDE DEF P, q, k, L
    <3> QED BY <2>1, <3>1, <3>2, <1>7, <1>8
  <2>3. k \in Nat
    BY <1>1
  <2>4. PICK c \in Picks(n) : Bought(row, c, k, t)
    <3> HIDE DEF k, q
    <3> QED BY <2>2, <2>3 DEF GoodRow, Saves
  <2>5. Number(row, c) >= k /\ Weight(row, c) <= Price(t)
    BY <2>4 DEF Bought
  <2>6. Weights(row) \in [1..n -> Nat]
    BY <1>1, RowValues
  <2>7. PICK theta \in Nat : LightestBy(a, Weights(row), n, theta)
    BY <1>4 DEF Lightest
  <2>8. Weight(row, a) <= Weight(row, c)
    <3>1. Total(a, n) <= Total(c, n)
      BY <1>3, <2>5 DEF Number
    <3> QED BY <3>1, <2>6, <2>7, <1>1, <1>3, LightestWeigh DEF Weight
  <2>9. Weight(row, a) = Price(lens)
    BY <1>1, <1>2, <1>3, WeightIsPrice
  <2>10. Weight(row, a) \in Nat /\ Weight(row, c) \in Nat
    BY <1>1, <1>3, <2>6, PickedNat DEF Weight
  <2>11. Price(t) \in Nat
    <3>1. \A s \in Symbols : t[s] \in Nat
      BY DEF Depths
    <3> QED BY <3>1, PriceAtLeast
  <2> QED BY <2>5, <2>8, <2>9, <2>10, <2>11
<1> QED BY <1>5, <1>9, <1>10, <1>11 DEF IsBest, lens

-----------------------------------------------------------------------------
\* The rows of coins.

\* While a row is sorted: it holds what the codes of rowNumber + 1 bits are
\* made of, two for each symbol at most; and a pass with gap 1 that changed
\* nothing leaves it in order.
RowDepth(j) == IF j < maxbitlen THEN j + 1 ELSE maxbitlen
RowIInv ==
  /\ numpresent >= 2
  /\ rowNumber \in 0..maxbitlen
  /\ GoodRow(coins, RowDepth(rowNumber), 2^rowNumber)
  /\ Len(coins) >= 1 /\ Len(coins) <= 2 * numpresent - 1
  /\ rowNumber < maxbitlen => Len(coins) >= numpresent
  /\ gap \in 1..Len(coins)
  /\ gap = 1 /\ ~swapped => Ordered(coins)

\* The symbols are few enough for codes of maxbitlen bits.
LEMMA InputIs ==
  ASSUME IsCodeInput([freq |-> freq, maxbits |-> maxbitlen])
  PROVE  /\ freq \in Seq(Nat) /\ numcodes \in Nat /\ numcodes >= 2 /\ 2 * numcodes <= NotFilled
         /\ maxbitlen \in 1..15 /\ maxbitlen \in 0..15
         /\ numpresent \in Nat /\ numpresent <= numcodes /\ 2^maxbitlen >= numpresent
<1>1. freq \in Seq(Nat) /\ Len(freq) >= 2 /\ 2 * Len(freq) <= NotFilled /\ maxbitlen \in 0..15 /\ 2^maxbitlen >= Len(freq)
  BY DEF IsCodeInput
<1>2. numcodes \in Nat /\ numpresent \in Nat /\ numpresent <= numcodes
  BY <1>1, PresentIs, PresentAtMost
<1>3. 2^maxbitlen \in Nat /\ 2^0 = 1
  BY <1>1, Powers
<1>4. maxbitlen # 0
  <2> SUFFICES ASSUME maxbitlen = 0 PROVE FALSE
    OBVIOUS
  <2>1. 2^maxbitlen = 1
    BY <1>3
  <2> QED BY <2>1, <1>1
<1>5. numcodes = Len(freq)
  BY DEF numcodes
<1> QED BY <1>1, <1>2, <1>3, <1>4, <1>5

\* The first row is good.
LEMMA FirstRowGood ==
  ASSUME IsCodeInput([freq |-> freq, maxbits |-> maxbitlen]), numpresent > 1
  PROVE  GoodRow(SymbolCoins, RowDepth(0), 2^0) /\ Len(SymbolCoins) = numpresent
<1>1. freq \in Seq(Nat) /\ maxbitlen \in 1..15
  BY InputIs
<1>2. GoodRow(<<>>, 0, 2^0) /\ Heavy(<<>>) /\ <<>> \o SymbolCoins = SymbolCoins
  BY <1>1, NoCoins
<1>3. 0 \in 0..14
  OBVIOUS
<1>4. GoodRow(<<>> \o SymbolCoins, 0 + 1, 2^0)
  BY <1>1, <1>2, <1>3, AddSymbolsGood
<1>5. RowDepth(0) = 0 + 1
  BY <1>1 DEF RowDepth
<1>6. Len(SymbolCoins) = numpresent
  BY <1>1, SymbolCoinsAre
<1> QED BY <1>2, <1>4, <1>5, <1>6

\* The row that follows a sorted one.
FollowingRow(row, j) == Merged(row) \o IF j < maxbitlen THEN SymbolCoins ELSE <<>>

\* The row after a good one in order is good, and long enough for what is taken from it.
LEMMA NextRowGood ==
  ASSUME freq \in Seq(Nat), numpresent \in Nat, numpresent >= 2, maxbitlen \in 1..15,
         NEW j \in 0..maxbitlen - 1, NEW row, GoodRow(row, RowDepth(j), 2^j), Ordered(row),
         Len(row) >= numpresent, Len(row) <= 2 * numpresent - 1
  PROVE  /\ GoodRow(FollowingRow(row, j + 1), RowDepth(j + 1), 2^(j + 1))
         /\ Len(FollowingRow(row, j + 1)) >= 1
         /\ Len(FollowingRow(row, j + 1)) <= 2 * numpresent - 1
         /\ j + 1 < maxbitlen => Len(FollowingRow(row, j + 1)) >= numpresent
<1> DEFINE q == numpresent
           m == Merged(row)
<1>1. j \in 0..14 /\ j \in 0..15 /\ RowDepth(j) = j + 1
  BY DEF RowDepth
<1>2. 2^(j + 1) = 2 * 2^j /\ 2^j \in Nat
  BY <1>1, Powers
<1>3. GoodRow(m, j + 1, 2^(j + 1))
  <2> DEFINE w == 2^j
             d == j + 1
  <2>1. GoodRow(row, d, w) /\ w \in Nat
    BY <1>1, <1>2
  <2> HIDE DEF w, d, m
  <2>2. GoodRow(Merged(row), d, 2 * w)
    BY <2>1, MergedGood
  <2> QED BY <2>2, <1>2 DEF w, d, m
<1>4. Heavy(m) /\ Len(m) = Len(row) \div 2 /\ IsRow(m) /\ Len(row) \in Nat
  BY MergedRow, RowValues DEF GoodRow
<1>5. Len(m) \in Nat /\ Len(m) >= 1 /\ Len(m) <= q - 1
  <2> DEFINE n == Len(row)
  <2>1. n \in Nat /\ n >= 2 /\ n <= 2 * q - 1 /\ q \in Nat
    BY <1>4
  <2> HIDE DEF n, q
  <2>2. n \div 2 \in Nat /\ n \div 2 >= 1 /\ n \div 2 <= q - 1
    BY <2>1
  <2> QED BY <2>2, <1>4 DEF n
<1> HIDE DEF m
<1>6. CASE j + 1 < maxbitlen
  <2>1. j + 1 \in 0..14 /\ RowDepth(j + 1) = (j + 1) + 1
    BY <1>6, <1>1 DEF RowDepth
  <2>2. GoodRow(m \o SymbolCoins, (j + 1) + 1, 2^(j + 1)) /\ Len(m \o SymbolCoins) = Len(m) + q
    <3> DEFINE d == j + 1
    <3>1. d \in 0..14 /\ GoodRow(m, d, 2^d)
      BY <1>3, <2>1
    <3> HIDE DEF d
    <3>2. GoodRow(m \o SymbolCoins, d + 1, 2^d) /\ Len(m \o SymbolCoins) = Len(m) + q
      BY <3>1, <1>4, AddSymbolsGood
    <3> QED BY <3>2 DEF d
  <2>3. FollowingRow(row, j + 1) = m \o SymbolCoins
    BY <1>6 DEF FollowingRow, m
  <2> DEFINE all == FollowingRow(row, j + 1)
  <2>4. GoodRow(all, RowDepth(j + 1), 2^(j + 1)) /\ Len(all) = Len(m) + q
    BY <2>1, <2>2, <2>3
  <2>5. q \in Nat /\ q >= 2
    OBVIOUS
  <2> HIDE DEF all, q
  <2>6. Len(all) >= 1 /\ Len(all) <= 2 * q - 1 /\ Len(all) >= q
    BY <2>4, <2>5, <1>5
  <2> QED BY <2>4, <2>6 DEF all, q
<1>7. CASE ~(j + 1 < maxbitlen)
  <2>1. RowDepth(j + 1) = j + 1
    BY <1>7, <1>1 DEF RowDepth
  <2>2. FollowingRow(row, j + 1) = m
    <3>1. m \in Seq(Coin)
      BY <1>4 DEF IsRow
    <3>2. m \o <<>> = m
      BY <3>1
    <3> QED BY <3>2, <1>7 DEF FollowingRow, m
  <2> QED BY <1>3, <1>5, <1>7, <2>1, <2>2
<1> QED BY <1>6, <1>7

\* What depends on the frequencies alone stays as they do.
LEMMA SameSizes ==
  ASSUME UNCHANGED freq
  PROVE  numcodes' = numcodes /\ Symbols' = Symbols /\ PresentSet' = PresentSet /\ numpresent' = numpresent
  BY DEF numcodes, Symbols, PresentSet, Freq, numpresent, Present, InOrder

\* Whether a row is good depends on the frequencies alone.
LEMMA SameRow ==
  ASSUME UNCHANGED freq
  PROVE  \A r, e, W : GoodRow(r, e, W)' <=> GoodRow(r, e, W)
<1>1. numcodes' = numcodes /\ Symbols' = Symbols
  BY DEF numcodes, Symbols
<1>2. \A t : Price(t)' = Price(t)
  BY <1>1 DEF Price, Total
<1>4. \A s : Freq(s)' = Freq(s)
  BY DEF Freq
<1>3. \A t, e : Width(t, e)' = Width(t, e)
  BY <1>1 DEF Width, Total
<1>5. Coin' = Coin
  BY <1>1 DEF Coin
<1>6. \A c : IsCoin(c)' <=> IsCoin(c)
  BY <1>1, <1>2, <1>4, <1>5 DEF IsCoin
<1>7. \A r : IsRow(r)' <=> IsRow(r)
  BY <1>6, <1>5 DEF IsRow
<1>8. \A e : Depths(e)' = Depths(e)
  BY <1>1, <1>4 DEF Depths
<1>9. \A r, a : Counts(r, a)' = Counts(r, a)
  BY <1>1 DEF Counts, Picked, Terms, Column, Total
<1>12. \A r, a : Number(r, a)' = Number(r, a) /\ Weight(r, a)' = Weight(r, a) /\ (Lightest(r, a)' <=> Lightest(r, a))
  BY DEF Number, Weight, Picked, Weights, Lightest, LightestBy, Total
<1>13. \A n : Picks(n)' = Picks(n)
  BY DEF Picks
<1>14. \A r, c, k, t : Bought(r, c, k, t)' <=> Bought(r, c, k, t)
  BY <1>2, <1>12 DEF Bought
<1>10. \A r, e, W : Fills(r, e, W)' <=> Fills(r, e, W)
  BY <1>3, <1>8, <1>9, <1>12, <1>13 DEF Fills
<1>11. \A r, e, W : Saves(r, e, W)' <=> Saves(r, e, W)
  BY <1>3, <1>8, <1>13, <1>14 DEF Saves
<1> QED BY <1>7, <1>10, <1>11 DEF GoodRow

\* A pass of the sort.
LEMMA SortPassKeeps ==
  ASSUME RowIInv, SortPass
  PROVE  RowIInv' /\ Len(coins') = Len(coins)
<1> USE DEF RowIInv
<1>1. UNCHANGED <<freq, maxbitlen, rowNumber>> /\ gap' = NextGap /\ coins' = CombPass(coins, NextGap) /\ swapped' = (coins' # coins)
  BY DEF SortPass
<1>2. gap \in Nat \ {0}
  OBVIOUS
<1>3. NextGap \in Nat \ {0} /\ NextGap <= gap
  BY <1>2, GapShrinks
<1>4. NextGap \in 1..Len(coins) /\ Len(coins) \in Nat
  BY <1>3, RowValues DEF GoodRow
<1> DEFINE e == RowDepth(rowNumber)
           W == 2^rowNumber
<1>5. GoodRow(coins, e, W)
  OBVIOUS
<1>6. GoodRow(CombPass(coins, NextGap), e, W) /\ Len(CombPass(coins, NextGap)) = Len(coins)
  <2> HIDE DEF e, W, RowIInv
  <2> QED BY <1>4, <1>5, PassGood
<1>7. NextGap = 1 /\ CombPass(coins, NextGap) = coins => Ordered(coins)
  <2> SUFFICES ASSUME NextGap = 1, CombPass(coins, NextGap) = coins PROVE Ordered(coins)
    OBVIOUS
  <2>1. CombPass(coins, 1) = coins /\ Len(coins) >= 1
    OBVIOUS
  <2> HIDE DEF e, W, RowIInv
  <2> QED BY <2>1, <1>5, PassSorted
<1>8. numpresent' = numpresent /\ \A r, d, V : GoodRow(r, d, V)' <=> GoodRow(r, d, V)
  BY <1>1, SameSizes, SameRow
<1>9. GoodRow(coins, RowDepth(rowNumber), 2^rowNumber)'
  <2> DEFINE r == CombPass(coins, NextGap)
  <2>1. GoodRow(r, RowDepth(rowNumber), 2^rowNumber) /\ coins' = r
    BY <1>1, <1>6
  <2>2. RowDepth(rowNumber)' = RowDepth(rowNumber) /\ (2^rowNumber)' = 2^rowNumber
    BY <1>1 DEF RowDepth
  <2> HIDE DEF r, e, W, RowIInv
  <2> QED BY <2>1, <2>2, <1>8
<1> QED BY <1>1, <1>3, <1>4, <1>6, <1>7, <1>8, <1>9
\* A row of one coin is in order.
LEMMA OneCoin ==
  ASSUME NEW row, IsRow(row), Len(row) = 1
  PROVE  Ordered(row)
<1>1. row[1].weight \in Nat
  BY DEF IsRow, IsCoin, Coin
<1>2. \A i \in 1..Len(row) : i = 1
  OBVIOUS
<1> QED BY <1>1, <1>2 DEF Ordered

\* When the sort stops the row is in order.
LEMMA SortedIsOrdered ==
  ASSUME RowIInv, Sorted
  PROVE  Ordered(coins)
BY DEF RowIInv, Sorted

\* The first row keeps the invariant of the rows, and the memory suffices.
LEMMA FirstRowKeeps ==
  ASSUME IsCodeInput([freq |-> freq, maxbits |-> maxbitlen]), rowNumber = 0, FirstRow
  PROVE  RowIInv' /\ Len(coins') <= 2 * numpresent
<1> DEFINE row == SymbolCoins
<1>1. /\ UNCHANGED <<freq, maxbitlen>> /\ rowNumber' = 0 /\ numpresent > 1
      /\ coins' = row /\ gap' = Len(row) /\ swapped' = FALSE
  BY DEF FirstRow, StartSort
<1>2. numpresent' = numpresent /\ \A r, d, V : GoodRow(r, d, V)' <=> GoodRow(r, d, V)
  BY <1>1, SameSizes, SameRow
<1>3. numpresent \in Nat /\ maxbitlen \in 1..15
  BY InputIs
<1>4. GoodRow(row, RowDepth(0), 2^0) /\ Len(row) = numpresent
  BY <1>1, FirstRowGood
<1>5. RowDepth(rowNumber)' = RowDepth(0) /\ (2^rowNumber)' = 2^0
  BY <1>1 DEF RowDepth
<1> HIDE DEF row
<1>6. GoodRow(coins, RowDepth(rowNumber), 2^rowNumber)'
  BY <1>1, <1>2, <1>4, <1>5
<1> QED BY <1>1, <1>2, <1>3, <1>4, <1>6 DEF RowIInv

\* The next row keeps the invariant of the rows, and the memory suffices.
LEMMA NextRowKeeps ==
  ASSUME IsCodeInput([freq |-> freq, maxbits |-> maxbitlen]), RowIInv, NextRow
  PROVE  RowIInv' /\ Len(coins') <= 2 * numpresent
<1> DEFINE row == FollowingRow(coins, rowNumber + 1)
<1>1. /\ UNCHANGED <<freq, maxbitlen>> /\ rowNumber' = rowNumber + 1 /\ rowNumber < maxbitlen /\ Sorted
      /\ coins' = row /\ gap' = Len(row) /\ swapped' = FALSE
  BY DEF NextRow, StartSort, FollowingRow
<1>2. numpresent' = numpresent /\ \A r, d, V : GoodRow(r, d, V)' <=> GoodRow(r, d, V)
  BY <1>1, SameSizes, SameRow
<1>3. numpresent \in Nat /\ maxbitlen \in 1..15 /\ freq \in Seq(Nat)
  BY InputIs
<1>4. Ordered(coins)
  BY <1>1, SortedIsOrdered
<1>5. /\ rowNumber \in 0..maxbitlen - 1 /\ numpresent >= 2
      /\ GoodRow(coins, RowDepth(rowNumber), 2^rowNumber)
      /\ Len(coins) >= numpresent /\ Len(coins) <= 2 * numpresent - 1
  BY <1>1, <1>3 DEF RowIInv
<1>6. /\ GoodRow(row, RowDepth(rowNumber + 1), 2^(rowNumber + 1))
      /\ Len(row) >= 1 /\ Len(row) <= 2 * numpresent - 1
      /\ rowNumber + 1 < maxbitlen => Len(row) >= numpresent
  BY <1>3, <1>4, <1>5, NextRowGood
<1>7. RowDepth(rowNumber)' = RowDepth(rowNumber + 1) /\ (2^rowNumber)' = 2^(rowNumber + 1)
  BY <1>1 DEF RowDepth
<1>8. Len(row) \in Nat /\ IsRow(row)
  BY <1>6, RowValues DEF GoodRow
<1> HIDE DEF row
<1>9. GoodRow(coins, RowDepth(rowNumber), 2^rowNumber)'
  BY <1>1, <1>2, <1>6, <1>7
<1>10. gap' = 1 => Ordered(coins')
  BY <1>1, <1>8, OneCoin
<1> QED BY <1>1, <1>2, <1>3, <1>5, <1>6, <1>8, <1>9, <1>10 DEF RowIInv

\* The lengths package-merge finds.
LEMMA LengthsFound ==
  ASSUME IsCodeInput([freq |-> freq, maxbits |-> maxbitlen]), RowIInv, CountLengths
  PROVE  IsBest(lengths') /\ numpresent >= 2
<1>1. lengths' = [s \in Symbols |-> CoinsOf(s, coins, numpresent - 1)] /\ Sorted /\ rowNumber = maxbitlen
  BY DEF CountLengths
<1>2. Ordered(coins)
  BY <1>1, SortedIsOrdered
<1>3. freq \in Seq(Nat) /\ maxbitlen \in 0..15 /\ numpresent \in Nat /\ 2^maxbitlen >= numpresent
  BY InputIs
<1>4. numpresent >= 2 /\ GoodRow(coins, maxbitlen, 2^maxbitlen)
  <2>1. RowDepth(rowNumber) = maxbitlen
    BY <1>1, <1>3 DEF RowDepth
  <2> QED BY <2>1, <1>1 DEF RowIInv
<1> QED BY <1>1, <1>2, <1>3, <1>4, BestFound

\* Best code lengths are what CodeIsOptimal asks for.
LEMMA BestIsOptimal ==
  ASSUME freq \in Seq(Nat), maxbitlen \in 0..15, IsBest(lengths)
  PROVE  CodeIsOptimal
<1>1. numcodes \in Nat /\ \A s \in Symbols : s \in PresentSet <=> Freq(s) > 0
  BY PresentIs
<1>2. lengths \in [Symbols -> 0..maxbitlen] /\ \A s \in Symbols : Freq(s) = 0 => lengths[s] = 0
  BY DEF IsBest, Depths
<1>3. ASSUME NEW s \in Symbols
      PROVE  IF s \in PresentSet THEN lengths[s] \in 1..maxbitlen ELSE lengths[s] = 0
  <2>1. CASE s \in PresentSet
    BY <2>1, <1>2 DEF IsBest
  <2>2. CASE s \notin PresentSet
    <3>1. Freq(s) = 0
      BY <2>2, <1>1, PresentIs
    <3> QED BY <2>2, <3>1, <1>2
  <2> QED BY <2>1, <2>2
<1>4. \A lens : IsPrefixCode(lens) <=> Filled(lens) <= 2^maxbitlen
  <2> SUFFICES ASSUME NEW lens PROVE IsPrefixCode(lens) <=> Filled(lens) <= 2^maxbitlen
    OBVIOUS
  <2> DEFINE g == [s \in PresentSet |-> 2^(maxbitlen - lens[s])]
             x == [k \in 1..numcodes |-> IF k - 1 \in DOMAIN g THEN g[k - 1] ELSE 0]
             y == [k \in 1..numcodes |-> IF k - 1 \in PresentSet THEN 2^(maxbitlen - lens[k - 1]) ELSE 0]
  <2>1. x = y
    OBVIOUS
  <2>2. Filled(lens) = Total(y, numcodes)
    BY DEF Filled
  <2>3. IsPrefixCode(lens) <=> Total(x, numcodes) <= 2^maxbitlen
    BY DEF IsPrefixCode, SumOver
  <2> QED BY <2>1, <2>2, <2>3
<1>5. ASSUME NEW t, NEW lens \in Depths(maxbitlen), \A s \in PresentSet : t[s] = lens[s]
      PROVE  Cost(t) = Price(lens)
  <2> DEFINE g == [s \in PresentSet |-> Freq(s) * t[s]]
             x == [k \in 1..numcodes |-> IF k - 1 \in DOMAIN g THEN g[k - 1] ELSE 0]
             y == [k \in 1..numcodes |-> freq[k] * lens[k - 1]]
  <2>1. ASSUME NEW k \in 1..numcodes PROVE y[k] = x[k] /\ y[k] \in Int
    <3> DEFINE s == k - 1
    <3>1. s \in Symbols /\ freq[k] = Freq(s) /\ Freq(s) \in Nat
      <4>1. s \in Symbols /\ s + 1 = k
        BY <1>1 DEF Symbols
      <4>2. Freq(s) \in Nat
        BY <4>1, PresentIs
      <4> QED BY <4>1, <4>2 DEF Freq
    <3>2. lens[s] \in Nat /\ (Freq(s) = 0 => lens[s] = 0)
      BY <3>1 DEF Depths
    <3>3. CASE s \in PresentSet
      <4>1. x[k] = Freq(s) * lens[s] /\ y[k] = Freq(s) * lens[s]
        BY <3>1, <3>3, <1>5
      <4> HIDE DEF s, x, y
      <4> QED BY <4>1, <3>1, <3>2
    <3>4. CASE s \notin PresentSet
      <4>1. Freq(s) = 0 /\ lens[s] = 0
        BY <3>1, <3>2, <3>4, <1>1
      <4>2. x[k] = 0 /\ y[k] = freq[k] * lens[s]
        BY <3>4
      <4> HIDE DEF s, x, y
      <4> QED BY <4>1, <4>2, <3>1
    <3> QED BY <3>3, <3>4
  <2>2. Cost(t) = Total(x, numcodes) /\ Price(lens) = Total(y, numcodes)
    BY DEF Cost, SumOver, Price
  <2> HIDE DEF x, y
  <2>3. Ints(y, numcodes)
    BY <2>1 DEF Ints
  <2>4. Total(y, numcodes) = Total(x, numcodes)
    BY <2>1, <2>3, <1>1, TotalSame
  <2> QED BY <2>2, <2>4
<1>6. IsPrefixCode(lengths)
  <2>1. Filled(lengths) = 2^maxbitlen /\ 2^maxbitlen \in Nat
    BY Powers DEF IsBest
  <2> QED BY <2>1, <1>4
<1>7. ASSUME NEW lens \in [PresentSet -> 1..maxbitlen], IsPrefixCode(lens) PROVE Cost(lengths) <= Cost(lens)
  <2> DEFINE t == [s \in Symbols |-> IF s \in PresentSet THEN lens[s] ELSE 0]
             x == [k \in 1..numcodes |-> IF k - 1 \in PresentSet THEN 2^(maxbitlen - t[k - 1]) ELSE 0]
             y == [k \in 1..numcodes |-> IF k - 1 \in PresentSet THEN 2^(maxbitlen - lens[k - 1]) ELSE 0]
  <2>1. \A s \in PresentSet : s \in Symbols /\ t[s] = lens[s]
    BY DEF PresentSet
  <2>2. t \in Depths(maxbitlen)
    BY <1>1 DEF Depths
  <2>3. x = y
    BY <2>1
  <2>4. Filled(t) = Filled(lens)
    BY <2>3 DEF Filled
  <2> HIDE DEF t
  <2>5. Filled(t) <= 2^maxbitlen
    BY <2>4, <1>4, <1>7
  <2>6. Price(lengths) <= Price(t)
    BY <2>2, <2>5 DEF IsBest
  <2>7. Cost(lens) = Price(t)
    BY <2>1, <2>2, <1>5
  <2>8. Cost(lengths) = Price(lengths)
    <3>1. lengths \in Depths(maxbitlen)
      BY DEF IsBest
    <3> QED BY <3>1, <1>5
  <2> QED BY <2>6, <2>7, <2>8
<1> QED BY <1>3, <1>6, <1>7 DEF CodeIsOptimal

-----------------------------------------------------------------------------
\* The numbers of the codes.

\* The symbols below n whose codes have b bits.
OfLength(b, n) == {t \in 0..n - 1 : lengths[t] = b}
CountOf(b, n) == Cardinality(OfLength(b, n))

\* Counting the symbols with a length, one symbol after the other.
LEMMA Counting ==
  ASSUME NEW b
  PROVE  /\ CountOf(b, 0) = 0
         /\ \A n \in Nat : CountOf(b, n) \in Nat
         /\ \A n \in Nat : CountOf(b, n + 1) = CountOf(b, n) + IF lengths[n] = b THEN 1 ELSE 0
<1>1. ASSUME NEW n \in Nat PROVE IsFiniteSet(OfLength(b, n)) /\ Cardinality(OfLength(b, n)) \in Nat
  <2>1. IsFiniteSet(0..n - 1)
    <3>1. 0 \in Int /\ n - 1 \in Int
      OBVIOUS
    <3> QED BY ONLY <3>1, FS_Interval
  <2>2. OfLength(b, n) \in SUBSET (0..n - 1)
    BY DEF OfLength
  <2>3. IsFiniteSet(OfLength(b, n))
    BY ONLY <2>1, <2>2, FS_Subset
  <2> QED BY ONLY <2>3, FS_CardinalityType
<1>2. CountOf(b, 0) = 0
  <2>1. OfLength(b, 0) = {}
    BY DEF OfLength
  <2> QED BY <2>1, FS_EmptySet DEF CountOf
<1>3. ASSUME NEW n \in Nat PROVE CountOf(b, n + 1) = CountOf(b, n) + IF lengths[n] = b THEN 1 ELSE 0
  <2>1. 0..(n + 1) - 1 = (0..n - 1) \cup {n} /\ n \notin 0..n - 1
    OBVIOUS
  <2>2. CASE lengths[n] = b
    <3>1. OfLength(b, n + 1) = OfLength(b, n) \cup {n} /\ n \notin OfLength(b, n)
      BY <2>1, <2>2 DEF OfLength
    <3>2. Cardinality(OfLength(b, n) \cup {n}) = Cardinality(OfLength(b, n)) + 1
      BY ONLY <3>1, <1>1, n \in Nat, FS_AddElement
    <3> QED BY <2>2, <3>1, <3>2 DEF CountOf
  <2>3. CASE lengths[n] # b
    <3>1. OfLength(b, n + 1) = OfLength(b, n)
      BY <2>1, <2>3 DEF OfLength
    <3> QED BY <2>3, <3>1, <1>1 DEF CountOf
  <2> QED BY <2>2, <2>3
<1> QED BY <1>1, <1>2, <1>3 DEF CountOf

\* A staircase that does not fall: below its end every height is on a step.
LEMMA OnAStep ==
  ASSUME NEW N \in Nat, NEW f \in [0..N -> Int], NEW x \in Int, f[0] <= x, x < f[N]
  PROVE  \E i \in 0..N - 1 : f[i] <= x /\ x < f[i + 1]
<1> SUFFICES ASSUME ~\E i \in 0..N - 1 : f[i] <= x /\ x < f[i + 1] PROVE FALSE
  OBVIOUS
<1> DEFINE S == {n \in 0..N : f[n] <= x}
<1>1. 0 \in S
  OBVIOUS
<1>2. \A n \in 0..N - 1 : n \in S => n + 1 \in S
  OBVIOUS
<1> HIDE DEF S
<1>3. 0..N \subseteq S
  BY <1>1, <1>2, UpToN
<1>4. N \in S
  BY <1>3
<1> QED BY <1>4 DEF S

\* What never falls from one place to the next never falls.
LEMMA Rises ==
  ASSUME NEW N \in Nat, NEW f \in [0..N -> Int], \A i \in 0..N - 1 : f[i] <= f[i + 1]
  PROVE  \A i, j \in 0..N : i <= j => f[i] <= f[j]
<1> SUFFICES ASSUME NEW i \in 0..N PROVE \A j \in 0..N : i <= j => f[i] <= f[j]
  OBVIOUS
<1> DEFINE S == {n \in 0..N : i <= n => f[i] <= f[n]}
<1>1. 0 \in S
  OBVIOUS
<1>2. ASSUME NEW n \in 0..N - 1, n \in S PROVE n + 1 \in S
  <2>1. f[n] <= f[n + 1] /\ n + 1 \in 0..N /\ f[n] \in Int /\ f[n + 1] \in Int /\ f[i] \in Int
    OBVIOUS
  <2>2. CASE i <= n
    BY <1>2, <2>1, <2>2
  <2>3. CASE ~(i <= n)
    <3>1. i <= n + 1 => i = n + 1
      BY <2>3
    <3> QED BY <2>1, <3>1
  <2> QED BY <2>2, <2>3
<1> HIDE DEF S
<1>3. 0..N \subseteq S
  BY <1>1, <1>2, UpToN
<1> QED BY <1>3 DEF S

\* How many symbols have codes of a length.
LEMMA BlCountIs ==
  ASSUME numcodes \in Nat
  PROVE  /\ \A b : BlCount(b) = CountOf(b, numcodes) /\ BlCount(b) \in Nat
         /\ \A s \in Symbols : /\ SameLengthBefore(s) = CountOf(lengths[s], s)
                               /\ SameLengthBefore(s) \in Nat
                               /\ SameLengthBefore(s) < BlCount(lengths[s])
         /\ \A s, t \in Symbols : s < t /\ lengths[s] = lengths[t] => SameLengthBefore(s) < SameLengthBefore(t)
         /\ \A b : \A q \in 0..BlCount(b) - 1 : \E s \in Symbols : lengths[s] = b /\ SameLengthBefore(s) = q
<1>1. \A b : BlCount(b) = CountOf(b, numcodes) /\ BlCount(b) \in Nat
  <2> SUFFICES ASSUME NEW b PROVE BlCount(b) = CountOf(b, numcodes) /\ BlCount(b) \in Nat
    OBVIOUS
  <2>1. CountOf(b, numcodes) \in Nat
    BY Counting
  <2> QED BY <2>1 DEF BlCount, CountOf, OfLength, Symbols
<1>2. \A s \in Symbols : SameLengthBefore(s) = CountOf(lengths[s], s) /\ s \in 0..numcodes - 1
  BY DEF SameLengthBefore, CountOf, OfLength, Symbols
<1>3. ASSUME NEW b
      PROVE  /\ \A n \in 0..numcodes : CountOf(b, n) \in Nat
             /\ \A n \in 0..numcodes - 1 : CountOf(b, n + 1) = CountOf(b, n) + IF lengths[n] = b THEN 1 ELSE 0
             /\ \A i, j \in 0..numcodes : i <= j => CountOf(b, i) <= CountOf(b, j)
             /\ \A q \in 0..CountOf(b, numcodes) - 1 : \E i \in 0..numcodes - 1 : CountOf(b, i) <= q /\ q < CountOf(b, i + 1)
  <2> DEFINE f == [n \in 0..numcodes |-> CountOf(b, n)]
  <2>1. CountOf(b, 0) = 0 /\ \A n \in 0..numcodes : CountOf(b, n) \in Nat
    <3>1. CountOf(b, 0) = 0 /\ \A n \in Nat : CountOf(b, n) \in Nat
      BY Counting
    <3>2. \A n \in 0..numcodes : n \in Nat
      OBVIOUS
    <3> QED BY <3>1, <3>2
  <2>2. \A n \in 0..numcodes - 1 : CountOf(b, n + 1) = CountOf(b, n) + IF lengths[n] = b THEN 1 ELSE 0
    <3>1. \A n \in Nat : CountOf(b, n + 1) = CountOf(b, n) + IF lengths[n] = b THEN 1 ELSE 0
      BY Counting
    <3> QED BY <3>1
  <2>3. f \in [0..numcodes -> Int] /\ \A n \in 0..numcodes : f[n] = CountOf(b, n)
    BY <2>1
  <2>4. \A n \in 0..numcodes - 1 : n \in 0..numcodes /\ n + 1 \in 0..numcodes
    OBVIOUS
  <2>5. \A n \in 0..numcodes - 1 : f[n] <= f[n + 1]
    <3> SUFFICES ASSUME NEW n \in 0..numcodes - 1 PROVE f[n] <= f[n + 1]
      OBVIOUS
    <3>1. f[n] = CountOf(b, n) /\ f[n + 1] = CountOf(b, n + 1) /\ CountOf(b, n) \in Nat
      BY <2>1, <2>3, <2>4
    <3>2. CountOf(b, n + 1) = CountOf(b, n) + IF lengths[n] = b THEN 1 ELSE 0
      BY <2>2
    <3> HIDE DEF f
    <3> QED BY <3>1, <3>2
  <2> HIDE DEF f
  <2>6. \A i, j \in 0..numcodes : i <= j => f[i] <= f[j]
    BY <2>3, <2>5, Rises
  <2>7. ASSUME NEW q \in 0..CountOf(b, numcodes) - 1
        PROVE  \E i \in 0..numcodes - 1 : CountOf(b, i) <= q /\ q < CountOf(b, i + 1)
    <3>1. 0 \in 0..numcodes /\ numcodes \in 0..numcodes
      OBVIOUS
    <3>2. f[0] = 0 /\ f[numcodes] = CountOf(b, numcodes) /\ CountOf(b, numcodes) \in Nat
      BY <3>1, <2>1, <2>3
    <3>3. q \in Int /\ f[0] <= q /\ q < f[numcodes]
      BY <3>2
    <3>4. \E i \in 0..numcodes - 1 : f[i] <= q /\ q < f[i + 1]
      BY <3>3, <2>3, OnAStep
    <3> QED BY <3>4, <2>3, <2>4
  <2> QED BY <2>1, <2>2, <2>3, <2>6, <2>7
<1>4. ASSUME NEW s \in Symbols
      PROVE  SameLengthBefore(s) \in Nat /\ SameLengthBefore(s) < BlCount(lengths[s])
  <2> DEFINE b == lengths[s]
  <2>1. s \in 0..numcodes - 1 /\ s \in 0..numcodes /\ s + 1 \in 0..numcodes /\ numcodes \in 0..numcodes /\ s + 1 <= numcodes
    BY <1>2
  <2>2. CountOf(b, s) \in Nat /\ CountOf(b, numcodes) \in Nat
    BY <2>1, <1>3
  <2>3. CountOf(b, s + 1) = CountOf(b, s) + 1
    <3>1. CountOf(b, s + 1) = CountOf(b, s) + IF lengths[s] = b THEN 1 ELSE 0
      BY <2>1, <1>3
    <3> QED BY <3>1
  <2>4. CountOf(b, s + 1) <= CountOf(b, numcodes)
    BY <2>1, <1>3
  <2>5. SameLengthBefore(s) = CountOf(b, s) /\ BlCount(b) = CountOf(b, numcodes)
    BY <1>1, <1>2
  <2> HIDE DEF b
  <2>6. SameLengthBefore(s) \in Nat /\ SameLengthBefore(s) < BlCount(b)
    BY <2>2, <2>3, <2>4, <2>5
  <2> QED BY <2>6 DEF b
<1>5. ASSUME NEW s \in Symbols, NEW t \in Symbols, s < t, lengths[s] = lengths[t]
      PROVE  SameLengthBefore(s) < SameLengthBefore(t)
  <2> DEFINE b == lengths[s]
  <2>1. s \in 0..numcodes - 1 /\ s + 1 \in 0..numcodes /\ s + 1 <= t /\ t \in 0..numcodes /\ s \in 0..numcodes
    BY <1>2, <1>5
  <2>2. CountOf(b, s + 1) = CountOf(b, s) + 1
    <3>1. CountOf(b, s + 1) = CountOf(b, s) + IF lengths[s] = b THEN 1 ELSE 0
      BY <2>1, <1>3
    <3> QED BY <3>1
  <2>3. CountOf(b, s + 1) <= CountOf(b, t) /\ CountOf(b, s) \in Nat /\ CountOf(b, t) \in Nat
    BY <2>1, <1>3
  <2>4. SameLengthBefore(s) = CountOf(b, s) /\ SameLengthBefore(t) = CountOf(b, t)
    BY <1>2, <1>5
  <2> HIDE DEF b
  <2> QED BY <2>2, <2>3, <2>4
<1>6. ASSUME NEW b, NEW q \in 0..BlCount(b) - 1
      PROVE  \E s \in Symbols : lengths[s] = b /\ SameLengthBefore(s) = q
  <2>1. BlCount(b) = CountOf(b, numcodes)
    BY <1>1
  <2>2. q \in 0..CountOf(b, numcodes) - 1
    BY <2>1
  <2>3. PICK i \in 0..numcodes - 1 : CountOf(b, i) <= q /\ q < CountOf(b, i + 1)
    BY <2>2, <1>3
  <2>4. CountOf(b, i + 1) = CountOf(b, i) + IF lengths[i] = b THEN 1 ELSE 0
    BY <1>3
  <2>5. i \in 0..numcodes /\ i \in Symbols
    BY DEF Symbols
  <2>6. CountOf(b, i) \in Nat
    BY <2>5, <1>3
  <2>7. lengths[i] = b /\ CountOf(b, i) = q
    <3>1. q \in Int
      BY <1>1
    <3> QED BY <2>3, <2>4, <2>6, <3>1
  <2>8. SameLengthBefore(i) = q
    BY <2>5, <2>7, <1>2
  <2> QED BY <2>5, <2>7, <2>8
<1> QED BY <1>1, <1>2, <1>4, <1>5, <1>6

\* The first code of each length.
FirstCodes(f) ==
  /\ f[0] = 0 /\ \A b \in 0..maxbitlen : f[b] \in Nat
  /\ \A b \in 1..maxbitlen : f[b] = (f[b - 1] + BlCount(b - 1)) * 2

\* The first codes of the lengths follow each other.
LEMMA FirstCodeFollows ==
  ASSUME numcodes \in Nat, maxbitlen \in 0..15
  PROVE  FirstCodes(FirstCode)
<1> DEFINE N == maxbitlen
           f == FirstCode
           g == [kv \in (1..N) \X Nat |-> (kv[2] + BlCount(kv[1] - 1)) * 2]
           Body(s) == s = [b \in 0..N |-> IF b = 0 THEN 0 ELSE (s[b - 1] + BlCount(b - 1)) * 2]
<1>1. \A b : BlCount(b) \in Nat
  BY BlCountIs
<1>2. N \in Nat
  OBVIOUS
<1>3. g \in Steps(Nat, N)
  BY <1>1 DEF Steps
<1>4. PICK e \in [0..N -> Nat] : Follows(e, N, 0, g)
  <2> HIDE DEF g, N
  <2>1. IsDefinedBy(Nat, N, 0, g)
    BY <1>2, <1>3, Recursion, 0 \in Nat, Zenon
  <2> QED BY <2>1, Zenon DEF IsDefinedBy
<1>5. ASSUME NEW k \in 1..N PROVE e[k] = (e[k - 1] + BlCount(k - 1)) * 2
  <2>1. <<k, e[k - 1]>> \in (1..N) \X Nat
    OBVIOUS
  <2>2. g[<<k, e[k - 1]>>] = (e[k - 1] + BlCount(k - 1)) * 2
    BY <2>1
  <2> QED BY <2>2, <1>4 DEF Follows
<1>6. e[0] = 0
  BY <1>4 DEF Follows
<1> HIDE DEF g
<1>7. Body(e)
  <2>1. \A k \in 0..N : e[k] = IF k = 0 THEN 0 ELSE (e[k - 1] + BlCount(k - 1)) * 2
    <3> HIDE DEF N
    <3>1. \A k \in 0..N : k = 0 \/ k \in 1..N
      BY <1>2
    <3> QED BY <3>1, <1>5, <1>6
  <2> HIDE DEF N
  <2> QED BY <2>1
<1>8. Body(f)
  <2>1. f = CHOOSE s : Body(s)
    BY DEF FirstCode
  <2> HIDE DEF Body, f
  <2> QED BY <1>7, <2>1, Zenon
<1> HIDE DEF f
<1>9. f[0] = 0 /\ \A k \in 1..N : f[k] = (f[k - 1] + BlCount(k - 1)) * 2
  <2>1. 0 \in 0..N /\ \A k \in 1..N : k \in 0..N /\ k # 0
    BY <1>2
  <2>2. \A k \in 0..N : f[k] = IF k = 0 THEN 0 ELSE (f[k - 1] + BlCount(k - 1)) * 2
    BY <1>8
  <2> HIDE DEF N, Body
  <2> QED BY <2>1, <2>2
<1> HIDE DEF Body
<1> DEFINE S == {n \in 0..N : f[n] \in Nat}
<1>10. 0 \in S
  BY <1>9
<1>11. ASSUME NEW n \in 0..N - 1, n \in S PROVE n + 1 \in S
  <2>1. n + 1 \in 1..N /\ n + 1 \in 0..N /\ (n + 1) - 1 = n /\ f[n] \in Nat
    BY <1>11
  <2>2. f[n + 1] = (f[n] + BlCount(n)) * 2
    BY <2>1, <1>9
  <2>3. BlCount(n) \in Nat
    BY <1>1
  <2> HIDE DEF N
  <2> QED BY <2>1, <2>2, <2>3
<1> HIDE DEF S
<1>12. 0..N \subseteq S
  BY <1>2, <1>10, <1>11, UpToN
<1>13. \A b \in 0..N : f[b] \in Nat
  BY <1>12 DEF S
<1> QED BY <1>9, <1>13 DEF FirstCodes, f

\* The codes of the lengths up to b, laid end to end in units of the longest
\* code behind the symbols without one, end at its level.
PartOf == [k \in 1..maxbitlen |-> BlCount(k) * 2^(maxbitlen - k)]
Level(b) == BlCount(0) * 2^maxbitlen + Total(PartOf, b)

\* The share of the codes of up to b bits, in units of the longest code.
LEMMA Levels ==
  ASSUME numcodes \in Nat, maxbitlen \in 1..15
  PROVE  /\ \A b \in 0..maxbitlen : Level(b) \in Nat /\ 2^(maxbitlen - b) \in Nat /\ 2^(maxbitlen - b) >= 1
         /\ Level(0) = BlCount(0) * 2^maxbitlen
         /\ \A b \in 1..maxbitlen : Level(b) = Level(b - 1) + BlCount(b) * 2^(maxbitlen - b)
         /\ \A b \in 1..maxbitlen : FirstCode[b] * 2^(maxbitlen - b) = Level(b - 1)
         /\ \A i, j \in 0..maxbitlen : i <= j => Level(i) <= Level(j)
<1> DEFINE L == maxbitlen
           f == FirstCode
           w(b) == 2^(L - b)
           A == BlCount(0) * 2^L
           v == [b \in 0..L |-> Level(b)]
<1>1. \A b : BlCount(b) \in Nat
  BY BlCountIs
<1>2. \A b \in 0..L : w(b) \in Nat /\ w(b) >= 1
  <2>1. \A b \in 0..L : L - b \in 0..15
    OBVIOUS
  <2> QED BY <2>1, Powers
<1>3. \A b \in 1..L : w(b - 1) = 2 * w(b)
  <2> SUFFICES ASSUME NEW b \in 1..L PROVE w(b - 1) = 2 * w(b)
    OBVIOUS
  <2>1. L - b \in 0..14 /\ L - (b - 1) = (L - b) + 1
    OBVIOUS
  <2>2. 2^((L - b) + 1) = 2 * 2^(L - b)
    BY <2>1, Powers
  <2> QED BY <2>1, <2>2
<1>4. w(0) = 2^L
  <2>1. L - 0 = L
    OBVIOUS
  <2> QED BY <2>1
<1>5. L \in Nat /\ L \in 1..15 /\ \A b \in 1..L : b - 1 \in 0..L /\ b \in 0..L /\ b \in Int
  OBVIOUS
<1>6. FirstCodes(f)
  <2>1. maxbitlen \in 0..15
    OBVIOUS
  <2> QED BY <2>1, FirstCodeFollows
<1>7. f[0] = 0 /\ (\A b \in 0..L : f[b] \in Nat) /\ \A b \in 1..L : f[b] = (f[b - 1] + BlCount(b - 1)) * 2
  BY <1>6 DEF FirstCodes
<1>8. \A b \in 1..L : PartOf[b] = BlCount(b) * w(b)
  BY DEF PartOf
<1>9. A \in Nat
  <2> DEFINE W == 2^L
  <2>1. W \in Nat
    BY <1>2, <1>4, <1>5
  <2>2. BlCount(0) \in Nat
    BY <1>1
  <2>3. \A x, y \in Nat : x * y \in Nat
    OBVIOUS
  <2> HIDE DEF W
  <2>4. BlCount(0) * W \in Nat
    BY ONLY <2>1, <2>2, <2>3
  <2> QED BY <2>4 DEF W
<1>10. \A b \in 0..L : Level(b) = A + Total(PartOf, b)
  BY DEF Level
<1> HIDE DEF L, f, w, A
<1>11. \A b \in 1..L : PartOf[b] \in Nat
  <2> SUFFICES ASSUME NEW b \in 1..L PROVE PartOf[b] \in Nat
    OBVIOUS
  <2>1. PartOf[b] = BlCount(b) * w(b) /\ BlCount(b) \in Nat /\ w(b) \in Nat
    BY <1>1, <1>2, <1>5, <1>8
  <2> QED BY <2>1
<1>12. Ints(PartOf, L)
  BY <1>11 DEF Ints
<1>13. Total(PartOf, 0) = 0 /\ (\A b \in 0..L : Total(PartOf, b) \in Int) /\ \A b \in 1..L : Total(PartOf, b) = Total(PartOf, b - 1) + PartOf[b]
  BY <1>5, <1>12, TotalSteps
<1>14. Level(0) = A
  <2>1. 0 \in 0..L
    BY <1>5
  <2> QED BY <2>1, <1>9, <1>10, <1>13
<1>15. ASSUME NEW b \in 1..L PROVE Level(b) = Level(b - 1) + BlCount(b) * w(b)
  <2>1. Total(PartOf, b) = Total(PartOf, b - 1) + PartOf[b] /\ PartOf[b] = BlCount(b) * w(b) /\ PartOf[b] \in Nat
    BY <1>8, <1>11, <1>13
  <2>2. Level(b) = A + Total(PartOf, b) /\ Level(b - 1) = A + Total(PartOf, b - 1) /\ Total(PartOf, b - 1) \in Int
    BY <1>5, <1>10, <1>13
  <2> QED BY <2>1, <2>2, <1>9
<1>16. v \in [0..L -> Int] /\ \A b \in 0..L : v[b] = Level(b)
  BY <1>9, <1>10, <1>13
<1> HIDE DEF v
<1>17. \A i \in 0..L - 1 : v[i] <= v[i + 1]
  <2> SUFFICES ASSUME NEW i \in 0..L - 1 PROVE v[i] <= v[i + 1]
    OBVIOUS
  <2>1. i + 1 \in 1..L /\ (i + 1) - 1 = i /\ i \in 0..L /\ i + 1 \in 0..L
    BY <1>5
  <2>2. Level(i + 1) = Level(i) + BlCount(i + 1) * w(i + 1)
    BY <2>1, <1>15
  <2>3. BlCount(i + 1) * w(i + 1) \in Nat
    BY <2>1, <1>8, <1>11
  <2>4. v[i] = Level(i) /\ v[i + 1] = Level(i + 1) /\ v[i] \in Int
    BY <2>1, <1>16
  <2> QED BY <2>2, <2>3, <2>4
<1>18. \A i, j \in 0..L : i <= j => v[i] <= v[j]
  BY <1>5, <1>16, <1>17, Rises
<1>19. \A b \in 0..L : Level(b) \in Nat
  <2> SUFFICES ASSUME NEW b \in 0..L PROVE Level(b) \in Nat
    OBVIOUS
  <2>1. 0 \in 0..L /\ 0 <= b
    BY <1>5
  <2>2. v[0] <= v[b] /\ v[0] = A /\ v[b] = Level(b) /\ v[b] \in Int
    BY <2>1, <1>14, <1>16, <1>18
  <2> QED BY <2>2, <1>9
<1> DEFINE S == {n \in 0..L : n >= 1 => f[n] * w(n) = Level(n - 1)}
<1>20. 0 \in S
  BY <1>5
<1>21. ASSUME NEW n \in 0..L - 1, n \in S PROVE n + 1 \in S
  <2>1. n + 1 \in 1..L /\ (n + 1) - 1 = n /\ n \in 0..L /\ n + 1 \in 0..L
    BY <1>5
  <2>2. f[n + 1] = (f[n] + BlCount(n)) * 2 /\ w(n) = 2 * w(n + 1)
    BY <2>1, <1>3, <1>7
  <2>3. f[n] \in Nat /\ BlCount(n) \in Nat /\ w(n) \in Nat /\ w(n + 1) \in Nat
    BY <2>1, <1>1, <1>2, <1>7
  <2>4. f[n + 1] * w(n + 1) = f[n] * w(n) + BlCount(n) * w(n)
    <3>1. \A x, y, z \in Nat : ((x + y) * 2) * z = x * (2 * z) + y * (2 * z)
      OBVIOUS
    <3>2. ((f[n] + BlCount(n)) * 2) * w(n + 1) = f[n] * (2 * w(n + 1)) + BlCount(n) * (2 * w(n + 1))
      BY <2>3, <3>1
    <3> QED BY <2>2, <3>2
  <2>5. CASE n = 0
    <3>1. f[n] * w(n) = 0
      <4>1. \A z \in Nat : 0 * z = 0
        OBVIOUS
      <4> QED BY <4>1, <2>3, <2>5, <1>7
    <3>2. BlCount(n) * w(n) = A
      BY <2>5, <1>4 DEF A, L
    <3>3. f[n + 1] * w(n + 1) = Level(n)
      BY <2>4, <2>5, <3>1, <3>2, <1>9, <1>14
    <3> QED BY <2>1, <3>3
  <2>6. CASE n # 0
    <3>1. n \in 1..L
      BY <2>1, <2>6, <1>5
    <3>2. f[n] * w(n) = Level(n - 1)
      BY <1>21, <3>1, <1>5
    <3>3. Level(n) = Level(n - 1) + BlCount(n) * w(n)
      BY <3>1, <1>15
    <3> QED BY <2>1, <2>4, <3>2, <3>3
  <2> QED BY <2>5, <2>6
<1> HIDE DEF S
<1>22. 0..L \subseteq S
  BY <1>5, <1>20, <1>21, UpToN
<1>23. ASSUME NEW b \in 1..L PROVE f[b] * w(b) = Level(b - 1)
  <2>1. b \in S /\ b >= 1
    BY <1>5, <1>22
  <2> QED BY <2>1 DEF S
<1>24. \A i, j \in 0..L : i <= j => Level(i) <= Level(j)
  BY <1>16, <1>18
<1> QED BY <1>2, <1>14, <1>15, <1>19, <1>23, <1>24 DEF L, f, w, A

\* Kraft's sum, over all symbols that have a code.
KraftSum(lens) ==
  Total([k \in 1..numcodes |-> IF lens[k - 1] = 0 THEN 0 ELSE 2^(maxbitlen - lens[k - 1])], numcodes)

\* Counting is a total of ones.
LEMMA CountOfIsTotal ==
  ASSUME NEW N \in Nat, NEW b
  PROVE  CountOf(b, N) = Total([k \in 1..N |-> IF lengths[k - 1] = b THEN 1 ELSE 0], N)
<1> DEFINE f == [k \in 1..N |-> IF lengths[k - 1] = b THEN 1 ELSE 0]
           S == {n \in 0..N : CountOf(b, n) = Total(f, n)}
<1>1. Ints(f, N)
  BY DEF Ints
<1>2. Total(f, 0) = 0 /\ \A n \in 0..N - 1 : Total(f, n + 1) = Total(f, n) + f[n + 1]
  <2> HIDE DEF f
  <2> QED BY <1>1, TotalSteps
<1>3. CountOf(b, 0) = 0 /\ \A n \in Nat : CountOf(b, n + 1) = CountOf(b, n) + IF lengths[n] = b THEN 1 ELSE 0
  BY Counting
<1>4. 0 \in S
  BY <1>2, <1>3
<1>5. ASSUME NEW n \in 0..N - 1, n \in S PROVE n + 1 \in S
  <2>1. n + 1 \in 1..N /\ (n + 1) - 1 = n /\ n \in Nat
    OBVIOUS
  <2>2. f[n + 1] = IF lengths[n] = b THEN 1 ELSE 0
    BY <2>1
  <2>3. CountOf(b, n + 1) = CountOf(b, n) + IF lengths[n] = b THEN 1 ELSE 0
    BY <2>1, <1>3
  <2> QED BY <2>1, <2>2, <2>3, <1>2, <1>5
<1> HIDE DEF S
<1>6. 0..N \subseteq S
  BY <1>4, <1>5, UpToN
<1>7. N \in S
  BY <1>6
<1> QED BY <1>7 DEF S

\* The share of all codes is Kraft's sum and that of the symbols without a code,
\* which are counted too.
LEMMA KraftIsLevels ==
  ASSUME numcodes \in Nat, maxbitlen \in 1..15, lengths \in [Symbols -> 0..maxbitlen]
  PROVE  Level(maxbitlen) = BlCount(0) * 2^maxbitlen + KraftSum(lengths)
<1> DEFINE L == maxbitlen
           w == [b \in 1..L |-> 2^(L - b)]
           f == [k \in 1..numcodes |-> [b \in 1..L |-> IF lengths[k - 1] = b THEN w[b] ELSE 0]]
           r == [k \in 1..numcodes |-> IF lengths[k - 1] = 0 THEN 0 ELSE 2^(L - lengths[k - 1])]
<1>1. L \in Nat /\ \A k \in 1..numcodes : k - 1 \in Symbols /\ lengths[k - 1] \in 0..L
  BY DEF Symbols
<1>2. \A b \in 1..L : w[b] \in Nat
  <2>1. \A b \in 1..L : b \in 0..L
    OBVIOUS
  <2> QED BY <2>1, Levels
<1>3. f \in [1..numcodes -> [1..L -> Int]]
  <2> HIDE DEF w
  <2> QED BY <1>2
<1>4. \A k \in 1..numcodes : \A b \in 1..L : f[k][b] = IF lengths[k - 1] = b THEN w[b] ELSE 0
  OBVIOUS
<1>5. \A k \in 1..numcodes : r[k] = IF lengths[k - 1] = 0 THEN 0 ELSE w[lengths[k - 1]]
  BY <1>1
<1>6. \A b \in 1..L : PartOf[b] = BlCount(b) * w[b]
  BY DEF PartOf
<1> HIDE DEF w, f, r
<1>7. ASSUME NEW k \in 1..numcodes PROVE r[k] = Total(f[k], L)
  <2> DEFINE g == f[k]
             c == lengths[k - 1]
  <2>1. (\A b \in 1..L : g[b] = IF c = b THEN w[b] ELSE 0) /\ c \in 0..L /\ r[k] = IF c = 0 THEN 0 ELSE w[c]
    BY <1>1, <1>4, <1>5
  <2> HIDE DEF g, c, L
  <2>2. CASE c = 0
    <3>1. \A b \in 1..L : g[b] = 0
      BY <2>1, <2>2
    <3>2. Total(g, L) = 0 * L
      BY <3>1, <1>1, TotalConstant
    <3> QED BY <3>2, <2>1, <2>2, <1>1 DEF g
  <2>3. CASE c # 0
    <3>1. c \in 1..L
      BY <2>1, <2>3, <1>1
    <3>2. g[c] = w[c] /\ g[c] \in Int /\ \A b \in 1..L : b # c => g[b] = 0
      BY <2>1, <3>1, <1>2
    <3>3. Total(g, L) = g[c]
      BY <3>1, <3>2, <1>1, TotalOne
    <3> QED BY <3>2, <3>3, <2>1, <2>3 DEF g
  <2> QED BY <2>2, <2>3
<1>8. ASSUME NEW b \in 1..L PROVE PartOf[b] = Total(Down(f, numcodes, b), numcodes)
  <2> DEFINE g == Down(f, numcodes, b)
             u == [k \in 1..numcodes |-> IF lengths[k - 1] = b THEN 1 ELSE 0]
             d == w[b]
  <2>1. d \in Int
    BY <1>2
  <2>2. \A k \in 1..numcodes : g[k] = d * u[k]
    <3> SUFFICES ASSUME NEW k \in 1..numcodes PROVE g[k] = d * u[k]
      OBVIOUS
    <3>1. g[k] = (IF lengths[k - 1] = b THEN d ELSE 0) /\ u[k] = IF lengths[k - 1] = b THEN 1 ELSE 0
      BY <1>4 DEF Down
    <3> HIDE DEF g, u, d
    <3> QED BY <2>1, <3>1
  <2>3. Ints(u, numcodes)
    BY DEF Ints
  <2>4. CountOf(b, numcodes) = Total(u, numcodes)
    BY CountOfIsTotal
  <2> HIDE DEF g, u, d
  <2>5. Total(g, numcodes) = d * Total(u, numcodes)
    BY <2>1, <2>2, <2>3, TotalTimes
  <2>6. BlCount(b) = CountOf(b, numcodes) /\ BlCount(b) \in Nat
    BY BlCountIs
  <2>7. BlCount(b) * d = d * BlCount(b)
    BY <2>1, <2>6
  <2> QED BY <2>4, <2>5, <2>6, <2>7, <1>6 DEF g, d
<1>9. RowSums(r, f, numcodes, L)
  BY <1>7 DEF RowSums
<1>10. ColumnSums(PartOf, f, numcodes, L)
  BY <1>8 DEF ColumnSums
<1>11. Total(r, numcodes) = Total(PartOf, L)
  <2>3. \A n1, m1 \in Nat : \A f1 \in [1..n1 -> [1..m1 -> Int]] : \A r1, c1 :
          RowSums(r1, f1, n1, m1) /\ ColumnSums(c1, f1, n1, m1) => Total(r1, n1) = Total(c1, m1)
    BY ONLY TotalTable
  <2> DEFINE m == numcodes
  <2>1. m \in Nat /\ L \in Nat /\ f \in [1..m -> [1..L -> Int]] /\ RowSums(r, f, m, L) /\ ColumnSums(PartOf, f, m, L)
    BY <1>1, <1>3, <1>9, <1>10
  <2> HIDE DEF m, L
  <2>5. \A r1, c1 : RowSums(r1, f, m, L) /\ ColumnSums(c1, f, m, L) => Total(r1, m) = Total(c1, L)
    BY ONLY <2>1, <2>3
  <2> QED BY <2>5, <2>1 DEF m
<1>12. KraftSum(lengths) = Total(r, numcodes)
  BY DEF KraftSum, r
<1> QED BY <1>11, <1>12 DEF Level

\* The share of all bit strings of the longest length that begin with a code,
\* in the order of their values.
Slot(s) == 2^(maxbitlen - lengths[s])
Left(c, s) == c[s] * Slot(s)
CodedSet == {s \in Symbols : lengths[s] > 0}
Lowest == BlCount(0) * 2^maxbitlen
Apart(c) == \A s, t \in CodedSet : s # t => Left(c, s) + Slot(s) <= Left(c, t) \/ Left(c, t) + Slot(t) <= Left(c, s)
Inside(c) == \A s \in CodedSet : Lowest <= Left(c, s) /\ Left(c, s) + Slot(s) <= Lowest + 2^maxbitlen
Covers(c, s, x) == Left(c, s) <= x /\ x < Left(c, s) + Slot(s)
Covered(c) == \A x \in Nat : Lowest <= x /\ x < Lowest + 2^maxbitlen => \E s \in CodedSet : Covers(c, s, x)
GoodCodes(c) ==
  /\ lengths \in [Symbols -> 0..maxbitlen] /\ c \in [Symbols -> Nat]
  /\ Apart(c) /\ Inside(c)
  /\ Covered(c) \/ \A s \in Symbols : lengths[s] <= 1

\* makeFromLengths2 lays the codes end to end, the shorter ones first.
Numbered(c) == c = [s \in Symbols |-> IF lengths[s] = 0 THEN 0 ELSE FirstCode[lengths[s]] + SameLengthBefore(s)]

\* Where the share of each code starts, and that it ends inside the share of its length.
LEMMA CodeStarts ==
  ASSUME numcodes \in Nat, maxbitlen \in 1..15, lengths \in [Symbols -> 0..maxbitlen], NEW c, Numbered(c)
  PROVE  /\ c \in [Symbols -> Nat]
         /\ \A s \in CodedSet :
              /\ s \in Symbols /\ s \in Nat /\ lengths[s] \in 1..maxbitlen /\ lengths[s] - 1 \in 0..maxbitlen
              /\ Slot(s) \in Nat /\ Slot(s) >= 1 /\ Left(c, s) \in Nat
              /\ Left(c, s) = Level(lengths[s] - 1) + SameLengthBefore(s) * Slot(s)
              /\ Left(c, s) + Slot(s) <= Level(lengths[s])
<1>1. /\ \A b : BlCount(b) \in Nat
      /\ \A s \in Symbols : SameLengthBefore(s) \in Nat /\ SameLengthBefore(s) < BlCount(lengths[s])
  BY BlCountIs
<1>2. /\ \A b \in 0..maxbitlen : Level(b) \in Nat /\ 2^(maxbitlen - b) \in Nat /\ 2^(maxbitlen - b) >= 1
      /\ \A b \in 1..maxbitlen : Level(b) = Level(b - 1) + BlCount(b) * 2^(maxbitlen - b)
      /\ \A b \in 1..maxbitlen : FirstCode[b] * 2^(maxbitlen - b) = Level(b - 1)
  BY Levels
<1>3. \A b \in 0..maxbitlen : FirstCode[b] \in Nat
  <2>1. maxbitlen \in 0..15
    OBVIOUS
  <2> QED BY <2>1, FirstCodeFollows DEF FirstCodes
<1>4. \A s \in Symbols : c[s] = IF lengths[s] = 0 THEN 0 ELSE FirstCode[lengths[s]] + SameLengthBefore(s)
  BY DEF Numbered
<1>5. c \in [Symbols -> Nat]
  <2>1. c = [s \in Symbols |-> c[s]]
    BY DEF Numbered
  <2>2. ASSUME NEW s \in Symbols PROVE c[s] \in Nat
    <3>1. FirstCode[lengths[s]] \in Nat /\ SameLengthBefore(s) \in Nat
      BY <1>1, <1>3
    <3> QED BY <3>1, <1>4
  <2> QED BY <2>1, <2>2
<1>6. ASSUME NEW s \in CodedSet
      PROVE  /\ s \in Symbols /\ s \in Nat /\ lengths[s] \in 1..maxbitlen /\ lengths[s] - 1 \in 0..maxbitlen
             /\ Slot(s) \in Nat /\ Slot(s) >= 1 /\ Left(c, s) \in Nat
             /\ Left(c, s) = Level(lengths[s] - 1) + SameLengthBefore(s) * Slot(s)
             /\ Left(c, s) + Slot(s) <= Level(lengths[s])
  <2> DEFINE b == lengths[s]
             w == Slot(s)
             p == SameLengthBefore(s)
             f == FirstCode[b]
             n == BlCount(b)
             v == Left(c, s)
  <2>1. s \in Symbols /\ s \in Nat /\ b \in 1..maxbitlen /\ b - 1 \in 0..maxbitlen /\ b \in 0..maxbitlen
    BY DEF CodedSet, Symbols
  <2>2. w = 2^(maxbitlen - b)
    BY DEF Slot
  <2>3. w \in Nat /\ w >= 1 /\ Level(b) = Level(b - 1) + n * w /\ f * w = Level(b - 1) /\ Level(b - 1) \in Nat /\ f \in Nat
    BY <2>1, <2>2, <1>2, <1>3
  <2>4. p \in Nat /\ n \in Nat /\ p + 1 <= n
    BY <2>1, <1>1
  <2>5. v = (f + p) * w
    BY <2>1, <1>4 DEF Left
  <2> HIDE DEF b, w, p, f, n, v
  <2>6. \A x, y, z \in Nat : (x + y) * z = x * z + y * z
    OBVIOUS
  <2>7. v = Level(b - 1) + p * w
    BY <2>3, <2>4, <2>5, <2>6
  <2>8. p * w \in Nat /\ p * w + w <= n * w
    <3>1. \A x, y, z \in Nat : x + 1 <= y => x * z \in Nat /\ x * z + z <= y * z
      <4> SUFFICES ASSUME NEW x \in Nat, NEW y \in Nat, NEW z \in Nat, x + 1 <= y
                   PROVE  x * z \in Nat /\ x * z + z <= y * z
        OBVIOUS
      <4>1. y = (x + 1) + (y - (x + 1)) /\ y - (x + 1) \in Nat
        OBVIOUS
      <4>2. y * z = (x + 1) * z + (y - (x + 1)) * z
        BY <4>1
      <4>3. (y - (x + 1)) * z \in Nat /\ (x + 1) * z = x * z + z /\ x * z \in Nat
        BY <4>1
      <4> QED BY <4>2, <4>3
    <3> QED BY <3>1, <2>3, <2>4
  <2>9. n * w \in Nat
    BY <2>3, <2>4
  <2>10. v + w <= Level(b) /\ v \in Nat
    BY <2>3, <2>7, <2>8, <2>9
  <2> QED BY <2>1, <2>3, <2>7, <2>10 DEF b, w, p, v
<1> QED BY <1>5, <1>6

\* Later codes begin where earlier ones have ended.
LEMMA CodesApart ==
  ASSUME numcodes \in Nat, maxbitlen \in 1..15, lengths \in [Symbols -> 0..maxbitlen], NEW c, Numbered(c)
  PROVE  Apart(c)
<1>1. \A s \in CodedSet :
        /\ s \in Symbols /\ s \in Nat /\ lengths[s] \in 1..maxbitlen /\ lengths[s] - 1 \in 0..maxbitlen
        /\ Slot(s) \in Nat /\ Slot(s) >= 1 /\ Left(c, s) \in Nat
        /\ Left(c, s) = Level(lengths[s] - 1) + SameLengthBefore(s) * Slot(s)
        /\ Left(c, s) + Slot(s) <= Level(lengths[s])
  BY CodeStarts
<1>2. /\ \A b \in 0..maxbitlen : Level(b) \in Nat
      /\ \A i, j \in 0..maxbitlen : i <= j => Level(i) <= Level(j)
  BY Levels
<1>3. /\ \A s \in Symbols : SameLengthBefore(s) \in Nat
      /\ \A s, t \in Symbols : s < t /\ lengths[s] = lengths[t] => SameLengthBefore(s) < SameLengthBefore(t)
  BY BlCountIs
<1>4. ASSUME NEW s \in CodedSet, NEW t \in CodedSet, lengths[s] < lengths[t]
      PROVE  Left(c, s) + Slot(s) <= Left(c, t)
  <2> DEFINE i == lengths[s]
             j == lengths[t] - 1
             p == SameLengthBefore(t) * Slot(t)
  <2>1. i \in 0..maxbitlen /\ j \in 0..maxbitlen /\ i <= j
    BY <1>1, <1>4
  <2>2. Level(i) <= Level(j) /\ Level(i) \in Nat /\ Level(j) \in Nat
    BY <2>1, <1>2
  <2>3. Left(c, s) + Slot(s) <= Level(i) /\ Left(c, t) = Level(j) + p /\ Left(c, s) \in Nat /\ Slot(s) \in Nat
    BY <1>1
  <2>4. p \in Nat
    <3>1. SameLengthBefore(t) \in Nat /\ Slot(t) \in Nat
      BY <1>1, <1>3
    <3> QED BY <3>1
  <2> HIDE DEF i, j, p
  <2> QED BY <2>2, <2>3, <2>4
<1>5. ASSUME NEW s \in CodedSet, NEW t \in CodedSet, s < t, lengths[s] = lengths[t]
      PROVE  Left(c, s) + Slot(s) <= Left(c, t)
  <2> DEFINE w == Slot(s)
             x == SameLengthBefore(s)
             y == SameLengthBefore(t)
             m == Level(lengths[s] - 1)
  <2>1. x \in Nat /\ y \in Nat /\ x + 1 <= y
    <3>1. x \in Nat /\ y \in Nat /\ x < y
      BY <1>1, <1>3, <1>5
    <3> QED BY <3>1
  <2>2. w \in Nat /\ m \in Nat /\ Left(c, s) = m + x * w
    BY <1>1, <1>2
  <2>3. Left(c, t) = m + y * w
    <3>1. Slot(t) = w
      BY <1>5 DEF Slot
    <3> QED BY <3>1, <1>1, <1>5
  <2> HIDE DEF w, x, y, m
  <2>4. y = (x + 1) + (y - (x + 1)) /\ y - (x + 1) \in Nat
    BY <2>1
  <2>5. y * w = (x + 1) * w + (y - (x + 1)) * w
    BY <2>1, <2>2, <2>4
  <2>6. (y - (x + 1)) * w \in Nat /\ (x + 1) * w = x * w + w /\ x * w \in Nat
    BY <2>1, <2>2, <2>4
  <2>7. m + x * w + w <= m + y * w
    BY <2>2, <2>5, <2>6
  <2> QED BY <2>2, <2>3, <2>6, <2>7 DEF w
<1>6. ASSUME NEW s \in CodedSet, NEW t \in CodedSet, s # t
      PROVE  Left(c, s) + Slot(s) <= Left(c, t) \/ Left(c, t) + Slot(t) <= Left(c, s)
  <2>1. \/ lengths[s] < lengths[t] \/ lengths[t] < lengths[s]
        \/ (s < t /\ lengths[s] = lengths[t]) \/ (t < s /\ lengths[t] = lengths[s])
    <3>1. lengths[s] \in Nat /\ lengths[t] \in Nat /\ s \in Nat /\ t \in Nat
      BY <1>1
    <3> QED BY <3>1, <1>6
  <2> QED BY <2>1, <1>4, <1>5
<1> QED BY <1>6 DEF Apart

\* When Kraft's sum allows it, no code goes beyond one whole: the bits above its
\* length, which are cut off, are the same for all codes.
LEMMA CodesInside ==
  ASSUME numcodes \in Nat, maxbitlen \in 1..15, lengths \in [Symbols -> 0..maxbitlen], NEW c, Numbered(c),
         KraftSum(lengths) <= 2^maxbitlen
  PROVE  Inside(c)
<1> SUFFICES ASSUME NEW s \in CodedSet
             PROVE  Lowest <= Left(c, s) /\ Left(c, s) + Slot(s) <= Lowest + 2^maxbitlen
  BY DEF Inside
<1> DEFINE b == lengths[s]
           p == SameLengthBefore(s) * Slot(s)
           P == 2^maxbitlen
           K == KraftSum(lengths)
<1>1. /\ s \in Symbols /\ b \in 1..maxbitlen /\ b - 1 \in 0..maxbitlen
      /\ Slot(s) \in Nat /\ Left(c, s) \in Nat
      /\ Left(c, s) = Level(b - 1) + p
      /\ Left(c, s) + Slot(s) <= Level(b)
  BY CodeStarts
<1>2. /\ \A i \in 0..maxbitlen : Level(i) \in Nat
      /\ \A i, j \in 0..maxbitlen : i <= j => Level(i) <= Level(j)
      /\ Level(0) = Lowest
  BY Levels DEF Lowest
<1>3. Level(maxbitlen) = Lowest + K
  BY KraftIsLevels DEF Lowest
<1>4. p \in Nat
  <2>1. SameLengthBefore(s) \in Nat
    BY <1>1, BlCountIs
  <2> QED BY <2>1, <1>1
<1>5. 0 \in 0..maxbitlen /\ maxbitlen \in 0..maxbitlen /\ b \in 0..maxbitlen /\ b <= maxbitlen /\ 0 <= b - 1 /\ b \in Int
  BY <1>1
<1>6. Level(0) <= Level(b - 1) /\ Level(b) <= Level(maxbitlen)
  BY <1>1, <1>2, <1>5
<1>7. Level(0) \in Nat /\ Level(b - 1) \in Nat /\ Level(b) \in Nat /\ Level(maxbitlen) \in Nat
  BY <1>1, <1>2, <1>5
<1>8. P \in Nat /\ K <= P
  <2>1. maxbitlen \in 0..15
    OBVIOUS
  <2> QED BY <2>1, Powers
<1> HIDE DEF p, P, b, K
<1>9. Lowest <= Left(c, s)
  BY <1>1, <1>2, <1>4, <1>6, <1>7
<1>10. Left(c, s) + Slot(s) <= Lowest + K
  BY <1>1, <1>3, <1>6, <1>7
<1>11. Lowest + K <= Lowest + P
  <2>1. Lowest \in Nat /\ K \in Int
    <3>1. Lowest \in Nat
      BY <1>2, <1>7
    <3>2. K \in Int
      <4> DEFINE f == [k \in 1..numcodes |-> IF lengths[k - 1] = 0 THEN 0 ELSE 2^(maxbitlen - lengths[k - 1])]
      <4>1. \A i \in 0..maxbitlen : 2^(maxbitlen - i) \in Nat
        BY Levels
      <4>2. \A k \in 1..numcodes : k - 1 \in Symbols
        BY DEF Symbols
      <4>3. Ints(f, numcodes)
        BY <4>1, <4>2 DEF Ints
      <4>4. numcodes \in 0..numcodes
        OBVIOUS
      <4> HIDE DEF f
      <4>5. Total(f, numcodes) \in Int
        BY <4>3, <4>4, TotalSteps
      <4> QED BY <4>5 DEF K, KraftSum, f
    <3> QED BY <3>1, <3>2
  <2> QED BY <2>1, <1>8
<1>12. Left(c, s) + Slot(s) \in Nat /\ Lowest + K \in Nat /\ Lowest + P \in Nat
  <2>1. Lowest \in Nat
    BY <1>2, <1>7
  <2> QED BY <2>1, <1>1, <1>3, <1>7, <1>8
<1> QED BY <1>9, <1>10, <1>11, <1>12 DEF P

\* Nothing is left out when Kraft's sum is all there is.
LEMMA CodesCover ==
  ASSUME numcodes \in Nat, maxbitlen \in 1..15, lengths \in [Symbols -> 0..maxbitlen], NEW c, Numbered(c),
         KraftSum(lengths) = 2^maxbitlen
  PROVE  Covered(c)
<1> SUFFICES ASSUME NEW x \in Nat, Lowest <= x, x < Lowest + 2^maxbitlen
             PROVE  \E s \in CodedSet : Covers(c, s, x)
  BY DEF Covered
<1> DEFINE v == [b \in 0..maxbitlen |-> Level(b)]
<1>1. /\ \A i \in 0..maxbitlen : Level(i) \in Nat /\ 2^(maxbitlen - i) \in Nat /\ 2^(maxbitlen - i) >= 1
      /\ \A b \in 1..maxbitlen : Level(b) = Level(b - 1) + BlCount(b) * 2^(maxbitlen - b)
      /\ Level(0) = Lowest
  BY Levels DEF Lowest
<1>2. Level(maxbitlen) = Lowest + 2^maxbitlen
  BY KraftIsLevels DEF Lowest
<1>3. v \in [0..maxbitlen -> Int] /\ \A b \in 0..maxbitlen : v[b] = Level(b)
  BY <1>1
<1>4. 0 \in 0..maxbitlen /\ maxbitlen \in 0..maxbitlen /\ maxbitlen \in Nat
  OBVIOUS
<1>5. v[0] <= x /\ x < v[maxbitlen] /\ x \in Int
  BY <1>1, <1>2, <1>3, <1>4
<1> HIDE DEF v
<1>6. PICK i \in 0..maxbitlen - 1 : v[i] <= x /\ x < v[i + 1]
  BY <1>3, <1>4, <1>5, OnAStep
<1> DEFINE b == i + 1
           w == 2^(maxbitlen - b)
           n == BlCount(b)
           y == x - Level(i)
<1>7. b \in 1..maxbitlen /\ b \in 0..maxbitlen /\ b - 1 = i /\ i \in 0..maxbitlen
  BY <1>6
<1>8. Level(i) <= x /\ x < Level(b) /\ Level(b) = Level(i) + n * w /\ Level(i) \in Nat /\ w \in Nat /\ w >= 1
  BY <1>1, <1>3, <1>6, <1>7
<1>9. n \in Nat
  BY BlCountIs
<1>10. y \in Nat /\ y < n * w
  <2> HIDE DEF w, n, b
  <2> QED BY <1>8, <1>9
<1> HIDE DEF w, n, b, y
<1> DEFINE g == [k \in 0..n |-> k * w]
<1>11. g \in [0..n -> Int]
  BY <1>8, <1>9
<1>12. g[0] <= y /\ y < g[n] /\ y \in Int
  <2>1. g[0] = 0 * w /\ g[n] = n * w
    BY <1>9
  <2> HIDE DEF g
  <2>2. 0 * w = 0
    BY <1>8
  <2> QED BY <2>1, <2>2, <1>10
<1>13. PICK q \in 0..n - 1 : g[q] <= y /\ y < g[q + 1]
  <2> HIDE DEF g
  <2> QED BY <1>9, <1>11, <1>12, OnAStep
<1>14. q * w <= y /\ y < (q + 1) * w
  BY <1>9, <1>13
<1>15. PICK s \in Symbols : lengths[s] = b /\ SameLengthBefore(s) = q
  BY <1>13, BlCountIs DEF n
<1>16. s \in CodedSet
  BY <1>7, <1>15 DEF CodedSet
<1>17. Slot(s) = w
  BY <1>15 DEF Slot, w
<1>18. Left(c, s) = Level(b - 1) + q * w
  BY <1>15, <1>16, <1>17, CodeStarts
<1>19. Left(c, s) <= x /\ x < Left(c, s) + w
  <2> DEFINE h == Level(i)
             u == q * w
  <2>1. (q + 1) * w = u + w /\ u \in Nat
    BY <1>8, <1>9, <1>13
  <2>2. Left(c, s) = h + u /\ h \in Nat /\ y = x - h
    BY <1>7, <1>8, <1>18 DEF y
  <2> HIDE DEF h, u
  <2> QED BY <2>1, <2>2, <1>8, <1>14 DEF u
<1> QED BY <1>16, <1>17, <1>19 DEF Covers

-----------------------------------------------------------------------------
\* Codes as paths.

\* What the provers need of products and quotients.
LEMMA Division ==
  /\ \A a, d \in Nat : d >= 1 => a \div d \in Nat /\ (a \div d) * d <= a /\ a < (a \div d + 1) * d
  /\ \A a \in Nat : a % 2 \in 0..1 /\ a = 2 * (a \div 2) + (a % 2)
  /\ \A x, y, d \in Nat : x <= y => x * d <= y * d
  /\ \A x, y, d \in Nat : x * d < y * d => x < y
  /\ \A x, y, d, a \in Nat : x * d <= a /\ a < (x + 1) * d /\ y * d <= a /\ a < (y + 1) * d => x = y
<1>1. \A a, d \in Nat : d >= 1 => a \div d \in Nat /\ (a \div d) * d <= a /\ a < (a \div d + 1) * d
  OBVIOUS
<1>3. ASSUME NEW a \in Nat PROVE a % 2 \in 0..1 /\ a = 2 * (a \div 2) + (a % 2)
  <2> DEFINE y == a \div 2
             r == a - 2 * y
  <2>1. y \in Nat /\ 2 * y <= a /\ a < 2 * y + 2
    OBVIOUS
  <2> HIDE DEF y
  <2>2. r \in 0..1 /\ a = 2 * y + r
    BY <2>1
  <2> HIDE DEF r
  <2>3. a % 2 = r
    BY <2>1, <2>2
  <2> QED BY <2>2, <2>3 DEF y
<1>4. ASSUME NEW x \in Nat, NEW y \in Nat, NEW d \in Nat, x <= y PROVE x * d <= y * d
  <2>1. y = x + (y - x) /\ y - x \in Nat
    BY <1>4
  <2>2. y * d = x * d + (y - x) * d
    BY <2>1
  <2>3. (y - x) * d \in Nat /\ x * d \in Nat
    BY <2>1
  <2> QED BY <2>2, <2>3
<1>5. ASSUME NEW x \in Nat, NEW y \in Nat, NEW d \in Nat, x * d < y * d PROVE x < y
  <2>1. ~(y <= x)
    <3> SUFFICES ASSUME y <= x PROVE FALSE
      OBVIOUS
    <3>1. y * d <= x * d
      BY <1>4
    <3>2. x * d \in Nat /\ y * d \in Nat
      OBVIOUS
    <3> QED BY <3>1, <3>2, <1>5
  <2> QED BY <2>1
<1>6. ASSUME NEW x \in Nat, NEW y \in Nat, NEW d \in Nat, NEW a \in Nat,
             x * d <= a, a < (x + 1) * d, y * d <= a, a < (y + 1) * d
      PROVE  x = y
  <2>1. x + 1 \in Nat /\ y + 1 \in Nat /\ x * d \in Nat /\ y * d \in Nat /\ (x + 1) * d \in Nat /\ (y + 1) * d \in Nat
    OBVIOUS
  <2>2. x * d < (y + 1) * d /\ y * d < (x + 1) * d
    BY <1>6, <2>1
  <2>3. x < y + 1
    BY <2>1, <2>2, <1>5
  <2>4. y < x + 1
    BY <2>1, <2>2, <1>5
  <2> QED BY <2>3, <2>4
<1> QED BY <1>1, <1>3, <1>4, <1>5, <1>6

\* The first i bits of a symbol's code, and the next one.
Pre(c, s, i) == c[s] \div 2^(lengths[s] - i)
BitAt(c, s, i) == (c[s] \div 2^(lengths[s] - i - 1)) % 2

\* The bits of a code, from the first: each prefix is twice the last and the next bit.
LEMMA PrefixSteps ==
  ASSUME maxbitlen \in 1..15, lengths \in [Symbols -> 0..maxbitlen], NEW c \in [Symbols -> Nat], NEW s \in Symbols
  PROVE  /\ \A i \in 0..lengths[s] :
              /\ Pre(c, s, i) \in Nat
              /\ 2^(lengths[s] - i) \in Nat /\ 2^(lengths[s] - i) >= 1
              /\ Pre(c, s, i) * 2^(lengths[s] - i) <= c[s] /\ c[s] < (Pre(c, s, i) + 1) * 2^(lengths[s] - i)
         /\ Pre(c, s, lengths[s]) = c[s]
         /\ \A i \in 0..lengths[s] - 1 : BitAt(c, s, i) \in 0..1 /\ Pre(c, s, i + 1) = 2 * Pre(c, s, i) + BitAt(c, s, i)
<1> DEFINE n == lengths[s]
           a == c[s]
<1>1. n \in 0..15 /\ a \in Nat
  <2>1. n \in 0..maxbitlen /\ a \in Nat
    OBVIOUS
  <2> HIDE DEF n
  <2> QED BY <2>1
<1>2. \A i \in 0..n : Pre(c, s, i) = a \div 2^(n - i)
  BY DEF Pre
<1>3. \A i \in 0..n - 1 : BitAt(c, s, i) = (a \div 2^(n - i - 1)) % 2
  BY DEF BitAt
<1> HIDE DEF n, a
<1>4. \A i \in 0..n : 2^(n - i) \in Nat /\ 2^(n - i) >= 1
  <2>1. \A i \in 0..n : n - i \in 0..15
    BY <1>1
  <2> QED BY <2>1, Powers
<1>5. \A i \in 0..n : /\ Pre(c, s, i) \in Nat
                      /\ Pre(c, s, i) * 2^(n - i) <= a /\ a < (Pre(c, s, i) + 1) * 2^(n - i)
  <2> SUFFICES ASSUME NEW i \in 0..n
               PROVE  /\ Pre(c, s, i) \in Nat
                      /\ Pre(c, s, i) * 2^(n - i) <= a /\ a < (Pre(c, s, i) + 1) * 2^(n - i)
    OBVIOUS
  <2> DEFINE d == 2^(n - i)
  <2>1. d \in Nat /\ d >= 1 /\ Pre(c, s, i) = a \div d
    BY <1>2, <1>4
  <2> HIDE DEF d
  <2>2. a \div d \in Nat /\ (a \div d) * d <= a /\ a < (a \div d + 1) * d
    BY <2>1, <1>1, Division
  <2> QED BY <2>1, <2>2 DEF d
<1>6. Pre(c, s, n) = a
  <2>1. n \in 0..n /\ n - n = 0 /\ 2^0 = 1
    BY <1>1, Powers
  <2>2. Pre(c, s, n) * 1 <= a /\ a < (Pre(c, s, n) + 1) * 1 /\ Pre(c, s, n) \in Nat
    BY <2>1, <1>5
  <2> QED BY <2>2, <1>1
<1>7. ASSUME NEW i \in 0..n - 1 PROVE BitAt(c, s, i) \in 0..1 /\ Pre(c, s, i + 1) = 2 * Pre(c, s, i) + BitAt(c, s, i)
  <2> DEFINE h == 2^(n - (i + 1))
             x == Pre(c, s, i + 1)
             y == x \div 2
             z == Pre(c, s, i)
  <2>1. i \in 0..n /\ i + 1 \in 0..n /\ n - i - 1 = n - (i + 1) /\ n - (i + 1) \in 0..14 /\ n - i = (n - (i + 1)) + 1
    BY <1>1
  <2>2. 2^(n - i) = 2 * h /\ h \in Nat /\ h >= 1
    <3>1. 2^((n - (i + 1)) + 1) = 2 * 2^(n - (i + 1))
      BY <2>1, Powers
    <3> QED BY <3>1, <2>1, <1>4
  <2>3. BitAt(c, s, i) = x % 2
    BY <2>1, <1>2, <1>3
  <2>4. x \in Nat /\ x * h <= a /\ a < (x + 1) * h /\ z \in Nat /\ z * (2 * h) <= a /\ a < (z + 1) * (2 * h)
    BY <2>1, <2>2, <1>5
  <2>5. x % 2 \in 0..1 /\ x = 2 * y + (x % 2) /\ y \in Nat
    <3>1. x \in Nat
      BY <2>4
    <3>2. 2 \in Nat /\ 2 >= 1
      OBVIOUS
    <3> HIDE DEF x
    <3>3. x % 2 \in 0..1 /\ x = 2 * (x \div 2) + (x % 2)
      BY <3>1, Division
    <3>4. x \div 2 \in Nat
      BY <3>1, <3>2, Division
    <3> QED BY <3>3, <3>4
  <2> HIDE DEF h, x, y, z
  <2>6. y * (2 * h) <= a
    <3> DEFINE r == x % 2
    <3>0. r \in 0..1 /\ x = 2 * y + r /\ y \in Nat /\ x \in Nat
      BY <2>4, <2>5
    <3> HIDE DEF r
    <3>1. 2 * y \in Nat /\ 2 * y <= x
      BY <3>0
    <3>2. (2 * y) * h <= x * h
      BY <3>1, <2>2, <2>4, Division
    <3>3. (2 * y) * h = y * (2 * h)
      BY <2>2, <2>5
    <3>4. x * h \in Nat /\ (2 * y) * h \in Nat
      BY <2>2, <2>4, <3>1
    <3> QED BY <3>2, <3>3, <3>4, <2>4, <1>1
  <2>7. a < (y + 1) * (2 * h)
    <3> DEFINE r == x % 2
    <3>0. r \in 0..1 /\ x = 2 * y + r /\ y \in Nat /\ x \in Nat
      BY <2>4, <2>5
    <3> HIDE DEF r
    <3>1. x + 1 \in Nat /\ 2 * (y + 1) \in Nat /\ x + 1 <= 2 * (y + 1)
      BY <3>0
    <3>2. (x + 1) * h <= (2 * (y + 1)) * h
      <4>1. \A x1, y1, d1 \in Nat : x1 <= y1 => x1 * d1 <= y1 * d1
        BY ONLY Division
      <4> DEFINE u == x + 1
                 v == 2 * (y + 1)
      <4>2. u \in Nat /\ v \in Nat /\ u <= v /\ h \in Nat
        BY <3>1, <2>2
      <4> HIDE DEF u, v
      <4>3. u * h <= v * h
        BY ONLY <4>1, <4>2
      <4> QED BY <4>3 DEF u, v
    <3>3. (2 * (y + 1)) * h = (y + 1) * (2 * h)
      BY <2>2, <2>5
    <3>4. (x + 1) * h \in Nat /\ (2 * (y + 1)) * h \in Nat
      BY <2>2, <3>1
    <3> QED BY <3>2, <3>3, <3>4, <2>4, <1>1
  <2>8. y = z
    <3>1. 2 * h \in Nat
      BY <2>2
    <3>2. \A x1, y1, d1, a1 \in Nat : x1 * d1 <= a1 /\ a1 < (x1 + 1) * d1 /\ y1 * d1 <= a1 /\ a1 < (y1 + 1) * d1 => x1 = y1
      BY Division
    <3> QED BY ONLY <3>1, <3>2, <2>4, <2>5, <2>6, <2>7, <1>1
  <2>9. BitAt(c, s, i) \in 0..1
    BY <2>3, <2>5
  <2>10. x = 2 * z + BitAt(c, s, i)
    BY <2>3, <2>5, <2>8
  <2> QED BY <2>9, <2>10 DEF x, z
<1> QED BY <1>4, <1>5, <1>6, <1>7 DEF n, a

\* The bit strings that begin with a prefix of a code have the prefix's share.
LEMMA PrefixRange ==
  ASSUME maxbitlen \in 1..15, lengths \in [Symbols -> 0..maxbitlen], NEW c \in [Symbols -> Nat],
         NEW s \in Symbols, NEW i \in 0..lengths[s]
  PROVE  /\ Pre(c, s, i) \in Nat /\ Left(c, s) \in Nat /\ Slot(s) \in Nat /\ Slot(s) >= 1
         /\ 2^(maxbitlen - i) \in Nat /\ 2^(maxbitlen - i) >= 1
         /\ Pre(c, s, i) * 2^(maxbitlen - i) <= Left(c, s)
         /\ Left(c, s) + Slot(s) <= (Pre(c, s, i) + 1) * 2^(maxbitlen - i)
<1> DEFINE n == lengths[s]
           a == c[s]
           p == Pre(c, s, i)
           v == 2^(n - i)
           w == 2^(maxbitlen - n)
<1>1. n \in 0..maxbitlen /\ a \in Nat
  OBVIOUS
<1>2. p \in Nat /\ v \in Nat /\ v >= 1 /\ p * v <= a /\ a < (p + 1) * v
  BY PrefixSteps
<1>3. i \in 0..n
  OBVIOUS
<1>9. Left(c, s) = a * w /\ Slot(s) = w
  BY DEF Left, Slot
<1> HIDE DEF n, a, p
<1>4. n - i \in 0..15 /\ maxbitlen - n \in 0..15 /\ (n - i) + (maxbitlen - n) = maxbitlen - i /\ maxbitlen - i \in 0..15
  BY <1>1, <1>3
<1>5. w \in Nat /\ w >= 1 /\ 2^(maxbitlen - i) \in Nat /\ 2^(maxbitlen - i) >= 1
  BY <1>4, Powers
<1>6. 2^(maxbitlen - i) = v * w
  <2>1. \A x, y \in 0..15 : x + y <= 15 => 2^(x + y) = 2^x * 2^y
    BY PowerSum
  <2> DEFINE x == n - i
             y == maxbitlen - n
  <2>2. x \in 0..15 /\ y \in 0..15 /\ x + y <= 15 /\ x + y = maxbitlen - i
    BY <1>4
  <2> HIDE DEF x, y
  <2>3. 2^(x + y) = 2^x * 2^y
    BY <2>1, <2>2
  <2> QED BY <2>2, <2>3 DEF x, y, v, w
<1> HIDE DEF v, w
<1>7. \A x1, y1, d1 \in Nat : x1 <= y1 => x1 * d1 <= y1 * d1
  BY Division
<1>8. \A x1, y1 \in Nat : x1 * y1 \in Nat
  OBVIOUS
<1>10. (p * v) * w <= a * w
  BY <1>1, <1>2, <1>5, <1>7, <1>8
<1>11. (a + 1) * w <= ((p + 1) * v) * w
  <2> DEFINE q == p + 1
             u == q * v
             z == a + 1
  <2>1. q \in Nat
    BY <1>2
  <2>2. u \in Nat
    BY <2>1, <1>2, <1>8
  <2>3. z \in Nat /\ z <= u
    BY <2>2, <1>1, <1>2
  <2> HIDE DEF z, u
  <2>4. z * w <= u * w
    BY <2>2, <2>3, <1>5, <1>7
  <2> QED BY <2>4 DEF z, u
<1>12. \A x1, y1, z1 \in Nat : (x1 * y1) * z1 = x1 * (y1 * z1)
  OBVIOUS
<1>13. p * (v * w) <= a * w
  BY <1>10, <1>12, <1>2, <1>5
<1>14. (a + 1) * w <= (p + 1) * (v * w)
  <2>1. p + 1 \in Nat
    BY <1>2
  <2>2. ((p + 1) * v) * w = (p + 1) * (v * w)
    BY <2>1, <1>12, <1>2, <1>5
  <2> QED BY <2>2, <1>11
<1>15. (a + 1) * w = a * w + w /\ a * w \in Nat
  BY <1>1, <1>5
<1> QED BY <1>2, <1>5, <1>6, <1>9, <1>13, <1>14, <1>15 DEF p

\* All codes begin with the bits that count the symbols without a code.
LEMMA RootPrefix ==
  ASSUME numcodes \in Nat, maxbitlen \in 1..15, NEW c, GoodCodes(c), NEW s \in CodedSet
  PROVE  Pre(c, s, 0) = BlCount(0)
<1>1. maxbitlen \in 1..15 /\ lengths \in [Symbols -> 0..maxbitlen] /\ c \in [Symbols -> Nat] /\ s \in Symbols /\ 0 \in 0..lengths[s]
  BY DEF GoodCodes, CodedSet
<1> DEFINE p == Pre(c, s, 0)
           b == BlCount(0)
           d == 2^maxbitlen
           x == Left(c, s)
           w == Slot(s)
<1>2. maxbitlen - 0 = maxbitlen
  BY <1>1
<1>3. p \in Nat /\ x \in Nat /\ w \in Nat /\ w >= 1 /\ d \in Nat /\ d >= 1 /\ p * d <= x /\ x + w <= (p + 1) * d
  BY <1>1, <1>2, PrefixRange
<1>4. b \in Nat
  BY BlCountIs
<1>5. b * d <= x /\ x + w <= b * d + d
  BY DEF GoodCodes, Inside, Lowest
<1> HIDE DEF p, b, d, x, w
<1>6. (b + 1) * d = b * d + d /\ (p + 1) * d \in Nat /\ b * d \in Nat
  BY <1>3, <1>4
<1>7. x < (p + 1) * d /\ x < (b + 1) * d
  BY <1>3, <1>5, <1>6
<1>8. \A x1, y1, d1, a1 \in Nat : x1 * d1 <= a1 /\ a1 < (x1 + 1) * d1 /\ y1 * d1 <= a1 /\ a1 < (y1 + 1) * d1 => x1 = y1
  BY Division
<1>9. p = b
  BY ONLY <1>3, <1>4, <1>5, <1>7, <1>8
<1> QED BY <1>9 DEF p, b

\* No code is the beginning of another.
LEMMA PrefixFree ==
  ASSUME maxbitlen \in 1..15, NEW c, GoodCodes(c), NEW s \in CodedSet, NEW t \in CodedSet, s # t, lengths[t] <= lengths[s]
  PROVE  Pre(c, s, lengths[t]) # c[t]
<1> SUFFICES ASSUME Pre(c, s, lengths[t]) = c[t] PROVE FALSE
  OBVIOUS
<1>1. lengths \in [Symbols -> 0..maxbitlen] /\ c \in [Symbols -> Nat] /\ s \in Symbols /\ t \in Symbols
  BY DEF GoodCodes, CodedSet
<1>2. lengths[t] \in 0..lengths[s] /\ lengths[t] \in 0..lengths[t]
  <2>1. lengths[t] \in 0..maxbitlen /\ lengths[s] \in 0..maxbitlen
    BY <1>1
  <2> QED BY <2>1
<1> DEFINE d == 2^(maxbitlen - lengths[t])
           a == c[t]
           x == Left(c, s)
           y == Left(c, t)
<1>3. x \in Nat /\ Slot(s) \in Nat /\ Slot(s) >= 1 /\ a * d <= x /\ x + Slot(s) <= (a + 1) * d /\ d \in Nat
  BY <1>1, <1>2, PrefixRange
<1>4. y = a * d /\ Slot(t) = d
  BY DEF Left, Slot
<1>5. a \in Nat
  BY <1>1
<1>7. x + Slot(s) <= y \/ y + d <= x
  BY <1>4 DEF GoodCodes, Apart
<1> HIDE DEF d, a, x, y
<1>6. (a + 1) * d = a * d + d /\ a * d \in Nat
  BY <1>3, <1>5
<1> QED BY <1>3, <1>4, <1>6, <1>7

\* Odd and even multiples differ.
LEMMA OddEven == \A x, y, d \in Nat : d >= 1 => (2 * x + 1) * d # (2 * y) * d
<1> SUFFICES ASSUME NEW x \in Nat, NEW y \in Nat, NEW d \in Nat, d >= 1, (2 * x + 1) * d = (2 * y) * d PROVE FALSE
  OBVIOUS
<1> DEFINE u == 2 * x + 1
           v == 2 * y
<1>1. u \in Nat /\ v \in Nat /\ u # v
  OBVIOUS
<1>2. u * d = v * d
  OBVIOUS
<1> HIDE DEF u, v
<1>3. u < v \/ v < u
  BY <1>1
<1>4. \A a, b \in Nat : a < b => a * d < b * d
  <2> SUFFICES ASSUME NEW a \in Nat, NEW b \in Nat, a < b PROVE a * d < b * d
    OBVIOUS
  <2>1. PICK e \in Nat : b = a + 1 + e
    <3>1. b - a - 1 \in Nat /\ b = a + 1 + (b - a - 1)
      OBVIOUS
    <3> QED BY <3>1
  <2>2. b * d = a * d + d + e * d /\ e * d \in Nat /\ a * d \in Nat
    BY <2>1
  <2> QED BY <2>2
<1>5. u * d \in Nat /\ v * d \in Nat
  BY <1>1
<1> QED BY <1>1, <1>2, <1>3, <1>4, <1>5

\* A product by a power of two, in two steps.
LEMMA PowerProduct ==
  ASSUME NEW x \in 0..15, NEW y \in 0..15, x <= y
  PROVE  y - x \in 0..15 /\ 2^(y - x) \in Nat /\ 2^(y - x) >= 1 /\ 2^y = 2^(y - x) * 2^x
<1>1. \A a, b \in 0..15 : a + b <= 15 => 2^(a + b) = 2^a * 2^b
  BY PowerSum
<1> DEFINE z == y - x
<1>2. z \in 0..15 /\ z + x = y /\ z + x <= 15
  OBVIOUS
<1> HIDE DEF z
<1>3. 2^(z + x) = 2^z * 2^x
  BY <1>1, <1>2
<1>4. 2^z \in Nat /\ 2^z >= 1
  BY <1>2, Powers
<1> QED BY <1>2, <1>3, <1>4 DEF z

\* The middle of the share of a prefix p of d bits.
Middle(d, p) == (2 * p + 1) * 2^(maxbitlen - d - 1)

\* It lies within what the codes cover.
LEMMA MiddleInside ==
  ASSUME numcodes \in Nat, maxbitlen \in 1..15, NEW c, GoodCodes(c), NEW t \in CodedSet, NEW d \in 0..lengths[t] - 1
  PROVE  /\ maxbitlen - d - 1 \in 0..14 /\ 2^(maxbitlen - d - 1) \in Nat /\ 2^(maxbitlen - d - 1) >= 1
         /\ 2^(maxbitlen - d) = 2 * 2^(maxbitlen - d - 1)
         /\ Pre(c, t, d) \in Nat /\ Middle(d, Pre(c, t, d)) \in Nat
         /\ Lowest <= Middle(d, Pre(c, t, d)) /\ Middle(d, Pre(c, t, d)) < Lowest + 2^maxbitlen
<1>1. lengths \in [Symbols -> 0..maxbitlen] /\ c \in [Symbols -> Nat] /\ t \in Symbols
  BY DEF GoodCodes, CodedSet
<1>2. lengths[t] \in 0..maxbitlen
  BY <1>1
<1>3. d \in 0..lengths[t] /\ d \in 0..14 /\ d + 1 <= maxbitlen /\ maxbitlen \in 0..15 /\ d \in Nat /\ d \in 0..15
  BY <1>2
<1> DEFINE e == maxbitlen - d - 1
           h == 2^e
           p == Pre(c, t, d)
           x == Left(c, t)
           b == BlCount(0)
           r == 2^d
<1>4. e \in 0..14 /\ e + 1 = maxbitlen - d /\ e \in 0..15 /\ maxbitlen - (e + 1) = d /\ e + 1 \in 0..15 /\ e + 1 <= maxbitlen
  BY <1>3
<1>5. p \in Nat /\ x \in Nat /\ Slot(t) \in Nat /\ Slot(t) >= 1 /\ p * 2^(maxbitlen - d) <= x /\ x + Slot(t) <= (p + 1) * 2^(maxbitlen - d)
  BY <1>1, <1>3, PrefixRange
<1>6. b \in Nat
  BY BlCountIs
<1>7. b * 2^maxbitlen <= x /\ x + Slot(t) <= b * 2^maxbitlen + 2^maxbitlen
  BY DEF GoodCodes, Inside, Lowest
<1>13. Lowest = b * 2^maxbitlen /\ Middle(d, p) = (2 * p + 1) * h
  BY DEF Lowest, Middle
<1> HIDE DEF e, p, x, b
<1>8. h \in Nat /\ h >= 1 /\ 2^(maxbitlen - d) = 2 * h
  BY <1>4, Powers
<1>9. r \in Nat /\ r >= 1 /\ 2^maxbitlen = r * (2 * h)
  <2>1. \A a1, b1 \in 0..15 : a1 <= b1 => 2^b1 = 2^(b1 - a1) * 2^a1
    BY PowerProduct
  <2>2. 2^maxbitlen = 2^(maxbitlen - (e + 1)) * 2^(e + 1)
    <3> DEFINE a1 == e + 1
    <3>1. a1 \in 0..15 /\ maxbitlen \in 0..15 /\ a1 <= maxbitlen
      BY <1>3, <1>4
    <3> HIDE DEF a1
    <3>2. 2^maxbitlen = 2^(maxbitlen - a1) * 2^a1
      BY <3>1, <2>1
    <3> QED BY <3>2 DEF a1
  <2>3. 2^(maxbitlen - (e + 1)) = r
    BY <1>4
  <2>4. 2^(e + 1) = 2 * h
    BY <1>4, <1>8
  <2>5. r \in Nat /\ r >= 1
    BY <1>3, Powers
  <2> QED BY <2>2, <2>3, <2>4, <2>5
<1> HIDE DEF h, r
<1> DEFINE k == 2 * h
<1>10. k \in Nat /\ k >= 1 /\ p * k <= x /\ x < (p + 1) * k
  <2>1. x + Slot(t) <= (p + 1) * k /\ p * k <= x /\ k \in Nat /\ k >= 1
    BY <1>5, <1>8
  <2> HIDE DEF k
  <2>2. (p + 1) * k \in Nat
    BY <2>1, <1>5
  <2> QED BY <2>1, <2>2, <1>5
<1>11. (b * r) * k <= x /\ x < ((b + 1) * r) * k
  <2>1. b * (r * k) <= x /\ x + Slot(t) <= b * (r * k) + r * k
    BY <1>7, <1>9
  <2> HIDE DEF k
  <2>2. \A a1, b1, c1 \in Nat : a1 * (b1 * c1) = (a1 * b1) * c1
    OBVIOUS
  <2>3. r * k \in Nat
    BY <1>9, <1>10
  <2> DEFINE v == r * k
  <2>4. b * v <= x /\ x + Slot(t) <= b * v + v /\ v \in Nat
    BY <2>1, <2>3
  <2>6. b * v = (b * r) * k /\ (b + 1) * v = ((b + 1) * r) * k
    <3>1. b + 1 \in Nat
      BY <1>6
    <3> QED BY <3>1, <2>2, <1>6, <1>9, <1>10
  <2> HIDE DEF v
  <2>5. (b + 1) * v = b * v + v /\ b * v \in Nat
    BY <2>4, <1>6
  <2>7. x < (b + 1) * v
    BY <2>4, <2>5, <1>5
  <2> QED BY <2>4, <2>6, <2>7
<1> HIDE DEF k
<1> DEFINE u == b * r
           w == (b + 1) * r
<1>12. u <= p /\ p + 1 <= w /\ u \in Nat /\ w \in Nat
  <2>1. u \in Nat /\ w \in Nat
    BY <1>6, <1>9
  <2>2. u * k <= x /\ x < w * k
    BY <1>11
  <2> HIDE DEF u, w
  <2>3. u * k \in Nat /\ w * k \in Nat /\ p * k \in Nat /\ (p + 1) * k \in Nat /\ p + 1 \in Nat
    BY <2>1, <1>5, <1>10
  <2>4. u * k < (p + 1) * k /\ p * k < w * k
    BY <2>2, <2>3, <1>10, <1>5
  <2>5. \A x1, y1, d1 \in Nat : x1 * d1 < y1 * d1 => x1 < y1
    BY Division
  <2>6. u < p + 1 /\ p < w
    <3> DEFINE q == p + 1
    <3>1. q \in Nat /\ u * k < q * k
      BY <2>3, <2>4
    <3> HIDE DEF q
    <3>2. u < q
      BY <3>1, <2>1, <2>5, <1>10
    <3>3. p < w
      BY <2>4, <2>1, <2>5, <1>10, <1>5
    <3> QED BY <3>2, <3>3 DEF q
  <2> QED BY <2>1, <2>6, <1>5
<1>14. (2 * p + 1) * h = p * k + h
  BY <1>5, <1>8 DEF k
<1>15. u * k <= p * k /\ (p + 1) * k <= w * k
  <2> DEFINE q == p + 1
  <2>1. q \in Nat /\ q <= w
    BY <1>12, <1>5
  <2> HIDE DEF q, u, w
  <2>2. \A x1, y1, d1 \in Nat : x1 <= y1 => x1 * d1 <= y1 * d1
    BY Division
  <2>3. u * k <= p * k
    BY <1>12, <1>5, <1>10, <2>2
  <2>4. q * k <= w * k
    BY <2>1, <1>12, <1>10, <2>2
  <2> QED BY <2>3, <2>4 DEF q
<1>16. u * k = b * 2^maxbitlen /\ w * k = b * 2^maxbitlen + 2^maxbitlen
  <2>1. 2^maxbitlen = r * k
    BY <1>9 DEF k
  <2>2. u * k = b * (r * k)
    BY <1>6, <1>9, <1>10
  <2>3. w * k = b * (r * k) + r * k
    BY <1>6, <1>9, <1>10
  <2> QED BY <2>1, <2>2, <2>3
<1>17. (p + 1) * k = p * k + k /\ k = 2 * h /\ p * k \in Nat
  BY <1>5, <1>10 DEF k
<1>18. u * k \in Nat /\ w * k \in Nat
  BY <1>12, <1>10
<1> HIDE DEF u, w
<1>19. u * k <= (2 * p + 1) * h /\ (2 * p + 1) * h < w * k /\ (2 * p + 1) * h \in Nat
  BY <1>8, <1>14, <1>15, <1>17, <1>18
<1> QED BY <1>4, <1>5, <1>8, <1>13, <1>16, <1>19 DEF h, e, p

\* A code starts in the middle of the share of every proper prefix of a code.
LEMMA MiddleIsStart ==
  ASSUME numcodes \in Nat, maxbitlen \in 1..15, NEW c, GoodCodes(c), Covered(c), NEW t \in CodedSet, NEW d \in 0..lengths[t] - 1
  PROVE  \E s \in CodedSet : Left(c, s) = Middle(d, Pre(c, t, d))
<1>1. lengths \in [Symbols -> 0..maxbitlen] /\ c \in [Symbols -> Nat] /\ t \in Symbols
  BY DEF GoodCodes, CodedSet
<1>2. lengths[t] \in 0..maxbitlen
  BY <1>1
<1>3. d \in 0..lengths[t] /\ d \in 0..14 /\ d + 1 <= maxbitlen /\ maxbitlen \in 0..15 /\ d \in Nat /\ d < lengths[t]
  BY <1>2
<1> DEFINE e == maxbitlen - d - 1
           h == 2^e
           p == Pre(c, t, d)
           x == Left(c, t)
           m == Middle(d, p)
<1>4. /\ e \in 0..14 /\ h \in Nat /\ h >= 1 /\ 2^(maxbitlen - d) = 2 * h /\ p \in Nat /\ m \in Nat
      /\ Lowest <= m /\ m < Lowest + 2^maxbitlen
  BY MiddleInside
<1>5. x \in Nat /\ Slot(t) \in Nat /\ Slot(t) >= 1 /\ p * (2 * h) <= x /\ x + Slot(t) <= (p + 1) * (2 * h)
  BY <1>1, <1>3, <1>4, PrefixRange
<1>6. m = (2 * p + 1) * h
  BY DEF Middle
<1> HIDE DEF m
<1>7. PICK s \in CodedSet : Left(c, s) <= m /\ m < Left(c, s) + Slot(s)
  BY <1>4 DEF Covered, Covers
<1>8. s \in Symbols /\ lengths[s] \in 0..maxbitlen /\ lengths[s] \in 0..lengths[s]
  <2>1. s \in Symbols /\ lengths[s] \in 0..maxbitlen
    BY <1>1 DEF CodedSet
  <2> QED BY <2>1
<1> DEFINE a == c[s]
           w == Slot(s)
           y == Left(c, s)
           f == maxbitlen - lengths[s]
<1>9. a \in Nat /\ y = a * w /\ w = 2^f /\ f \in 0..15 /\ lengths[s] \in Nat
  BY <1>1, <1>3, <1>8 DEF Left, Slot
<1>10. w \in Nat /\ w >= 1
  BY <1>9, Powers
<1>11. y \in Nat
  BY <1>9, <1>10
<1>12. y + w = (a + 1) * w
  BY <1>9, <1>10
<1>13. \A a1, b1 \in 0..15 : a1 <= b1 => b1 - a1 \in 0..15 /\ 2^(b1 - a1) \in Nat /\ 2^(b1 - a1) >= 1 /\ 2^b1 = 2^(b1 - a1) * 2^a1
  BY PowerProduct
<1>14. CASE lengths[s] > d
  <2>1. f <= e /\ e \in 0..15
    BY <1>3, <1>4, <1>8, <1>14
  <2> DEFINE v == 2^(e - f)
  <2> HIDE DEF p, x, a, w, y, f, e
  <2>2. v \in Nat /\ h = v * w
    BY <2>1, <1>9, <1>13
  <2> DEFINE q == (2 * p + 1) * v
  <2>3. q \in Nat /\ m = q * w
    <3> HIDE DEF v, h
    <3>1. \A a1, b1, c1 \in Nat : a1 * (b1 * c1) = (a1 * b1) * c1
      OBVIOUS
    <3>2. 2 * p + 1 \in Nat
      BY <1>4
    <3>3. (2 * p + 1) * (v * w) = ((2 * p + 1) * v) * w
      BY <3>1, <3>2, <2>2, <1>10
    <3>4. q \in Nat
      BY <3>2, <2>2
    <3> QED BY <3>3, <3>4, <2>2, <1>6
  <2> HIDE DEF q, v, h
  <2>4. q * w + w = (q + 1) * w /\ q * w \in Nat
    BY <2>3, <1>10
  <2>5. m < (q + 1) * w /\ m < (a + 1) * w /\ a * w <= m /\ q * w <= m
    BY <2>3, <2>4, <1>7, <1>9, <1>10, <1>11, <1>12, <1>4 DEF y, w
  <2>6. \A x1, y1, d1, a1 \in Nat : x1 * d1 <= a1 /\ a1 < (x1 + 1) * d1 /\ y1 * d1 <= a1 /\ a1 < (y1 + 1) * d1 => x1 = y1
    BY Division
  <2>7. a = q
    BY ONLY <2>3, <2>5, <2>6, <1>9, <1>10, <1>4
  <2>8. y = m
    BY <2>3, <2>7, <1>9
  <2> QED BY <2>8 DEF y, m, p
<1>15. CASE lengths[s] <= d
  <2> DEFINE g == e + 1
             k == 2 * h
             v == 2^(f - g)
  <2>1. g \in 0..15 /\ g <= f /\ 2^g = k
    <3>1. g \in 0..15 /\ g <= f /\ g = maxbitlen - d
      BY <1>3, <1>4, <1>8, <1>15
    <3> QED BY <3>1, <1>4
  <2> HIDE DEF g, p, x, a, w, y, f, e, h
  <2>2. v \in Nat /\ v >= 1 /\ w = v * k
    BY <2>1, <1>9, <1>13
  <2>3. k \in Nat /\ k >= 1 /\ (2 * p + 1) * h = p * k + h /\ p * k \in Nat /\ (p + 1) * k = p * k + k
    BY <1>4
  <2>4. k = 2 * h
    OBVIOUS
  <2> HIDE DEF v, k
  <2> DEFINE u == a * v
             z == (a + 1) * v
  <2>5. u \in Nat /\ z \in Nat /\ y = u * k /\ y + w = z * k
    <3>1. \A a1, b1, c1 \in Nat : a1 * (b1 * c1) = (a1 * b1) * c1
      OBVIOUS
    <3>2. a + 1 \in Nat
      BY <1>9
    <3>3. u \in Nat /\ z \in Nat
      BY <3>2, <2>2, <1>9
    <3>4. a * (v * k) = u * k /\ (a + 1) * (v * k) = z * k
      BY <3>1, <3>2, <1>9, <2>2, <2>3
    <3> QED BY <3>3, <3>4, <2>2, <1>9, <1>12
  <2> HIDE DEF u, z
  <2>6. u * k \in Nat /\ z * k \in Nat /\ (p + 1) * k \in Nat
    BY <2>3, <2>5, <1>4
  <2>7. u * k < (p + 1) * k /\ p * k < z * k
    <3>1. y <= m /\ m < y + w
      BY <1>7 DEF y, w
    <3> QED BY <3>1, <2>3, <2>4, <2>5, <2>6, <1>4, <1>6
  <2>8. \A x1, y1, d1 \in Nat : x1 * d1 < y1 * d1 => x1 < y1
    BY Division
  <2>9. u <= p /\ p + 1 <= z
    <3> DEFINE q == p + 1
    <3>1. q \in Nat /\ u * k < q * k
      BY <2>7, <1>4
    <3> HIDE DEF q
    <3>2. u < q
      BY <3>1, <2>3, <2>5, <2>8
    <3>3. p < z
      BY <2>3, <2>5, <2>7, <2>8, <1>4
    <3> QED BY <3>2, <3>3, <2>5, <1>4 DEF q
  <2>10. u * k <= p * k /\ (p + 1) * k <= z * k
    <3> DEFINE q == p + 1
    <3>1. q \in Nat /\ q <= z
      BY <2>9, <1>4
    <3> HIDE DEF q
    <3>2. \A x1, y1, d1 \in Nat : x1 <= y1 => x1 * d1 <= y1 * d1
      BY Division
    <3>3. u * k <= p * k
      BY <3>2, <2>3, <2>5, <2>9, <1>4
    <3>4. q * k <= z * k
      BY <3>1, <3>2, <2>3, <2>5
    <3> QED BY <3>3, <3>4 DEF q
  <2>11. y <= x /\ x + Slot(t) <= y + w
    BY <2>3, <2>5, <2>6, <2>10, <1>5 DEF k
  <2>12. s # t
    BY <1>3, <1>15, <1>8
  <2>13. x + Slot(t) <= y \/ y + w <= x
    BY <2>12, <1>7 DEF GoodCodes, Apart, x, y, w
  <2> QED BY <2>11, <2>13, <1>5, <1>10, <1>11
<1>16. lengths[s] > d \/ lengths[s] <= d
  BY <1>8, <1>3
<1> QED BY <1>14, <1>15, <1>16

\* Prefixes with the same middle are the same.
LEMMA MiddlesDiffer ==
  ASSUME maxbitlen \in 1..15, NEW d \in 0..maxbitlen - 1, NEW e \in 0..maxbitlen - 1, NEW p \in Nat, NEW q \in Nat,
         Middle(d, p) = Middle(e, q)
  PROVE  d = e /\ p = q
<1>1. ASSUME NEW a \in 0..maxbitlen - 1, NEW b \in 0..maxbitlen - 1, NEW x \in Nat, NEW y \in Nat, Middle(a, x) = Middle(b, y), a < b
      PROVE  FALSE
  <2> DEFINE i == maxbitlen - a - 1
             j == maxbitlen - b - 1
             k == i - j - 1
  <2>1. i \in 0..15 /\ j \in 0..15 /\ i - j \in 1..15 /\ k \in 0..14 /\ k + 1 = i - j /\ j <= i
    BY <1>1
  <2>2. (2 * x + 1) * 2^i = (2 * y + 1) * 2^j
    BY <1>1 DEF Middle
  <2> HIDE DEF i, j
  <2>3. \A a1, b1 \in 0..15 : a1 <= b1 => 2^b1 = 2^(b1 - a1) * 2^a1
    BY PowerProduct
  <2> DEFINE u == 2^k
             w == 2^j
  <2>4. 2^i = 2^(i - j) * w
    BY <2>1, <2>3
  <2> HIDE DEF k
  <2>10. 2^(k + 1) = 2 * u
    BY <2>1, Powers
  <2>11. w \in Nat /\ w >= 1
    BY <2>1, Powers
  <2>12. u \in Nat
    <3>1. k \in 0..15
      BY <2>1
    <3> QED BY <3>1, Powers
  <2>5. u \in Nat /\ 2^(k + 1) = 2 * u /\ w \in Nat /\ w >= 1
    BY <2>10, <2>11, <2>12
  <2>6. 2^i = (2 * u) * w
    BY <2>1, <2>4, <2>5
  <2> HIDE DEF u, w
  <2> DEFINE v == (2 * x + 1) * u
  <2>7. v \in Nat /\ (2 * x + 1) * ((2 * u) * w) = (2 * v) * w
    BY <2>5
  <2> HIDE DEF v
  <2>8. \A x1, y1, d1 \in Nat : d1 >= 1 => (2 * x1 + 1) * d1 # (2 * y1) * d1
    BY OddEven
  <2>9. (2 * y + 1) * w # (2 * v) * w
    BY <2>5, <2>7, <2>8
  <2> QED BY <2>2, <2>6, <2>7, <2>9 DEF w
<1>2. d = e
  <2>1. ~(d < e) /\ ~(e < d)
    BY <1>1
  <2> QED BY <2>1
<1>3. p = q
  <2> DEFINE i == maxbitlen - d - 1
             w == 2^i
             x == 2 * p + 1
             y == 2 * q + 1
  <2>1. i \in 0..15
    OBVIOUS
  <2> HIDE DEF i
  <2>2. w \in Nat /\ w >= 1
    BY <2>1, Powers
  <2>3. x * w = y * w
    BY <1>2 DEF Middle, i
  <2> HIDE DEF w
  <2>4. x \in Nat /\ y \in Nat
    OBVIOUS
  <2>5. \A x1, y1, d1 \in Nat : d1 >= 1 /\ x1 * d1 = y1 * d1 => x1 = y1
    <3>1. \A x1, y1, d1, a1 \in Nat : x1 * d1 <= a1 /\ a1 < (x1 + 1) * d1 /\ y1 * d1 <= a1 /\ a1 < (y1 + 1) * d1 => x1 = y1
      BY Division
    <3> SUFFICES ASSUME NEW x1 \in Nat, NEW y1 \in Nat, NEW d1 \in Nat, d1 >= 1, x1 * d1 = y1 * d1 PROVE x1 = y1
      OBVIOUS
    <3> DEFINE a1 == x1 * d1
    <3>2. a1 \in Nat /\ (x1 + 1) * d1 = a1 + d1
      OBVIOUS
    <3>3. (y1 + 1) * d1 = y1 * d1 + d1
      OBVIOUS
    <3>4. y1 * d1 = a1
      OBVIOUS
    <3>5. x1 * d1 <= a1 /\ a1 < (x1 + 1) * d1 /\ y1 * d1 <= a1 /\ a1 < (y1 + 1) * d1
      <4>1. a1 < a1 + d1
        BY <3>2
      <4> QED BY <4>1, <3>2, <3>3, <3>4
    <3> QED BY <3>1, <3>2, <3>5
  <2> HIDE DEF x, y
  <2>6. x = y
    BY <2>2, <2>3, <2>4, <2>5
  <2> QED BY <2>6 DEF x, y
<1> QED BY <1>2, <1>3

\* Where a symbol's code has got to after i bits, and one bit further.
PathOf(c, s, i) == <<i, Pre(c, s, i)>>
Beyond(place, b) == <<place[1] + 1, 2 * place[2] + b>>
Root == <<0, BlCount(0)>>

\* The paths the codes go through on their way.
Way(c, place) == \E t \in CodedSet : \E i \in 0..lengths[t] - 1 : place = PathOf(c, t, i)

PathFacts(c) ==
  /\ \A s \in CodedSet : PathOf(c, s, 0) = Root /\ lengths[s] \in Nat /\ lengths[s] >= 1 /\ s \in Symbols
  /\ \A s \in CodedSet : \A i \in 0..lengths[s] : PathOf(c, s, i) \in Nat \X Nat /\ PathOf(c, s, i)[1] = i
  /\ \A s \in CodedSet : \A i \in 0..lengths[s] - 1 :
       BitAt(c, s, i) \in 0..1 /\ PathOf(c, s, i + 1) = Beyond(PathOf(c, s, i), BitAt(c, s, i))
  /\ \A s, t \in CodedSet : \A i \in 0..lengths[t] : PathOf(c, t, i) = PathOf(c, s, lengths[s]) => t = s /\ i = lengths[s]

\* Good codes branch off one another before any of them ends.
LEMMA PathsBranch ==
  ASSUME numcodes \in Nat, maxbitlen \in 1..15, NEW c, GoodCodes(c)
  PROVE  PathFacts(c)
<1>1. lengths \in [Symbols -> 0..maxbitlen] /\ c \in [Symbols -> Nat]
  BY DEF GoodCodes
<1>2. \A s \in CodedSet : s \in Symbols /\ lengths[s] \in 0..maxbitlen /\ lengths[s] \in Nat /\ lengths[s] >= 1
  <2> SUFFICES ASSUME NEW s \in CodedSet PROVE s \in Symbols /\ lengths[s] \in 0..maxbitlen /\ lengths[s] \in Nat /\ lengths[s] >= 1
    OBVIOUS
  <2>1. s \in Symbols /\ lengths[s] \in 0..maxbitlen /\ lengths[s] > 0
    BY <1>1 DEF CodedSet
  <2> QED BY <2>1
<1>3. ASSUME NEW s \in CodedSet PROVE PathOf(c, s, 0) = Root
  <2>1. Pre(c, s, 0) = BlCount(0)
    BY RootPrefix
  <2> QED BY <2>1 DEF PathOf, Root
<1>4. ASSUME NEW s \in CodedSet, NEW i \in 0..lengths[s]
      PROVE  PathOf(c, s, i) \in Nat \X Nat /\ PathOf(c, s, i)[1] = i
  <2>1. Pre(c, s, i) \in Nat
    BY <1>1, <1>2, PrefixSteps
  <2>2. i \in Nat
    BY <1>2
  <2> QED BY <2>1, <2>2 DEF PathOf
<1>5. ASSUME NEW s \in CodedSet, NEW i \in 0..lengths[s] - 1
      PROVE  BitAt(c, s, i) \in 0..1 /\ PathOf(c, s, i + 1) = Beyond(PathOf(c, s, i), BitAt(c, s, i))
  <2>1. BitAt(c, s, i) \in 0..1 /\ Pre(c, s, i + 1) = 2 * Pre(c, s, i) + BitAt(c, s, i)
    BY <1>1, <1>2, PrefixSteps
  <2> QED BY <2>1 DEF PathOf, Beyond
<1>6. ASSUME NEW s \in CodedSet, NEW t \in CodedSet, NEW i \in 0..lengths[t], PathOf(c, t, i) = PathOf(c, s, lengths[s])
      PROVE  t = s /\ i = lengths[s]
  <2>1. i = lengths[s] /\ Pre(c, t, i) = Pre(c, s, lengths[s])
    BY <1>6 DEF PathOf
  <2>2. Pre(c, s, lengths[s]) = c[s]
    BY <1>1, <1>2, PrefixSteps
  <2>3. lengths[s] <= lengths[t]
    BY <2>1, <1>2
  <2>4. t # s => Pre(c, t, lengths[s]) # c[s]
    BY <2>3, PrefixFree
  <2> QED BY <2>1, <2>2, <2>4
<1> QED BY <1>2, <1>3, <1>4, <1>5, <1>6 DEF PathFacts

\* Less than as many different ways as symbols: at each of them another code
\* starts in the middle, and one starts at the lowest end.
LEMMA NodeCount ==
  ASSUME numcodes \in Nat, numcodes >= 2, maxbitlen \in 1..15, NEW c, GoodCodes(c),
         NEW k \in Nat, NEW place \in [0..k -> Nat \X Nat], \A n \in 0..k : Way(c, place[n]),
         \A m, n \in 0..k : place[m] = place[n] => m = n
  PROVE  k <= numcodes - 2
<1>1. /\ lengths \in [Symbols -> 0..maxbitlen] /\ c \in [Symbols -> Nat]
      /\ \A s \in CodedSet : s \in Symbols /\ lengths[s] \in 0..maxbitlen /\ lengths[s] \in Nat /\ lengths[s] >= 1
  <2>1. PathFacts(c)
    BY PathsBranch
  <2> QED BY <2>1 DEF PathFacts, GoodCodes
<1>2. CASE Covered(c)
  <2> DEFINE Mid(n) == Middle(place[n][1], place[n][2])
             Hit(n, s) == s \in CodedSet /\ Left(c, s) = Mid(n)
  <2>1. ASSUME NEW n \in 0..k
        PROVE  /\ place[n][1] \in 0..maxbitlen - 1 /\ place[n][2] \in Nat /\ place[n] = <<place[n][1], place[n][2]>>
               /\ \E s \in CodedSet : Left(c, s) = Mid(n)
    <3>1. PICK t \in CodedSet : \E i \in 0..lengths[t] - 1 : place[n] = PathOf(c, t, i)
      BY DEF Way
    <3>2. PICK i \in 0..lengths[t] - 1 : place[n] = PathOf(c, t, i)
      BY <3>1
    <3>3. place[n][1] = i /\ place[n][2] = Pre(c, t, i) /\ place[n] = <<i, Pre(c, t, i)>>
      BY <3>2 DEF PathOf
    <3>4. \E s \in CodedSet : Left(c, s) = Middle(i, Pre(c, t, i))
      BY <1>2, MiddleIsStart
    <3>5. Pre(c, t, i) \in Nat
      BY MiddleInside
    <3>6. i \in 0..maxbitlen - 1
      BY <1>1
    <3> QED BY <3>3, <3>4, <3>5, <3>6
  <2>2. PICK s0 \in CodedSet : Left(c, s0) = Lowest
    <3>1. BlCount(0) \in Nat /\ 2^maxbitlen \in Nat /\ 2^maxbitlen >= 1
      <4>1. maxbitlen \in 0..15
        OBVIOUS
      <4> QED BY <4>1, BlCountIs, Powers
    <3>2. Lowest \in Nat /\ Lowest < Lowest + 2^maxbitlen /\ Lowest <= Lowest
      BY <3>1 DEF Lowest
    <3>3. PICK s \in CodedSet : Covers(c, s, Lowest)
      BY <3>2, <1>2 DEF Covered
    <3>4. Left(c, s) <= Lowest /\ Lowest <= Left(c, s)
      BY <3>3 DEF Covers, GoodCodes, Inside
    <3>5. Left(c, s) \in Nat
      <4>1. s \in Symbols /\ lengths[s] \in 0..lengths[s]
        BY <1>1
      <4> QED BY <4>1, <1>1, PrefixRange
    <3>6. Left(c, s) = Lowest
      BY <3>2, <3>4, <3>5
    <3> QED BY <3>6
  <2>3. ASSUME NEW n \in 0..k PROVE Mid(n) # Lowest
    <3>1. PICK d \in 0..maxbitlen - 1, p \in Nat : d = place[n][1] /\ p = place[n][2]
      BY <2>1
    <3> DEFINE e == maxbitlen - d - 1
               h == 2^e
               b == BlCount(0)
               r == 2^d
               y == b * r
    <3>2. e \in 0..14 /\ e + 1 \in 0..15 /\ maxbitlen - (e + 1) = d /\ e + 1 <= maxbitlen /\ d \in 0..15 /\ e \in 0..15 /\ maxbitlen \in 0..15
      OBVIOUS
    <3>3. Mid(n) = (2 * p + 1) * h /\ Lowest = b * 2^maxbitlen
      BY <3>1 DEF Middle, Lowest
    <3>4. b \in Nat
      BY BlCountIs
    <3> HIDE DEF Mid, b, e
    <3>5. 2^(e + 1) = 2 * h
      BY <3>2, Powers
    <3>6. h \in Nat /\ h >= 1
      BY <3>2, Powers
    <3>7. r \in Nat
      BY <3>2, Powers
    <3>8. 2^maxbitlen = r * 2^(e + 1)
      <4>1. \A a1, b1 \in 0..15 : a1 <= b1 => 2^b1 = 2^(b1 - a1) * 2^a1
        BY PowerProduct
      <4> DEFINE a1 == e + 1
      <4>2. a1 \in 0..15 /\ a1 <= maxbitlen /\ maxbitlen \in 0..15 /\ maxbitlen - a1 = d
        BY <3>2
      <4> HIDE DEF a1
      <4>3. 2^maxbitlen = 2^(maxbitlen - a1) * 2^a1
        BY <4>1, <4>2
      <4> QED BY <4>2, <4>3 DEF a1
    <3> HIDE DEF h, r
    <3>9. Lowest = (2 * y) * h /\ y \in Nat
      BY <3>3, <3>4, <3>5, <3>6, <3>7, <3>8
    <3> HIDE DEF y
    <3>10. (2 * p + 1) * h # (2 * y) * h
      BY <3>6, <3>9, OddEven
    <3> QED BY <3>3, <3>9, <3>10
  <2>4. ASSUME NEW m \in 0..k, NEW n \in 0..k, Mid(m) = Mid(n) PROVE m = n
    <3>1. \A d, e \in 0..maxbitlen - 1 : \A p, q \in Nat : Middle(d, p) = Middle(e, q) => d = e /\ p = q
      BY MiddlesDiffer
    <3>2. place[m][1] = place[n][1] /\ place[m][2] = place[n][2]
      BY <3>1, <2>1, <2>4
    <3>3. place[m] = place[n]
      BY <3>2, <2>1
    <3> QED BY <3>3
  <2> DEFINE f == [n \in 0..k |-> CHOOSE s \in CodedSet : Left(c, s) = Mid(n)]
             T == Symbols \ {s0}
  <2> HIDE DEF Mid
  <2>5. \A n \in 0..k : f[n] \in CodedSet /\ Left(c, f[n]) = Mid(n)
    <3> SUFFICES ASSUME NEW n \in 0..k PROVE f[n] \in CodedSet /\ Left(c, f[n]) = Mid(n)
      OBVIOUS
    <3>1. \E s \in CodedSet : Left(c, s) = Mid(n)
      BY <2>1
    <3>2. f[n] = CHOOSE s \in CodedSet : Left(c, s) = Mid(n)
      OBVIOUS
    <3> HIDE DEF f
    <3> QED BY <3>1, <3>2
  <2>6. f \in [0..k -> T]
    <3>1. \A n \in 0..k : f[n] \in T
      BY <2>2, <2>3, <2>5, <1>1
    <3>2. f = [n \in 0..k |-> f[n]]
      OBVIOUS
    <3> HIDE DEF f, T
    <3> QED BY <3>1, <3>2
  <2>7. \A m, n \in 0..k : f[m] = f[n] => m = n
    BY <2>4, <2>5
  <2> HIDE DEF f
  <2>8. IsFiniteSet(Symbols) /\ Cardinality(Symbols) = numcodes
    <3> DEFINE z == numcodes - 1
    <3>1. 0 \in Int /\ z \in Int /\ ~(0 > z) /\ z - 0 + 1 = numcodes /\ Symbols = 0..z
      BY DEF Symbols
    <3> HIDE DEF z
    <3>2. IsFiniteSet(0..z) /\ Cardinality(0..z) = z - 0 + 1
      BY <3>1, FS_Interval
    <3> QED BY <3>1, <3>2
  <2>9. IsFiniteSet(T) /\ Cardinality(T) = numcodes - 1
    <3>1. s0 \in Symbols
      BY <1>1
    <3> QED BY <3>1, <2>8, FS_RemoveElement
  <2>10. IsFiniteSet(0..k) /\ Cardinality(0..k) = k + 1
    <3>1. 0 \in Int /\ k \in Int
      OBVIOUS
    <3> QED BY <3>1, FS_Interval
  <2> HIDE DEF T
  <2>11. ~(Cardinality(T) < Cardinality(0..k))
    <3> DEFINE S == 0..k
    <3>1. IsFiniteSet(S) /\ IsFiniteSet(T) /\ f \in [S -> T] /\ \A m, n \in S : f[m] = f[n] => m = n
      BY <2>6, <2>7, <2>9, <2>10
    <3> HIDE DEF S
    <3>2. ASSUME Cardinality(T) < Cardinality(S) PROVE FALSE
      <4>1. \E x, y \in S : x # y /\ f[x] = f[y]
        BY <3>1, <3>2, FS_PigeonHole
      <4> QED BY <4>1, <3>1
    <3>3. ~(Cardinality(T) < Cardinality(S))
      BY <3>2
    <3> QED BY <3>3 DEF S
  <2> QED BY <2>9, <2>10, <2>11
<1>3. CASE \A s \in Symbols : lengths[s] <= 1
  <2>1. \A n \in 0..k : place[n] = Root
    <3> SUFFICES ASSUME NEW n \in 0..k PROVE place[n] = Root
      OBVIOUS
    <3>1. PICK t \in CodedSet : \E i \in 0..lengths[t] - 1 : place[n] = PathOf(c, t, i)
      BY DEF Way
    <3>2. PICK i \in 0..lengths[t] - 1 : place[n] = PathOf(c, t, i)
      BY <3>1
    <3>3. i = 0
      BY <1>1, <1>3
    <3>4. PathOf(c, t, 0) = Root
      <4>1. PathFacts(c)
        BY PathsBranch
      <4> QED BY <4>1 DEF PathFacts
    <3> QED BY <3>2, <3>3, <3>4
  <2>2. 0 \in 0..k /\ k \in 0..k
    OBVIOUS
  <2>3. k = 0
    BY <2>1, <2>2
  <2> QED BY <2>3
<1> QED BY <1>2, <1>3 DEF GoodCodes

\* What is known when the tree is built.
TreeBasis ==
  /\ numcodes \in Nat /\ numcodes >= 2 /\ 2 * numcodes <= NotFilled /\ NotFilled \in Nat
  /\ maxbitlen \in 1..15 /\ GoodCodes(codes)

\* Each node stands for a path, no two nodes for the same.
Labelled(place, k) ==
  /\ k \in Nat /\ k <= numcodes - 2
  /\ place \in [0..k -> Nat \X Nat] /\ place[0] = Root
  /\ \A n \in 0..k : Way(codes, place[n])
  /\ \A m, n \in 0..k : place[m] = place[n] => m = n

\* What the branch b of a node may hold: a symbol below s whose code ends
\* there, or the node for the path one bit longer.
LeafAt(v, s, place, n, b) == v \in CodedSet /\ v < s /\ PathOf(codes, v, lengths[v]) = Beyond(place[n], b)
NodeAt(v, k, place, n, b) == \E m \in 1..k : v = m + numcodes /\ place[m] = Beyond(place[n], b)

\* Bit j of the code of symbol x is in the tree when the loop is at bit i of s.
Entered(s, i, x, j) == x < s \/ (x = s /\ j < i)

Branch(t, n, b) == t[<<n, b>>]

TreeShape(place, t, k, s, i) ==
  /\ Labelled(place, k)
  /\ t \in [(0..numcodes - 1) \X (0..1) -> Nat]
  /\ \A n \in 0..k, b \in 0..1 : Branch(t, n, b) # NotFilled =>
       LeafAt(Branch(t, n, b), s, place, n, b) \/ NodeAt(Branch(t, n, b), k, place, n, b)
  /\ \A n \in 0..numcodes - 1, b \in 0..1 : n > k => Branch(t, n, b) = NotFilled
  /\ \A n \in 1..k : \E m \in 0..k, b \in 0..1 : Branch(t, m, b) = n + numcodes
  /\ \A x \in CodedSet : \A j \in 0..lengths[x] - 1 : Entered(s, i, x, j) =>
       \E n \in 0..k : place[n] = PathOf(codes, x, j) /\ Branch(t, n, BitAt(codes, x, j)) # NotFilled

\* The loop is at the node of the bits it has read of symbol s.
Standing(place, k, s, i, pos) ==
  /\ s \in 0..numcodes /\ pos \in 0..k
  /\ s \in CodedSet => i \in 0..lengths[s] - 1 /\ place[pos] = PathOf(codes, s, i)
  /\ s \notin CodedSet => i = 0 /\ pos = 0

\* Every code starts at the root of the tree.
LEMMA StandingAtStart ==
  ASSUME TreeBasis, NEW place, NEW k, Labelled(place, k), NEW s \in 0..numcodes
  PROVE  Standing(place, k, s, 0, 0)
<1>1. PathFacts(codes)
  BY PathsBranch DEF TreeBasis
<1>2. k \in Nat /\ place[0] = Root
  BY DEF Labelled
<1>3. 0 \in 0..k
  BY <1>2
<1>4. s \in CodedSet => 0 \in 0..lengths[s] - 1 /\ place[0] = PathOf(codes, s, 0)
  BY <1>1, <1>2 DEF PathFacts
<1> QED BY <1>3, <1>4 DEF Standing

\* A tree without any node but the root.
LEMMA TreeStarts ==
  ASSUME TreeBasis, NEW t, t = [cell \in (0..numcodes - 1) \X (0..1) |-> NotFilled], CodedSet # {}
  PROVE  TreeShape([n \in 0..0 |-> Root], t, 0, 0, 0)
<1> DEFINE place == [n \in 0..0 |-> Root]
<1>1. PathFacts(codes)
  BY PathsBranch DEF TreeBasis
<1>2. Root \in Nat \X Nat /\ Way(codes, Root)
  <2>1. PICK s \in CodedSet : TRUE
    OBVIOUS
  <2>2. PathOf(codes, s, 0) = Root /\ 0 \in 0..lengths[s] - 1 /\ 0 \in 0..lengths[s]
    BY <1>1 DEF PathFacts
  <2>3. Root \in Nat \X Nat
    BY <1>1, <2>2 DEF PathFacts
  <2> QED BY <2>2, <2>3 DEF Way
<1>3. Labelled(place, 0)
  <2>1. 0 \in Nat /\ 0 <= numcodes - 2
    BY DEF TreeBasis
  <2>2. place \in [0..0 -> Nat \X Nat] /\ place[0] = Root
    BY <1>2
  <2>3. \A n \in 0..0 : n = 0
    OBVIOUS
  <2> QED BY <2>1, <2>2, <2>3, <1>2 DEF Labelled
<1>4. t \in [(0..numcodes - 1) \X (0..1) -> Nat]
  BY DEF TreeBasis
<1>5. \A n \in 0..numcodes - 1, b \in 0..1 : Branch(t, n, b) = NotFilled
  BY DEF Branch
<1>6. \A n \in 0..0 : n \in 0..numcodes - 1
  BY DEF TreeBasis
<1>7. \A x \in CodedSet : \A j \in 0..lengths[x] - 1 : ~Entered(0, 0, x, j)
  <2> SUFFICES ASSUME NEW x \in CodedSet, NEW j \in 0..lengths[x] - 1 PROVE ~Entered(0, 0, x, j)
    OBVIOUS
  <2>1. x \in Nat
    BY <1>1 DEF PathFacts, Symbols, TreeBasis
  <2>2. j \in Nat
    BY <1>1 DEF PathFacts
  <2> QED BY <2>1, <2>2 DEF Entered
<1> HIDE DEF place
<1>8. TreeShape(place, t, 0, 0, 0)
  BY <1>3, <1>4, <1>5, <1>6, <1>7 DEF TreeShape
<1> QED BY <1>8 DEF place

\* Where the next bit of a code goes.
Faces(place, k, s, i, pos, b) ==
  /\ s \in CodedSet /\ s \in Nat /\ s < numcodes /\ lengths[s] \in Nat
  /\ i \in 0..lengths[s] - 1 /\ i \in Nat /\ pos \in 0..k /\ pos \in 0..numcodes - 1 /\ b \in 0..1
  /\ b = BitAt(codes, s, i)
  /\ place[pos] = PathOf(codes, s, i)
  /\ Beyond(place[pos], b) = PathOf(codes, s, i + 1)

\* A code that stands at a node has its next bit's cell of that node before it.
LEMMA FacesBit ==
  ASSUME TreeBasis, NEW place, NEW k, Labelled(place, k), NEW s, NEW i, NEW pos, Standing(place, k, s, i, pos), s \in CodedSet
  PROVE  Faces(place, k, s, i, pos, BitAt(codes, s, i))
<1>1. PathFacts(codes)
  BY PathsBranch DEF TreeBasis
<1>2. i \in 0..lengths[s] - 1 /\ place[pos] = PathOf(codes, s, i) /\ pos \in 0..k
  BY DEF Standing
<1>3. s \in Symbols /\ lengths[s] \in Nat
  BY <1>1 DEF PathFacts
<1>4. BitAt(codes, s, i) \in 0..1 /\ PathOf(codes, s, i + 1) = Beyond(PathOf(codes, s, i), BitAt(codes, s, i))
  BY <1>1, <1>2 DEF PathFacts
<1>5. s \in Nat /\ s < numcodes
  BY <1>3 DEF Symbols, TreeBasis
<1>6. pos \in 0..numcodes - 1
  BY <1>2 DEF Labelled, TreeBasis
<1>7. i \in Nat
  BY <1>2, <1>3
<1> QED BY <1>2, <1>3, <1>4, <1>5, <1>6, <1>7 DEF Faces

\* The branch already leads on: never to a symbol, and never where a code ends.
LEMMA FilledLeadsOn ==
  ASSUME TreeBasis, NEW place, NEW t, NEW k, NEW s, NEW i, NEW pos, NEW b, TreeShape(place, t, k, s, i),
         Faces(place, k, s, i, pos, b), Branch(t, pos, b) # NotFilled
  PROVE  /\ i + 1 # lengths[s]
         /\ \E m \in 1..k : Branch(t, pos, b) = m + numcodes /\ place[m] = PathOf(codes, s, i + 1)
<1>1. PathFacts(codes)
  BY PathsBranch DEF TreeBasis
<1> DEFINE v == Branch(t, pos, b)
<1>2. LeafAt(v, s, place, pos, b) \/ NodeAt(v, k, place, pos, b)
  BY DEF TreeShape, Faces
<1>3. i + 1 \in 0..lengths[s] /\ s \in CodedSet
  BY DEF Faces
<1> HIDE DEF v
<1>4. ~LeafAt(v, s, place, pos, b)
  <2> SUFFICES ASSUME LeafAt(v, s, place, pos, b) PROVE FALSE
    OBVIOUS
  <2>1. v \in CodedSet /\ v < s /\ PathOf(codes, s, i + 1) = PathOf(codes, v, lengths[v])
    BY DEF LeafAt, Faces
  <2>2. s = v
    BY <2>1, <1>1, <1>3 DEF PathFacts
  <2> QED BY <2>1, <2>2 DEF Faces
<1>5. PICK m \in 1..k : v = m + numcodes /\ place[m] = PathOf(codes, s, i + 1)
  <2>1. NodeAt(v, k, place, pos, b)
    BY <1>2, <1>4
  <2> QED BY <2>1 DEF NodeAt, Faces
<1>6. i + 1 # lengths[s]
  <2> SUFFICES ASSUME i + 1 = lengths[s] PROVE FALSE
    OBVIOUS
  <2>1. m \in 0..k
    BY DEF TreeShape, Labelled
  <2>2. Way(codes, place[m])
    BY <2>1 DEF TreeShape, Labelled
  <2>3. PICK x \in CodedSet : \E j \in 0..lengths[x] - 1 : place[m] = PathOf(codes, x, j)
    BY <2>2 DEF Way
  <2>4. PICK j \in 0..lengths[x] - 1 : place[m] = PathOf(codes, x, j)
    BY <2>3
  <2>5. lengths[x] \in Nat
    BY <1>1 DEF PathFacts
  <2>6. j \in 0..lengths[x] /\ j # lengths[x]
    BY <2>5
  <2>7. PathOf(codes, x, j) = PathOf(codes, s, lengths[s])
    BY <2>4, <1>5
  <2>8. x = s /\ j = lengths[s]
    BY <2>6, <2>7, <1>1, <1>3 DEF PathFacts
  <2> QED BY <2>6, <2>8
<1> QED BY <1>5, <1>6 DEF v

\* The loop goes on along a branch that is there.
LEMMA TreeMoves ==
  ASSUME TreeBasis, NEW place, NEW t, NEW k, NEW s, NEW i, NEW pos, NEW b, TreeShape(place, t, k, s, i),
         Faces(place, k, s, i, pos, b), Branch(t, pos, b) # NotFilled
  PROVE  TreeShape(place, t, k, s, i + 1)
<1> SUFFICES ASSUME NEW x \in CodedSet, NEW j \in 0..lengths[x] - 1, Entered(s, i + 1, x, j)
             PROVE  \E n \in 0..k : place[n] = PathOf(codes, x, j) /\ Branch(t, n, BitAt(codes, x, j)) # NotFilled
  BY DEF TreeShape
<1>1. PathFacts(codes)
  BY PathsBranch DEF TreeBasis
<1>2. j \in Int /\ i \in Int
  BY <1>1 DEF Faces, PathFacts
<1>3. CASE Entered(s, i, x, j)
  BY <1>3 DEF TreeShape
<1>4. CASE ~Entered(s, i, x, j)
  <2>2. x < s \/ (x = s /\ j < i + 1)
    BY DEF Entered
  <2>3. ~(x < s) /\ ~(x = s /\ j < i)
    BY <1>4 DEF Entered
  <2>1. x = s /\ j = i
    BY <1>2, <2>2, <2>3
  <2> QED BY <2>1 DEF Faces
<1> QED BY <1>3, <1>4

\* The last bit of a code puts the symbol into the tree.
LEMMA TreeGetsLeaf ==
  ASSUME TreeBasis, NEW place, NEW t, NEW k, NEW s, NEW i, NEW pos, NEW b, TreeShape(place, t, k, s, i),
         Faces(place, k, s, i, pos, b), Branch(t, pos, b) = NotFilled, i + 1 = lengths[s]
  PROVE  TreeShape(place, [t EXCEPT ![<<pos, b>>] = s], k, s + 1, 0)
<1> DEFINE u == [t EXCEPT ![<<pos, b>>] = s]
           Cells == (0..numcodes - 1) \X (0..1)
<1>1. PathFacts(codes)
  BY PathsBranch DEF TreeBasis
<1>2. \A x \in CodedSet : x \in Nat /\ lengths[x] \in Nat
  BY <1>1 DEF PathFacts, Symbols, TreeBasis
<1>3. t \in [Cells -> Nat] /\ Labelled(place, k)
  BY DEF TreeShape
<1>4. k \in Nat /\ \A n \in 0..k : n \in 0..numcodes - 1
  BY <1>3 DEF Labelled, TreeBasis
<1>5. s \in Nat /\ s # NotFilled /\ <<pos, b>> \in Cells /\ s \in CodedSet /\ pos \in 0..k
  BY DEF Faces, TreeBasis
<1>6. u \in [Cells -> Nat]
  BY <1>3, <1>5
<1>7. \A n \in 0..numcodes - 1, d \in 0..1 : Branch(u, n, d) = IF n = pos /\ d = b THEN s ELSE Branch(t, n, d)
  <2> SUFFICES ASSUME NEW n \in 0..numcodes - 1, NEW d \in 0..1
               PROVE  Branch(u, n, d) = IF n = pos /\ d = b THEN s ELSE Branch(t, n, d)
    OBVIOUS
  <2>1. <<n, d>> \in Cells
    OBVIOUS
  <2> QED BY <2>1, <1>3, <1>5 DEF Branch
<1> HIDE DEF u
<1>8. ASSUME NEW n \in 0..k, NEW d \in 0..1, Branch(u, n, d) # NotFilled
      PROVE  LeafAt(Branch(u, n, d), s + 1, place, n, d) \/ NodeAt(Branch(u, n, d), k, place, n, d)
  <2>1. n \in 0..numcodes - 1
    BY <1>4
  <2>2. CASE n = pos /\ d = b
    <3>1. Branch(u, n, d) = s
      BY <1>7, <2>1, <2>2
    <3>2. LeafAt(s, s + 1, place, n, d)
      BY <1>5, <2>2 DEF LeafAt, Faces
    <3> QED BY <3>1, <3>2
  <2>3. CASE ~(n = pos /\ d = b)
    <3> DEFINE v == Branch(u, n, d)
    <3>1. v = Branch(t, n, d) /\ v # NotFilled
      BY <1>7, <1>8, <2>1, <2>3
    <3>2. LeafAt(v, s, place, n, d) \/ NodeAt(v, k, place, n, d)
      BY <3>1 DEF TreeShape
    <3> HIDE DEF v
    <3>3. LeafAt(v, s, place, n, d) => LeafAt(v, s + 1, place, n, d)
      BY <1>2, <1>5 DEF LeafAt
    <3>4. LeafAt(v, s + 1, place, n, d) \/ NodeAt(v, k, place, n, d)
      BY <3>2, <3>3
    <3> QED BY <3>4 DEF v
  <2> QED BY <2>2, <2>3
<1>9. ASSUME NEW n \in 0..numcodes - 1, NEW d \in 0..1, n > k PROVE Branch(u, n, d) = NotFilled
  <2>1. n # pos
    BY <1>4, <1>5, <1>9
  <2>2. Branch(t, n, d) = NotFilled
    BY <1>9 DEF TreeShape
  <2> QED BY <2>1, <2>2, <1>7
<1>10. ASSUME NEW n \in 1..k PROVE \E m \in 0..k, d \in 0..1 : Branch(u, m, d) = n + numcodes
  <2>1. PICK m \in 0..k, d \in 0..1 : Branch(t, m, d) = n + numcodes
    BY DEF TreeShape
  <2>2. n + numcodes # NotFilled
    BY <1>3 DEF Labelled, TreeBasis
  <2>3. ~(m = pos /\ d = b)
    BY <2>1, <2>2
  <2>4. Branch(u, m, d) = n + numcodes
    BY <2>1, <2>3, <1>4, <1>7
  <2> QED BY <2>4
<1>11. ASSUME NEW x \in CodedSet, NEW j \in 0..lengths[x] - 1, Entered(s + 1, 0, x, j)
       PROVE  \E n \in 0..k : place[n] = PathOf(codes, x, j) /\ Branch(u, n, BitAt(codes, x, j)) # NotFilled
  <2>1. j \in Nat /\ x \in Nat
    BY <1>2
  <2>2. BitAt(codes, x, j) \in 0..1
    BY <1>1 DEF PathFacts
  <2>3. CASE Entered(s, i, x, j)
    <3>1. PICK n \in 0..k : place[n] = PathOf(codes, x, j) /\ Branch(t, n, BitAt(codes, x, j)) # NotFilled
      BY <2>3 DEF TreeShape
    <3>2. Branch(u, n, BitAt(codes, x, j)) # NotFilled
      BY <3>1, <2>2, <1>4, <1>5, <1>7
    <3> QED BY <3>1, <3>2
  <2>4. CASE ~Entered(s, i, x, j)
    <3>1. x < s + 1
      BY <2>1, <1>11, <1>5 DEF Entered
    <3>7. ~(x < s)
      BY <2>4 DEF Entered
    <3>2. x = s
      BY <3>1, <3>7, <2>1, <1>5
    <3>3. ~(j < i)
      BY <3>2, <2>4 DEF Entered
    <3>4. j = i
      BY <3>2, <3>3, <2>1 DEF Faces
    <3>5. place[pos] = PathOf(codes, x, j) /\ BitAt(codes, x, j) = b
      BY <3>2, <3>4 DEF Faces
    <3>6. Branch(u, pos, b) = s
      BY <1>4, <1>5, <1>7, <2>2, <3>5
    <3> QED BY <3>5, <3>6, <1>5
  <2> QED BY <2>3, <2>4
<1>12. TreeShape(place, u, k, s + 1, 0)
  BY <1>3, <1>6, <1>8, <1>9, <1>10, <1>11 DEF TreeShape
<1> QED BY <1>12 DEF u

\* Any other bit for which there is no branch yet opens a node.
LEMMA TreeGetsNode ==
  ASSUME TreeBasis, NEW place, NEW t, NEW k, NEW s, NEW i, NEW pos, NEW b, TreeShape(place, t, k, s, i),
         Faces(place, k, s, i, pos, b), Branch(t, pos, b) = NotFilled, i + 1 # lengths[s],
         NEW wider, wider = [n \in 0..k + 1 |-> IF n = k + 1 THEN Beyond(place[pos], b) ELSE place[n]]
  PROVE  /\ TreeShape(wider, [t EXCEPT ![<<pos, b>>] = k + 1 + numcodes], k + 1, s, i + 1)
         /\ wider[k + 1] = PathOf(codes, s, i + 1)
<1> DEFINE u == [t EXCEPT ![<<pos, b>>] = k + 1 + numcodes]
           Cells == (0..numcodes - 1) \X (0..1)
<1>1. PathFacts(codes)
  BY PathsBranch DEF TreeBasis
<1>2. \A x \in CodedSet : x \in Nat /\ lengths[x] \in Nat
  BY <1>1 DEF PathFacts, Symbols, TreeBasis
<1>3. t \in [Cells -> Nat] /\ Labelled(place, k)
  BY DEF TreeShape
<1>4. k \in Nat /\ numcodes \in Nat /\ k <= numcodes - 2 /\ \A n \in 0..k : n \in 0..numcodes - 1 /\ n \in 0..k + 1 /\ n # k + 1
  BY <1>3 DEF Labelled, TreeBasis
<1>5. /\ s \in Nat /\ <<pos, b>> \in Cells /\ s \in CodedSet /\ pos \in 0..k /\ b \in 0..1
      /\ i + 1 \in 0..lengths[s] - 1 /\ i + 1 \in 0..lengths[s] /\ i \in Nat
  BY DEF Faces
<1>6. k + 1 + numcodes \in Nat /\ k + 1 + numcodes # NotFilled
  BY <1>4 DEF TreeBasis
<1>7. u \in [Cells -> Nat]
  BY <1>3, <1>5, <1>6
<1>8. \A n \in 0..numcodes - 1, d \in 0..1 : Branch(u, n, d) = IF n = pos /\ d = b THEN k + 1 + numcodes ELSE Branch(t, n, d)
  <2> SUFFICES ASSUME NEW n \in 0..numcodes - 1, NEW d \in 0..1
               PROVE  Branch(u, n, d) = IF n = pos /\ d = b THEN k + 1 + numcodes ELSE Branch(t, n, d)
    OBVIOUS
  <2>1. <<n, d>> \in Cells
    OBVIOUS
  <2> QED BY <2>1, <1>3, <1>5 DEF Branch
<1> HIDE DEF u
<1>9. k + 1 \in 0..k + 1 /\ wider[k + 1] = PathOf(codes, s, i + 1) /\ wider[k + 1] = Beyond(place[pos], b)
  BY <1>4 DEF Faces
<1>10. \A n \in 0..k : wider[n] = place[n]
  BY <1>4
<1>11. \A n \in 0..k + 1 : n \in 0..k \/ n = k + 1
  BY <1>4
<1>12. PathOf(codes, s, i + 1) \in Nat \X Nat /\ Way(codes, PathOf(codes, s, i + 1))
  BY <1>1, <1>5 DEF PathFacts, Way
<1>13. ASSUME NEW n \in 0..k PROVE place[n] # wider[k + 1]
  <2>1. CASE n = 0
    <3>1. place[n] = Root
      BY <2>1, <1>3 DEF Labelled
    <3>2. Root[1] = 0
      BY DEF Root
    <3>3. wider[k + 1][1] = i + 1
      BY <1>1, <1>5, <1>9 DEF PathFacts
    <3> QED BY <3>1, <3>2, <3>3, <1>5
  <2>2. CASE n # 0
    <3>1. n \in 1..k
      BY <2>2
    <3>2. PICK m \in 0..k, d \in 0..1 : Branch(t, m, d) = n + numcodes
      BY <3>1 DEF TreeShape
    <3>3. n + numcodes # NotFilled
      BY <3>1, <1>4 DEF TreeBasis
    <3>4. LeafAt(n + numcodes, s, place, m, d) \/ NodeAt(n + numcodes, k, place, m, d)
      BY <3>2, <3>3 DEF TreeShape
    <3>5. ~LeafAt(n + numcodes, s, place, m, d)
      <4>1. ~(n + numcodes < s)
        BY <1>4 DEF Faces
      <4> QED BY <4>1 DEF LeafAt
    <3>6. PICK z \in 1..k : n + numcodes = z + numcodes /\ place[z] = Beyond(place[m], d)
      BY <3>4, <3>5 DEF NodeAt
    <3>7. place[n] = Beyond(place[m], d)
      <4>1. n = z
        BY <3>6, <1>4
      <4> QED BY <3>6, <4>1
    <3> SUFFICES ASSUME place[n] = wider[k + 1] PROVE FALSE
      OBVIOUS
    <3>8. place[m] \in Nat \X Nat /\ place[pos] \in Nat \X Nat
      BY <1>3, <1>5 DEF Labelled
    <3>9. Beyond(place[m], d) = Beyond(place[pos], b)
      BY <3>7, <1>9
    <3>10. place[m] = place[pos] /\ d = b
      <4> DEFINE x1 == place[m][1]
                 x2 == place[m][2]
                 y1 == place[pos][1]
                 y2 == place[pos][2]
      <4>1. x1 \in Nat /\ x2 \in Nat /\ y1 \in Nat /\ y2 \in Nat /\ place[m] = <<x1, x2>> /\ place[pos] = <<y1, y2>>
        BY <3>8
      <4>2. x1 + 1 = y1 + 1 /\ 2 * x2 + d = 2 * y2 + b
        BY <3>9 DEF Beyond
      <4> HIDE DEF x1, x2, y1, y2
      <4>3. x1 = y1 /\ x2 = y2 /\ d = b
        BY <4>1, <4>2, <1>5
      <4> QED BY <4>1, <4>3
    <3>11. m = pos
      BY <3>10, <1>3, <1>5 DEF Labelled
    <3> QED BY <3>2, <3>3, <3>10, <3>11
  <2> QED BY <2>1, <2>2
<1>14. \A n \in 0..k + 1 : wider[n] \in Nat \X Nat /\ Way(codes, wider[n])
  <2> SUFFICES ASSUME NEW n \in 0..k + 1 PROVE wider[n] \in Nat \X Nat /\ Way(codes, wider[n])
    OBVIOUS
  <2>1. CASE n \in 0..k
    BY <2>1, <1>3, <1>10 DEF Labelled
  <2>2. CASE n = k + 1
    BY <2>2, <1>9, <1>12
  <2> QED BY <2>1, <2>2, <1>11
<1>15. \A m, n \in 0..k + 1 : wider[m] = wider[n] => m = n
  <2> SUFFICES ASSUME NEW m \in 0..k + 1, NEW n \in 0..k + 1, wider[m] = wider[n] PROVE m = n
    OBVIOUS
  <2>1. CASE m \in 0..k /\ n \in 0..k
    BY <2>1, <1>3, <1>10 DEF Labelled
  <2>2. CASE m \in 0..k /\ n = k + 1
    BY <2>2, <1>10, <1>13
  <2>3. CASE m = k + 1 /\ n \in 0..k
    BY <2>3, <1>10, <1>13
  <2> QED BY <2>1, <2>2, <2>3, <1>11
<1>16. wider \in [0..k + 1 -> Nat \X Nat] /\ wider[0] = Root
  <2>1. wider[0] = Root
    <3>1. 0 \in 0..k
      BY <1>4
    <3> QED BY <3>1, <1>3, <1>10 DEF Labelled
  <2>2. wider = [n \in 0..k + 1 |-> wider[n]]
    OBVIOUS
  <2> QED BY <2>1, <2>2, <1>14
<1>17. k + 1 <= numcodes - 2
  <2> DEFINE q == k + 1
  <2>1. q \in Nat /\ wider \in [0..q -> Nat \X Nat] /\ (\A n \in 0..q : Way(codes, wider[n])) /\ \A m, n \in 0..q : wider[m] = wider[n] => m = n
    BY <1>4, <1>14, <1>15, <1>16
  <2> HIDE DEF q
  <2>2. q <= numcodes - 2
    BY <2>1, NodeCount DEF TreeBasis
  <2> QED BY <2>2 DEF q
<1>18. Labelled(wider, k + 1)
  BY <1>4, <1>14, <1>15, <1>16, <1>17 DEF Labelled
<1>19. \A n \in 0..k + 1 : n \in 0..numcodes - 1
  BY <1>4, <1>17
<1>20. ASSUME NEW n \in 0..k + 1, NEW d \in 0..1, Branch(u, n, d) # NotFilled
       PROVE  LeafAt(Branch(u, n, d), s, wider, n, d) \/ NodeAt(Branch(u, n, d), k + 1, wider, n, d)
  <2> DEFINE v == Branch(u, n, d)
  <2>1. v = IF n = pos /\ d = b THEN k + 1 + numcodes ELSE Branch(t, n, d)
    BY <1>8, <1>19
  <2>2. v # NotFilled
    BY <1>20
  <2> HIDE DEF v
  <2>3. CASE n = pos /\ d = b
    <3>1. v = (k + 1) + numcodes /\ k + 1 \in 1..k + 1
      BY <1>4, <2>1, <2>3
    <3>2. wider[k + 1] = Beyond(wider[n], d)
      BY <1>5, <1>9, <1>10, <2>3
    <3>3. NodeAt(v, k + 1, wider, n, d)
      BY <3>1, <3>2 DEF NodeAt
    <3> QED BY <3>3 DEF v
  <2>4. CASE ~(n = pos /\ d = b)
    <3>1. v = Branch(t, n, d)
      BY <2>1, <2>4
    <3>2. n \in 0..k
      <4> SUFFICES ASSUME n = k + 1 PROVE FALSE
        BY <1>11
      <4>1. n \in 0..numcodes - 1 /\ n > k
        BY <1>4, <1>19
      <4>2. Branch(t, n, d) = NotFilled
        BY <4>1 DEF TreeShape
      <4> QED BY <4>2, <3>1, <2>2
    <3>3. LeafAt(v, s, place, n, d) \/ NodeAt(v, k, place, n, d)
      BY <2>2, <3>1, <3>2 DEF TreeShape
    <3>4. LeafAt(v, s, place, n, d) => LeafAt(v, s, wider, n, d)
      BY <1>10, <3>2 DEF LeafAt
    <3>5. NodeAt(v, k, place, n, d) => NodeAt(v, k + 1, wider, n, d)
      <4>1. \A m \in 1..k : m \in 1..k + 1 /\ m \in 0..k
        BY <1>4
      <4> QED BY <4>1, <1>10, <3>2 DEF NodeAt
    <3> QED BY <3>3, <3>4, <3>5 DEF v
  <2> QED BY <2>3, <2>4
<1>21. ASSUME NEW n \in 0..numcodes - 1, NEW d \in 0..1, n > k + 1 PROVE Branch(u, n, d) = NotFilled
  <2>1. n # pos /\ n > k
    BY <1>4, <1>5, <1>21
  <2>2. Branch(t, n, d) = NotFilled
    BY <2>1 DEF TreeShape
  <2> QED BY <2>1, <2>2, <1>8
<1>22. ASSUME NEW n \in 1..k + 1 PROVE \E m \in 0..k + 1, d \in 0..1 : Branch(u, m, d) = n + numcodes
  <2>1. CASE n \in 1..k
    <3>1. PICK m \in 0..k, d \in 0..1 : Branch(t, m, d) = n + numcodes
      BY <2>1 DEF TreeShape
    <3>2. n + numcodes # NotFilled
      BY <2>1, <1>4 DEF TreeBasis
    <3>3. ~(m = pos /\ d = b)
      BY <3>1, <3>2
    <3>4. Branch(u, m, d) = n + numcodes /\ m \in 0..k + 1
      BY <3>1, <3>3, <1>4, <1>8
    <3> QED BY <3>4
  <2>2. CASE n = k + 1
    <3>1. Branch(u, pos, b) = k + 1 + numcodes /\ pos \in 0..k + 1
      BY <1>4, <1>5, <1>8
    <3> QED BY <3>1, <2>2, <1>5
  <2>3. n \in 1..k \/ n = k + 1
    BY <1>4
  <2> QED BY <2>1, <2>2, <2>3
<1>23. ASSUME NEW x \in CodedSet, NEW j \in 0..lengths[x] - 1, Entered(s, i + 1, x, j)
       PROVE  \E n \in 0..k + 1 : wider[n] = PathOf(codes, x, j) /\ Branch(u, n, BitAt(codes, x, j)) # NotFilled
  <2>1. j \in Nat /\ x \in Nat
    BY <1>2
  <2>2. BitAt(codes, x, j) \in 0..1
    BY <1>1 DEF PathFacts
  <2>3. CASE Entered(s, i, x, j)
    <3>1. PICK n \in 0..k : place[n] = PathOf(codes, x, j) /\ Branch(t, n, BitAt(codes, x, j)) # NotFilled
      BY <2>3 DEF TreeShape
    <3>2. Branch(u, n, BitAt(codes, x, j)) # NotFilled
      BY <3>1, <2>2, <1>4, <1>6, <1>8
    <3>3. n \in 0..k + 1 /\ wider[n] = PathOf(codes, x, j)
      BY <3>1, <1>4, <1>10
    <3> QED BY <3>2, <3>3
  <2>4. CASE ~Entered(s, i, x, j)
    <3>5. x < s \/ (x = s /\ j < i + 1)
      BY <1>23 DEF Entered
    <3>6. ~(x < s) /\ ~(x = s /\ j < i)
      BY <2>4 DEF Entered
    <3>1. x = s /\ j = i
      BY <3>5, <3>6, <2>1, <1>5
    <3>2. place[pos] = PathOf(codes, x, j) /\ BitAt(codes, x, j) = b
      BY <3>1 DEF Faces
    <3>3. Branch(u, pos, b) = k + 1 + numcodes
      BY <1>4, <1>5, <1>8
    <3>4. pos \in 0..k + 1 /\ wider[pos] = PathOf(codes, x, j)
      BY <3>2, <1>4, <1>5, <1>10
    <3> QED BY <3>2, <3>3, <3>4, <1>6
  <2> QED BY <2>3, <2>4
<1>24. TreeShape(wider, u, k + 1, s, i + 1)
  BY <1>7, <1>18, <1>20, <1>21, <1>22, <1>23 DEF TreeShape
<1> QED BY <1>9, <1>24 DEF u

\* The finished tree leads every code to its symbol.
Leading(place, t, k) ==
  /\ Labelled(place, k)
  /\ \A s \in CodedSet : \A i \in 0..lengths[s] - 1 : \A n \in 0..k :
       place[n] = PathOf(codes, s, i) =>
         IF i + 1 = lengths[s]
         THEN Branch(t, n, BitAt(codes, s, i)) = s
         ELSE \E m \in 1..k : Branch(t, n, BitAt(codes, s, i)) = m + numcodes /\ place[m] = PathOf(codes, s, i + 1)

\* The finished tree leads each code to its symbol.
LEMMA TreeLeads ==
  ASSUME TreeBasis, NEW place, NEW t, NEW k, TreeShape(place, t, k, numcodes, 0),
         NEW u, u = [cell \in DOMAIN t |-> IF t[cell] = NotFilled THEN 0 ELSE t[cell]]
  PROVE  Leading(place, u, k)
<1>1. PathFacts(codes)
  BY PathsBranch DEF TreeBasis
<1>2. Labelled(place, k)
  BY DEF TreeShape
<1> SUFFICES ASSUME NEW s \in CodedSet, NEW i \in 0..lengths[s] - 1, NEW n \in 0..k, place[n] = PathOf(codes, s, i)
             PROVE  IF i + 1 = lengths[s]
                    THEN Branch(u, n, BitAt(codes, s, i)) = s
                    ELSE \E m \in 1..k : Branch(u, n, BitAt(codes, s, i)) = m + numcodes /\ place[m] = PathOf(codes, s, i + 1)
  BY <1>2 DEF Leading
<1> DEFINE b == BitAt(codes, s, i)
           v == Branch(t, n, b)
<1>3. s \in Symbols /\ lengths[s] \in Nat /\ i + 1 \in 0..lengths[s] /\ i \in Nat
  <2>1. s \in Symbols /\ lengths[s] \in Nat
    BY <1>1 DEF PathFacts
  <2> QED BY <2>1
<1>4. b \in 0..1 /\ Beyond(place[n], b) = PathOf(codes, s, i + 1)
  BY <1>1 DEF PathFacts
<1>5. s < numcodes
  BY <1>3 DEF Symbols, TreeBasis
<1>6. Entered(numcodes, 0, s, i)
  BY <1>5 DEF Entered
<1>7. PICK m \in 0..k : place[m] = PathOf(codes, s, i) /\ Branch(t, m, b) # NotFilled
  BY <1>6 DEF TreeShape
<1>8. m = n
  BY <1>2, <1>7 DEF Labelled
<1>9. v # NotFilled
  BY <1>7, <1>8
<1>10. LeafAt(v, numcodes, place, n, b) \/ NodeAt(v, k, place, n, b)
  BY <1>4, <1>9 DEF TreeShape
<1>11. Branch(u, n, b) = v
  <2>1. t \in [(0..numcodes - 1) \X (0..1) -> Nat]
    BY DEF TreeShape
  <2>2. n \in 0..numcodes - 1
    BY <1>2 DEF Labelled, TreeBasis
  <2>3. <<n, b>> \in DOMAIN t
    <3> HIDE DEF b
    <3> QED BY <2>1, <2>2, <1>4
  <2> HIDE DEF b
  <2> QED BY <2>3, <1>9 DEF Branch
<1> HIDE DEF v, b
<1>12. LeafAt(v, numcodes, place, n, b) => i + 1 = lengths[s] /\ v = s
  <2> SUFFICES ASSUME LeafAt(v, numcodes, place, n, b) PROVE i + 1 = lengths[s] /\ v = s
    OBVIOUS
  <2>1. v \in CodedSet /\ PathOf(codes, s, i + 1) = PathOf(codes, v, lengths[v])
    BY <1>4 DEF LeafAt
  <2>2. s = v /\ i + 1 = lengths[v]
    BY <2>1, <1>1, <1>3 DEF PathFacts
  <2> QED BY <2>2
<1>13. NodeAt(v, k, place, n, b) => i + 1 # lengths[s] /\ \E z \in 1..k : v = z + numcodes /\ place[z] = PathOf(codes, s, i + 1)
  <2> SUFFICES ASSUME NodeAt(v, k, place, n, b)
               PROVE  i + 1 # lengths[s] /\ \E z \in 1..k : v = z + numcodes /\ place[z] = PathOf(codes, s, i + 1)
    OBVIOUS
  <2>1. PICK z \in 1..k : v = z + numcodes /\ place[z] = PathOf(codes, s, i + 1)
    BY <1>4 DEF NodeAt
  <2>2. Way(codes, place[z])
    <3>1. z \in 0..k
      BY <1>2 DEF Labelled
    <3> QED BY <3>1, <1>2 DEF Labelled
  <2>3. PICK x \in CodedSet : \E j \in 0..lengths[x] - 1 : place[z] = PathOf(codes, x, j)
    BY <2>2 DEF Way
  <2>4. PICK j \in 0..lengths[x] - 1 : place[z] = PathOf(codes, x, j)
    BY <2>3
  <2>5. j \in 0..lengths[x] /\ j # lengths[x]
    <3>1. lengths[x] \in Nat
      BY <1>1 DEF PathFacts
    <3> QED BY <3>1
  <2>6. i + 1 # lengths[s]
    <3> SUFFICES ASSUME i + 1 = lengths[s] PROVE FALSE
      OBVIOUS
    <3>1. PathOf(codes, x, j) = PathOf(codes, s, lengths[s])
      BY <2>1, <2>4
    <3>2. x = s /\ j = lengths[s]
      BY <2>5, <3>1, <1>1 DEF PathFacts
    <3> QED BY <2>5, <3>2
  <2> QED BY <2>1, <2>6
<1>14. IF i + 1 = lengths[s] THEN v = s ELSE \E z \in 1..k : v = z + numcodes /\ place[z] = PathOf(codes, s, i + 1)
  BY <1>10, <1>12, <1>13
<1> QED BY <1>11, <1>14 DEF b

\* One symbol takes one bit.
OneBit(lens) == \E s \in Symbols : lens = [x \in Symbols |-> IF x = s THEN 1 ELSE 0]

\* The code of a single symbol: one or two lengths of one bit.
LEMMA OneBitCode ==
  ASSUME numcodes \in Nat, maxbitlen \in 1..15, NEW lens, OneBit(lens)
  PROVE  /\ lens \in [Symbols -> 0..maxbitlen] /\ KraftSum(lens) <= 2^maxbitlen
         /\ \A s \in Symbols : lens[s] <= 1
         /\ \E s \in Symbols : lens[s] > 0
<1>1. PICK s \in Symbols : lens = [x \in Symbols |-> IF x = s THEN 1 ELSE 0]
  BY DEF OneBit
<1>2. lens \in [Symbols -> 0..maxbitlen] /\ lens[s] = 1
  <2>1. 0 \in 0..maxbitlen /\ 1 \in 0..maxbitlen
    OBVIOUS
  <2> QED BY <2>1, <1>1
<1> DEFINE e == maxbitlen - 1
           w == 2^e
           f == [k \in 1..numcodes |-> IF lens[k - 1] = 0 THEN 0 ELSE 2^(maxbitlen - lens[k - 1])]
           p == s + 1
<1>3. e \in 0..14 /\ e + 1 = maxbitlen /\ e \in 0..15
  OBVIOUS
<1>4. w \in Nat /\ w >= 1
  BY <1>3, Powers
<1>5. 2^maxbitlen = 2 * w
  <2> HIDE DEF e
  <2>1. 2^(e + 1) = 2 * 2^e
    BY <1>3, Powers
  <2> QED BY <2>1, <1>3
<1>6. p \in 1..numcodes
  BY DEF Symbols
<1>7. \A k \in 1..numcodes : f[k] = IF k = p THEN w ELSE 0
  <2> SUFFICES ASSUME NEW k \in 1..numcodes PROVE f[k] = IF k = p THEN w ELSE 0
    OBVIOUS
  <2>1. k - 1 \in Symbols /\ s \in Int
    BY DEF Symbols
  <2>2. lens[k - 1] = IF k - 1 = s THEN 1 ELSE 0
    BY <2>1, <1>1
  <2>3. k - 1 = s <=> k = p
    BY <2>1
  <2> QED BY <2>2, <2>3
<1> HIDE DEF f, w, p
<1>8. Total(f, numcodes) = w
  <2> DEFINE g == [k \in 1..numcodes |-> IF k = p THEN w ELSE 0]
  <2>1. Ints(f, numcodes) /\ Ints(g, numcodes) /\ \A k \in 1..numcodes : f[k] = g[k]
    BY <1>4, <1>7 DEF Ints
  <2>4. g[p] = w /\ w \in Int /\ \A k \in 1..numcodes : k # p => g[k] = 0
    BY <1>4, <1>6
  <2> HIDE DEF g
  <2>2. Total(g, numcodes) = w
    BY <1>6, <2>4, TotalOne
  <2>3. Total(f, numcodes) = Total(g, numcodes)
    BY <2>1, TotalSame
  <2> QED BY <2>2, <2>3
<1>9. KraftSum(lens) <= 2^maxbitlen
  BY <1>4, <1>5, <1>8 DEF KraftSum, f
<1>10. \A x \in Symbols : lens[x] <= 1
  BY <1>1
<1> QED BY <1>2, <1>9, <1>10

\* The best lengths leave no bit string of the longest length over.
LEMMA BestIsFull ==
  ASSUME freq \in Seq(Nat), maxbitlen \in 1..15, numpresent >= 2, NEW lens, IsBest(lens)
  PROVE  /\ lens \in [Symbols -> 0..maxbitlen] /\ KraftSum(lens) = 2^maxbitlen
         /\ \E s \in Symbols : lens[s] > 0
<1>1. numcodes \in Nat /\ (\A s \in Symbols : s \in PresentSet <=> Freq(s) > 0) /\ PresentSet \subseteq Symbols
  BY PresentIs DEF PresentSet
<1>2. lens \in [Symbols -> 0..maxbitlen] /\ \A s \in Symbols : Freq(s) = 0 => lens[s] = 0
  BY DEF IsBest, Depths
<1>3. \A s \in PresentSet : lens[s] >= 1 /\ lens[s] \in Nat
  <2> SUFFICES ASSUME NEW s \in PresentSet PROVE lens[s] >= 1 /\ lens[s] \in Nat
    OBVIOUS
  <2>1. lens[s] \in 0..maxbitlen
    BY <1>1, <1>2
  <2> QED BY <2>1 DEF IsBest
<1>4. \A s \in Symbols : Freq(s) \in Nat
  BY DEF Freq, Symbols, numcodes
<1>5. \A s \in Symbols : s \in PresentSet <=> lens[s] # 0
  <2> SUFFICES ASSUME NEW s \in Symbols PROVE s \in PresentSet <=> lens[s] # 0
    OBVIOUS
  <2>1. s \in PresentSet => lens[s] # 0
    BY <1>3
  <2>2. s \notin PresentSet => lens[s] = 0
    BY <1>1, <1>2, <1>4
  <2> QED BY <2>1, <2>2
<1> DEFINE f == [k \in 1..numcodes |-> IF k - 1 \in PresentSet THEN 2^(maxbitlen - lens[k - 1]) ELSE 0]
           g == [k \in 1..numcodes |-> IF lens[k - 1] = 0 THEN 0 ELSE 2^(maxbitlen - lens[k - 1])]
<1>6. f = g
  <2>1. \A k \in 1..numcodes : k - 1 \in Symbols
    BY <1>1 DEF Symbols
  <2> QED BY <2>1, <1>5
<1>7. KraftSum(lens) = 2^maxbitlen
  <2>1. Filled(lens) = 2^maxbitlen
    BY DEF IsBest
  <2>2. Filled(lens) = KraftSum(lens)
    BY <1>6 DEF Filled, KraftSum
  <2> QED BY <2>1, <2>2
<1>8. \E s \in Symbols : lens[s] > 0
  <2>1. Present[1] \in Symbols /\ Present[1] \in PresentSet
    <3>1. 1 \in 1..numpresent /\ numpresent \in Nat
      <4>1. numpresent \in Nat
        BY PresentIs
      <4> QED BY <4>1
    <3> QED BY <3>1, PresentIs
  <2>2. lens[Present[1]] > 0
    BY <2>1, <1>3
  <2> QED BY <2>1, <2>2
<1> QED BY <1>2, <1>7, <1>8

\* The codes makeFromLengths2 makes of either.
LEMMA CodesAreGood ==
  ASSUME numcodes \in Nat, maxbitlen \in 1..15, lengths \in [Symbols -> 0..maxbitlen], NEW c, Numbered(c),
         KraftSum(lengths) = 2^maxbitlen \/ (KraftSum(lengths) <= 2^maxbitlen /\ \A s \in Symbols : lengths[s] <= 1)
  PROVE  GoodCodes(c)
<1>1. c \in [Symbols -> Nat]
  BY CodeStarts
<1>2. Apart(c)
  BY CodesApart
<1>3. KraftSum(lengths) <= 2^maxbitlen
  <2>1. 2^maxbitlen \in Nat
    <3>1. maxbitlen \in 0..15
      OBVIOUS
    <3> QED BY <3>1, Powers
  <2> QED BY <2>1
<1>4. Inside(c)
  BY <1>3, CodesInside
<1>5. KraftSum(lengths) = 2^maxbitlen => Covered(c)
  BY CodesCover
<1> QED BY <1>1, <1>2, <1>4, <1>5 DEF GoodCodes

\* The first symbols of a list are the list of the first symbols.
LEMMA InOrderBegins ==
  ASSUME NEW N \in Nat, NEW S, NEW n \in 0..N
  PROVE  /\ InOrder(S, n) \in Seq(Nat) /\ InOrder(S, N) \in Seq(Nat)
         /\ Len(InOrder(S, n)) <= Len(InOrder(S, N))
         /\ \A j \in 1..Len(InOrder(S, n)) : InOrder(S, n)[j] = InOrder(S, N)[j]
<1> DEFINE Begins(m) == n <= m => /\ Len(InOrder(S, n)) <= Len(InOrder(S, m))
                                  /\ \A j \in 1..Len(InOrder(S, n)) : InOrder(S, n)[j] = InOrder(S, m)[j]
           R == {m \in 0..N : Begins(m)}
<1>1. (\A m \in 0..N : InOrder(S, m) \in Seq(Nat)) /\ \A m \in 0..N - 1 : InOrder(S, m + 1) = Longer(InOrder(S, m), S, m)
  BY InOrderSteps
<1>2. \A m \in 0..N : Len(InOrder(S, m)) \in Nat
  BY <1>1
<1>3. 0 \in R
  <2>1. 0 \in 0..N
    OBVIOUS
  <2>2. n <= 0 => n = 0
    OBVIOUS
  <2>3. Begins(0)
    BY <2>1, <2>2, <1>2
  <2> QED BY <2>1, <2>3
<1>4. ASSUME NEW m \in 0..N - 1, m \in R PROVE m + 1 \in R
  <2>1. m \in 0..N /\ m + 1 \in 0..N /\ m \in Nat
    OBVIOUS
  <2> DEFINE a == InOrder(S, n)
             l == InOrder(S, m)
             k == InOrder(S, m + 1)
  <2>2. k = Longer(l, S, m) /\ l \in Seq(Nat) /\ a \in Seq(Nat) /\ k \in Seq(Nat)
    BY <2>1, <1>1
  <2>3. n <= m => Len(a) <= Len(l) /\ \A j \in 1..Len(a) : a[j] = l[j]
    BY <1>4
  <2>4. n = m + 1 => k = a
    OBVIOUS
  <2> HIDE DEF a, l, k
  <2>5. Len(l) <= Len(k) /\ \A j \in 1..Len(l) : k[j] = l[j]
    BY <2>1, <2>2 DEF Longer
  <2>6. n <= m + 1 => Len(a) <= Len(k) /\ \A j \in 1..Len(a) : a[j] = k[j]
    <3>1. CASE n = m + 1
      BY <3>1, <2>2, <2>4
    <3>2. CASE n <= m
      BY <3>2, <2>2, <2>3, <2>5
    <3> QED BY <3>1, <3>2, <2>1
  <2>7. Begins(m + 1)
    BY <2>6 DEF a, k
  <2> HIDE DEF Begins
  <2> QED BY <2>1, <2>7
<1> HIDE DEF R
<1>5. 0..N \subseteq R
  BY <1>3, <1>4, UpToN
<1>6. N \in R
  BY <1>5
<1>7. Begins(N)
  BY <1>6 DEF R
<1> QED BY <1>1, <1>7

\* The list gets the next symbol if it is in the set.
LEMMA InOrderNext ==
  ASSUME NEW N \in Nat, NEW S, NEW n \in 0..N - 1
  PROVE  InOrder(S, n + 1) = IF n \in S THEN Append(InOrder(S, n), n) ELSE InOrder(S, n)
<1>1. InOrder(S, n + 1) = Longer(InOrder(S, n), S, n)
  BY InOrderSteps
<1> QED BY <1>1 DEF Longer

\* FillTree, where the loop stands.
LEMMA StandsOnCode ==
  ASSUME TreeBasis, NEW place, NEW k, Labelled(place, k), Standing(place, k, symbol, bit, treepos),
         symbol < numcodes, bit < lengths[symbol]
  PROVE  symbol \in CodedSet /\ Faces(place, k, symbol, bit, treepos, BitAt(codes, symbol, bit))
<1>1. lengths \in [Symbols -> 0..maxbitlen] /\ numcodes \in Nat
  BY DEF TreeBasis, GoodCodes
<1>2. symbol \in Symbols
  BY <1>1 DEF Standing, Symbols
<1>3. symbol \in CodedSet
  <2> SUFFICES ASSUME symbol \notin CodedSet PROVE FALSE
    OBVIOUS
  <2>1. bit = 0
    BY DEF Standing
  <2>2. ~(lengths[symbol] > 0)
    BY <1>2 DEF CodedSet
  <2>3. lengths[symbol] \in 0..maxbitlen
    BY <1>1, <1>2
  <2> QED BY <2>1, <2>2, <2>3
<1> QED BY <1>3, FacesBit

\* Going on to the next bit, or to the next symbol.
LEMMA AdvanceIs ==
  ASSUME TreeBasis, NEW place, NEW k, Faces(place, k, symbol, bit, treepos, BitAt(codes, symbol, bit)), Advance
  PROVE  /\ LastBit <=> bit + 1 = lengths[symbol]
         /\ bit + 1 = lengths[symbol] => symbol' = symbol + 1 /\ bit' = 0 /\ symbol + 1 \in 0..numcodes
         /\ bit + 1 # lengths[symbol] => symbol' = symbol /\ bit' = bit + 1 /\ bit + 1 \in 0..lengths[symbol] - 1
BY DEF Faces, Advance, LastBit, TreeBasis

\* A bit of a code put into the tree.
LEMMA FillTreeKeeps ==
  ASSUME TreeBasis, NEW place, TreeShape(place, tree2d, nodefilled, symbol, bit),
         Standing(place, nodefilled, symbol, bit, treepos), FillTree
  PROVE  \E wider : TreeShape(wider, tree2d', nodefilled', symbol', bit') /\ Standing(wider, nodefilled', symbol', bit', treepos')
<1> DEFINE b == BitAt(codes, symbol, bit)
           v == Branch(tree2d, treepos, b)
<1>1. Labelled(place, nodefilled) /\ symbol < numcodes /\ bit < lengths[symbol] /\ Advance
  BY DEF TreeShape, FillTree
<1>2. symbol \in CodedSet /\ Faces(place, nodefilled, symbol, bit, treepos, b)
  BY <1>1, StandsOnCode
<1>3. /\ LastBit <=> bit + 1 = lengths[symbol]
      /\ bit + 1 = lengths[symbol] => symbol' = symbol + 1 /\ bit' = 0 /\ symbol + 1 \in 0..numcodes
      /\ bit + 1 # lengths[symbol] => symbol' = symbol /\ bit' = bit + 1 /\ bit + 1 \in 0..lengths[symbol] - 1
  BY <1>1, <1>2, AdvanceIs
<1>4. CodeBit(symbol, bit) = b /\ tree2d[<<treepos, b>>] = v
  BY DEF CodeBit, BitAt, Branch
<1>5. /\ v = NotFilled /\ LastBit => tree2d' = [tree2d EXCEPT ![<<treepos, b>>] = symbol] /\ treepos' = 0 /\ nodefilled' = nodefilled
      /\ v = NotFilled /\ ~LastBit => /\ tree2d' = [tree2d EXCEPT ![<<treepos, b>>] = nodefilled + 1 + numcodes]
                                      /\ nodefilled' = nodefilled + 1 /\ treepos' = nodefilled + 1
      /\ v # NotFilled => treepos' = v - numcodes /\ tree2d' = tree2d /\ nodefilled' = nodefilled
  BY <1>4 DEF FillTree
<1> HIDE DEF v, b
<1>6. symbol \in 0..numcodes /\ nodefilled \in Nat
  BY <1>1 DEF Standing, Labelled
<1>7. CASE v = NotFilled /\ LastBit
  <2>1. TreeShape(place, tree2d', nodefilled', symbol', bit')
    <3>1. TreeShape(place, [tree2d EXCEPT ![<<treepos, b>>] = symbol], nodefilled, symbol + 1, 0)
      BY <1>2, <1>3, <1>7, TreeGetsLeaf DEF v
    <3> QED BY <3>1, <1>3, <1>5, <1>7
  <2>2. Standing(place, nodefilled, symbol + 1, 0, 0)
    BY <1>1, <1>3, <1>7, StandingAtStart
  <2>3. Standing(place, nodefilled', symbol', bit', treepos')
    BY <2>2, <1>3, <1>5, <1>7
  <2> QED BY <2>1, <2>3
<1>8. CASE v = NotFilled /\ ~LastBit
  <2> DEFINE k == nodefilled
  <2>1. PICK w : w = [n \in 0..nodefilled + 1 |-> IF n = nodefilled + 1 THEN Beyond(place[treepos], b) ELSE place[n]]
    OBVIOUS
  <2>7. Branch(tree2d, treepos, b) = NotFilled /\ bit + 1 # lengths[symbol]
    BY <1>3, <1>8 DEF v
  <2>8. TreeShape(w, [tree2d EXCEPT ![<<treepos, b>>] = nodefilled + 1 + numcodes], nodefilled + 1, symbol, bit + 1)
    BY <2>1, <2>7, <1>2, TreeGetsNode
  <2>9. w[nodefilled + 1] = PathOf(codes, symbol, bit + 1)
    <3>1. nodefilled + 1 \in 0..nodefilled + 1
      BY <1>6
    <3> QED BY <3>1, <2>1, <1>2 DEF Faces
  <2>2. TreeShape(w, [tree2d EXCEPT ![<<treepos, b>>] = k + 1 + numcodes], k + 1, symbol, bit + 1) /\ w[k + 1] = PathOf(codes, symbol, bit + 1)
    BY <2>8, <2>9
  <2>3. TreeShape(w, tree2d', nodefilled', symbol', bit')
    BY <2>2, <1>3, <1>5, <1>8
  <2>4. k + 1 \in 0..k + 1
    BY <1>6
  <2>5. Standing(w, k + 1, symbol, bit + 1, k + 1)
    BY <2>2, <2>4, <1>2, <1>3, <1>6, <1>8 DEF Standing
  <2>6. Standing(w, nodefilled', symbol', bit', treepos')
    BY <2>5, <1>3, <1>5, <1>8
  <2> QED BY <2>3, <2>6
<1>9. CASE v # NotFilled
  <2>1. /\ bit + 1 # lengths[symbol]
        /\ \E m \in 1..nodefilled : v = m + numcodes /\ place[m] = PathOf(codes, symbol, bit + 1)
    BY <1>2, <1>9, FilledLeadsOn DEF v
  <2>2. PICK m \in 1..nodefilled : v = m + numcodes /\ place[m] = PathOf(codes, symbol, bit + 1)
    BY <2>1
  <2>3. TreeShape(place, tree2d, nodefilled, symbol, bit + 1)
    BY <1>2, <1>9, TreeMoves DEF v
  <2>4. TreeShape(place, tree2d', nodefilled', symbol', bit')
    BY <2>1, <2>3, <1>3, <1>5, <1>9
  <2>5. v - numcodes = m /\ m \in 0..nodefilled
    BY <2>2, <1>6 DEF TreeBasis
  <2>6. Standing(place, nodefilled, symbol, bit + 1, m)
    BY <2>1, <2>2, <2>5, <1>2, <1>3, <1>6 DEF Standing
  <2>7. Standing(place, nodefilled', symbol', bit', treepos')
    BY <2>1, <2>5, <2>6, <1>3, <1>5, <1>9
  <2> QED BY <2>4, <2>7
<1> QED BY <1>7, <1>8, <1>9

\* A symbol without a code is passed over.
LEMMA TreeSkips ==
  ASSUME TreeBasis, NEW place, NEW t, NEW k, NEW s \in 0..numcodes - 1, s \notin CodedSet, TreeShape(place, t, k, s, 0)
  PROVE  TreeShape(place, t, k, s + 1, 0)
<1>1. PathFacts(codes)
  BY PathsBranch DEF TreeBasis
<1>2. \A x \in CodedSet : x \in Nat /\ lengths[x] \in Nat
  BY <1>1 DEF PathFacts, Symbols, TreeBasis
<1>3. s \in Nat
  BY DEF TreeBasis
<1>4. \A x \in CodedSet : \A j \in 0..lengths[x] - 1 : Entered(s + 1, 0, x, j) => Entered(s, 0, x, j)
  <2> SUFFICES ASSUME NEW x \in CodedSet, NEW j \in 0..lengths[x] - 1, Entered(s + 1, 0, x, j) PROVE Entered(s, 0, x, j)
    OBVIOUS
  <2>1. x \in Nat /\ j \in Nat
    BY <1>2
  <2>2. x < s + 1 \/ (x = s + 1 /\ j < 0)
    BY DEF Entered
  <2>3. x # s
    OBVIOUS
  <2>4. x < s
    BY <2>1, <2>2, <2>3, <1>3
  <2> QED BY <2>4 DEF Entered
<1>5. \A v, n, b : LeafAt(v, s, place, n, b) => LeafAt(v, s + 1, place, n, b)
  <2> SUFFICES ASSUME NEW v, NEW n, NEW b, LeafAt(v, s, place, n, b) PROVE LeafAt(v, s + 1, place, n, b)
    OBVIOUS
  <2>1. v \in CodedSet /\ v < s
    BY DEF LeafAt
  <2>2. v < s + 1
    BY <2>1, <1>2, <1>3
  <2> QED BY <2>2 DEF LeafAt
<1> QED BY <1>4, <1>5 DEF TreeShape

\* A bit of a code read back.
LEMMA DecodeBitKeeps ==
  ASSUME TreeBasis, NEW place, Leading(place, tree2d, nodefilled), Standing(place, nodefilled, symbol, bit, treepos),
         decodedSymbols = InOrder(CodedSet, symbol), DecodeBit
  PROVE  Standing(place, nodefilled', symbol', bit', treepos') /\ decodedSymbols' = InOrder(CodedSet, symbol')
<1> DEFINE b == BitAt(codes, symbol, bit)
           v == Branch(tree2d, treepos, b)
<1>1. Labelled(place, nodefilled) /\ symbol < numcodes /\ bit < lengths[symbol] /\ Advance /\ nodefilled' = nodefilled
  BY DEF Leading, DecodeBit
<1>2. symbol \in CodedSet /\ Faces(place, nodefilled, symbol, bit, treepos, b)
  BY <1>1, StandsOnCode
<1>3. /\ LastBit <=> bit + 1 = lengths[symbol]
      /\ bit + 1 = lengths[symbol] => symbol' = symbol + 1 /\ bit' = 0 /\ symbol + 1 \in 0..numcodes
      /\ bit + 1 # lengths[symbol] => symbol' = symbol /\ bit' = bit + 1 /\ bit + 1 \in 0..lengths[symbol] - 1
  BY <1>1, <1>2, AdvanceIs
<1>4. CodeBit(symbol, bit) = b /\ tree2d[<<treepos, b>>] = v
  BY DEF CodeBit, BitAt, Branch
<1>5. /\ v < numcodes => decodedSymbols' = Append(decodedSymbols, v) /\ treepos' = 0
      /\ ~(v < numcodes) => decodedSymbols' = decodedSymbols /\ treepos' = v - numcodes
  BY <1>4 DEF DecodeBit
<1>6. IF bit + 1 = lengths[symbol] THEN v = symbol
      ELSE \E m \in 1..nodefilled : v = m + numcodes /\ place[m] = PathOf(codes, symbol, bit + 1)
  BY <1>2 DEF Leading, Faces
<1> HIDE DEF v, b
<1>7. symbol \in 0..numcodes /\ nodefilled \in Nat /\ symbol \in 0..numcodes - 1 /\ numcodes \in Nat
  BY <1>1 DEF Standing, Labelled, TreeBasis
<1>8. CASE bit + 1 = lengths[symbol]
  <2>1. v = symbol /\ v < numcodes
    BY <1>1, <1>6, <1>8
  <2>2. Standing(place, nodefilled, symbol + 1, 0, 0)
    BY <1>1, <1>3, <1>8, StandingAtStart
  <2>3. InOrder(CodedSet, symbol + 1) = Append(InOrder(CodedSet, symbol), symbol)
    BY <1>2, <1>7, InOrderNext
  <2> QED BY <2>1, <2>2, <2>3, <1>1, <1>3, <1>5, <1>8
<1>9. CASE bit + 1 # lengths[symbol]
  <2>1. PICK m \in 1..nodefilled : v = m + numcodes /\ place[m] = PathOf(codes, symbol, bit + 1)
    BY <1>6, <1>9
  <2>2. v - numcodes = m /\ m \in 0..nodefilled /\ ~(v < numcodes)
    BY <2>1, <1>7
  <2>3. Standing(place, nodefilled, symbol, bit + 1, m)
    BY <2>1, <2>2, <1>2, <1>3, <1>7, <1>9 DEF Standing
  <2> QED BY <2>2, <2>3, <1>1, <1>3, <1>5, <1>9
<1> QED BY <1>8, <1>9

-----------------------------------------------------------------------------
\* The code, step by step.

CodeInput == IsCodeInput([freq |-> freq, maxbits |-> maxbitlen])

\* No symbol is in the tree, and none has been read.
Untouched ==
  /\ tree2d = [cell \in (0..numcodes - 1) \X (0..1) |-> NotFilled]
  /\ nodefilled = 0 /\ treepos = 0 /\ decodedSymbols = <<>>

TreeGrows ==
  \E place : /\ TreeShape(place, tree2d, nodefilled, symbol, bit)
             /\ Standing(place, nodefilled, symbol, bit, treepos)
TreeReads ==
  \E place : Leading(place, tree2d, nodefilled) /\ Standing(place, nodefilled, symbol, bit, treepos)

\* What holds before the lengths are numbered, and after.
LengthsStage ==
  /\ codePc \in {"idle", "coins"} => coins = <<>> /\ rowNumber = 0 /\ lengths = [s \in Symbols |-> 0]
  /\ codePc \in {"idle", "coins", "sort", "number"} => Untouched
  /\ codePc = "sort" => RowIInv
  /\ codePc = "number" => (numpresent >= 2 /\ IsBest(lengths)) \/ (numpresent <= 1 /\ OneBit(lengths))
TreeStage ==
  /\ codePc \in {"tree", "decode", "done"} => TreeBasis /\ CodedSet # {}
  /\ codePc = "tree" => TreeGrows /\ decodedSymbols = <<>>
  /\ codePc = "decode" => TreeReads /\ decodedSymbols = InOrder(CodedSet, symbol)
  /\ codePc = "done" => decodedSymbols = InOrder(CodedSet, numcodes)
CodeIInv ==
  /\ freq \in Seq(Nat)
  /\ codePc \in {"idle", "coins", "sort", "number", "tree", "decode", "done"}
  /\ codePc # "idle" => CodeInput
  /\ Len(coins) <= 2 * numpresent
  /\ LengthsStage /\ TreeStage

\* What depends on the frequencies and the limit alone.
LEMMA SameCodes ==
  ASSUME UNCHANGED <<freq, maxbitlen>>
  PROVE  /\ numcodes' = numcodes /\ Symbols' = Symbols /\ PresentSet' = PresentSet /\ numpresent' = numpresent
         /\ CodeInput' <=> CodeInput
         /\ \A lens : IsBest(lens)' <=> IsBest(lens)
         /\ \A lens : OneBit(lens)' <=> OneBit(lens)
<1>1. numcodes' = numcodes /\ Symbols' = Symbols /\ PresentSet' = PresentSet /\ numpresent' = numpresent
  BY SameSizes
<1>2. \A t : Price(t)' = Price(t)
  BY <1>1 DEF Price, Total, Freq
<1>3. \A t : Filled(t)' = Filled(t)
  BY <1>1 DEF Filled, Total
<1>4. \A e : Depths(e)' = Depths(e)
  BY <1>1 DEF Depths, Freq
<1>5. \A lens : IsBest(lens)' <=> IsBest(lens)
  BY <1>1, <1>2, <1>3, <1>4 DEF IsBest
<1>6. \A lens : OneBit(lens)' <=> OneBit(lens)
  BY <1>1 DEF OneBit
<1>7. CodeInput' <=> CodeInput
  BY DEF CodeInput
<1> QED BY <1>1, <1>5, <1>6, <1>7

\* What depends on the code lengths too.
LEMMA SameLengths ==
  ASSUME UNCHANGED <<freq, maxbitlen, lengths>>
  PROVE  /\ CodedSet' = CodedSet /\ BlCount(0)' = BlCount(0)
         /\ \A c : GoodCodes(c)' <=> GoodCodes(c)
         /\ \A c : Numbered(c)' <=> Numbered(c)
         /\ KraftSum(lengths)' = KraftSum(lengths)
<1>1. numcodes' = numcodes /\ Symbols' = Symbols
  BY DEF numcodes, Symbols
<1>2. \A b : BlCount(b)' = BlCount(b)
  BY <1>1 DEF BlCount
<1>3. \A s : Slot(s)' = Slot(s)
  BY DEF Slot
<1>4. CodedSet' = CodedSet
  BY <1>1 DEF CodedSet
<1>5. Lowest' = Lowest
  BY <1>2 DEF Lowest
<1>6. \A c, s : Left(c, s)' = Left(c, s)
  BY <1>3 DEF Left
<1>7. \A c : Apart(c)' <=> Apart(c)
  BY <1>3, <1>4, <1>6 DEF Apart
<1>8. \A c : Inside(c)' <=> Inside(c)
  BY <1>3, <1>4, <1>5, <1>6 DEF Inside
<1>9. \A c : Covered(c)' <=> Covered(c)
  BY <1>3, <1>4, <1>5, <1>6 DEF Covered, Covers
<1>10. \A c : GoodCodes(c)' <=> GoodCodes(c)
  BY <1>1, <1>7, <1>8, <1>9 DEF GoodCodes
<1>11. FirstCode' = FirstCode
  BY <1>2 DEF FirstCode
<1>12. \A s : SameLengthBefore(s)' = SameLengthBefore(s)
  BY DEF SameLengthBefore
<1>13. \A c : Numbered(c)' <=> Numbered(c)
  BY <1>1, <1>11, <1>12 DEF Numbered
<1>14. KraftSum(lengths)' = KraftSum(lengths)
  BY <1>1 DEF KraftSum, Total
<1> QED BY <1>2, <1>4, <1>10, <1>13, <1>14

\* What depends on the codes too.
LEMMA SameTree ==
  ASSUME UNCHANGED <<freq, maxbitlen, lengths, codes>>
  PROVE  /\ TreeBasis' <=> TreeBasis
         /\ \A place, t, k, s, i : TreeShape(place, t, k, s, i)' <=> TreeShape(place, t, k, s, i)
         /\ \A place, k, s, i, pos : Standing(place, k, s, i, pos)' <=> Standing(place, k, s, i, pos)
         /\ \A place, t, k : Leading(place, t, k)' <=> Leading(place, t, k)
<1>1. numcodes' = numcodes
  BY DEF numcodes
<1>2. CodedSet' = CodedSet /\ BlCount(0)' = BlCount(0) /\ \A c : GoodCodes(c)' <=> GoodCodes(c)
  BY SameLengths
<1>3. TreeBasis' <=> TreeBasis
  BY <1>1, <1>2 DEF TreeBasis, NotFilled
<1>4. \A s, i : PathOf(codes, s, i)' = PathOf(codes, s, i) /\ BitAt(codes, s, i)' = BitAt(codes, s, i)
  BY DEF PathOf, Pre, BitAt
<1>5. \A x : Way(codes, x)' <=> Way(codes, x)
  BY <1>2, <1>4 DEF Way
<1>6. Root' = Root
  BY <1>2 DEF Root
<1>7. \A place, k : Labelled(place, k)' <=> Labelled(place, k)
  BY <1>1, <1>5, <1>6 DEF Labelled
<1>8. \A v, s, place, n, b : LeafAt(v, s, place, n, b)' <=> LeafAt(v, s, place, n, b)
  BY <1>2, <1>4 DEF LeafAt, Beyond
<1>9. \A v, k, place, n, b : NodeAt(v, k, place, n, b)' <=> NodeAt(v, k, place, n, b)
  BY <1>1 DEF NodeAt, Beyond
<1>10. \A place, t, k, s, i : TreeShape(place, t, k, s, i)' <=> TreeShape(place, t, k, s, i)
  BY <1>1, <1>2, <1>4, <1>7, <1>8, <1>9 DEF TreeShape, Branch, Entered, NotFilled
<1>11. \A place, k, s, i, pos : Standing(place, k, s, i, pos)' <=> Standing(place, k, s, i, pos)
  BY <1>1, <1>2, <1>4 DEF Standing
<1>12. \A place, t, k : Leading(place, t, k)' <=> Leading(place, t, k)
  BY <1>1, <1>2, <1>4, <1>7 DEF Leading, Branch
<1> QED BY <1>3, <1>10, <1>11, <1>12

\* Starting points.
LEMMA CodeIdleHolds ==
  ASSUME CodeStart([freq |-> <<>>, maxbits |-> 0], "idle")
  PROVE  CodeIInv
<1>1. /\ freq = <<>> /\ codePc = "idle" /\ coins = <<>> /\ rowNumber = 0 /\ lengths = [s \in Symbols |-> 0] /\ Untouched
  BY DEF CodeStart, Untouched
<1>2. freq \in Seq(Nat)
  BY <1>1
<1>3. numpresent \in Nat
  BY <1>2, PresentIs
<1>4. Len(coins) <= 2 * numpresent
  BY <1>1, <1>3
<1> QED BY <1>1, <1>2, <1>4 DEF CodeIInv, LengthsStage, TreeStage

\* The invariant holds at the start of a code.
LEMMA CodeStartHolds ==
  ASSUME NEW in, IsCodeInput(in), CodeStart(in, "coins")
  PROVE  CodeIInv
<1>1. /\ freq = in.freq /\ maxbitlen = in.maxbits
      /\ codePc = "coins" /\ coins = <<>> /\ rowNumber = 0 /\ lengths = [s \in Symbols |-> 0] /\ Untouched
  BY DEF CodeStart, Untouched
<1>2. CodeInput
  BY <1>1 DEF IsCodeInput, CodeInput
<1>3. freq \in Seq(Nat)
  BY <1>1 DEF IsCodeInput
<1>4. numpresent \in Nat
  BY <1>3, PresentIs
<1>5. Len(coins) <= 2 * numpresent
  BY <1>1, <1>4
<1> QED BY <1>1, <1>2, <1>3, <1>5 DEF CodeIInv, LengthsStage, TreeStage

\* What a step leaves alone.
LEMMA UntouchedStays ==
  ASSUME Untouched, UNCHANGED <<freq, treeVars, decodedSymbols>>
  PROVE  Untouched'
BY DEF Untouched, treeVars, numcodes, NotFilled

\* One symbol or none: code lengths of one bit.
LEMMA SingleSymbolKeeps ==
  ASSUME CodeIInv, SingleSymbol
  PROVE  CodeIInv'
<1>1. /\ UNCHANGED <<freq, maxbitlen, coins, treeVars, decodedSymbols>> /\ codePc = "coins" /\ codePc' = "number"
      /\ numpresent <= 1 /\ lengths' = [lengths EXCEPT ![IF numpresent = 0 THEN 0 ELSE Present[1]] = 1]
  BY DEF SingleSymbol, coinVars
<1>2. freq \in Seq(Nat) /\ CodeInput /\ lengths = [s \in Symbols |-> 0] /\ Untouched /\ Len(coins) <= 2 * numpresent
  BY <1>1 DEF CodeIInv, LengthsStage
<1>3. numpresent' = numpresent /\ (CodeInput' <=> CodeInput) /\ \A lens : OneBit(lens)' <=> OneBit(lens)
  BY <1>1, SameCodes
<1>4. numcodes \in Nat /\ numcodes >= 2 /\ numpresent \in Nat
  BY <1>2, InputIs DEF CodeInput
<1> DEFINE s0 == IF numpresent = 0 THEN 0 ELSE Present[1]
<1>5. s0 \in Symbols
  <2>1. CASE numpresent = 0
    BY <2>1, <1>4 DEF Symbols
  <2>2. CASE numpresent # 0
    <3>1. 1 \in 1..numpresent
      BY <2>2, <1>4
    <3>2. Present[1] \in Symbols
      BY <3>1, <1>2, PresentIs
    <3> QED BY <3>2, <2>2
  <2> QED BY <2>1, <2>2
<1> HIDE DEF s0
<1>6. lengths' = [x \in Symbols |-> IF x = s0 THEN 1 ELSE 0]
  BY <1>1, <1>2, <1>5 DEF s0
<1>7. OneBit(lengths')
  BY <1>5, <1>6 DEF OneBit
<1>8. OneBit(lengths)'
  BY <1>3, <1>7
<1>9. Untouched'
  BY <1>1, <1>2, UntouchedStays
<1> QED BY <1>1, <1>2, <1>3, <1>8, <1>9 DEF CodeIInv, LengthsStage, TreeStage

\* The first row.
LEMMA FirstRowStep ==
  ASSUME CodeIInv, FirstRow
  PROVE  CodeIInv'
<1>1. UNCHANGED <<freq, maxbitlen, treeVars, decodedSymbols>> /\ codePc = "coins" /\ codePc' = "sort"
  BY DEF FirstRow
<1>2. freq \in Seq(Nat) /\ CodeInput /\ Untouched /\ rowNumber = 0
  BY <1>1 DEF CodeIInv, LengthsStage
<1>3. numpresent' = numpresent /\ (CodeInput' <=> CodeInput)
  BY <1>1, SameCodes
<1>4. RowIInv' /\ Len(coins') <= 2 * numpresent
  BY <1>2, FirstRowKeeps DEF CodeInput
<1>5. Untouched'
  BY <1>1, <1>2, UntouchedStays
<1> QED BY <1>1, <1>2, <1>3, <1>4, <1>5 DEF CodeIInv, LengthsStage, TreeStage

\* A pass of the sort.
LEMMA SortPassStep ==
  ASSUME CodeIInv, SortPass
  PROVE  CodeIInv'
<1>1. UNCHANGED <<freq, maxbitlen, treeVars, decodedSymbols>> /\ codePc = "sort" /\ codePc' = "sort"
  BY DEF SortPass
<1>2. freq \in Seq(Nat) /\ CodeInput /\ Untouched /\ RowIInv /\ Len(coins) <= 2 * numpresent
  BY <1>1 DEF CodeIInv, LengthsStage
<1>3. numpresent' = numpresent /\ (CodeInput' <=> CodeInput)
  BY <1>1, SameCodes
<1>4. RowIInv' /\ Len(coins') = Len(coins)
  BY <1>2, SortPassKeeps
<1>5. Untouched'
  BY <1>1, <1>2, UntouchedStays
<1> QED BY <1>1, <1>2, <1>3, <1>4, <1>5 DEF CodeIInv, LengthsStage, TreeStage

\* The next row.
LEMMA NextRowStep ==
  ASSUME CodeIInv, NextRow
  PROVE  CodeIInv'
<1>1. UNCHANGED <<freq, maxbitlen, treeVars, decodedSymbols>> /\ codePc = "sort" /\ codePc' = "sort"
  BY DEF NextRow
<1>2. freq \in Seq(Nat) /\ CodeInput /\ Untouched /\ RowIInv
  BY <1>1 DEF CodeIInv, LengthsStage
<1>3. numpresent' = numpresent /\ (CodeInput' <=> CodeInput)
  BY <1>1, SameCodes
<1>4. RowIInv' /\ Len(coins') <= 2 * numpresent
  BY <1>2, NextRowKeeps DEF CodeInput
<1>5. Untouched'
  BY <1>1, <1>2, UntouchedStays
<1> QED BY <1>1, <1>2, <1>3, <1>4, <1>5 DEF CodeIInv, LengthsStage, TreeStage

\* The code lengths are counted in the last row.
LEMMA CountLengthsStep ==
  ASSUME CodeIInv, CountLengths
  PROVE  CodeIInv'
<1>1. UNCHANGED <<freq, maxbitlen, coins, treeVars, decodedSymbols>> /\ codePc = "sort" /\ codePc' = "number"
  BY DEF CountLengths, coinVars
<1>2. freq \in Seq(Nat) /\ CodeInput /\ Untouched /\ RowIInv /\ Len(coins) <= 2 * numpresent
  BY <1>1 DEF CodeIInv, LengthsStage
<1>3. numpresent' = numpresent /\ (CodeInput' <=> CodeInput) /\ \A lens : IsBest(lens)' <=> IsBest(lens)
  BY <1>1, SameCodes
<1>4. IsBest(lengths') /\ numpresent >= 2
  BY <1>2, LengthsFound DEF CodeInput
<1>5. IsBest(lengths)'
  BY <1>3, <1>4
<1>6. Untouched'
  BY <1>1, <1>2, UntouchedStays
<1> QED BY <1>1, <1>2, <1>3, <1>4, <1>5, <1>6 DEF CodeIInv, LengthsStage, TreeStage

\* The tree without a node has the shape of no code yet.
LEMMA TreeBegins == TreeBasis /\ CodedSet # {} /\ Untouched /\ symbol = 0 /\ bit = 0 => TreeGrows
<1> SUFFICES ASSUME TreeBasis, CodedSet # {}, Untouched, symbol = 0, bit = 0 PROVE TreeGrows
  OBVIOUS
<1> DEFINE place == [n \in 0..0 |-> Root]
<1>1. TreeShape(place, tree2d, nodefilled, symbol, bit)
  <2>1. tree2d = [cell \in (0..numcodes - 1) \X (0..1) |-> NotFilled] /\ nodefilled = 0
    BY DEF Untouched
  <2>2. TreeShape(place, tree2d, 0, 0, 0)
    BY <2>1, TreeStarts
  <2> QED BY <2>1, <2>2
<1> HIDE DEF place
<1>2. Standing(place, nodefilled, symbol, bit, treepos)
  <2>1. Labelled(place, nodefilled) /\ symbol \in 0..numcodes /\ treepos = 0
    BY <1>1 DEF TreeShape, TreeBasis, Untouched
  <2>2. Standing(place, nodefilled, symbol, 0, 0)
    BY <2>1, StandingAtStart
  <2> QED BY <2>1, <2>2
<1> QED BY <1>1, <1>2 DEF TreeGrows

\* The codes are numbered.
LEMMA NumberCodesStep ==
  ASSUME CodeIInv, NumberCodes
  PROVE  CodeIInv'
<1>1. /\ UNCHANGED <<freq, maxbitlen, coins, lengths, treeVars, decodedSymbols>> /\ codePc = "number" /\ codePc' = "tree"
      /\ Numbered(codes') /\ symbol' = 0 /\ bit' = 0
  BY DEF NumberCodes, coinVars, Numbered
<1>2. /\ freq \in Seq(Nat) /\ CodeInput /\ Untouched /\ Len(coins) <= 2 * numpresent
      /\ (numpresent >= 2 /\ IsBest(lengths)) \/ (numpresent <= 1 /\ OneBit(lengths))
  BY <1>1 DEF CodeIInv, LengthsStage
<1>3. numcodes' = numcodes /\ numpresent' = numpresent /\ (CodeInput' <=> CodeInput)
  BY <1>1, SameCodes
<1>4. numcodes \in Nat /\ numcodes >= 2 /\ 2 * numcodes <= NotFilled /\ maxbitlen \in 1..15
  BY <1>2, InputIs DEF CodeInput
<1>5. /\ lengths \in [Symbols -> 0..maxbitlen] /\ \E s \in Symbols : lengths[s] > 0
      /\ KraftSum(lengths) = 2^maxbitlen \/ (KraftSum(lengths) <= 2^maxbitlen /\ \A s \in Symbols : lengths[s] <= 1)
  <2>1. CASE numpresent >= 2 /\ IsBest(lengths)
    <3>1. lengths \in [Symbols -> 0..maxbitlen] /\ KraftSum(lengths) = 2^maxbitlen /\ \E s \in Symbols : lengths[s] > 0
      BY <2>1, <1>2, <1>4, BestIsFull
    <3> QED BY <3>1
  <2>2. CASE numpresent <= 1 /\ OneBit(lengths)
    <3>1. lengths \in [Symbols -> 0..maxbitlen] /\ KraftSum(lengths) <= 2^maxbitlen
      BY <2>2, <1>4, OneBitCode
    <3>2. (\A s \in Symbols : lengths[s] <= 1) /\ \E s \in Symbols : lengths[s] > 0
      BY <2>2, <1>4, OneBitCode
    <3> QED BY <3>1, <3>2
  <2> QED BY <2>1, <2>2, <1>2
<1>6. GoodCodes(codes')
  BY <1>1, <1>4, <1>5, CodesAreGood
<1>7. CodedSet # {}
  BY <1>5 DEF CodedSet
<1>8. CodedSet' = CodedSet /\ \A c : GoodCodes(c)' <=> GoodCodes(c)
  BY <1>1, SameLengths
<1>9. TreeBasis'
  <2>1. GoodCodes(codes)'
    BY <1>6, <1>8
  <2> QED BY <2>1, <1>1, <1>3, <1>4 DEF TreeBasis, NotFilled
<1>10. /\ tree2d' = [cell \in (0..numcodes' - 1) \X (0..1) |-> NotFilled'] /\ nodefilled' = 0 /\ treepos' = 0 /\ decodedSymbols' = <<>>
  BY <1>1, <1>2, <1>3 DEF Untouched, treeVars, NotFilled
<1>11. CodedSet' # {}
  BY <1>7, <1>8
<1>12. TreeBasis' /\ CodedSet' # {} /\ Untouched' /\ symbol' = 0 /\ bit' = 0
  <2>1. Untouched'
    BY <1>10 DEF Untouched
  <2> QED BY <2>1, <1>1, <1>9, <1>11
<1>13. (TreeBasis /\ CodedSet # {} /\ Untouched /\ symbol = 0 /\ bit = 0)'
  BY <1>12
<1>14. TreeGrows'
  BY <1>13, TreeBegins, PTL
<1> QED BY <1>1, <1>2, <1>3, <1>9, <1>10, <1>11, <1>14 DEF CodeIInv, LengthsStage, TreeStage

\* The steps of the tree change neither the input nor the codes.
LEMMA TreeStepSame ==
  ASSUME UNCHANGED <<freq, maxbitlen, coins, lengths, codes>>, codePc \in {"tree", "decode"}, codePc' \in {"tree", "decode", "done"},
         CodeIInv,
         codePc' = "tree" => TreeGrows' /\ decodedSymbols' = <<>>,
         codePc' = "decode" => TreeReads' /\ decodedSymbols' = InOrder(CodedSet, symbol'),
         codePc' = "done" => decodedSymbols' = InOrder(CodedSet, numcodes)
  PROVE  CodeIInv'
<1>1. freq \in Seq(Nat) /\ CodeInput /\ Len(coins) <= 2 * numpresent /\ TreeBasis /\ CodedSet # {}
  BY DEF CodeIInv, TreeStage
<1>2. numcodes' = numcodes /\ numpresent' = numpresent /\ (CodeInput' <=> CodeInput)
  BY SameCodes
<1>3. CodedSet' = CodedSet
  BY SameLengths
<1>4. TreeBasis' <=> TreeBasis
  BY SameTree
<1>5. \A n : InOrder(CodedSet, n)' = InOrder(CodedSet, n)
  BY <1>3 DEF InOrder
<1>6. (codePc = "decode" => decodedSymbols = InOrder(CodedSet, symbol))'
  BY <1>3 DEF InOrder
<1>7. (codePc = "done" => decodedSymbols = InOrder(CodedSet, numcodes))'
  BY <1>2, <1>3 DEF InOrder
<1>8. TreeStage'
  BY <1>1, <1>3, <1>4, <1>6, <1>7 DEF TreeStage
<1>9. LengthsStage'
  BY DEF LengthsStage
<1> QED BY <1>1, <1>2, <1>8, <1>9 DEF CodeIInv

\* A symbol without a code is skipped.
LEMMA SkipAbsentStep ==
  ASSUME CodeIInv, SkipAbsent
  PROVE  CodeIInv'
<1>1. /\ UNCHANGED <<freq, maxbitlen, coins, lengths, codes, tree2d, nodefilled, treepos, bit, decodedSymbols, codePc>>
      /\ codePc \in {"tree", "decode"} /\ symbol < numcodes /\ lengths[symbol] = 0 /\ symbol' = symbol + 1
  BY DEF SkipAbsent, coinVars, treeVars
<1>2. /\ TreeBasis
      /\ codePc = "tree" => TreeGrows /\ decodedSymbols = <<>>
      /\ codePc = "decode" => TreeReads /\ decodedSymbols = InOrder(CodedSet, symbol)
  BY <1>1 DEF CodeIInv, TreeStage
<1>3. symbol \notin CodedSet
  BY <1>1 DEF CodedSet
<1>4. \A place, k : Standing(place, k, symbol, bit, treepos) =>
        symbol \in 0..numcodes - 1 /\ symbol + 1 \in 0..numcodes /\ bit = 0 /\ treepos = 0
  BY <1>1, <1>2, <1>3 DEF Standing, TreeBasis
<1>5. /\ \A place, t, k, s, i : TreeShape(place, t, k, s, i)' <=> TreeShape(place, t, k, s, i)
      /\ \A place, k, s, i, pos : Standing(place, k, s, i, pos)' <=> Standing(place, k, s, i, pos)
      /\ \A place, t, k : Leading(place, t, k)' <=> Leading(place, t, k)
  BY <1>1, SameTree
<1>6. ASSUME codePc = "tree" PROVE TreeGrows'
  <2>1. PICK place : TreeShape(place, tree2d, nodefilled, symbol, bit) /\ Standing(place, nodefilled, symbol, bit, treepos)
    BY <1>2, <1>6 DEF TreeGrows
  <2>2. symbol \in 0..numcodes - 1 /\ symbol + 1 \in 0..numcodes /\ bit = 0 /\ treepos = 0
    BY <2>1, <1>4
  <2>3. TreeShape(place, tree2d, nodefilled, symbol + 1, 0)
    BY <2>1, <2>2, <1>2, <1>3, TreeSkips
  <2>4. Labelled(place, nodefilled)
    BY <2>1 DEF TreeShape
  <2>5. Standing(place, nodefilled, symbol + 1, 0, 0)
    BY <2>2, <2>4, <1>2, StandingAtStart
  <2>6. TreeShape(place, tree2d, nodefilled, symbol, bit)'
    BY <2>2, <2>3, <1>1, <1>5
  <2>7. Standing(place, nodefilled, symbol, bit, treepos)'
    BY <2>2, <2>5, <1>1, <1>5
  <2> QED BY <2>6, <2>7 DEF TreeGrows
<1>7. ASSUME codePc = "decode" PROVE TreeReads' /\ decodedSymbols' = InOrder(CodedSet, symbol')
  <2>1. PICK place : Leading(place, tree2d, nodefilled) /\ Standing(place, nodefilled, symbol, bit, treepos)
    BY <1>2, <1>7 DEF TreeReads
  <2>2. symbol \in 0..numcodes - 1 /\ symbol + 1 \in 0..numcodes /\ bit = 0 /\ treepos = 0
    BY <2>1, <1>4
  <2>4. Labelled(place, nodefilled)
    BY <2>1 DEF Leading
  <2>5. Standing(place, nodefilled, symbol + 1, 0, 0)
    BY <2>2, <2>4, <1>2, StandingAtStart
  <2>6. Leading(place, tree2d, nodefilled)'
    BY <2>1, <1>1, <1>5
  <2>7. Standing(place, nodefilled, symbol, bit, treepos)'
    BY <2>2, <2>5, <1>1, <1>5
  <2>8. numcodes \in Nat
    BY <1>2 DEF TreeBasis
  <2>9. InOrder(CodedSet, symbol + 1) = InOrder(CodedSet, symbol)
    BY <2>2, <2>8, <1>3, InOrderNext
  <2> QED BY <2>6, <2>7, <2>9, <1>1, <1>2, <1>7 DEF TreeReads
<1> QED BY <1>1, <1>2, <1>6, <1>7, TreeStepSame

\* A bit of a code goes into the tree.
LEMMA FillTreeStep ==
  ASSUME CodeIInv, FillTree
  PROVE  CodeIInv'
<1>1. UNCHANGED <<freq, maxbitlen, coins, lengths, codes, decodedSymbols, codePc>> /\ codePc = "tree"
  BY DEF FillTree, coinVars
<1>2. TreeBasis /\ TreeGrows /\ decodedSymbols = <<>>
  BY <1>1 DEF CodeIInv, TreeStage
<1>5. /\ \A place, t, k, s, i : TreeShape(place, t, k, s, i)' <=> TreeShape(place, t, k, s, i)
      /\ \A place, k, s, i, pos : Standing(place, k, s, i, pos)' <=> Standing(place, k, s, i, pos)
  BY <1>1, SameTree
<1>6. TreeGrows'
  <2>1. PICK place : TreeShape(place, tree2d, nodefilled, symbol, bit) /\ Standing(place, nodefilled, symbol, bit, treepos)
    BY <1>2 DEF TreeGrows
  <2>2. PICK wider : TreeShape(wider, tree2d', nodefilled', symbol', bit') /\ Standing(wider, nodefilled', symbol', bit', treepos')
    BY <2>1, <1>2, FillTreeKeeps
  <2>3. TreeShape(wider, tree2d, nodefilled, symbol, bit)'
    BY <2>2, <1>5
  <2>4. Standing(wider, nodefilled, symbol, bit, treepos)'
    BY <2>2, <1>5
  <2> QED BY <2>3, <2>4 DEF TreeGrows
<1> QED BY <1>1, <1>2, <1>6, TreeStepSame

\* The tree is finished.
LEMMA TreeDoneStep ==
  ASSUME CodeIInv, TreeDone
  PROVE  CodeIInv'
<1>1. /\ UNCHANGED <<freq, maxbitlen, coins, lengths, codes, nodefilled, decodedSymbols>>
      /\ codePc = "tree" /\ codePc' = "decode" /\ symbol = numcodes /\ symbol' = 0 /\ bit' = 0 /\ treepos' = 0
      /\ tree2d' = [cell \in DOMAIN tree2d |-> IF tree2d[cell] = NotFilled THEN 0 ELSE tree2d[cell]]
  BY DEF TreeDone, coinVars
<1>2. TreeBasis /\ TreeGrows /\ decodedSymbols = <<>>
  BY <1>1 DEF CodeIInv, TreeStage
<1>3. /\ \A place, k, s, i, pos : Standing(place, k, s, i, pos)' <=> Standing(place, k, s, i, pos)
      /\ \A place, t, k : Leading(place, t, k)' <=> Leading(place, t, k)
  BY <1>1, SameTree
<1>4. numcodes \in Nat /\ 0 \in 0..numcodes
  BY <1>2 DEF TreeBasis
<1>5. TreeReads'
  <2>1. PICK place : TreeShape(place, tree2d, nodefilled, symbol, bit) /\ Standing(place, nodefilled, symbol, bit, treepos)
    BY <1>2 DEF TreeGrows
  <2>2. symbol \notin CodedSet
    BY <1>1, <1>4 DEF CodedSet, Symbols
  <2>3. bit = 0
    BY <2>1, <2>2 DEF Standing
  <2>4. TreeShape(place, tree2d, nodefilled, numcodes, 0)
    BY <2>1, <2>3, <1>1
  <2>5. Leading(place, tree2d', nodefilled)
    BY <2>4, <1>1, <1>2, TreeLeads
  <2>6. Labelled(place, nodefilled)
    BY <2>4 DEF TreeShape
  <2>7. Standing(place, nodefilled, 0, 0, 0)
    BY <2>6, <1>2, <1>4, StandingAtStart
  <2>8. Leading(place, tree2d, nodefilled)'
    BY <2>5, <1>1, <1>3
  <2>9. Standing(place, nodefilled, symbol, bit, treepos)'
    BY <2>7, <1>1, <1>3
  <2> QED BY <2>8, <2>9 DEF TreeReads
<1>6. InOrder(CodedSet, 0) = <<>>
  BY <1>4, InOrderSteps
<1>7. decodedSymbols' = InOrder(CodedSet, symbol')
  BY <1>1, <1>2, <1>6
<1> QED BY <1>1, <1>5, <1>7, TreeStepSame

\* A bit is decoded.
LEMMA DecodeBitStep ==
  ASSUME CodeIInv, DecodeBit
  PROVE  CodeIInv'
<1>1. UNCHANGED <<freq, maxbitlen, coins, lengths, codes, tree2d, nodefilled, codePc>> /\ codePc = "decode"
  BY DEF DecodeBit, coinVars
<1>2. TreeBasis /\ TreeReads /\ decodedSymbols = InOrder(CodedSet, symbol)
  BY <1>1 DEF CodeIInv, TreeStage
<1>3. /\ \A place, k, s, i, pos : Standing(place, k, s, i, pos)' <=> Standing(place, k, s, i, pos)
      /\ \A place, t, k : Leading(place, t, k)' <=> Leading(place, t, k)
  BY <1>1, SameTree
<1>4. PICK place : Leading(place, tree2d, nodefilled) /\ Standing(place, nodefilled, symbol, bit, treepos)
  BY <1>2 DEF TreeReads
<1>5. Standing(place, nodefilled', symbol', bit', treepos') /\ decodedSymbols' = InOrder(CodedSet, symbol')
  BY <1>2, <1>4, DecodeBitKeeps
<1>6. Leading(place, tree2d, nodefilled)'
  BY <1>1, <1>3, <1>4
<1>7. Standing(place, nodefilled, symbol, bit, treepos)'
  BY <1>3, <1>5
<1>8. TreeReads'
  BY <1>6, <1>7 DEF TreeReads
<1> QED BY <1>1, <1>5, <1>8, TreeStepSame

\* Everything is decoded.
LEMMA DecodeDoneStep ==
  ASSUME CodeIInv, DecodeDone
  PROVE  CodeIInv'
<1>1. /\ UNCHANGED <<freq, maxbitlen, coins, lengths, codes, decodedSymbols>>
      /\ codePc = "decode" /\ codePc' = "done" /\ symbol = numcodes
  BY DEF DecodeDone, coinVars
<1>2. decodedSymbols = InOrder(CodedSet, symbol)
  BY <1>1 DEF CodeIInv, TreeStage
<1> QED BY <1>1, <1>2, TreeStepSame

\* Nothing happens to the code.
LEMMA CodeStays ==
  ASSUME CodeIInv, UNCHANGED codeVars
  PROVE  CodeIInv'
<1>1. UNCHANGED <<freq, maxbitlen, codePc, coins, rowNumber, gap, swapped, lengths, codes, tree2d, nodefilled, treepos, symbol, bit, decodedSymbols>>
  BY DEF codeVars, coinVars, treeVars
<1>2. /\ numcodes' = numcodes /\ Symbols' = Symbols /\ numpresent' = numpresent /\ (CodeInput' <=> CodeInput)
      /\ (\A lens : IsBest(lens)' <=> IsBest(lens)) /\ \A lens : OneBit(lens)' <=> OneBit(lens)
  BY <1>1, SameCodes
<1>3. CodedSet' = CodedSet
  BY <1>1, SameLengths
<1>4. /\ TreeBasis' <=> TreeBasis
      /\ \A place, t, k, s, i : TreeShape(place, t, k, s, i)' <=> TreeShape(place, t, k, s, i)
      /\ \A place, k, s, i, pos : Standing(place, k, s, i, pos)' <=> Standing(place, k, s, i, pos)
      /\ \A place, t, k : Leading(place, t, k)' <=> Leading(place, t, k)
  BY <1>1, SameTree
<1>5. TreeGrows' <=> TreeGrows
  BY <1>1, <1>4 DEF TreeGrows
<1>6. TreeReads' <=> TreeReads
  BY <1>1, <1>4 DEF TreeReads
<1>7. InOrder(CodedSet, symbol)' = InOrder(CodedSet, symbol) /\ InOrder(CodedSet, numcodes)' = InOrder(CodedSet, numcodes)
  BY <1>1, <1>2, <1>3 DEF InOrder
<1>8. TreeStage'
  BY <1>1, <1>3, <1>4, <1>5, <1>6, <1>7 DEF TreeStage, CodeIInv
<1>9. Untouched' <=> Untouched
  BY <1>1, <1>2 DEF Untouched, NotFilled
<1>10. RowIInv' <=> RowIInv
  <2>1. \A r, e, W : GoodRow(r, e, W)' <=> GoodRow(r, e, W)
    BY <1>1, SameRow
  <2>2. RowDepth(rowNumber)' = RowDepth(rowNumber) /\ (2^rowNumber)' = 2^rowNumber
    BY <1>1 DEF RowDepth
  <2>3. GoodRow(coins, RowDepth(rowNumber), 2^rowNumber)' <=> GoodRow(coins, RowDepth(rowNumber), 2^rowNumber)
    BY <2>1, <2>2, <1>1
  <2>4. Ordered(coins)' <=> Ordered(coins)
    BY <1>1 DEF Ordered
  <2> QED BY <2>3, <2>4, <1>1, <1>2 DEF RowIInv
<1>11. LengthsStage'
  BY <1>1, <1>2, <1>9, <1>10 DEF LengthsStage, CodeIInv
<1> QED BY <1>1, <1>2, <1>8, <1>11 DEF CodeIInv

\* Every step keeps the invariant.
LEMMA CodeNextKeeps ==
  ASSUME CodeIInv, [CodeNext]_codeVars
  PROVE  CodeIInv'
<1>1. CASE CodeNext
  BY <1>1, SingleSymbolKeeps, FirstRowStep, SortPassStep, NextRowStep, CountLengthsStep, NumberCodesStep,
     SkipAbsentStep, FillTreeStep, TreeDoneStep, DecodeBitStep, DecodeDoneStep DEF CodeNext
<1>2. CASE UNCHANGED codeVars
  BY <1>2, CodeStays
<1> QED BY <1>1, <1>2

\* What the invariant says of the two properties.
LEMMA IInvDecodable ==
  ASSUME CodeIInv
  PROVE  CodeIsDecodable
<1>1. /\ freq \in Seq(Nat) /\ Len(coins) <= 2 * numpresent
      /\ codePc \in {"idle", "coins", "sort", "number", "tree", "decode", "done"}
      /\ codePc \in {"idle", "coins", "sort", "number", "tree"} => decodedSymbols = <<>>
      /\ codePc = "decode" => TreeReads /\ decodedSymbols = InOrder(CodedSet, symbol)
      /\ codePc = "done" => decodedSymbols = InOrder(CodedSet, numcodes)
      /\ codePc = "tree" => TreeBasis /\ TreeGrows
  BY DEF CodeIInv, LengthsStage, TreeStage, Untouched
<1>2. numcodes \in Nat
  BY <1>1, PresentIs
<1>3. Coded = InOrder(CodedSet, numcodes)
  BY DEF Coded, CodedSet
<1>4. Coded \in Seq(Nat) /\ Len(Coded) \in Nat
  <2>1. numcodes \in 0..numcodes
    BY <1>2
  <2> QED BY <2>1, <1>2, <1>3, InOrderBegins
<1>5. Len(decodedSymbols) <= Len(Coded) /\ \A i \in 1..Len(decodedSymbols) : decodedSymbols[i] = Coded[i]
  <2>1. CASE decodedSymbols = <<>>
    BY <2>1, <1>4
  <2>2. CASE decodedSymbols = Coded
    BY <2>2, <1>4
  <2>3. CASE codePc = "decode"
    <3>1. symbol \in 0..numcodes
      BY <2>3, <1>1 DEF TreeReads, Standing
    <3>2. /\ Len(InOrder(CodedSet, symbol)) <= Len(InOrder(CodedSet, numcodes))
          /\ \A j \in 1..Len(InOrder(CodedSet, symbol)) : InOrder(CodedSet, symbol)[j] = InOrder(CodedSet, numcodes)[j]
      BY <3>1, <1>2, InOrderBegins
    <3> QED BY <3>2, <2>3, <1>1, <1>3
  <2> QED BY <2>1, <2>2, <2>3, <1>1, <1>3
<1>6. ASSUME codePc = "tree", symbol < numcodes PROVE treepos \in 0..numcodes - 2
  <2>1. PICK place : TreeShape(place, tree2d, nodefilled, symbol, bit) /\ Standing(place, nodefilled, symbol, bit, treepos)
    BY <1>1, <1>6 DEF TreeGrows
  <2>2. nodefilled \in Nat /\ nodefilled <= numcodes - 2
    BY <2>1 DEF TreeShape, Labelled
  <2>3. treepos \in 0..nodefilled
    BY <2>1 DEF Standing
  <2> QED BY <2>2, <2>3, <1>2
<1> QED BY <1>1, <1>3, <1>5, <1>6 DEF CodeIsDecodable

\* The invariant says that the code lengths are best.
LEMMA IInvOptimal ==
  ASSUME CodeIInv
  PROVE  CodeIsOptimal
<1>1. freq \in Seq(Nat) /\ (codePc # "idle" => CodeInput)
  BY DEF CodeIInv
<1>2. CASE codePc = "number" /\ numpresent > 1
  <2>1. IsBest(lengths)
    <3>1. numpresent \in Nat
      BY <1>1, PresentIs
    <3> QED BY <3>1, <1>2 DEF CodeIInv, LengthsStage
  <2>2. maxbitlen \in 0..15
    BY <1>1, <1>2, InputIs DEF CodeInput
  <2> QED BY <2>1, <2>2, <1>1, BestIsOptimal
<1>3. CASE ~(codePc = "number" /\ numpresent > 1)
  BY <1>3 DEF CodeIsOptimal
<1> QED BY <1>2, <1>3

\* Whatever the frequencies, the codes lead the reader back to the symbols they
\* were made for, in a tree of the memory there is for it, and no row of coins
\* outgrows its own.
THEOREM CodesAreDecodable == CodeSpec => []CodeIsDecodable
<1>1. CodeInit => CodeIInv
  BY CodeStartHolds, HuffmanAssumption DEF CodeInit
<1>2. CodeIInv /\ [CodeNext]_codeVars => CodeIInv'
  BY CodeNextKeeps
<1>3. CodeIInv => CodeIsDecodable
  BY IInvDecodable
<1> QED BY <1>1, <1>2, <1>3, PTL DEF CodeSpec

\* Whatever the frequencies, package-merge finds a prefix code of at most
\* maxbitlen bits than which no other is cheaper.
THEOREM CodesAreOptimal == CodeSpec => []CodeIsOptimal
<1>1. CodeInit => CodeIInv
  BY CodeStartHolds, HuffmanAssumption DEF CodeInit
<1>2. CodeIInv /\ [CodeNext]_codeVars => CodeIInv'
  BY CodeNextKeeps
<1>3. CodeIInv => CodeIsOptimal
  BY IInvOptimal
<1> QED BY <1>1, <1>2, <1>3, PTL DEF CodeSpec

=============================================================================
