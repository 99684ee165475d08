---------------------------- MODULE Huffman ----------------------------
(***************************************************************************)
(* The Huffman codes of the PNG writer.  lodepng_huffman_code_lengths      *)
(* finds code lengths of at most maxbitlen bits by the package-merge       *)
(* algorithm: a row of coins, one for each symbol, is sorted by weight,    *)
(* its coins are merged two by two and join a new row of coins, maxbitlen  *)
(* times over; a symbol's code is as long as the number of its coins among *)
(* the lightest numpresent - 1 of the last row.  makeFromLengths2 numbers  *)
(* the codes, make2DTree builds the table huffmanDecodeSymbol walks.       *)
(*                                                                         *)
(* A weight is the frequency itself: the code divides all of them by their *)
(* sum, in single precision, whose rounding is not modelled.               *)
(***************************************************************************)
EXTENDS Integers, Sequences, FiniteSets

CONSTANTS
  CodeInputs    \* [freq, maxbits]: frequencies of the symbols, longest code

NotFilled == 32767

(* No more symbols than the cells of the tree can tell apart (a deflate block
   has 288 of them at most), no code longer than the 15 bits of the format. *)
IsCodeInput(in) ==
  /\ in.freq \in Seq(Nat) /\ Len(in.freq) >= 2 /\ 2 * Len(in.freq) <= NotFilled
  /\ in.maxbits \in 0..15 /\ 2^in.maxbits >= Len(in.freq)

ASSUME HuffmanAssumption == \A in \in CodeInputs : IsCodeInput(in)

VARIABLES
  freq, maxbitlen,   \* in
  codePc,            \* idle, coins, sort, lengths, number, tree, decode or done
  coins,             \* the row of coins: [weight, symbols], how often it has each symbol
  rowNumber,         \* j: how many times the coins have been merged
  gap, swapped,      \* of the comb sort
  lengths,           \* the length of each symbol's code
  codes,             \* tree1d: the code of each symbol
  tree2d,            \* node, bit -> next node (+ numcodes), symbol or NotFilled
  nodefilled, treepos,
  symbol, bit,       \* the symbol and the bit of its code the loop is at
  decodedSymbols            \* what the reader makes of the codes of all symbols

coinVars == <<coins, rowNumber, gap, swapped>>
treeVars == <<tree2d, nodefilled, treepos>>
codeVars == <<freq, maxbitlen, codePc, coinVars, lengths, codes, treeVars, symbol, bit, decodedSymbols>>

numcodes == Len(freq)
Symbols == 0..numcodes - 1
Freq(s) == freq[s + 1]

(* The symbols of a set below n, in their order. *)
InOrder(S, n) ==
  LET list[m \in 0..n] ==
        IF m = 0 THEN <<>> ELSE IF m - 1 \in S THEN Append(list[m - 1], m - 1) ELSE list[m - 1]
  IN  list[n]

PresentSet == {s \in Symbols : Freq(s) > 0}
Present == InOrder(PresentSet, numcodes)
numpresent == Len(Present)

CodeStart(in, pc) ==
  /\ freq = in.freq /\ maxbitlen = in.maxbits
  /\ codePc = pc
  /\ coins = <<>> /\ rowNumber = 0 /\ gap = 0 /\ swapped = FALSE
  /\ lengths = [s \in Symbols |-> 0] /\ codes = [s \in Symbols |-> 0]
  /\ tree2d = [cell \in (0..numcodes - 1) \X (0..1) |-> NotFilled]
  /\ nodefilled = 0 /\ treepos = 0
  /\ symbol = 0 /\ bit = 0 /\ decodedSymbols = <<>>

CodeInit == \E in \in CodeInputs : CodeStart(in, "coins")

-----------------------------------------------------------------------------
(* append_symbol_coins *)
SymbolCoins ==
  [i \in 1..numpresent |->
     [weight |-> Freq(Present[i]), symbols |-> [s \in Symbols |-> IF s = Present[i] THEN 1 ELSE 0]]]

(* Without a choice there is no merging: one symbol, or none, takes one bit. *)
SingleSymbol ==
  /\ codePc = "coins" /\ numpresent <= 1
  /\ lengths' = [lengths EXCEPT ![IF numpresent = 0 THEN 0 ELSE Present[1]] = 1]
  /\ codePc' = "number"
  /\ UNCHANGED <<freq, maxbitlen, coinVars, codes, treeVars, symbol, bit, decodedSymbols>>

StartSort(row) == coins' = row /\ gap' = Len(row) /\ swapped' = FALSE

FirstRow ==
  /\ codePc = "coins" /\ numpresent > 1
  /\ StartSort(SymbolCoins)
  /\ codePc' = "sort"
  /\ UNCHANGED <<freq, maxbitlen, rowNumber, lengths, codes, treeVars, symbol, bit, decodedSymbols>>

(* sort_coins, a comb sort: the gap shrinks by 1.3, 9 and 10 become 11, and it
   is over once a pass with gap 1 has swapped nothing. *)
NextGap ==
  LET g == (gap * 10) \div 13
  IN  CASE g < 1 -> 1 [] g \in {9, 10} -> 11 [] OTHER -> g

Swap(row, i, j) == [row EXCEPT ![i] = row[j], ![j] = row[i]]

(* Mutant: coins of one weight change places too. *)
CombPassOfEquals(row, g) ==
  LET pass[i \in 0..Len(row) - g] ==
        IF i = 0 THEN row
        ELSE LET r == pass[i - 1] IN IF r[i + g].weight <= r[i].weight THEN Swap(r, i, i + g) ELSE r
  IN  pass[Len(row) - g]

(* One pass: coins at a distance of g that are out of order change places. *)
CombPass(row, g) ==
  LET pass[i \in 0..Len(row) - g] ==
        IF i = 0 THEN row
        ELSE LET r == pass[i - 1] IN IF r[i + g].weight < r[i].weight THEN Swap(r, i, i + g) ELSE r
  IN  pass[Len(row) - g]

(* Mutant: the sort is over after the first pass that changes nothing. *)
SortedAfterIdlePass == (gap < Len(coins) \/ gap = 1) /\ ~swapped

Sorted == ~(gap > 1 \/ swapped)

SortPass ==
  /\ codePc = "sort" /\ ~Sorted
  /\ gap' = NextGap
  /\ coins' = CombPass(coins, NextGap)
  /\ swapped' = (coins' # coins)
  /\ UNCHANGED <<freq, maxbitlen, codePc, rowNumber, lengths, codes, treeVars, symbol, bit, decodedSymbols>>

Merged(row) ==
  [i \in 1..Len(row) \div 2 |->
     [weight |-> row[2 * i - 1].weight + row[2 * i].weight,
      symbols |-> [s \in Symbols |-> row[2 * i - 1].symbols[s] + row[2 * i].symbols[s]]]]

(* The next row: the merged coins of this one and, except in the last row, a
   coin for each symbol again. *)
NextRow ==
  /\ codePc = "sort" /\ Sorted /\ rowNumber < maxbitlen
  /\ rowNumber' = rowNumber + 1
  /\ StartSort(Merged(coins) \o IF rowNumber' < maxbitlen THEN SymbolCoins ELSE <<>>)
  /\ UNCHANGED <<freq, maxbitlen, codePc, lengths, codes, treeVars, symbol, bit, decodedSymbols>>

(* f[1] + ... + f[n] *)
Total(f, n) == LET sum[k \in 0..n] == IF k = 0 THEN 0 ELSE sum[k - 1] + f[k] IN sum[n]

(* How many coins of the symbol there are among the first n of the row. *)
CoinsOf(s, row, n) == Total([i \in 1..n |-> row[i].symbols[s]], n)

CountLengths ==
  /\ codePc = "sort" /\ Sorted /\ rowNumber = maxbitlen
  /\ lengths' = [s \in Symbols |-> CoinsOf(s, coins, numpresent - 1)]
  /\ codePc' = "number"
  /\ UNCHANGED <<freq, maxbitlen, coinVars, codes, treeVars, symbol, bit, decodedSymbols>>

-----------------------------------------------------------------------------
(* makeFromLengths2: the shorter codes come first, codes of one length in the
   order of their symbols. *)
BlCount(b) == Cardinality({s \in Symbols : lengths[s] = b})

(* Mutant: the codes of the next length do not get a bit more. *)
FirstCodeUnshifted ==
  LET next[b \in 0..maxbitlen] == IF b = 0 THEN 0 ELSE next[b - 1] + BlCount(b - 1) IN next

FirstCode ==
  LET next[b \in 0..maxbitlen] == IF b = 0 THEN 0 ELSE (next[b - 1] + BlCount(b - 1)) * 2 IN next

SameLengthBefore(s) == Cardinality({t \in 0..s - 1 : lengths[t] = lengths[s]})

(* blcount counts the symbols without a code too, but nextcode[1] is made from
   it: (0 + blcount[0]) << 1 in the code.  Hence the codes of a tree in which
   some symbol is absent start above 0, and only their low bits are used. *)
NumberCodes ==
  /\ codePc = "number"
  /\ codes' = [s \in Symbols |-> IF lengths[s] = 0 THEN 0 ELSE FirstCode[lengths[s]] + SameLengthBefore(s)]
  /\ codePc' = "tree" /\ symbol' = 0 /\ bit' = 0
  /\ UNCHANGED <<freq, maxbitlen, coinVars, lengths, treeVars, decodedSymbols>>

(* The bits of a code go out from the highest of its length. *)
CodeBit(s, i) == (codes[s] \div 2^(lengths[s] - i - 1)) % 2

LastBit == bit + 1 = lengths[symbol]
Advance == IF LastBit THEN symbol' = symbol + 1 /\ bit' = 0 ELSE symbol' = symbol /\ bit' = bit + 1

SkipAbsent ==
  /\ codePc \in {"tree", "decode"} /\ symbol < numcodes /\ lengths[symbol] = 0
  /\ symbol' = symbol + 1
  /\ UNCHANGED <<freq, maxbitlen, codePc, coinVars, lengths, codes, treeVars, bit, decodedSymbols>>

(* make2DTree, a bit of a code at a time.  treepos is unsigned: what is below
   0 here is above numcodes - 2 there, error 55. *)
FillTree ==
  /\ codePc = "tree" /\ symbol < numcodes /\ bit < lengths[symbol]
  /\ treepos \in 0..numcodes - 2
  /\ LET cell == <<treepos, CodeBit(symbol, bit)>>
     IN  IF tree2d[cell] = NotFilled
         THEN IF LastBit
              THEN /\ tree2d' = [tree2d EXCEPT ![cell] = symbol]
                   /\ treepos' = 0 /\ nodefilled' = nodefilled
              ELSE /\ tree2d' = [tree2d EXCEPT ![cell] = nodefilled + 1 + numcodes]
                   /\ nodefilled' = nodefilled + 1 /\ treepos' = nodefilled + 1
         ELSE /\ treepos' = tree2d[cell] - numcodes
              /\ UNCHANGED <<tree2d, nodefilled>>
  /\ Advance
  /\ UNCHANGED <<freq, maxbitlen, codePc, coinVars, lengths, codes, decodedSymbols>>

TreeDone ==
  /\ codePc = "tree" /\ symbol = numcodes
  /\ tree2d' = [cell \in DOMAIN tree2d |-> IF tree2d[cell] = NotFilled THEN 0 ELSE tree2d[cell]]
  /\ treepos' = 0
  /\ codePc' = "decode" /\ symbol' = 0 /\ bit' = 0
  /\ UNCHANGED <<freq, maxbitlen, coinVars, lengths, codes, nodefilled, decodedSymbols>>

(* huffmanDecodeSymbol reads the codes of all symbols, one after the other. *)
DecodeBit ==
  /\ codePc = "decode" /\ symbol < numcodes /\ bit < lengths[symbol]
  /\ treepos < numcodes
  /\ LET ct == tree2d[<<treepos, CodeBit(symbol, bit)>>]
     IN  IF ct < numcodes
         THEN decodedSymbols' = Append(decodedSymbols, ct) /\ treepos' = 0
         ELSE decodedSymbols' = decodedSymbols /\ treepos' = ct - numcodes
  /\ Advance
  /\ UNCHANGED <<freq, maxbitlen, codePc, coinVars, lengths, codes, tree2d, nodefilled>>

DecodeDone ==
  /\ codePc = "decode" /\ symbol = numcodes
  /\ codePc' = "done"
  /\ UNCHANGED <<freq, maxbitlen, coinVars, lengths, codes, treeVars, symbol, bit, decodedSymbols>>

CodeNext ==
  \/ SingleSymbol \/ FirstRow \/ SortPass \/ NextRow \/ CountLengths
  \/ NumberCodes \/ SkipAbsent \/ FillTree \/ TreeDone \/ DecodeBit \/ DecodeDone
CodeSpec == CodeInit /\ [][CodeNext]_codeVars

-----------------------------------------------------------------------------
Coded == InOrder({s \in Symbols : lengths[s] > 0}, numcodes)

(* What the reader makes of the codes is the symbols they were made for, in
   their order; no row of coins outgrows its 2 * numpresent, and no path of
   the tree the numcodes - 1 nodes there is memory for (error 55). *)
CodeIsDecodable ==
  /\ Len(decodedSymbols) <= Len(Coded) /\ \A i \in 1..Len(decodedSymbols) : decodedSymbols[i] = Coded[i]
  /\ codePc = "done" => decodedSymbols = Coded
  /\ Len(coins) <= 2 * numpresent
  /\ codePc = "tree" /\ symbol < numcodes => treepos \in 0..numcodes - 2

SumOver(f) == Total([k \in 1..numcodes |-> IF k - 1 \in DOMAIN f THEN f[k - 1] ELSE 0], numcodes)
Cost(lens) == SumOver([s \in PresentSet |-> Freq(s) * lens[s]])
IsPrefixCode(lens) == SumOver([s \in PresentSet |-> 2^(maxbitlen - lens[s])]) <= 2^maxbitlen

(* Package-merge finds, among all codes of at most maxbitlen bits, one that
   makes the text shortest: it is a prefix code (Kraft), it gives every symbol
   that occurs a code and no other one, and no prefix code has a lower cost. *)
CodeIsOptimal ==
  codePc = "number" /\ numpresent > 1 =>
    /\ \A s \in Symbols : IF s \in PresentSet THEN lengths[s] \in 1..maxbitlen ELSE lengths[s] = 0
    /\ IsPrefixCode(lengths)
    /\ \A lens \in [PresentSet -> 1..maxbitlen] : IsPrefixCode(lens) => Cost(lengths) <= Cost(lens)
=============================================================================
