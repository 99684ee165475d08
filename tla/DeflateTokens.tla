------------------------- MODULE DeflateTokens -------------------------
(***************************************************************************)
(* How the literals and matches the PNG writer has found (module Lz77)     *)
(* become the symbols and bits of its deflate blocks, and come back.       *)
(* addLengthDistance looks a match up in the tables of deflate and leaves  *)
(* four values in lz77_encoded; deflateDynamic counts the symbols, for     *)
(* their codes are made from these counts, and writeLZ77data writes them.  *)
(* lodepng_inflatev and inflateHuffmanBlock read block after block.        *)
(*                                                                         *)
(* The stream holds the bits of the plain fields and, in place of those of *)
(* a Huffman code, the symbol (module Huffman); the codes' own description *)
(* is in module CodeLengths.                                               *)
(***************************************************************************)
EXTENDS Integers, Sequences

(* A literal is a byte, a match is <<length, distance>>. *)
CONSTANTS
  BlockInputs    \* the blocks of a file: sequences of sequences of tokens

Distances == 1..32768
Match == (3..258) \X Distances
Literal == {<<b>> : b \in 0..255}
IsLiteral(t) == t \in Literal

ASSUME TokenAssumption ==
  \A in \in BlockInputs : Len(in) >= 1 /\ in \in Seq(Seq(Match \cup Literal))

VARIABLES
  blocks,        \* in: the tokens of each block
  tokenPc,       \* idle, encode, count, write, blockhead, symbols or done
  blockNo,       \* i of lodepng_deflatev
  index,         \* the place in the tokens, or in lz77_encoded
  lz77_encoded,  \* the values of the block
  frequencies,   \* <<tree, symbol>>s that have been counted
  stream,        \* what is in the file: <<"bit", b>>s and <<tree, symbol>>s
  bp,            \* how much of it the reader has read
  bfinal,        \* its BFINAL
  outTokens,     \* what it has found in the blocks
  inflateError   \* its error code

tokenVars == <<blocks, tokenPc, blockNo, index, lz77_encoded, frequencies, stream, bp, bfinal, outTokens, inflateError>>

LENGTHBASE == <<3, 4, 5, 6, 7, 8, 9, 10, 11, 13, 15, 17, 19, 23, 27, 31, 35, 43, 51, 59,
                67, 83, 99, 115, 131, 163, 195, 227, 258>>
LENGTHEXTRA == <<0, 0, 0, 0, 0, 0, 0, 0, 1, 1, 1, 1, 2, 2, 2, 2, 3, 3, 3, 3,
                 4, 4, 4, 4, 5, 5, 5, 5, 0>>
DISTANCEBASE == <<1, 2, 3, 4, 5, 7, 9, 13, 17, 25, 33, 49, 65, 97, 129, 193, 257, 385, 513,
                  769, 1025, 1537, 2049, 3073, 4097, 6145, 8193, 12289, 16385, 24577>>
DISTANCEEXTRA == <<0, 0, 0, 0, 1, 1, 2, 2, 3, 3, 4, 4, 5, 5, 6, 6, 7, 7, 8,
                   8, 9, 9, 10, 10, 11, 11, 12, 12, 13, 13>>
EndSymbol == 256
FirstLengthCode == 257

TokenStart(bs, pc) ==
  /\ blocks = bs
  /\ tokenPc = pc /\ blockNo = 1 /\ index = 0
  /\ lz77_encoded = <<>> /\ frequencies = {} /\ stream = <<>>
  /\ bp = 0 /\ bfinal = 0 /\ outTokens = <<>> /\ inflateError = 0

TokenInit == \E bs \in BlockInputs : TokenStart(bs, "encode")

(* searchCodeIndex: a binary search for the last entry that is not larger. *)
SearchCodeIndex(array, value) ==
  LET n == Len(array)
      search[lr \in (1..n) \X (0..n - 1)] ==
        LET left == lr[1]
            right == lr[2]
            mid == (left + right) \div 2
        IN  IF left > right THEN n - 1
            ELSE IF array[mid + 1] <= value THEN search[<<mid + 1, right>>]
            ELSE IF array[mid] > value THEN search[<<left, mid - 1>>]
            ELSE mid - 1
  IN  search[<<1, n - 1>>]

(* addLengthDistance *)
LengthDistance(length, distance) ==
  LET l == SearchCodeIndex(LENGTHBASE, length)
      d == SearchCodeIndex(DISTANCEBASE, distance)
  IN  <<l + FirstLengthCode, length - LENGTHBASE[l + 1], d, distance - DISTANCEBASE[d + 1]>>

Tokens == blocks[blockNo]

EncodeToken ==
  /\ tokenPc = "encode" /\ index < Len(Tokens)
  /\ LET t == Tokens[index + 1]
     IN  lz77_encoded' = lz77_encoded \o IF IsLiteral(t) THEN t ELSE LengthDistance(t[1], t[2])
  /\ index' = index + 1
  /\ UNCHANGED <<blocks, tokenPc, blockNo, frequencies, stream, bp, bfinal, outTokens, inflateError>>

EncodeDone ==
  /\ tokenPc = "encode" /\ index = Len(Tokens)
  /\ frequencies' = {<<"ll", EndSymbol>>}
  /\ tokenPc' = "count" /\ index' = 0
  /\ UNCHANGED <<blocks, blockNo, lz77_encoded, stream, bp, bfinal, outTokens, inflateError>>

(* The value at index, and those that come after it for a match. *)
Value(k) == lz77_encoded[index + 1 + k]
IsLength(symbol) == symbol > EndSymbol

CountSymbol ==
  /\ tokenPc = "count" /\ index < Len(lz77_encoded)
  /\ frequencies' = frequencies \cup {<<"ll", Value(0)>>}
       \cup IF IsLength(Value(0)) THEN {<<"d", Value(2)>>} ELSE {}
  /\ index' = index + IF IsLength(Value(0)) THEN 4 ELSE 1
  /\ UNCHANGED <<blocks, tokenPc, blockNo, lz77_encoded, stream, bp, bfinal, outTokens, inflateError>>

-----------------------------------------------------------------------------
(* addBitsToStream: the lowest bit first. *)
Bit(b) == <<"bit", b>>
Bits(value, n) == [i \in 1..n |-> Bit((value \div 2^(i - 1)) % 2)]

BitFinal == IF blockNo = Len(blocks) THEN 1 ELSE 0

(* The first bit says whether it is the last block, then its type, 2. *)
WriteBlockHead ==
  /\ tokenPc = "count" /\ index = Len(lz77_encoded)
  /\ stream' = stream \o <<Bit(BitFinal), Bit(0), Bit(1)>>
  /\ tokenPc' = "write" /\ index' = 0
  /\ UNCHANGED <<blocks, blockNo, lz77_encoded, frequencies, bp, bfinal, outTokens, inflateError>>

(* writeLZ77data: a length symbol, its extra bits, a distance symbol, its. *)
WriteSymbol ==
  /\ tokenPc = "write" /\ index < Len(lz77_encoded)
  /\ LET match == Bits(Value(1), LENGTHEXTRA[Value(0) - FirstLengthCode + 1])
                    \o <<<<"d", Value(2)>>>> \o Bits(Value(3), DISTANCEEXTRA[Value(2) + 1])
     IN  stream' = Append(stream, <<"ll", Value(0)>>) \o IF IsLength(Value(0)) THEN match ELSE <<>>
  /\ index' = index + IF IsLength(Value(0)) THEN 4 ELSE 1
  /\ UNCHANGED <<blocks, tokenPc, blockNo, lz77_encoded, frequencies, bp, bfinal, outTokens, inflateError>>

(* After the end code the next block, or the reader. *)
WriteEnd ==
  /\ tokenPc = "write" /\ index = Len(lz77_encoded)
  /\ stream' = Append(stream, <<"ll", EndSymbol>>)
  /\ IF blockNo < Len(blocks)
     THEN blockNo' = blockNo + 1 /\ tokenPc' = "encode"
     ELSE blockNo' = blockNo /\ tokenPc' = "blockhead"
  /\ lz77_encoded' = <<>> /\ index' = 0
  /\ UNCHANGED <<blocks, frequencies, bp, bfinal, outTokens, inflateError>>

-----------------------------------------------------------------------------
(* The field of n bits at place p, if there is one: what is read from the
   middle of a code would be another value, and is none here. *)
IsField(p, n) == p + n <= Len(stream) /\ \A i \in 1..n : stream[p + i][1] = "bit"
ReadBits(p, n) ==
  LET value[i \in 0..n] == IF i = 0 THEN 0 ELSE value[i - 1] + stream[p + i][2] * 2^(i - 1) IN value[n]

(* The blocks of the types 0 and 1, which the writer never chooses, are not
   modelled: only type 3 is an error in the code. *)
DynamicType == 2

ReadBlockHead ==
  /\ tokenPc = "blockhead" /\ bfinal = 0
  /\ IF ~IsField(bp, 3)
     THEN bfinal' = 0 /\ tokenPc' = "done" /\ inflateError' = 52
     ELSE /\ bfinal' = ReadBits(bp, 1)
          /\ IF ReadBits(bp + 1, 2) = DynamicType
             THEN tokenPc' = "symbols" /\ UNCHANGED inflateError
             ELSE tokenPc' = "done" /\ inflateError' = 20
  /\ bp' = bp + 3
  /\ UNCHANGED <<blocks, blockNo, index, lz77_encoded, frequencies, stream, outTokens>>

InflateDone ==
  /\ tokenPc = "blockhead" /\ bfinal = 1
  /\ tokenPc' = "done"
  /\ UNCHANGED <<blocks, blockNo, index, lz77_encoded, frequencies, stream, bp, bfinal, outTokens, inflateError>>

IsSymbol(p, tree) == p < Len(stream) /\ stream[p + 1][1] = tree
SymbolAt(p) == stream[p + 1][2]
Fail(code) == inflateError' = code /\ tokenPc' = "done" /\ UNCHANGED <<bp, outTokens>>

ReadLiteral ==
  /\ SymbolAt(bp) < EndSymbol
  /\ outTokens' = Append(outTokens, <<SymbolAt(bp)>>)
  /\ bp' = bp + 1
  /\ UNCHANGED <<tokenPc, inflateError>>

ReadMatch ==
  /\ IsLength(SymbolAt(bp))
  /\ LET code_ll == SymbolAt(bp) - FirstLengthCode
         extra_l == LENGTHEXTRA[code_ll + 1]
         at_d == bp + 1 + extra_l
         code_d == SymbolAt(at_d)
         extra_d == DISTANCEEXTRA[code_d + 1]
     IN  IF ~(IsField(bp + 1, extra_l) /\ IsSymbol(at_d, "d")) THEN Fail(18)
         ELSE IF ~IsField(at_d + 1, extra_d) THEN Fail(51)
         ELSE /\ outTokens' = Append(outTokens,
                   <<LENGTHBASE[code_ll + 1] + ReadBits(bp + 1, extra_l),
                     DISTANCEBASE[code_d + 1] + ReadBits(at_d + 1, extra_d)>>)
              /\ bp' = at_d + 1 + extra_d
              /\ UNCHANGED <<tokenPc, inflateError>>

ReadEnd ==
  /\ SymbolAt(bp) = EndSymbol
  /\ bp' = bp + 1 /\ tokenPc' = "blockhead"
  /\ UNCHANGED <<outTokens, inflateError>>

ReadSymbol ==
  /\ tokenPc = "symbols"
  /\ IF IsSymbol(bp, "ll") THEN ReadLiteral \/ ReadMatch \/ ReadEnd ELSE Fail(11)
  /\ UNCHANGED <<blocks, blockNo, index, lz77_encoded, frequencies, stream, bfinal>>

TokenNext ==
  \/ EncodeToken \/ EncodeDone \/ CountSymbol \/ WriteBlockHead \/ WriteSymbol \/ WriteEnd
  \/ ReadBlockHead \/ InflateDone \/ ReadSymbol
TokenSpec == TokenInit /\ [][TokenNext]_tokenVars

-----------------------------------------------------------------------------
AllTokens == LET all[k \in 0..Len(blocks)] == IF k = 0 THEN <<>> ELSE all[k - 1] \o blocks[k] IN all[Len(blocks)]

(* The reader finds the tokens of all blocks and nothing else: no length or
   distance falls into a gap of the tables, no extra bit is lost, it stops at
   the last block and not before; and no symbol is written that was not
   counted, for it would have no code. *)
TokensReadBack ==
  /\ inflateError = 0
  /\ Len(outTokens) <= Len(AllTokens) /\ \A i \in 1..Len(outTokens) : outTokens[i] = AllTokens[i]
  /\ tokenPc = "done" => outTokens = AllTokens /\ bp = Len(stream)
  /\ tokenPc = "write" /\ index < Len(lz77_encoded) =>
       /\ <<"ll", Value(0)>> \in frequencies
       /\ IsLength(Value(0)) => <<"d", Value(2)>> \in frequencies
=============================================================================
