-------------------------- MODULE CodeLengths --------------------------
(***************************************************************************)
(* How a block of the PNG file describes its own Huffman codes.            *)
(* deflateDynamic strings the lengths of the literal and of the distance   *)
(* codes together, shortens their runs with the repeat codes 16, 17 and    *)
(* 18, codes the result with a third Huffman code and writes the lengths   *)
(* of that one, in the order CLCL_ORDER and without the zeros at the end,  *)
(* in front.  getTreeInflateDynamic undoes all of it.                      *)
(*                                                                         *)
(* The bits between the two are left to the modules Huffman and            *)
(* DeflateTokens: here the stream is the sequence of values written, each  *)
(* cut to the number of bits it is written with.                           *)
(***************************************************************************)
EXTENDS Integers, Sequences

CONSTANTS
  LengthInputs    \* the lengths of the 286 literal and the 30 distance codes

NumLl == 286
NumD == 30
EndCode == 256

ASSUME LengthAssumption ==
  \A in \in LengthInputs : in \in Seq(0..15) /\ Len(in) = NumLl + NumD /\ in[EndCode + 1] > 0

VARIABLES
  bitlen_lld,    \* in: the lengths, literals first
  lensPc,        \* idle, encode, write, head, read or done
  lenPos,        \* i: how many lengths are encoded
  bitlen_lld_e,  \* them with repeat codes: <<code, repetitions>>
  treeClLengths, \* tree_cl: code -> the length of its own code
  header,        \* HLIT, HDIST, HCLEN and the bitlen_cl as they are in the file
  readCl,        \* the reader's bitlen_cl
  readPos,       \* how many of bitlen_lld_e it has read
  restored,      \* its bitlen_ll and bitlen_d, one after the other
  readError      \* its error code, 0 if there is none

lensVars == <<bitlen_lld, lensPc, lenPos, bitlen_lld_e, treeClLengths, header, readCl, readPos, restored, readError>>

CLCL_ORDER == <<16, 17, 18, 0, 8, 7, 9, 6, 10, 5, 11, 4, 12, 3, 13, 2, 14, 1, 15>>
ClCodes == 0..18
NoHeader == [hlit |-> 0, hdist |-> 0, hclen |-> 0, clcl |-> <<>>]

LensStart(lens, pc) ==
  /\ bitlen_lld = lens
  /\ lensPc = pc /\ lenPos = 0
  /\ bitlen_lld_e = <<>>
  /\ treeClLengths = [c \in ClCodes |-> 0] /\ header = NoHeader
  /\ readCl = [c \in ClCodes |-> 0] /\ readPos = 0 /\ restored = <<>> /\ readError = 0

LensInit == \E lens \in LengthInputs : LensStart(lens, "encode")

-----------------------------------------------------------------------------
(* j: how many of the lengths after this one are the same.  The loop stops at
   the first that is not. *)
IsRepeated(j) == bitlen_lld[lenPos + j + 2] = bitlen_lld[lenPos + 1]
Repetitions ==
  CHOOSE j \in 0..Len(bitlen_lld) - lenPos - 1 :
    /\ j < Len(bitlen_lld) - lenPos - 1 => ~IsRepeated(j)
    /\ \A k \in 0..j - 1 : IsRepeated(k)

Encoding == lensPc = "encode" /\ lenPos < Len(bitlen_lld)
IsZeroRun(j) == bitlen_lld[lenPos + 1] = 0 /\ j >= 2

EncodeZeros ==
  /\ Encoding
  /\ LET j == Repetitions
         zeros == IF j + 1 > 138 THEN 138 ELSE j + 1
     IN  /\ IsZeroRun(j)
         /\ bitlen_lld_e' = Append(bitlen_lld_e, IF zeros <= 10 THEN <<17, zeros - 3>> ELSE <<18, zeros - 11>>)
         /\ lenPos' = lenPos + zeros
  /\ UNCHANGED <<bitlen_lld, lensPc, treeClLengths, header, readCl, readPos, restored, readError>>

(* Mutant: a rest of one or two is skipped. *)
EncodeRepeatsOnly ==
  /\ Encoding
  /\ LET j == Repetitions
         rest == j % 6
         sixes == [k \in 1..j \div 6 |-> <<16, 3>>]
     IN  /\ ~IsZeroRun(j) /\ j >= 3
         /\ bitlen_lld_e' = Append(bitlen_lld_e, <<bitlen_lld[lenPos + 1], 0>>) \o sixes
                              \o (IF rest >= 3 THEN <<<<16, rest - 3>>>> ELSE <<>>)
         /\ lenPos' = lenPos + 1 + j
  /\ UNCHANGED <<bitlen_lld, lensPc, treeClLengths, header, readCl, readPos, restored, readError>>

(* The length itself, then repetitions of it by sixes; a rest of one or two is
   left for the next turn. *)
EncodeRepeats ==
  /\ Encoding
  /\ LET j == Repetitions
         rest == j % 6
         sixes == [k \in 1..j \div 6 |-> <<16, 3>>]
     IN  /\ ~IsZeroRun(j) /\ j >= 3
         /\ bitlen_lld_e' = Append(bitlen_lld_e, <<bitlen_lld[lenPos + 1], 0>>) \o sixes
                              \o (IF rest >= 3 THEN <<<<16, rest - 3>>>> ELSE <<>>)
         /\ lenPos' = lenPos + 1 + IF rest >= 3 THEN j ELSE j - rest
  /\ UNCHANGED <<bitlen_lld, lensPc, treeClLengths, header, readCl, readPos, restored, readError>>

EncodeOne ==
  /\ Encoding
  /\ ~IsZeroRun(Repetitions) /\ Repetitions < 3
  /\ bitlen_lld_e' = Append(bitlen_lld_e, <<bitlen_lld[lenPos + 1], 0>>)
  /\ lenPos' = lenPos + 1
  /\ UNCHANGED <<bitlen_lld, lensPc, treeClLengths, header, readCl, readPos, restored, readError>>

(* tree_cl, made from frequencies_cl: a code that occurs has a length of 1 to
   7 (module Huffman); which one is data, and all have the same here. *)
MakeClTree ==
  /\ lensPc = "encode" /\ lenPos >= Len(bitlen_lld)
  /\ \E n \in {5, 7} : treeClLengths' =
       [c \in ClCodes |-> IF \E k \in 1..Len(bitlen_lld_e) : bitlen_lld_e[k][1] = c THEN n ELSE 0]
  /\ lensPc' = "write"
  /\ UNCHANGED <<bitlen_lld, lenPos, bitlen_lld_e, header, readCl, readPos, restored, readError>>

(* bitlen_cl without the zeros at its end, but no shorter than 4. *)
AllCl == [k \in 1..Len(CLCL_ORDER) |-> treeClLengths[CLCL_ORDER[k]]]
BitlenCl ==
  SubSeq(AllCl, 1, CHOOSE n \in 4..Len(AllCl) :
                     /\ n > 4 => AllCl[n] # 0
                     /\ \A k \in n + 1..Len(AllCl) : AllCl[k] = 0)

(* HLIT, HDIST and HCLEN take 5, 5 and 4 bits, each of bitlen_cl takes 3. *)
WriteHeader ==
  /\ lensPc = "write"
  /\ header' = [hlit  |-> (NumLl - 257) % 2^5,
                hdist |-> (NumD - 1) % 2^5,
                hclen |-> (Len(BitlenCl) - 4) % 2^4,
                clcl  |-> [k \in 1..Len(BitlenCl) |-> BitlenCl[k] % 2^3]]
  /\ lensPc' = "head"
  /\ UNCHANGED <<bitlen_lld, lenPos, bitlen_lld_e, treeClLengths, readCl, readPos, restored, readError>>

-----------------------------------------------------------------------------
(* getTreeInflateDynamic *)
Hlit == header.hlit + 257
Hdist == header.hdist + 1
Hclen == header.hclen + 4

ReadHeader ==
  /\ lensPc = "head"
  /\ readCl' = [c \in ClCodes |->
       IF \E k \in 1..Hclen : CLCL_ORDER[k] = c
       THEN header.clcl[CHOOSE k \in 1..Hclen : CLCL_ORDER[k] = c] ELSE 0]
  /\ lensPc' = "read"
  /\ UNCHANGED <<bitlen_lld, lenPos, bitlen_lld_e, treeClLengths, header, readPos, restored, readError>>

Code == bitlen_lld_e[readPos + 1][1]
Reading == lensPc = "read" /\ readError = 0 /\ Len(restored) < Hlit + Hdist

(* The repetitions a code is written with take 2, 3 or 7 bits. *)
RepeatBits(c) == CASE c = 16 -> 2 [] c = 17 -> 3 [] OTHER -> 7
ReplengthBase(c) == IF c = 18 THEN 11 ELSE 3
Replength == ReplengthBase(Code) + (bitlen_lld_e[readPos + 1][2] % 2^RepeatBits(Code))
TooMany == CASE Code = 16 -> 13 [] Code = 17 -> 14 [] OTHER -> 15

(* The symbols decode to themselves when the reader has the writer's tree_cl,
   see LengthsRestored. *)
ReadLength ==
  /\ Reading /\ Code <= 15
  /\ restored' = Append(restored, Code)
  /\ readPos' = readPos + 1
  /\ UNCHANGED <<bitlen_lld, lensPc, lenPos, bitlen_lld_e, treeClLengths, header, readCl, readError>>

(* Code 16 repeats the length before it, also over the border between the
   literal and the distance codes; 17 and 18 repeat a zero. *)
ReadRepeat ==
  /\ Reading /\ Code >= 16
  /\ LET i == Len(restored)
         room == Hlit + Hdist - i
         n == IF Replength <= room THEN Replength ELSE room
     IN  IF Code = 16 /\ i = 0
         THEN readError' = 54 /\ UNCHANGED restored
         ELSE /\ restored' = restored \o [k \in 1..n |-> IF Code = 16 THEN restored[i] ELSE 0]
              /\ readError' = IF Replength <= room THEN 0 ELSE TooMany
  /\ readPos' = readPos + 1
  /\ UNCHANGED <<bitlen_lld, lensPc, lenPos, bitlen_lld_e, treeClLengths, header, readCl>>

ReadDone ==
  /\ lensPc = "read" /\ (readError # 0 \/ Len(restored) >= Hlit + Hdist)
  /\ readError' = IF readError = 0 /\ restored[EndCode + 1] = 0 THEN 64 ELSE readError
  /\ lensPc' = "done"
  /\ UNCHANGED <<bitlen_lld, lenPos, bitlen_lld_e, treeClLengths, header, readCl, readPos, restored>>

LensNext ==
  \/ EncodeZeros \/ EncodeRepeats \/ EncodeOne \/ MakeClTree \/ WriteHeader
  \/ ReadHeader \/ ReadLength \/ ReadRepeat \/ ReadDone
LensSpec == LensInit /\ [][LensNext]_lensVars

-----------------------------------------------------------------------------
(* The reader of a block gets the very lengths its codes were made with, all
   of them and from all that was written, whatever runs there are among them
   and wherever these begin and end. *)
LengthsRestored ==
  /\ readError = 0
  /\ lensPc \in {"read", "done"} => readCl = treeClLengths
  /\ \A i \in 1..Len(restored) : restored[i] = bitlen_lld[i]
  /\ lensPc = "done" => restored = bitlen_lld /\ readPos = Len(bitlen_lld_e) /\ Hlit = NumLl
=============================================================================
