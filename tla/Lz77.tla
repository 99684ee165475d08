---------------------------- MODULE Lz77 ----------------------------
(***************************************************************************)
(* How lodepng (src/RayTracer/src/lodepng.cpp), the library Scene.cpp      *)
(* saves its picture with, finds the repetitions in the bytes it deflates. *)
(* encodeLZ77 keeps, for each hash of the next bytes, a chain of the       *)
(* places of a circular window where that hash was seen, walks the chain   *)
(* for the longest match, and puts a match off for one byte to see whether *)
(* the next byte has a longer one (lazy matching).  A token goes out in    *)
(* some of the steps; inflateHuffmanBlock, which reads it back, is run in  *)
(* lockstep, so that `inflated' is what a reader of the file has so far.   *)
(*                                                                         *)
(* Left out: the short cut for runs of zeros, which needs a window of 8192 *)
(* or more (lodepng_default_compress_settings has 2048), and hash.val,     *)
(* which only that short cut reads.                                        *)
(***************************************************************************)
EXTENDS Integers, Sequences

CONSTANTS
  Byte,          \* the values of a byte
  LzInputs,      \* the sequences of bytes to deflate
  WindowSize,    \* settings.windowsize (2048)
  BlockSize,     \* bytes of one deflate block (65535 or more)
  MaxMatch,      \* MAX_SUPPORTED_DEFLATE_LENGTH (258)
  FarDistance,   \* a match of 3 bytes is not worth a distance above it (2048)
  ChainShare,    \* the search looks at WindowSize \div ChainShare places (8)
  HashValues,    \* what a hash can be
  HashStep(_, _, _)  \* a hash into which byte b, at place i, is mixed

ASSUME LzAssumption ==
  /\ LzInputs \subseteq Seq(Byte)
  /\ WindowSize \in Nat \ {0}
  /\ BlockSize \in Nat \ {0}
  /\ MaxMatch \in Nat /\ MaxMatch >= 3
  /\ FarDistance \in Nat
  /\ ChainShare \in Nat \ {0}
  /\ 0 \in HashValues
  /\ \A h \in HashValues, b \in Byte, i \in 0..2 : HashStep(h, b, i) \in HashValues

VARIABLES
  data,          \* in: the bytes to deflate
  lzPc,          \* idle, scan, search, compare, decide, emit, insert or done
  pos,           \* the place in the input, from 0
  blockEnd,      \* insize: where the block ends
  head,          \* hash -> newest place in the window, -1 when there is none
  chain,         \* place in the window -> the place before it of that hash
  prevpos, hashpos,         \* two neighbours of the chain that is walked
  maxchainlength,           \* places that may still be looked at
  matched,                  \* foreptr - &in[pos]: bytes that agree so far
  length, offset,           \* the best match found at pos
  lazy, lazylength, lazyoffset,   \* the match put off at pos - 1
  left,          \* bytes of a match that still have to enter the chains
  inflated       \* what the reader of the file has

searchVars == <<prevpos, hashpos, maxchainlength, matched>>
lazyVars == <<lazy, lazylength, lazyoffset>>
lzVars == <<data, lzPc, pos, blockEnd, head, chain, searchVars, length, offset, lazyVars, left, inflated>>

Lower(a, b) == IF a <= b THEN a ELSE b

In(i) == data[i + 1]
Window(p) == p % WindowSize

(* getHash: of three bytes, or of what is left before the end of the block. *)
Mixed(h, p, i) == IF p + i < blockEnd THEN HashStep(h, In(p + i), i) ELSE h
HashAt(p) == Mixed(Mixed(Mixed(0, p, 0), p, 1), p, 2)

(* updateHashChain: the place p becomes the newest of its hash.  Without an
   older one the link of p stays as an earlier turn of the window left it. *)
UpdateHashChain(p) ==
  LET h == HashAt(p)
  IN  /\ head' = [head EXCEPT ![h] = Window(p)]
      /\ chain' = [chain EXCEPT ![Window(p)] = IF head[h] = -1 THEN @ ELSE head[h]]

-----------------------------------------------------------------------------
(* lodepng_deflatev: hash_init, and the first block. *)
LzStart(bytes, pc) ==
  /\ data = bytes
  /\ lzPc = pc /\ pos = 0 /\ blockEnd = Lower(BlockSize, Len(data))
  /\ head = [h \in HashValues |-> -1]
  /\ chain = [i \in 0..WindowSize - 1 |-> i]
  /\ prevpos = 0 /\ hashpos = 0 /\ maxchainlength = 0 /\ matched = 0
  /\ length = 0 /\ offset = 0
  /\ lazy = FALSE /\ lazylength = 0 /\ lazyoffset = 0
  /\ left = 0
  /\ inflated = <<>>

LzInit == \E bytes \in LzInputs : LzStart(bytes, "scan")

(* The next byte of the block: it enters its chain, the search begins. *)
StartSearch ==
  /\ lzPc = "scan" /\ pos < blockEnd
  /\ UpdateHashChain(pos)
  /\ prevpos' = Window(pos) /\ hashpos' = chain'[Window(pos)]
  /\ maxchainlength' = WindowSize \div ChainShare
  /\ length' = 0 /\ offset' = 0
  /\ lzPc' = "search"
  /\ UNCHANGED <<data, pos, blockEnd, matched, lazyVars, left, inflated>>

(* Once around the circular buffer. *)
WentAround ==
  \/ prevpos < Window(pos) /\ hashpos > prevpos /\ hashpos <= Window(pos)
  \/ prevpos > Window(pos) /\ (hashpos <= Window(pos) \/ hashpos > prevpos)

EndSearch ==
  /\ lzPc = "search" /\ (WentAround \/ maxchainlength = 0)
  /\ lzPc' = "decide"
  /\ UNCHANGED <<data, pos, blockEnd, head, chain, searchVars, length, offset, lazyVars, left, inflated>>

CurrentOffset == Window(pos) - hashpos + IF hashpos <= Window(pos) THEN 0 ELSE WindowSize

VisitPlace ==
  /\ lzPc = "search" /\ ~WentAround /\ maxchainlength > 0
  /\ maxchainlength' = maxchainlength - 1
  /\ matched' = 0
  /\ lzPc' = "compare"
  /\ UNCHANGED <<data, pos, blockEnd, head, chain, prevpos, hashpos, length, offset, lazyVars, left, inflated>>

(* foreptr != lastptr && *backptr == *foreptr *)
Agrees ==
  /\ CurrentOffset > 0
  /\ pos + matched < Lower(blockEnd, pos + MaxMatch)
  /\ In(pos + matched) = In(pos - CurrentOffset + matched)

CompareByte ==
  /\ lzPc = "compare" /\ Agrees
  /\ matched' = matched + 1
  /\ UNCHANGED <<data, lzPc, pos, blockEnd, head, chain, prevpos, hashpos, maxchainlength, length, offset, lazyVars, left, inflated>>

(* A longer match is kept; the walk ends with the longest one there is, or at
   a place that is its own predecessor. *)
FollowChain ==
  /\ lzPc = "compare" /\ ~Agrees
  /\ length' = IF matched > length THEN matched ELSE length
  /\ offset' = IF matched > length THEN CurrentOffset ELSE offset
  /\ IF (matched > length /\ matched = MaxMatch) \/ hashpos = chain[hashpos]
     THEN lzPc' = "decide" /\ UNCHANGED <<prevpos, hashpos>>
     ELSE lzPc' = "search" /\ prevpos' = hashpos /\ hashpos' = chain[hashpos]
  /\ UNCHANGED <<data, pos, blockEnd, head, chain, maxchainlength, matched, lazyVars, left, inflated>>

-----------------------------------------------------------------------------
(* A match that is not the longest possible is put off for one byte. *)
PutOff ==
  /\ lzPc = "decide" /\ ~lazy /\ length >= 3 /\ length < MaxMatch
  /\ lazy' = TRUE /\ lazylength' = length /\ lazyoffset' = offset
  /\ pos' = pos + 1 /\ lzPc' = "scan"
  /\ UNCHANGED <<data, blockEnd, head, chain, searchVars, length, offset, left, inflated>>

EncodeNow ==
  /\ lzPc = "decide" /\ ~lazy /\ (length < 3 \/ length = MaxMatch)
  /\ lzPc' = "emit"
  /\ UNCHANGED <<data, pos, blockEnd, head, chain, searchVars, length, offset, lazyVars, left, inflated>>

(* The next byte has the better match: the byte before it is a literal. *)
EncodeNext ==
  /\ lzPc = "decide" /\ lazy /\ length > lazylength + 1
  /\ inflated' = Append(inflated, In(pos - 1))
  /\ lazy' = FALSE
  /\ lzPc' = "emit"
  /\ UNCHANGED <<data, pos, blockEnd, head, chain, searchVars, length, offset, lazylength, lazyoffset, left>>

(* Mutant: the match put off is taken for one at this byte. *)
EncodePutOffHere ==
  /\ lzPc = "decide" /\ lazy /\ length <= lazylength + 1
  /\ length' = lazylength /\ offset' = lazyoffset
  /\ lazy' = FALSE
  /\ head' = [head EXCEPT ![HashAt(pos)] = -1]
  /\ lzPc' = "emit"
  /\ UNCHANGED <<data, pos, blockEnd, chain, searchVars, lazylength, lazyoffset, left, inflated>>

(* It has not: back to the match put off.  The byte at pos enters its chain a
   second time below; the head is emptied so that it does not follow itself. *)
EncodePutOff ==
  /\ lzPc = "decide" /\ lazy /\ length <= lazylength + 1
  /\ pos' = pos - 1 /\ length' = lazylength /\ offset' = lazyoffset
  /\ lazy' = FALSE
  /\ head' = [head EXCEPT ![HashAt(pos)] = -1]
  /\ lzPc' = "emit"
  /\ UNCHANGED <<data, blockEnd, chain, searchVars, lazylength, lazyoffset, left, inflated>>

-----------------------------------------------------------------------------
(* The token goes out and is read back at once: a byte that has no match, ... *)
EmitLiteral ==
  /\ lzPc = "emit" /\ length < 3
  /\ inflated' = Append(inflated, In(pos))
  /\ lzPc' = "insert" /\ left' = 0
  /\ UNCHANGED <<data, pos, blockEnd, head, chain, searchVars, length, offset, lazyVars>>

TooFar == length = 3 /\ offset > FarDistance

(* ... a match of 3 bytes that is not worth its distance, ... *)
SpellOut ==
  /\ lzPc = "emit" /\ TooFar
  /\ inflated' = inflated \o <<In(pos), In(pos + 1), In(pos + 2)>>
  /\ lzPc' = "insert" /\ left' = length - 1
  /\ UNCHANGED <<data, pos, blockEnd, head, chain, searchVars, length, offset, lazyVars>>

(* ... and a match, which inflateHuffmanBlock repeats from the `offset' bytes
   before it, over and over when it is longer than its offset. *)
Copied == Len(inflated) - pos
Backward == pos - offset + (Copied % offset)

CopyByte ==
  /\ lzPc = "emit" /\ length >= 3 /\ ~TooFar /\ Copied < length
  /\ inflated' = Append(inflated, inflated[Backward + 1])
  /\ UNCHANGED <<data, lzPc, pos, blockEnd, head, chain, searchVars, length, offset, lazyVars, left>>

CopyDone ==
  /\ lzPc = "emit" /\ length >= 3 /\ ~TooFar /\ Copied = length
  /\ lzPc' = "insert" /\ left' = length - 1
  /\ UNCHANGED <<data, pos, blockEnd, head, chain, searchVars, length, offset, lazyVars, inflated>>

(* The other bytes of the match enter their chains. *)
InsertByte ==
  /\ lzPc = "insert" /\ left > 0
  /\ UpdateHashChain(pos + 1)
  /\ pos' = pos + 1 /\ left' = left - 1
  /\ UNCHANGED <<data, lzPc, blockEnd, searchVars, length, offset, lazyVars, inflated>>

NextByte ==
  /\ lzPc = "insert" /\ left = 0
  /\ pos' = pos + 1 /\ lzPc' = "scan"
  /\ UNCHANGED <<data, blockEnd, head, chain, searchVars, length, offset, lazyVars, left, inflated>>

(* The next block of lodepng_deflatev keeps the chains, so that its matches
   may lie in the block before it. *)
NextBlock ==
  /\ lzPc = "scan" /\ pos >= blockEnd /\ blockEnd < Len(data)
  /\ pos' = blockEnd /\ blockEnd' = Lower(blockEnd + BlockSize, Len(data))
  /\ lazy' = FALSE /\ lazylength' = 0 /\ lazyoffset' = 0
  /\ UNCHANGED <<data, lzPc, head, chain, searchVars, length, offset, left, inflated>>

EndDeflate ==
  /\ lzPc = "scan" /\ pos >= blockEnd /\ blockEnd = Len(data)
  /\ lzPc' = "done"
  /\ UNCHANGED <<data, pos, blockEnd, head, chain, searchVars, length, offset, lazyVars, left, inflated>>

LzNext ==
  \/ StartSearch \/ EndSearch \/ VisitPlace \/ CompareByte \/ FollowChain
  \/ PutOff \/ EncodeNow \/ EncodeNext \/ EncodePutOff
  \/ EmitLiteral \/ SpellOut \/ CopyByte \/ CopyDone
  \/ InsertByte \/ NextByte \/ NextBlock \/ EndDeflate

LzSpec == LzInit /\ [][LzNext]_lzVars

-----------------------------------------------------------------------------
(* How many bytes the tokens that have gone out stand for. *)
Encoded ==
  CASE lzPc = "emit"   -> IF length < 3 \/ TooFar THEN pos ELSE pos + Copied
    [] lzPc = "insert" -> pos + left + 1
    [] lzPc \notin {"emit", "insert"} /\ lazy -> pos - 1
    [] OTHER           -> pos

(* Whatever the hash, the window and the stale links of its chains, what the
   reader has is the part of the input the tokens stand for, and all of it in
   the end; a match never reaches back before the first byte (error 52 of the
   reader), nor out of the window (error 86). *)
LzLossless ==
  /\ inflated = SubSeq(data, 1, Encoded)
  /\ lzPc = "done" => inflated = data
  /\ lzPc = "emit" /\ length >= 3 => offset \in 1..Lower(pos, WindowSize - 1)
  /\ lzPc = "emit" /\ length >= 3 /\ ~TooFar => Copied \in 0..length

-----------------------------------------------------------------------------
(* What is invariant.  A byte is looked up, then encoded. *)
LookUp == {"search", "compare", "decide"}
Encode == {"emit", "insert"}

LzTypeOK ==
  /\ data \in Seq(Byte)
  /\ lzPc \in {"scan", "done"} \cup LookUp \cup Encode
  /\ pos \in Nat /\ blockEnd \in 0..Len(data) /\ pos <= blockEnd
  /\ lzPc \in LookUp \cup Encode => pos < blockEnd
  /\ head \in [HashValues -> -1..WindowSize - 1]
  /\ chain \in [0..WindowSize - 1 -> 0..WindowSize - 1]
  /\ hashpos \in 0..WindowSize - 1
  /\ matched \in Nat /\ length \in Nat /\ offset \in Nat
  /\ lazy \in BOOLEAN /\ lazylength \in Nat /\ lazyoffset \in Nat
  /\ left \in Nat
  /\ inflated \in Seq(Byte)

(* n bytes from p on are the bytes d before them, in the same block. *)
Repeats(p, n, d) ==
  /\ d \in 1..WindowSize - 1 /\ d <= p /\ p + n <= blockEnd
  /\ \A k \in 0..n - 1 : In(p + k) = In(p - d + k)

(* Before the window has been filled once no link leads forwards, and no head
   is a place that was not entered (the n places from the start were). *)
NotAhead(n) ==
  n <= WindowSize => /\ \A i \in 0..WindowSize - 1 : chain[i] <= i
                     /\ \A h \in HashValues : head[h] < n

ChainsLeadBack ==
  /\ lzPc = "scan" => NotAhead(pos)
  /\ lzPc \in LookUp => NotAhead(pos + 1)
  /\ lzPc = "emit" => NotAhead(IF length < 3 THEN pos + 1 ELSE pos + 2)
  /\ lzPc = "insert" => NotAhead(IF left = 0 THEN pos + 1 ELSE pos + 2)
  /\ lzPc \in {"search", "compare"} /\ pos < WindowSize => hashpos <= pos

MatchesRepeat ==
  /\ lzPc \in LookUp \cup {"emit"} /\ length > 0 => Repeats(pos, length, offset)
  /\ lzPc = "compare" /\ matched > 0 => Repeats(pos, matched, CurrentOffset)
  /\ lazy => /\ lzPc \in {"scan"} \cup LookUp
             /\ pos > 0 /\ lazylength >= 3
             /\ Repeats(pos - 1, lazylength, lazyoffset)
  /\ lzPc = "insert" => pos + left < blockEnd

(* What has been copied of a match is periodic. *)
CopiesInTurn ==
  lzPc = "emit" /\ length >= 3 /\ ~TooFar =>
    /\ Copied \in 0..length
    /\ \A k \in 0..Copied - 1 : In(pos + k) = In(pos - offset + (k % offset))

LzIInv ==
  /\ LzTypeOK /\ ChainsLeadBack /\ MatchesRepeat /\ CopiesInTurn
  /\ inflated = SubSeq(data, 1, Encoded)
  /\ lzPc = "done" => pos = blockEnd /\ blockEnd = Len(data)
=============================================================================
