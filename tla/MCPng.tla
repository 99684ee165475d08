----------------------------- MODULE MCPng -----------------------------
(* Inputs for the stages of the PNG writer that lead each of them past its
   limits; the comments say which. *)
EXTENDS PngWriter

Repeated(v, n) == [k \in 1..n |-> v]

-----------------------------------------------------------------------------
(* Pictures.  With PaletteMax colors at most in a palette, the last two have
   as many as that and one more. *)
MCPaletteMax == 18

Grey(v) == <<v, v, v>>
Cycle(s, n) == [i \in 1..n |-> s[((i - 1) % Len(s)) + 1]]
Ramp(n) == [i \in 1..n |-> <<255 - i, i, 7 * i>>]
MCPictures ==
  LET some == {Grey(0), Grey(255), Grey(85), Grey(51), Grey(100), <<255, 0, 0>>}
      ink == {Grey(0), Grey(170), Grey(136), <<0, 1, 0>>}
  IN  UNION {[1..n -> some] : n \in 1..3}
        \cup {p \in [1..5 -> ink] : p[1] = Grey(0)}
        \cup {Cycle(<<Grey(0), <<9, 9, 8>>, Grey(51)>>, 8)}
        \cup {Cycle(Ramp(n), 40) : n \in {5, MCPaletteMax - 1, MCPaletteMax, MCPaletteMax + 1}}

-----------------------------------------------------------------------------
(* Images of one, two and three lines: with 1 and 2 bits a pixel, with 8 and
   with 24, filtered or not. *)
Samples == {0, 1, 130, 255}
MCImages ==
  [rows : [1..2 -> [1..2 -> Samples]], bpp : {8}, zero : {FALSE}]
    \cup [rows : {<<<<3, 200, 7, 9>>, a, <<9, 0, 255, 77>>>> : a \in [1..4 -> {0, 255, 77}]}, bpp : {8, 16}, zero : {FALSE}]
    \cup [rows : {<<<<3, 200, 7, 90, 90, 90>>, <<3, 201, 8, 90, x, 91>>>> : x \in Samples}, bpp : {24}, zero : {FALSE}]
    \cup [rows : [1..2 -> {<<1, 0, 1>>, <<0, 0, 1>>, <<1, 1, 1>>}], bpp : {1}, zero : {TRUE}]
    \cup [rows : [1..2 -> {<<1, 0, 1, 1, 1, 0, 0, 0, 1, 1>>, Repeated(1, 10)}], bpp : {2}, zero : {TRUE}]
    \cup [rows : {<<<<3, 200>>, <<200, 3>>>>}, bpp : {8}, zero : {TRUE}]

-----------------------------------------------------------------------------
(* Bytes to deflate, with a window of 10 and blocks of 8 bytes.  Letters that
   differ by 3 share a hash. *)
MCByte == 0..255
MCHashValues == 0..2
MCHashStep(h, b, i) == IF i = 0 THEN b % 3 ELSE h
MCLzInputs ==
  {<<>>} \cup [1..1 -> {1}]
    \cup {s \in [1..10 -> {1, 2}] : s[1] = 1}
    \cup {<<2, 3, 4, 5, 6, 1, 2, 3, 1, 2, 3, 4, 5, 6>>, <<1, 2, 3, 9, 4, 7, 4, 4, 1, 2, 3, 5>>}
    \cup {Cycle(s, n) : s \in {<<1>>, <<1, 2, 4>>, <<1, 4, 7, 1, 4>>, <<1, 2, 3, 4, 5, 6, 7>>}, n \in {25, 33}}

-----------------------------------------------------------------------------
(* Frequencies: small ones, Fibonacci numbers, whose best code is as deep as
   it can be, and one symbol that outweighs the others. *)
Frequencies(fs, bs) == [freq : fs, maxbits : bs]
MCCodeInputs ==
  Frequencies([1..4 -> 0..3], 2..3)
    \cup Frequencies({<<1, 1, 2, 3, 5>>, <<5, 3, 2, 1, 1>>, <<1, 1, 1, 1, 9>>}, 3..4)
    \cup Frequencies({<<1, 1, 2, 3, 5, 8>>, <<13, 0, 8, 5, 3, 1, 1>>, <<13, 21, 8, 5, 3, 1, 1>>}, {3})

-----------------------------------------------------------------------------
(* Lengths of 286 literal and 30 distance codes, complete codes all: a zeros
   and b fives at the front, t fives at the end of the literals and u at the
   front of the distances, so that runs of every length up to the limits of
   the repeat codes occur, and some that cross from one code into the other. *)
Binary(n, k) == (n \div 2^k) % 2
FillUp(n) ==
  LET of(len) == IF Binary(32 - n, 5 - len) = 1 THEN <<len>> ELSE <<>>
  IN  IF n = 0 THEN <<1, 1>> ELSE of(1) \o of(2) \o of(3) \o of(4) \o of(5)
Lengths(a, b, t, u) ==
  LET fill == FillUp(b + t)
      front == Repeated(0, a) \o Repeated(5, b) \o SubSeq(fill, 1, Len(fill) - 1)
      dist == IF u = 0 THEN <<1>> ELSE Repeated(5, u) \o FillUp(u)
  IN  front \o Repeated(0, 256 - Len(front)) \o <<fill[Len(fill)]>>
        \o Repeated(0, 29 - t) \o Repeated(5, t) \o dist \o Repeated(0, 30 - Len(dist))
MCLengthInputs ==
  {Lengths(a, b, 2, 1) : a \in {0, 1, 2, 3, 10, 11, 12, 137, 138, 139, 140}, b \in {0, 1, 4, 7}}
    \cup {Lengths(0, b, 0, 0) : b \in 0..13}
    \cup {Lengths(0, 2, t, u) : t \in {0, 1, 3, 7}, u \in 0..8}

-----------------------------------------------------------------------------
(* Tokens: every length, both ends of every range of distances up to the
   window of 2048 and files of more than one block. *)
MCBlockInputs ==
  {<<<<<<l, 1 + ((l * 7) % 2047)>>>>>> : l \in 3..258}
    \cup {<<<<<<3, DISTANCEBASE[k]>>, <<65>>, <<258, DISTANCEBASE[k] - 1>>>>>> : k \in 2..22}
    \cup {<<<<>>>>, <<<<<<0>>, <<255>>>>, <<<<3, 2>>>>>>, <<<<>>, <<<<7>>>>, <<>>>>}

-----------------------------------------------------------------------------
(* Files: the smallest and the largest palette, grey and RGB. *)
MCDrawings ==
  [w : {2}, h : {3}, type : {"grey"}, bits : {1, 2, 4, 8}, palettesize : {0}, zsize : {5}]
    \cup [w : {2}, h : {3}, type : {"rgb"}, bits : {8}, palettesize : {0}, zsize : {1}]
    \cup [w : {2}, h : {3}, type : {"palette"}, bits : {1}, palettesize : {1, 2}, zsize : {1}]
    \cup [w : {40}, h : {40}, type : {"palette"}, bits : {8}, palettesize : {256}, zsize : {1}]
=============================================================================
