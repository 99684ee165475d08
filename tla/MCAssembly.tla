----------------------------- MODULE MCAssembly -----------------------------
(* Small instances of Assembly for TLC. *)
EXTENDS Assembly

Dimensions(w, h, a) == [wide |-> w, high |-> h, antiAliasFactor |-> a]

\* Without and with antialiasing, and pictures with no pixel.  One has two
\* patches side by side; the widest has chunks of every kind: full ones, a
\* short last one, and all in one.
SmallSizes == {Dimensions(3, 2, 1), Dimensions(2, 3, 1), Dimensions(1, 1, 2),
               Dimensions(0, 1, 1), Dimensions(5, 0, 1), Dimensions(2, 1, 2),
               Dimensions(5, 1, 1)}
SmallWidths == 0 .. 5
SmallHeights == 0 .. 3
SmallLineCounts == {1, 2, 3, 5}

\* Every color is a multiple of all numbers of neighbours.
SmallChannels == {"red", "blue"}
SmallColors == {[red |-> 0, blue |-> 120], [red |-> 240, blue |-> 60]}
=============================================================================
