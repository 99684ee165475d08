---------------------------- MODULE MCClosestHit ----------------------------
(* Small instances of ClosestHit for TLC. *)
EXTENDS ClosestHit, SequencesExt

\* No solid, one that is met up to four times, two that are met twice.
SmallScenes ==
  {<<>>} \cup {<<hits>> : hits \in BoundedSeq(1 .. 4, 4)}
    \cup {<<left, right>> : left, right \in BoundedSeq(1 .. 4, 2)}
SmallGaps == {1, 3}
=============================================================================
