----------------------------- MODULE MCRayServer -----------------------------
(* Small instances of RayServer for TLC. *)
EXTENDS RayServerInv, TLC

\* Which client or connection object is which makes no difference: a state
\* and its image under a permutation have the same behaviours.
Symmetry == Permutations(Peer) \cup Permutations(Conn)

NoFaults == {}
LinkFaults == {"link"}
AcceptFaults == {"accept"}
AllFaults == FaultKinds
=============================================================================
