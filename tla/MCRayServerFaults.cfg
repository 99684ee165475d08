SPECIFICATION Spec
CONSTANTS
  NumChunks = 3
  Peer = {p1, p2}
  Conn = {c1, c2, c3}
  NoPeer = NoPeer
  NoConn = NoConn
  Faults <- AllFaults
SYMMETRY Symmetry
INVARIANTS NoChunkDuplicated WorkDoneMeansAllReturned
PROPERTIES ImplementsWorkPool
CHECK_DEADLOCK FALSE
