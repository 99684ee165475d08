SPECIFICATION FairClientsSpec
CONSTANTS
  NumChunks = 1
  Peer = {p1}
  Conn = {c1, c2}
  NoPeer = NoPeer
  NoConn = NoConn
  Faults <- NoFaults
PROPERTIES WorkDoneLeadsToPicture
CHECK_DEADLOCK FALSE
