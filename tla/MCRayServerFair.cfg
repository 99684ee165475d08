SPECIFICATION FairClientsSpec
CONSTANTS
  NumChunks = 3
  Peer = {p1, p2}
  Conn = {c1, c2, c3}
  NoPeer = NoPeer
  NoConn = NoConn
  Faults <- NoFaults
PROPERTIES WorkGetsDone LateClientsGetBye
CHECK_DEADLOCK FALSE
