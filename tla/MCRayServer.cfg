SPECIFICATION FairSpec
CONSTANTS
  NumChunks = 3
  Peer = {p1, p2}
  Conn = {c1, c2, c3}
  NoPeer = NoPeer
  NoConn = NoConn
  Faults <- LinkFaults
INVARIANTS NoChunkVanishes NoOutputQueueRace PicturesComplete
PROPERTIES DroppedOnlyIfOthersWork EveryRequestEnds NotifiedThreadWritesPicture
CHECK_DEADLOCK FALSE
