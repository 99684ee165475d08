SPECIFICATION FairSpec
CONSTANTS
  NumChunks = 1
  ASYNC_CLIENTS_MAX = 4
  Threads <- ThreeThreads
  FaultCases <- NoFaults
PROPERTIES EveryChunkIsProcessed
CHECK_DEADLOCK FALSE
