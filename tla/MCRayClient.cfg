SPECIFICATION FairSpec
CONSTANTS
  NumChunks = 5
  ASYNC_CLIENTS_MAX = 2
  Threads <- AnyMachine
  FaultCases <- WithAndWithoutWakeups
INVARIANTS OneErrand ChunksAccountedFor PoolStaysSmall TwoThreadsAreTooFew
PROPERTIES StuckForEver ImplementsWorkPeer AcquireReturns ChunkFlows
CHECK_DEADLOCK FALSE
