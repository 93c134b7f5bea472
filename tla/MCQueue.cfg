SPECIFICATION OrderedSpec
CONSTANTS
  p1 = p1
  p2 = p2
  c1 = c1
  c2 = c2
  NULL = NULL
  Producers <- TwoProducers
  Consumers <- TwoConsumers
  Items <- SixItems
  ChunkSize = 2
  MaxLiveChunks = 2
CHECK_DEADLOCK FALSE
INVARIANTS TypeOK ListExact Fifo ReadersCovered WritersCovered
PROPERTIES EventuallyTaken ImplementsFifo
