SPECIFICATION PoolFairSpec
CONSTANTS
  NULL = NULL
  Main = 0
  Producers <- MCProducers
  Consumers <- MCWorkers
  Items <- MCItems
  thread_count = 3
  task_count = 4
  ThreadsMayFail = TRUE
  ChunkSize = 2
  MaxLiveChunks = 2
INVARIANTS PoolTypeOK ChecksExact RunOnce KillsLast WrapperLifetime MainSleepsOnlyWhenFull
PROPERTIES Termination ImplementsTaskPool
