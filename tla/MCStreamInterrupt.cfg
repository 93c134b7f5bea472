SPECIFICATION FairSpec
CONSTANTS
  k1 = k1
  k2 = k2
  k3 = k3
  Conns <- TwoConns
  MAX_CONCURRENT_CLIENTS = 1
  SongChunks = 1
  Window = 1
  MaxInterrupts = 1
  ThreadsMayFail = FALSE
CHECK_DEADLOCK FALSE
PROPERTY InterruptStops
