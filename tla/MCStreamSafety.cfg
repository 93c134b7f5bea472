SPECIFICATION Spec
CONSTANTS
  k1 = k1
  k2 = k2
  k3 = k3
  Conns <- ThreeConns
  MAX_CONCURRENT_CLIENTS = 2
  SongChunks = 2
  Window = 1
  MaxInterrupts = 1
  ThreadsMayFail = TRUE
CHECK_DEADLOCK FALSE
SYMMETRY Symmetry
INVARIANTS StreamTypeOK AtMostMax MainNotStranded
