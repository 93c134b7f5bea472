SPECIFICATION Spec
CONSTANTS
  matrix_order = 2
  operations = 2
  TASK_CHUNK_SIZE = 3
  WORKER_POOL_THREAD_COUNT = 2
  Operands <- TwoMatrices
  Garbage = 77
INVARIANTS MultTypeOK NoSharedCell ProductsExact
