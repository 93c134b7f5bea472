SPECIFICATION Spec
CONSTANTS
  Conns <- ThreeConns
  NamesOf <- SomeNames
  MaxClients = 2
  HasTimeout = TRUE
  MaxEvents = 1
CHECK_DEADLOCK FALSE
INVARIANTS
  ChatTypeOK AdmissionLimitUnlessRefused LiveUsersExact SocketsOwned
  RegistryExact NoDanglingEntry
