SPECIFICATION Spec
CONSTANTS
  Conns <- FourConns
  NamesOf <- SameName
  MaxClients = 2
  HasTimeout = FALSE
  MaxEvents = 0
CHECK_DEADLOCK FALSE
INVARIANT AdmissionLimit
