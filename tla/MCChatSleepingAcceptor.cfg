SPECIFICATION Spec
CONSTANTS
  Conns <- TwoConns
  NamesOf <- TwoNames
  MaxClients = 1
  HasTimeout = TRUE
  MaxEvents = 0
CHECK_DEADLOCK FALSE
INVARIANT SleepsOnlyWhenFull
