SPECIFICATION FairSpec
CONSTANTS
  Conns <- TwoConns
  NamesOf <- OneName
  MaxClients = 2
  HasTimeout = TRUE
  MaxEvents = 2
CHECK_DEADLOCK FALSE
PROPERTIES SilentKicked ShutdownEnds
