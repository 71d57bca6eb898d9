SPECIFICATION FairSpec
PROPERTIES
  Exits
CHECK_DEADLOCK FALSE
CONSTANTS
  Conns = {c1, c2}
  NoConn = NoConn
  MaxClients = 2
  Fds = {4, 5}
  Timeout = 1
  ValidNames = {"ana", "beto"}
  FirstInputs <- OnlyQuit
  Inputs <- OnlyQuit
  SignalThreads = {"main", "other"}
  Closers = {c1, c2}
  MaxLines = 1
  MaxClock = 0
