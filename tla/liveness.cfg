SPECIFICATION FairSpec
INVARIANTS
  NoFdLeak
PROPERTIES
  CloseOwnFd
  NoPrematureInactive
  CleanedUp
  Accepted
  OverdueMarked
CONSTANTS
  Conns = {c1, c2}
  NoConn = NoConn
  MaxClients = 1
  Fds = {4, 5}
  Timeout = 1
  ValidNames = {"ana", "beto"}
  FirstInputs <- OnlyQuit
  Inputs <- OnlyQuit
  SignalThreads = {}
  Closers = {c1, c2}
  MaxLines = 1
  MaxClock = 1
