SPECIFICATION Spec
INVARIANTS
  RegisteredFirst
SYMMETRY Symmetry
CONSTANTS
  Conns = {c1, c2}
  NoConn = NoConn
  MaxClients = 2
  Fds = {4, 5}
  Timeout = 1
  ValidNames = {"ana", "beto"}
  FirstInputs <- RegisterOrMsg
  Inputs <- OnlyQuit
  SignalThreads = {}
  Closers = {}
  MaxLines = 1
  MaxClock = 0
