SPECIFICATION Spec
INVARIANTS
  SessionPinned
  Ownership
PROPERTIES
  ImplementsRoom
SYMMETRY Symmetry
CONSTANTS
  Conns = {c1, c2, c3}
  NoConn = NoConn
  MaxClients = 2
  Fds = {4, 5}
  Timeout = 1
  ValidNames = {"ana", "beto"}
  FirstInputs <- RegisterAna
  Inputs <- OnlyQuit
  SignalThreads = {}
  Closers = {c1, c2, c3}
  MaxLines = 1
  MaxClock = 0
