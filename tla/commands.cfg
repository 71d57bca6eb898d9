SPECIFICATION Spec
INVARIANTS
  TypeOK
PROPERTIES
  ImplementsService
SYMMETRY Symmetry
CONSTANTS
  Conns = {c1, c2}
  NoConn = NoConn
  MaxClients = 2
  Fds = {4, 5}
  Timeout = 1
  ValidNames = {"ana", "beto"}
  FirstInputs <- RegisterAna
  Inputs <- AllCommands
  SignalThreads = {}
  Closers = {}
  MaxLines = 2
  MaxClock = 0
