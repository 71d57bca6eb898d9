SPECIFICATION Spec
PROPERTIES
  PrivateDelivery
CONSTANTS
  Conns = {c1, c2, c3}
  NoConn = NoConn
  MaxClients = 2
  Fds = {4, 5}
  Timeout = 1
  ValidNames = {"ana", "beto"}
  FirstInputs <- RegisterOrMsg
  Inputs <- OnlyQuit
  SignalThreads = {}
  Closers = {c1}
  MaxLines = 2
  MaxClock = 0
