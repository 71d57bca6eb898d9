SPECIFICATION FairSysSpec
INVARIANTS
  StrayOnlyAfterClose
  ChattingIsSeated
  ByeIsLast
  DriftAnnounced
  OthersAgree
  AckedArrives
PROPERTIES
  HandshakeEnds
  QuitEnds
CHECK_DEADLOCK FALSE
CONSTANTS
  c1 = c1
  c2 = c2
  Conns <- Both
  NoConn = NoConn
  MaxClients = 2
  Fds = {4, 5}
  Timeout = 1
  ValidNames = {"ana", "beto"}
  FirstInputs <- Register
  Inputs <- AnyLine
  SignalThreads = {}
  Closers = {}
  MaxLines = 5
  MaxClock = 1
  NameOf <- Names
  Plans <- SomePlans
