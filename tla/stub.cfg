SPECIFICATION FairSpec
INVARIANTS
  TypeOK
  SlotHeld
  SlotsAccounted
  CountCovers
PROPERTIES
  ImplementsService
  Greeted
  Ended
CHECK_DEADLOCK FALSE
CONSTANTS
  c1 = c1
  c2 = c2
  c3 = c3
  Conns <- Three
  NoConn = NoConn
  MaxStub = 2
  Fds = {4, 5, 6}
  FirstInputs <- Names
  Inputs <- Chat
  Closers = {c2}
  MaxLines <- Lines
