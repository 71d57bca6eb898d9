SPECIFICATION FairSpec
INVARIANTS
  TypeOK
  FramesKept
  CommandsWhole
  MessagesKept
  ListsNames
  AddresseeFound
PROPERTIES
  AllAnswered
CHECK_DEADLOCK FALSE
CONSTANTS
  MaxMsg = 12
  MaxChat = 4
  MaxName = 3
  Alphabet <- Keys
  Seats <- SeatNames
  Users <- Both
  Cap = 6
  Scripts <- SomeScripts
