SPECIFICATION FairSpec
INVARIANTS
  TypeOK
  SocketHeld
  ChatsOnlyRegistered
  StatusFollows
PROPERTIES
  ExitsOnQuit
  OneEnterEnough
CHECK_DEADLOCK FALSE
CONSTANTS
  User = "ana"
  Typed <- TypedLines
  Events <- Notice
  MaxTyped = 3
  MaxEvents = 1
