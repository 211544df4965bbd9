SPECIFICATION FairSpec
CONSTANTS
  MaxChunks <- QueryAndReply
  Window = 1
  Faults = {"drop", "kill"}
CHECK_DEADLOCK FALSE
INVARIANTS
  TypeOK
  InOrder
  NothingLost
  NeverStuck
PROPERTIES
  ImplementsConnection
  TunnelCloses
  Delivered
