\* One stream, chunks of two bytes, small queues.
SPECIFICATION FairSpec
CONSTANTS
  WriteCap = 2
  ReadCap = 1
  EvCap = 1
  Size = 2
  MaxMoves = 5
INVARIANTS
  TypeOK
  ReadsEveryByte
  EofIsLast
  CloseComplete
  RemoteEndIsClean
PROPERTIES
  KeepsNewest
  WriteReturns
  StreamEnds
CHECK_DEADLOCK FALSE
