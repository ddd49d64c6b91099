\* Provider.Close with a started stream.
SPECIFICATION FairSpec
CONSTANTS
  WriteCap = 1
  ReadCap = 1
  EvCap = 1
  Size = 1
  MaxMoves = 3
PROPERTY ProviderCloseReturns
CHECK_DEADLOCK FALSE
