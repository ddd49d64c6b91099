\* A turn is interrupted by an utterance that becomes the next turn.
SPECIFICATION Spec
CONSTANTS
  MaxTurns = 2
  MaxHeard = 2
  MaxChunks = 2
  Greets = FALSE
  Immediate = TRUE
  MaxMoves = 2
  OutCap = 1
  Generators = {1, 2}
  MaxRounds = 2
  MaxCalls = 1
INVARIANT BargeInSilences
CHECK_DEADLOCK FALSE
