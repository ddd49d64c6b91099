\* A call in text mode: a greeting, two turns, two voiced chunks.
SPECIFICATION FairSpec
CONSTANTS
  MaxTurns = 2
  MaxHeard = 2
  MaxChunks = 2
  Greets = TRUE
  Immediate = TRUE
  MaxMoves = 3
  OutCap = 1
  Generators = {1, 2}
  MaxRounds = 2
  MaxCalls = 1
INVARIANTS
  TypeOK
  EveryChunkHeardOnce
  SpeechSurvives
  InterruptedIsSilent
  ToolCallsAnswered
PROPERTIES
  SpeechIsProcessed
  TurnsEnd
  PipelineEnds
CHECK_DEADLOCK FALSE
