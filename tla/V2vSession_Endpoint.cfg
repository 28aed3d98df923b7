SPECIFICATION V2vSpec
CHECK_DEADLOCK FALSE
CONSTANTS
  MaxTurns = 2
  MaxSentences = 1
  V2vSettings <- MCVadSettings
INVARIANT EndpointKeepsItsTurn
