SPECIFICATION V2vSpec
\* A released session stops.
CHECK_DEADLOCK FALSE
CONSTANTS
  MaxTurns = 2
  MaxSentences = 1
  V2vSettings <- MCSettings
INVARIANTS
  TurnsAreSound
PROPERTIES
  SessionsComeToAnEnd
