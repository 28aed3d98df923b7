SPECIFICATION StubbornVoiceSpec
\* All tokens may be drawn.
CHECK_DEADLOCK FALSE
CONSTANTS
  MaxTx = 3  MaxFaults = 2
INVARIANT
  LeftoverJournalIsSafe
