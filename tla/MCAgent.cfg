SPECIFICATION AgentSpec
\* A client that is closed, and one whose dispatch loop has gone deaf, stop.
CHECK_DEADLOCK FALSE
CONSTANTS
  \* transport: attempts in the retry window, sockets ever dialled
  Attempts = 2
  MaxSockets = 2
  \* conversation: tasks in the middle of their work at once, of eight
  MaxPending = 3
  MaxWindowPending = 2
  \* translation: hypotheses of up to three tokens, one of them a clause mark
  Texts <- MCTexts
  Marks = {"m"}
  AgreementN = 2
  MinCommit = 1
  MaxUtterances = 2
  MaxPartials = 2
INVARIANTS
  TransportIsSound ConversationIsSound ArmIsSafe TranslationIsWhole
PROPERTIES
  LocksComeBack QuietSleepLasts ShutdownReleasesTheArm
