SPECIFICATION ContentSpec
\* A conversation stops after its last turn.
CHECK_DEADLOCK FALSE
CONSTANTS
  \* replies: two turns of two chunks, two messages on the wire
  MaxReplies = 2  MaxChunks = 2  MaxUplink = 2
  \* history: three turns of at most two rounds
  MaxDialogue = 3  MaxIterations = 2  TokenBudget = 5  EchoWindow = 2  MaxClears = 1
  \* engines: two hosts, the bundle of one of them complete, one mishap
  h1 = h1  h2 = h2
  EngineCount = 2
  Hosts = {h1, h2}
  Bundle <- MCBundle
  MaxMishaps = 1
  \* voices: two transactions, two crashes or disk errors
  MaxTx = 2  MaxFaults = 2
INVARIANTS
  ResponsesAreWellFormed HistoryIsUsable EnginesAreCertified VoicesAreWhole
PROPERTIES
  FlushEndsTheResponse ProvisionedInTheEnd VoiceChangesAtomically
