SPECIFICATION ServerSpec
\* Sessions that are served and released, and clips that are decoded, stop.
CHECK_DEADLOCK FALSE
CONSTANTS
  \* gate: two permits, a backlog of two, five sessions
  Tasks = {g1, g2, g3, g4, g5}
  Concurrency = 2
  MaxWaiting = 2
  Unbounded = Unbounded
  \* slot: both modes of the coordinator, two permits, a backlog of one
  Streams = {u1, u2, u3}
  HttpRequests = {o1, o2}
  SlotPermits = 2
  SlotBacklog = 1
  Nobody = Nobody
  \* profile environment: three profiles over six keys, one of them critical
  a1 = a1  a2 = a2  t1 = t1  t2 = t2  s1 = s1  crit = crit  p1 = p1  p2 = p2  p3 = p3
  EnvKeys = {a1, a2, t1, t2, s1, crit}
  KeyKind <- MCKeyKind
  OperatorKeys = {t2, crit}
  CriticalKeys = {crit}
  Refs = {p1, p2, p3}
  Block <- MCBlock
  Owned <- MCOwned
  Engines <- MCEngines
  Agreeing = {p2}
  Operator = Operator  Absent = Absent  TornRef = TornRef
  \* streaming synthesis
  Sentences = 2  Workers = 1  Prefetch = 1  ChunkBound = 1
  \* LLM breaker, with the configuration's defaults
  FailuresToDown = 3  UnknownsToState = 3
  \* exclusive mode: two parties beside the lazy start, each of them a request
  \* for either modality or a recognition session
  Clients = {e1, e2}
  \* segmenter: a limit of 20 ticks, the overlaps at its boundaries
  Ceiling = 20  Overlaps = {0, 3, 4, 12}  MinTail = 5  Pad = 1  MinSpeech = 2
  Clips <- MCClips
  Spans <- MCSpans
INVARIANTS
  GateIsSound SlotIsKept EnvironIsAccountedFor StreamIsSound BreakerIsCautious
  ExclusiveSlotIsSound ClipIsDecoded
PROPERTIES
  EveryWaiterIsAnswered ImplementsSemaphore BacklogDrains
  LeavingFreesTheLeases BreakerFollowsTheServer
