SPECIFICATION AdmissionSpec
CONSTANTS
  Conns = {c1, c2, c3}
  RealtimeClients = {c1, c2, c3}
  Others = {h1}
  Limit = 1
  EvictOnFull = TRUE
  PollSteps = 2
INVARIANTS NoSlotOutlivesItsHandler
