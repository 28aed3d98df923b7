SPECIFICATION PartsFairSpec
\* Admission: names are used up by handlers that left a slot or a handle
\* behind, and with the last one that component stops.
CHECK_DEADLOCK FALSE
CONSTANTS
  Parts = {"manager", "admission"}
  Requests = {r1, r2}
  Sessions = {s1}
  Admins = {d1}
  Profiles = {p1}
  Instances = {b1, b2, b3}
  HotReloadable = {p1}
  Deployable = {p1}
  StartProfile = p1
  Seeded = FALSE
  None = None
  Torn = Torn
  \* admission: one slot, eviction on, three connections of which one may
  \* speak the Realtime v2 protocol, one HTTP request
  Conns = {c1, c2, c3}
  RealtimeClients = {c1}
  Others = {h1}
  Limit = 1
  EvictOnFull = TRUE
  PollSteps = 2
  \* the worker does not move in this run
  Threads = {t1}
  Tasks = {a1}
  Slots = 1
  Underway = 1
INVARIANTS
  AdmissionIsOrderly
PROPERTIES
  DrainingIsTransient ImplementsHotSwap
  AdmissionSettles
