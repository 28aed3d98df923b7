SPECIFICATION PartsSpec
\* With the only permit of the worker lost every thread blocks in acquire for good.
CHECK_DEADLOCK FALSE
CONSTANTS
  Parts = {"manager", "worker"}
  Requests = {r1, r2}
  Sessions = {s1}
  Admins = {d1, d2}
  Profiles = {p1, p2, p3}
  Instances = {b1, b2, b3}
  HotReloadable = {p1, p2}
  Deployable = {p1, p2}
  StartProfile = p1
  Seeded = TRUE
  None = None
  Torn = Torn
  \* worker: one slot, one thread and two tasks: a permit can be granted to a
  \* caller that is no longer there
  Threads = {t1}
  Tasks = {a1, a2}
  Slots = 1
  Underway = 1
  \* admission does not move in this run
  Conns = {c1}
  RealtimeClients = {}
  Others = {h1}
  Limit = 1
  EvictOnFull = TRUE
  PollSteps = 1
SYMMETRY ObjectSymmetry
INVARIANTS
  ServedBackendIsLoaded ReadyBackendIsSound ManagerIsSound
  PermitsConserved CallersInFlightAreWoken EventsReachTheirCaller
PROPERTIES
  RollbackReappliesProfile NoWriteAfterClose
