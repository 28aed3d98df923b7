SPECIFICATION Spec
CONSTANTS
  Requests = {}
  Sessions = {s1}
  Admins = {d1}
  Profiles = {p1, p2}
  Instances = {b1, b2, b3}
  HotReloadable = {p1, p2}
  Deployable = {p1, p2}
  StartProfile = p1
  Seeded = TRUE
  None = None
  Torn = Torn
PROPERTIES UnloadSparesExecutorThreads
