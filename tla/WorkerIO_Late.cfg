SPECIFICATION WorkerSpec
CONSTANTS
  Threads = {t1}
  Tasks = {a1}
  Slots = 1
  Underway = 1
INVARIANTS NoPermitIsLost
