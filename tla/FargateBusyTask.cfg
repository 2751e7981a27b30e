CONSTANTS
  Caller = {c1, c2}
  Session = {s1}
  Task = {k1, k2}
  Ip = {i1}
  Kinds = {"run"}
  None = None
  Pending = Pending
  Undated = {}
  SpawnTimeout = 1
  RequestTimeout = 1
  Attempts = 2
  LockTtl = 2
  SessionTtl = 3
  MinTaskAge = 2
  CleanupDelay = 1
  StepDelay = 0
  IpReuse = TRUE
SPECIFICATION Spec
SYMMETRY Symmetry
PROPERTY BusyTaskNotStopped
