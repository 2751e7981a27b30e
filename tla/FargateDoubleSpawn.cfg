CONSTANTS
  Caller = {c1, c2}
  Session = {s1}
  Task = {k1, k2}
  Ip = {i1}
  Kinds = {"run"}
  None = None
  Pending = Pending
  Undated = {}
  SpawnTimeout = 1
  RequestTimeout = 0
  Attempts = 1
  LockTtl = 2
  SessionTtl = 1
  MinTaskAge = 2
  CleanupDelay = 1
  StepDelay = 0
  IpReuse = TRUE
SPECIFICATION Spec
SYMMETRY Symmetry
INVARIANT OneTaskPerSession
