CONSTANTS
  Caller = {c1, c2, c3}
  Session = {s1, s2}
  Task = {k1, k2}
  Ip = {i1}
  Kinds = {"warmUp"}
  None = None
  Pending = Pending
  Undated = {}
  SpawnTimeout = 1
  RequestTimeout = 0
  Attempts = 1
  LockTtl = 2
  SessionTtl = 3
  MinTaskAge = 2
  CleanupDelay = 1
  StepDelay = 0
  IpReuse = TRUE
SPECIFICATION Spec
SYMMETRY Symmetry
PROPERTY ProbeCatchesDeadTask
