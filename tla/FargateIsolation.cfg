CONSTANTS
  Caller = {c1, c2}
  Session = {s1, s2}
  Task = {k1, k2}
  Ip = {i1, i2}
  Kinds = {"run", "submit", "warmUp"}
  None = None
  Pending = Pending
  Undated = {k2}
  SpawnTimeout = 1
  RequestTimeout = 0
  Attempts = 1
  LockTtl = 2
  SessionTtl = 2
  MinTaskAge = 2
  CleanupDelay = 1
  StepDelay = 0
  IpReuse = TRUE
SPECIFICATION Spec
SYMMETRY SymmetryButTasks
INVARIANTS CleanupSparesSessions ServedByOwnTask
