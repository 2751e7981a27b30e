CONSTANTS
  Caller = {c1, c2}
  Session = {s1}
  Task = {k1, k2}
  Ip = {i1}
  Kinds = {"submit"}
  None = None
  Pending = Pending
  Undated = {}
  SpawnTimeout = 1
  RequestTimeout = 1
  Attempts = 2
  LockTtl = 4
  SessionTtl = 1
  MinTaskAge = 8
  CleanupDelay = 1
  StepDelay = 1
  IpReuse = TRUE
SPECIFICATION Spec
SYMMETRY Symmetry
INVARIANTS TypeOK SpawnMutex CleanupSparesSessions
PROPERTY EndsInTime
