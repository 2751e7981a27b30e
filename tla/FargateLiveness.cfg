CONSTANTS
  Caller = {c1, c2}
  Session = {s1}
  Task = {k1, k2}
  Ip = {i1}
  Kinds = {"warmUp"}
  None = None
  Pending = Pending
  Undated = {k2}
  SpawnTimeout = 0
  RequestTimeout = 0
  Attempts = 1
  LockTtl = 1
  SessionTtl = 1
  MinTaskAge = 1
  CleanupDelay = 0
  StepDelay = 0
  IpReuse = TRUE
SPECIFICATION FairSpec
PROPERTIES EveryRequestEnds LockEventuallyFree TasksTerminate
