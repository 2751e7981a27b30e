CONSTANTS
  Request = {r1, r2}
  Api = api
  Design = {d1, d2}
  Challenge = {c1}
  r1 = r1
  r2 = r2
  c1 = c1
  d1 = d1
  d2 = d2
  java = java
  easy = easy
  hard = hard
  g1 = g1
  g2 = g2
  NameOf <- OneName
  node = node
  Lang = {java, node}
  Checks <- MCChecks
  Tier = {easy, hard}
  Tag = {g1, g2}
  TierOf <- MCTierOf
  Asks <- MCAsks
  SkeletonRetries = 1
  DeltaRetries = 1
  GoldRetries = 1
  MaxFaults = 1
  None = None
SPECIFICATION Spec
INVARIANTS TypeOK NoOrphans PayloadBacked  OneDesign
PROPERTIES DoneObjectsSafe PipelineAdvances ImplementsPromise
CHECK_DEADLOCK FALSE
