CONSTANTS
  Admin = {a1, a2, a3}
  Job = {j1, j2}
  Problem = {p1, p2}
  None = None
  Attempts = 2
  MaxFaults = 1
SPECIFICATION FairSpec
INVARIANTS TypeOK NobodyWaitsInVain RowsHold CompletedHasProblem ProblemsOwned
PROPERTIES CancelIsFinal JobsSettle
CHECK_DEADLOCK FALSE
