CONSTANTS
  Admin = {a1, a2, a3}
  Job = {j1}
  Problem = {p1}
  None = None
  Attempts = 2
  MaxFaults = 0
SPECIFICATION Spec
SYMMETRY Symmetry
PROPERTY CancelledIgnoresResults
CHECK_DEADLOCK FALSE
