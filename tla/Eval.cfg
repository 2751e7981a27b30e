CONSTANTS
  Request = {r1, r2, r3, r4}
  Area = {x, y}
  NoArea = NoArea
  Other = Other
  Time = {2, 4, 7}
  MinTime = 2
  Base = 2
  NoSession = NoSession
  NoReport = NoReport
SPECIFICATION Spec
SYMMETRY Symmetry
INVARIANTS TypeOK TurnBudget SessionsCoherent ReportComplete
PROPERTY ClosedIsFinal
CHECK_DEADLOCK FALSE
