CONSTANTS
  Problem = {p1, p2}
  Slug = {s1, s2}
  Link = {l1}
  Build = {b1, b2}
  Request = {r1}
  None = None
  Attempts = 2
SPECIFICATION Spec
SYMMETRY Symmetry
CONSTRAINT RetriesBound
INVARIANTS TypeOK PublishedIsPushed UnbuiltIsMinded HealthyIfAlone
CHECK_DEADLOCK FALSE
