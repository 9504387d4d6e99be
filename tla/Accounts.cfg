\* Each request is made once: when all are done the model stops.
SPECIFICATION Spec
CONSTANTS
  p1 = p1  p2 = p2  member = member
  r1 = r1  r2 = r2  r3 = r3
  Requests = {r1, r2, r3}
  OldCode = OldCode
  NoRole = NoRole
  Roles = {NoRole, member}
  Profiles = {p1, p2}
  Validity = 0
  MaxTime = 1
  Faults = TRUE
  None = None
SYMMETRY Interchangeable
INVARIANTS
  TypeOK
  LastWordIsTrue
PROPERTIES
  OneTimeCode
  LostOnlyToOverlap
CHECK_DEADLOCK FALSE
