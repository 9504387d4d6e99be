\* Each request is made once: when all are done only deletions are left.
SPECIFICATION Spec
CONSTANTS
  w1 = w1  w2 = w2  ann = ann  bob = bob  r1 = r1  r2 = r2  r3 = r3
  Spaces = {w1, w2}
  Channel = Channel
  Group = Group
  Users = {ann, bob}
  Founders = {ann}
  Requests = {r1, r2}
  Jobs <- ToDo
  Faults = TRUE
  None = None
SYMMETRY Interchangeable
INVARIANTS
  TypeOK
  OneDefault
  LastNewsIsTrue
PROPERTIES
  AdmittedFromWorkspace
CHECK_DEADLOCK FALSE
