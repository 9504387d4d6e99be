SPECIFICATION FairSpec
CONSTANTS
  Users = {ann, bob, cy}
  Creator = ann
  Members = {ann, bob, cy}
  Requests = {r1, r2}
  IsDm = FALSE
  Failing = {cy}
  Movers = {cy}
  Faults = TRUE
  Crashes = TRUE
INVARIANTS
  TypeOK
  Attendance
  NobodyForgotten
PROPERTIES
  ImplementsLife
  EndIsAnnounced
