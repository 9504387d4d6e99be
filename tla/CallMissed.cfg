SPECIFICATION Spec
CONSTANTS
  Users = {ann, bob}
  Creator = ann
  Members = {ann, bob}
  Requests = {r1, r2}
  IsDm = TRUE
  Failing = {}
  Movers = {}
  Faults = FALSE
  Crashes = FALSE
PROPERTIES
  MissedNeverJoined
