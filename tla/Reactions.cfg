SPECIFICATION FairSpec
CONSTANTS
  ann = ann  bob = bob  a1 = a1  b1 = b1  b2 = b2  p1 = p1  p2 = p2  like = like
  Users = {ann, bob}
  Procs = {p1, p2}
  Conns = {a1, b1, b2}
  Owner <- Devices
  Proc <- Placed
  Emojis = {like}
  Author = ann
  MaxFrames = 2
  Faults = TRUE
INVARIANTS
  TypeOK
  LatestReachesAll
  OnlyOvertakenIsStale
  AuthorSeesIt
PROPERTIES
  Settles
