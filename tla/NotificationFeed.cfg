SPECIFICATION FairSpec
CONSTANTS
  ann = ann  bob = bob  n1 = n1  n2 = n2  n3 = n3
  role = role  single = single  s1 = s1  s2 = s2
  Users = {ann, bob}
  Notes = {n1, n2, n3}
  For <- Addressee
  Writers = {role, single}
  Work <- TwoCalls
  Sessions = {s1}
  Owner <- AnnTwice
  Capacity = 1
  Reachable = {ann}
  MaxRetries = 1
  Faults = TRUE
INVARIANTS
  TypeOK
  PushOnlyStored
  ShownUnlessInFlight
PROPERTIES
  StoredIsPushed
  ImplementsOutbox
