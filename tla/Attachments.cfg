\* Three frames are sent: when they are answered and the files uploaded, the model stops.
SPECIFICATION FairSpec
CONSTANTS
  ann = ann  bob = bob  a1 = a1  a2 = a2  b1 = b1  p1 = p1  p2 = p2
  Users = {ann, bob}
  Files = {1, 2}
  By <- Uploader
  Sends = {a1, a2, b1}
  Sender <- Author
  Procs = {p1, p2}
  Proc <- Served
  Restarts = TRUE
  None = None
INVARIANTS
  TypeOK
  NoLockCycle
PROPERTIES
  ImplementsClaims
  SendIsAnswered
CHECK_DEADLOCK FALSE
