SPECIFICATION Spec
CONSTANTS
  alice = alice  bob = bob  carol = carol
  a1 = a1  b1 = b1  b2 = b2  p1 = p1  p2 = p2
  Users = {alice, bob}
  Procs = {p1}
  Conns = {a1, b1}
  Owner <- TwoOwners
  Proc <- OneProc
  Founders = {}
  Bot = bob
  Movers = {}
  AutoReplies = 1
  HistoryLimit = 1
  Capacity = 2
  OldMsgs <- Empty
  MaxMsgs = 3
  FaultPoints = {"created", "replying"}
  Restarts = TRUE
INVARIANTS
  TypeOK
  NoMissedMessage
  SenderOrder
PROPERTIES
  ImplementsBus
  LostOnlyByFault
