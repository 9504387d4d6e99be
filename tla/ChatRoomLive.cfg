SPECIFICATION FairSpec
CONSTANTS
  alice = alice  bob = bob  carol = carol
  a1 = a1  b1 = b1  b2 = b2  p1 = p1  p2 = p2
  Users = {alice, bob}
  Procs = {p1}
  Conns = {a1, b1}
  Owner <- TwoOwners
  Proc <- OneProc
  Founders = {}
  Bot = bob
  Movers = {}
  AutoReplies = 1
  HistoryLimit = 1
  Capacity = 1
  OldMsgs <- Empty
  MaxMsgs = 2
  FaultPoints = {}
  Restarts = FALSE
PROPERTIES
  HandlerFinishes
  StoredIsBroadcast
  EventIsDelivered
