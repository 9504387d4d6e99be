SPECIFICATION Spec
CONSTANTS
  alice = alice  bob = bob  carol = carol
  a1 = a1  b1 = b1  b2 = b2  p1 = p1  p2 = p2
  Users = {alice, bob, carol}
  Procs = {p1}
  Conns = {a1, b1, b2}
  Owner <- ThreeOwners
  Proc <- OneProc
  Founders = {alice}
  Bot = bob
  Movers = {bob}
  AutoReplies = 0
  HistoryLimit = 1
  Capacity = 1
  OldMsgs <- BobSpoke
  MaxMsgs = 2
  FaultPoints = {"accepted", "open", "created", "notify", "notifying", "automate", "replying", "leaving"}
  Restarts = TRUE
INVARIANTS
  PresenceMatchesSessions
  NotifiedAtMostOnce
PROPERTIES
  SuppressedIsCovered
  ConnectedNotNotified
  AbsentUnlessLeaked
