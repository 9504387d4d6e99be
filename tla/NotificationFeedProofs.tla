------------------------ MODULE NotificationFeedProofs ------------------------
(***************************************************************************)
(* Theorems about NotificationFeed for every set of notifications, calls   *)
(* and sessions and every max_retries.                                     *)
(***************************************************************************)
EXTENDS NotificationFeed, TLAPS

\* What has been pushed, by the state of the task.
PushCount ==
  \A n \in Notes :
    /\ task[n] \in {"none", "due"} => pushed[n] = 0
    /\ task[n] = "queued" => pushed[n] <= tries[n]
    /\ pushed[n] <= tries[n] + 1

\* An announced row is shown, was open when the session read its init frame, or was dropped.
AnnouncedIsShown ==
  \A s \in Sessions, n \in Notes :
    stage[s] = "open" /\ note[n] \in {"sent", "stored"} /\ For[n] = Owner[s]
      => Shown(s, n) \/ n \in inFlight[s] \/ n \in dropped[s]

\* What is rolled back is a whole call.
RolledBackWhole ==
  \A w \in Writers :
    (\E n \in Work[w] : note[n] = "undone") => \A n \in Work[w] : note[n] = "undone"

PushedIsStored ==
  \A n \in Notes : task[n] # "none" \/ pushed[n] > 0 => note[n] = "stored" /\ n \in allowed

\* From the send on the task knows of it: a done task has sent, and so has one at "sending";
\* only the push to a user without an active device is skipped.
PushUnderWay ==
  \A n \in Notes :
    /\ note[n] = "stored" /\ n \in allowed => task[n] # "none"
    /\ task[n] \in {"sending", "done"} => pushed[n] > 0
    /\ task[n] = "skipped" => For[n] \notin Reachable

IInv ==
  /\ TypeOK
  /\ AllOrNothing
  /\ RolledBackWhole
  /\ PushedIsStored
  /\ PushCount
  /\ PushUnderWay
  /\ AnnouncedIsShown

LEMMA InitIInv == Init => IInv
<1> SUFFICES ASSUME Init PROVE IInv
  OBVIOUS
<1> USE FeedAssumption DEF Init
<1>1. TypeOK
  BY DEF TypeOK
<1>2. AllOrNothing /\ RolledBackWhole
  BY DEF AllOrNothing, RolledBackWhole
<1>3. PushedIsStored /\ PushCount
  BY DEF PushedIsStored, PushCount
<1>4. AnnouncedIsShown
  BY DEF AnnouncedIsShown
<1>5. PushUnderWay
  BY DEF PushUnderWay
<1>6. QED
  BY <1>1, <1>2, <1>3, <1>4, <1>5 DEF IInv

\* A group send leaves each event of a receiver in the channel or among the dropped ones.
LEMMA GroupSendStep ==
  ASSUME TypeOK, NEW n \in Notes, NEW receivers \in SUBSET Sessions, GroupSend(n, receivers)
  PROVE  /\ waiting' \in [Sessions -> SUBSET Notes]
         /\ dropped' \in [Sessions -> SUBSET Notes]
         /\ events' = events
         /\ \A s \in Sessions :
              /\ waiting[s] \subseteq waiting'[s] \cup dropped'[s]
              /\ dropped[s] \subseteq dropped'[s]
              /\ s \in receivers => n \in waiting'[s] \cup dropped'[s]
<1> USE DEF TypeOK
<1>1. PICK loss \in [receivers -> UNION {Overflow(s, n) : s \in receivers}] :
        /\ \A s \in receivers : loss[s] \in Overflow(s, n)
        /\ waiting' = [s \in Sessions |->
             IF s \in receivers THEN (waiting[s] \cup {n}) \ loss[s] ELSE waiting[s]]
        /\ dropped' = [s \in Sessions |->
             IF s \in receivers THEN dropped[s] \cup loss[s] ELSE dropped[s]]
        /\ UNCHANGED events
  BY DEF GroupSend
<1>2. \A s \in receivers : loss[s] \in SUBSET Notes
  <2>1. \A s \in receivers : Overflow(s, n) \subseteq SUBSET Notes
    BY DEF Overflow
  <2>2. QED
    BY <1>1, <2>1
<1>3. QED
  BY <1>1, <1>2

LEMMA ReceiversStep ==
  ASSUME NEW n \in Notes
  PROVE  Receivers(n) \in SUBSET Sessions
BY DEF Receivers

LEMMA TypeStep ==
  ASSUME TypeOK, [Next]_vars
  PROVE  TypeOK'
<1> USE FeedAssumption DEF TypeOK, session, channels, push
<1>1. ASSUME NEW w \in Writers, NEW n \in Work[w], Create(w, n) PROVE TypeOK'
  BY <1>1 DEF Create, Uncommitted
<1>2. ASSUME NEW w \in Writers, Commit(w) \/ Rollback(w) PROVE TypeOK'
  BY <1>2 DEF Commit, Rollback
<1>3. ASSUME NEW n \in Notes, Announce(n) PROVE TypeOK'
  <2>1. /\ waiting' \in [Sessions -> SUBSET Notes]
        /\ dropped' \in [Sessions -> SUBSET Notes]
        /\ events' = events
    BY <1>3, GroupSendStep, ReceiversStep DEF Announce
  <2>2. QED
    BY <1>3, <2>1 DEF Announce, Uncommitted
<1>4. ASSUME NEW n \in Notes, PushStep(n) \/ PushDies(n) PROVE TypeOK'
  BY <1>4 DEF PushStep, Dispatch, SendPush, PushDone, PushDies, Sends, Skips, Swallows
<1>5. ASSUME NEW n \in Notes, Retry(n) PROVE TypeOK'
  BY <1>5 DEF Retry
<1>6. ASSUME NEW s \in Sessions,
             Connect(s) \/ SendInit(s) \/ Disconnect(s) \/ \E n \in Notes : Receive(s, n)
      PROVE  TypeOK'
  BY <1>6 DEF Connect, SendInit, Disconnect, Receive
<1>7. CASE UNCHANGED vars
  BY <1>7 DEF vars
<1>8. QED
  BY <1>1, <1>2, <1>3, <1>4, <1>5, <1>6, <1>7 DEF Next

LEMMA RowsStep ==
  ASSUME TypeOK, AllOrNothing, [Next]_vars
  PROVE  AllOrNothing'
<1> USE FeedAssumption DEF TypeOK, AllOrNothing, session, channels, push
<1>1. ASSUME NEW w \in Writers, NEW n \in Work[w], Create(w, n) PROVE AllOrNothing'
  BY <1>1 DEF Create
<1>2. ASSUME NEW w \in Writers, Commit(w) PROVE AllOrNothing'
  <2>1. ASSUME NEW v \in Writers
        PROVE  (\A n \in Work[v] : note'[n] = "stored") \/ (\A n \in Work[v] : note'[n] # "stored")
    <3>1. CASE v = w
      BY <1>2, <3>1 DEF Commit
    <3>2. CASE v # w
      BY <1>2, <3>2 DEF Commit
    <3>3. QED
      BY <3>1, <3>2
  <2>2. QED
    BY <2>1
<1>3. ASSUME NEW w \in Writers, Rollback(w) PROVE AllOrNothing'
  <2>1. ASSUME NEW v \in Writers
        PROVE  (\A n \in Work[v] : note'[n] = "stored") \/ (\A n \in Work[v] : note'[n] # "stored")
    <3>1. CASE v = w
      BY <1>3, <3>1 DEF Rollback
    <3>2. CASE v # w
      BY <1>3, <3>2 DEF Rollback
    <3>3. QED
      BY <3>1, <3>2
  <2>2. QED
    BY <2>1
<1>4. ASSUME NEW n \in Notes, Announce(n) PROVE AllOrNothing'
  BY <1>4 DEF Announce
<1>5. ASSUME NEW n \in Notes, PushStep(n) \/ Retry(n) \/ PushDies(n) PROVE AllOrNothing'
  BY <1>5 DEF PushStep, Dispatch, SendPush, PushDone, PushDies, Retry, Sends, Skips, Swallows
<1>6. ASSUME NEW s \in Sessions,
             Connect(s) \/ SendInit(s) \/ Disconnect(s) \/ \E n \in Notes : Receive(s, n)
      PROVE  AllOrNothing'
  BY <1>6 DEF Connect, SendInit, Disconnect, Receive
<1>7. CASE UNCHANGED vars
  BY <1>7 DEF vars
<1>8. QED
  BY <1>1, <1>2, <1>3, <1>4, <1>5, <1>6, <1>7 DEF Next

LEMMA UndoneStep ==
  ASSUME TypeOK, RolledBackWhole, [Next]_vars
  PROVE  RolledBackWhole'
<1> USE FeedAssumption DEF TypeOK, RolledBackWhole, session, channels, push
<1>1. ASSUME NEW w \in Writers, NEW n \in Work[w], Create(w, n) PROVE RolledBackWhole'
  BY <1>1 DEF Create
<1>2. ASSUME NEW w \in Writers, Commit(w) PROVE RolledBackWhole'
  BY <1>2 DEF Commit
<1>3. ASSUME NEW w \in Writers, Rollback(w) PROVE RolledBackWhole'
  <2>1. ASSUME NEW v \in Writers, NEW n \in Work[v], note'[n] = "undone"
        PROVE  \A m \in Work[v] : note'[m] = "undone"
    <3>1. CASE v = w
      BY <1>3, <3>1 DEF Rollback
    <3>2. CASE v # w
      BY <1>3, <2>1, <3>2 DEF Rollback
    <3>3. QED
      BY <3>1, <3>2
  <2>2. QED
    BY <2>1
<1>4. ASSUME NEW n \in Notes, Announce(n) PROVE RolledBackWhole'
  BY <1>4 DEF Announce
<1>5. ASSUME NEW n \in Notes, PushStep(n) \/ Retry(n) \/ PushDies(n) PROVE RolledBackWhole'
  BY <1>5 DEF PushStep, Dispatch, SendPush, PushDone, PushDies, Retry, Sends, Skips, Swallows
<1>6. ASSUME NEW s \in Sessions,
             Connect(s) \/ SendInit(s) \/ Disconnect(s) \/ \E n \in Notes : Receive(s, n)
      PROVE  RolledBackWhole'
  BY <1>6 DEF Connect, SendInit, Disconnect, Receive
<1>7. CASE UNCHANGED vars
  BY <1>7 DEF vars
<1>8. QED
  BY <1>1, <1>2, <1>3, <1>4, <1>5, <1>6, <1>7 DEF Next

LEMMA PushedStep ==
  ASSUME TypeOK, AllOrNothing, PushedIsStored, PushCount, [Next]_vars
  PROVE  PushedIsStored' /\ PushCount'
<1> USE FeedAssumption DEF TypeOK, PushedIsStored, PushCount, session, channels, push
<1>1. ASSUME NEW w \in Writers, NEW n \in Work[w], Create(w, n)
      PROVE  PushedIsStored' /\ PushCount'
  BY <1>1 DEF Create
<1>2. ASSUME NEW w \in Writers, Commit(w)
      PROVE  PushedIsStored' /\ PushCount'
  <2>1. \A n \in Work[w] : task[n] = "none" /\ pushed[n] = 0
    BY <1>2 DEF Commit
  <2>2. QED
    BY <1>2, <2>1 DEF Commit
<1>3. ASSUME NEW w \in Writers, Rollback(w)
      PROVE  PushedIsStored' /\ PushCount'
  <2>1. \A n \in Work[w] : note[n] # "stored"
    BY <1>3 DEF Rollback, AllOrNothing, Uncommitted
  <2>2. QED
    BY <1>3, <2>1 DEF Rollback
<1>4. ASSUME NEW n \in Notes, Announce(n)
      PROVE  PushedIsStored' /\ PushCount'
  BY <1>4 DEF Announce
<1>5. ASSUME NEW n \in Notes, Dispatch(n) \/ SendPush(n)
      PROVE  PushedIsStored' /\ PushCount'
  BY <1>5 DEF Dispatch, SendPush, Sends, Skips, Swallows
<1>6. ASSUME NEW n \in Notes, PushDone(n) \/ PushDies(n)
      PROVE  PushedIsStored' /\ PushCount'
  BY <1>6 DEF PushDone, PushDies
<1>7. ASSUME NEW n \in Notes, Retry(n)
      PROVE  PushedIsStored' /\ PushCount'
  BY <1>7 DEF Retry
<1>8. ASSUME NEW s \in Sessions,
             Connect(s) \/ SendInit(s) \/ Disconnect(s) \/ \E n \in Notes : Receive(s, n)
      PROVE  PushedIsStored' /\ PushCount'
  BY <1>8 DEF Connect, SendInit, Disconnect, Receive
<1>9. CASE UNCHANGED vars
  BY <1>9 DEF vars
<1>10. QED
  BY <1>1, <1>2, <1>3, <1>4, <1>5, <1>6, <1>7, <1>8, <1>9 DEF Next, PushStep

LEMMA ShownStep ==
  ASSUME TypeOK, AnnouncedIsShown, [Next]_vars
  PROVE  AnnouncedIsShown'
<1> USE FeedAssumption DEF TypeOK, AnnouncedIsShown, Shown, session, channels, push
<1>1. ASSUME NEW w \in Writers, NEW n \in Work[w], Create(w, n) PROVE AnnouncedIsShown'
  BY <1>1 DEF Create
<1>2. ASSUME NEW w \in Writers, Commit(w) \/ Rollback(w) PROVE AnnouncedIsShown'
  BY <1>2 DEF Commit, Rollback
<1>3. ASSUME NEW n \in Notes, Announce(n) PROVE AnnouncedIsShown'
  <2>1. /\ events' = events
        /\ \A s \in Sessions :
             /\ waiting[s] \subseteq waiting'[s] \cup dropped'[s]
             /\ dropped[s] \subseteq dropped'[s]
             /\ s \in Receivers(n) => n \in waiting'[s] \cup dropped'[s]
    BY <1>3, GroupSendStep, ReceiversStep DEF Announce
  <2>2. /\ UNCHANGED <<stage, items, inFlight>>
        /\ \A m \in Notes \ {n} : note'[m] = note[m]
    BY <1>3 DEF Announce
  <2>3. \A s \in Sessions : stage[s] = "open" /\ For[n] = Owner[s] => s \in Receivers(n)
    BY DEF Receivers
  <2>4. QED
    BY <2>1, <2>2, <2>3
<1>4. ASSUME NEW n \in Notes, PushStep(n) \/ Retry(n) \/ PushDies(n) PROVE AnnouncedIsShown'
  BY <1>4 DEF PushStep, Dispatch, SendPush, PushDone, PushDies, Retry, Sends, Skips, Swallows
<1>5. ASSUME NEW s \in Sessions, Connect(s) \/ Disconnect(s) \/ \E n \in Notes : Receive(s, n)
      PROVE  AnnouncedIsShown'
  BY <1>5 DEF Connect, Disconnect, Receive
<1>6. ASSUME NEW s \in Sessions, SendInit(s) PROVE AnnouncedIsShown'
  BY <1>6 DEF SendInit, Uncommitted
<1>7. CASE UNCHANGED vars
  BY <1>7 DEF vars
<1>8. QED
  BY <1>1, <1>2, <1>3, <1>4, <1>5, <1>6, <1>7 DEF Next

LEMMA UnderWayStep ==
  ASSUME TypeOK, PushUnderWay, [Next]_vars
  PROVE  PushUnderWay'
<1> USE FeedAssumption DEF TypeOK, PushUnderWay, session, channels, push
<1>1. ASSUME NEW w \in Writers, NEW n \in Work[w], Create(w, n) PROVE PushUnderWay'
  BY <1>1 DEF Create
<1>2. ASSUME NEW w \in Writers, Commit(w) PROVE PushUnderWay'
  BY <1>2 DEF Commit
<1>3. ASSUME NEW w \in Writers, Rollback(w) PROVE PushUnderWay'
  BY <1>3 DEF Rollback
<1>4. ASSUME NEW n \in Notes, Announce(n) PROVE PushUnderWay'
  BY <1>4 DEF Announce
<1>5. ASSUME NEW n \in Notes, Dispatch(n) \/ SendPush(n) PROVE PushUnderWay'
  BY <1>5 DEF Dispatch, SendPush, Sends, Skips, Swallows
<1>6. ASSUME NEW n \in Notes, PushDone(n) \/ PushDies(n) \/ Retry(n) PROVE PushUnderWay'
  BY <1>6 DEF PushDone, PushDies, Retry
<1>7. ASSUME NEW s \in Sessions,
             Connect(s) \/ SendInit(s) \/ Disconnect(s) \/ \E n \in Notes : Receive(s, n)
      PROVE  PushUnderWay'
  BY <1>7 DEF Connect, SendInit, Disconnect, Receive
<1>8. CASE UNCHANGED vars
  BY <1>8 DEF vars
<1>9. QED
  BY <1>1, <1>2, <1>3, <1>4, <1>5, <1>6, <1>7, <1>8 DEF Next, PushStep

LEMMA Inductive == Spec => []IInv
<1>1. IInv /\ [Next]_vars => IInv'
  BY TypeStep, RowsStep, UndoneStep, PushedStep, UnderWayStep, ShownStep DEF IInv
<1>2. QED
  BY <1>1, InitIInv, PTL DEF Spec

\* Every variable keeps its type; a task is never retried more than max_retries times.
THEOREM TypeCorrect == Spec => []TypeOK
<1>1. IInv => TypeOK
  BY DEF IInv
<1>2. QED
  BY <1>1, Inductive, PTL

\* A call stores all of its notifications or none.
THEOREM RoleIsAtomic == Spec => []AllOrNothing
<1>1. IInv => AllOrNothing
  BY DEF IInv
<1>2. QED
  BY <1>1, Inductive, PTL

\* Only stored notifications of users who allowed it are pushed, and at most
\* max_retries + 1 times.
THEOREM PushAfterCommit == Spec => []PushOnlyStored
<1>1. IInv => PushOnlyStored
  BY FeedAssumption DEF IInv, TypeOK, PushCount, PushedIsStored, PushOnlyStored
<1>2. QED
  BY <1>1, Inductive, PTL

\* However connects, broadcasts, commits and overflows interleave, an open transaction and a
\* full channel layer are the only two ways in which a session misses a stored row.
THEOREM OnlyGapIsInFlight == Spec => []ShownUnlessInFlight
<1>1. IInv => ShownUnlessInFlight
  BY DEF IInv, AnnouncedIsShown, ShownUnlessInFlight
<1>2. QED
  BY <1>1, Inductive, PTL

\* The safety core of StoredIsPushed: the commit that stores a notification leaves a task
\* behind, and that task is done with a send, skipped for a user whom FCM cannot push to, or
\* lost to an error.
THEOREM NoPushForgotten == Spec => []PushNotForgotten
<1>1. IInv => PushNotForgotten
  BY DEF IInv, PushUnderWay, PushNotForgotten
<1>2. QED
  BY <1>1, Inductive, PTL

(***************************************************************************)
(* The services keep the promise of Outbox                                 *)
(***************************************************************************)
Stored == {n \in Notes : note[n] = "stored"}
Undone == {n \in Notes : note[n] = "undone"}
ToPush == {n \in allowed : note[n] = "stored"}
Owed   == {n \in Notes : task[n] \in {"due", "queued", "sending"}}
Skipped == {n \in Notes : task[n] = "skipped"}
PushesLost == {n \in Notes : task[n] = "lost"}

LEMMA BoxInit == Init => Box!Init
BY DEF Init, Box!Init

LEMMA StoreStep ==
  ASSUME IInv, NEW w \in Writers, Commit(w),
         NEW pick \in SUBSET Notes, pick = Work[w] \cap allowed
  PROVE  Box!Store(w, pick)
<1> USE FeedAssumption DEF IInv, TypeOK
<1>1. \A n \in Work[w] : note[n] = "sent" /\ task[n] = "none"
  BY DEF Commit, PushedIsStored
<1>2. Stored' = Stored \cup Work[w] /\ Undone' = Undone
  BY <1>1 DEF Commit, Stored, Undone
<1>3. /\ Owed' = Owed \cup pick /\ ToPush' = ToPush \cup pick
      /\ Skipped' = Skipped /\ PushesLost' = PushesLost
  BY <1>1 DEF Commit, Owed, Skipped, PushesLost, ToPush
<1>4. Work[w] \cap (Stored \cup Undone) = {}
  BY <1>1 DEF Stored, Undone
<1>5. QED
  BY <1>2, <1>3, <1>4 DEF Commit, session, Box!Store, Box!Undecided, Stored, Undone, ToPush, Owed,
                             Skipped, PushesLost

LEMMA UndoStep ==
  ASSUME IInv, NEW w \in Writers, Rollback(w)
  PROVE  Box!Refuse(w)
<1> USE FeedAssumption DEF IInv, TypeOK
<1>1. \A n \in Work[w] : note[n] \notin {"stored", "undone"}
  <2>1. \A n \in Work[w] : note[n] # "stored"
    BY DEF Rollback, AllOrNothing, Uncommitted
  <2>2. \A n \in Work[w] : note[n] # "undone"
    BY DEF Rollback, RolledBackWhole, Uncommitted
  <2>3. QED
    BY <2>1, <2>2
<1>2. Stored' = Stored /\ Undone' = Undone \cup Work[w] /\ ToPush' = ToPush
  BY <1>1 DEF Rollback, Stored, Undone, ToPush
<1>3. Work[w] \cap (Stored \cup Undone) = {}
  BY <1>1 DEF Stored, Undone
<1>4. QED
  BY <1>2, <1>3 DEF Rollback, session, push, Box!Refuse, Box!Undecided, Stored, Undone, ToPush

UnderWay == {"due", "queued", "sending"}

\* A task that is under way goes on, is over, is skipped or is lost.
LEMMA TaskStep ==
  ASSUME TypeOK, NEW n \in Notes, task[n] \in UnderWay,
         NEW t \in UnderWay \cup {"done", "skipped", "lost"}, task' = [task EXCEPT ![n] = t]
  PROVE  /\ n \in Owed
         /\ Owed' = IF t \in UnderWay THEN Owed ELSE Owed \ {n}
         /\ Skipped' = IF t = "skipped" THEN Skipped \cup {n} ELSE Skipped
         /\ PushesLost' = IF t = "lost" THEN PushesLost \cup {n} ELSE PushesLost
BY DEF TypeOK, Owed, Skipped, PushesLost, UnderWay

\* The sets of Outbox that a step of the push leaves alone.
LEMMA RowsStay ==
  ASSUME UNCHANGED <<note, allowed>>
  PROVE  Stored' = Stored /\ Undone' = Undone /\ ToPush' = ToPush
BY DEF Stored, Undone, ToPush

\* Before the send a task may push once more.
LEMMA OneMorePush ==
  ASSUME IInv, NEW n \in Notes, task[n] \in {"due", "queued"}
  PROVE  pushed[n] < MaxRetries + 1
<1>1. /\ pushed[n] \in Nat /\ tries[n] \in Nat /\ MaxRetries \in Nat /\ tries[n] <= MaxRetries
      /\ pushed[n] <= tries[n]
  BY FeedAssumption DEF IInv, TypeOK, PushCount
<1>2. QED
  BY <1>1

LEMMA SendIsPush ==
  ASSUME IInv, NEW n \in Notes, task[n] \in {"due", "queued"},
         NEW t \in {"sending", "done"}, Sends(n, t),
         UNCHANGED <<note, allowed, items>>
  PROVE  Box!Push(n)
<1>1. /\ n \in Owed /\ Owed' \in {Owed, Owed \ {n}}
      /\ Skipped' = Skipped /\ PushesLost' = PushesLost
  BY TaskStep DEF UnderWay, Sends, IInv
<1>2. pushed[n] < MaxRetries + 1
  BY OneMorePush
<1>3. Box!Pushes(n)
  BY <1>2 DEF Sends, Box!Pushes
<1>4. QED
  BY <1>1, <1>3, RowsStay DEF Box!Push, Stored, Undone, ToPush, Owed, Skipped, PushesLost

LEMMA SkipIsWaive ==
  ASSUME IInv, NEW n \in Notes, task[n] \in {"due", "queued"}, Skips(n),
         UNCHANGED <<note, allowed, items>>
  PROVE  Box!Waive(n)
<1>1. task[n] \in UnderWay /\ "skipped" \in UnderWay \cup {"done", "skipped", "lost"}
  BY DEF UnderWay
<1>2. /\ n \in Owed /\ Owed' = Owed \ {n}
      /\ Skipped' = Skipped \cup {n} /\ PushesLost' = PushesLost
  BY <1>1, TaskStep DEF UnderWay, Skips, IInv
<1>3. QED
  BY <1>2, RowsStay DEF Skips, Box!Waive, Stored, Undone, ToPush, Owed, Skipped, PushesLost

LEMMA SwallowIsLose ==
  ASSUME IInv, NEW n \in Notes, task[n] \in {"due", "queued"}, Swallows(n),
         UNCHANGED <<note, allowed, items>>
  PROVE  Box!Lose(n)
<1>1. task[n] \in UnderWay /\ "lost" \in UnderWay \cup {"done", "skipped", "lost"}
  BY DEF UnderWay
<1>2. /\ n \in Owed /\ Owed' = Owed \ {n}
      /\ Skipped' = Skipped /\ PushesLost' = PushesLost \cup {n}
  BY <1>1, TaskStep DEF UnderWay, Swallows, IInv
<1>3. Box!Pushes(n) \/ UNCHANGED pushed
  BY OneMorePush DEF Swallows, Box!Pushes
<1>4. QED
  BY <1>2, <1>3, RowsStay DEF Box!Lose, Stored, Undone, ToPush, Owed, Skipped, PushesLost

LEMMA PushOrSettle ==
  ASSUME IInv, NEW n \in Notes, PushStep(n)
  PROVE  Box!Next \/ UNCHANGED Box!vars
<1> USE DEF IInv, session
<1>1. CASE Dispatch(n) /\ task' = [task EXCEPT ![n] = "queued"] /\ UNCHANGED pushed
  <2>1. Owed' = Owed /\ Skipped' = Skipped /\ PushesLost' = PushesLost
    BY <1>1, TaskStep DEF Dispatch, UnderWay
  <2>2. QED
    BY <1>1, <2>1 DEF Dispatch, Box!vars, Owed, Skipped, PushesLost
<1>2. CASE (Dispatch(n) /\ Sends(n, "done")) \/ (SendPush(n) /\ Sends(n, "sending"))
  <2>1. Box!Push(n)
    BY <1>2, SendIsPush DEF Dispatch, SendPush
  <2>2. QED
    BY <2>1 DEF Box!Next
<1>3. CASE (Dispatch(n) \/ SendPush(n)) /\ Skips(n)
  <2>1. Box!Waive(n)
    BY <1>3, SkipIsWaive DEF Dispatch, SendPush
  <2>2. QED
    BY <2>1 DEF Box!Next
<1>4. CASE (Dispatch(n) \/ SendPush(n)) /\ Swallows(n)
  <2>1. Box!Lose(n)
    BY <1>4, SwallowIsLose DEF Dispatch, SendPush
  <2>2. QED
    BY <2>1 DEF Box!Next
<1>5. CASE PushDone(n)
  <2>1. /\ n \in Owed /\ Owed' = Owed \ {n}
        /\ Skipped' = Skipped /\ PushesLost' = PushesLost
    <3>1. task[n] \in UnderWay /\ task' = [task EXCEPT ![n] = "done"]
      BY <1>5 DEF PushDone, UnderWay
    <3>2. /\ "done" \in UnderWay \cup {"done", "skipped", "lost"} /\ "done" \notin UnderWay
          /\ "done" # "lost" /\ "done" # "skipped"
      BY DEF UnderWay
    <3>3. QED
      BY <3>1, <3>2, TaskStep
  <2>2. pushed[n] > 0
    BY <1>5 DEF PushDone, PushUnderWay
  <2>3. Box!Settle(n)
    BY <1>5, <2>1, <2>2 DEF PushDone, Box!Settle, Owed, Skipped, PushesLost
  <2>4. QED
    BY <2>3 DEF Box!Next
<1>6. QED
  BY <1>1, <1>2, <1>3, <1>4, <1>5 DEF PushStep, Dispatch, SendPush

LEMMA RetryOrLose ==
  ASSUME IInv, NEW n \in Notes, Retry(n) \/ PushDies(n)
  PROVE  Box!Next \/ UNCHANGED Box!vars
<1> USE DEF IInv, session
<1>1. UNCHANGED <<note, allowed, pushed, items>> /\ task[n] \in UnderWay
  BY DEF Retry, PushDies, UnderWay
<1>2. CASE task' = [task EXCEPT ![n] = "queued"]
  <2>1. Owed' = Owed /\ Skipped' = Skipped /\ PushesLost' = PushesLost
    BY <1>1, <1>2, TaskStep DEF UnderWay
  <2>2. QED
    BY <1>1, <2>1 DEF Box!vars, Owed, Skipped, PushesLost
<1>3. CASE task' = [task EXCEPT ![n] = "lost"]
  <2>1. /\ n \in Owed /\ Owed' = Owed \ {n}
        /\ Skipped' = Skipped /\ PushesLost' = PushesLost \cup {n}
    BY <1>1, <1>3, TaskStep DEF UnderWay
  <2>2. Box!Lose(n)
    BY <1>1, <2>1 DEF Box!Lose, Owed, Skipped, PushesLost
  <2>3. QED
    BY <2>2 DEF Box!Next
<1>4. QED
  BY <1>2, <1>3 DEF Retry, PushDies

LEMMA BoxStep ==
  ASSUME IInv, [Next]_vars
  PROVE  [Box!Next]_(Box!vars)
<1> USE FeedAssumption DEF IInv, TypeOK, session, channels, push
<1>1. ASSUME NEW w \in Writers, NEW n \in Work[w], Create(w, n) PROVE UNCHANGED Box!vars
  <2>1. Stored' = Stored /\ Undone' = Undone /\ ToPush' = ToPush
    BY <1>1 DEF Create, Stored, Undone, ToPush
  <2>2. QED
    BY <1>1, <2>1 DEF Create, Box!vars, Stored, Undone, ToPush
<1>2. ASSUME NEW n \in Notes, Announce(n) PROVE UNCHANGED Box!vars
  <2>1. Stored' = Stored /\ Undone' = Undone /\ ToPush' = ToPush
    BY <1>2 DEF Announce, Stored, Undone, ToPush
  <2>2. QED
    BY <1>2, <2>1 DEF Announce, Box!vars, Stored, Undone, ToPush
<1>3. ASSUME NEW w \in Writers, Commit(w) PROVE Box!Next
  <2>1. PICK pick \in SUBSET Notes : pick = Work[w] \cap allowed
    OBVIOUS
  <2>2. Box!Store(w, pick)
    BY <1>3, <2>1, StoreStep
  <2>3. QED
    BY <2>2 DEF Box!Next
<1>4. ASSUME NEW w \in Writers, Rollback(w) PROVE Box!Next
  BY <1>4, UndoStep DEF Box!Next
<1>5. ASSUME NEW n \in Notes, PushStep(n) \/ Retry(n) \/ PushDies(n)
      PROVE  [Box!Next]_(Box!vars)
  BY <1>5, PushOrSettle, RetryOrLose
<1>6. ASSUME NEW s \in Sessions, Connect(s) \/ \E n \in Notes : Receive(s, n)
      PROVE  UNCHANGED Box!vars
  BY <1>6 DEF Connect, Receive, Box!vars
<1>7. ASSUME NEW s \in Sessions, SendInit(s) PROVE Box!Next
  <2>1. {n \in Notes : For[n] = Owner[s] /\ note[n] = "stored"} = {n \in Stored : For[n] = Owner[s]}
    BY DEF Stored
  <2>2. Box!Open(s)
    BY <1>7, <2>1 DEF SendInit, Box!Open, Box!Show, Stored
  <2>3. QED
    BY <2>2 DEF Box!Next
<1>8. ASSUME NEW s \in Sessions, Disconnect(s) PROVE Box!Next
  <2>1. Box!Close(s)
    BY <1>8 DEF Disconnect, Box!Close, Box!Show
  <2>2. QED
    BY <2>1 DEF Box!Next
<1>9. CASE UNCHANGED vars
  BY <1>9 DEF vars, Box!vars
<1>10. QED
  BY <1>1, <1>2, <1>3, <1>4, <1>5, <1>6, <1>7, <1>8, <1>9 DEF Next

\* The create functions with their broadcasts inside the transaction, the hooks after it and
\* Celery's retries implement an outbox whose calls happen at one moment.
THEOREM FeedIsAnOutbox == Spec => ImplementsOutbox
<1>1. QED
  BY BoxInit, BoxStep, Inductive, PTL DEF Spec, ImplementsOutbox, Box!Spec
=============================================================================
