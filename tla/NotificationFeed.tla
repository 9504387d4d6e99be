--------------------------- MODULE NotificationFeed ---------------------------
(***************************************************************************)
(* Notification/services.py, consumers.py and tasks.py: notifications are  *)
(* stored by transactions of their callers, broadcast over the websocket   *)
(* from inside the transaction and pushed by Celery after it.  A user's    *)
(* sessions learn of a notification from the `notifications.init` frame or *)
(* from a `notification.new` event.                                        *)
(***************************************************************************)
EXTENDS Naturals, FiniteSets

CONSTANTS
  Users,
  Notes,       \* notifications that may be created
  For,         \* the user of each
  Writers,     \* calls of the two create functions, each a transaction
  Work,        \* what each creates: one note, or one per user of a role
  Sessions,    \* NotificationsConsumer sockets
  Owner,       \* the user of each
  Capacity,    \* events the channel layer keeps for sessions that have not read them
  Reachable,   \* users to whom FCM can push: configured, switched on, an active device
  MaxRetries,  \* max_retries of send_push_notification
  Faults       \* whether calls may raise and processes may die

ASSUME FeedAssumption ==
  /\ For \in [Notes -> Users]
  /\ Work \in [Writers -> SUBSET Notes]
  /\ \A v, w \in Writers : v # w => Work[v] \cap Work[w] = {}
  /\ Owner \in [Sessions -> Users]
  /\ Capacity \in Nat \ {0}
  /\ Reachable \subseteq Users
  /\ MaxRetries \in Nat
  /\ Faults \in BOOLEAN

VARIABLES
  note,      \* how far the row of each notification is
  allowed,   \* notes whose _user_allows_push() was true
  stage,     \* how far each session is in connect()
  items,     \* notes in the init frame of a session
  waiting,   \* events in the channel of a session
  events,    \* events the session has sent on to its client
  dropped,   \* history: events of the session that the channel layer dropped
  inFlight,  \* notes that were not committed when a session read its init frame
  task,      \* the push of each note: on_commit hook, then Celery task
  tries,     \* retries of the task
  pushed     \* how often FCM was asked to push the note

channels == <<waiting, events, dropped>>
session  == <<stage, items, channels, inFlight>>
push     == <<task, tries, pushed>>
vars     == <<note, allowed, session, push>>

\* A row is inserted, then broadcast, then committed with its transaction.
Uncommitted == {"inserted", "sent"}

TypeOK ==
  /\ note \in [Notes -> {"none", "stored", "undone"} \cup Uncommitted]
  /\ allowed \subseteq Notes
  /\ stage \in [Sessions -> {"idle", "grouped", "open"}]
  /\ items \in [Sessions -> SUBSET Notes]
  /\ waiting \in [Sessions -> SUBSET Notes]
  /\ events \in [Sessions -> SUBSET Notes]
  /\ dropped \in [Sessions -> SUBSET Notes]
  /\ inFlight \in [Sessions -> SUBSET Notes]
  /\ task \in [Notes -> {"none", "due", "queued", "sending", "done", "skipped", "lost"}]
  /\ tries \in [Notes -> 0..MaxRetries]
  /\ pushed \in [Notes -> Nat]

Init ==
  /\ note = [n \in Notes |-> "none"]
  /\ allowed = {}
  /\ stage = [s \in Sessions |-> "idle"]
  /\ items = [s \in Sessions |-> {}]
  /\ waiting = [s \in Sessions |-> {}]
  /\ events = [s \in Sessions |-> {}]
  /\ dropped = [s \in Sessions |-> {}]
  /\ inFlight = [s \in Sessions |-> {}]
  /\ task = [n \in Notes |-> "none"]
  /\ tries = [n \in Notes |-> 0]
  /\ pushed = [n \in Notes |-> 0]

(***************************************************************************)
(* The transactions                                                        *)
(***************************************************************************)

\* The notes of a role are created one after the other.  The system settings and
\* the user's preferences change at any time: either answer of _user_allows_push()
\* is possible.
Create(w, n) ==
  /\ n \in Work[w]
  /\ note[n] = "none"
  /\ \A m \in Work[w] : note[m] \in {"none", "sent"}
  /\ note' = [note EXCEPT ![n] = "inserted"]
  /\ allowed' \in {allowed, allowed \cup {n}}
  /\ UNCHANGED <<session, push>>

Receivers(n) == {s \in Sessions : Owner[s] = For[n] /\ stage[s] # "idle"}

\* What an event more costs: over capacity the layer drops it, or one that waits.
Overflow(s, n) ==
  IF Cardinality(UNION {waiting[t] : t \in Sessions}) < Capacity THEN {{}}
  ELSE {{m} : m \in waiting[s] \cup {n}}

GroupSend(n, receivers) ==
  \E loss \in [receivers -> UNION {Overflow(s, n) : s \in receivers}] :
    /\ \A s \in receivers : loss[s] \in Overflow(s, n)
    /\ waiting' = [s \in Sessions |->
         IF s \in receivers THEN (waiting[s] \cup {n}) \ loss[s] ELSE waiting[s]]
    /\ dropped' = [s \in Sessions |->
         IF s \in receivers THEN dropped[s] \cup loss[s] ELSE dropped[s]]
    /\ UNCHANGED events

\* Mutants: a user without push gets no event either; the push is queued at once.
AnnounceIfAllowed(n) ==
  /\ note[n] = "inserted"
  /\ note' = [note EXCEPT ![n] = "sent"]
  /\ GroupSend(n, IF n \in allowed THEN Receivers(n) ELSE {})
  /\ UNCHANGED <<allowed, stage, items, inFlight, push>>

AnnounceAndPush(n) ==
  /\ note[n] = "inserted"
  /\ note' = [note EXCEPT ![n] = "sent"]
  /\ GroupSend(n, Receivers(n))
  /\ task' = IF n \in allowed THEN [task EXCEPT ![n] = "due"] ELSE task
  /\ UNCHANGED <<allowed, stage, items, inFlight, tries, pushed>>

\* _broadcast_to_user(): group_send to the user's sessions, before the commit.
Announce(n) ==
  /\ note[n] = "inserted"
  /\ note' = [note EXCEPT ![n] = "sent"]
  /\ GroupSend(n, Receivers(n))
  /\ UNCHANGED <<allowed, stage, items, inFlight, push>>

\* The outermost atomic() commits and its on_commit hooks fall due.
Commit(w) ==
  /\ Work[w] # {}
  /\ \A n \in Work[w] : note[n] = "sent"
  /\ note' = [n \in Notes |-> IF n \in Work[w] THEN "stored" ELSE note[n]]
  /\ task' = [n \in Notes |-> IF n \in Work[w] \cap allowed THEN "due" ELSE task[n]]
  /\ UNCHANGED <<allowed, session, tries, pushed>>

\* Mutant: create_notifications_for_role() without its @transaction.atomic.
RollbackLast(w) ==
  /\ Faults
  /\ \E n \in Work[w] : note[n] \in Uncommitted
  /\ note' = [n \in Notes |->
       IF n \in Work[w] THEN IF note[n] = "sent" THEN "stored" ELSE "undone" ELSE note[n]]
  /\ UNCHANGED <<allowed, session, push>>

\* An exception or the death of the process undoes every row of the transaction.
Rollback(w) ==
  /\ Faults
  /\ \E n \in Work[w] : note[n] \in Uncommitted
  /\ note' = [n \in Notes |-> IF n \in Work[w] THEN "undone" ELSE note[n]]
  /\ UNCHANGED <<allowed, session, push>>

(***************************************************************************)
(* NotificationsConsumer: group_add, accept, init frame                    *)
(***************************************************************************)
Connect(s) ==
  /\ stage[s] = "idle"
  /\ stage' = [stage EXCEPT ![s] = "grouped"]
  /\ UNCHANGED <<note, allowed, items, channels, inFlight, push>>

\* HISTORY_LIMIT is larger than the feed.
SendInit(s) ==
  /\ stage[s] = "grouped"
  /\ stage' = [stage EXCEPT ![s] = "open"]
  /\ items' = [items EXCEPT ![s] = {n \in Notes : For[n] = Owner[s] /\ note[n] = "stored"}]
  /\ inFlight' = [inFlight EXCEPT ![s] = {n \in Notes : note[n] \in Uncommitted}]
  /\ UNCHANGED <<note, allowed, channels, push>>

\* notify_event(): events are read only after connect() has returned.
Receive(s, n) ==
  /\ stage[s] = "open"
  /\ n \in waiting[s]
  /\ waiting' = [waiting EXCEPT ![s] = @ \ {n}]
  /\ events' = [events EXCEPT ![s] = @ \cup {n}]
  /\ UNCHANGED <<note, allowed, stage, items, dropped, inFlight, push>>

Disconnect(s) ==
  /\ stage[s] = "open"
  /\ stage' = [stage EXCEPT ![s] = "idle"]
  /\ items' = [items EXCEPT ![s] = {}]
  /\ waiting' = [waiting EXCEPT ![s] = {}]
  /\ events' = [events EXCEPT ![s] = {}]
  /\ dropped' = [dropped EXCEPT ![s] = {}]
  /\ inFlight' = [inFlight EXCEPT ![s] = {}]
  /\ UNCHANGED <<note, allowed, push>>

(***************************************************************************)
(* Push                                                                    *)
(***************************************************************************)
\* What send_push_to_user() comes to.  FCM is asked and the call goes on to `next`:
Sends(n, next) ==
  /\ task' = [task EXCEPT ![n] = next]
  /\ pushed' = [pushed EXCEPT ![n] = @ + 1]

\* push is switched off or not configured, or the user has no active device: 0 is returned;
Skips(n) ==
  /\ For[n] \notin Reachable
  /\ task' = [task EXCEPT ![n] = "skipped"]
  /\ UNCHANGED pushed

\* an exception of the call to FCM is logged and 0 returned, whatever FCM has done.
Swallows(n) ==
  /\ Faults
  /\ task' = [task EXCEPT ![n] = "lost"]
  /\ pushed' \in {pushed, [pushed EXCEPT ![n] = @ + 1]}

\* Mutant: no inline fallback.
DispatchOnly(n) ==
  /\ task[n] = "due"
  /\ \/ task' = [task EXCEPT ![n] = "queued"]
     \/ Faults /\ task' = [task EXCEPT ![n] = "done"]
  /\ UNCHANGED <<note, allowed, session, tries, pushed>>

\* _dispatch(): delay(), or inline when the broker does not take the task; an exception
\* of the inline call is logged.
Dispatch(n) ==
  /\ task[n] = "due"
  /\ \/ task' = [task EXCEPT ![n] = "queued"] /\ UNCHANGED pushed
     \/ Faults /\ Sends(n, "done")
     \/ Faults /\ Skips(n)
     \/ Swallows(n)
  /\ UNCHANGED <<note, allowed, session, tries>>

\* The task; after a send it still has to update the dead tokens.
SendPush(n) ==
  /\ task[n] = "queued"
  /\ Sends(n, "sending") \/ Skips(n) \/ Swallows(n)
  /\ UNCHANGED <<note, allowed, session, tries>>

PushDone(n) ==
  /\ task[n] = "sending"
  /\ task' = [task EXCEPT ![n] = "done"]
  /\ UNCHANGED <<note, allowed, session, tries, pushed>>

\* Mutant: one retry more than max_retries.
RetryOneMore(n) ==
  /\ Faults
  /\ task[n] \in {"queued", "sending"}
  /\ IF tries[n] <= MaxRetries
     THEN /\ task' = [task EXCEPT ![n] = "queued"]
          /\ tries' = [tries EXCEPT ![n] = @ + 1]
     ELSE /\ task' = [task EXCEPT ![n] = "lost"]
          /\ UNCHANGED tries
  /\ UNCHANGED <<note, allowed, session, pushed>>

\* A database error before or after the send raises self.retry().
Retry(n) ==
  /\ Faults
  /\ task[n] \in {"queued", "sending"}
  /\ IF tries[n] < MaxRetries
     THEN /\ task' = [task EXCEPT ![n] = "queued"]
          /\ tries' = [tries EXCEPT ![n] = @ + 1]
     ELSE /\ task' = [task EXCEPT ![n] = "lost"]
          /\ UNCHANGED tries
  /\ UNCHANGED <<note, allowed, session, pushed>>

\* The process dies before the hook runs, or the worker with the acknowledged task.
PushDies(n) ==
  /\ Faults
  /\ task[n] \in {"due", "queued", "sending"}
  /\ task' = [task EXCEPT ![n] = "lost"]
  /\ UNCHANGED <<note, allowed, session, tries, pushed>>

(***************************************************************************)
(* Specification                                                           *)
(***************************************************************************)
PushStep(n) == Dispatch(n) \/ SendPush(n) \/ PushDone(n)

Next ==
  \/ \E w \in Writers : (\E n \in Work[w] : Create(w, n)) \/ Commit(w) \/ Rollback(w)
  \/ \E n \in Notes : Announce(n) \/ PushStep(n) \/ Retry(n) \/ PushDies(n)
  \/ \E s \in Sessions :
       Connect(s) \/ SendInit(s) \/ Disconnect(s) \/ \E n \in Notes : Receive(s, n)

Spec == Init /\ [][Next]_vars

FairSpec == Spec /\ \A n \in Notes : WF_vars(PushStep(n))

(***************************************************************************)
(* Properties                                                              *)
(***************************************************************************)
\* The client has the note, or its event is in the channel of the session.
Shown(s, n) == n \in items[s] \cup events[s] \cup waiting[s]

\* A role notification is stored for every user of the role or for none, wherever
\* in the loop it fails.
AllOrNothing ==
  \A w \in Writers :
    \/ \A n \in Work[w] : note[n] = "stored"
    \/ \A n \in Work[w] : note[n] # "stored"

\* "Queue an FCM push for this notification once the transaction commits": no push
\* for a row that was rolled back, nor for a user whose settings did not allow it; and
\* retries after a half-done send push it at most max_retries more times.
PushOnlyStored ==
  \A n \in Notes :
    /\ task[n] # "none" \/ pushed[n] > 0 => note[n] = "stored" /\ n \in allowed
    /\ pushed[n] <= MaxRetries + 1

\* Between the broadcast inside the transaction and the init frame, an open session misses
\* a stored notification of its user in two ways only: the transaction was open when the
\* session read its init frame, or the channel layer dropped the event over capacity.
ShownUnlessInFlight ==
  \A s \in Sessions, n \in Notes :
    stage[s] = "open" /\ note[n] = "stored" /\ For[n] = Owner[s]
      => Shown(s, n) \/ n \in inFlight[s] \/ n \in dropped[s]

\* "Notifications are delivered in real-time over websocket when allowed by system settings
\* and the user's push preferences": an open session shows every stored notification of its
\* user that these allow.
StoredIsShown ==
  \A s \in Sessions, n \in Notes :
    stage[s] = "open" /\ note[n] = "stored" /\ n \in allowed /\ For[n] = Owner[s] => Shown(s, n)

\* A stored notification of a user who allows push has a task from the commit that stores
\* it on; no task is done without a send, and none is skipped for a user FCM can push to.
PushNotForgotten ==
  \A n \in Notes :
    note[n] = "stored" /\ n \in allowed =>
      /\ task[n] # "none"
      /\ task[n] = "done" => pushed[n] > 0
      /\ task[n] = "skipped" => For[n] \notin Reachable

\* What the services promise: see Outbox.
Box == INSTANCE Outbox WITH
         Calls     <- Writers,
         Creates   <- Work,
         Feeds     <- Sessions,
         Of        <- Owner,
         MaxPushes <- MaxRetries + 1,
         stored    <- {n \in Notes : note[n] = "stored"},
         refused   <- {n \in Notes : note[n] = "undone"},
         wanted    <- {n \in allowed : note[n] = "stored"},
         owed      <- {n \in Notes : task[n] \in {"due", "queued", "sending"}},
         waived    <- {n \in Notes : task[n] = "skipped"},
         lost      <- {n \in Notes : task[n] = "lost"},
         pushes    <- pushed,
         frame     <- items

\* Inserts, broadcasts, commits, hooks and retries of overlapping calls come to the same as
\* calls that happen at one moment: no frame shows half of one, no push precedes its row.
ImplementsOutbox == Box!Spec

\* Every stored notification of a user who allows push is pushed, skipped because FCM could
\* not push to the user, or lost to an error: with its process, its retries or the exception
\* that send_push_to_user() swallows.
StoredIsPushed ==
  \A n \in Notes :
    note[n] = "stored" /\ n \in allowed ~>
      \/ pushed[n] > 0
      \/ task[n] = "skipped" /\ For[n] \notin Reachable
      \/ task[n] = "lost"
=============================================================================
