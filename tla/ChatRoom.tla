------------------------------ MODULE ChatRoom ------------------------------
(***************************************************************************)
(* One chat room (a channel, a group or a DM thread) of                    *)
(* Communication/consumers.py: its websocket sessions, the channel-layer   *)
(* group that fans events out to them, the in-process presence table that  *)
(* decides who is notified, and the send handler from the database insert  *)
(* to the automations.                                                     *)
(*                                                                         *)
(* A session is one BaseChatConsumer.  Channels runs its handlers one at a *)
(* time and queues client frames and layer events meanwhile, so a session  *)
(* is a small state machine `pc` with one action per await: between two    *)
(* awaits the event loop runs other sessions.  Database work of all the    *)
(* sessions of a process goes through asgiref's one thread-sensitive       *)
(* thread (database_sync_to_async): DbIdle.  The accounts in the room stay *)
(* active; reactions are not part of this module.                          *)
(***************************************************************************)
EXTENDS Naturals, Sequences, FiniteSets

CONSTANTS
  Users,        \* users who may open a session in the room
  Procs,        \* web processes; docker-compose runs one, settings.py allows more
  Conns,        \* websocket sessions (channel names)
  Owner,        \* the authenticated user of each session
  Proc,         \* the process that serves each session
  Founders,     \* group creator/admin, who are added to the members on connect
  Bot,          \* created_by of the room's auto-reply automation
  Movers,       \* users whose membership changes over HTTP while the room is in use
  AutoReplies,  \* at most this many automations answer one message
  HistoryLimit, \* HISTORY_LIMIT
  Capacity,     \* channel-layer capacity of one session
  OldMsgs,      \* messages the room holds when the model starts
  MaxMsgs,      \* bound of the model: messages in the room, the old ones included
  FaultPoints,  \* stages at which the handler may meet an exception
  Restarts      \* whether a web process may be restarted

Stages == {"idle", "authorized", "grouped", "accepted", "open",
           "created", "notify", "notifying", "automate", "replying",
           "leaving", "dead"}

MsgIds  == 1..MaxMsgs
Message == [by : Conns, sender : Users, replyTo : 0..MaxMsgs]

ASSUME ChatRoomAssumption ==
  /\ IsFiniteSet(Conns)
  /\ Owner \in [Conns -> Users]
  /\ Proc \in [Conns -> Procs]
  /\ Founders \subseteq Users
  /\ Bot \in Users
  /\ Movers \subseteq Users
  /\ AutoReplies \in Nat
  /\ HistoryLimit \in Nat \ {0}
  /\ Capacity \in Nat \ {0}
  /\ MaxMsgs \in Nat
  /\ OldMsgs \in Seq(Message) /\ Len(OldMsgs) <= MaxMsgs
  /\ \A m \in DOMAIN OldMsgs : OldMsgs[m].replyTo < m
  /\ FaultPoints \subseteq Stages
  /\ Restarts \in BOOLEAN

VARIABLES
  members,   \* channel.users / group.users
  msgs,      \* the room's committed ChatMessages, in created_at order
  notified,  \* chat notifications created: message -> user -> how many
  presence,  \* _ACTIVE_ROOM_USERS of each process, for this room
  group,     \* the sessions in the channel-layer group room_group_name
  pc,        \* how far each session's current handler is
  cur,       \* the message the send handler of a session works on
  outbox,    \* committed messages that handler still has to broadcast
  todo,      \* members the notification loop still has to visit
  mailbox,   \* layer events waiting for a session
  history,   \* messages in the `history` frame sent to a session
  live,      \* `message.new` frames sent to a session, in order
  dropped,   \* events the layer dropped for a session
  sent       \* messages whose group_send took place

dbVars      == <<members, msgs, notified>>
handlerVars == <<cur, outbox, todo>>
viewVars    == <<history, live, dropped>>
vars == <<members, msgs, notified, presence, group, pc, cur, outbox, todo,
          mailbox, history, live, dropped, sent>>

Elems(s) == {s[i] : i \in DOMAIN s}

TypeOK ==
  /\ members \subseteq Users
  /\ msgs \in Seq(Message) /\ Len(msgs) <= MaxMsgs
  /\ notified \in [MsgIds -> [Users -> Nat]]
  /\ presence \in [Procs -> [Users -> Nat]]
  /\ group \subseteq Conns
  /\ pc \in [Conns -> Stages]
  /\ cur \in [Conns -> 0..MaxMsgs]
  /\ outbox \in [Conns -> Seq(MsgIds)]
  /\ todo \in [Conns -> SUBSET Users]
  /\ mailbox \in [Conns -> Seq(MsgIds)]
  /\ history \in [Conns -> SUBSET MsgIds]
  /\ live \in [Conns -> Seq(MsgIds)]
  /\ dropped \in [Conns -> SUBSET MsgIds]
  /\ sent \subseteq MsgIds

Init ==
  /\ members \in {Users, Users \ Movers}
  /\ msgs = OldMsgs
  /\ notified = [m \in MsgIds |-> [u \in Users |-> 0]]
  /\ presence = [p \in Procs |-> [u \in Users |-> 0]]
  /\ group = {}
  /\ pc = [c \in Conns |-> "idle"]
  /\ cur = [c \in Conns |-> 0]
  /\ outbox = [c \in Conns |-> <<>>]
  /\ todo = [c \in Conns |-> {}]
  /\ mailbox = [c \in Conns |-> <<>>]
  /\ history = [c \in Conns |-> {}]
  /\ live = [c \in Conns |-> <<>>]
  /\ dropped = [c \in Conns |-> {}]
  /\ sent = DOMAIN OldMsgs

(***************************************************************************)
(* Helpers of the consumer                                                 *)
(***************************************************************************)
Become(c, from, to) ==
  /\ pc[c] \in from
  /\ pc' = [pc EXCEPT ![c] = to]

\* The thread-sensitive executor of process p is not inside the notification
\* loop, the one database call that other steps of the system interleave with.
DbIdle(p) == \A c \in Conns : Proc[c] = p => pc[c] # "notifying"

PresenceInc(p, u) == presence' = [presence EXCEPT ![p][u] = @ + 1]

\* Mutants: the count is popped although another session of the user is open, and
\* the last session leaves its count behind.
PresenceDecPopsAll(p, u) == presence' = [presence EXCEPT ![p][u] = 0]

PresenceDecKeepsLast(p, u) ==
  presence' = [presence EXCEPT ![p][u] = IF @ > 1 THEN @ - 1 ELSE @]

\* The entry is popped when the count would reach zero; a missing entry reads 0.
PresenceDec(p, u) ==
  presence' = [presence EXCEPT ![p][u] = IF @ > 1 THEN @ - 1 ELSE 0]

IsUserConnected(p, u) == presence[p][u] > 0

\* Mutant: order_by('created_at')[:HISTORY_LIMIT], the oldest messages.
OldestMessages == {m \in DOMAIN msgs : m <= HistoryLimit}

\* order_by('-created_at')[:HISTORY_LIMIT]
LatestMessages ==
  {m \in DOMAIN msgs : m + HistoryLimit > Len(msgs)}

\* A full channel loses an event: the new one (the Redis list is at capacity)
\* or the oldest one (the process-local queue is).
Enqueue(q, m, keepOld) ==
  IF Len(q) < Capacity THEN Append(q, m)
  ELSE IF keepOld THEN q ELSE Append(Tail(q), m)

Lost(q, m, keepOld) ==
  IF Len(q) < Capacity THEN {}
  ELSE IF keepOld THEN {m} ELSE {Head(q)}

GroupSend(m) ==
  \E keepOld \in BOOLEAN :
    /\ mailbox' = [c \in Conns |->
         IF c \in group /\ pc[c] # "dead"
         THEN Enqueue(mailbox[c], m, keepOld) ELSE mailbox[c]]
    /\ dropped' = [c \in Conns |->
         IF c \in group /\ pc[c] # "dead"
         THEN dropped[c] \cup Lost(mailbox[c], m, keepOld) ELSE dropped[c]]
    /\ sent' = sent \cup {m}

(***************************************************************************)
(* connect(): authorize, group_add, presence + accept, history             *)
(***************************************************************************)
Authorize(c) ==
  /\ Become(c, {"idle"}, "authorized")
  /\ DbIdle(Proc[c])
  /\ Owner[c] \in members \cup Founders
  /\ members' = members \cup {Owner[c]}
  /\ UNCHANGED <<msgs, notified, presence, group, mailbox, sent>>
  /\ UNCHANGED <<handlerVars, viewVars>>

GroupAdd(c) ==
  /\ Become(c, {"authorized"}, "grouped")
  /\ group' = group \cup {c}
  /\ UNCHANGED <<dbVars, handlerVars, viewVars, presence, mailbox, sent>>

Accept(c) ==
  /\ Become(c, {"grouped"}, "accepted")
  /\ PresenceInc(Proc[c], Owner[c])
  /\ UNCHANGED <<dbVars, handlerVars, viewVars, group, mailbox, sent>>

SendHistory(c) ==
  /\ Become(c, {"accepted"}, "open")
  /\ DbIdle(Proc[c])
  /\ history' = [history EXCEPT ![c] = LatestMessages]
  /\ UNCHANGED <<dbVars, handlerVars, presence, group, mailbox, live, dropped, sent>>

\* Mutant: an event waits for the next one.
ChatEventLate(c) ==
  /\ pc[c] = "open"
  /\ Len(mailbox[c]) > 1
  /\ live' = [live EXCEPT ![c] = Append(@, Head(mailbox[c]))]
  /\ mailbox' = [mailbox EXCEPT ![c] = Tail(@)]
  /\ UNCHANGED <<dbVars, handlerVars, presence, group, pc, history, dropped, sent>>

\* chat_event(): a queued layer event is sent on when no handler runs.
ChatEvent(c) ==
  /\ pc[c] = "open"
  /\ mailbox[c] # <<>>
  /\ live' = [live EXCEPT ![c] = Append(@, Head(mailbox[c]))]
  /\ mailbox' = [mailbox EXCEPT ![c] = Tail(@)]
  /\ UNCHANGED <<dbVars, handlerVars, presence, group, pc, history, dropped, sent>>

(***************************************************************************)
(* _handle_message_send(): create, broadcast, notify, automate             *)
(***************************************************************************)

\* _create_message() commits.  replyTo is 0 for a plain message; a candidate of
\* another room is ignored, so a reply is to a message of this room.  A parse
\* error or a rejected attachment sends an error frame and changes nothing.
CreateMessage(c, replyTo) ==
  /\ Become(c, {"open"}, "created")
  /\ DbIdle(Proc[c])
  /\ Len(msgs) < MaxMsgs
  /\ msgs' = Append(msgs, [by |-> c, sender |-> Owner[c], replyTo |-> replyTo])
  /\ cur' = [cur EXCEPT ![c] = Len(msgs) + 1]
  /\ outbox' = [outbox EXCEPT ![c] = <<Len(msgs) + 1>>]
  /\ UNCHANGED <<members, notified, presence, group, todo, mailbox, viewVars, sent>>

\* Mutant: the sender's own copy is written straight to its socket, past its
\* mailbox.
BroadcastEcho(c) ==
  LET m      == Head(outbox[c])
      others == {d \in group \ {c} : pc[d] # "dead"}
  IN /\ Become(c, {"created"}, "notify")
     /\ live' = [live EXCEPT ![c] = Append(@, m)]
     /\ mailbox' = [d \in Conns |->
          IF d \in others THEN Enqueue(mailbox[d], m, TRUE) ELSE mailbox[d]]
     /\ dropped' = [d \in Conns |->
          IF d \in others THEN dropped[d] \cup Lost(mailbox[d], m, TRUE) ELSE dropped[d]]
     /\ sent' = sent \cup {m}
     /\ outbox' = [outbox EXCEPT ![c] = <<>>]
     /\ UNCHANGED <<dbVars, presence, group, cur, todo, history>>

Broadcast(c) ==
  /\ Become(c, {"created"}, "notify")
  /\ GroupSend(Head(outbox[c]))
  /\ outbox' = [outbox EXCEPT ![c] = <<>>]
  /\ UNCHANGED <<dbVars, presence, group, cur, todo, history, live>>

Notify(m, u) == notified' = [notified EXCEPT ![m][u] = @ + 1]

\* The database thread enters _create_notifications_for_message(): the author
\* replied to comes first, connected or not; then the users of the room are read.
StartNotify(c) ==
  LET m == cur[c]
      r == msgs[m].replyTo
  IN /\ Become(c, {"notify"}, "notifying")
     /\ DbIdle(Proc[c])
     /\ IF r # 0 /\ msgs[r].sender # msgs[m].sender
        THEN Notify(m, msgs[r].sender)
        ELSE UNCHANGED notified
     /\ todo' = [todo EXCEPT ![c] = members \ {msgs[m].sender}]
     /\ UNCHANGED <<members, msgs, presence, group, cur, outbox, mailbox, viewVars, sent>>

\* Mutants: no notified_ids; a connected user is never taken off the loop.
NotifyMemberAgain(c, u) ==
  /\ pc[c] = "notifying"
  /\ u \in todo[c]
  /\ todo' = [todo EXCEPT ![c] = @ \ {u}]
  /\ IF ~IsUserConnected(Proc[c], u) THEN Notify(cur[c], u) ELSE UNCHANGED notified
  /\ UNCHANGED <<members, msgs, presence, group, pc, cur, outbox, mailbox, viewVars, sent>>

NotifyMemberStuck(c, u) ==
  /\ pc[c] = "notifying"
  /\ u \in todo[c]
  /\ ~IsUserConnected(Proc[c], u)
  /\ todo' = [todo EXCEPT ![c] = @ \ {u}]
  /\ Notify(cur[c], u)
  /\ UNCHANGED <<members, msgs, presence, group, pc, cur, outbox, mailbox, viewVars, sent>>

\* One turn of the loop; notified_ids keeps an author from a second notification.
NotifyMember(c, u) ==
  LET m == cur[c]
  IN /\ pc[c] = "notifying"
     /\ u \in todo[c]
     /\ todo' = [todo EXCEPT ![c] = @ \ {u}]
     /\ IF ~IsUserConnected(Proc[c], u) /\ notified[m][u] = 0
        THEN Notify(m, u)
        ELSE UNCHANGED notified
     /\ UNCHANGED <<members, msgs, presence, group, pc, cur, outbox, mailbox, viewVars, sent>>

EndNotify(c) ==
  /\ Become(c, {"notifying"}, "automate")
  /\ todo[c] = {}
  /\ UNCHANGED <<dbVars, handlerVars, viewVars, presence, group, mailbox, sent>>

\* Mutants: the replies are stored but not handed to the broadcast; their ids are
\* off by one.
AutomateSilent(c, n) ==
  /\ Become(c, {"automate"}, "replying")
  /\ DbIdle(Proc[c])
  /\ n > 0 => Owner[c] # Bot
  /\ Len(msgs) + n <= MaxMsgs
  /\ msgs' = msgs \o [i \in 1..n |-> [by |-> c, sender |-> Bot, replyTo |-> 0]]
  /\ UNCHANGED <<members, notified, presence, group, handlerVars, mailbox, viewVars, sent>>

AutomateOffByOne(c, n) ==
  /\ Become(c, {"automate"}, "replying")
  /\ DbIdle(Proc[c])
  /\ n > 0 => Owner[c] # Bot
  /\ Len(msgs) + n <= MaxMsgs
  /\ msgs' = msgs \o [i \in 1..n |-> [by |-> c, sender |-> Bot, replyTo |-> 0]]
  /\ outbox' = [outbox EXCEPT ![c] = [i \in 1..n |-> Len(msgs) + i + 1]]
  /\ UNCHANGED <<members, notified, presence, group, cur, todo, mailbox, viewVars, sent>>

\* run_new_channel_message() commits n auto-replies, none to the Bot's own message.
Automate(c, n) ==
  LET reply == [by |-> c, sender |-> Bot, replyTo |-> 0]
  IN /\ Become(c, {"automate"}, "replying")
     /\ DbIdle(Proc[c])
     /\ n > 0 => Owner[c] # Bot
     /\ Len(msgs) + n <= MaxMsgs
     /\ msgs' = msgs \o [i \in 1..n |-> reply]
     /\ outbox' = [outbox EXCEPT ![c] = [i \in 1..n |-> Len(msgs) + i]]
     /\ UNCHANGED <<members, notified, presence, group, cur, todo, mailbox, viewVars, sent>>

BroadcastReply(c) ==
  /\ pc[c] = "replying"
  /\ outbox[c] # <<>>
  /\ GroupSend(Head(outbox[c]))
  /\ outbox' = [outbox EXCEPT ![c] = Tail(@)]
  /\ UNCHANGED <<dbVars, presence, group, pc, cur, todo, history, live>>

EndSend(c) ==
  /\ Become(c, {"replying"}, "open")
  /\ outbox[c] = <<>>
  /\ cur' = [cur EXCEPT ![c] = 0]
  /\ UNCHANGED <<dbVars, viewVars, presence, group, outbox, todo, mailbox, sent>>

(***************************************************************************)
(* disconnect(): group_discard, then presence                              *)
(***************************************************************************)
GroupDiscard(c) ==
  /\ Become(c, {"open"}, "leaving")
  /\ group' = group \ {c}
  /\ UNCHANGED <<dbVars, handlerVars, viewVars, presence, mailbox, sent>>

\* What a session that is over leaves behind: nothing but the layer's group.
Forget(S) ==
  /\ mailbox' = [c \in Conns |-> IF c \in S THEN <<>> ELSE mailbox[c]]
  /\ history' = [c \in Conns |-> IF c \in S THEN {} ELSE history[c]]
  /\ live' = [c \in Conns |-> IF c \in S THEN <<>> ELSE live[c]]
  /\ dropped' = [c \in Conns |-> IF c \in S THEN {} ELSE dropped[c]]
  /\ cur' = [c \in Conns |-> IF c \in S THEN 0 ELSE cur[c]]
  /\ outbox' = [c \in Conns |-> IF c \in S THEN <<>> ELSE outbox[c]]
  /\ todo' = [c \in Conns |-> IF c \in S THEN {} ELSE todo[c]]

Leave(c) ==
  /\ Become(c, {"leaving"}, "idle")
  /\ PresenceDec(Proc[c], Owner[c])
  /\ Forget({c})
  /\ UNCHANGED <<dbVars, group, sent>>

(***************************************************************************)
(* Faults                                                                  *)
(***************************************************************************)

\* An exception that leaves a handler ends the consumer without disconnect():
\* the history query, a malformed frame, the broadcast or group_discard failed.
HandlerDies(c) ==
  /\ pc[c] \in FaultPoints
  /\ Become(c, {"accepted", "open", "created", "leaving"}, "dead")
  /\ Forget({c})
  /\ UNCHANGED <<dbVars, presence, group, sent>>

\* "Never break chat flow due to notifications": the queries before the loop fail,
\* or one notification does and the rest of the loop is skipped.
NotifyFails(c) ==
  /\ pc[c] \in FaultPoints
  /\ Become(c, {"notify", "notifying"}, "automate")
  /\ todo' = [todo EXCEPT ![c] = {}]
  /\ UNCHANGED <<dbVars, viewVars, presence, group, cur, outbox, mailbox, sent>>

\* "Never break chat flow due to automations": committed replies stay unsent.
AutomateFails(c) ==
  /\ pc[c] \in FaultPoints
  /\ Become(c, {"automate", "replying"}, "open")
  /\ cur' = [cur EXCEPT ![c] = 0]
  /\ outbox' = [outbox EXCEPT ![c] = <<>>]
  /\ UNCHANGED <<dbVars, viewVars, presence, group, todo, mailbox, sent>>

\* The container is restarted (restart: unless-stopped): its sockets and its
\* presence table are gone, committed rows stay.
RestartProcess(p) ==
  LET lost == {c \in Conns : Proc[c] = p}
  IN /\ Restarts
     /\ pc' = [c \in Conns |-> IF c \in lost THEN "idle" ELSE pc[c]]
     /\ presence' = [presence EXCEPT ![p] = [u \in Users |-> 0]]
     /\ group' = group \ lost
     /\ Forget(lost)
     /\ UNCHANGED <<dbVars, sent>>

(***************************************************************************)
(* Membership changes made over HTTP                                       *)
(***************************************************************************)
AddMember(u) ==
  /\ u \in Movers \ members
  /\ members' = members \cup {u}
  /\ UNCHANGED <<msgs, notified, presence, group, pc, handlerVars, mailbox, viewVars, sent>>

RemoveMember(u) ==
  /\ u \in Movers \cap members
  /\ members' = members \ {u}
  /\ UNCHANGED <<msgs, notified, presence, group, pc, handlerVars, mailbox, viewVars, sent>>

(***************************************************************************)
(* Specification                                                           *)
(***************************************************************************)
\* The steps the event loop takes by itself once a handler has started.
HandlerStep(c) ==
  \/ GroupAdd(c)
  \/ Accept(c)
  \/ SendHistory(c)
  \/ Broadcast(c)
  \/ StartNotify(c)
  \/ \E u \in Users : NotifyMember(c, u)
  \/ EndNotify(c)
  \/ \E n \in 0..AutoReplies : Automate(c, n)
  \/ BroadcastReply(c)
  \/ EndSend(c)
  \/ Leave(c)

ClientStep(c) ==
  \/ Authorize(c)
  \/ \E r \in 0..Len(msgs) : CreateMessage(c, r)
  \/ GroupDiscard(c)

Fault ==
  \/ \E c \in Conns : HandlerDies(c) \/ NotifyFails(c) \/ AutomateFails(c)
  \/ \E p \in Procs : RestartProcess(p)

Next ==
  \/ \E c \in Conns : HandlerStep(c) \/ ChatEvent(c) \/ ClientStep(c)
  \/ Fault
  \/ \E u \in Users : AddMember(u) \/ RemoveMember(u)

Spec == Init /\ [][Next]_vars

FairSpec ==
  /\ Spec
  /\ \A c \in Conns : WF_vars(HandlerStep(c)) /\ WF_vars(ChatEvent(c))

(***************************************************************************)
(* Safety                                                                  *)
(***************************************************************************)
Stream(c) == live[c] \o mailbox[c]

\* The sessions of user u on process p that called _presence_inc and have not
\* called _presence_dec; a session whose handler died is one of them for ever.
Counted(p, u) ==
  {c \in Conns : /\ Proc[c] = p
                 /\ Owner[c] = u
                 /\ pc[c] \notin {"idle", "authorized", "grouped"}}

\* The presence count of a user is the number of the user's sessions between
\* accept() and the end of disconnect(), however connects, disconnects,
\* exceptions and restarts interleave.
PresenceMatchesSessions ==
  \A p \in Procs, u \in Users : presence[p][u] = Cardinality(Counted(p, u))

Serving == {"open", "created", "notify", "notifying", "automate", "replying"}

\* The client of session c has message m, will get it, lost it to the layer's
\* capacity, or got HISTORY_LIMIT newer messages instead.
Covered(c, m) ==
  \/ m \in history[c] \cup Elems(live[c]) \cup Elems(mailbox[c]) \cup dropped[c]
  \/ Cardinality({h \in history[c] : h > m}) >= HistoryLimit

\* No message falls between the history frame and the live events: connect()
\* joins the group before it reads the history.
NoMissedMessage ==
  \A c \in Conns : pc[c] \in Serving => \A m \in sent : Covered(c, m)

\* What a room promises its sessions: see RoomBus.  A session's stream is what its client
\* got and what its mailbox holds.
Bus == INSTANCE RoomBus WITH
         Sessions  <- Conns,
         Messages  <- MsgIds,
         published <- sent,
         stream    <- [c \in Conns |-> Stream(c)]

\* However handlers interleave, fail and lose events: the layer hands no message to a
\* session twice, and any two sessions get what they both get in the same order.
ImplementsBus == Bus!Spec

\* What one session sends, and the auto-replies to it, arrives in the order it
\* was stored: a reply never precedes the message it answers.
SenderOrder ==
  \A c \in Conns : \A i, j \in DOMAIN Stream(c) :
    (i < j /\ msgs[Stream(c)[i]].by = msgs[Stream(c)[j]].by)
      => Stream(c)[i] < Stream(c)[j]

\* A message makes at most one chat notification per user (a reply to a member
\* who is also a recipient included) and none for its sender.
NotifiedAtMostOnce ==
  \A m \in DOMAIN msgs : \A u \in Users :
    notified[m][u] <= IF u = msgs[m].sender THEN 0 ELSE 1

\* A stored message that its handler has still to broadcast.
InHand(m) == m \in Elems(outbox[msgs[m].by])

Fails(c) == HandlerDies(c) \/ AutomateFails(c) \/ RestartProcess(Proc[c])

\* A message or auto-reply, once stored, is in the hands of its handler until it is
\* broadcast: only an exception of that very handler or a restart of its process loses it.
LostOnlyByFault ==
  [][\A m \in DOMAIN msgs' \ sent' :
       \/ InHand(m)'
       \/ m \in DOMAIN msgs /\ (InHand(m) => Fails(msgs[m].by))]_vars

\* The notification loop of session c has just decided about user u.
Decides(c, u) ==
  /\ pc[c] = "notifying" /\ pc'[c] = "notifying"
  /\ u \in todo[c] \ todo'[c]

\* When the loop leaves a user out because presence counts a session, one of the
\* user's sessions has the message, will have it in its history, or is ending.
SuppressedIsCovered ==
  [][\A c \in Conns, u \in Users :
       (Decides(c, u) /\ notified'[cur[c]][u] = 0) =>
         \E d \in Conns :
           /\ Owner[d] = u /\ Proc[d] = Proc[c]
           /\ \/ pc[d] \in {"accepted", "leaving", "dead"}
              \/ pc[d] \in Serving /\ Covered(d, cur[c])]_vars

\* A user's sessions in the room, on process p.
ConnectedOn(p, u) ==
  \E d \in Conns : Owner[d] = u /\ Proc[d] = p /\ pc[d] \in Serving \cup {"accepted"}

Connected(u) == \E p \in Procs : ConnectedOn(p, u)

Disconnecting(u) == \E d \in Conns : Owner[d] = u /\ pc[d] = "leaving"

\* "suppress notifications when the user is already connected": the loop notifies
\* no user who has a session in the room on the process that runs the loop.
ConnectedNotNotified ==
  [][\A c \in Conns, u \in Users :
       (Decides(c, u) /\ ConnectedOn(Proc[c], u)) =>
         notified'[cur[c]][u] = notified[cur[c]][u]]_vars

\* Sessions that come, go, fail and restart leave no user taken for present: whoever has
\* no session on the loop's process that is connected, ending or dead is notified.
AbsentUnlessLeaked ==
  [][\A c \in Conns, u \in Users :
       (Decides(c, u) /\ Counted(Proc[c], u) = {}) => notified'[cur[c]][u] > 0]_vars

\* "not already connected to the same room websocket ... receive a notification":
\* a user whose sessions have all ended, disconnect() included, is notified.
AbsentIsNotified ==
  [][\A c \in Conns, u \in Users :
       (Decides(c, u) /\ ~Connected(u) /\ ~Disconnecting(u))
         => notified'[cur[c]][u] > 0]_vars

(***************************************************************************)
(* Liveness                                                                *)
(***************************************************************************)

\* Every handler that starts comes to an end: no session waits for ever for the
\* process's database thread or for its own broadcasts.
HandlerFinishes ==
  \A c \in Conns :
    pc[c] \notin {"idle", "open", "dead"} ~> pc[c] \in {"idle", "open", "dead"}

\* Every message that a handler of the room stores, an auto-reply included, is broadcast.
\* (The direct messages of run_user_joins() are stored by HTTP requests, which broadcast
\* nothing to an open room; they are not among msgs.)
StoredIsBroadcast ==
  \A m \in MsgIds : m \in DOMAIN msgs ~> m \in sent

\* An event in the mailbox of an open session is sent on to its client unless the
\* session ends or the layer drops it.
EventIsDelivered ==
  \A c \in Conns, m \in MsgIds :
    (pc[c] \in Serving /\ m \in Elems(mailbox[c]))
      ~> (m \in Elems(live[c]) \cup dropped[c] \/ pc[c] \notin Serving)
=============================================================================
