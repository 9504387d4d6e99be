# A verification development for the chat backend

This directory models the parts of the Django/Channels backend whose correctness
depends on the order in which things happen: chat rooms with their reactions and
attachments, calls, the notification feed with its push delivery, user accounts, and
membership of workspaces, channels and groups. The modules are written from the
Python source; TLC checks them on small instances, and TLAPS proves the main
safety properties for every value of the constants.

    tlc -workers 2 -config ChatRoomDelivery.cfg MCChatRoom.tla
    tlapm ChatRoomProofs.tla

## 1. The system

The backend is an ASGI application (daphne, one web process in
`docker-compose.yml`) with REST endpoints (Django REST framework, one thread per
request, autocommit, PostgreSQL), websocket consumers (Channels, one event loop,
Redis channel layer), and a Celery worker.

| Component | Source | State | Operations |
|---|---|---|---|
| Chat rooms | `Communication/consumers.py` | `_ACTIVE_ROOM_USERS` (per process), the channel-layer group of the room, `ChatMessage` and `ChatReaction` rows, membership rows | connect, history, `message.send`, reactions, disconnect |
| Automations | `Admin/automation_engine.py` | `Automation`, `AutomationExecution` | auto-replies to channel messages; welcome actions on joining |
| Calls | `Calls/views.py`, `Calls/notifications.py`, `Calls/models.py` | `Call`, `CallParticipant` | create, token, end, leave, summary |
| Notifications | `Notification/services.py`, `consumers.py`, `views.py`, `signals.py` | `Notification`, preferences, system settings | create for a user, create for a role, mark read, feed socket |
| Push | `Notification/tasks.py`, `push.py` | `DeviceToken`, the Celery queue | on_commit hook, task with retries, token registration |
| Workspaces, channels, groups | `Communication/views.py`, `serializers.py`, `models.py` | membership rows, slugs, default flag | CRUD, add/remove, join by slug, leave |
| Accounts | `authentication/` | `User` (one-time password, role, `is_active`), roles | one-time-password login, social login, admin login, profile |
| Administration | `Admin/views.py` | `is_active` flags | dashboards, activation, automations |

How they interact: a room's send handler inserts a message, broadcasts it to the
group, calls `create_notification_for_user` for the members who are not
connected, then runs automations, whose replies it broadcasts. Calls and the
HTTP endpoints use the same create function. It stores a row and sends an event
to the user's notification sockets inside one transaction; a hook that runs after
the commit hands the push to Celery.

What is hard to test:

- **Interleaving at awaits.** Each session handles one frame at a time, but every
  `await` lets other sessions run; all database work of the consumers of one
  process shares one thread; the notification loop runs in that thread while the
  event loop goes on changing presence.
- **Interleaving of queries.** HTTP requests run in autocommit: between two
  queries of one request any query of another may run.
- **Exceptions and restarts.** An exception that leaves a consumer ends it
  without `disconnect()`; a restart forgets presence and requests but not rows.
- **Transactions and messages.** Events are sent inside transactions, pushes
  after them; both may fail or be repeated.
- **Full channels.** The layer drops events for a slow session.
- **Swallowed exceptions.** `except Exception: pass` around the announcement of a call, and a
  push that returns 0 with nothing sent, end a request or a task as if it had done its work.
- **Whole rows written back.** `save()` without `update_fields` stores every column
  as it was when the request read the row.

What makes each component correct: no message falls between history and live
events, sessions agree on the order, every message the room's handlers store is broadcast, presence
counts sessions, members are notified at most once and not while connected;
attendance of a call never goes backwards, and participants hear of its end once
it has ended, each the right thing; the last change of a message's reactions reaches
every client of the room, an upload belongs to one message for good; a role notification is all or nothing, is
pushed only if stored and allowed, at most `max_retries + 1` times, and is shown
by every session that could know of it and read its events in time; a save undoes only what happened between
its own query and itself, a one-time code works once, an owner is left with one default workspace,
whom `add_users` or a join lets into a channel comes from its workspaces, and the last notification about
an account or a membership agrees with the rows unless changes overlap or one was made that tells nobody.

`PROJECT.json` lists every component, with the reason where one is not modelled,
and every hazard with the line where it bites.

## 2. Modules

### ChatRoom

One room: a channel, a group or a DM thread. A session (`Conns`) is one
`BaseChatConsumer`, a state machine `pc` with one action per await:

| `pc` | Code | Next action |
|---|---|---|
| `idle` | no socket | `Authorize`: membership; founders of a group are added |
| `authorized` | `connect()` l. 132 | `GroupAdd` |
| `grouped` | l. 136-137 | `Accept`: presence + 1 |
| `accepted` | l. 139-140 | `SendHistory` |
| `open` | between frames | `ChatEvent`, `CreateMessage`, `GroupDiscard` |
| `created` | `_handle_message_send()` l. 258 | `Broadcast` |
| `notify`, `notifying` | `_create_notifications_for_message()` | `StartNotify`, `NotifyMember`, `EndNotify` |
| `automate`, `replying` | l. 269-273 | `Automate`, `BroadcastReply`, `EndSend` |
| `leaving` | `disconnect()` l. 146-148 | `Leave`: presence - 1 |
| `dead` | an exception left a handler | none |

`msgs` are the rows in `created_at` order, a message id is its position.
`presence` is `_ACTIVE_ROOM_USERS` for this room, `group` and `mailbox` are the
channel layer (external, modelled from its use: bounded capacity, drop of the
newest or oldest event, order kept). `history`, `live`, `dropped` and `sent` record
what the clients and the layer have seen. `DbIdle` is the shared database thread;
the notification loop is the one database call of several steps, because the
presence table it reads is changed by the event loop meanwhile. Faults are `HandlerDies`,
`NotifyFails`, `AutomateFails` (the two `except: pass` blocks) and
`RestartProcess`.

Abstractions: all accounts of a room are active; a plain message, an
attachment and a forward are the same row; the kinds of chat notification are one;
the content of frames is the message's id. A failure before `_presence_inc` is a
connection that was never made and leaves nothing behind but a group entry for a
channel nobody reads. A DM room is a room whose members are its two users. `msgs` are the
messages the room's own handlers store; `run_user_joins` also stores direct messages, in an HTTP
request that broadcasts nothing (`automation_engine.py:115`), and these are left out. The
`group_send` that `create_notification_for_user` makes from inside the database thread is
part of the step `NotifyMember`: that it might wait for the event loop while the loop waits for
the thread is not modelled, so `HandlerFinishes` would not find it.

`MCChatRoom` gives small rooms; `ChatRoomProofs` holds the theorems.

### RoomBus

What a room promises whatever its handlers, queues and faults do, in two variables and
two actions: `Publish` gives a new message to each session, which may miss it or get
it in the place of an older one; `Close` ends sessions. `ChatRoom` implements it:

| RoomBus | ChatRoom |
|---|---|
| `published` | the messages in `sent` |
| `stream[c]` | `Stream(c)`: `live[c]` followed by `mailbox[c]` |
| `Publish` | `Broadcast`, `BroadcastReply` |
| `Close` | `Leave`, `HandlerDies`, `RestartProcess` and other ends of a session |
| stuttering | every other step, `ChatEvent` included: an event moves from mailbox to client |

`ImplementsBus` in ChatRoom is the specification of the bus under this mapping.
`RoomBusProofs` proves on the bus alone that nobody gets a message twice and that any two
sessions agree on the order of what they both get; `ChatRoomProofs` proves
the refinement and inherits both.

### Claims, CallLife, Outbox

Three more abstract specifications, each of a component whose requests overlap, stated without
their queries, locks and hooks. `Spec` of the detailed module implies each under the mapping it declares
(`ImplementsClaims`, `ImplementsLife`, `ImplementsOutbox`).

`Claims`: a send asks for files and gets all of them at one moment, is refused for a
reason that holds at that moment, or is lost and gets none.

| Claims | Attachments |
|---|---|
| `owner`, `uploaded`, `missing` | `linked`, `uploaded`, `unknown` |
| `wish[s]` | `want[s]` from the locking query on |
| `answer[s]` | `stage[s]`, `"asked"` while the send locks rows |
| `Ask`, `Grant`, `Refuse` | `Scan`, `Commit`, `Refuse` |
| `Lose` | `Restart`, for all open sends of a process |
| stuttering | `Begin`, `LockRow` |

`CallLife`: whoever acts on a call has looked at it at one earlier moment, which may no longer
be true. A call is opened once and ends for good; only who found it active, and themselves
invited and away, joins, though perhaps after the end; only who found themselves in it leaves; nobody
who has left is back, but the time of who acts on an outdated look may replace the one recorded before
(`again` says whose time the last record replaced); the call is ended once by each request that found it active; the others are rung once, told of
its end no more often than it was ended, and told "missed" only if they were away when somebody
looked after the end. What the code does not keep (one moment per request) the module does not claim.

| CallLife | CallSession |
|---|---|
| `phase`, `invited`, `ended`, `told`, `again` | `call`, `participants`, `enders`, `told`, `again` |
| `attendance` | `joined` and `left` |
| `cleared`, `joining` | users of token requests past the `is_active` check; those that also read `joined_at` as NULL |
| `leaving`, `closing` | users of leave requests about to save; End requests about to save |
| `absent` | users an announcing request read without `joined_at` and has still to tell |
| `Looks` | the reads: `TokenReadCall`, `TokenReadParticipant`, `LeaveReadParticipant`, `EndRead`, `Announce`; answers and crashes, which forget what was seen |
| `Open`, `End` | `CreateCommit`, `EndSave` |
| `Join`, `Leave` | a `TokenIssue` that saves `joined_at`, `LeaveSave` |
| `Ring`, `TellEnd` | `RingUser`, `AnnounceUser` when the notification succeeds |
| stuttering | other reads, notifications that fail, deactivations |

`Outbox`: the notifications of a call of the services appear together or never, the feed shows
those that are there when it opens, a push that is owed is made, repeated within the limit, waived
because the user cannot be pushed to, or lost to an error.

| Outbox | NotificationFeed |
|---|---|
| `stored`, `refused`, `wanted` | notes that are `stored`, `undone`, stored and `allowed` |
| `owed`, `waived`, `lost`, `pushes` | tasks that are `due`, `queued` or `sending`; `skipped` tasks; `lost` tasks; `pushed` |
| `frame` | `items`, the init frame |
| `Store`, `Refuse` | `Commit`, `Rollback` |
| `Push`, `Settle` | `Sends` in `SendPush` or the inline call of `Dispatch`; `PushDone` |
| `Waive`, `Lose` | `Skips`; `Swallows`, the last failing `Retry`, `PushDies` |
| `Open`, `Close` | `SendInit`, `Disconnect` |
| stuttering | inserts, broadcasts, events received, the hand-over to the broker, a `Retry` within the limit |

The events of the feed socket are outside the outbox: they precede the commit
and may show what is rolled back, which is the subject of `ShownUnlessInFlight`.

### CallSession

One call. A request (`Requests`) is a state machine `stage` with one action per
query or notification; `who`, `batch` and `seen` are what it read. `call`,
`participants`, `joined`, `left` are the rows; `told` counts the
notifications of each kind per user (`create_notification_for_user`, whose own
transaction is in NotificationFeed), `enders` the requests that saved
`ended_at`. `Deactivate` is the administrator's `is_active = False`, `Crash` the
death of the web process. `update_fields` matters: each save writes only the
columns it names, so `TokenIssue` leaves `left` alone. Two token requests of one user may both read
`joined_at` as NULL; both then save it, and `again` names the user whose time was replaced.

`QueryFails` is an exception of any query outside the loops. For the queries of
`notify_call_finished` (the creator's name, the participants) the view passes over it
(`views.py:222-223`): the request answers with nobody told, and `cut` records it, as it records the
requests that announce when the process dies. Inside the loops each user has a `try` of their own (`Tell`).

`issued` are the tokens of `CallTokenView`. `ChannelSerializer` also signs tokens
for a channel's active call without touching the call's rows; the properties do
not speak of those (see the hazards).

The module has no data that need definitions, so its configurations are for the
module itself; the theorems are in `CallSessionProofs`.

### NotificationFeed

A writer is one call of `create_notification_for_user` or
`create_notifications_for_role`, i.e. one transaction; `Work` says which
notifications it creates. A note is `inserted`, then `sent` (broadcast), then
`stored` or `undone` with its transaction. A session is a
`NotificationsConsumer`: `Connect` (group_add), `SendInit`, `Receive`, `Disconnect`. `Announce` puts
the event in the channel of every session in the user's group (`waiting`), where `Receive` finds it once
`connect()` has returned; over `Capacity` the layer drops the event or one that waits (`Overflow`), and
`dropped` records which. The layer keeps the messages of one process's sessions under one limit, so the
distinct events that wait in all of them are counted together.

`task` is the push from the on_commit hook (`due`) through the broker (`queued`) and the worker
(`sending`); Celery acknowledges early, so a worker that dies loses the task.
`send_push_to_user` comes to one of three things: FCM is asked (`Sends`); 0 is returned because push is
switched off, no device is active or Firebase is not configured (`Skips`, the users outside `Reachable`); or
the call to FCM raises and 0 is returned (`Swallows`, whether FCM has pushed or not). In the last two the task
ends well and is not retried.
Preferences and settings change at any time: `Create` chooses either answer of
`_user_allows_push`.

Abstractions: the feed is smaller than `HISTORY_LIMIT`; tokens and read state are left out, and
whether a user can be reached does not change during a run. An answer in which FCM refuses single
tokens is still a send: the tokens are deactivated afterwards, which is what may raise between `SendPush`
and `PushDone`.

`MCNotificationFeed` has a role notification for two users and one for one of
them; the theorems are in `NotificationFeedProofs`.

### Reactions

The reactions to one message, in a room with the sessions of ChatRoom.
`reaction.add` is `AddReaction` (the row), `CountAdded` (the list, later in the same
database call), `BroadcastAdded`, then `NotifyAuthor` or `NotifyFails`;
`reaction.remove` is `RemoveReaction`, `CountRemoved`, `BroadcastRemoved`. Within a
process nothing of another session's database work comes between the row and the
count (`DbIdle`), with a second process it may: an added reaction that another
process removes at once makes the empty list that the handler answers with an error.

A list is abstracted to `version`, the number of row changes it takes in: the
properties compare lists only by age. `shown` is what a client displays,
`newest` the newest list it ever got, `last` and `top` the list broadcast last and
the newest one broadcast, `lost` the newest list whose handler died. The `me`
flags of a list, which belong to the one who reacted, are part of the payload and
left out. `HandlerDies` and `Restart` are those of ChatRoom; the layer's overflow is left
to ChatRoom, so a mailbox here drops nothing.

A reaction that exists already is broadcast and told to the author again
(`AddReaction` leaves `version` alone, the handler goes on): the
comment at `consumers.py:484` speaks of "the new reaction"; the list is right
nevertheless, and no property speaks of the second notification.

`MCReactions` has the author and a user with two devices on two processes; the
theorems are in `ReactionsProofs`.

### Attachments

The transaction inside `_create_message()`, which ChatRoom takes as one step. A
send (`Sends`) is one `message.send` frame that names uploads: `Begin` inserts the
message, `Scan` is the snapshot of the locking query, `LockRow` locks the rows it
found one at a time in the order of `Meta.ordering`, `Commit` or `Refuse` ends the
transaction. `FOR UPDATE` waits for a row's holder and then evaluates the condition
again on the new row: a file that was linked meanwhile drops out of the
result, which is why `locks` may end smaller than `want` and the comparison of lengths
refuses. `linked` is `ChatAttachment.message`. `unknown` records the files
that were not yet uploaded when the query read the table.

The row locks are PostgreSQL's; with the development database, SQLite,
`select_for_update` does nothing and one writer runs at a time. Commits of
messages without uploads touch none of this state.

`MCAttachments` has two uploads and three sends in two processes; the theorems are
in `AttachmentsProofs`.

### Accounts

The row of one user. A request reads the row into an instance (`GetOrCreate` for sending a code,
`Get` for the others), changes the instance and begins to save it (`GenerateOtp`,
`VerifyOtp`, `ChangeProfile`, `EditUser`, `SetActive`, each ending in `SaveBegins`, the
`pre_save` hook that reads the stored flags), writes every column (`UpdateRow`,
`InsertRow` when the row has been deleted, `SaveFails`), and tells the user what changed
(`Tell`, the `post_save` hook). Only the activation endpoint names its column (`Saved`).
`DeleteUser` is the administrator's; `Breaks` is a failing notification or the death of
the process, `Tick` the clock of the ten minutes.

| State | Code |
|---|---|
| `row`, `births` | the row of `authentication_user`, primary keys |
| `obj`, `prev` | the model instance of a request and its `_prev_is_active`, `_prev_role_id` |
| `kind`, `guess`, `stage` | the endpoint, the code posted, how far it is |
| `told` | the last `account.activated` or `account.deactivated` and the last `account.role_changed` |
| `issued`, `overtaken`, `spent`, `leftover`, `muddled` | history, read by the properties only |

Each property says how far the damage of a stale row reaches. What it excludes does occur in the code:

- A login or profile save that overlaps a deactivation writes `is_active = True` back and tells
  the user "Account reactivated" although no administrator did it
  (`signals.py:46` speaks of an administrator).
- A code that was used works again if another request had read the row before, and writes it back.
- A row deleted meanwhile comes back with the next full save; the activation endpoint fails instead.
- An activation that holds a stale role tells of a role change that did not happen.
- A first role is never told, since `_prev_role_id` is null then.
- `verify_otp` asks for no `is_active`: a deactivated user gets tokens, which the
  authentication of each request then refuses.

Abstractions: two draws never give the same six digits; a code that nobody generated is
refused without effect; JWT tokens, `is_verified` and preference rows are left out, and so is an
administrator's PUT of both flags at once. `AdminProfileUpdateView` runs in a transaction
and is one interleaving of `Get`, `ChangeProfile` and `UpdateRow`. A request that dies before
its save is one that stays where it is. `MCAccounts` has three
requests; the theorems are in `AccountsProofs`.

### Membership

The workspaces of one owner (`Spaces`), one channel, one group, and the users in each. A request
is a job (`Job`: the endpoint, its place, its users, whether its data has `user_ids`, its `is_default`) and
runs through

| `stage` | Next action | Code |
|---|---|---|
| `idle` | `Begin` | `get_object()`, `has_workspace` |
| `loaded` | `SaveSpace`, the row of a workspace | `save()` of the model in `serializer.save()` |
| `saved` | `ReadMembers`, the old rows of `users.set()` | the rest of `serializer.save()` with `user_ids` |
| `begun` | `ReadLinks` (adding to a channel), else `ReadMembers` | `workspace_ids`, `existing_user_ids`, `removed_users` |
| `linked` | `Vet`: all users are in a workspace of the channel | l. 331-346 |
| `vetted` | `ReadMembers` | l. 350-351 |
| `read` | `WriteMembers`, `WriteFails` | `users.add()`, `users.remove()`, the writes of `users.set()` |
| `unsetting` | `UnsetOthers` | `_unset_other_defaults()` |
| `telling` | `Tell`, `TellFails`, `Told` | `create_notification_for_user`, `_safe_notify` |
| `welcoming` | `Welcome` | `run_user_joins` |

A PUT or PATCH of a workspace or a channel with `user_ids` replaces the users of the place, asks nothing
about workspaces, and tells nobody (`Silent`); `channel_ids` replaces the links of a workspace (`Link`).
`Rejoin` is the founder or admin of a group, made a member again on connecting to its room
(`consumers.py:754-757`).
Joining a channel by its workspace's slug goes through twice, first for the workspace
(`Proceed`). `DeleteSpace` and `Link` are requests of a single statement.

What the properties exclude does occur: two joins of one user both find no
membership and the automations run twice; a removal from the workspace between `Vet` and
`WriteMembers` leaves a channel member from outside; an update of the channel with `user_ids` puts in
anybody, with no overlap at all, so `AdmittedFromWorkspace` speaks of `add_users` and the joins only, whose
message it quotes; a request that tells a user of having been added may be crossed by one that removes them,
and the news are then the wrong way round; an update that does not mention
`is_default` writes back one that was unset, or the whole row of a deleted workspace;
two first creations may each unset the other and leave no default. No document promises
otherwise. `ChannelViewSet.remove_users` does all its work and then returns no response, which
the model does not tell from an answer.

Abstractions: one owner; places start empty or full, the channel and the group with users of any kind, as a
creation with `user_ids` makes them; the queries of `removed_users`, one per
user, are one read; the death of a process is a request that stays where it is; the owners of
a group, told of a new member, are left out. `MCMembership` lists the jobs; the theorems are in
`MembershipProofs`.

## 3. Runs

| Run | Bounds | What it shows |
|---|---|---|
| `room_delivery` | 2 users, 1 session each, 3 messages, history of 1, capacity 2, 1 auto-reply, failing broadcasts, restarts | `NoMissedMessage`, `SenderOrder`, `ImplementsBus`, `LostOnlyByFault` |
| `room_live` | 2 sessions, 2 messages, capacity 1, fair | `HandlerFinishes`, `StoredIsBroadcast`, `EventIsDelivered` |
| `room_notify` | 3 users, one with 2 sessions, 1 old message, faults at every stage, restarts, changing members | `PresenceMatchesSessions`, `NotifiedAtMostOnce`, `SuppressedIsCovered`, `ConnectedNotNotified`, `AbsentUnlessLeaked` |
| `room_leak` | 2 sessions, 1 message | violation of `AbsentIsNotified` |
| `call_session` | 3 users, 2 overlapping requests, fair, failing queries, a failing user, a deactivation, crashes | `Attendance`, `NobodyForgotten`, `ImplementsLife`, `EndIsAnnounced` |
| `call_missed` | 2 users, 2 requests, no faults | violation of `MissedNeverJoined` |
| `notification_feed` | 3 notes in 2 transactions, 1 session, a layer that keeps 1 event, 1 user FCM can reach and 1 it cannot, 1 retry, faults, fair | `PushOnlyStored`, `ShownUnlessInFlight`, `ImplementsOutbox`, `StoredIsPushed` |
| `notification_gap` | as above, a layer that keeps all events, no faults | violation of `StoredIsShown` |
| `reactions` | 2 users, 3 sessions in 2 processes, 1 emoji, 2 frames, faults, restarts, fair | `LatestReachesAll`, `OnlyOvertakenIsStale`, `AuthorSeesIt`, `Settles` |
| `attachments` | 2 users, 3 sends in 2 processes, 2 uploads, restarts, fair | `NoLockCycle`, `ImplementsClaims`, `SendIsAnswered` |
| `accounts` | 3 requests of any kind, 2 roles (none and one), 2 profiles, codes valid for 0 ticks, clock up to 1, faults | `LastWordIsTrue`, `OneTimeCode`, `LostOnlyToOverlap` |
| `membership` | 2 workspaces, 1 channel, 1 group, 2 users, one of them a founder, 2 requests out of 20 jobs, faults | `OneDefault`, `LastNewsIsTrue`, `AdmittedFromWorkspace` |

What a refinement says, the run of the component does not check again: `ImplementsLife` implies
`NothingReverted`, `ToldTheRightOnes` and `ToldOncePerRequest`; `ImplementsClaims` implies `SentWithAll`,
`RefusedOnlyIfTaken` and `LinkedForGood`; `ImplementsOutbox` implies `AllOrNothing` and `PushNotForgotten`.
These eight are stated in the detailed modules, in the terms of the code, and are theorems (section 5).

Why these bounds are enough for the cases meant. A history of one message with
three messages makes history and live events overlap, abut and leave older
messages out; a capacity of two with three messages overflows. Two sessions of one user against a
sender give every interleaving of inc, dec and the loop. A reply to the user with
two sessions (the old message is bob's) makes the author a member of the loop
too. Two requests are every pair of endpoints that can overlap, including two
Ends. Two transactions that share a user, and a session that may connect at any
step of both, contain every window between insert, broadcast and commit; a layer that keeps one
event is full with the second one for the same user, and a role notification has a user FCM can reach and one it
cannot. Two
reaction frames are enough for one list to overtake another, for an addition that is
undone before it is counted, and for a change that is lost with its handler while
another survives. Three sends of two uploads, each naming any subset of them, make two sends
compete while a third waits for both, and a lock cycle of two rows. Three account
requests are one that reads, one that changes the row, and one that uses what was written back; a
validity of 0 and a clock up to 1 give codes that are valid, and codes that have expired. Two membership
requests beside deletions and links, which need no request slot, are every pair that can
overlap, and a third change between; the jobs have each endpoint, with and without `user_ids`, `is_default`
absent, true and false. Neither
the number of messages nor that of sessions is unbounded in the runs: the proofs
cover that.

The three violations are disagreements between code and documentation:

- `room_leak`: an exception that leaves a handler (a frame that is not JSON, a
  failing broadcast) skips `disconnect()`. The presence count stays until the
  restart, and `message.MD:167` (a mentioned user who is not connected is notified)
  no longer holds for that user in that room. `PresenceMatchesSessions` is stated
  with such sessions counted, which is what the code does.
- `call_missed`: a token request that read the call as active joins a participant
  after `notify_call_finished` has read the rows; the participant is told of a missed
  call, contrary to `Calls/notifications.py:66-67`.
- `notification_gap`: the broadcast precedes the commit; a session that connects
  in between has the notification in neither frame, although the settings and the user's preferences
  allow it (`Notification/models.py:58-59` qualifies its promise so, and so does `StoredIsShown`).

Seen and not made a run: `create_notification_for_user` says "returns None and no
notification is stored" when push is off (`services.py:92-93`), and always stores;
`create_notifications_for_role` repeats it (`services.py:143`).

Deadlock is checked in all passing runs but `attachments`, `accounts` and `membership`, where every
request is made once and in the end nothing is left to do: a room can always accept another
session or end one, a request slot or a session can always be used again. A run
of a room in which every session is dead still allows restarts.

## 4. Fairness

- `ChatRoom.FairSpec`: weak fairness of `HandlerStep` and `ChatEvent` per
  session. The event loop resumes every handler whose await is ready and the
  database thread serves its queue; nothing is assumed of clients, faults or
  restarts.
- `CallSession.FairSpec`: weak fairness of `Serve` per request: the thread of a
  request that has arrived runs on. Requests need not arrive, queries need not succeed and the process may
  die: `EndIsAnnounced` excuses only calls of which every request that ended them was `cut` short.
- `Reactions.FairSpec`: weak fairness of `HandlerStep`, strong fairness of
  `ReadEvent` per session. A consumer awaits client frames and layer events at the
  same time and serves whichever are ready in turn, so a client that keeps sending
  frames does not starve the events; handling a frame disables `ReadEvent` again and
  again, hence strong fairness.
- `Attachments.FairSpec`: weak fairness of `Transact` per send: the database thread
  goes on with a transaction it has begun and PostgreSQL grants a free row lock.
- `NotificationFeed.FairSpec`: weak fairness of `PushStep` per note: hooks run after the
  commit and the worker takes tasks from the queue. Losing a task is allowed, and so is a step that sends nothing.

## 5. Proofs

| Theorem | Says |
|---|---|
| `ChatRoomProofs!TypeCorrect`, `PresenceCorrect`, `NotifyOnce`, `NoGap` | `[]TypeOK`, `[]PresenceMatchesSessions`, `[]NotifiedAtMostOnce`, `[]NoMissedMessage` |
| `ChatRoomProofs!LeftOutIsCovered`, `PresentIsNotNotified`, `OnlyLeaksHide` | `SuppressedIsCovered`, `ConnectedNotNotified`, `AbsentUnlessLeaked` |
| `ChatRoomProofs!OnlyFaultsLose` | `LostOnlyByFault` |
| `ChatRoomProofs!OwnOrder`, `ChatRoomIsABus`, `OneOrder` | `[]SenderOrder`, `ImplementsBus`, `[](Bus!NoDuplicate /\ Bus!SameOrder)` |
| `RoomBusProofs!OneOrder` | `[](NoDuplicate /\ SameOrder)` of the abstract bus |
| `CallSessionProofs!TypeCorrect`, `AttendanceHolds`, `RightOnesTold`, `OncePerRequest`, `NothingRevertedHolds` | `[]TypeOK`, `[]Attendance`, `[]ToldTheRightOnes`, `[]ToldOncePerRequest`, `NothingReverted` |
| `CallSessionProofs!NobodyIsForgotten`, `CallIsALife` | `[]NobodyForgotten`, `ImplementsLife` |
| `ReactionsProofs!TypeCorrect`, `ReachesAll`, `StaleOnlyIfOvertaken`, `AuthorNeedsNoNotice` | `[]TypeOK`, `[]LatestReachesAll`, `[]OnlyOvertakenIsStale`, `[]AuthorSeesIt` |
| `AttachmentsProofs!TypeCorrect`, `AllAttached`, `RefusalHasReason`, `NeverTaken` | `[]TypeOK`, `[]SentWithAll`, `[]RefusedOnlyIfTaken`, `LinkedForGood` |
| `AttachmentsProofs!NeverStuck`, `SendsAreClaims` | `[]NoLockCycle`, `ImplementsClaims` |
| `NotificationFeedProofs!TypeCorrect`, `RoleIsAtomic`, `PushAfterCommit`, `OnlyGapIsInFlight` | `[]TypeOK`, `[]AllOrNothing`, `[]PushOnlyStored`, `[]ShownUnlessInFlight` |
| `NotificationFeedProofs!NoPushForgotten`, `FeedIsAnOutbox` | `[]PushNotForgotten`, `ImplementsOutbox` |
| `AccountsProofs!TypeCorrect`, `ToldWhatIsStored`, `CodesAreSpent`, `NothingElseIsLost` | `[]TypeOK`, `[]LastWordIsTrue`, `OneTimeCode`, `LostOnlyToOverlap` |
| `MembershipProofs!TypeCorrect`, `AtMostOneDefault`, `NewsAreTrue`, `NobodySlipsIn` | `[]TypeOK`, `[]OneDefault`, `[]LastNewsIsTrue`, `AdmittedFromWorkspace` |

Assumptions: only the named assumptions on the constants
(`ChatRoomAssumption`, `CallAssumption`, `FeedAssumption`, `ReactionAssumption`,
`AttachmentAssumption`, `AccountAssumption`, `MembershipAssumption`), which the runs
evaluate.

**ChatRoom.** `IInv` adds to the properties: what each stage knows of the message it
handles (`Shape`, `JobOK`: the message exists, is the last one of its session, is or
is not yet sent), that ids in mailboxes exist, that a user visited by the
notification loop and still in `todo` has not been notified unless as the author
replied to, and that a session which joined the group has, for every message sent
since, the message itself or a reason not to. The last is why `NoMissedMessage`
holds: `GroupAdd` precedes `SendHistory`, so a message stored before the history query is
among the latest ones or pushed out by newer ones, and a message stored after it is
sent while the session is in the group. Presence is an equation between a
count and a cardinality: each action leaves the counted set alone, or adds or
removes one session, and `FS_AddElement` and `FS_RemoveElement` do the rest.
With `Broadcasted` (a notification loop runs only after its message was broadcast) presence
and `NoMissedMessage` together give `SuppressedIsCovered`: a count above zero is a counted
session, and a counted session that serves its client has everything that was sent.
`ConnectedNotNotified` and `AbsentUnlessLeaked` are the two halves of the same equation read at the
moment the loop decides: a connected session of the loop's process makes the count positive, and a
positive count has a session behind it, if only a dead one. Both speak of the process that
runs the loop, so they need no assumption on the number of processes.
`LostOnlyByFault` rests on `HandsFull`: a session has messages to broadcast only in the two
stages that broadcast them, so no other step can drop one; `Holds` is what each
step owes the messages in hand, and `HandsStep` goes through the actions.

**RoomBus.** A session's new stream is the old one through an increasing map of positions, with the new
message at the end or not at all (`Picks`); `NoDuplicate` and `SameOrder` carry over
because the new message is in no stream yet. For the refinement, `Sending` says that what a session
has still to broadcast is its own, ascending, and newer than all it has broadcast; so
`GroupSend` is always a `Publish` of a new message. `Enqueue` at capacity drops the newest or the
oldest event, which is one of the outcomes of `Receives`. `SenderOrder` follows from the same facts.

**CallSession.** `Fresh` (at most one request creates the call, and before that
nobody takes part) and `Reads` (what a request read is still true: rows of
participants and `joined_at` never go away) make the properties inductive.
`RungOnce` and `EndedOnce` count: `Through(u)`, the requests that ended the call and have nothing
more to tell `u`, grows by one with each notification of `u`. `NobodyForgotten` is inductive beside them:
`StillToTell` says that a step in which nobody unhears anything, and no request but one that is cut short
drops somebody it has to tell, keeps it; `Announce` reads every participant who is promised the news, since
rows never go away and those who may be deactivated are not promised it. In the refinement `Looked` names
the stages in which a request has seen something; a step that leaves or enters another stage forgets
(`Forgetting`), and each read is one look. A save finds its user in `joining` or `leaving` because its request
is in that stage, and replaces a time exactly if the user has moved since. There
`AnnounceUser` is a `TellEnd` because the request that tells has ended the call and is not yet
through with the user, so the number told is below that of the requests that ended it.

**NotificationFeed.** The invariant relates a note to its task (a task exists only
for a stored, allowed note), the number of pushes to the retries made, and a
broadcast note to every session that was connected then: the event waits, has been received or was
dropped, and a step moves it on but never back. `PushUnderWay` adds that a
stored, allowed note has a task, and that a task the worker has sent, or that is done, was pushed
at least once, and that a skipped one is for a user FCM cannot push to; `RolledBackWhole` that a transaction is undone as a whole. So `Commit` finds its
notes undecided and makes the tasks that `Store` owes, and each way a task may go is one step of the
outbox.

**Reactions.** `Announcing` names, for the current version, somebody who will
broadcast it (a handler that has changed but not counted, or has counted exactly
this version) or says that it is out or lost. `Receiving` and `EndsWithLast` say of a session in
the room that the newest list broadcast is in its mailbox or was got, and that its mailbox ends
with the list broadcast last; both start with `GroupAdd` before
`SendHistory`, and need that a session outside the room has an empty mailbox.
`Bounded` says that no list is newer than the rows, which turns `>=` into `=`.

**Attachments.** The invariant says that two sends never hold one row, that a row held is
unlinked, uploaded and the sender's own, and that a row a send asked for is still to
come, held, or out of its reach for a reason that stays true. `NoLockCycle` follows from the order of the
locks: of the rows that are next for some open transaction, the oldest is free, since a send that
held it would take its rows newest first and be waiting for one still older. The oldest of a
finite set of rows comes from a minimal element of the library's strict subset order. `SendsAreClaims` needs that a send which commits holds every row
it asked for, and that one which refuses has a row out of its reach.

**Accounts.** `Current` says that the instance of a request nobody has overtaken is the stored row but for
the columns it is there to change; `CodesDated` and `Fresh` tie each code to the time it was
generated at; `Unspent` says that a spent code is in no row and in no instance unless it was in one when it
was spent; `ToldOK` follows the one save that is under way: before it the notifications agree with the stored
flags, which are those the hook remembered, and after it with what the hook is about to tell.

**Membership.** `Pending` says that of any two defaults one belongs to a request that owes the rest
`UnsetOthers` (`Owes`: from the save of the row, over `users.set()`, to the unsetting), or that a default has
slipped back; `GateOK` and `ReadOK` that what a request nobody has overtaken has read is
still true. `NewsOK` is about each user of a place that is not muddled: at most one request has something to
tell the user about it, what it is going to tell is so, and if none has, the last news agree with the rows. A
silent write forgets the news of those it concerns; a write that crosses a request which is about to tell
one of them muddles the place, and so does one that goes by rows that have changed.

Only model-checked: liveness, since fairness and `ENABLED` are outside what the prover decides. The
safety core of each liveness property, that what should happen stays somebody's to do, is a theorem:

| Liveness, by TLC | Its safety core, proved |
|---|---|
| `StoredIsBroadcast` | `LostOnlyByFault`: a message stored by a handler is in its hands until it is broadcast |
| `EventIsDelivered` | `NoMissedMessage` |
| `EndIsAnnounced` | `NobodyForgotten`: until a user is told, each request that ended the call and was not cut short has it to do |
| `StoredIsPushed` | `PushNotForgotten`: a push that is allowed has a task, never done without a send nor skipped without reason |
| `SendIsAnswered` | `NoLockCycle`: one of the open transactions can go on |
| `Settles` | `LatestReachesAll` |

`HandlerFinishes` has none: it says that the stages of a handler come to an end. Facts about what recursive
definitions compute need induction theorems that take an operator, which the
installed provers cannot instantiate; the modules have no recursive operator, and where a proof needs a
least element it takes one of a finite set.

## 6. Not modelled

- Device tokens and preferences: one row each, saved by its owner; a token that FCM reports dead is
  deactivated by value after the send (`push.py:100`).
- Call tokens that `ChannelSerializer` signs (`serializers.py:180`), LiveKit, Firebase and FCM
  themselves, and the text of e-mails.
- Creation of channels and groups, which the initial states of Membership stand for, their deletion, and the
  update of a group, whose serializer has no users (name, picture, admin, flag).
- Direct-message threads (`get_or_create` on a unique pair).
- The mails of `run_user_joins`, and its direct messages: stored in an HTTP request, broadcast by nobody
  (`automation_engine.py:115`). What is said of stored messages is said of those a room's handlers store.
- A deadlock of the database thread with the event loop over a `group_send` made inside the thread.
- What may change between a push task's attempts: a user whom FCM can reach stays so in the model.
- Roles and permissions, dashboards, searches, serializers' field lists: each is a read of one moment.
- Websocket authentication: verifies a token and reads one row before any modelled handler starts.
- Migrations, settings, and everything under `staticfiles/`. The JavaScript there is vendored with Django
  admin, Django REST framework and django-extensions; the program itself is Python, and no
  JavaScript file belongs to it. A share of lines counted over JavaScript only
  therefore shows nothing of the modules here, which map Python.

## 7. Further work

1. Device tokens beside the push task: register, unregister, and the late deactivation.
2. Accounts and the feed together: `Tell` as a writer of `NotificationFeed`, as the loop of a room and the
   announcement of a call would be.
