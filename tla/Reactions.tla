------------------------------- MODULE Reactions -------------------------------
(***************************************************************************)
(* The reactions to one message of a room (Communication/consumers.py):    *)
(* ChatReaction rows, the `reaction.updated` frames that carry their count *)
(* per emoji to the sessions of the room, and the author's notification.   *)
(*                                                                         *)
(* A list of reactions is abstracted to the version of the rows it was     *)
(* counted from: `version` grows with every row that appears or goes away. *)
(* Sessions, group and presence are those of ChatRoom, reduced to what     *)
(* reactions depend on; the history frame holds the message, and the layer *)
(* drops nothing (ChatRoom has both).                                      *)
(***************************************************************************)
EXTENDS Naturals, Sequences, FiniteSets

CONSTANTS
  Users, Procs,
  Conns,       \* websocket sessions of the room
  Owner,       \* the user of each
  Proc,        \* the process that serves each
  Emojis,
  Author,      \* the sender of the message
  MaxFrames,   \* bound of the model: reaction frames served
  Faults       \* whether handlers may meet exceptions and processes may be restarted

ASSUME ReactionAssumption ==
  /\ Owner \in [Conns -> Users]
  /\ Proc \in [Conns -> Procs]
  /\ Author \in Users
  /\ MaxFrames \in Nat
  /\ Faults \in BOOLEAN

VARIABLES
  frames,    \* reaction frames served so far
  rows,      \* ChatReaction rows of the message
  version,   \* changes of the rows so far
  pc,        \* how far each session's handler is
  list,      \* the list a handler has counted, to be broadcast
  group,     \* sessions in the channel-layer group
  mailbox,   \* lists waiting for a session
  shown,     \* the list a session got last
  newest,    \* history: the newest list a session got
  last,      \* history: the list broadcast last
  top,       \* history: the newest list broadcast
  lost,      \* history: the newest list whose handler ended before it broadcast it
  told       \* chat.reaction notifications of the author

table == <<frames, rows, version>>
views == <<mailbox, shown, newest>>
announced == <<last, top, lost>>
vars == <<frames, rows, version, pc, list, group, mailbox, shown, newest, last, top, lost, told>>

Versions == 0..MaxFrames
InDatabase == {"added", "removed"}
AtWork == InDatabase \cup {"counted", "removedCounted"}
Stages == {"idle", "grouped", "accepted", "open", "notify", "leaving", "dead"} \cup AtWork

TypeOK ==
  /\ rows \subseteq Users \X Emojis
  /\ frames \in Versions /\ version \in 0..frames
  /\ pc \in [Conns -> Stages]
  /\ list \in [Conns -> Versions]
  /\ group \subseteq Conns
  /\ mailbox \in [Conns -> Seq(Versions)]
  /\ shown \in [Conns -> Versions]
  /\ newest \in [Conns -> Versions]
  /\ last \in Versions /\ top \in Versions /\ lost \in Versions
  /\ told \in Nat

Init ==
  /\ frames = 0 /\ rows = {} /\ version = 0
  /\ pc = [c \in Conns |-> "idle"]
  /\ list = [c \in Conns |-> 0]
  /\ group = {}
  /\ mailbox = [c \in Conns |-> <<>>]
  /\ shown = [c \in Conns |-> 0]
  /\ newest = [c \in Conns |-> 0]
  /\ last = 0 /\ top = 0 /\ lost = 0
  /\ told = 0

Become(c, from, to) ==
  /\ pc[c] = from
  /\ pc' = [pc EXCEPT ![c] = to]

\* The thread-sensitive executor of process p is between two calls.
DbIdle(p) == \A c \in Conns : Proc[c] = p => pc[c] \notin InDatabase

Larger(v, w) == IF v < w THEN w ELSE v

\* A frame with list v reaches the client of c.
Receive(c, v) ==
  /\ shown' = [shown EXCEPT ![c] = v]
  /\ newest' = [newest EXCEPT ![c] = Larger(@, v)]

(***************************************************************************)
(* Sessions                                                                *)
(***************************************************************************)

\* Mutant: group_add is not awaited.
GroupAddLost(c) ==
  /\ Become(c, "idle", "grouped")
  /\ UNCHANGED <<table, list, group, views, announced, told>>

GroupAdd(c) ==
  /\ Become(c, "idle", "grouped")
  /\ group' = group \cup {c}
  /\ UNCHANGED <<table, list, views, announced, told>>

\* _presence_inc() and accept().
Accept(c) ==
  /\ Become(c, "grouped", "accepted")
  /\ UNCHANGED <<table, list, group, views, announced, told>>

SendHistory(c) ==
  /\ Become(c, "accepted", "open")
  /\ DbIdle(Proc[c])
  /\ Receive(c, version)
  /\ UNCHANGED <<table, list, group, mailbox, announced, told>>

\* Mutant: an event waits for the next one.
ReadEventLate(c) ==
  /\ pc[c] = "open"
  /\ Len(mailbox[c]) > 1
  /\ Receive(c, Head(mailbox[c]))
  /\ mailbox' = [mailbox EXCEPT ![c] = Tail(@)]
  /\ UNCHANGED <<table, pc, list, group, announced, told>>

\* chat_event().
ReadEvent(c) ==
  /\ pc[c] = "open"
  /\ mailbox[c] # <<>>
  /\ Receive(c, Head(mailbox[c]))
  /\ mailbox' = [mailbox EXCEPT ![c] = Tail(@)]
  /\ UNCHANGED <<table, pc, list, group, announced, told>>

\* disconnect(): group_discard, then _presence_dec().  The channel is gone.
GroupDiscard(c) ==
  /\ Become(c, "open", "leaving")
  /\ group' = group \ {c}
  /\ mailbox' = [mailbox EXCEPT ![c] = <<>>]
  /\ shown' = [shown EXCEPT ![c] = 0]
  /\ newest' = [newest EXCEPT ![c] = 0]
  /\ UNCHANGED <<table, list, announced, told>>

Leave(c) ==
  /\ Become(c, "leaving", "idle")
  /\ UNCHANGED <<table, list, group, views, announced, told>>

\* _is_user_connected() for the author, in process p.
AuthorConnected(p) ==
  \E c \in Conns : Owner[c] = Author /\ Proc[c] = p /\ pc[c] \notin {"idle", "grouped"}

(***************************************************************************)
(* reaction.add and reaction.remove                                        *)
(***************************************************************************)

Served == frames < MaxFrames /\ frames' = frames + 1

\* get_or_create(); an existing row stays as it is.
AddReaction(c, e) ==
  /\ Become(c, "open", "added")
  /\ DbIdle(Proc[c])
  /\ Served
  /\ rows' = rows \cup {<<Owner[c], e>>}
  /\ version' = IF rows' = rows THEN version ELSE version + 1
  /\ UNCHANGED <<list, group, views, announced, told>>

RemoveReaction(c, e) ==
  /\ Become(c, "open", "removed")
  /\ DbIdle(Proc[c])
  /\ Served
  /\ rows' = rows \ {<<Owner[c], e>>}
  /\ version' = IF rows' = rows THEN version ELSE version + 1
  /\ UNCHANGED <<list, group, views, announced, told>>

\* Mutants: `if not result` after a removal too; the list before the change.
CountRemovedIfAny(c) ==
  /\ pc[c] = "removed"
  /\ pc' = [pc EXCEPT ![c] = IF rows = {} THEN "open" ELSE "removedCounted"]
  /\ list' = [list EXCEPT ![c] = version]
  /\ UNCHANGED <<table, group, views, announced, told>>

CountRemovedTooEarly(c) ==
  /\ Become(c, "removed", "removedCounted")
  /\ list' = [list EXCEPT ![c] = version - 1]
  /\ UNCHANGED <<table, group, views, announced, told>>

\* _serialize_reactions(), in the same database call.  An empty list after an
\* addition, which another process may have undone, is answered with an error frame.
CountAdded(c) ==
  /\ pc[c] = "added"
  /\ pc' = [pc EXCEPT ![c] = IF rows = {} THEN "open" ELSE "counted"]
  /\ list' = [list EXCEPT ![c] = IF rows = {} THEN @ ELSE version]
  /\ UNCHANGED <<table, group, views, announced, told>>

CountRemoved(c) ==
  /\ Become(c, "removed", "removedCounted")
  /\ list' = [list EXCEPT ![c] = version]
  /\ UNCHANGED <<table, group, views, announced, told>>

\* Mutant: the list goes to the other sessions only.
GroupSendOthers(c) ==
  /\ mailbox' = [d \in Conns |->
       IF d \in group \ {c} /\ pc[d] # "dead" THEN Append(mailbox[d], list[c]) ELSE mailbox[d]]
  /\ last' = list[c]
  /\ top' = Larger(top, list[c])
  /\ UNCHANGED lost

GroupSend(c) ==
  /\ mailbox' = [d \in Conns |->
       IF d \in group /\ pc[d] # "dead" THEN Append(mailbox[d], list[c]) ELSE mailbox[d]]
  /\ last' = list[c]
  /\ top' = Larger(top, list[c])
  /\ UNCHANGED lost

BroadcastAdded(c) ==
  /\ Become(c, "counted", "notify")
  /\ GroupSend(c)
  /\ UNCHANGED <<table, list, group, shown, newest, told>>

BroadcastRemoved(c) ==
  /\ Become(c, "removedCounted", "open")
  /\ GroupSend(c)
  /\ UNCHANGED <<table, list, group, shown, newest, told>>

\* _create_notification_for_reaction(), also when the row existed before.
NotifyAuthor(c) ==
  /\ Become(c, "notify", "open")
  /\ DbIdle(Proc[c])
  /\ told' = IF Owner[c] = Author \/ AuthorConnected(Proc[c])
             THEN told ELSE told + 1
  /\ UNCHANGED <<table, list, group, views, announced>>

\* `except Exception: pass`.
NotifyFails(c) ==
  /\ Faults
  /\ Become(c, "notify", "open")
  /\ DbIdle(Proc[c])
  /\ UNCHANGED <<table, list, group, views, announced, told>>

\* The list a handler at work would have broadcast.
Unsent(c) == IF pc[c] \in InDatabase THEN version ELSE list[c]

\* A query or group_send raises, or the frame is not JSON: the consumer ends without
\* disconnect().
HandlerDies(c) ==
  /\ Faults
  /\ pc[c] \in {"accepted", "open"} \cup AtWork
  /\ pc' = [pc EXCEPT ![c] = "dead"]
  /\ lost' = IF pc[c] \in AtWork THEN Larger(lost, Unsent(c)) ELSE lost
  /\ UNCHANGED <<table, list, group, views, last, top, told>>

\* A web process restarts: its sessions and handlers are gone, committed rows stay.
Restart(p) ==
  LET ours == {c \in Conns : Proc[c] = p}
  IN /\ Faults
     /\ \E c \in ours : pc[c] # "idle"
     /\ pc' = [c \in Conns |-> IF c \in ours THEN "idle" ELSE pc[c]]
     /\ group' = group \ ours
     /\ mailbox' = [c \in Conns |-> IF c \in ours THEN <<>> ELSE mailbox[c]]
     /\ shown' = [c \in Conns |-> IF c \in ours THEN 0 ELSE shown[c]]
     /\ newest' = [c \in Conns |-> IF c \in ours THEN 0 ELSE newest[c]]
     /\ lost' = IF \E c \in ours : pc[c] \in AtWork THEN version ELSE lost
     /\ UNCHANGED <<table, list, last, top, told>>

(***************************************************************************)
(* Specification                                                           *)
(***************************************************************************)
HandlerStep(c) ==
  \/ Accept(c) \/ SendHistory(c) \/ Leave(c)
  \/ CountAdded(c) \/ CountRemoved(c) \/ BroadcastAdded(c) \/ BroadcastRemoved(c)
  \/ NotifyAuthor(c)

Next ==
  \/ \E c \in Conns :
       \/ GroupAdd(c) \/ GroupDiscard(c) \/ ReadEvent(c) \/ HandlerStep(c)
       \/ \E e \in Emojis : AddReaction(c, e) \/ RemoveReaction(c, e)
       \/ NotifyFails(c) \/ HandlerDies(c)
  \/ \E p \in Procs : Restart(p)

Spec == Init /\ [][Next]_vars

\* The event loop resumes every handler.  A consumer waits for client frames and layer
\* events at once and serves whichever are ready, so frames do not starve events.
FairSpec ==
  /\ Spec
  /\ \A c \in Conns : WF_vars(HandlerStep(c)) /\ SF_vars(ReadEvent(c))

(***************************************************************************)
(* Properties                                                              *)
(***************************************************************************)

Quiet == \A c \in Conns : pc[c] \notin AtWork

\* The client has got every frame meant for it.
Drained(c) == pc[c] \in {"open", "notify"} /\ mailbox[c] = <<>>

\* Counting after the change is enough for the last change to be in some broadcast,
\* however changes, counts and broadcasts of the sessions interleave, unless its
\* handler ended before it could broadcast.  A session joins the group before it reads
\* the history and so misses no list: when the newest list is out, every client has got
\* it at some time ...
LatestReachesAll ==
  /\ Quiet => version \in {top, lost}
  /\ top = version => \A c \in Conns : Drained(c) => newest[c] = version

\* ... and shows it, unless a list counted earlier was broadcast after it.
OnlyOvertakenIsStale ==
  last = version => \A c \in Conns : Drained(c) => shown[c] = version

\* "Author is already looking at this room; the websocket event is enough": while the
\* author counts as connected, a session of the author has the list or will get one as
\* new, is on its way out, or died.
AuthorSeesIt ==
  \A c \in Conns :
    pc[c] = "notify" /\ AuthorConnected(Proc[c]) =>
      \E d \in Conns :
        /\ Owner[d] = Author
        /\ \/ pc[d] \in {"accepted", "leaving", "dead"}
           \/ newest[d] >= list[c]
           \/ \E i \in DOMAIN mailbox[d] : mailbox[d][i] >= list[c]

\* Once nobody reacts any more, every session that is or comes into the room gets the
\* current list, unless an exception or a restart ended the handler that had it.
Settles ==
  <>[](\A c \in Conns : pc[c] = "open" => newest[c] = version \/ lost = version)
================================================================================
