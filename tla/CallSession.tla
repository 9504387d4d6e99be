----------------------------- MODULE CallSession -----------------------------
(***************************************************************************)
(* One call of Calls/views.py: created and rung by its creator, joined and *)
(* left by its participants, ended and announced by its creator, all over  *)
(* HTTP.  Every request is served in a thread of its own and runs in       *)
(* autocommit mode, so between two queries of one request any query of     *)
(* another may run: a request is a small state machine with one action per *)
(* query or notification, and it works on what it read.                    *)
(***************************************************************************)
EXTENDS Naturals, FiniteSets

CONSTANTS
  Users,
  Creator,    \* created_by of the call
  Members,    \* users of the workspace, channel or DM thread
  Requests,   \* HTTP requests in progress at the same time
  IsDm,       \* whether context_type is 'dm'
  Failing,    \* users for whom create_notification_for_user may raise
  Movers,     \* users who may be deactivated meanwhile
  Faults,     \* whether the queries of a request may raise
  Crashes     \* whether the web process may die

Kinds == {"incoming", "missed", "ended"}

Stages == {"idle", "creating", "ring", "ringing", "token", "joining", "ending",
           "announce", "announcing", "leave", "leaving"}

ASSUME CallAssumption ==
  /\ Creator \in Users
  /\ Members \subseteq Users
  /\ IsFiniteSet(Users) /\ IsFiniteSet(Requests)
  /\ IsDm \in BOOLEAN
  /\ Failing \subseteq Users
  /\ Movers \subseteq Users \ {Creator}
  /\ Faults \in BOOLEAN
  /\ Crashes \in BOOLEAN

VARIABLES
  enabled,       \* users with is_active
  call,          \* "none", "active" or "ended"
  participants,  \* CallParticipant rows
  joined,        \* participants with joined_at
  left,          \* participants with left_at
  stage,         \* what each request does next
  who,           \* the user of each request
  batch,         \* users a request still has to invite or notify
  seen,          \* participants with joined_at when the request read the rows
  issued,        \* users whom CallTokenView gave a LiveKit token
  told,          \* call notifications created: user -> kind -> how many
  enders,        \* requests that set ended_at
  again,         \* history: whose time the last save of joined_at or left_at replaced
  cut            \* history: requests that stopped before they had told everybody

rows    == <<call, participants, joined, left>>
request == <<stage, who, batch, seen>>
history == <<enders, again, cut>>
vars == <<rows, request, enabled, history, issued, told>>

TypeOK ==
  /\ enabled \subseteq Users
  /\ call \in {"none", "active", "ended"}
  /\ participants \subseteq Users
  /\ joined \subseteq Users
  /\ left \subseteq Users
  /\ stage \in [Requests -> Stages]
  /\ who \in [Requests -> Users]
  /\ batch \in [Requests -> SUBSET Users]
  /\ seen \in [Requests -> SUBSET Users]
  /\ issued \subseteq Users
  /\ told \in [Users -> [Kinds -> Nat]]
  /\ enders \subseteq Requests
  /\ again \subseteq Users
  /\ cut \subseteq Requests

Init ==
  /\ enabled = Users
  /\ call = "none"
  /\ participants = {} /\ joined = {} /\ left = {}
  /\ stage = [r \in Requests |-> "idle"]
  /\ who = [r \in Requests |-> Creator]
  /\ batch = [r \in Requests |-> {}]
  /\ seen = [r \in Requests |-> {}]
  /\ issued = {}
  /\ told = [u \in Users |-> [k \in Kinds |-> 0]]
  /\ enders = {} /\ again = {} /\ cut = {}

Goto(r, from, to) ==
  /\ stage[r] = from
  /\ stage' = [stage EXCEPT ![r] = to]

\* The response is sent; what the request had read is forgotten.
Respond(r, from) ==
  /\ Goto(r, from, "idle")
  /\ who' = [who EXCEPT ![r] = Creator]
  /\ batch' = [batch EXCEPT ![r] = {}]
  /\ seen' = [seen EXCEPT ![r] = {}]

Accepted(r, u, to) ==
  /\ u \in enabled
  /\ Goto(r, "idle", to)
  /\ who' = [who EXCEPT ![r] = u]

\* One create_notification_for_user(); its exception is logged and skipped.
Tell(u, kind) ==
  \/ told' = [told EXCEPT ![u][kind] = @ + 1]
  \/ u \in Failing /\ UNCHANGED told

(***************************************************************************)
(* CallCreateView.post                                                     *)
(***************************************************************************)

\* The creator and the invited must be members of the context.  (One call is
\* modelled: another request creates another call.)
CreateCheck(r, invited) ==
  LET ids == invited \cup {Creator}
  IN /\ call = "none"
     /\ \A q \in Requests : stage[q] # "creating"
     /\ Accepted(r, Creator, "creating")
     /\ invited # {} /\ ids \subseteq Members
     /\ IsDm => Cardinality(ids) = 2
     /\ batch' = [batch EXCEPT ![r] = ids]
     /\ UNCHANGED <<rows, enabled, seen, issued, told, history>>

CreateCommit(r) ==
  /\ Goto(r, "creating", "ring")
  /\ call' = "active"
  /\ participants' = batch[r]
  /\ UNCHANGED <<enabled, joined, left, who, batch, seen, issued, told, history>>

\* notify_call_invited() reads whom to ring.
Ring(r) ==
  /\ Goto(r, "ring", "ringing")
  /\ batch' = [batch EXCEPT ![r] = (participants \cap enabled) \ {Creator}]
  /\ UNCHANGED <<rows, enabled, who, seen, issued, told, history>>

RingUser(r, u) ==
  /\ stage[r] = "ringing"
  /\ u \in batch[r]
  /\ batch' = [batch EXCEPT ![r] = @ \ {u}]
  /\ Tell(u, "incoming")
  /\ UNCHANGED <<rows, enabled, stage, who, seen, issued, history>>

CreateReturns(r) ==
  /\ batch[r] = {}
  /\ Respond(r, "ringing")
  /\ UNCHANGED <<rows, enabled, issued, told, history>>

(***************************************************************************)
(* CallTokenView.post: read the call, read the participant, save joined_at *)
(***************************************************************************)
TokenReadCall(r, u) ==
  /\ call = "active"
  /\ Accepted(r, u, "token")
  /\ UNCHANGED <<rows, enabled, batch, seen, issued, told, history>>

TokenReadParticipant(r) ==
  \/ /\ who[r] \in participants
     /\ Goto(r, "token", "joining")
     /\ seen' = [seen EXCEPT ![r] = joined \cap {who[r]}]
     /\ UNCHANGED <<rows, enabled, who, batch, issued, told, history>>
  \/ /\ who[r] \notin participants
     /\ Respond(r, "token")
     /\ UNCHANGED <<rows, enabled, issued, told, history>>

\* Mutant: save() without update_fields writes back every column it read.
TokenIssueFullSave(r) ==
  /\ Respond(r, "joining")
  /\ issued' = issued \cup {who[r]}
  /\ joined' = joined \cup {who[r]}
  /\ left' = IF who[r] \in seen[r] THEN left ELSE left \ {who[r]}
  /\ UNCHANGED <<enabled, call, participants, told, history>>

\* joined_at is saved when the request has read it as NULL, over what another request may
\* have saved since; then the token is returned.
TokenIssue(r) ==
  /\ Respond(r, "joining")
  /\ issued' = issued \cup {who[r]}
  /\ joined' = joined \cup ({who[r]} \ seen[r])
  /\ again' = IF who[r] \in seen[r] THEN again ELSE joined \cap {who[r]}
  /\ UNCHANGED <<enabled, call, participants, left, told, enders, cut>>

(***************************************************************************)
(* CallEndView.post and notify_call_finished()                             *)
(***************************************************************************)

EndRead(r) ==
  /\ call = "active"
  /\ Accepted(r, Creator, "ending")
  /\ UNCHANGED <<rows, enabled, batch, seen, issued, told, history>>

\* Mutant: is_active is saved alone.
EndSaveHalf(r) ==
  /\ Goto(r, "ending", "announce")
  /\ call' = "inactive"
  /\ enders' = enders \cup {r}
  /\ UNCHANGED <<enabled, participants, joined, left, who, batch, seen, issued, told, again, cut>>

\* is_active and ended_at are saved together: call is "ended".
EndSave(r) ==
  /\ Goto(r, "ending", "announce")
  /\ call' = "ended"
  /\ enders' = enders \cup {r}
  /\ UNCHANGED <<enabled, participants, joined, left, who, batch, seen, issued, told, again, cut>>

\* The participant rows are read once, before the first notification.
Announce(r) ==
  /\ Goto(r, "announce", "announcing")
  /\ batch' = [batch EXCEPT ![r] = (participants \cap enabled) \ {Creator}]
  /\ seen' = [seen EXCEPT ![r] = joined]
  /\ UNCHANGED <<rows, enabled, who, issued, told, history>>

\* Mutant: the first failure ends the loop.
AnnounceUserBreaks(r, u) ==
  /\ stage[r] = "announcing"
  /\ u \in batch[r]
  /\ Tell(u, IF u \in seen[r] THEN "ended" ELSE "missed")
  /\ batch' = [batch EXCEPT ![r] = IF told' = told THEN {} ELSE @ \ {u}]
  /\ UNCHANGED <<rows, enabled, stage, who, seen, issued, history>>

AnnounceUser(r, u) ==
  /\ stage[r] = "announcing"
  /\ u \in batch[r]
  /\ batch' = [batch EXCEPT ![r] = @ \ {u}]
  /\ Tell(u, IF u \in seen[r] THEN "ended" ELSE "missed")
  /\ UNCHANGED <<rows, enabled, stage, who, seen, issued, history>>

EndReturns(r) ==
  /\ batch[r] = {}
  /\ Respond(r, "announcing")
  /\ UNCHANGED <<rows, enabled, issued, told, history>>

(***************************************************************************)
(* CallLeaveView.post                                                      *)
(***************************************************************************)
LeaveReadCall(r, u) ==
  /\ call # "none"
  /\ Accepted(r, u, "leave")
  /\ UNCHANGED <<rows, enabled, batch, seen, issued, told, history>>

\* Mutant: left_at is saved for a participant who never joined.
LeaveReadUnjoined(r) ==
  \/ /\ who[r] \in participants \ left
     /\ Goto(r, "leave", "leaving")
     /\ UNCHANGED <<rows, enabled, who, batch, seen, issued, told, history>>
  \/ /\ who[r] \notin participants \ left
     /\ Respond(r, "leave")
     /\ UNCHANGED <<rows, enabled, issued, told, history>>

\* Only a participant with joined_at and without left_at is saved.
LeaveReadParticipant(r) ==
  \/ /\ who[r] \in joined \ left
     /\ Goto(r, "leave", "leaving")
     /\ UNCHANGED <<rows, enabled, who, batch, seen, issued, told, history>>
  \/ /\ who[r] \notin joined \ left
     /\ Respond(r, "leave")
     /\ UNCHANGED <<rows, enabled, issued, told, history>>

LeaveSave(r) ==
  /\ Respond(r, "leaving")
  /\ left' = left \cup {who[r]}
  /\ again' = left \cap {who[r]}
  /\ UNCHANGED <<enabled, call, participants, joined, issued, told, enders, cut>>

(***************************************************************************)
(* Around the call                                                         *)
(***************************************************************************)
Deactivate(u) ==
  /\ u \in Movers \cap enabled
  /\ enabled' = enabled \ {u}
  /\ UNCHANGED <<rows, request, issued, told, history>>

\* A query outside the loops raises.  The answer is an error, or, where the queries are
\* those of notify_call_invited() and notify_call_finished(), the views pass over it and
\* nobody is told; what was committed stays.
QueryFails(r) ==
  /\ Faults
  /\ stage[r] \notin {"idle", "ringing", "announcing"}
  /\ Respond(r, stage[r])
  /\ cut' = IF stage[r] = "announce" THEN cut \cup {r} ELSE cut
  /\ UNCHANGED <<rows, enabled, issued, told, enders, again>>

\* The process dies: its requests are gone, what they committed stays.
Crash ==
  /\ Crashes
  /\ stage' = [r \in Requests |-> "idle"]
  /\ who' = [r \in Requests |-> Creator]
  /\ batch' = [r \in Requests |-> {}]
  /\ seen' = [r \in Requests |-> {}]
  /\ cut' = cut \cup {r \in Requests : stage[r] \in {"announce", "announcing"}}
  /\ UNCHANGED <<enabled, rows, issued, told, enders, again>>

(***************************************************************************)
(* Specification                                                           *)
(***************************************************************************)
Arrives(r) ==
  \/ \E invited \in SUBSET Users : CreateCheck(r, invited)
  \/ EndRead(r)
  \/ \E u \in Users : TokenReadCall(r, u) \/ LeaveReadCall(r, u)

\* What the thread of a request does once the request has arrived.
Serve(r) ==
  \/ CreateCommit(r)
  \/ Ring(r)
  \/ \E u \in Users : RingUser(r, u) \/ AnnounceUser(r, u)
  \/ CreateReturns(r)
  \/ TokenReadParticipant(r)
  \/ TokenIssue(r)
  \/ EndSave(r)
  \/ Announce(r)
  \/ EndReturns(r)
  \/ LeaveReadParticipant(r)
  \/ LeaveSave(r)

Next ==
  \/ \E r \in Requests : Arrives(r) \/ Serve(r) \/ QueryFails(r)
  \/ \E u \in Users : Deactivate(u)
  \/ Crash

Spec == Init /\ [][Next]_vars

FairSpec == Spec /\ \A r \in Requests : WF_vars(Serve(r))

(***************************************************************************)
(* Safety                                                                  *)
(***************************************************************************)
Finished(u) == told[u]["missed"] + told[u]["ended"]

\* The token endpoint serves only invited participants and records each as joined,
\* and nobody is recorded as having left without having joined, however token and
\* leave requests of the same user overlap.
Attendance ==
  /\ issued \subseteq joined
  /\ left \subseteq joined
  /\ joined \subseteq participants

\* A stale token, leave or end request takes back no column another one has saved, since
\* every save() names its update_fields; an overlapping request of the same user may
\* only put another time in it.
NothingReverted ==
  [][/\ joined \subseteq joined'
     /\ left \subseteq left'
     /\ call = "ended" => call' = "ended"]_vars

\* Nobody hears that a call is over, or that they missed it, while it goes on; only
\* those who were in it hear that it ended; nobody outside it, nor its creator, is rung
\* or told anything.
ToldTheRightOnes ==
  \A u \in Users :
    /\ Finished(u) > 0 => call = "ended"
    /\ told[u]["ended"] > 0 => u \in joined
    /\ (\E k \in Kinds : told[u][k] > 0) => u \in participants \ {Creator}

\* A participant is rung at most once, and told of the end at most once by each
\* request that ended the call: an End of an ended call tells nobody again.
ToldOncePerRequest ==
  \A u \in Users :
    /\ told[u]["incoming"] <= 1
    /\ Finished(u) <= Cardinality(enders)

\* Who has a request that has found the call active, themselves without joined_at, with it
\* and without left_at; and who was found without joined_at after the end.
Cleared == {u \in Users : \E r \in Requests : who[r] = u /\ stage[r] \in {"token", "joining"}}
Joining == {u \in Users : \E r \in Requests : who[r] = u /\ stage[r] = "joining" /\ u \notin seen[r]}
Leaving == {u \in Users : \E r \in Requests : who[r] = u /\ stage[r] = "leaving"}
Absent  == {u \in Users : \E r \in Requests : stage[r] = "announcing" /\ u \in batch[r] \ seen[r]}
Closing == {r \in Requests : stage[r] = "ending"}

\* What a call is to its participants: see CallLife.
Life == INSTANCE CallLife WITH
          phase      <- call,
          invited    <- participants,
          attendance <- [u \in Users |->
                           IF u \in left THEN "gone" ELSE IF u \in joined THEN "in" ELSE "away"],
          ended      <- enders,
          cleared    <- Cleared,
          joining    <- Joining,
          leaving    <- Leaving,
          absent     <- Absent,
          closing    <- Closing

\* However the queries of create, token, leave and end requests interleave, and wherever
\* they fail: nobody joins who has not found the call active, though perhaps after its end;
\* nobody is back in the records after leaving, and only a save on an outdated look replaces
\* a time; End requests that overlap end the call once each, and no others do;
\* nobody hears of the end more often; and 'missed' goes to who was seen away after the end.
ImplementsLife == Life!Spec

\* "'missed call' for people who never joined": who is told of a missed call has
\* not joined it.
MissedNeverJoined ==
  [][\A u \in Users : told'[u]["missed"] > told[u]["missed"] => u \notin joined]_vars

\* Request r still has to tell user u that the call is over.
HasToTell(r, u) == stage[r] = "announce" \/ (stage[r] = "announcing" /\ u \in batch[r])

\* While requests overlap and notifications fail, no request that has ended the call forgets
\* anybody who should hear of it: until the user is told, the request still has it to do.
\* Only an exception of its query of the participants or the death of the process cuts it short.
NobodyForgotten ==
  \A r \in enders \ cut, u \in participants \ ({Creator} \cup Failing \cup Movers) :
    Finished(u) > 0 \/ HasToTell(r, u)

(***************************************************************************)
(* Liveness                                                                *)
(***************************************************************************)

\* Once a call has ended, every active participant but its creator is told, even if
\* telling others fails, unless each request that ended it was cut short.
EndIsAnnounced ==
  call = "ended" ~>
    \/ enders \subseteq cut
    \/ \A u \in participants \ ({Creator} \cup Failing \cup Movers) : Finished(u) > 0
=============================================================================
