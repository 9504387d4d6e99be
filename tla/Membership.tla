------------------------------ MODULE Membership ------------------------------
(***************************************************************************)
(* Workspaces of one owner, one channel and one group as the viewsets of   *)
(* Communication/views.py change them: which workspace is the default, who *)
(* is in which place, and what the users are told.  Requests run in        *)
(* autocommit mode: each query is a step, and so is users.set(), which     *)
(* reads the old rows and then writes.                                     *)
(***************************************************************************)
EXTENDS Naturals, FiniteSets

CONSTANTS
  Spaces,    \* the workspaces of the owner
  Channel,
  Group,
  Users,
  Founders,  \* those of them who made the group or are its admin
  Requests,  \* each is made once
  Jobs,      \* what a request may come for
  Faults,    \* whether notifications may fail
  None

Places == Spaces \cup {Channel, Group}

Ops == {"create", "update", "updateChannel", "add", "remove", "join", "joinChannel", "leave"}

\* flag is the is_default of the request's data, who the users it is about; sets says
\* that the data of a creation or an update has user_ids.
Job == [op : Ops, place : Places, who : SUBSET Users, sets : BOOLEAN, flag : BOOLEAN \cup {None}]

OfOwner(j) == j.op \in {"create", "update"}

ASSUME MembershipAssumption ==
  /\ Channel # Group /\ {Channel, Group} \cap Spaces = {}
  /\ Jobs \subseteq Job
  /\ \A j \in Jobs : (OfOwner(j) \/ j.op = "joinChannel") => j.place \in Spaces
  /\ \A j \in Jobs : j.op = "join" => j.place # Channel
  /\ \A j \in Jobs : j.op = "leave" => j.place \notin Spaces
  /\ \A j \in Jobs : j.op = "updateChannel" => j.sets /\ j.place = Channel
  /\ \A j \in Jobs : j.sets => OfOwner(j) \/ j.op = "updateChannel"
  /\ Founders \subseteq Users
  /\ None \notin Job /\ None \notin Places /\ None \notin BOOLEAN /\ None \notin {"in", "out"}
  /\ Faults \in BOOLEAN

VARIABLES
  owned,     \* the workspaces that exist
  default,   \* those with is_default
  members,   \* the users of each place
  links,     \* the workspaces the channel is in
  stage,     \* how far each request is
  job,       \* what it is for
  at,        \* the place it is working on
  scope,     \* the workspaces the channel was in when it looked
  about,     \* the users it has to tell
  flag,      \* is_default of its instance
  news,      \* the last membership notification of each user about each place
  slipped,   \* history: a default that was unset has been saved back
  overtaken, \* history: open requests whose rows changed after they had read them
  entered,   \* history: requests that made members of those they tell
  muddled    \* history: places with a stale change, crossed news or a lost notification

rows  == <<owned, default, members, links>>
local == <<stage, job, at, scope, about, flag>>
vars  == <<rows, local, news, slipped, overtaken, entered, muddled>>

Stages == {"idle", "loaded", "saved", "unsetting", "begun", "linked", "vetted", "read",
           "telling", "welcoming", "done"}

TypeOK ==
  /\ owned \subseteq Spaces
  /\ default \subseteq owned
  /\ members \in [Places -> SUBSET Users]
  /\ links \subseteq owned
  /\ stage \in [Requests -> Stages]
  /\ job \in [Requests -> Jobs \cup {None}]
  /\ at \in [Requests -> Places \cup {None}]
  /\ scope \in [Requests -> SUBSET Spaces]
  /\ about \in [Requests -> SUBSET Users]
  /\ flag \in [Requests -> BOOLEAN]
  /\ news \in [Places -> [Users -> {None, "in", "out"}]]
  /\ slipped \in BOOLEAN
  /\ overtaken \subseteq Requests
  /\ entered \subseteq Requests
  /\ muddled \subseteq Places

\* A place is empty or has all users; channel and group may have been made with users of
\* any kind, and the channel is in one workspace or in none.
Init ==
  /\ owned \in SUBSET Spaces
  /\ \E w \in owned \cup {None} : default = {w} \ {None}
  /\ members \in [Places -> {{}, Users}]
  /\ \A w \in Spaces \ owned : members[w] = {}
  /\ \E w \in owned \cup {None} : links = {w} \ {None}
  /\ stage = [r \in Requests |-> "idle"]
  /\ job = [r \in Requests |-> None]
  /\ at = [r \in Requests |-> None]
  /\ scope = [r \in Requests |-> {}]
  /\ about = [r \in Requests |-> {}]
  /\ flag = [r \in Requests |-> FALSE]
  /\ news = [p \in Places |-> [u \in Users |-> None]]
  /\ slipped = FALSE
  /\ overtaken = {} /\ entered = {} /\ muddled = {}

(***************************************************************************)
(* History                                                                 *)
(***************************************************************************)
Open(r) == stage[r] \notin {"idle", "done"}

\* Request q goes by whether its users are in a workspace of the channel.
Gated(q) ==
  \/ job[q].op = "joinChannel"
  \/ job[q].op = "add" /\ at[q] = Channel /\ stage[q] \in {"linked", "vetted", "read"}

\* A step changes rows that request q has read and goes by.
Concerns(q) ==
  \/ stage[q] = "read" /\ members'[at[q]] # members[at[q]]
  \/ Gated(q) /\ (links' # links \/ \E w \in links : members'[w] # members[w])

Overtakes(R) ==
  overtaken' = overtaken \cup {q \in Requests \ R : Open(q) /\ Concerns(q)}

Telling(q, p) == stage[q] = "telling" /\ at[q] = p

\* A step of R lets somebody into a place, or out of it, whom another request is about to
\* tell about it.
Crosses(R, p) ==
  \E q \in Requests \ R : Telling(q, p) /\
    \E u \in about[q] : (u \in members'[p]) # (u \in members[p])

(***************************************************************************)
(* Requests                                                                *)
(***************************************************************************)
To(r, s) == stage' = [stage EXCEPT ![r] = s]

\* The answer is sent and the request forgotten.
Finish(r) ==
  /\ To(r, "done")
  /\ job' = [job EXCEPT ![r] = None]
  /\ at' = [at EXCEPT ![r] = None]
  /\ scope' = [scope EXCEPT ![r] = {}]
  /\ about' = [about EXCEPT ![r] = {}]
  /\ flag' = [flag EXCEPT ![r] = FALSE]

\* The request finds its place.  create() asks whether the owner has a workspace, update()
\* reads the row; a channel is joined through a workspace it is in.
Begin(r, j) ==
  /\ stage[r] = "idle"
  /\ j.op = "create" => j.place \notin owned /\ \A q \in Requests : job[q] # None => job[q].place # j.place
  /\ (j.place \in Spaces /\ j.op # "create") => j.place \in owned
  /\ j.op = "joinChannel" => j.place \in links
  /\ To(r, IF OfOwner(j) THEN "loaded" ELSE "begun")
  /\ job' = [job EXCEPT ![r] = j]
  /\ at' = [at EXCEPT ![r] = j.place]
  /\ flag' = [flag EXCEPT ![r] =
       IF j.op = "create" THEN owned = {} \/ j.flag = TRUE
       ELSE j.op = "update" /\ (IF j.flag = None THEN j.place \in default ELSE j.flag)]
  /\ UNCHANGED <<rows, scope, about, news, slipped, overtaken, entered, muddled>>

\* The other defaults are to be unset: the request has asked for this one.
Unsets(r) == OfOwner(job[r]) /\ flag[r] /\ (job[r].op = "create" \/ job[r].flag = TRUE)

\* The rest of a request after its work on a place: a channel is joined after its
\* workspace, and the other defaults are unset when serializer.save() has returned.
Proceed(r) ==
  IF job[r].op = "joinChannel" /\ at[r] # Channel
  THEN /\ To(r, "begun")
       /\ at' = [at EXCEPT ![r] = Channel]
       /\ about' = [about EXCEPT ![r] = {}]
       /\ UNCHANGED <<job, scope, flag>>
  ELSE IF Unsets(r)
  THEN /\ To(r, "unsetting")
       /\ about' = [about EXCEPT ![r] = {}]
       /\ UNCHANGED <<job, at, scope, flag>>
  ELSE Finish(r)

\* save() of the workspace writes every column: it may bring back a default that was
\* unset, or the whole row.  The users of user_ids are set after it, in the same
\* serializer.save().
SaveSpace(r) ==
  /\ stage[r] = "loaded"
  /\ owned' = owned \cup {at[r]}
  /\ default' = IF flag[r] THEN default \cup {at[r]} ELSE default \ {at[r]}
  /\ slipped' = (slipped \/ (job[r].op = "update" /\ job[r].flag = None
                              /\ flag[r] /\ at[r] \notin default))
  /\ IF job[r].sets THEN To(r, "saved") /\ UNCHANGED <<job, at, scope, about, flag>>
     ELSE Proceed(r)
  /\ UNCHANGED <<members, links, news, overtaken, entered, muddled>>

\* Mutant: the other workspaces are left alone.
UnsetNothing(r) ==
  /\ stage[r] = "unsetting"
  /\ Finish(r)
  /\ UNCHANGED <<rows, news, slipped, overtaken, entered, muddled>>

\* _unset_other_defaults(): one statement for all other workspaces of the owner.
UnsetOthers(r) ==
  /\ stage[r] = "unsetting"
  /\ default' = default \cap {at[r]}
  /\ Finish(r)
  /\ UNCHANGED <<owned, members, links, news, slipped, overtaken, entered, muddled>>

\* add_users() of a channel looks up its workspaces, then the users in them.
ReadLinks(r) ==
  /\ stage[r] = "begun" /\ job[r].op = "add" /\ at[r] = Channel
  /\ scope' = [scope EXCEPT ![r] = links]
  /\ To(r, "linked")
  /\ UNCHANGED <<rows, job, at, about, flag, news, slipped, overtaken, entered, muddled>>

\* Mutant: the users are not looked up.
VetNobody(r) ==
  /\ stage[r] = "linked"
  /\ To(r, "vetted") /\ UNCHANGED <<job, at, scope, about, flag>>
  /\ UNCHANGED <<rows, news, slipped, overtaken, entered, muddled>>

Vet(r) ==
  /\ stage[r] = "linked"
  /\ IF scope[r] = {} \/ job[r].who \subseteq UNION {members[w] : w \in scope[r]}
     THEN To(r, "vetted") /\ UNCHANGED <<job, at, scope, about, flag>>
     ELSE Finish(r)
  /\ UNCHANGED <<rows, news, slipped, overtaken, entered, muddled>>

Leaves(j) == j.op \in {"remove", "leave"}
Alone(j)  == j.op \in {"join", "joinChannel", "leave"}

\* Mutant: removals tell those who are not members, as additions do.
NewsForNonMembers(r) == job[r].who \ members[at[r]]

\* Those whose membership is going to change.
NewsFor(r) ==
  IF Leaves(job[r]) THEN job[r].who \cap members[at[r]] ELSE job[r].who \ members[at[r]]

\* Who is in the place already; one who joins twice, or leaves twice, is answered.  An
\* update of a channel saves no column of the model and goes on to users.set(), which
\* takes the old rows.
ReadMembers(r) ==
  /\ \/ stage[r] = "begun" /\ ~(job[r].op = "add" /\ at[r] = Channel)
     \/ stage[r] \in {"vetted", "saved"}
  /\ IF Alone(job[r]) /\ NewsFor(r) = {} THEN Proceed(r)
     ELSE /\ To(r, "read")
          /\ about' = [about EXCEPT ![r] = IF job[r].sets THEN members[at[r]] ELSE NewsFor(r)]
          /\ UNCHANGED <<job, at, scope, flag>>
  /\ UNCHANGED <<rows, news, slipped, overtaken, entered, muddled>>

\* Those who leave, or join a group, do it themselves and are told nothing; neither are
\* those whom an update with user_ids puts in or leaves out.
Silent(r) == job[r].op = "leave" \/ (job[r].op = "join" /\ at[r] = Group) \/ job[r].sets

\* The rows the request deletes and inserts; users.set() goes by the old rows.
Deletes(r) ==
  IF Leaves(job[r]) THEN job[r].who ELSE IF job[r].sets THEN about[r] \ job[r].who ELSE {}
Inserts(r) ==
  IF Leaves(job[r]) THEN {} ELSE IF job[r].sets THEN job[r].who \ about[r] ELSE job[r].who

Forget(p, who) == news' = [news EXCEPT ![p] = [u \in Users |-> IF u \in who THEN None ELSE @[u]]]

\* The rows are added or removed; rows of a deleted workspace cannot be added.
WriteMembers(r) ==
  /\ stage[r] = "read"
  /\ at[r] \in owned \cup {Channel, Group} \/ Inserts(r) = {}
  /\ members' = [members EXCEPT ![at[r]] = (@ \ Deletes(r)) \cup Inserts(r)]
  /\ UNCHANGED <<owned, default, links, slipped>>
  /\ IF Silent(r) THEN Forget(at[r], Deletes(r) \cup Inserts(r)) /\ Proceed(r)
     ELSE UNCHANGED news /\ To(r, "telling") /\ UNCHANGED <<job, at, scope, about, flag>>
  /\ Overtakes({r})
  /\ entered' = IF about[r] \cap members[at[r]] = {} THEN entered \cup {r} ELSE entered \ {r}
  /\ muddled' = IF (r \in overtaken /\ ~Silent(r)) \/ Crosses({r}, at[r])
                THEN muddled \cup {at[r]} ELSE muddled

WriteFails(r) ==
  /\ stage[r] = "read"
  /\ at[r] \in Spaces \ owned /\ Inserts(r) # {}
  /\ Finish(r)
  /\ UNCHANGED <<rows, news, slipped, overtaken, entered, muddled>>

\* create_notification_for_user() for one of them.
Tell(r, u) ==
  /\ stage[r] = "telling" /\ u \in about[r]
  /\ news' = [news EXCEPT ![at[r]][u] = IF Leaves(job[r]) THEN "out" ELSE "in"]
  /\ about' = [about EXCEPT ![r] = @ \ {u}]
  /\ UNCHANGED <<rows, stage, job, at, scope, flag, slipped, overtaken, entered, muddled>>

\* add_users() of workspaces and channels has one try around all of them, _safe_notify()
\* one around each.
TellFails(r, u) ==
  /\ Faults
  /\ stage[r] = "telling" /\ u \in about[r]
  /\ about' = [about EXCEPT ![r] = IF job[r].op = "add" /\ at[r] # Group THEN {} ELSE @ \ {u}]
  /\ muddled' = muddled \cup {at[r]}
  /\ UNCHANGED <<rows, stage, job, at, scope, flag, news, slipped, overtaken, entered>>

\* All are told; who joins a workspace is welcomed by the automations.
Told(r) ==
  /\ stage[r] = "telling" /\ about[r] = {}
  /\ IF Alone(job[r]) /\ at[r] \in Spaces
     THEN To(r, "welcoming") /\ UNCHANGED <<job, at, scope, about, flag>>
     ELSE Proceed(r)
  /\ UNCHANGED <<rows, news, slipped, overtaken, entered, muddled>>

\* run_user_joins(): a failure is recorded and swallowed.
Welcome(r) ==
  /\ stage[r] = "welcoming"
  /\ Proceed(r)
  /\ UNCHANGED <<rows, news, slipped, overtaken, entered, muddled>>

(***************************************************************************)
(* Changes of one statement                                                *)
(***************************************************************************)
\* destroy() of a workspace: its membership rows go with it, nobody is told.
DeleteSpace(w) ==
  /\ w \in owned
  /\ owned' = owned \ {w} /\ default' = default \ {w} /\ links' = links \ {w}
  /\ members' = [members EXCEPT ![w] = {}]
  /\ Forget(w, Users)
  /\ Overtakes({})
  /\ muddled' = IF Crosses({}, w) THEN muddled \cup {w} ELSE muddled
  /\ UNCHANGED <<local, slipped, entered>>

\* Who founded the group and connects to its room is made a member again, and told nothing.
Rejoin(u) ==
  /\ u \in Founders \ members[Group]
  /\ members' = [members EXCEPT ![Group] = @ \cup {u}]
  /\ UNCHANGED <<owned, default, links, local, slipped, entered>>
  /\ Forget(Group, {u})
  /\ Overtakes({})
  /\ muddled' = IF Crosses({}, Group) THEN muddled \cup {Group} ELSE muddled

\* Mutant: the workspace may be gone.
LinkAny(w) ==
  /\ links' \in {links \cup {w}, links \ {w}} \ {links}
  /\ UNCHANGED <<owned, default, members>>
  /\ Overtakes({})
  /\ UNCHANGED <<local, news, slipped, entered, muddled>>

\* add_channels(), remove_channels(), and channels.set() for the channel_ids of a creation
\* or an update, whose request goes on as one without them.
Link(w) ==
  /\ w \in owned
  /\ links' \in {links \cup {w}, links \ {w}} \ {links}
  /\ UNCHANGED <<owned, default, members>>
  /\ Overtakes({})
  /\ UNCHANGED <<local, news, slipped, entered, muddled>>

(***************************************************************************)
(* Specification                                                           *)
(***************************************************************************)
Step(r) ==
  \/ \E j \in Jobs : Begin(r, j)
  \/ SaveSpace(r) \/ UnsetOthers(r)
  \/ ReadLinks(r) \/ Vet(r) \/ ReadMembers(r) \/ WriteMembers(r) \/ WriteFails(r)
  \/ \E u \in Users : Tell(r, u) \/ TellFails(r, u)
  \/ Told(r) \/ Welcome(r)

Next ==
  \/ \E r \in Requests : Step(r)
  \/ \E w \in Spaces : DeleteSpace(w) \/ Link(w)
  \/ \E u \in Users : Rejoin(u)

Spec == Init /\ [][Next]_vars

(***************************************************************************)
(* Properties                                                              *)
(***************************************************************************)
\* The workspace of the request is saved and the other defaults are still to be unset.
Owes(r) == stage[r] \in {"saved", "read", "unsetting"} /\ Unsets(r)

\* However creations and updates overlap: when none of them is between its save and
\* _unset_other_defaults(), the owner has at most one default workspace, unless an
\* update that did not mention is_default has brought back one that was unset.
OneDefault ==
  (~slipped /\ \A r \in Requests : ~Owes(r)) => Cardinality(default) <= 1

\* "All users must be members of the workspace before being added to the channel", says
\* add_users(), and joining by link enters both; a join welcomes those it has made
\* members.  Among add_users() and the joins, only a change of these rows between the
\* request's queries makes it otherwise; an update of the channel with user_ids asks
\* nothing and lets in anybody.
AdmittedFromWorkspace ==
  [][\A r \in Requests \ overtaken :
       /\ (WriteMembers(r) /\ at[r] = Channel /\ Gated(r)) =>
            \A u \in members'[Channel] \ members[Channel] :
              links # {} => \E w \in links : u \in members[w]
       /\ Welcome(r) => r \in entered]_vars

\* What a user was last told about a place agrees with the rows, unless a change that
\* tells nobody (user_ids of an update, leaving, joining a group, a founder's connection)
\* has come after it.  Requests may overlap: the news of a place become unreliable only
\* when one goes by rows that changed after it read them, changes the membership of
\* somebody whom another is about to tell, or loses a notification.
LastNewsIsTrue ==
  \A p \in Places \ muddled, u \in Users :
    (\A r \in Requests : Telling(r, p) => u \notin about[r]) =>
      /\ news[p][u] = "in" => u \in members[p]
      /\ news[p][u] = "out" => u \notin members[p]
===============================================================================
