---------------------------- MODULE MembershipProofs ----------------------------
(***************************************************************************)
(* Theorems about Membership for every set of workspaces, users and        *)
(* requests, whatever the requests come for.                               *)
(***************************************************************************)
EXTENDS Membership, FiniteSetTheorems, TLAPS

(***************************************************************************)
(* The inductive invariant                                                 *)
(***************************************************************************)
\* What a request may be doing at each stage.
Shape ==
  \A r \in Requests :
    /\ Open(r) => /\ job[r] \in Jobs
                  /\ at[r] \in Places
                  /\ at[r] = job[r].place \/ (job[r].op = "joinChannel" /\ at[r] = Channel)
    /\ stage[r] \in {"loaded", "saved", "unsetting"} => OfOwner(job[r])
    /\ stage[r] \in {"begun", "linked", "vetted", "telling", "welcoming"} => ~OfOwner(job[r])
    /\ (stage[r] = "saved" \/ (stage[r] = "read" /\ OfOwner(job[r]))) => job[r].sets
    /\ stage[r] \in {"linked", "vetted"} => job[r].op = "add" /\ at[r] = Channel
    /\ stage[r] = "welcoming" => Alone(job[r]) /\ at[r] \in Spaces
    /\ (stage[r] = "loaded" /\ job[r].op = "update" /\ job[r].flag # None) => flag[r] = job[r].flag

\* Of two defaults one is about to be unset.
Pending ==
  ~slipped => \A v, w \in default :
    v = w \/ \E r \in Requests : Owes(r) /\ at[r] \in {v, w}

\* Nobody has changed the place of a request that has read whom it will tell.
ReadOK ==
  \A r \in Requests \ overtaken :
    /\ (stage[r] = "read" /\ ~job[r].sets) => about[r] = NewsFor(r)
    /\ (stage[r] \in {"telling", "welcoming"} /\ ~Leaves(job[r])) => r \in entered

\* Who is added to the channel is in one of its workspaces.
GateOK ==
  \A r \in Requests \ overtaken :
    /\ (stage[r] \in {"linked", "vetted", "read"} /\ job[r].op = "add" /\ at[r] = Channel) =>
         /\ scope[r] = links
         /\ stage[r] # "linked" =>
              links = {} \/ job[r].who \subseteq UNION {members[w] : w \in links}
    /\ (Open(r) /\ job[r].op = "joinChannel") =>
         /\ job[r].place \in links
         /\ (at[r] = Channel \/ stage[r] \in {"telling", "welcoming"}) =>
              job[r].who \subseteq members[job[r].place]

Agrees(p, u) ==
  /\ news[p][u] = "in" => u \in members[p]
  /\ news[p][u] = "out" => u \notin members[p]

Silence(p, u) == \A r \in Requests : Telling(r, p) => u \notin about[r]

\* One request at a time has something to tell a user about a place, what it tells is so,
\* and so is what the others were told last.
NewsOK ==
  \A p \in Places \ muddled :
    /\ \A q, r \in Requests : Telling(q, p) /\ Telling(r, p) /\ q # r => about[q] \cap about[r] = {}
    /\ \A r \in Requests, u \in Users :
         Telling(r, p) /\ u \in about[r] => (u \in members[p] <=> ~Leaves(job[r]))
    /\ \A u \in Users : Silence(p, u) => Agrees(p, u)

IInv ==
  /\ TypeOK
  /\ Shape
  /\ Pending
  /\ ReadOK
  /\ GateOK
  /\ NewsOK

LEMMA InitIInv == Init => IInv
<1> SUFFICES ASSUME Init PROVE IInv
  OBVIOUS
<1> USE MembershipAssumption DEF Init
<1>1. TypeOK
  <2>1. default \subseteq owned /\ links \subseteq owned
    OBVIOUS
  <2>2. members \in [Places -> SUBSET Users]
    OBVIOUS
  <2>3. QED
    BY <2>1, <2>2 DEF TypeOK, Stages
<1>2. Shape /\ Pending
  BY DEF Shape, Pending, Open, OfOwner
<1>3. ReadOK /\ GateOK
  BY DEF ReadOK, GateOK, Open
<1>4. NewsOK
  BY DEF NewsOK, Agrees, Silence, Telling
<1>5. QED
  BY <1>1, <1>2, <1>3, <1>4 DEF IInv

(***************************************************************************)
(* Steps of a request, and the others                                      *)
(***************************************************************************)
Aside ==
  \/ \E w \in Spaces : DeleteSpace(w) \/ Link(w)
  \/ \E u \in Users : Rejoin(u)

\* The other requests keep what is theirs.
Apart(r) ==
  \A q \in Requests \ {r} :
    /\ stage'[q] = stage[q] /\ job'[q] = job[q] /\ at'[q] = at[q]
    /\ scope'[q] = scope[q] /\ about'[q] = about[q] /\ flag'[q] = flag[q]

LEMMA StepIsApart ==
  ASSUME TypeOK, NEW r \in Requests, Step(r)
  PROVE  Apart(r)
<1> USE DEF TypeOK, Apart, To, Finish, Proceed
<1>1. ASSUME NEW j \in Jobs, Begin(r, j) PROVE Apart(r)
  BY <1>1 DEF Begin
<1>2. CASE SaveSpace(r) \/ UnsetOthers(r)
  BY <1>2 DEF SaveSpace, UnsetOthers
<1>3. CASE ReadLinks(r) \/ Vet(r)
  BY <1>3 DEF ReadLinks, Vet
<1>4. CASE ReadMembers(r)
  BY <1>4 DEF ReadMembers
<1>5. CASE WriteMembers(r) \/ WriteFails(r)
  BY <1>5 DEF WriteMembers, WriteFails
<1>6. ASSUME NEW u \in Users, Tell(r, u) \/ TellFails(r, u) PROVE Apart(r)
  BY <1>6 DEF Tell, TellFails
<1>7. CASE Told(r) \/ Welcome(r)
  BY <1>7 DEF Told, Welcome
<1>8. QED
  BY <1>1, <1>2, <1>3, <1>4, <1>5, <1>6, <1>7 DEF Step

\* Where a request is after Proceed.
LEMMA ProceedTo ==
  ASSUME TypeOK, Shape, NEW r \in Requests, Open(r), Proceed(r)
  PROVE  /\ stage'[r] \in {"done", "begun", "unsetting"}
         /\ stage'[r] = "unsetting" => Unsets(r) /\ job' = job /\ at' = at /\ flag' = flag
         /\ stage'[r] = "begun" => /\ job[r].op = "joinChannel" /\ job' = job
                                   /\ at[r] # Channel /\ at'[r] = Channel
         /\ stage' \in [Requests -> Stages]
         /\ job' \in [Requests -> Jobs \cup {None}]
         /\ at' \in [Requests -> Places \cup {None}]
         /\ scope' \in [Requests -> SUBSET Spaces]
         /\ about' \in [Requests -> SUBSET Users]
         /\ flag' \in [Requests -> BOOLEAN]
<1> USE DEF TypeOK, Stages, Places, To
<1>1. CASE job[r].op = "joinChannel" /\ at[r] # Channel
  BY <1>1 DEF Proceed
<1>2. CASE ~(job[r].op = "joinChannel" /\ at[r] # Channel)
  <2>1. CASE Unsets(r)
    BY <1>2, <2>1 DEF Proceed
  <2>2. CASE ~Unsets(r)
    BY <1>2, <2>2 DEF Proceed, Finish
  <2>3. QED
    BY <2>1, <2>2
<1>3. QED
  BY <1>1, <1>2

LEMMA JobType == ASSUME NEW j \in Jobs PROVE j \in Job /\ j.op \in Ops /\ j.place \in Places /\ j.who \subseteq Users
BY MembershipAssumption DEF Job

LEMMA TypeStep ==
  ASSUME TypeOK, Shape, [Next]_vars
  PROVE  TypeOK'
<1> USE MembershipAssumption DEF TypeOK
<1>1. ASSUME NEW r \in Requests, NEW j \in Jobs, Begin(r, j) PROVE TypeOK'
  <2>1. (IF j.op = "create" THEN owned = {} \/ j.flag = TRUE
         ELSE j.op = "update" /\ (IF j.flag = None THEN j.place \in default ELSE j.flag)) \in BOOLEAN
    BY JobType DEF Job
  <2>2. QED
    BY <1>1, <2>1, JobType DEF Begin, To, Stages, rows
<1>2. ASSUME NEW r \in Requests, SaveSpace(r) PROVE TypeOK'
  <2>1. at[r] \in Spaces
    BY <1>2, JobType DEF SaveSpace, Shape, Open, OfOwner, Places
  <2>2. owned' \subseteq Spaces /\ default' \subseteq owned' /\ links \subseteq owned' /\ slipped' \in BOOLEAN
    <3>1. owned' = owned \cup {at[r]} /\ default' \in {default \cup {at[r]}, default \ {at[r]}}
      BY <1>2 DEF SaveSpace
    <3>2. slipped' \in BOOLEAN
      BY <1>2 DEF SaveSpace
    <3>3. QED
      BY <2>1, <3>1, <3>2
  <2>3. UNCHANGED <<members, links, news, overtaken, entered, muddled>>
    BY <1>2 DEF SaveSpace
  <2>4. CASE To(r, "saved") /\ UNCHANGED <<job, at, scope, about, flag>>
    BY <2>2, <2>3, <2>4 DEF To, Stages
  <2>5. CASE Open(r) /\ Proceed(r)
    BY <2>2, <2>3, <2>5, ProceedTo
  <2>6. QED
    BY <1>2, <2>4, <2>5 DEF SaveSpace, Open
<1>3. ASSUME NEW r \in Requests, UnsetOthers(r) PROVE TypeOK'
  <2>1. default' \subseteq owned
    BY <1>3 DEF UnsetOthers
  <2>2. Finish(r) /\ UNCHANGED <<owned, members, links, news, slipped, overtaken, entered, muddled>>
    BY <1>3 DEF UnsetOthers
  <2>3. QED
    BY <2>1, <2>2 DEF Finish, To, Stages
<1>4. ASSUME NEW r \in Requests, ReadLinks(r) \/ Vet(r) PROVE TypeOK'
  <2>1. CASE ReadLinks(r)
    BY <2>1 DEF ReadLinks, To, Stages, rows
  <2>2. ASSUME Vet(r) PROVE TypeOK'
    <3>1. UNCHANGED <<rows, news, slipped, overtaken, entered, muddled>>
      BY <2>2 DEF Vet
    <3>2. CASE To(r, "vetted") /\ UNCHANGED <<job, at, scope, about, flag>>
      BY <3>1, <3>2 DEF To, Stages, rows
    <3>3. CASE Finish(r)
      BY <3>1, <3>3 DEF Finish, To, Stages, rows
    <3>4. QED
      BY <2>2, <3>2, <3>3 DEF Vet
  <2>3. QED
    BY <1>4, <2>1, <2>2
<1>5. ASSUME NEW r \in Requests, ReadMembers(r) PROVE TypeOK'
  <2>1. Open(r) /\ NewsFor(r) \in SUBSET Users
    BY <1>5, JobType DEF ReadMembers, Open, Shape, NewsFor
  <2>2. (IF job[r].sets THEN members[at[r]] ELSE NewsFor(r)) \in SUBSET Users
    BY <2>1 DEF Shape
  <2>3. QED
    BY <1>5, <2>1, <2>2, ProceedTo DEF ReadMembers, To, Stages, rows
<1>6. ASSUME NEW r \in Requests, WriteMembers(r) PROVE TypeOK'
  <2>1. Open(r) /\ job[r].who \subseteq Users /\ at[r] \in Places
    BY <1>6, JobType DEF WriteMembers, Open, Shape
  <2>2. members' \in [Places -> SUBSET Users]
    BY <1>6, <2>1 DEF WriteMembers, Inserts
  <2>3. news' \in [Places -> [Users -> {None, "in", "out"}]]
    BY <1>6, <2>1 DEF WriteMembers, Forget
  <2>4. /\ stage' \in [Requests -> Stages]
        /\ job' \in [Requests -> Jobs \cup {None}]
        /\ at' \in [Requests -> Places \cup {None}]
        /\ scope' \in [Requests -> SUBSET Spaces]
        /\ about' \in [Requests -> SUBSET Users]
        /\ flag' \in [Requests -> BOOLEAN]
    BY <1>6, <2>1, ProceedTo DEF WriteMembers, To, Stages
  <2>5. QED
    BY <1>6, <2>1, <2>2, <2>3, <2>4 DEF WriteMembers, Overtakes
<1>7. ASSUME NEW r \in Requests, WriteFails(r) PROVE TypeOK'
  BY <1>7 DEF WriteFails, Finish, To, Stages, rows
<1>8. ASSUME NEW r \in Requests, NEW u \in Users, Tell(r, u) \/ TellFails(r, u) PROVE TypeOK'
  <2>1. at[r] \in Places
    BY <1>8 DEF Tell, TellFails, Shape, Open
  <2>2. about' \in [Requests -> SUBSET Users]
    BY <1>8 DEF Tell, TellFails
  <2>3. news' \in [Places -> [Users -> {None, "in", "out"}]]
    <3>1. CASE Tell(r, u)
      <4>1. (IF Leaves(job[r]) THEN "out" ELSE "in") \in {None, "in", "out"}
        OBVIOUS
      <4>2. QED
        BY <3>1, <4>1, <2>1 DEF Tell
    <3>2. CASE TellFails(r, u)
      BY <3>2 DEF TellFails
    <3>3. QED
      BY <1>8, <3>1, <3>2
  <2>4. QED
    BY <1>8, <2>1, <2>2, <2>3 DEF Tell, TellFails, rows
<1>9. ASSUME NEW r \in Requests, Told(r) \/ Welcome(r) PROVE TypeOK'
  BY <1>9, ProceedTo DEF Told, Welcome, Open, To, Stages, rows
<1>10. ASSUME NEW w \in Spaces, DeleteSpace(w) \/ Link(w) PROVE TypeOK'
  BY <1>10 DEF DeleteSpace, Link, Forget, Overtakes, local, Places
<1>13. ASSUME NEW u \in Users, Rejoin(u) PROVE TypeOK'
  BY <1>13 DEF Rejoin, Forget, Overtakes, local, Places
<1>11. CASE UNCHANGED vars
  BY <1>11 DEF vars, rows, local
<1>12. QED
  BY <1>1, <1>2, <1>3, <1>4, <1>5, <1>6, <1>7, <1>8, <1>9, <1>10, <1>11, <1>13 DEF Next, Step

LEMMA ShapeStep ==
  ASSUME TypeOK, Shape, [Next]_vars
  PROVE  Shape'
<1> USE MembershipAssumption
<1> DEFINE S(q) ==
      /\ Open(q) => /\ job[q] \in Jobs
                    /\ at[q] \in Places
                    /\ at[q] = job[q].place \/ (job[q].op = "joinChannel" /\ at[q] = Channel)
      /\ stage[q] \in {"loaded", "saved", "unsetting"} => OfOwner(job[q])
      /\ stage[q] \in {"begun", "linked", "vetted", "telling", "welcoming"} => ~OfOwner(job[q])
      /\ (stage[q] = "saved" \/ (stage[q] = "read" /\ OfOwner(job[q]))) => job[q].sets
      /\ stage[q] \in {"linked", "vetted"} => job[q].op = "add" /\ at[q] = Channel
      /\ stage[q] = "welcoming" => Alone(job[q]) /\ at[q] \in Spaces
      /\ (stage[q] = "loaded" /\ job[q].op = "update" /\ job[q].flag # None) => flag[q] = job[q].flag
<1>1. ASSUME NEW r \in Requests, Step(r) PROVE Shape'
  <2>1. \A q \in Requests \ {r} : S(q)'
    BY <1>1, StepIsApart DEF Apart, Shape, Open, OfOwner
  <2>2. S(r)'
    <3> USE DEF TypeOK, To, Finish
    <3>1. ASSUME NEW j \in Jobs, Begin(r, j) PROVE S(r)'
      <4>1. job'[r] = j /\ at'[r] = j.place /\ stage'[r] = (IF OfOwner(j) THEN "loaded" ELSE "begun")
        BY <3>1 DEF Begin
      <4>2. j.op = "update" /\ j.flag # None => flag'[r] = j.flag
        <5>1. j.flag \in BOOLEAN \cup {None}
          BY JobType DEF Job
        <5>2. CASE j.op = "update" /\ j.flag # None
          BY <3>1, <5>1, <5>2 DEF Begin
        <5>3. QED
          BY <5>2
      <4>3. QED
        BY <4>1, <4>2, JobType DEF Open, OfOwner
    <3>4. CASE Open(r) /\ Proceed(r)
      BY <3>4, ProceedTo DEF Shape, Open, OfOwner, Unsets, Places
    <3>2. CASE SaveSpace(r) \/ UnsetOthers(r)
      <4>1. CASE Proceed(r)
        BY <3>2, <4>1, <3>4 DEF SaveSpace, UnsetOthers, Open
      <4>2. CASE ~Proceed(r)
        BY <3>2, <4>2 DEF SaveSpace, UnsetOthers, Shape, Open, OfOwner
      <4>3. QED
        BY <4>1, <4>2
    <3>3. CASE ReadLinks(r) \/ Vet(r)
      BY <3>3 DEF ReadLinks, Vet, Shape, Open, OfOwner
    <3>5. CASE ReadMembers(r)
      <4>1. CASE Proceed(r)
        BY <3>5, <4>1, <3>4 DEF ReadMembers, Open
      <4>2. CASE ~Proceed(r)
        BY <3>5, <4>2 DEF ReadMembers, Shape, Open, OfOwner
      <4>3. QED
        BY <4>1, <4>2
    <3>6. CASE WriteMembers(r) \/ WriteFails(r)
      <4>1. CASE Proceed(r)
        BY <3>6, <4>1, <3>4 DEF WriteMembers, WriteFails, Open
      <4>2. CASE ~Proceed(r)
        BY <3>6, <4>2 DEF WriteMembers, WriteFails, Silent, Shape, Open, OfOwner
      <4>3. QED
        BY <4>1, <4>2
    <3>7. ASSUME NEW u \in Users, Tell(r, u) \/ TellFails(r, u) PROVE S(r)'
      BY <3>7 DEF Tell, TellFails, Shape, Open, OfOwner
    <3>8. CASE Told(r) \/ Welcome(r)
      <4>1. CASE Proceed(r)
        BY <3>8, <4>1, <3>4 DEF Told, Welcome, Open
      <4>2. CASE ~Proceed(r)
        BY <3>8, <4>2 DEF Told, Welcome, Shape, Open, OfOwner, Alone
      <4>3. QED
        BY <4>1, <4>2
    <3>9. QED
      BY <1>1, <3>1, <3>2, <3>3, <3>5, <3>6, <3>7, <3>8 DEF Step
  <2>3. QED
    BY <2>1, <2>2 DEF Shape
<1>2. CASE Aside
  BY <1>2 DEF Aside, DeleteSpace, Link, Rejoin, local, Shape, Open
<1>3. CASE UNCHANGED vars
  BY <1>3 DEF vars, local, Shape, Open
<1>4. QED
  BY <1>1, <1>2, <1>3 DEF Next, Aside

LEMMA PendingStep ==
  ASSUME TypeOK, Shape, Pending, [Next]_vars
  PROVE  Pending'
<1> USE MembershipAssumption
<1>1. ASSUME NEW r \in Requests, Step(r) PROVE Pending'
  <2>1. \A q \in Requests \ {r} : (Owes(q) => Owes(q)') /\ at'[q] = at[q]
    BY <1>1, StepIsApart DEF Apart, Owes, Unsets, OfOwner
  <2>2. CASE SaveSpace(r)
    <3>1. ~Owes(r) /\ stage[r] = "loaded" /\ Open(r)
      BY <2>2 DEF SaveSpace, Owes, Open
    <3>2. CASE Unsets(r)
      <4>1. Owes(r)' /\ at'[r] = at[r]
        <5>1. stage'[r] \in {"saved", "unsetting"} /\ job' = job /\ at' = at /\ flag' = flag
          <6>1. CASE job[r].sets
            BY <2>2, <6>1 DEF SaveSpace, To, TypeOK
          <6>2. CASE ~job[r].sets
            <7>1. job[r].op # "joinChannel"
              BY <3>2 DEF Unsets, OfOwner
            <7>2. QED
              BY <2>2, <3>2, <6>2, <7>1 DEF SaveSpace, Proceed, To, TypeOK
          <6>3. QED
            BY <6>1, <6>2
        <5>2. QED
          BY <3>2, <5>1 DEF Owes, Unsets, OfOwner
      <4>2. default' \subseteq default \cup {at[r]} /\ (~slipped' => ~slipped)
        BY <2>2 DEF SaveSpace
      <4>3. QED
        BY <2>1, <3>1, <4>1, <4>2 DEF Pending
    <3>3. CASE ~Unsets(r)
      <4>1. job[r].op = "update" /\ flag[r] => job[r].flag = None
        <5>1. job[r].flag \in BOOLEAN \cup {None}
          BY <3>1, JobType DEF Shape, Job
        <5>2. QED
          BY <3>1, <3>3, <5>1 DEF Unsets, OfOwner, Shape
      <4>2. ~slipped' => ~slipped /\ default' \subseteq default
        BY <2>2, <3>1, <3>3, <4>1 DEF SaveSpace, Unsets, OfOwner, Shape
      <4>3. QED
        BY <2>1, <3>1, <4>2 DEF Pending
    <3>4. QED
      BY <3>2, <3>3
  <2>3. CASE UnsetOthers(r)
    BY <2>3 DEF UnsetOthers, Pending
  <2>4. CASE WriteFails(r)
    BY <2>1, <2>4 DEF WriteFails, rows, Pending, TypeOK
  <2>5. CASE ~SaveSpace(r) /\ ~UnsetOthers(r) /\ ~WriteFails(r)
    <3>1. default' = default /\ slipped' = slipped
      BY <1>1, <2>5 DEF Step, Begin, ReadLinks, Vet, ReadMembers, WriteMembers, Tell, TellFails,
                        Told, Welcome, rows
    <3>2. Owes(r) => Owes(r)' /\ at'[r] = at[r]
      <4>1. SUFFICES ASSUME Owes(r) PROVE Owes(r)' /\ at'[r] = at[r]
        OBVIOUS
      <4>2. /\ stage[r] \in {"saved", "read", "unsetting"} /\ Unsets(r) /\ OfOwner(job[r])
            /\ job[r].sets \/ stage[r] = "unsetting"
        BY <4>1 DEF Owes, Unsets, Shape
      <4>3. ReadMembers(r) \/ WriteMembers(r)
        BY <1>1, <2>5, <4>2 DEF Step, Begin, ReadLinks, Vet, Tell, TellFails, Told, Welcome
      <4>4. CASE ReadMembers(r)
        <5>1. ~Alone(job[r])
          BY <4>2 DEF Alone, OfOwner
        <5>2. stage'[r] = "read" /\ job' = job /\ at' = at /\ flag' = flag
          BY <4>4, <5>1 DEF ReadMembers, To, TypeOK
        <5>3. QED
          BY <4>2, <5>2 DEF Owes, Unsets, OfOwner
      <4>5. CASE WriteMembers(r)
        <5>1. job[r].op # "joinChannel" /\ Silent(r)
          BY <4>2, <4>5 DEF OfOwner, Silent, WriteMembers
        <5>2. stage'[r] = "unsetting" /\ job' = job /\ at' = at /\ flag' = flag
          BY <4>2, <4>5, <5>1 DEF WriteMembers, Proceed, To, TypeOK
        <5>3. QED
          BY <4>2, <5>2 DEF Owes, Unsets, OfOwner
      <4>6. QED
        BY <4>3, <4>4, <4>5
    <3>3. QED
      BY <2>1, <3>1, <3>2 DEF Pending
  <2>6. QED
    BY <2>2, <2>3, <2>4, <2>5
<1>2. CASE Aside \/ UNCHANGED vars
  <2>1. default' \subseteq default /\ slipped' = slipped /\ UNCHANGED local
    BY <1>2 DEF Aside, DeleteSpace, Link, Rejoin, vars, rows
  <2>2. \A q \in Requests : (Owes(q) => Owes(q)') /\ at'[q] = at[q]
    BY <2>1 DEF local, Owes, Unsets, OfOwner
  <2>3. QED
    BY <2>1, <2>2 DEF Pending
<1>3. QED
  BY <1>1, <1>2 DEF Next, Aside

(***************************************************************************)
(* What a request has read                                                 *)
(***************************************************************************)
\* Steps leave the rows of channel and members alone, or are recorded.
LEMMA StepRecords ==
  ASSUME NEW r \in Requests, Step(r)
  PROVE  /\ Overtakes({r}) \/ UNCHANGED <<members, links, overtaken>>
         /\ \A q \in Requests \ {r} : q \in entered' <=> q \in entered
         /\ ~WriteMembers(r) => UNCHANGED <<members, links, overtaken, entered>>
BY DEF Step, Begin, SaveSpace, UnsetOthers, ReadLinks, Vet, ReadMembers, WriteMembers, WriteFails,
       Tell, TellFails, Told, Welcome, rows

LEMMA AsideRecords ==
  ASSUME Aside
  PROVE  Overtakes({}) /\ UNCHANGED local /\ entered' = entered
BY DEF Aside, DeleteSpace, Link, Rejoin

LEMMA Kept ==
  ASSUME NEW R \in SUBSET Requests, Overtakes(R) \/ UNCHANGED <<members, links, overtaken>>,
         NEW q \in Requests \ R, q \notin overtaken'
  PROVE  /\ q \notin overtaken
         /\ stage[q] = "read" => members'[at[q]] = members[at[q]]
         /\ Open(q) /\ Gated(q) => links' = links /\ \A w \in links : members'[w] = members[w]
BY DEF Overtakes, Concerns, Open

LEMMA ReadStep ==
  ASSUME TypeOK, Shape, ReadOK, [Next]_vars
  PROVE  ReadOK'
<1> USE MembershipAssumption
<1> DEFINE R(q) ==
      /\ (stage[q] = "read" /\ ~job[q].sets) => about[q] = NewsFor(q)
      /\ (stage[q] \in {"telling", "welcoming"} /\ ~Leaves(job[q])) => q \in entered
<1>1. ASSUME NEW r \in Requests, Step(r) PROVE ReadOK'
  <2>1. ASSUME NEW q \in Requests \ {r}, q \notin overtaken' PROVE R(q)'
    <3>1. q \notin overtaken /\ (stage[q] = "read" => members'[at[q]] = members[at[q]])
      BY <1>1, <2>1, StepRecords, Kept
    <3>2. QED
      <4>1. /\ stage'[q] = stage[q] /\ job'[q] = job[q] /\ at'[q] = at[q] /\ about'[q] = about[q]
            /\ q \in entered' <=> q \in entered
        BY <1>1, StepIsApart, StepRecords DEF Apart
      <4>2. R(q)
        BY <3>1 DEF ReadOK
      <4>3. stage[q] = "read" => NewsFor(q)' = NewsFor(q)
        BY <3>1, <4>1 DEF NewsFor, Open, Leaves
      <4>4. Leaves(job[q])' <=> Leaves(job[q])
        BY <4>1 DEF Leaves
      <4>5. QED
        BY <4>1, <4>2, <4>3, <4>4
  <2>2. ASSUME r \notin overtaken' PROVE R(r)'
    <3> USE DEF TypeOK, To, Finish, Stages
    <3>0. r \notin overtaken
      BY <1>1, <2>2, StepRecords DEF Overtakes
    <3>1. ASSUME NEW j \in Jobs, Begin(r, j) PROVE R(r)'
      BY <3>1 DEF Begin, OfOwner
    <3>2. CASE SaveSpace(r) \/ UnsetOthers(r)
      <4>1. CASE SaveSpace(r) /\ Proceed(r)
        BY <4>1, ProceedTo DEF SaveSpace, Open
      <4>2. CASE ~(SaveSpace(r) /\ Proceed(r))
        BY <3>2, <4>2 DEF SaveSpace, UnsetOthers
      <4>3. QED
        BY <4>1, <4>2
    <3>3. CASE ReadLinks(r) \/ Vet(r)
      BY <3>3 DEF ReadLinks, Vet, Shape
    <3>4. CASE Open(r) /\ Proceed(r)
      BY <3>4, ProceedTo
    <3>5. CASE ReadMembers(r)
      <4>1. CASE Proceed(r)
        BY <3>5, <4>1, <3>4 DEF ReadMembers, Open
      <4>2. CASE ~Proceed(r)
        <5>1. stage'[r] = "read" /\ (~job[r].sets => about'[r] = NewsFor(r))
          BY <3>5, <4>2 DEF ReadMembers
        <5>2. job' = job /\ at' = at /\ members' = members
          BY <3>5, <4>2 DEF ReadMembers, rows
        <5>3. NewsFor(r)' = NewsFor(r)
          BY <5>2 DEF NewsFor, Leaves
        <5>4. QED
          BY <5>1, <5>2, <5>3
      <4>3. QED
        BY <4>1, <4>2
    <3>6. CASE WriteMembers(r)
      <4>1. CASE Proceed(r)
        BY <3>6, <4>1, <3>4 DEF WriteMembers, Open
      <4>2. CASE ~Proceed(r)
        <5>1. ~Leaves(job[r]) => about[r] \cap members[at[r]] = {}
          BY <3>0, <3>6, <4>2 DEF WriteMembers, Silent, ReadOK, NewsFor
        <5>2. QED
          BY <3>6, <4>2, <5>1 DEF WriteMembers, Leaves
      <4>3. QED
        BY <4>1, <4>2
    <3>7. CASE WriteFails(r)
      BY <3>7 DEF WriteFails
    <3>8. ASSUME NEW u \in Users, Tell(r, u) \/ TellFails(r, u) PROVE R(r)'
      BY <3>0, <3>8 DEF Tell, TellFails, ReadOK, Leaves
    <3>9. CASE Told(r) \/ Welcome(r)
      <4>1. CASE Proceed(r)
        BY <3>9, <4>1, <3>4 DEF Told, Welcome, Open
      <4>2. CASE ~Proceed(r)
        BY <3>0, <3>9, <4>2 DEF Told, Welcome, ReadOK, Leaves
      <4>3. QED
        BY <4>1, <4>2
    <3>10. QED
      BY <1>1, <3>1, <3>2, <3>3, <3>5, <3>6, <3>7, <3>8, <3>9 DEF Step
  <2>3. QED
    BY <2>1, <2>2 DEF ReadOK
<1>2. CASE Aside
  <2>1. Overtakes({}) /\ UNCHANGED local /\ entered' = entered
    BY <1>2, AsideRecords
  <2>2. ASSUME NEW q \in Requests, q \notin overtaken' PROVE R(q)'
    <3>1. q \notin overtaken /\ (stage[q] = "read" => members'[at[q]] = members[at[q]])
      BY <2>1, <2>2, Kept
    <3>2. QED
      BY <2>1, <3>1 DEF local, ReadOK, NewsFor, Leaves
  <2>3. QED
    BY <2>2 DEF ReadOK
<1>3. CASE UNCHANGED vars
  BY <1>3 DEF vars, rows, local, ReadOK, NewsFor, Leaves
<1>4. QED
  BY <1>1, <1>2, <1>3 DEF Next, Aside

LEMMA GateStep ==
  ASSUME TypeOK, Shape, GateOK, [Next]_vars
  PROVE  GateOK'
<1> USE MembershipAssumption
<1> DEFINE A(q) ==
      (stage[q] \in {"linked", "vetted", "read"} /\ job[q].op = "add" /\ at[q] = Channel) =>
         /\ scope[q] = links
         /\ stage[q] # "linked" =>
              links = {} \/ job[q].who \subseteq UNION {members[w] : w \in links}
    J(q) ==
      (Open(q) /\ job[q].op = "joinChannel") =>
         /\ job[q].place \in links
         /\ (at[q] = Channel \/ stage[q] \in {"telling", "welcoming"}) =>
              job[q].who \subseteq members[job[q].place]
<1>0. ASSUME NEW R \in SUBSET Requests, Overtakes(R) \/ UNCHANGED <<members, links, overtaken>>,
             NEW q \in Requests \ R, q \notin overtaken',
             stage'[q] = stage[q], job'[q] = job[q], at'[q] = at[q], scope'[q] = scope[q]
      PROVE  A(q)' /\ J(q)'
  <2>1. q \notin overtaken
    BY <1>0, Kept
  <2>2. A(q) /\ J(q)
    BY <2>1 DEF GateOK
  <2>3. CASE Open(q) /\ Gated(q)
    <3>1. links' = links /\ \A w \in links : members'[w] = members[w]
      BY <1>0, <2>3, Kept
    <3>2. UNION {members'[w] : w \in links'} = UNION {members[w] : w \in links}
      BY <3>1
    <3>3. A(q)'
      BY <1>0, <2>2, <3>1, <3>2
    <3>4. J(q)'
      BY <1>0, <2>2, <3>1 DEF Open
    <3>5. QED
      BY <3>3, <3>4
  <2>4. CASE ~(Open(q) /\ Gated(q))
    BY <1>0, <2>4 DEF Open, Gated
  <2>5. QED
    BY <2>3, <2>4
<1>1. ASSUME NEW r \in Requests, Step(r) PROVE GateOK'
  <2>1. \A q \in Requests \ {r} : q \notin overtaken' => A(q)' /\ J(q)'
    <3>1. {r} \in SUBSET Requests /\ (Overtakes({r}) \/ UNCHANGED <<members, links, overtaken>>)
      BY <1>1, StepRecords
    <3>2. ASSUME NEW q \in Requests \ {r}, q \notin overtaken'
          PROVE  A(q)' /\ J(q)'
      <4>1. stage'[q] = stage[q] /\ job'[q] = job[q] /\ at'[q] = at[q] /\ scope'[q] = scope[q]
        BY <1>1, StepIsApart DEF Apart
      <4>2. QED
        BY <1>0, <3>1, <3>2, <4>1
    <3>3. QED
      BY <3>2
  <2>2. ASSUME r \notin overtaken' PROVE A(r)' /\ J(r)'
    <3> USE DEF TypeOK, To, Finish
    <3>0. r \notin overtaken
      BY <1>1, <2>2, StepRecords DEF Overtakes
    <3>a. A(r) /\ J(r)
      BY <3>0 DEF GateOK
    <3>1. ASSUME NEW j \in Jobs, Begin(r, j) PROVE A(r)' /\ J(r)'
      <4>1. job'[r] = j /\ at'[r] = j.place /\ links' = links
            /\ stage'[r] = (IF OfOwner(j) THEN "loaded" ELSE "begun")
        BY <3>1 DEF Begin, rows
      <4>2. j.op = "joinChannel" => j.place \in links /\ j.place # Channel
        BY <3>1 DEF Begin
      <4>3. QED
        BY <4>1, <4>2 DEF OfOwner, Open
    <3>2. CASE SaveSpace(r) \/ UnsetOthers(r)
      <4>1. OfOwner(job[r])
        BY <3>2 DEF SaveSpace, UnsetOthers, Shape
      <4>2. CASE SaveSpace(r) /\ Proceed(r)
        BY <4>1, <4>2, ProceedTo DEF SaveSpace, Open, OfOwner
      <4>3. CASE ~(SaveSpace(r) /\ Proceed(r))
        BY <3>2, <4>1, <4>3 DEF SaveSpace, UnsetOthers, Open, OfOwner
      <4>4. QED
        BY <4>2, <4>3
    <3>3. CASE ReadLinks(r)
      BY <3>3 DEF ReadLinks, Open, rows
    <3>4. CASE Vet(r)
      <4>1. job[r].op = "add" /\ at[r] = Channel /\ scope[r] = links
        BY <3>4, <3>a DEF Vet, Shape
      <4>2. QED
        BY <3>4, <4>1 DEF Vet, Open, rows
    <3>5. ASSUME Open(r), Proceed(r), links' = links,
                 job[r].op = "joinChannel" /\ at[r] # Channel
                   => job[r].who \subseteq members'[job[r].place]
          PROVE  A(r)' /\ J(r)'
      BY <3>5, <3>a, ProceedTo DEF Open, Unsets, OfOwner
    <3>6. CASE ReadMembers(r)
      <4>1. CASE Alone(job[r]) /\ NewsFor(r) = {}
        <5>1. Open(r) /\ links' = links /\ members' = members /\ Proceed(r)
          BY <3>6, <4>1 DEF ReadMembers, Open, rows
        <5>2. job[r].op = "joinChannel" /\ at[r] # Channel => job[r].who \subseteq members[job[r].place]
          BY <4>1, <5>1 DEF NewsFor, Leaves, Shape
        <5>3. QED
          BY <3>5, <5>1, <5>2
      <4>2. CASE ~(Alone(job[r]) /\ NewsFor(r) = {})
        <5>1. /\ stage'[r] = "read" /\ job' = job /\ at' = at /\ scope' = scope
              /\ links' = links /\ members' = members
              /\ stage[r] \in {"begun", "vetted", "saved"} /\ Open(r)
              /\ stage[r] = "saved" => OfOwner(job[r])
              /\ ~(stage[r] = "begun" /\ job[r].op = "add" /\ at[r] = Channel)
          BY <3>6, <4>2 DEF ReadMembers, rows, Open, Shape
        <5>2. QED
          BY <3>a, <5>1 DEF OfOwner
      <4>3. QED
        BY <4>1, <4>2
    <3>7. CASE WriteMembers(r)
      <4>1. links' = links /\ Open(r) /\ at[r] \in Places
        BY <3>7 DEF WriteMembers, Open, Shape
      <4>2. job[r].op = "joinChannel" => job[r].who \subseteq members'[job[r].place]
        <5>1. ASSUME job[r].op = "joinChannel"
              PROVE  /\ job[r].place \in Spaces /\ job[r].place # Channel
                     /\ Deletes(r) = {} /\ Inserts(r) = job[r].who
          BY <4>1, <5>1 DEF Shape, Leaves, OfOwner, Deletes, Inserts
        <5>2. CASE at[r] = Channel
          BY <3>7, <3>a, <4>1, <5>1, <5>2 DEF WriteMembers, Places
        <5>3. CASE at[r] # Channel
          BY <3>7, <4>1, <5>1, <5>3 DEF WriteMembers, Shape
        <5>4. QED
          BY <5>2, <5>3
      <4>3. CASE Silent(r)
        BY <3>5, <3>7, <4>1, <4>2, <4>3 DEF WriteMembers
      <4>4. CASE ~Silent(r)
        BY <3>7, <3>a, <4>1, <4>2, <4>4 DEF WriteMembers, Open
      <4>5. QED
        BY <4>3, <4>4
    <3>8. CASE WriteFails(r)
      BY <3>8 DEF WriteFails, Open
    <3>9. ASSUME NEW u \in Users, Tell(r, u) \/ TellFails(r, u) PROVE A(r)' /\ J(r)'
      BY <3>9, <3>a DEF Tell, TellFails, Open, rows
    <3>10. CASE Told(r) \/ Welcome(r)
      <4>1. /\ stage[r] \in {"telling", "welcoming"} /\ Open(r)
            /\ links' = links /\ members' = members
        BY <3>10 DEF Told, Welcome, Open, rows
      <4>2. CASE Proceed(r)
        BY <3>5, <3>a, <4>1, <4>2
      <4>3. CASE ~Proceed(r)
        BY <3>10, <3>a, <4>1, <4>3 DEF Told, Welcome, Open
      <4>4. QED
        BY <4>2, <4>3
    <3>11. QED
      BY <1>1, <3>1, <3>2, <3>3, <3>4, <3>6, <3>7, <3>8, <3>9, <3>10 DEF Step
  <2>3. QED
    BY <2>1, <2>2 DEF GateOK
<1>2. CASE Aside
  <2>1. Overtakes({}) /\ UNCHANGED local
    BY <1>2, AsideRecords
  <2>2. \A q \in Requests : q \notin overtaken' => A(q)' /\ J(q)'
    BY <1>0, <2>1 DEF local
  <2>3. QED
    BY <2>2 DEF GateOK
<1>3. CASE UNCHANGED vars
  BY <1>3 DEF vars, rows, local, GateOK, Open
<1>4. QED
  BY <1>1, <1>2, <1>3 DEF Next, Aside

\* A step that leaves alone who tells what about a place, and whether those who are to be
\* told are in it.
LEMMA NewsKept ==
  ASSUME NewsOK, NEW p \in Places \ muddled,
         \A q \in Requests : Telling(q, p)' => Telling(q, p) /\ about'[q] = about[q] /\ job'[q] = job[q],
         \A q \in Requests : Telling(q, p) /\ ~Telling(q, p)' => about[q] = {},
         \A q \in Requests : Telling(q, p) =>
           \A u \in about[q] : u \in members'[p] <=> u \in members[p],
         \A u \in Users : Agrees(p, u) => Agrees(p, u)'
  PROVE  /\ \A q, r \in Requests :
              Telling(q, p)' /\ Telling(r, p)' /\ q # r => about'[q] \cap about'[r] = {}
         /\ \A r \in Requests, u \in Users :
              Telling(r, p)' /\ u \in about'[r] => (u \in members'[p] <=> ~Leaves(job'[r]))
         /\ \A u \in Users : Silence(p, u)' => Agrees(p, u)'
<1>1. \A q, r \in Requests :
        Telling(q, p)' /\ Telling(r, p)' /\ q # r => about'[q] \cap about'[r] = {}
  BY DEF NewsOK
<1>2. ASSUME NEW r \in Requests, NEW u \in Users, Telling(r, p)', u \in about'[r]
      PROVE  u \in members'[p] <=> ~Leaves(job'[r])
  BY <1>2 DEF NewsOK, Leaves
<1>3. ASSUME NEW u \in Users, Silence(p, u)'
      PROVE  Agrees(p, u)'
  <2>1. Silence(p, u)
    BY <1>3 DEF Silence
  <2>2. QED
    BY <2>1 DEF NewsOK
<1>4. QED
  BY <1>1, <1>2, <1>3

\* A change of rows that tells nothing, unless it crosses the news of another request.
LEMMA NewsForgotten ==
  ASSUME TypeOK, NewsOK, NEW p \in Places \ muddled, NEW R \in SUBSET Requests, NEW who \in SUBSET Users,
         Forget(p, who), ~Crosses(R, p), \A r \in R : ~Telling(r, p),
         \A u \in Users \ who : u \in members'[p] <=> u \in members[p]
  PROVE  /\ \A q \in Requests : Telling(q, p) =>
              \A u \in about[q] : u \in members'[p] <=> u \in members[p]
         /\ \A u \in Users : Agrees(p, u) => Agrees(p, u)'
<1>1. \A u \in Users : news'[p][u] = IF u \in who THEN None ELSE news[p][u]
  BY DEF Forget, TypeOK
<1>2. None # "in" /\ None # "out"
  BY MembershipAssumption
<1>3. \A u \in Users : Agrees(p, u) => Agrees(p, u)'
  BY <1>1, <1>2 DEF Agrees
<1>4. QED
  BY <1>3 DEF Crosses

LEMMA NewsStep ==
  ASSUME TypeOK, Shape, ReadOK, NewsOK, [Next]_vars
  PROVE  NewsOK'
<1> USE MembershipAssumption
<1> DEFINE N(p) ==
      /\ \A q, r \in Requests :
           Telling(q, p)' /\ Telling(r, p)' /\ q # r => about'[q] \cap about'[r] = {}
      /\ \A r \in Requests, u \in Users :
           Telling(r, p)' /\ u \in about'[r] => (u \in members'[p] <=> ~Leaves(job'[r]))
      /\ \A u \in Users : Silence(p, u)' => Agrees(p, u)'
<1>0. SUFFICES ASSUME NEW p \in Places, p \notin muddled'
               PROVE  N(p)
  BY DEF NewsOK
<1>1. ASSUME NEW r \in Requests, WriteMembers(r) PROVE N(p)
  <2>1. /\ stage[r] = "read" /\ Open(r) /\ at[r] \in Places /\ ~Telling(r, p)
        /\ p \notin muddled /\ job[r].who \subseteq Users /\ about[r] \subseteq Users
    BY <1>0, <1>1, JobType DEF WriteMembers, Open, Shape, Telling, TypeOK
  <2>2. \A q \in Requests \ {r} : /\ stage'[q] = stage[q] /\ job'[q] = job[q]
                                  /\ at'[q] = at[q] /\ about'[q] = about[q]
    BY <1>1, StepIsApart DEF Step, Apart
  <2>3. Telling(r, p)' => /\ ~Silent(r) /\ at[r] = p /\ about' = about /\ job' = job
    BY <1>1, <2>1, ProceedTo DEF WriteMembers, Telling
  <2>4. \A q \in Requests \ {r} : Telling(q, p)' <=> Telling(q, p)
    BY <2>2 DEF Telling
  <2>5. p = at[r] =>
          /\ members'[p] = (members[p] \ Deletes(r)) \cup Inserts(r)
          /\ ~Crosses({r}, p)
          /\ ~Silent(r) => r \notin overtaken
    BY <1>0, <1>1, <2>1 DEF WriteMembers, TypeOK
  <2>6. CASE p # at[r]
    <3>1. members'[p] = members[p]
      BY <1>1, <2>1, <2>6 DEF WriteMembers, TypeOK
    <3>2. news'[p] = news[p]
      BY <1>1, <2>1, <2>6 DEF WriteMembers, Forget, TypeOK
    <3>3. ~Telling(r, p)'
      BY <2>3, <2>6
    <3>4. \A u \in Users : Agrees(p, u) => Agrees(p, u)'
      BY <3>1, <3>2 DEF Agrees
    <3>5. QED
      BY <2>1, <2>2, <2>4, <3>1, <3>3, <3>4, NewsKept
  <2>7. CASE p = at[r] /\ Silent(r)
    <3>1. Deletes(r) \cup Inserts(r) \subseteq Users
      BY <2>1 DEF Deletes, Inserts
    <3>2. Forget(p, Deletes(r) \cup Inserts(r))
      BY <1>1, <2>7 DEF WriteMembers
    <3>3. /\ \A q \in Requests : Telling(q, p) =>
               \A u \in about[q] : u \in members'[p] <=> u \in members[p]
          /\ \A u \in Users : Agrees(p, u) => Agrees(p, u)'
      BY <2>1, <2>5, <2>7, <3>1, <3>2, NewsForgotten
    <3>4. ~Telling(r, p)'
      BY <2>3, <2>7
    <3>5. QED
      BY <2>1, <2>2, <2>4, <3>3, <3>4, NewsKept
  <2>8. CASE p = at[r] /\ ~Silent(r)
    <3>1. about[r] = NewsFor(r) /\ ~job[r].sets
      BY <2>1, <2>5, <2>8 DEF ReadOK, Silent
    <3>2. \A u \in Users : u \notin about[r] => (u \in members'[p] <=> u \in members[p])
      BY <2>5, <2>8, <3>1 DEF NewsFor, Deletes, Inserts
    <3>3. \A u \in Users : u \in about[r] => /\ u \in members'[p] <=> ~Leaves(job[r])
                                             /\ (u \in members'[p]) # (u \in members[p])
      BY <2>5, <2>8, <3>1 DEF NewsFor, Deletes, Inserts
    <3>4. \A q \in Requests \ {r} : Telling(q, p) =>
            \A u \in about[q] : u \in members'[p] <=> u \in members[p]
      BY <2>5, <2>8 DEF Crosses
    <3>5. Telling(r, p)' /\ about' = about /\ job' = job /\ news' = news
      BY <1>1, <2>8 DEF WriteMembers, Telling, To, TypeOK
    <3>6. ASSUME NEW q \in Requests, NEW t \in Requests, Telling(q, p)', Telling(t, p)', q # t
          PROVE  about'[q] \cap about'[t] = {}
      <4>1. CASE q # r /\ t # r
        BY <2>1, <2>4, <3>5, <3>6, <4>1 DEF NewsOK
      <4>2. CASE q = r \/ t = r
        BY <2>1, <2>4, <3>3, <3>4, <3>5, <3>6, <4>2
      <4>3. QED
        BY <4>1, <4>2
    <3>7. ASSUME NEW q \in Requests, NEW u \in Users, Telling(q, p)', u \in about'[q]
          PROVE  u \in members'[p] <=> ~Leaves(job'[q])
      <4>1. CASE q = r
        BY <3>3, <3>5, <3>7, <4>1
      <4>2. CASE q # r
        BY <2>1, <2>4, <3>4, <3>5, <3>7, <4>2 DEF NewsOK
      <4>3. QED
        BY <4>1, <4>2
    <3>8. ASSUME NEW u \in Users, Silence(p, u)'
          PROVE  Agrees(p, u)'
      <4>1. u \notin about[r]
        BY <3>5, <3>8 DEF Silence
      <4>2. Silence(p, u)
        BY <2>1, <2>4, <3>5, <3>8 DEF Silence
      <4>3. Agrees(p, u)
        BY <2>1, <4>2 DEF NewsOK
      <4>4. QED
        BY <3>2, <3>5, <4>1, <4>3 DEF Agrees
    <3>9. QED
      BY <3>6, <3>7, <3>8
  <2>9. QED
    BY <2>6, <2>7, <2>8
<1>2. ASSUME NEW r \in Requests, NEW v \in Users, Tell(r, v) PROVE N(p)
  <2>1. /\ stage[r] = "telling" /\ v \in about[r] /\ at[r] \in Places
        /\ UNCHANGED <<members, stage, job, at, muddled>> /\ p \notin muddled
    BY <1>0, <1>2 DEF Tell, Shape, Open, rows
  <2>2. \A q \in Requests : about'[q] = IF q = r THEN about[r] \ {v} ELSE about[q]
    BY <1>2 DEF Tell, TypeOK
  <2>3. \A q \in Requests : Telling(q, p)' <=> Telling(q, p)
    BY <2>1 DEF Telling
  <2>4. /\ \A q, t \in Requests :
             Telling(q, p)' /\ Telling(t, p)' /\ q # t => about'[q] \cap about'[t] = {}
        /\ \A q \in Requests, u \in Users :
             Telling(q, p)' /\ u \in about'[q] => (u \in members'[p] <=> ~Leaves(job'[q]))
    BY <2>1, <2>2, <2>3 DEF NewsOK
  <2>5. ASSUME NEW u \in Users, Silence(p, u)' PROVE Agrees(p, u)'
    <3>1. CASE p = at[r] /\ u = v
      <4>1. news'[p][v] = IF Leaves(job[r]) THEN "out" ELSE "in"
        BY <1>2, <2>1, <3>1 DEF Tell, TypeOK
      <4>2. v \in members[p] <=> ~Leaves(job[r])
        BY <2>1, <3>1 DEF NewsOK, Telling
      <4>3. QED
        BY <2>1, <3>1, <4>1, <4>2 DEF Agrees
    <3>2. CASE ~(p = at[r] /\ u = v)
      <4>1. news'[p][u] = news[p][u]
        BY <1>2, <2>1, <3>2 DEF Tell, TypeOK
      <4>2. Silence(p, u)
        BY <2>2, <2>3, <2>5, <3>2 DEF Silence, Telling
      <4>3. QED
        BY <2>1, <4>1, <4>2 DEF NewsOK, Agrees
    <3>3. QED
      BY <3>1, <3>2
  <2>6. QED
    BY <2>4, <2>5
<1>3. ASSUME NEW r \in Requests, NEW v \in Users, TellFails(r, v) PROVE N(p)
  <2>1. /\ stage[r] = "telling" /\ p # at[r] /\ p \notin muddled
        /\ UNCHANGED <<members, stage, job, at, news>>
    BY <1>0, <1>3 DEF TellFails, rows
  <2>2. \A q \in Requests \ {r} : about'[q] = about[q]
    BY <1>3 DEF TellFails, TypeOK
  <2>3. \A u \in Users : Agrees(p, u) => Agrees(p, u)'
    BY <2>1 DEF Agrees
  <2>4. QED
    BY <2>1, <2>2, <2>3, NewsKept DEF Telling
<1>4. ASSUME NEW r \in Requests, Told(r) PROVE N(p)
  <2>1. /\ stage[r] = "telling" /\ about[r] = {} /\ p \notin muddled
        /\ UNCHANGED <<members, news>>
    BY <1>0, <1>4 DEF Told, rows
  <2>2. \A q \in Requests \ {r} : /\ stage'[q] = stage[q] /\ job'[q] = job[q]
                                  /\ at'[q] = at[q] /\ about'[q] = about[q]
    BY <1>4, StepIsApart DEF Step, Apart
  <2>3. stage'[r] # "telling"
    BY <1>4, <2>1, ProceedTo DEF Told, To, TypeOK, Open
  <2>4. \A u \in Users : Agrees(p, u) => Agrees(p, u)'
    BY <2>1 DEF Agrees
  <2>5. QED
    BY <2>1, <2>2, <2>3, <2>4, NewsKept DEF Telling
<1>5. ASSUME NEW r \in Requests, Step(r), ~WriteMembers(r), ~Told(r),
             \A u \in Users : ~Tell(r, u) /\ ~TellFails(r, u)
      PROVE  N(p)
  <2>1. \A q \in Requests \ {r} : /\ stage'[q] = stage[q] /\ job'[q] = job[q]
                                  /\ at'[q] = at[q] /\ about'[q] = about[q]
    BY <1>5, StepIsApart DEF Apart
  <2>2. UNCHANGED <<members, news, muddled>>
    BY <1>5 DEF Step, Begin, SaveSpace, UnsetOthers, ReadLinks, Vet, ReadMembers, WriteFails, Welcome, rows
  <2>3. stage[r] # "telling"
    BY <1>5 DEF Step, Begin, SaveSpace, UnsetOthers, ReadLinks, Vet, ReadMembers, WriteFails, Welcome
  <2>4. stage'[r] # "telling"
    <3>1. CASE Open(r) /\ Proceed(r)
      BY <3>1, ProceedTo
    <3>2. CASE ~(Open(r) /\ Proceed(r))
      BY <1>5, <3>2
         DEF Step, Begin, SaveSpace, UnsetOthers, ReadLinks, Vet, ReadMembers, WriteFails, Welcome,
             To, Finish, TypeOK, Open
    <3>3. QED
      BY <3>1, <3>2
  <2>5. \A u \in Users : Agrees(p, u) => Agrees(p, u)'
    BY <2>2 DEF Agrees
  <2>6. QED
    BY <1>0, <2>1, <2>2, <2>3, <2>4, <2>5, NewsKept DEF Telling
<1>6. ASSUME NEW q \in Places, NEW who \in SUBSET Users, Forget(q, who),
             members' = [members EXCEPT ![q] = members'[q]],
             \A u \in Users \ who : u \in members'[q] <=> u \in members[q],
             muddled' = (IF Crosses({}, q) THEN muddled \cup {q} ELSE muddled),
             UNCHANGED local
      PROVE  N(p)
  <2>1. p \notin muddled
    BY <1>0, <1>6
  <2>2. \A r \in Requests : Telling(r, p)' <=> Telling(r, p)
    BY <1>6 DEF local, Telling
  <2>3. CASE p = q
    <3>1. ~Crosses({}, p)
      BY <1>0, <1>6, <2>3
    <3>2. /\ \A r \in Requests : Telling(r, p) =>
               \A u \in about[r] : u \in members'[p] <=> u \in members[p]
          /\ \A u \in Users : Agrees(p, u) => Agrees(p, u)'
      BY <1>6, <2>1, <2>3, <3>1, NewsForgotten
    <3>3. QED
      BY <1>6, <2>1, <2>2, <3>2, NewsKept DEF local
  <2>4. CASE p # q
    <3>1. members'[p] = members[p]
      BY <1>6, <2>4 DEF TypeOK
    <3>2. news'[p] = news[p]
      BY <1>6, <2>4 DEF Forget, TypeOK
    <3>3. \A u \in Users : Agrees(p, u) => Agrees(p, u)'
      BY <3>1, <3>2 DEF Agrees
    <3>4. QED
      BY <1>6, <2>1, <2>2, <3>1, <3>3, NewsKept DEF local
  <2>5. QED
    BY <2>3, <2>4
<1>7. ASSUME NEW w \in Spaces, DeleteSpace(w) PROVE N(p)
  <2>1. w \in Places /\ members' = [members EXCEPT ![w] = members'[w]]
    BY <1>7 DEF DeleteSpace, Places, TypeOK
  <2>2. QED
    BY <1>6, <1>7, <2>1 DEF DeleteSpace
<1>8. ASSUME NEW u \in Users, Rejoin(u) PROVE N(p)
  <2>1. Group \in Places /\ members' = [members EXCEPT ![Group] = members'[Group]]
    BY <1>8 DEF Rejoin, Places, TypeOK
  <2>2. \A v \in Users \ {u} : v \in members'[Group] <=> v \in members[Group]
    BY <1>8, <2>1 DEF Rejoin, TypeOK
  <2>3. QED
    BY <1>6, <1>8, <2>1, <2>2 DEF Rejoin
<1>9. CASE (\E w \in Spaces : Link(w)) \/ UNCHANGED vars
  <2>1. UNCHANGED <<local, members, news, muddled>>
    BY <1>9 DEF Link, vars, rows
  <2>2. \A u \in Users : Agrees(p, u) => Agrees(p, u)'
    BY <2>1 DEF Agrees
  <2>3. QED
    BY <1>0, <2>1, <2>2, NewsKept DEF local, Telling
<1>10. QED
  BY <1>1, <1>2, <1>3, <1>4, <1>5, <1>7, <1>8, <1>9 DEF Next

(***************************************************************************)
(* The theorems                                                            *)
(***************************************************************************)
LEMMA Inductive == IInv /\ [Next]_vars => IInv'
<1> SUFFICES ASSUME IInv, [Next]_vars PROVE IInv'
  OBVIOUS
<1> USE DEF IInv
<1>1. TypeOK' /\ Shape' /\ Pending'
  BY TypeStep, ShapeStep, PendingStep
<1>2. ReadOK' /\ GateOK' /\ NewsOK'
  BY ReadStep, GateStep, NewsStep
<1>3. QED
  BY <1>1, <1>2

LEMMA Invariance == Spec => []IInv
<1>1. QED
  BY InitIInv, Inductive, PTL DEF Spec

\* Rows, requests and histories keep their shape; defaults and links are of workspaces
\* that exist.
THEOREM TypeCorrect == Spec => []TypeOK
<1>1. IInv => TypeOK
  BY DEF IInv
<1>2. QED
  BY Invariance, <1>1, PTL

\* However creations and updates of workspaces overlap, save() and _unset_other_defaults()
\* leave at most one default, but where an update has brought back one that was unset.
THEOREM AtMostOneDefault == Spec => []OneDefault
<1>1. IInv => OneDefault
  <2> SUFFICES ASSUME IInv, ~slipped, \A r \in Requests : ~Owes(r)
               PROVE  Cardinality(default) <= 1
    BY DEF OneDefault
  <2>1. \A v, w \in default : v = w
    BY DEF IInv, Pending
  <2>2. CASE default = {}
    BY <2>2, FS_EmptySet
  <2>3. ASSUME NEW w \in default PROVE Cardinality(default) <= 1
    <3>1. default = {w}
      BY <2>1
    <3>2. Cardinality({w}) = 1
      BY FS_Singleton
    <3>3. QED
      BY <3>1, <3>2
  <2>4. QED
    BY <2>2, <2>3
<1>2. QED
  BY Invariance, <1>1, PTL

\* Unless a request goes by stale rows, crosses the news of another or loses a notification,
\* what each user was last told about a place agrees with the rows, or a change that tells
\* nobody has come after it.
THEOREM NewsAreTrue == Spec => []LastNewsIsTrue
<1>1. IInv => LastNewsIsTrue
  BY DEF IInv, NewsOK, Silence, Agrees, LastNewsIsTrue
<1>2. QED
  BY Invariance, <1>1, PTL

\* add_users() and the joins let into the channel only members of its workspaces, and a
\* join welcomes only whom it has let in, unless the rows changed between their queries.
\* Of an update of the channel with user_ids it says nothing.
THEOREM NobodySlipsIn == Spec => AdmittedFromWorkspace
<1>1. ASSUME IInv, NEW r \in Requests \ overtaken, WriteMembers(r), at[r] = Channel, Gated(r),
             NEW u \in members'[Channel] \ members[Channel], links # {}
      PROVE  \E w \in links : u \in members[w]
  <2> USE MembershipAssumption DEF IInv
  <2>1. stage[r] = "read" /\ Open(r) /\ job[r] \in Jobs /\ job[r].op \in {"add", "joinChannel"}
    BY <1>1 DEF WriteMembers, Open, Shape, Gated
  <2>2. u \in job[r].who
    <3>1. Deletes(r) = {} /\ Inserts(r) = job[r].who
      BY <2>1 DEF Leaves, OfOwner, Deletes, Inserts
    <3>2. QED
      BY <1>1, <3>1 DEF WriteMembers, TypeOK, Places
  <2>3. CASE job[r].op = "add"
    BY <1>1, <2>1, <2>2, <2>3 DEF GateOK
  <2>4. CASE job[r].op = "joinChannel"
    BY <1>1, <2>1, <2>2, <2>4 DEF GateOK
  <2>5. QED
    BY <2>1, <2>3, <2>4
<1>2. ASSUME IInv, NEW r \in Requests \ overtaken, Welcome(r) PROVE r \in entered
  <2>1. stage[r] = "welcoming" /\ Alone(job[r]) /\ at[r] \in Spaces /\ Open(r)
    BY <1>2 DEF Welcome, IInv, Shape, Open
  <2>2. ~Leaves(job[r])
    <3>1. job[r] \in Jobs /\ job[r].op # "remove"
      BY <1>2, <2>1 DEF IInv, Shape, Open, Alone
    <3>2. job[r].op = "leave" => at[r] = job[r].place
      BY <1>2, <2>1 DEF IInv, Shape
    <3>3. job[r].op # "leave"
      BY <2>1, <3>1, <3>2, MembershipAssumption
    <3>4. QED
      BY <3>1, <3>3 DEF Leaves
  <2>3. QED
    BY <1>2, <2>1, <2>2 DEF IInv, ReadOK
<1>3. IInv /\ [Next]_vars =>
        [\A r \in Requests \ overtaken :
           /\ (WriteMembers(r) /\ at[r] = Channel /\ Gated(r)) =>
                \A u \in members'[Channel] \ members[Channel] :
                  links # {} => \E w \in links : u \in members[w]
           /\ Welcome(r) => r \in entered]_vars
  BY <1>1, <1>2
<1>4. QED
  BY Invariance, <1>3, PTL DEF Spec, AdmittedFromWorkspace
===============================================================================
