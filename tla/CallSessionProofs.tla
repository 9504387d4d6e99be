-------------------------- MODULE CallSessionProofs --------------------------
(***************************************************************************)
(* Theorems about CallSession for every set of users and requests.         *)
(***************************************************************************)
EXTENDS CallSession, FiniteSetTheorems, TLAPS

\* Before the call exists nobody takes part in it and one request may create it.
Fresh ==
  /\ call = "none" =>
       /\ participants = {} /\ joined = {}
       /\ \A r \in Requests : stage[r] \in {"idle", "creating"}
  /\ \A r \in Requests : stage[r] = "creating" => call = "none"
  /\ \A r, q \in Requests : stage[r] = "creating" /\ stage[q] = "creating" => r = q

\* What a request works on was true when it read it, and still is.
Reads ==
  \A r \in Requests :
    /\ seen[r] \subseteq joined
    /\ stage[r] = "joining" => who[r] \in participants
    /\ stage[r] = "leaving" => who[r] \in joined
    /\ stage[r] \in {"ringing", "announcing"} => batch[r] \subseteq participants \ {Creator}
    /\ stage[r] \in {"announce", "announcing"} => call = "ended"

\* The two parts of ToldTheRightOnes: when something is told, and to whom.
FinishedAfterEnd == \A u \in Users : Finished(u) > 0 => call = "ended"

ToldOnlyThem ==
  \A u \in Users :
    /\ told[u]["ended"] > 0 => u \in joined
    /\ (\E k \in Kinds : told[u][k] > 0) => u \in participants \ {Creator}

IInv ==
  /\ TypeOK
  /\ Fresh
  /\ Reads
  /\ Attendance
  /\ FinishedAfterEnd
  /\ ToldOnlyThem

LEMMA InitIInv == Init => IInv
<1> SUFFICES ASSUME Init PROVE IInv
  OBVIOUS
<1> USE CallAssumption DEF Init
<1>1. TypeOK
  BY DEF TypeOK, Stages
<1>2. Fresh /\ Reads /\ Attendance
  BY DEF Fresh, Reads, Attendance
<1>3. FinishedAfterEnd /\ ToldOnlyThem
  BY DEF FinishedAfterEnd, ToldOnlyThem, Finished, Kinds
<1>4. QED
  BY <1>1, <1>2, <1>3 DEF IInv

\* A step that tells nobody keeps what is said of `told`.
LEMMA Untold ==
  ASSUME FinishedAfterEnd, ToldOnlyThem, told' = told,
         joined \subseteq joined', participants \subseteq participants',
         call = "ended" => call' = "ended"
  PROVE  FinishedAfterEnd' /\ ToldOnlyThem'
  BY DEF FinishedAfterEnd, ToldOnlyThem, Finished

\* One notification of user u.
LEMMA TellStep ==
  ASSUME TypeOK, FinishedAfterEnd, ToldOnlyThem,
         NEW u \in Users, NEW kind \in Kinds, Tell(u, kind),
         u \in participants \ {Creator},
         kind # "incoming" => call = "ended",
         kind = "ended" => u \in joined,
         UNCHANGED <<call, joined, participants>>
  PROVE  /\ told' \in [Users -> [Kinds -> Nat]]
         /\ FinishedAfterEnd' /\ ToldOnlyThem'
<1>1. CASE told' = told
  BY <1>1, Untold DEF TypeOK
<1>2. CASE told' = [told EXCEPT ![u][kind] = @ + 1]
  <2>1. \A v \in Users, k \in Kinds :
          told'[v][k] = IF v = u /\ k = kind THEN told[v][k] + 1 ELSE told[v][k]
    BY <1>2 DEF TypeOK
  <2>2. told' \in [Users -> [Kinds -> Nat]]
    <3>1. [told[u] EXCEPT ![kind] = told[u][kind] + 1] \in [Kinds -> Nat]
      BY DEF TypeOK
    <3>2. QED
      BY <1>2, <3>1 DEF TypeOK
  <2>3. \A v \in Users, k \in Kinds : told[v][k] \in Nat
    BY DEF TypeOK
  <2>4. FinishedAfterEnd'
    BY <2>1, <2>3 DEF FinishedAfterEnd, Finished, Kinds
  <2>5. ToldOnlyThem'
    BY <2>1, <2>3 DEF ToldOnlyThem, Kinds
  <2>6. QED
    BY <2>2, <2>4, <2>5
<1>3. QED
  BY <1>1, <1>2 DEF Tell

LEMMA NextIInv ==
  ASSUME IInv, [Next]_vars
  PROVE  IInv'
<1> USE CallAssumption DEF IInv, rows, request, history, Goto
<1>1. ASSUME NEW r \in Requests, NEW invited \in SUBSET Users, CreateCheck(r, invited)
      PROVE  IInv'
  <2>1. TypeOK'
    BY <1>1 DEF CreateCheck, Accepted, TypeOK, Stages
  <2>2. Fresh' /\ Reads' /\ Attendance'
    BY <1>1 DEF CreateCheck, Accepted, TypeOK, Fresh, Reads, Attendance
  <2>3. QED
    BY <1>1, <2>1, <2>2, Untold DEF CreateCheck
<1>2. ASSUME NEW r \in Requests, CreateCommit(r)
      PROVE  IInv'
  <2>1. call = "none" /\ participants = {} /\ joined = {}
    BY <1>2 DEF CreateCommit, Fresh
  <2>2. TypeOK'
    BY <1>2 DEF CreateCommit, TypeOK, Stages
  <2>3. Fresh'
    BY <1>2 DEF CreateCommit, TypeOK, Fresh
  <2>4. Reads' /\ Attendance'
    BY <1>2, <2>1 DEF CreateCommit, TypeOK, Reads, Attendance, Fresh
  <2>5. QED
    BY <1>2, <2>1, <2>2, <2>3, <2>4, Untold DEF CreateCommit
<1>3. ASSUME NEW r \in Requests, Ring(r)
      PROVE  IInv'
  <2>1. TypeOK' /\ Fresh' /\ Reads' /\ Attendance'
    BY <1>3 DEF Ring, TypeOK, Stages, Fresh, Reads, Attendance
  <2>2. QED
    BY <1>3, <2>1, Untold DEF Ring
<1>4. ASSUME NEW r \in Requests, NEW u \in Users, RingUser(r, u)
      PROVE  IInv'
  <2>1. u \in participants \ {Creator}
    BY <1>4 DEF RingUser, Reads
  <2>2. /\ told' \in [Users -> [Kinds -> Nat]]
        /\ FinishedAfterEnd' /\ ToldOnlyThem'
    BY <1>4, <2>1, TellStep DEF RingUser, Kinds
  <2>3. TypeOK' /\ Fresh' /\ Reads' /\ Attendance'
    BY <1>4, <2>2 DEF RingUser, TypeOK, Fresh, Reads, Attendance
  <2>4. QED
    BY <2>2, <2>3
<1>5. ASSUME NEW r \in Requests, CreateReturns(r) \/ EndReturns(r)
      PROVE  IInv'
  <2>1. TypeOK' /\ Fresh' /\ Reads' /\ Attendance'
    <3>1. TypeOK'
      <4>1. /\ stage' = [stage EXCEPT ![r] = "idle"]
            /\ who' = [who EXCEPT ![r] = Creator]
            /\ batch' = [batch EXCEPT ![r] = {}]
            /\ seen' = [seen EXCEPT ![r] = {}]
        BY <1>5 DEF CreateReturns, EndReturns, Respond
      <4>2. UNCHANGED <<rows, enabled, issued, told, history>>
        BY <1>5 DEF CreateReturns, EndReturns
      <4>3. stage' \in [Requests -> Stages] /\ who' \in [Requests -> Users]
        BY <4>1 DEF TypeOK, Stages
      <4>4. /\ batch' \in [Requests -> SUBSET Users]
            /\ seen' \in [Requests -> SUBSET Users]
        BY <4>1 DEF TypeOK
      <4>5. QED
        BY <4>2, <4>3, <4>4 DEF TypeOK
    <3>2. Fresh' /\ Attendance'
      BY <1>5 DEF CreateReturns, EndReturns, Respond, TypeOK, Stages, Fresh, Attendance
    <3>3. Reads'
      BY <1>5 DEF CreateReturns, EndReturns, Respond, TypeOK, Stages, Reads
    <3>4. QED
      BY <3>1, <3>2, <3>3
  <2>2. QED
    BY <1>5, <2>1, Untold DEF CreateReturns, EndReturns
<1>6. ASSUME NEW r \in Requests, NEW u \in Users,
             TokenReadCall(r, u) \/ LeaveReadCall(r, u) \/ EndRead(r)
      PROVE  IInv'
  <2>0. call # "none" /\ \E s \in {"token", "leave", "ending"}, v \in Users :
          /\ stage' = [stage EXCEPT ![r] = s]
          /\ who' = [who EXCEPT ![r] = v]
          /\ UNCHANGED <<rows, enabled, batch, seen, issued, told, history>>
    BY <1>6 DEF TokenReadCall, LeaveReadCall, EndRead, Accepted
  <2>1. TypeOK' /\ Fresh' /\ Reads' /\ Attendance'
    BY <2>0 DEF TypeOK, Stages, Fresh, Reads, Attendance
  <2>2. QED
    BY <1>6, <2>1, Untold DEF TokenReadCall, LeaveReadCall, EndRead
<1>7. ASSUME NEW r \in Requests, TokenReadParticipant(r)
      PROVE  IInv'
  <2>1. Attendance'
    BY <1>7 DEF TokenReadParticipant, Respond, Attendance
  <2>2. call # "none" /\ stage[r] = "token"
    BY <1>7 DEF TokenReadParticipant, Respond, Fresh
  <2>3. Fresh'
    BY <1>7, <2>2 DEF TokenReadParticipant, Respond, TypeOK, Fresh
  <2>4. CASE who[r] \in participants
    <3>1. Reads'
      BY <1>7, <2>4 DEF TokenReadParticipant, Respond, TypeOK, Reads
    <3>2. TypeOK'
      BY <1>7, <2>4 DEF TokenReadParticipant, Respond, TypeOK, Stages
    <3>3. QED
      BY <1>7, <2>1, <2>3, <3>1, <3>2, Untold DEF TokenReadParticipant
  <2>5. CASE who[r] \notin participants
    <3>1. Reads'
      BY <1>7, <2>5 DEF TokenReadParticipant, Respond, TypeOK, Reads
    <3>2. TypeOK'
      <4>1. /\ Respond(r, "token")
            /\ UNCHANGED <<rows, enabled, issued, told, history>>
        BY <1>7, <2>5 DEF TokenReadParticipant
      <4>2. QED
        BY <4>1 DEF Respond, TypeOK, Stages
    <3>3. QED
      BY <1>7, <2>1, <2>3, <3>1, <3>2, Untold DEF TokenReadParticipant
  <2>6. QED
    BY <2>4, <2>5
<1>8. ASSUME NEW r \in Requests, TokenIssue(r)
      PROVE  IInv'
  <2>1. joined \subseteq joined' /\ who[r] \in joined' /\ who[r] \in participants
    BY <1>8 DEF TokenIssue, Respond, Reads
  <2>2. TypeOK'
    BY <1>8 DEF TokenIssue, Respond, TypeOK, Stages
  <2>3. Fresh'
    BY <1>8 DEF TokenIssue, Respond, TypeOK, Fresh
  <2>4. Reads'
    BY <1>8, <2>1 DEF TokenIssue, Respond, TypeOK, Reads
  <2>5. Attendance'
    BY <1>8, <2>1 DEF TokenIssue, Respond, TypeOK, Attendance
  <2>6. QED
    BY <1>8, <2>1, <2>2, <2>3, <2>4, <2>5, Untold DEF TokenIssue
<1>9. ASSUME NEW r \in Requests, EndSave(r)
      PROVE  IInv'
  <2>1. TypeOK' /\ Fresh' /\ Reads' /\ Attendance'
    BY <1>9 DEF EndSave, TypeOK, Stages, Fresh, Reads, Attendance
  <2>2. QED
    BY <1>9, <2>1, Untold DEF EndSave
<1>10. ASSUME NEW r \in Requests, Announce(r)
      PROVE  IInv'
  <2>1. TypeOK' /\ Fresh' /\ Reads' /\ Attendance'
    BY <1>10 DEF Announce, TypeOK, Stages, Fresh, Reads, Attendance
  <2>2. QED
    BY <1>10, <2>1, Untold DEF Announce
<1>11. ASSUME NEW r \in Requests, NEW u \in Users, AnnounceUser(r, u)
      PROVE  IInv'
  <2> DEFINE kind == IF u \in seen[r] THEN "ended" ELSE "missed"
  <2>1. /\ u \in participants \ {Creator} /\ call = "ended"
        /\ kind = "ended" => u \in joined
    BY <1>11 DEF AnnounceUser, Reads
  <2>2. kind \in Kinds /\ Tell(u, kind) /\ UNCHANGED <<call, joined, participants>>
    BY <1>11 DEF AnnounceUser, Kinds
  <2> HIDE DEF kind
  <2>3. /\ told' \in [Users -> [Kinds -> Nat]]
        /\ FinishedAfterEnd' /\ ToldOnlyThem'
    BY <2>1, <2>2, TellStep
  <2>4. TypeOK' /\ Fresh' /\ Reads' /\ Attendance'
    BY <1>11, <2>3 DEF AnnounceUser, TypeOK, Fresh, Reads, Attendance
  <2>5. QED
    BY <2>3, <2>4
<1>12. ASSUME NEW r \in Requests, LeaveReadParticipant(r)
      PROVE  IInv'
  <2>1. Attendance'
    BY <1>12 DEF LeaveReadParticipant, Respond, Attendance
  <2>2. call # "none" /\ stage[r] = "leave"
    BY <1>12 DEF LeaveReadParticipant, Respond, Fresh
  <2>3. Fresh'
    BY <1>12, <2>2 DEF LeaveReadParticipant, Respond, TypeOK, Fresh
  <2>4. CASE who[r] \in joined \ left
    <3>1. Reads'
      BY <1>12, <2>4 DEF LeaveReadParticipant, Respond, TypeOK, Reads
    <3>2. TypeOK'
      BY <1>12, <2>4 DEF LeaveReadParticipant, Respond, TypeOK, Stages
    <3>3. QED
      BY <1>12, <2>1, <2>3, <3>1, <3>2, Untold DEF LeaveReadParticipant
  <2>5. CASE who[r] \notin joined \ left
    <3>1. Reads'
      BY <1>12, <2>5 DEF LeaveReadParticipant, Respond, TypeOK, Reads
    <3>2. TypeOK'
      <4>1. /\ Respond(r, "leave")
            /\ UNCHANGED <<rows, enabled, issued, told, history>>
        BY <1>12, <2>5 DEF LeaveReadParticipant
      <4>2. QED
        BY <4>1 DEF Respond, TypeOK, Stages
    <3>3. QED
      BY <1>12, <2>1, <2>3, <3>1, <3>2, Untold DEF LeaveReadParticipant
  <2>6. QED
    BY <2>4, <2>5
<1>13. ASSUME NEW r \in Requests, LeaveSave(r)
      PROVE  IInv'
  <2>1. TypeOK' /\ Fresh' /\ Reads' /\ Attendance'
    BY <1>13 DEF LeaveSave, Respond, TypeOK, Stages, Fresh, Reads, Attendance
  <2>2. QED
    BY <1>13, <2>1, Untold DEF LeaveSave
<1>14. ASSUME NEW u \in Users, Deactivate(u)
      PROVE  IInv'
  <2>1. TypeOK' /\ Fresh' /\ Reads' /\ Attendance'
    BY <1>14 DEF Deactivate, TypeOK, Fresh, Reads, Attendance
  <2>2. QED
    BY <1>14, <2>1, Untold DEF Deactivate
<1>15. CASE Crash
  <2>1. TypeOK' /\ Fresh' /\ Reads' /\ Attendance'
    BY <1>15 DEF Crash, TypeOK, Stages, Fresh, Reads, Attendance
  <2>2. QED
    BY <1>15, <2>1, Untold DEF Crash
<1>16. ASSUME NEW r \in Requests, QueryFails(r)
      PROVE  IInv'
  <2>1. /\ stage' = [stage EXCEPT ![r] = "idle"]
        /\ who' = [who EXCEPT ![r] = Creator]
        /\ batch' = [batch EXCEPT ![r] = {}]
        /\ seen' = [seen EXCEPT ![r] = {}]
    BY <1>16 DEF QueryFails, Respond
  <2>2. /\ UNCHANGED <<rows, enabled, issued, told, enders, again>>
        /\ cut' \in {cut, cut \cup {r}}
    BY <1>16 DEF QueryFails
  <2>3. TypeOK'
    <3>1. stage' \in [Requests -> Stages] /\ who' \in [Requests -> Users]
      BY <2>1 DEF TypeOK, Stages
    <3>2. /\ batch' \in [Requests -> SUBSET Users]
          /\ seen' \in [Requests -> SUBSET Users]
      BY <2>1 DEF TypeOK
    <3>3. QED
      BY <2>2, <3>1, <3>2 DEF TypeOK
  <2>4. Fresh' /\ Attendance'
    BY <2>1, <2>2 DEF TypeOK, Stages, Fresh, Attendance
  <2>5. Reads'
    BY <2>1, <2>2 DEF TypeOK, Stages, Reads
  <2>6. QED
    BY <2>2, <2>3, <2>4, <2>5, Untold
<1>17. CASE UNCHANGED vars
  BY <1>17, Untold DEF vars, TypeOK, Fresh, Reads, Attendance
<1>18. QED
  BY <1>1, <1>2, <1>3, <1>4, <1>5, <1>6, <1>7, <1>8, <1>9, <1>10, <1>11, <1>12,
     <1>13, <1>14, <1>15, <1>16, <1>17
  DEF Next, Arrives, Serve

LEMMA Inductive == Spec => []IInv
<1>1. IInv /\ [Next]_vars => IInv'
  BY NextIInv
<1>2. QED
  BY <1>1, InitIInv, PTL DEF Spec

\* Every variable of the call keeps its type.
THEOREM TypeCorrect == Spec => []TypeOK
<1>1. IInv => TypeOK
  BY DEF IInv
<1>2. QED
  BY <1>1, Inductive, PTL

\* Tokens go to participants, and left_at never stands without joined_at.
THEOREM AttendanceHolds == Spec => []Attendance
<1>1. IInv => Attendance
  BY DEF IInv
<1>2. QED
  BY <1>1, Inductive, PTL

\* No 'missed' or 'ended' notification exists before ended_at does; only invited users
\* other than the creator are told anything, and 'ended' only those who joined.
THEOREM RightOnesTold == Spec => []ToldTheRightOnes
<1>1. IInv => ToldTheRightOnes
  BY DEF IInv, FinishedAfterEnd, ToldOnlyThem, ToldTheRightOnes
<1>2. QED
  BY <1>1, Inductive, PTL

\* No step of any number of overlapping requests reverts a saved column.
THEOREM NothingRevertedHolds == Spec => NothingReverted
<1>1. IInv /\ [Next]_vars =>
        [/\ joined \subseteq joined'
         /\ left \subseteq left'
         /\ call = "ended" => call' = "ended"]_vars
  <2> SUFFICES ASSUME IInv, Next
               PROVE  /\ joined \subseteq joined' /\ left \subseteq left'
                      /\ call = "ended" => call' = "ended"
    OBVIOUS
  <2> USE DEF rows, request, history, Goto, Respond
  <2>1. ASSUME NEW r \in Requests, Arrives(r) \/ Serve(r)
        PROVE  /\ joined \subseteq joined' /\ left \subseteq left'
               /\ call = "ended" => call' = "ended"
    BY <2>1
    DEF Arrives, Serve, CreateCheck, CreateCommit, Ring, RingUser, CreateReturns,
        TokenReadCall, TokenReadParticipant, TokenIssue, EndRead, EndSave, Announce,
        AnnounceUser, EndReturns, LeaveReadCall, LeaveReadParticipant, LeaveSave,
        Accepted, IInv, Fresh
  <2>2. CASE (\E u \in Users : Deactivate(u)) \/ Crash \/ \E r \in Requests : QueryFails(r)
    BY <2>2 DEF Deactivate, Crash, QueryFails
  <2>3. QED
    BY <2>1, <2>2 DEF Next
<1>2. QED
  BY <1>1, Inductive, PTL DEF Spec, NothingReverted

(***************************************************************************)
(* Nobody is rung twice, nor told of the end twice by one request.         *)
(***************************************************************************)
Rings == {"ring", "ringing"}

\* One request rings, and those it has still to ring have not been rung.
RungOnce ==
  /\ \A r, q \in Requests : stage[r] \in Rings /\ stage[q] \in Rings => r = q
  /\ \A u \in Users :
       /\ told[u]["incoming"] <= 1
       /\ call = "none" => told[u]["incoming"] = 0
       /\ \A r \in Requests :
            stage[r] = "ring" \/ (stage[r] = "ringing" /\ u \in batch[r])
              => told[u]["incoming"] = 0

\* The requests that ended the call and have nothing more to tell u.
Through(u) ==
  {r \in enders : stage[r] # "announce" /\ ~(stage[r] = "announcing" /\ u \in batch[r])}

\* A request that announces the end has ended the call, one that is about to has not.
EndedOnce ==
  /\ call # "ended" => enders = {}
  /\ \A r \in Requests :
       /\ stage[r] \in {"announce", "announcing"} => r \in enders
       /\ stage[r] = "ending" => r \notin enders
  /\ \A u \in Users : Finished(u) <= Cardinality(Through(u))

OnceInv == IInv /\ RungOnce /\ EndedOnce

\* What the requests do with `stage`, `batch` and `told` in any step.
LEMMA RungStep ==
  ASSUME IInv, RungOnce, Next
  PROVE  RungOnce'
<1> USE CallAssumption DEF rows, request, history, Goto, Respond
<1> \A v \in Users, k \in Kinds : told[v][k] \in Nat
  BY DEF IInv, TypeOK
<1>1. ASSUME NEW r \in Requests, CreateCommit(r)
      PROVE  RungOnce'
  <2>1. \A q \in Requests : stage[q] \in {"idle", "creating"}
    BY <1>1 DEF CreateCommit, IInv, Fresh
  <2>2. \A u \in Users : told[u]["incoming"] = 0
    BY <1>1 DEF CreateCommit, IInv, Fresh, RungOnce
  <2>3. QED
    BY <1>1, <2>1, <2>2 DEF CreateCommit, RungOnce, IInv, TypeOK, Rings
<1>2. ASSUME NEW r \in Requests, Ring(r)
      PROVE  RungOnce'
  BY <1>2 DEF Ring, RungOnce, IInv, TypeOK, Rings
<1>3. ASSUME NEW r \in Requests, NEW u \in Users, RingUser(r, u)
      PROVE  RungOnce'
  <2>1. told[u]["incoming"] = 0 /\ call # "none"
    BY <1>3 DEF RingUser, RungOnce, IInv, Fresh
  <2>2. \A q \in Requests : stage[q] \in Rings => q = r
    BY <1>3 DEF RingUser, RungOnce, Rings
  <2>3. /\ stage[r] = "ringing" /\ stage' = stage /\ call' = call
        /\ batch' = [batch EXCEPT ![r] = batch[r] \ {u}]
    BY <1>3 DEF RingUser
  <2>4. \A v \in Users : told'[v]["incoming"] = told[v]["incoming"]
                         \/ (v = u /\ told'[v]["incoming"] = 1)
    <3>1. CASE told' = told
      BY <3>1
    <3>2. CASE told' = [told EXCEPT ![u]["incoming"] = @ + 1]
      BY <3>2, <2>1 DEF IInv, TypeOK, Kinds
    <3>3. QED
      BY <1>3, <3>1, <3>2 DEF RingUser, Tell
  <2>5. \A v \in Users : told'[v]["incoming"] <= 1
    BY <2>4 DEF RungOnce, Kinds
  <2>6. \A v \in Users, q \in Requests :
          stage'[q] = "ring" \/ (stage'[q] = "ringing" /\ v \in batch'[q])
            => told'[v]["incoming"] = 0
    <3> SUFFICES ASSUME NEW v \in Users, NEW q \in Requests,
                        stage'[q] = "ring" \/ (stage'[q] = "ringing" /\ v \in batch'[q])
                 PROVE  told'[v]["incoming"] = 0
      OBVIOUS
    <3>1. q = r /\ v # u /\ v \in batch[r]
      BY <2>2, <2>3 DEF Rings, IInv, TypeOK
    <3>2. told[v]["incoming"] = 0
      BY <3>1, <2>3 DEF RungOnce
    <3>3. QED
      BY <3>1, <3>2, <2>4
  <2>7. QED
    BY <2>1, <2>3, <2>5, <2>6 DEF RungOnce
<1>4. ASSUME NEW r \in Requests, NEW u \in Users, AnnounceUser(r, u)
      PROVE  RungOnce'
  <2>1. \A v \in Users : told'[v]["incoming"] = told[v]["incoming"]
    <3>1. CASE told' = told
      BY <3>1
    <3>2. ASSUME NEW k \in {"missed", "ended"}, told' = [told EXCEPT ![u][k] = @ + 1]
          PROVE  \A v \in Users : told'[v]["incoming"] = told[v]["incoming"]
      BY <3>2 DEF IInv, TypeOK, Kinds
    <3>3. QED
      BY <1>4, <3>1, <3>2 DEF AnnounceUser, Tell
  <2>2. /\ stage' = stage /\ call' = call
        /\ \A q \in Requests : stage[q] = "ringing" => batch'[q] = batch[q]
    BY <1>4 DEF AnnounceUser, IInv, TypeOK
  <2>3. QED
    BY <2>1, <2>2 DEF RungOnce
\* The other steps tell nobody and begin no ringing.
<1>5. ASSUME told' = told, call' = "none" => call = "none",
             \A q \in Requests : /\ stage'[q] \in Rings => stage'[q] = stage[q]
                                 /\ stage'[q] = "ringing" => batch'[q] = batch[q]
      PROVE  RungOnce'
  BY <1>5 DEF RungOnce, Rings
<1>6. ASSUME NEW r \in Requests,
             \/ \E invited \in SUBSET Users : CreateCheck(r, invited)
             \/ \E u \in Users : TokenReadCall(r, u) \/ LeaveReadCall(r, u)
             \/ EndRead(r)
      PROVE  RungOnce'
  BY <1>6, <1>5 DEF CreateCheck, TokenReadCall, LeaveReadCall, EndRead, Accepted, Rings, IInv, TypeOK
<1>7. ASSUME NEW r \in Requests,
             \/ CreateReturns(r) \/ EndReturns(r)
             \/ TokenReadParticipant(r) \/ LeaveReadParticipant(r)
             \/ TokenIssue(r) \/ LeaveSave(r) \/ QueryFails(r)
      PROVE  RungOnce'
  <2>1. told' = told /\ call' = call
    BY <1>7 DEF CreateReturns, EndReturns, TokenReadParticipant, LeaveReadParticipant,
                TokenIssue, LeaveSave, QueryFails
  <2>2. \E s \in {"idle", "joining", "leaving"} : stage' = [stage EXCEPT ![r] = s]
    BY <1>7 DEF CreateReturns, EndReturns, TokenReadParticipant, LeaveReadParticipant,
                TokenIssue, LeaveSave, QueryFails
  <2>3. \A q \in Requests \ {r} : batch'[q] = batch[q]
    BY <1>7 DEF CreateReturns, EndReturns, TokenReadParticipant, LeaveReadParticipant,
                TokenIssue, LeaveSave, QueryFails, IInv, TypeOK
  <2>4. QED
    BY <1>5, <2>1, <2>2, <2>3 DEF Rings, IInv, TypeOK
<1>8. ASSUME NEW r \in Requests, EndSave(r) \/ Announce(r)
      PROVE  RungOnce'
  BY <1>8, <1>5 DEF EndSave, Announce, Rings, IInv, TypeOK
<1>9. CASE \E u \in Users : Deactivate(u)
  BY <1>9, <1>5 DEF Deactivate
<1>10. CASE Crash
  BY <1>10, <1>5 DEF Crash, Rings
<1>11. QED
  BY <1>1, <1>2, <1>3, <1>4, <1>6, <1>7, <1>8, <1>9, <1>10 DEF Next, Arrives, Serve

\* A set of requests that grows does not get smaller.
LEMMA Grows ==
  ASSUME NEW S \in SUBSET Requests, NEW T \in SUBSET Requests, S \subseteq T
  PROVE  Cardinality(S) \in Nat /\ Cardinality(T) \in Nat /\ Cardinality(S) <= Cardinality(T)
<1>1. IsFiniteSet(T)
  BY FS_Subset, CallAssumption
<1>2. QED
  BY <1>1, FS_Subset, FS_CardinalityType

\* A step that tells nobody and in which no request gets anything new to tell.
LEMMA ToldNobody ==
  ASSUME TypeOK, EndedOnce, told' = told, enders' = enders,
         call' # "ended" => call # "ended",
         \A r \in Requests :
           /\ stage'[r] = "announce" => stage[r] = "announce"
           /\ stage'[r] = "announcing" =>
                stage[r] = "announce" \/ (stage[r] = "announcing" /\ batch'[r] = batch[r])
           /\ stage'[r] = "ending" => r \notin enders
  PROVE  EndedOnce'
<1>1. ASSUME NEW u \in Users
      PROVE  Finished(u)' <= Cardinality(Through(u)')
  <2>1. Through(u) \subseteq Through(u)' /\ Through(u)' \subseteq Requests
    BY DEF Through, TypeOK
  <2>2. /\ Cardinality(Through(u)) \in Nat /\ Cardinality(Through(u)') \in Nat
        /\ Cardinality(Through(u)) <= Cardinality(Through(u)')
    BY <2>1, Grows
  <2>3. Finished(u) \in Nat /\ Finished(u)' = Finished(u)
    BY DEF Finished, TypeOK, Kinds
  <2>4. Finished(u) <= Cardinality(Through(u))
    BY DEF EndedOnce
  <2>5. QED
    BY <2>2, <2>3, <2>4
<1>2. QED
  BY <1>1 DEF EndedOnce

LEMMA EndedStep ==
  ASSUME IInv, EndedOnce, Next
  PROVE  EndedOnce'
<1> USE CallAssumption DEF rows, request, history, Goto, Respond
<1> TypeOK
  BY DEF IInv
<1>1. ASSUME NEW r \in Requests,
             \/ \E invited \in SUBSET Users : CreateCheck(r, invited)
             \/ \E u \in Users : TokenReadCall(r, u) \/ LeaveReadCall(r, u)
             \/ EndRead(r)
      PROVE  EndedOnce'
  <2>1. /\ told' = told /\ enders' = enders /\ call' = call
        /\ \A q \in Requests \ {r} : stage'[q] = stage[q] /\ batch'[q] = batch[q]
    BY <1>1 DEF CreateCheck, TokenReadCall, LeaveReadCall, EndRead, Accepted, TypeOK
  <2>2. stage'[r] \in {"creating", "token", "leave"} \/ (stage'[r] = "ending" /\ call = "active")
    BY <1>1 DEF CreateCheck, TokenReadCall, LeaveReadCall, EndRead, Accepted, TypeOK
  <2>3. QED
    BY <2>1, <2>2, ToldNobody DEF EndedOnce
<1>2. ASSUME NEW r \in Requests,
             \/ CreateCommit(r) \/ Ring(r) \/ CreateReturns(r)
             \/ TokenReadParticipant(r) \/ LeaveReadParticipant(r)
             \/ TokenIssue(r) \/ LeaveSave(r) \/ EndReturns(r) \/ QueryFails(r)
      PROVE  EndedOnce'
  <2>1. told' = told /\ enders' = enders
    BY <1>2 DEF CreateCommit, Ring, CreateReturns, TokenReadParticipant, LeaveReadParticipant,
                TokenIssue, LeaveSave, EndReturns, QueryFails
  <2>2. call' = "ended" \/ call # "ended"
    BY <1>2 DEF CreateCommit, Ring, CreateReturns, TokenReadParticipant, LeaveReadParticipant,
                TokenIssue, LeaveSave, EndReturns, QueryFails, IInv, Fresh
  <2>3. \E s \in {"ring", "ringing", "joining", "leaving", "idle"} :
          stage' = [stage EXCEPT ![r] = s]
    BY <1>2 DEF CreateCommit, Ring, CreateReturns, TokenReadParticipant, LeaveReadParticipant,
                TokenIssue, LeaveSave, EndReturns, QueryFails
  <2>4. \A q \in Requests \ {r} : batch'[q] = batch[q]
    BY <1>2 DEF CreateCommit, Ring, CreateReturns, TokenReadParticipant, LeaveReadParticipant,
                TokenIssue, LeaveSave, EndReturns, QueryFails, TypeOK
  <2>5. \A q \in Requests :
          /\ stage'[q] = "announce" => stage[q] = "announce"
          /\ stage'[q] = "announcing" => stage[q] = "announcing" /\ batch'[q] = batch[q]
          /\ stage'[q] = "ending" => q \notin enders
    BY <2>3, <2>4 DEF TypeOK, EndedOnce
  <2>6. QED
    BY <2>1, <2>2, <2>5, ToldNobody
<1>3. ASSUME NEW r \in Requests, NEW u \in Users, RingUser(r, u)
      PROVE  EndedOnce'
  <2>1. \A v \in Users : Finished(v)' = Finished(v)
    <3>1. CASE told' = told
      BY <3>1 DEF Finished
    <3>2. CASE told' = [told EXCEPT ![u]["incoming"] = @ + 1]
      BY <3>2 DEF Finished, TypeOK, Kinds
    <3>3. QED
      BY <1>3, <3>1, <3>2 DEF RingUser, Tell
  <2>2. /\ stage' = stage /\ enders' = enders /\ call' = call
        /\ \A q \in Requests : stage[q] = "announcing" => batch'[q] = batch[q]
    BY <1>3 DEF RingUser, TypeOK
  <2>3. \A v \in Users : Through(v)' = Through(v)
    BY <2>2 DEF Through, TypeOK
  <2>4. QED
    BY <2>1, <2>2, <2>3 DEF EndedOnce
<1>4. ASSUME NEW r \in Requests, EndSave(r)
      PROVE  EndedOnce'
  <2>1. /\ r \notin enders /\ enders' = enders \cup {r} /\ call' = "ended"
        /\ told' = told /\ batch' = batch
        /\ stage' = [stage EXCEPT ![r] = "announce"]
    BY <1>4 DEF EndSave, EndedOnce
  <2>2. \A u \in Users : Through(u)' = Through(u)
    BY <2>1 DEF Through, TypeOK
  <2>3. \A u \in Users : Finished(u)' = Finished(u)
    BY <2>1 DEF Finished
  <2>4. QED
    BY <2>1, <2>2, <2>3 DEF EndedOnce, TypeOK
<1>5. ASSUME NEW r \in Requests, Announce(r)
      PROVE  EndedOnce'
  BY <1>5, ToldNobody DEF Announce, EndedOnce, TypeOK
<1>6. ASSUME NEW r \in Requests, NEW u \in Users, AnnounceUser(r, u)
      PROVE  EndedOnce'
  <2>1. /\ stage[r] = "announcing" /\ u \in batch[r] /\ r \in enders
        /\ stage' = stage /\ enders' = enders /\ call' = call
        /\ batch' = [batch EXCEPT ![r] = batch[r] \ {u}]
    BY <1>6 DEF AnnounceUser, EndedOnce
  <2>2. \A v \in Users \ {u} : Through(v)' = Through(v) /\ Finished(v)' = Finished(v)
    <3>1. \A v \in Users \ {u} : Through(v)' = Through(v)
      BY <2>1 DEF Through, TypeOK
    <3>2. \A v \in Users \ {u} : told'[v] = told[v]
      BY <1>6 DEF AnnounceUser, Tell, TypeOK
    <3>3. QED
      BY <3>1, <3>2 DEF Finished
  <2>3. Finished(u) \in Nat /\ Finished(u)' \in Nat /\ Finished(u)' <= Finished(u) + 1
    <3>1. CASE told' = told
      BY <3>1 DEF Finished, TypeOK, Kinds
    <3>2. ASSUME NEW k \in {"missed", "ended"}, told' = [told EXCEPT ![u][k] = @ + 1]
          PROVE  Finished(u) \in Nat /\ Finished(u)' \in Nat /\ Finished(u)' <= Finished(u) + 1
      BY <3>2 DEF Finished, TypeOK, Kinds
    <3>3. QED
      BY <1>6, <3>1, <3>2 DEF AnnounceUser, Tell
  <2>4. r \notin Through(u) /\ Through(u)' = Through(u) \cup {r}
    BY <2>1 DEF Through, TypeOK
  <2>5. IsFiniteSet(Through(u))
    BY FS_Subset DEF Through, TypeOK
  <2>6. /\ Cardinality(Through(u)) \in Nat
        /\ Cardinality(Through(u)') = Cardinality(Through(u)) + 1
    BY <2>4, <2>5, FS_AddElement, FS_CardinalityType
  <2>7. Finished(u)' <= Cardinality(Through(u)')
    <3>1. Finished(u) <= Cardinality(Through(u))
      BY DEF EndedOnce
    <3>2. QED
      BY <3>1, <2>3, <2>6
  <2>8. QED
    BY <2>1, <2>2, <2>7 DEF EndedOnce
<1>7. CASE \E u \in Users : Deactivate(u)
  BY <1>7, ToldNobody DEF Deactivate, EndedOnce
<1>8. CASE Crash
  BY <1>8, ToldNobody DEF Crash
<1>9. QED
  BY <1>1, <1>2, <1>3, <1>4, <1>5, <1>6, <1>7, <1>8 DEF Next, Arrives, Serve

LEMMA OnceInvariance == Spec => []OnceInv
<1>1. Init => OnceInv
  <2> SUFFICES ASSUME Init PROVE OnceInv
    OBVIOUS
  <2>1. RungOnce
    BY DEF Init, RungOnce, Rings, Kinds
  <2>2. \A u \in Users : Through(u) = {} /\ Finished(u) = 0
    BY DEF Init, Through, Finished, Kinds
  <2>3. EndedOnce
    BY <2>2, FS_EmptySet DEF Init, EndedOnce
  <2>4. QED
    BY <2>1, <2>3, InitIInv DEF OnceInv
<1>2. OnceInv /\ [Next]_vars => OnceInv'
  <2> SUFFICES ASSUME OnceInv, [Next]_vars PROVE OnceInv'
    OBVIOUS
  <2>1. IInv'
    BY NextIInv DEF OnceInv
  <2>2. CASE Next
    BY <2>1, <2>2, RungStep, EndedStep DEF OnceInv
  <2>3. CASE UNCHANGED vars
    BY <2>1, <2>3 DEF OnceInv, RungOnce, EndedOnce, Through, Finished, vars, rows, request, history
  <2>4. QED
    BY <2>2, <2>3
<1>3. QED
  BY <1>1, <1>2, PTL DEF Spec

\* A participant is rung once, and told of the end once by each request that ended the
\* call, however many End requests overlap: EndRead() refuses an ended call, and a
\* request goes through its batch one by one.
THEOREM OncePerRequest == Spec => []ToldOncePerRequest
<1>1. OnceInv => ToldOncePerRequest
  <2> SUFFICES ASSUME OnceInv, NEW u \in Users
               PROVE  told[u]["incoming"] <= 1 /\ Finished(u) <= Cardinality(enders)
    BY DEF ToldOncePerRequest
  <2>1. Through(u) \subseteq enders /\ enders \subseteq Requests
    BY DEF Through, OnceInv, IInv, TypeOK
  <2>2. /\ Cardinality(Through(u)) \in Nat /\ Cardinality(enders) \in Nat
        /\ Cardinality(Through(u)) <= Cardinality(enders)
    BY <2>1, Grows
  <2>3. Finished(u) \in Nat
    BY DEF Finished, OnceInv, IInv, TypeOK, Kinds
  <2>4. Finished(u) <= Cardinality(Through(u)) /\ told[u]["incoming"] <= 1
    BY DEF OnceInv, EndedOnce, RungOnce
  <2>5. QED
    BY <2>2, <2>3, <2>4
<1>2. QED
  BY <1>1, OnceInvariance, PTL

(***************************************************************************)
(* Nobody is forgotten                                                     *)
(***************************************************************************)
KeptInv ==
  /\ IInv
  /\ Users \ Movers \subseteq enabled
  /\ NobodyForgotten

\* The users whose notification of the end is promised.
Promised == Users \ ({Creator} \cup Failing \cup Movers)

\* A step in which nobody unhears anything and whoever has somebody to tell still has,
\* or is cut short.
LEMMA StillToTell ==
  ASSUME IInv, NobodyForgotten, participants' = participants,
         enders' = enders, cut \subseteq cut',
         \A u \in Promised : Finished(u) > 0 => Finished(u)' > 0,
         \A u \in Promised \cap participants, r \in Requests \ cut' :
           HasToTell(r, u) => HasToTell(r, u)' \/ Finished(u)' > 0
  PROVE  NobodyForgotten'
<1>1. participants \subseteq Users /\ enders \subseteq Requests
  BY DEF IInv, TypeOK
<1>2. QED
  BY <1>1 DEF NobodyForgotten, Promised

\* What u has heard of the end grows by one with a notification and never shrinks.
LEMMA HeardGrows ==
  ASSUME TypeOK, NEW u \in Users, NEW v \in Users, NEW kind \in Kinds, Tell(u, kind)
  PROVE  /\ Finished(v) > 0 => Finished(v)' > 0
         /\ kind # "incoming" /\ u \notin Failing => Finished(u)' > 0
<1>1. CASE told' = told
  <2>1. u \notin Failing => told[u][kind] = told[u][kind] + 1
    BY <1>1 DEF Tell, TypeOK
  <2>2. told[u][kind] \in Nat
    BY DEF TypeOK
  <2>3. QED
    BY <1>1, <2>1, <2>2 DEF Finished
<1>2. CASE told' = [told EXCEPT ![u][kind] = @ + 1]
  <2>1. \A k \in Kinds : told[v][k] \in Nat /\ told[u][k] \in Nat
    BY DEF TypeOK
  <2>2. \A k \in Kinds :
          /\ told'[v][k] = IF v = u /\ k = kind THEN told[v][k] + 1 ELSE told[v][k]
          /\ told'[u][k] = IF k = kind THEN told[u][k] + 1 ELSE told[u][k]
    BY <1>2 DEF TypeOK
  <2>3. QED
    BY <2>1, <2>2 DEF Finished, Kinds
<1>3. QED
  BY <1>1, <1>2 DEF Tell

LEMMA KeptStep ==
  ASSUME KeptInv, EndedOnce, Next
  PROVE  NobodyForgotten'
<1> USE CallAssumption DEF rows, request, history, Goto, Respond, KeptInv
<1> TypeOK
  BY DEF IInv
<1>1. ASSUME NEW r \in Requests,
             \/ \E invited \in SUBSET Users : CreateCheck(r, invited)
             \/ \E u \in Users : TokenReadCall(r, u) \/ LeaveReadCall(r, u)
             \/ EndRead(r) \/ TokenReadParticipant(r) \/ LeaveReadParticipant(r)
             \/ TokenIssue(r) \/ LeaveSave(r)
      PROVE  NobodyForgotten'
  <2>1. UNCHANGED <<participants, told, enders, cut>>
    BY <1>1 DEF CreateCheck, TokenReadCall, LeaveReadCall, EndRead, TokenReadParticipant,
                LeaveReadParticipant, TokenIssue, LeaveSave
  <2>2. stage[r] \notin {"announce", "announcing"}
    BY <1>1 DEF CreateCheck, TokenReadCall, LeaveReadCall, EndRead, TokenReadParticipant,
                LeaveReadParticipant, TokenIssue, LeaveSave, Accepted
  <2>3. \A q \in Requests \ {r} : stage'[q] = stage[q] /\ batch'[q] = batch[q]
    BY <1>1 DEF CreateCheck, TokenReadCall, LeaveReadCall, EndRead, TokenReadParticipant,
                LeaveReadParticipant, TokenIssue, LeaveSave, Accepted, TypeOK
  <2>4. QED
    BY <2>1, <2>2, <2>3, StillToTell DEF HasToTell, Finished
<1>2. ASSUME NEW r \in Requests, CreateCommit(r)
      PROVE  NobodyForgotten'
  <2>1. call = "none" /\ participants = {}
    BY <1>2 DEF CreateCommit, IInv, Fresh
  <2>2. enders' = {}
    BY <1>2, <2>1 DEF CreateCommit, EndedOnce
  <2>3. QED
    BY <2>2 DEF NobodyForgotten
<1>3. ASSUME NEW r \in Requests, Ring(r) \/ CreateReturns(r) \/ EndReturns(r)
      PROVE  NobodyForgotten'
  <2>1. UNCHANGED <<participants, told, enders, cut>>
    BY <1>3 DEF Ring, CreateReturns, EndReturns
  <2>2. stage[r] = "announcing" => batch[r] = {}
    BY <1>3 DEF Ring, CreateReturns, EndReturns
  <2>3. stage[r] # "announce"
    BY <1>3 DEF Ring, CreateReturns, EndReturns
  <2>4. \A q \in Requests \ {r} : stage'[q] = stage[q] /\ batch'[q] = batch[q]
    BY <1>3 DEF Ring, CreateReturns, EndReturns, TypeOK
  <2>5. QED
    BY <2>1, <2>2, <2>3, <2>4, StillToTell DEF HasToTell, Finished
<1>4. ASSUME NEW r \in Requests, NEW u \in Users, RingUser(r, u)
      PROVE  NobodyForgotten'
  <2>1. \A v \in Promised : Finished(v) > 0 => Finished(v)' > 0
    BY <1>4, HeardGrows DEF RingUser, Promised, Kinds
  <2>2. \A v \in Promised, q \in Requests : HasToTell(q, v) => HasToTell(q, v)'
    BY <1>4 DEF RingUser, HasToTell, TypeOK
  <2>3. QED
    BY <1>4, <2>1, <2>2, StillToTell DEF RingUser
<1>5. ASSUME NEW r \in Requests, EndSave(r)
      PROVE  NobodyForgotten'
  <2>1. /\ stage' = [stage EXCEPT ![r] = "announce"] /\ stage[r] = "ending"
        /\ enders' = enders \cup {r}
        /\ UNCHANGED <<participants, told, batch, cut>>
    BY <1>5 DEF EndSave
  <2>2. \A u \in Users : HasToTell(r, u)'
    BY <2>1 DEF HasToTell, TypeOK
  <2>3. \A q \in enders, u \in Users : HasToTell(q, u) => HasToTell(q, u)'
    BY <2>1 DEF HasToTell, TypeOK
  <2>4. QED
    BY <2>1, <2>2, <2>3 DEF NobodyForgotten, Finished, TypeOK
<1>6. ASSUME NEW r \in Requests, Announce(r)
      PROVE  NobodyForgotten'
  <2>1. \A v \in Promised \cap participants : HasToTell(r, v)'
    BY <1>6 DEF Announce, HasToTell, Promised, TypeOK
  <2>2. \A v \in Promised, q \in Requests \ {r} : HasToTell(q, v) => HasToTell(q, v)'
    BY <1>6 DEF Announce, HasToTell, TypeOK
  <2>3. UNCHANGED <<participants, told, enders, cut>>
    BY <1>6 DEF Announce
  <2>4. QED
    BY <2>1, <2>2, <2>3, StillToTell DEF Finished
<1>7. ASSUME NEW r \in Requests, NEW u \in Users, AnnounceUser(r, u)
      PROVE  NobodyForgotten'
  <2>1. PICK kind \in {"missed", "ended"} : Tell(u, kind)
    BY <1>7 DEF AnnounceUser
  <2>2. \A v \in Promised : Finished(v) > 0 => Finished(v)' > 0
    BY <2>1, HeardGrows DEF Promised, Kinds
  <2>3. u \notin Failing => Finished(u)' > 0
    BY <2>1, HeardGrows DEF Kinds
  <2>4. \A v \in Promised, q \in Requests :
          HasToTell(q, v) => HasToTell(q, v)' \/ Finished(v)' > 0
    BY <1>7, <2>3 DEF AnnounceUser, HasToTell, Promised, TypeOK
  <2>5. QED
    BY <1>7, <2>2, <2>4, StillToTell DEF AnnounceUser
<1>8. CASE \E u \in Users : Deactivate(u)
  <2>1. UNCHANGED <<participants, told, stage, batch, enders, cut>>
    BY <1>8 DEF Deactivate
  <2>2. QED
    BY <2>1, StillToTell DEF HasToTell, Finished
<1>9. CASE Crash
  <2>1. \A r \in Requests \ cut', u \in Users : ~HasToTell(r, u)
    BY <1>9 DEF Crash, HasToTell
  <2>2. QED
    BY <1>9, <2>1, StillToTell DEF Crash, Finished, Promised
<1>10. ASSUME NEW r \in Requests, QueryFails(r)
       PROVE  NobodyForgotten'
  <2>1. \A u \in Users : HasToTell(r, u) => r \in cut'
    BY <1>10 DEF QueryFails, HasToTell
  <2>2. \A q \in Requests \ {r}, u \in Users : HasToTell(q, u) => HasToTell(q, u)'
    BY <1>10 DEF QueryFails, HasToTell, TypeOK
  <2>3. QED
    BY <1>10, <2>1, <2>2, StillToTell DEF QueryFails, Finished, Promised
<1>11. QED
  BY <1>1, <1>2, <1>3, <1>4, <1>5, <1>6, <1>7, <1>8, <1>9, <1>10 DEF Next, Arrives, Serve

LEMMA EnabledStep ==
  ASSUME Users \ Movers \subseteq enabled, [Next]_vars
  PROVE  Users \ Movers \subseteq enabled'
<1>1. CASE \E u \in Users : Deactivate(u)
  BY <1>1 DEF Deactivate
<1>2. CASE \A u \in Users : ~Deactivate(u)
  <2>1. enabled' = enabled
    BY <1>2 DEF Next, Arrives, Serve, CreateCheck, CreateCommit, Ring, RingUser, CreateReturns,
                TokenReadCall, TokenReadParticipant, TokenIssue, EndRead, EndSave, Announce,
                AnnounceUser, EndReturns, LeaveReadCall, LeaveReadParticipant, LeaveSave, Crash,
                QueryFails,
                history, vars
  <2>2. QED
    BY <2>1
<1>3. QED
  BY <1>1, <1>2

\* notify_call_finished() goes through the participants one by one and skips over failures:
\* a request that has ended the call has told each of them or has them still before it,
\* unless its query of the participants raised or the process died.
THEOREM NobodyIsForgotten == Spec => []NobodyForgotten
<1>1. Init => KeptInv
  BY InitIInv DEF KeptInv, Init, NobodyForgotten
<1>2. OnceInv /\ KeptInv /\ [Next]_vars => KeptInv'
  <2> SUFFICES ASSUME OnceInv, KeptInv, [Next]_vars PROVE KeptInv'
    OBVIOUS
  <2>1. IInv' /\ Users \ Movers \subseteq enabled'
    BY NextIInv, EnabledStep DEF KeptInv
  <2>2. CASE Next
    BY <2>1, <2>2, KeptStep DEF KeptInv, OnceInv
  <2>3. CASE UNCHANGED vars
    BY <2>1, <2>3 DEF KeptInv, NobodyForgotten, HasToTell, Finished, vars, rows, request, history
  <2>4. QED
    BY <2>2, <2>3
<1>3. KeptInv => NobodyForgotten
  BY DEF KeptInv
<1>4. QED
  BY <1>1, <1>2, <1>3, OnceInvariance, PTL DEF Spec

(***************************************************************************)
(* The requests implement CallLife                                         *)
(***************************************************************************)
Attending == [u \in Users |->
                IF u \in left THEN "gone" ELSE IF u \in joined THEN "in" ELSE "away"]

\* What a look has brought a request to.
Looked == {"token", "joining", "leaving", "announcing", "ending"}

LEMMA LifeInit == Init => Life!Init
BY DEF Init, Life!Init, Life!News, Kinds, Cleared, Joining, Leaving, Absent, Closing

\* A request that answers, or goes where nothing has been seen yet, sees nothing new.
LEMMA Forgetting ==
  ASSUME TypeOK, NEW r \in Requests, NEW s \in Stages \ Looked,
         stage' = [stage EXCEPT ![r] = s],
         \A q \in Requests \ {r} : who'[q] = who[q] /\ batch'[q] = batch[q] /\ seen'[q] = seen[q]
  PROVE  Life!Forgets
<1>1. \A q \in Requests : stage'[q] \in Looked => q # r /\ stage'[q] = stage[q]
  BY DEF TypeOK, Looked
<1>2. Cleared' \subseteq Cleared /\ Closing' \subseteq Closing
  BY <1>1 DEF Cleared, Closing, Looked
<1>3. Joining' \subseteq Joining /\ Leaving' \subseteq Leaving /\ Absent' \subseteq Absent
  BY <1>1 DEF Joining, Leaving, Absent, Looked
<1>4. QED
  BY <1>2, <1>3 DEF Life!Forgets, Life!Sees

LEMMA AnswerForgets ==
  ASSUME TypeOK, NEW r \in Requests, Respond(r, stage[r])
  PROVE  Life!Forgets
<1>1. "idle" \in Stages \ Looked
  BY DEF Stages, Looked
<1>2. QED
  BY <1>1, Forgetting DEF Respond, Goto, TypeOK

\* A step of that kind which leaves the records alone is a look at nothing.
LEMMA NothingSeen ==
  ASSUME Life!Forgets, UNCHANGED <<rows, told, enders, again>>
  PROVE  Life!Looks
<1>1. UNCHANGED Life!record
  BY DEF Life!record, rows
<1>2. QED
  BY <1>1 DEF Life!Looks

(***************************************************************************)
(* Looks                                                                   *)
(***************************************************************************)
LEMMA TokenClears ==
  ASSUME TypeOK, NEW r \in Requests, NEW u \in Users, TokenReadCall(r, u)
  PROVE  Life!Looks
<1> USE DEF TokenReadCall, Accepted, Goto, rows, history
<1>1. \A q \in Requests \ {r} : stage'[q] = stage[q] /\ who'[q] = who[q]
  BY DEF TypeOK
<1>2. stage'[r] = "token" /\ who'[r] = u
  BY DEF TypeOK
<1>3. Cleared' \subseteq Cleared \cup {u}
  BY <1>1, <1>2 DEF Cleared
<1>4. /\ Joining' \subseteq Joining /\ Leaving' \subseteq Leaving
      /\ Absent' \subseteq Absent /\ Closing' \subseteq Closing
  BY <1>1, <1>2 DEF Joining, Leaving, Absent, Closing
<1>5. Life!Sees({u}, {}, {}, {}, {})
  BY <1>3, <1>4 DEF Life!Sees
<1>6. UNCHANGED Life!record /\ call = "active"
  BY DEF Life!record
<1>7. QED
  BY <1>5, <1>6 DEF Life!Looks

LEMMA EndIsSeen ==
  ASSUME TypeOK, NEW r \in Requests, EndRead(r)
  PROVE  Life!Looks
<1> USE DEF EndRead, Accepted, Goto, rows, history
<1>1. \A q \in Requests \ {r} : stage'[q] = stage[q] /\ who'[q] = who[q]
  BY DEF TypeOK
<1>2. stage'[r] = "ending"
  BY DEF TypeOK
<1>3. Closing' \subseteq Closing \cup {r}
  BY <1>1 DEF Closing
<1>4. /\ Cleared' \subseteq Cleared /\ Joining' \subseteq Joining
      /\ Leaving' \subseteq Leaving /\ Absent' \subseteq Absent
  BY <1>1, <1>2 DEF Cleared, Joining, Leaving, Absent
<1>5. Life!Sees({}, {}, {}, {}, {r})
  BY <1>3, <1>4 DEF Life!Sees
<1>6. UNCHANGED Life!record /\ call = "active"
  BY DEF Life!record
<1>7. QED
  BY <1>5, <1>6 DEF Life!Looks

LEMMA TokenFindsAway ==
  ASSUME IInv, NEW r \in Requests, TokenReadParticipant(r)
  PROVE  Life!Looks
<1> DEFINE u == who[r]
<1> USE DEF IInv, rows, history, Goto
<1>1. CASE u \notin participants
  <2>1. Respond(r, stage[r]) /\ UNCHANGED <<rows, told, enders, again>>
    BY <1>1 DEF TokenReadParticipant, Respond
  <2>2. QED
    BY <2>1, AnswerForgets, NothingSeen
<1>2. CASE u \in participants
  <2>1. /\ stage[r] = "token" /\ stage' = [stage EXCEPT ![r] = "joining"]
        /\ seen' = [seen EXCEPT ![r] = joined \cap {u}]
        /\ UNCHANGED <<rows, enabled, who, batch, issued, told, history>>
    BY <1>2 DEF TokenReadParticipant
  <2>2. /\ Cleared' \subseteq Cleared /\ Leaving' \subseteq Leaving
        /\ Absent' \subseteq Absent /\ Closing' \subseteq Closing
    BY <2>1 DEF Cleared, Leaving, Absent, Closing, TypeOK
  <2>3. Joining' \subseteq Joining \cup ({u} \ joined)
    BY <2>1 DEF Joining, TypeOK
  <2>4. UNCHANGED Life!record
    BY <2>1 DEF Life!record
  <2>5. CASE u \in joined
    <3>1. Life!Forgets
      BY <2>2, <2>3, <2>5 DEF Life!Forgets, Life!Sees
    <3>2. QED
      BY <2>4, <3>1 DEF Life!Looks
  <2>6. CASE u \notin joined
    <3>1. Life!Sees({}, {u}, {}, {}, {})
      BY <2>2, <2>3 DEF Life!Sees
    <3>2. u \in Cleared \cap participants
      BY <1>2, <2>1 DEF Cleared, TypeOK
    <3>3. Attending[u] = "away"
      BY <2>6 DEF Attending, Attendance, TypeOK
    <3>4. QED
      BY <2>4, <3>1, <3>2, <3>3 DEF Life!Looks, Attending
  <2>7. QED
    BY <2>5, <2>6
<1>3. QED
  BY <1>1, <1>2

LEMMA LeaveFindsIn ==
  ASSUME IInv, NEW r \in Requests, LeaveReadParticipant(r)
  PROVE  Life!Looks
<1> DEFINE u == who[r]
<1> USE DEF IInv, rows, history, Goto
<1>1. CASE u \notin joined \ left
  <2>1. Respond(r, stage[r]) /\ UNCHANGED <<rows, told, enders, again>>
    BY <1>1 DEF LeaveReadParticipant, Respond
  <2>2. QED
    BY <2>1, AnswerForgets, NothingSeen
<1>2. CASE u \in joined \ left
  <2>1. /\ stage[r] = "leave" /\ stage' = [stage EXCEPT ![r] = "leaving"]
        /\ UNCHANGED <<rows, enabled, who, batch, seen, issued, told, history>>
    BY <1>2 DEF LeaveReadParticipant
  <2>2. /\ Cleared' \subseteq Cleared /\ Joining' \subseteq Joining
        /\ Absent' \subseteq Absent /\ Closing' \subseteq Closing
    BY <2>1 DEF Cleared, Joining, Absent, Closing, TypeOK
  <2>3. Leaving' \subseteq Leaving \cup {u}
    BY <2>1 DEF Leaving, TypeOK
  <2>4. Life!Sees({}, {}, {u}, {}, {})
    BY <2>2, <2>3 DEF Life!Sees
  <2>5. UNCHANGED Life!record
    BY <2>1 DEF Life!record
  <2>6. u \in Users /\ Attending[u] = "in"
    BY <1>2 DEF Attending, TypeOK
  <2>7. QED
    BY <2>4, <2>5, <2>6 DEF Life!Looks, Attending
<1>3. QED
  BY <1>1, <1>2

LEMMA AnnounceFindsAway ==
  ASSUME IInv, NEW r \in Requests, Announce(r)
  PROVE  Life!Looks
<1> DEFINE away == {u \in participants : Attending[u] = "away"}
<1> USE DEF IInv, rows, history, Goto
<1>1. /\ stage[r] = "announce" /\ stage' = [stage EXCEPT ![r] = "announcing"]
      /\ batch' = [batch EXCEPT ![r] = (participants \cap enabled) \ {Creator}]
      /\ seen' = [seen EXCEPT ![r] = joined]
      /\ UNCHANGED <<rows, who, told, history>>
  BY DEF Announce
<1>2. /\ Cleared' \subseteq Cleared /\ Joining' \subseteq Joining
      /\ Leaving' \subseteq Leaving /\ Closing' \subseteq Closing
  BY <1>1 DEF Cleared, Joining, Leaving, Closing, TypeOK
<1>3. participants \ joined \subseteq away
  BY DEF Attending, Attendance, TypeOK
<1>4. Absent' \subseteq Absent \cup (participants \ joined)
  BY <1>1 DEF Absent, TypeOK
<1>5. Life!Sees({}, {}, {}, away, {})
  BY <1>2, <1>3, <1>4 DEF Life!Sees
<1>6. UNCHANGED Life!record /\ call = "ended"
  BY <1>1 DEF Life!record, Reads
<1>7. QED
  BY <1>5, <1>6 DEF Life!Looks, Attending

(***************************************************************************)
(* Acts                                                                    *)
(***************************************************************************)

\* A notification of u is one that u hears, or nothing.
LEMMA HearsOrNothing ==
  ASSUME NEW u \in participants \ {Creator}, NEW kind \in Kinds, Tell(u, kind),
         Life!Forgets, UNCHANGED <<rows, enders, again>>
  PROVE  Life!Hears(u, kind) \/ Life!Looks
<1>1. CASE told' = told
  BY <1>1, NothingSeen
<1>2. CASE told' = [told EXCEPT ![u][kind] = @ + 1]
  BY <1>2 DEF rows, Life!Hears
<1>3. QED
  BY <1>1, <1>2 DEF Tell

\* Telling somebody takes them from the batch.
LEMMA TellingForgets ==
  ASSUME TypeOK, NEW r \in Requests, UNCHANGED <<stage, who, seen>>,
         \A q \in Requests : batch'[q] \subseteq batch[q]
  PROVE  Life!Forgets
<1>1. Cleared' = Cleared /\ Joining' = Joining /\ Leaving' = Leaving /\ Closing' = Closing
  BY DEF Cleared, Joining, Leaving, Closing
<1>2. Absent' \subseteq Absent
  BY DEF Absent
<1>3. QED
  BY <1>1, <1>2 DEF Life!Forgets, Life!Sees

LEMMA RingIsRing ==
  ASSUME OnceInv, NEW r \in Requests, NEW u \in Users, RingUser(r, u)
  PROVE  Life!Ring(u) \/ Life!Looks
<1>1. u \in participants \ {Creator} /\ told[u]["incoming"] = 0
  BY DEF RingUser, OnceInv, IInv, Reads, RungOnce
<1>2. Life!Forgets
  BY TellingForgets DEF RingUser, OnceInv, IInv, TypeOK
<1>3. Life!Hears(u, "incoming") \/ Life!Looks
  BY <1>1, <1>2, HearsOrNothing DEF RingUser, Kinds, history
<1>4. QED
  BY <1>1, <1>3 DEF Life!Ring

\* Request r is not through with u yet, so u has heard less often than the call ended.
LEMMA MoreToTell ==
  ASSUME OnceInv, NEW r \in Requests, NEW u \in Users,
         stage[r] = "announcing", u \in batch[r]
  PROVE  Finished(u) < Cardinality(enders)
<1>1. r \in enders \ Through(u) /\ enders \subseteq Requests /\ Through(u) \subseteq enders
  BY DEF OnceInv, EndedOnce, Through, IInv, TypeOK
<1>2. IsFiniteSet(Through(u))
  BY <1>1, FS_Subset, CallAssumption
<1>3. Cardinality(Through(u) \cup {r}) = Cardinality(Through(u)) + 1
  BY <1>1, <1>2, FS_AddElement
<1>4. /\ Cardinality(Through(u)) \in Nat /\ Cardinality(enders) \in Nat
      /\ Cardinality(Through(u) \cup {r}) <= Cardinality(enders)
  BY <1>1, <1>2, Grows, FS_CardinalityType
<1>5. Finished(u) \in Nat /\ Finished(u) <= Cardinality(Through(u))
  BY DEF Finished, OnceInv, EndedOnce, IInv, TypeOK, Kinds
<1>6. QED
  BY <1>3, <1>4, <1>5

LEMMA AnnounceIsTellEnd ==
  ASSUME OnceInv, NEW r \in Requests, NEW u \in Users, AnnounceUser(r, u)
  PROVE  (\E kind \in Life!News : Life!TellEnd(u, kind)) \/ Life!Looks
<1>1. PICK kind \in Life!News :
        Tell(u, kind) /\ (IF kind = "missed" THEN u \notin seen[r] ELSE u \in seen[r])
  BY DEF AnnounceUser, Life!News
<1>2. /\ stage[r] = "announcing" /\ u \in batch[r] /\ call = "ended"
      /\ u \in participants \ {Creator}
      /\ seen[r] \subseteq joined
  BY DEF AnnounceUser, OnceInv, IInv, Reads
<1>3. IF kind = "missed" THEN u \in Absent ELSE Attending[u] # "away"
  BY <1>1, <1>2 DEF Attending, Absent
<1>4. told[u]["missed"] + told[u]["ended"] < Cardinality(enders)
  BY <1>2, MoreToTell DEF Finished
<1>5. Life!Forgets
  BY TellingForgets DEF AnnounceUser, OnceInv, IInv, TypeOK
<1>6. Life!Hears(u, kind) \/ Life!Looks
  BY <1>1, <1>2, <1>5, HearsOrNothing DEF AnnounceUser, Life!News, Kinds, history
<1>7. CASE Life!Hears(u, kind)
  <2>1. told[u]["missed"] + told[u]["ended"] < Life!Cardinality(enders)
    BY <1>4 DEF Cardinality, Life!Cardinality
  <2>2. Life!TellEnd(u, kind)
    BY <1>2, <1>3, <2>1, <1>7 DEF Life!TellEnd, Attending
  <2>3. QED
    BY <2>2
<1>8. QED
  BY <1>6, <1>7

LEMMA TokenIsJoin ==
  ASSUME OnceInv, NEW r \in Requests, NEW u \in Users, u = who[r], TokenIssue(r)
  PROVE  Life!Join(u) \/ Life!Looks
<1> USE DEF OnceInv, IInv, TypeOK, Attendance
<1>1. Life!Forgets /\ stage[r] = "joining"
  BY AnswerForgets DEF TokenIssue, Respond, Goto
<1>2. CASE u \in seen[r]
  <2>1. joined' = joined /\ again' = again
    BY <1>2 DEF TokenIssue
  <2>2. QED
    BY <1>1, <2>1, NothingSeen DEF TokenIssue, rows
<1>3. CASE u \notin seen[r] /\ u \in joined
  <2>1. u \in Joining /\ joined' = joined /\ again' = {u}
    BY <1>1, <1>3 DEF TokenIssue, Joining
  <2>2. Attending[u] # "away" /\ Attending' = Attending
    BY <1>3, <2>1 DEF Attending, TokenIssue
  <2>3. QED
    BY <1>1, <2>1, <2>2 DEF TokenIssue, Life!Join, Life!Goes, Attending
<1>4. CASE u \notin seen[r] /\ u \notin joined
  <2>1. u \in Joining /\ u \notin left /\ joined' = joined \cup {u} /\ again' = {}
    BY <1>1, <1>4 DEF TokenIssue, Joining
  <2>2. Attending[u] = "away" /\ Attending' = [Attending EXCEPT ![u] = "in"]
    BY <1>4, <2>1 DEF Attending, TokenIssue
  <2>3. QED
    BY <1>1, <2>1, <2>2 DEF TokenIssue, Life!Join, Life!Goes, Attending
<1>5. QED
  BY <1>2, <1>3, <1>4

LEMMA LeaveIsLeave ==
  ASSUME OnceInv, NEW r \in Requests, NEW u \in Users, u = who[r], LeaveSave(r)
  PROVE  Life!Leave(u)
<1> USE DEF OnceInv, IInv, TypeOK
<1>1. Life!Forgets /\ stage[r] = "leaving"
  BY AnswerForgets DEF LeaveSave, Respond, Goto
<1>2. u \in Leaving /\ u \in joined /\ left' = left \cup {u}
  BY <1>1 DEF LeaveSave, Reads, Leaving
<1>3. CASE u \in left
  <2>1. left' = left /\ again' = {u}
    BY <1>2, <1>3 DEF LeaveSave
  <2>2. Attending[u] # "in" /\ Attending' = Attending
    BY <1>3, <2>1 DEF Attending, LeaveSave
  <2>3. QED
    BY <1>1, <1>2, <2>1, <2>2 DEF LeaveSave, Life!Leave, Life!Goes, Attending
<1>4. CASE u \notin left
  <2>1. again' = {}
    BY <1>4 DEF LeaveSave
  <2>2. Attending[u] = "in" /\ Attending' = [Attending EXCEPT ![u] = "gone"]
    BY <1>2, <1>4 DEF Attending, LeaveSave
  <2>3. QED
    BY <1>1, <1>2, <2>1, <2>2 DEF LeaveSave, Life!Leave, Life!Goes, Attending
<1>5. QED
  BY <1>3, <1>4

LEMMA SaveIsEnd ==
  ASSUME OnceInv, NEW r \in Requests, EndSave(r)
  PROVE  Life!End(r)
<1> USE DEF OnceInv, IInv, TypeOK
<1>1. r \in Closing \ enders
  BY DEF EndSave, Goto, EndedOnce, Closing
<1>2. "announce" \in Stages \ Looked
  BY DEF Stages, Looked
<1>3. Life!Forgets
  BY <1>2, Forgetting DEF EndSave, Goto
<1>4. QED
  BY <1>1, <1>3 DEF EndSave, Life!End

LEMMA CommitIsOpen ==
  ASSUME OnceInv, NEW r \in Requests, CreateCommit(r)
  PROVE  \E group \in SUBSET Users : Life!Open(group)
<1> USE DEF OnceInv, IInv, TypeOK
<1>1. "ring" \in Stages \ Looked
  BY DEF Stages, Looked
<1>2. Life!Forgets
  BY <1>1, Forgetting DEF CreateCommit, Goto
<1>3. call = "none" /\ batch[r] \in SUBSET Users
  BY DEF CreateCommit, Goto, Fresh
<1>4. Life!Open(batch[r])
  BY <1>2, <1>3 DEF CreateCommit, history, Life!Open
<1>5. QED
  BY <1>3, <1>4

\* The steps that neither look at the rows nor change them.
LEMMA AsideIsNothing ==
  ASSUME OnceInv, NEW r \in Requests,
         \/ \E invited \in SUBSET Users : CreateCheck(r, invited)
         \/ \E u \in Users : LeaveReadCall(r, u)
         \/ Ring(r) \/ CreateReturns(r) \/ EndReturns(r) \/ QueryFails(r)
  PROVE  Life!Looks
<1> USE DEF OnceInv, IInv
<1>1. UNCHANGED <<rows, told, enders, again>>
  BY DEF CreateCheck, LeaveReadCall, Ring, CreateReturns, EndReturns, QueryFails, rows, history
<1>2. CASE CreateReturns(r) \/ EndReturns(r) \/ QueryFails(r)
  <2>1. Respond(r, stage[r])
    BY <1>2 DEF CreateReturns, EndReturns, QueryFails, Respond, Goto
  <2>2. QED
    BY <1>1, <2>1, AnswerForgets, NothingSeen
<1>3. CASE \/ \E invited \in SUBSET Users : CreateCheck(r, invited)
           \/ \E u \in Users : LeaveReadCall(r, u)
           \/ Ring(r)
  <2>1. PICK s \in {"creating", "leave", "ringing"} : stage' = [stage EXCEPT ![r] = s]
    BY <1>3 DEF CreateCheck, LeaveReadCall, Ring, Accepted, Goto
  <2>2. \A q \in Requests \ {r} : who'[q] = who[q] /\ batch'[q] = batch[q] /\ seen'[q] = seen[q]
    BY <1>3 DEF CreateCheck, LeaveReadCall, Ring, Accepted, TypeOK
  <2>3. s \in Stages \ Looked
    BY DEF Stages, Looked
  <2>4. Life!Forgets
    BY <2>1, <2>2, <2>3, Forgetting
  <2>5. QED
    BY <1>1, <2>4, NothingSeen
<1>4. QED
  BY <1>2, <1>3

LEMMA LifeStep ==
  ASSUME OnceInv, [Next]_vars
  PROVE  [Life!Next]_(Life!vars)
<1> USE DEF OnceInv, IInv
<1>1. ASSUME NEW r \in Requests, CreateCommit(r) \/ EndSave(r)
      PROVE  Life!Next
  BY <1>1, CommitIsOpen, SaveIsEnd DEF Life!Next
<1>2. ASSUME NEW r \in Requests, NEW u \in Users, RingUser(r, u) \/ AnnounceUser(r, u)
      PROVE  Life!Next
  BY <1>2, RingIsRing, AnnounceIsTellEnd DEF Life!Next
<1>3. ASSUME NEW r \in Requests, TokenIssue(r) \/ LeaveSave(r)
      PROVE  Life!Next
  <2>1. PICK u \in Users : u = who[r]
    BY DEF TypeOK
  <2>2. QED
    BY <1>3, <2>1, TokenIsJoin, LeaveIsLeave DEF Life!Next
<1>4. ASSUME NEW r \in Requests,
             \/ \E u \in Users : TokenReadCall(r, u)
             \/ EndRead(r) \/ TokenReadParticipant(r) \/ LeaveReadParticipant(r) \/ Announce(r)
      PROVE  Life!Next
  <2>1. Life!Looks
    BY <1>4, TokenClears, EndIsSeen, TokenFindsAway, LeaveFindsIn, AnnounceFindsAway
  <2>2. QED
    BY <2>1 DEF Life!Next
<1>5. ASSUME NEW r \in Requests,
             \/ \E invited \in SUBSET Users : CreateCheck(r, invited)
             \/ \E u \in Users : LeaveReadCall(r, u)
             \/ Ring(r) \/ CreateReturns(r) \/ EndReturns(r) \/ QueryFails(r)
      PROVE  Life!Next
  BY <1>5, AsideIsNothing DEF Life!Next
<1>6. CASE \E u \in Users : Deactivate(u)
  BY <1>6 DEF Deactivate, rows, request, history, Life!vars, Life!record,
              Cleared, Joining, Leaving, Absent, Closing
<1>7. CASE Crash
  <2>1. Cleared' = {} /\ Joining' = {} /\ Leaving' = {} /\ Absent' = {} /\ Closing' = {}
    BY <1>7 DEF Crash, Cleared, Joining, Leaving, Absent, Closing
  <2>2. Life!Forgets
    BY <2>1 DEF Life!Forgets, Life!Sees
  <2>3. QED
    BY <1>7, <2>2, NothingSeen DEF Crash, Life!Next
<1>8. CASE UNCHANGED vars
  BY <1>8 DEF vars, rows, request, history, Life!vars, Life!record,
              Cleared, Joining, Leaving, Absent, Closing
<1>9. QED
  BY <1>1, <1>2, <1>3, <1>4, <1>5, <1>6, <1>7, <1>8 DEF Next, Arrives, Serve

\* However the queries of create, token, leave and end requests interleave, and wherever
\* they fail or the process dies, the call lives the life CallLife describes.
THEOREM CallIsALife == Spec => ImplementsLife
<1>1. QED
  BY LifeInit, LifeStep, OnceInvariance, PTL DEF Spec, ImplementsLife, Life!Spec
=============================================================================
