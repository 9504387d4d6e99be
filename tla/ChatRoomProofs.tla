--------------------------- MODULE ChatRoomProofs ---------------------------
(***************************************************************************)
(* Theorems about ChatRoom for every set of users, processes and sessions, *)
(* every bound and every choice of faults.                                 *)
(***************************************************************************)
EXTENDS ChatRoom, FiniteSetTheorems, SequenceTheorems, TLAPS

Handling == {"created", "notify", "notifying", "automate", "replying"}

(***************************************************************************)
(* The shape of a handler's work: what `cur` and `outbox` refer to exists. *)
(***************************************************************************)
JobOK(c) ==
  /\ pc[c] \in Handling => cur[c] \in DOMAIN msgs
  /\ pc[c] = "created" => outbox[c] = <<cur[c]>>
  /\ \A i \in DOMAIN outbox[c] : outbox[c][i] \in DOMAIN msgs

Shape ==
  /\ \A c \in Conns : JobOK(c)
  /\ \A m \in DOMAIN msgs : msgs[m].replyTo < m
  /\ sent \subseteq DOMAIN msgs

\* A session is in the layer's group from group_add to group_discard.
Grouped ==
  \A c \in Conns : pc[c] \in Serving \cup {"grouped", "accepted"} => c \in group

\* One handler works on a message; before its notification loop nobody is notified.
OneHandler ==
  /\ \A c, d \in Conns :
       (pc[c] \in Handling /\ pc[d] \in Handling /\ cur[c] = cur[d]) => c = d
  /\ \A m \in MsgIds \ DOMAIN msgs, u \in Users : notified[m][u] = 0
  /\ \A c \in Conns, u \in Users :
       pc[c] \in {"created", "notify"} => notified[cur[c]][u] = 0
  /\ \A c \in Conns :
       pc[c] = "notifying" => msgs[cur[c]].sender \notin todo[c]

IInv ==
  /\ TypeOK
  /\ Shape
  /\ Grouped
  /\ OneHandler
  /\ PresenceMatchesSessions
  /\ NotifiedAtMostOnce
  /\ NoMissedMessage

(***************************************************************************)
(* Type correctness                                                        *)
(***************************************************************************)
LEMMA TableType ==
  ASSUME NEW A, NEW B, NEW f \in [A -> [B -> Nat]], NEW a \in A, NEW b \in B, NEW n \in Nat
  PROVE  [f EXCEPT ![a][b] = n] \in [A -> [B -> Nat]]
<1>1. [f[a] EXCEPT ![b] = n] \in [B -> Nat]
  OBVIOUS
<1>2. QED
  BY <1>1

LEMMA ConstantSeq ==
  ASSUME NEW S, NEW x \in S, NEW n \in Nat
  PROVE  /\ [i \in 1..n |-> x] \in Seq(S)
         /\ Len([i \in 1..n |-> x]) = n
<1>1. [i \in 1..n |-> x] \in [1..n -> S]
  OBVIOUS
<1>2. [i \in 1..n |-> x] \in Seq(S)
  BY <1>1, SeqDef
<1>3. QED
  BY <1>2, LenProperties

LEMMA ReplyTarget ==
  ASSUME TypeOK, Shape, NEW m \in DOMAIN msgs
  PROVE  /\ m \in MsgIds
         /\ msgs[m].sender \in Users
         /\ msgs[m].replyTo # 0 => /\ msgs[m].replyTo \in DOMAIN msgs
                                  /\ msgs[msgs[m].replyTo].sender \in Users
<1>1. /\ DOMAIN msgs = 1..Len(msgs) /\ Len(msgs) \in Nat /\ Len(msgs) <= MaxMsgs
      /\ \A k \in DOMAIN msgs : msgs[k] \in Message
  BY DEF TypeOK
<1>2. msgs[m].replyTo \in 0..MaxMsgs /\ msgs[m].replyTo < m
  BY <1>1 DEF Shape, Message
<1>3. m \in MsgIds /\ (msgs[m].replyTo # 0 => msgs[m].replyTo \in DOMAIN msgs)
  BY <1>1, <1>2, ChatRoomAssumption DEF MsgIds
<1>4. \A k \in DOMAIN msgs : msgs[k].sender \in Users
  BY <1>1 DEF Message
<1>5. QED
  BY <1>3, <1>4

LEMMA NotifyType ==
  ASSUME TypeOK, NEW m \in MsgIds, NEW u \in Users, Notify(m, u)
  PROVE  notified' \in [MsgIds -> [Users -> Nat]]
<1>1. notified[m][u] + 1 \in Nat
  BY DEF TypeOK
<1>2. notified' = [notified EXCEPT ![m][u] = notified[m][u] + 1]
  BY DEF Notify
<1>3. QED
  BY <1>1, <1>2, TableType DEF TypeOK

LEMMA EnqueueType ==
  ASSUME NEW q \in Seq(MsgIds), NEW m \in MsgIds, NEW k \in BOOLEAN
  PROVE  Enqueue(q, m, k) \in Seq(MsgIds) /\ Lost(q, m, k) \subseteq MsgIds
<1> USE ChatRoomAssumption
<1>1. CASE Len(q) < Capacity
  BY <1>1 DEF Enqueue, Lost
<1>2. CASE ~(Len(q) < Capacity)
  <2>1. q # <<>> /\ Head(q) \in MsgIds /\ Tail(q) \in Seq(MsgIds)
    BY <1>2
  <2>2. QED
    BY <1>2, <2>1 DEF Enqueue, Lost
<1>3. QED
  BY <1>1, <1>2

LEMMA GroupSendType ==
  ASSUME TypeOK, NEW m \in MsgIds, GroupSend(m)
  PROVE  /\ mailbox' \in [Conns -> Seq(MsgIds)]
         /\ dropped' \in [Conns -> SUBSET MsgIds]
         /\ sent' \subseteq MsgIds
<1>1. PICK k \in BOOLEAN :
        /\ mailbox' = [c \in Conns |-> IF c \in group /\ pc[c] # "dead"
                        THEN Enqueue(mailbox[c], m, k) ELSE mailbox[c]]
        /\ dropped' = [c \in Conns |-> IF c \in group /\ pc[c] # "dead"
                        THEN dropped[c] \cup Lost(mailbox[c], m, k) ELSE dropped[c]]
        /\ sent' = sent \cup {m}
  BY DEF GroupSend
<1>2. \A c \in Conns : /\ Enqueue(mailbox[c], m, k) \in Seq(MsgIds)
                       /\ Lost(mailbox[c], m, k) \subseteq MsgIds
  BY EnqueueType DEF TypeOK
<1>3. QED
  BY <1>1, <1>2 DEF TypeOK

LEMMA ForgetType ==
  ASSUME TypeOK, NEW S, Forget(S)
  PROVE  /\ mailbox' \in [Conns -> Seq(MsgIds)]
         /\ history' \in [Conns -> SUBSET MsgIds]
         /\ live' \in [Conns -> Seq(MsgIds)]
         /\ dropped' \in [Conns -> SUBSET MsgIds]
         /\ cur' \in [Conns -> 0..MaxMsgs]
         /\ outbox' \in [Conns -> Seq(MsgIds)]
         /\ todo' \in [Conns -> SUBSET Users]
  BY ChatRoomAssumption DEF TypeOK, Forget

LEMMA TypeStep ==
  ASSUME TypeOK, Shape, [Next]_vars
  PROVE  TypeOK'
<1> USE ChatRoomAssumption DEF TypeOK
<1> USE DEF dbVars, handlerVars, viewVars, Become, Stages
<1>1. ASSUME NEW c \in Conns, Authorize(c) PROVE TypeOK'
  BY <1>1 DEF Authorize
<1>2. ASSUME NEW c \in Conns, GroupAdd(c) PROVE TypeOK'
  BY <1>2 DEF GroupAdd
<1>3. ASSUME NEW c \in Conns, Accept(c) PROVE TypeOK'
  <2>1. presence[Proc[c]][Owner[c]] + 1 \in Nat
    OBVIOUS
  <2>2. presence' \in [Procs -> [Users -> Nat]]
    BY <1>3, <2>1, TableType DEF Accept, PresenceInc
  <2>3. QED
    BY <1>3, <2>2 DEF Accept
<1>4. ASSUME NEW c \in Conns, SendHistory(c) PROVE TypeOK'
  <2>1. LatestMessages \subseteq MsgIds
    BY DEF LatestMessages, MsgIds
  <2>2. QED
    BY <1>4, <2>1 DEF SendHistory
<1>5. ASSUME NEW c \in Conns, ChatEvent(c) PROVE TypeOK'
  <2>1. /\ Append(live[c], Head(mailbox[c])) \in Seq(MsgIds)
        /\ Tail(mailbox[c]) \in Seq(MsgIds)
    BY <1>5, HeadTailProperties, AppendProperties DEF ChatEvent
  <2>2. QED
    BY <1>5, <2>1 DEF ChatEvent
<1>6. ASSUME NEW c \in Conns, NEW r \in 0..Len(msgs), CreateMessage(c, r) PROVE TypeOK'
  <2>1. [by |-> c, sender |-> Owner[c], replyTo |-> r] \in Message
    BY DEF Message
  <2>2. msgs' \in Seq(Message) /\ Len(msgs') = Len(msgs) + 1
    BY <1>6, <2>1, AppendProperties DEF CreateMessage
  <2>3. <<Len(msgs) + 1>> \in Seq(MsgIds)
    BY <1>6 DEF CreateMessage, MsgIds
  <2>4. Len(msgs') <= MaxMsgs /\ Len(msgs) + 1 \in 0..MaxMsgs
    BY <1>6, <2>2 DEF CreateMessage
  <2>5. QED
    BY <1>6, <2>2, <2>3, <2>4 DEF CreateMessage
<1>7. ASSUME NEW c \in Conns, Broadcast(c) PROVE TypeOK'
  <2>1. Head(outbox[c]) \in MsgIds
    BY <1>7 DEF Broadcast, Shape, JobOK, MsgIds
  <2>2. /\ mailbox' \in [Conns -> Seq(MsgIds)]
        /\ dropped' \in [Conns -> SUBSET MsgIds]
        /\ sent' \subseteq MsgIds
    BY <1>7, <2>1, GroupSendType DEF Broadcast
  <2>3. QED
    BY <1>7, <2>2, EmptySeq DEF Broadcast
<1>8. ASSUME NEW c \in Conns, StartNotify(c) PROVE TypeOK'
  <2>1. cur[c] \in DOMAIN msgs /\ cur[c] \in MsgIds
    BY <1>8 DEF StartNotify, Shape, JobOK, Handling, MsgIds
  <2>2. notified' \in [MsgIds -> [Users -> Nat]]
    BY <1>8, <2>1, ReplyTarget, NotifyType DEF StartNotify
  <2>3. QED
    BY <1>8, <2>2 DEF StartNotify
<1>9. ASSUME NEW c \in Conns, NEW u \in Users, NotifyMember(c, u) PROVE TypeOK'
  <2>1. cur[c] \in MsgIds
    BY <1>9 DEF NotifyMember, Shape, JobOK, Handling, MsgIds
  <2>2. notified' \in [MsgIds -> [Users -> Nat]]
    BY <1>9, <2>1, NotifyType DEF NotifyMember
  <2>3. QED
    BY <1>9, <2>2 DEF NotifyMember
<1>10. ASSUME NEW c \in Conns, EndNotify(c) PROVE TypeOK'
  BY <1>10 DEF EndNotify
<1>11. ASSUME NEW c \in Conns, NEW n \in 0..AutoReplies, Automate(c, n) PROVE TypeOK'
  <2>1. [by |-> c, sender |-> Bot, replyTo |-> 0] \in Message
    BY DEF Message
  <2> DEFINE new == [i \in 1..n |-> [by |-> c, sender |-> Bot, replyTo |-> 0]]
  <2>2. new \in Seq(Message) /\ Len(new) = n
    <3>1. n \in Nat
      BY ChatRoomAssumption
    <3>2. QED
      BY ONLY <2>1, <3>1, ConstantSeq
  <2> HIDE DEF new
  <2>3. msgs \o new \in Seq(Message) /\ Len(msgs \o new) = Len(msgs) + n
    <3>1. msgs \in Seq(Message)
      OBVIOUS
    <3>2. QED
      BY ONLY <2>2, <3>1, ConcatProperties
  <2>4. [i \in 1..n |-> Len(msgs) + i] \in Seq(MsgIds)
    BY <1>11 DEF Automate, MsgIds
  <2>5. QED
    BY <1>11, <2>3, <2>4 DEF Automate, new
<1>12. ASSUME NEW c \in Conns, BroadcastReply(c) PROVE TypeOK'
  <2>1. Head(outbox[c]) \in MsgIds /\ Tail(outbox[c]) \in Seq(MsgIds)
    BY <1>12, HeadTailProperties DEF BroadcastReply
  <2>2. /\ mailbox' \in [Conns -> Seq(MsgIds)]
        /\ dropped' \in [Conns -> SUBSET MsgIds]
        /\ sent' \subseteq MsgIds
    BY <1>12, <2>1, GroupSendType DEF BroadcastReply
  <2>3. QED
    BY <1>12, <2>1, <2>2 DEF BroadcastReply
<1>13. ASSUME NEW c \in Conns, EndSend(c) PROVE TypeOK'
  BY <1>13 DEF EndSend
<1>14. ASSUME NEW c \in Conns, GroupDiscard(c) PROVE TypeOK'
  BY <1>14 DEF GroupDiscard
<1>15. ASSUME NEW c \in Conns, Leave(c) PROVE TypeOK'
  <2>1. presence' \in [Procs -> [Users -> Nat]]
    <3> DEFINE k == presence[Proc[c]][Owner[c]]
    <3>1. (IF k > 1 THEN k - 1 ELSE 0) \in Nat
      OBVIOUS
    <3>2. QED
      BY <1>15, <3>1, TableType DEF Leave, PresenceDec
  <2>2. QED
    BY <1>15, <2>1, ForgetType DEF Leave
<1>16. ASSUME NEW c \in Conns, HandlerDies(c) PROVE TypeOK'
  BY <1>16, ForgetType DEF HandlerDies
<1>17. ASSUME NEW c \in Conns, NotifyFails(c) PROVE TypeOK'
  BY <1>17 DEF NotifyFails
<1>18. ASSUME NEW c \in Conns, AutomateFails(c) PROVE TypeOK'
  BY <1>18, EmptySeq DEF AutomateFails
<1>19. ASSUME NEW p \in Procs, RestartProcess(p) PROVE TypeOK'
  BY <1>19, ForgetType DEF RestartProcess
<1>20. ASSUME NEW u \in Users, AddMember(u) \/ RemoveMember(u) PROVE TypeOK'
  BY <1>20 DEF AddMember, RemoveMember
<1>21. CASE UNCHANGED vars
  BY <1>21 DEF vars
<1>22. QED
  BY <1>1, <1>2, <1>3, <1>4, <1>5, <1>6, <1>7, <1>8, <1>9, <1>10, <1>11, <1>12,
     <1>13, <1>14, <1>15, <1>16, <1>17, <1>18, <1>19, <1>20, <1>21
  DEF Next, HandlerStep, ClientStep, Fault

(***************************************************************************)
(* Rows are only added, and refer to what exists                           *)
(***************************************************************************)
LEMMA CreateGrows ==
  ASSUME TypeOK, NEW c \in Conns, NEW r \in 0..Len(msgs), CreateMessage(c, r)
  PROVE  /\ Len(msgs') = Len(msgs) + 1
         /\ DOMAIN msgs = 1..Len(msgs) /\ DOMAIN msgs' = 1..(Len(msgs) + 1)
         /\ \A m \in DOMAIN msgs : msgs'[m] = msgs[m]
         /\ msgs'[Len(msgs) + 1].by = c
         /\ msgs'[Len(msgs) + 1].sender = Owner[c]
         /\ msgs'[Len(msgs) + 1].replyTo = r
<1> DEFINE x == [by |-> c, sender |-> Owner[c], replyTo |-> r]
<1>1. msgs \in Seq(Message)
  BY DEF TypeOK
<1>2. x \in Message
  BY ChatRoomAssumption, <1>1 DEF Message, TypeOK
<1>3. msgs' = Append(msgs, x)
  BY DEF CreateMessage
<1> HIDE DEF x
<1>4. /\ Len(msgs') = Len(msgs) + 1
      /\ DOMAIN msgs = 1..Len(msgs) /\ DOMAIN msgs' = 1..(Len(msgs) + 1)
      /\ \A m \in DOMAIN msgs : msgs'[m] = msgs[m]
      /\ msgs'[Len(msgs) + 1] = x
  BY ONLY <1>1, <1>2, <1>3, AppendProperties, LenProperties
<1>5. x.by = c /\ x.sender = Owner[c] /\ x.replyTo = r
  BY DEF x
<1>6. QED
  BY ONLY <1>4, <1>5

LEMMA AutomateGrows ==
  ASSUME TypeOK, NEW c \in Conns, NEW n \in 0..AutoReplies, Automate(c, n)
  PROVE  /\ n \in Nat /\ Len(msgs) \in Nat /\ Len(msgs') = Len(msgs) + n
         /\ DOMAIN msgs = 1..Len(msgs) /\ DOMAIN msgs' = 1..(Len(msgs) + n)
         /\ \A m \in DOMAIN msgs : msgs'[m] = msgs[m]
         /\ \A m \in DOMAIN msgs' \ DOMAIN msgs :
              msgs'[m].by = c /\ msgs'[m].sender = Bot /\ msgs'[m].replyTo = 0
<1> DEFINE x == [by |-> c, sender |-> Bot, replyTo |-> 0]
           t == [i \in 1..n |-> x]
<1>1. msgs \in Seq(Message) /\ n \in Nat
  BY ChatRoomAssumption DEF TypeOK
<1>2. x \in Message
  BY ChatRoomAssumption DEF Message
<1>3. msgs' = msgs \o t
  BY DEF Automate
<1>4. t \in Seq(Message) /\ Len(t) = n
  BY ONLY <1>1, <1>2, ConstantSeq
<1>5. \A i \in 1..n : t[i] = x
  OBVIOUS
<1> HIDE DEF t, x
<1>6. /\ Len(msgs) \in Nat /\ Len(msgs') = Len(msgs) + n
      /\ DOMAIN msgs = 1..Len(msgs) /\ DOMAIN msgs' = 1..(Len(msgs) + n)
      /\ \A i \in 1..(Len(msgs) + n) :
           msgs'[i] = IF i <= Len(msgs) THEN msgs[i] ELSE t[i - Len(msgs)]
  <2>1. /\ msgs' \in Seq(Message) /\ Len(msgs') = Len(msgs) + Len(t)
        /\ \A i \in 1..(Len(msgs) + Len(t)) :
             msgs'[i] = IF i <= Len(msgs) THEN msgs[i] ELSE t[i - Len(msgs)]
    BY ONLY <1>1, <1>3, <1>4, ConcatProperties
  <2>2. /\ Len(msgs) \in Nat /\ DOMAIN msgs = 1..Len(msgs)
        /\ DOMAIN msgs' = 1..Len(msgs')
    BY ONLY <1>1, <2>1, LenProperties
  <2>3. QED
    BY ONLY <1>4, <2>1, <2>2
<1>7. /\ \A m \in DOMAIN msgs : msgs'[m] = msgs[m]
      /\ \A m \in DOMAIN msgs' \ DOMAIN msgs : msgs'[m] = x
  BY ONLY <1>1, <1>5, <1>6
<1>8. x.by = c /\ x.sender = Bot /\ x.replyTo = 0
  BY DEF x
<1>9. QED
  BY ONLY <1>1, <1>6, <1>7, <1>8

\* Only the two actions that store messages change msgs.
LEMMA OnlyCreateAndAutomate ==
  ASSUME [Next]_vars, msgs' # msgs
  PROVE  \E c \in Conns : \/ \E r \in 0..Len(msgs) : CreateMessage(c, r)
                          \/ \E n \in 0..AutoReplies : Automate(c, n)
  BY DEF Next, HandlerStep, ClientStep, Fault, vars, dbVars,
         Authorize, GroupAdd, Accept, SendHistory, ChatEvent, Broadcast, StartNotify,
         NotifyMember, EndNotify, BroadcastReply, EndSend, GroupDiscard, Leave,
         HandlerDies, NotifyFails, AutomateFails, RestartProcess, AddMember, RemoveMember

LEMMA RowsStep ==
  ASSUME TypeOK, Shape, [Next]_vars
  PROVE  /\ DOMAIN msgs \subseteq DOMAIN msgs'
         /\ \A m \in DOMAIN msgs : msgs'[m] = msgs[m]
         /\ \A m \in DOMAIN msgs' : msgs'[m].replyTo < m
<1>1. CASE msgs' = msgs
  BY <1>1 DEF Shape
<1>2. ASSUME NEW c \in Conns, NEW r \in 0..Len(msgs), CreateMessage(c, r)
      PROVE  /\ DOMAIN msgs \subseteq DOMAIN msgs'
             /\ \A m \in DOMAIN msgs : msgs'[m] = msgs[m]
             /\ \A m \in DOMAIN msgs' : msgs'[m].replyTo < m
  <2>1. Len(msgs) \in Nat
    BY DEF TypeOK
  <2>2. QED
    <3>1. /\ DOMAIN msgs = 1..Len(msgs) /\ DOMAIN msgs' = 1..(Len(msgs) + 1)
          /\ \A m \in DOMAIN msgs : msgs'[m] = msgs[m]
          /\ msgs'[Len(msgs) + 1].replyTo = r
      BY <1>2, CreateGrows
    <3>2. \A m \in DOMAIN msgs : msgs[m].replyTo < m
      BY DEF Shape
    <3>3. QED
      BY ONLY <2>1, <3>1, <3>2, r \in 0..Len(msgs)
<1>3. ASSUME NEW c \in Conns, NEW n \in 0..AutoReplies, Automate(c, n)
      PROVE  /\ DOMAIN msgs \subseteq DOMAIN msgs'
             /\ \A m \in DOMAIN msgs : msgs'[m] = msgs[m]
             /\ \A m \in DOMAIN msgs' : msgs'[m].replyTo < m
  BY <1>3, AutomateGrows DEF Shape
<1>4. QED
  BY <1>1, <1>2, <1>3, OnlyCreateAndAutomate

\* Steps that only move a session along: no message, job or send changes.
LEMMA QuietShape ==
  ASSUME TypeOK, Shape, NEW c \in Conns, NEW s \in Stages \ {"created"},
         pc' = [pc EXCEPT ![c] = s],
         s \in Handling => pc[c] \in Handling,
         UNCHANGED <<msgs, cur, outbox, sent>>
  PROVE  Shape'
  BY DEF Shape, JobOK, TypeOK

\* Ending the jobs of the sessions in S leaves the other jobs alone.
LEMMA ForgetShape ==
  ASSUME TypeOK, Shape, NEW S, Forget(S),
         \A d \in Conns : pc'[d] = IF d \in S THEN pc'[d] ELSE pc[d],
         \A d \in S : pc'[d] \notin Handling,
         UNCHANGED <<msgs, sent>>
  PROVE  Shape'
<1>1. ASSUME NEW d \in Conns, d \in S PROVE JobOK(d)'
  BY <1>1 DEF JobOK, Forget, Handling
<1>2. ASSUME NEW d \in Conns, d \notin S PROVE JobOK(d)'
  <2>1. cur'[d] = cur[d] /\ outbox'[d] = outbox[d] /\ pc'[d] = pc[d]
    BY <1>2 DEF Forget
  <2>2. QED
    BY <2>1 DEF JobOK, Shape
<1>3. QED
  BY <1>1, <1>2 DEF Shape

LEMMA ShapeStep ==
  ASSUME TypeOK, Shape, [Next]_vars
  PROVE  Shape'
<1> USE ChatRoomAssumption DEF dbVars, handlerVars, viewVars, Become
<1>0. /\ DOMAIN msgs \subseteq DOMAIN msgs'
      /\ \A m \in DOMAIN msgs' : msgs'[m].replyTo < m
  BY RowsStep
<1>1. ASSUME NEW c \in Conns, Authorize(c) PROVE Shape'
  BY <1>1, QuietShape DEF Authorize, Handling, Stages
<1>2. ASSUME NEW c \in Conns, GroupAdd(c) PROVE Shape'
  BY <1>2, QuietShape DEF GroupAdd, Handling, Stages
<1>3. ASSUME NEW c \in Conns, Accept(c) PROVE Shape'
  BY <1>3, QuietShape DEF Accept, Handling, Stages
<1>4. ASSUME NEW c \in Conns, SendHistory(c) PROVE Shape'
  BY <1>4, QuietShape DEF SendHistory, Handling, Stages
<1>5. ASSUME NEW c \in Conns, ChatEvent(c) PROVE Shape'
  BY <1>5 DEF ChatEvent, Shape, JobOK
<1>6. ASSUME NEW c \in Conns, NEW r \in 0..Len(msgs), CreateMessage(c, r) PROVE Shape'
  <2>1. Len(msgs) + 1 \in DOMAIN msgs'
    <3>1. Len(msgs) \in Nat
      BY DEF TypeOK
    <3>2. DOMAIN msgs' = 1..(Len(msgs) + 1)
      BY <1>6, CreateGrows
    <3>3. QED
      BY ONLY <3>1, <3>2
  <2>2. JobOK(c)'
    <3>1. cur'[c] = Len(msgs) + 1 /\ outbox'[c] = <<Len(msgs) + 1>>
      BY <1>6 DEF CreateMessage, TypeOK
    <3>2. QED
      BY ONLY <2>1, <3>1 DEF JobOK
  <2>3. ASSUME NEW d \in Conns, d # c PROVE JobOK(d)'
    <3>1. pc'[d] = pc[d] /\ cur'[d] = cur[d] /\ outbox'[d] = outbox[d]
      BY <1>6, <2>3 DEF CreateMessage, TypeOK
    <3>2. JobOK(d)
      BY DEF Shape
    <3>3. QED
      BY ONLY <1>0, <3>1, <3>2 DEF JobOK
  <2>4. sent' = sent
    BY <1>6 DEF CreateMessage
  <2>5. QED
    BY <1>0, <2>2, <2>3, <2>4 DEF Shape
<1>7. ASSUME NEW c \in Conns, Broadcast(c) PROVE Shape'
  <2>1. Head(outbox[c]) = cur[c] /\ cur[c] \in DOMAIN msgs
    BY <1>7 DEF Broadcast, Shape, JobOK, Handling
  <2>2. sent' \subseteq DOMAIN msgs'
    BY <1>7, <2>1 DEF Broadcast, GroupSend, Shape
  <2>3. JobOK(c)'
    BY <1>7, <2>1 DEF Broadcast, JobOK, TypeOK
  <2>4. ASSUME NEW d \in Conns, d # c PROVE JobOK(d)'
    BY <1>7, <2>4 DEF Broadcast, Shape, JobOK, TypeOK
  <2>5. QED
    BY <1>0, <2>2, <2>3, <2>4 DEF Shape
<1>8. ASSUME NEW c \in Conns, StartNotify(c) PROVE Shape'
  BY <1>8, QuietShape DEF StartNotify, Handling, Stages
<1>9. ASSUME NEW c \in Conns, NEW u \in Users, NotifyMember(c, u) PROVE Shape'
  BY <1>9 DEF NotifyMember, Shape, JobOK
<1>10. ASSUME NEW c \in Conns, EndNotify(c) PROVE Shape'
  BY <1>10, QuietShape DEF EndNotify, Handling, Stages
<1>11. ASSUME NEW c \in Conns, NEW n \in 0..AutoReplies, Automate(c, n) PROVE Shape'
  <2>1. /\ n \in Nat /\ Len(msgs) \in Nat
        /\ DOMAIN msgs' = 1..(Len(msgs) + n)
    BY <1>11, AutomateGrows
  <2>2. outbox'[c] = [i \in 1..n |-> Len(msgs) + i]
    BY <1>11 DEF Automate, TypeOK
  <2>3. \A i \in DOMAIN outbox'[c] : outbox'[c][i] \in DOMAIN msgs'
    BY ONLY <2>1, <2>2
  <2>4. \A d \in Conns : JobOK(d)'
    BY <1>0, <1>11, <2>3 DEF Automate, Shape, JobOK, Handling, TypeOK
  <2>5. QED
    BY <1>0, <1>11, <2>4 DEF Automate, Shape
<1>12. ASSUME NEW c \in Conns, BroadcastReply(c) PROVE Shape'
  <2>1. /\ outbox[c] \in Seq(MsgIds) /\ outbox[c] # <<>>
        /\ outbox'[c] = Tail(outbox[c])
    BY <1>12 DEF BroadcastReply, TypeOK
  <2>2. /\ Head(outbox[c]) = outbox[c][1] /\ 1 \in DOMAIN outbox[c]
        /\ \A i \in DOMAIN Tail(outbox[c]) :
             i + 1 \in DOMAIN outbox[c] /\ Tail(outbox[c])[i] = outbox[c][i + 1]
    BY ONLY <2>1, HeadTailProperties, LenProperties, EmptySeq
  <2>3. \A i \in DOMAIN outbox[c] : outbox[c][i] \in DOMAIN msgs
    BY DEF Shape, JobOK
  <2>4. sent' \subseteq DOMAIN msgs'
    BY <1>12, <2>2, <2>3 DEF BroadcastReply, GroupSend, Shape
  <2>5. JobOK(c)'
    <3>1. cur' = cur /\ msgs' = msgs /\ pc' = pc /\ pc[c] = "replying"
      BY <1>12 DEF BroadcastReply
    <3>2. \A i \in DOMAIN outbox'[c] : outbox'[c][i] \in DOMAIN msgs'
      BY <2>1, <2>2, <2>3, <3>1
    <3>3. QED
      BY <3>1, <3>2 DEF JobOK, Shape
  <2>6. ASSUME NEW d \in Conns, d # c PROVE JobOK(d)'
    BY <1>12, <2>6 DEF BroadcastReply, Shape, JobOK, TypeOK
  <2>7. QED
    BY <1>0, <2>4, <2>5, <2>6 DEF Shape
<1>13. ASSUME NEW c \in Conns, EndSend(c) PROVE Shape'
  BY <1>13 DEF EndSend, Shape, JobOK, Handling, TypeOK
<1>14. ASSUME NEW c \in Conns, GroupDiscard(c) PROVE Shape'
  BY <1>14, QuietShape DEF GroupDiscard, Handling, Stages
<1>15. ASSUME NEW c \in Conns, Leave(c) PROVE Shape'
  <2>1. /\ Forget({c})
        /\ \A d \in Conns : pc'[d] = IF d \in {c} THEN "idle" ELSE pc[d]
        /\ UNCHANGED <<msgs, sent>>
    BY <1>15 DEF Leave, TypeOK
  <2>2. QED
    BY <2>1, ForgetShape DEF Handling
<1>16. ASSUME NEW c \in Conns, HandlerDies(c) PROVE Shape'
  <2>1. /\ Forget({c})
        /\ \A d \in Conns : pc'[d] = IF d \in {c} THEN "dead" ELSE pc[d]
        /\ UNCHANGED <<msgs, sent>>
    BY <1>16 DEF HandlerDies, TypeOK
  <2>2. QED
    BY <2>1, ForgetShape DEF Handling
<1>17. ASSUME NEW c \in Conns, NotifyFails(c) PROVE Shape'
  BY <1>17, QuietShape DEF NotifyFails, Handling, Stages
<1>18. ASSUME NEW c \in Conns, AutomateFails(c) PROVE Shape'
  BY <1>18 DEF AutomateFails, Shape, JobOK, Handling, TypeOK
<1>19. ASSUME NEW p \in Procs, RestartProcess(p) PROVE Shape'
  <2> DEFINE lost == {c \in Conns : Proc[c] = p}
  <2>1. /\ Forget(lost)
        /\ \A d \in Conns : pc'[d] = IF d \in lost THEN "idle" ELSE pc[d]
        /\ UNCHANGED <<msgs, sent>>
    BY <1>19 DEF RestartProcess
  <2>2. QED
    BY <2>1, ForgetShape DEF Handling
<1>20. ASSUME NEW u \in Users, AddMember(u) \/ RemoveMember(u) PROVE Shape'
  BY <1>20 DEF AddMember, RemoveMember, Shape, JobOK
<1>21. CASE UNCHANGED vars
  BY <1>21 DEF vars, Shape, JobOK
<1>22. QED
  BY <1>1, <1>2, <1>3, <1>4, <1>5, <1>6, <1>7, <1>8, <1>9, <1>10, <1>11, <1>12,
     <1>13, <1>14, <1>15, <1>16, <1>17, <1>18, <1>19, <1>20, <1>21
  DEF Next, HandlerStep, ClientStep, Fault

\* connect() joins the layer's group before it counts, and leaves it first.
LEMMA GroupedStep ==
  ASSUME TypeOK, Grouped, [Next]_vars
  PROVE  Grouped'
<1> USE DEF TypeOK, Grouped, Serving, Become, dbVars, handlerVars, viewVars
<1>1. ASSUME NEW c \in Conns, HandlerStep(c) PROVE Grouped'
  BY <1>1 DEF HandlerStep, GroupAdd, Accept, SendHistory, Broadcast, StartNotify,
     NotifyMember, EndNotify, Automate, BroadcastReply, EndSend, Leave
<1>2. ASSUME NEW c \in Conns, ChatEvent(c) \/ ClientStep(c) PROVE Grouped'
  BY <1>2 DEF ChatEvent, ClientStep, Authorize, CreateMessage, GroupDiscard
<1>3. ASSUME NEW c \in Conns, HandlerDies(c) \/ NotifyFails(c) \/ AutomateFails(c)
      PROVE Grouped'
  BY <1>3 DEF HandlerDies, NotifyFails, AutomateFails
<1>4. ASSUME NEW p \in Procs, RestartProcess(p) PROVE Grouped'
  BY <1>4 DEF RestartProcess
<1>5. ASSUME NEW u \in Users, AddMember(u) \/ RemoveMember(u) PROVE Grouped'
  BY <1>5 DEF AddMember, RemoveMember
<1>6. CASE UNCHANGED vars
  BY <1>6 DEF vars
<1>7. QED
  BY <1>1, <1>2, <1>3, <1>4, <1>5, <1>6 DEF Next, Fault

(***************************************************************************)
(* At most one notification per user and message                           *)
(***************************************************************************)
Before == {"created", "notify"}

\* Steps that notify nobody and start no handler.
LEMMA QuietNotify ==
  ASSUME TypeOK, Shape, OneHandler, NotifiedAtMostOnce,
         notified' = notified,
         DOMAIN msgs \subseteq DOMAIN msgs',
         \A m \in DOMAIN msgs : msgs'[m] = msgs[m],
         \A m \in DOMAIN msgs' : m \in MsgIds,
         \A d \in Conns : pc'[d] \in Handling => pc[d] \in Handling /\ cur'[d] = cur[d],
         \A d \in Conns : pc'[d] \in Before => pc[d] \in Before,
         \A d \in Conns : pc'[d] = "notifying" =>
                           pc[d] = "notifying" /\ todo'[d] \subseteq todo[d]
  PROVE  OneHandler' /\ NotifiedAtMostOnce'
<1>1. \A d \in Conns : pc[d] \in Handling => cur[d] \in DOMAIN msgs
  BY DEF Shape, JobOK
<1>2. \A c, d \in Conns :
        (pc'[c] \in Handling /\ pc'[d] \in Handling /\ cur'[c] = cur'[d]) => c = d
  BY DEF OneHandler
<1>3. \A m \in MsgIds \ DOMAIN msgs', u \in Users : notified'[m][u] = 0
  BY DEF OneHandler
<1>4. \A c \in Conns, u \in Users : pc'[c] \in Before => notified'[cur'[c]][u] = 0
  BY DEF OneHandler, Before, Handling
<1>5. \A c \in Conns : pc'[c] = "notifying" => msgs'[cur'[c]].sender \notin todo'[c]
  BY <1>1 DEF OneHandler, Handling
<1>6. \A m \in DOMAIN msgs', u \in Users :
        notified'[m][u] <= IF u = msgs'[m].sender THEN 0 ELSE 1
  <2>1. ASSUME NEW m \in DOMAIN msgs', NEW u \in Users, m \in DOMAIN msgs
        PROVE  notified'[m][u] <= IF u = msgs'[m].sender THEN 0 ELSE 1
    BY <2>1 DEF NotifiedAtMostOnce
  <2>2. ASSUME NEW m \in DOMAIN msgs', NEW u \in Users, m \notin DOMAIN msgs
        PROVE  notified'[m][u] <= IF u = msgs'[m].sender THEN 0 ELSE 1
    <3>1. notified'[m][u] = 0
      BY <2>2 DEF OneHandler
    <3>2. QED
      BY <3>1
  <2>3. QED
    BY <2>1, <2>2
<1>7. QED
  BY <1>2, <1>3, <1>4, <1>5, <1>6 DEF OneHandler, NotifiedAtMostOnce, Before

\* The effect of one notification for a user who has none and is not the sender.
LEMMA OneNotify ==
  ASSUME TypeOK, Shape, OneHandler, NotifiedAtMostOnce, msgs' = msgs, cur' = cur,
         NEW c \in Conns, pc[c] \in Handling, pc'[c] = "notifying",
         \A d \in Conns : d # c => pc'[d] = pc[d] /\ todo'[d] = todo[d],
         msgs[cur[c]].sender \notin todo'[c],
         NEW u \in Users, Notify(cur[c], u),
         notified[cur[c]][u] = 0, u # msgs[cur[c]].sender
  PROVE  OneHandler' /\ NotifiedAtMostOnce'
<1> DEFINE k == cur[c]
<1>1. k \in DOMAIN msgs /\ k \in MsgIds
  BY ReplyTarget DEF Shape, JobOK
<1>2. \A m \in MsgIds, v \in Users :
        notified'[m][v] = IF m = k /\ v = u THEN 1 ELSE notified[m][v]
  BY <1>1 DEF Notify, TypeOK
<1>3. \A d \in Conns : pc'[d] \in Handling => pc[d] \in Handling
  BY DEF Handling
<1>4. \A d, e \in Conns :
        (pc'[d] \in Handling /\ pc'[e] \in Handling /\ cur'[d] = cur'[e]) => d = e
  BY <1>3 DEF OneHandler
<1>5. \A m \in MsgIds \ DOMAIN msgs', v \in Users : notified'[m][v] = 0
  BY <1>1, <1>2 DEF OneHandler
<1>6. ASSUME NEW d \in Conns, NEW v \in Users, pc'[d] \in Before
      PROVE  notified'[cur'[d]][v] = 0
  <2>1. d # c /\ pc[d] \in Before /\ pc[d] \in Handling
    BY <1>6 DEF Before, Handling
  <2>2. cur[d] # k /\ cur[d] \in DOMAIN msgs
    BY <2>1 DEF OneHandler, Shape, JobOK
  <2>3. cur[d] \in MsgIds
    BY <2>2, ReplyTarget
  <2>4. QED
    BY <1>2, <2>1, <2>2, <2>3 DEF OneHandler, Before
<1>7. \A d \in Conns : pc'[d] = "notifying" => msgs'[cur'[d]].sender \notin todo'[d]
  BY DEF OneHandler
<1>8. ASSUME NEW m \in DOMAIN msgs', NEW v \in Users
      PROVE  notified'[m][v] <= IF v = msgs'[m].sender THEN 0 ELSE 1
  <2>1. m \in MsgIds /\ notified[m][v] <= IF v = msgs[m].sender THEN 0 ELSE 1
    BY ReplyTarget DEF NotifiedAtMostOnce
  <2>2. CASE m = k /\ v = u
    BY <1>2, <2>1, <2>2
  <2>3. CASE ~(m = k /\ v = u)
    BY <1>2, <2>1, <2>3
  <2>4. QED
    BY <2>2, <2>3
<1>9. QED
  BY <1>4, <1>5, <1>6, <1>7, <1>8 DEF OneHandler, NotifiedAtMostOnce, Before

LEMMA NotifyStep ==
  ASSUME TypeOK, Shape, OneHandler, NotifiedAtMostOnce, [Next]_vars
  PROVE  OneHandler' /\ NotifiedAtMostOnce'
<1> USE DEF dbVars, handlerVars, viewVars, Become
<1>0. /\ DOMAIN msgs \subseteq DOMAIN msgs'
      /\ \A m \in DOMAIN msgs : msgs'[m] = msgs[m]
      /\ \A m \in DOMAIN msgs' : m \in MsgIds
      /\ TypeOK'
  <2>1. TypeOK'
    BY TypeStep
  <2>2. \A m \in DOMAIN msgs' : m \in MsgIds
    BY <2>1, ChatRoomAssumption DEF TypeOK, MsgIds
  <2>3. QED
    BY <2>1, <2>2, RowsStep
<1>1. ASSUME NEW c \in Conns,
             Authorize(c) \/ GroupAdd(c) \/ Accept(c) \/ SendHistory(c) \/ ChatEvent(c)
      PROVE  OneHandler' /\ NotifiedAtMostOnce'
  BY <1>0, <1>1, QuietNotify
  DEF Authorize, GroupAdd, Accept, SendHistory, ChatEvent, Before, Handling, TypeOK
<1>2. ASSUME NEW c \in Conns, NEW r \in 0..Len(msgs), CreateMessage(c, r)
      PROVE  OneHandler' /\ NotifiedAtMostOnce'
  <2> DEFINE k == Len(msgs) + 1
  <2>1. /\ k \notin DOMAIN msgs /\ k \in MsgIds /\ DOMAIN msgs' = DOMAIN msgs \cup {k}
        /\ msgs'[k].sender = Owner[c]
    <3>1. Len(msgs) \in Nat /\ DOMAIN msgs = 1..Len(msgs)
      BY DEF TypeOK
    <3>2. DOMAIN msgs' = 1..(Len(msgs) + 1) /\ msgs'[k].sender = Owner[c]
      BY <1>2, CreateGrows
    <3>3. k \notin DOMAIN msgs /\ k \in DOMAIN msgs' /\ DOMAIN msgs' = DOMAIN msgs \cup {k}
      BY ONLY <3>1, <3>2
    <3>4. QED
      BY <1>0, <3>2, <3>3
  <2>2. /\ cur' = [cur EXCEPT ![c] = k] /\ pc' = [pc EXCEPT ![c] = "created"]
        /\ notified' = notified /\ todo' = todo /\ pc[c] = "open"
    BY <1>2 DEF CreateMessage
  <2> HIDE DEF k
  <2>3. \A d \in Conns : pc[d] \in Handling => cur[d] \in DOMAIN msgs
    BY DEF Shape, JobOK
  <2>4. \A d, e \in Conns :
          (pc'[d] \in Handling /\ pc'[e] \in Handling /\ cur'[d] = cur'[e]) => d = e
    BY <2>1, <2>2, <2>3 DEF OneHandler, TypeOK
  <2>5. \A m \in MsgIds \ DOMAIN msgs', u \in Users : notified'[m][u] = 0
    BY <1>0, <2>2 DEF OneHandler
  <2>6. \A d \in Conns, u \in Users : pc'[d] \in Before => notified'[cur'[d]][u] = 0
    BY <2>1, <2>2 DEF OneHandler, Before, TypeOK
  <2>7. \A d \in Conns : pc'[d] = "notifying" => msgs'[cur'[d]].sender \notin todo'[d]
    BY <1>0, <2>2, <2>3 DEF OneHandler, Handling, TypeOK
  <2>8. ASSUME NEW m \in DOMAIN msgs', NEW u \in Users
        PROVE  notified'[m][u] <= IF u = msgs'[m].sender THEN 0 ELSE 1
    <3>1. CASE m = k
      <4>1. notified'[m][u] = 0
        BY <2>1, <2>2, <3>1 DEF OneHandler
      <4>2. QED
        BY <4>1
    <3>2. CASE m # k
      BY <1>0, <2>1, <2>2, <3>2 DEF NotifiedAtMostOnce
    <3>3. QED
      BY <3>1, <3>2
  <2>9. QED
    BY <2>4, <2>5, <2>6, <2>7, <2>8 DEF OneHandler, NotifiedAtMostOnce, Before
<1>3. ASSUME NEW c \in Conns, Broadcast(c) \/ EndNotify(c) \/ BroadcastReply(c)
                               \/ EndSend(c) \/ GroupDiscard(c)
      PROVE  OneHandler' /\ NotifiedAtMostOnce'
  BY <1>0, <1>3, QuietNotify
  DEF Broadcast, EndNotify, BroadcastReply, EndSend, GroupDiscard, Before, Handling, TypeOK
<1>4. ASSUME NEW c \in Conns, StartNotify(c)
      PROVE  OneHandler' /\ NotifiedAtMostOnce'
  <2> DEFINE m == cur[c]
             r == msgs[m].replyTo
  <2>1. /\ pc[c] = "notify" /\ pc' = [pc EXCEPT ![c] = "notifying"]
        /\ todo' = [todo EXCEPT ![c] = members \ {msgs[m].sender}]
        /\ msgs' = msgs /\ cur' = cur
    BY <1>4 DEF StartNotify
  <2>2. m \in DOMAIN msgs /\ pc[c] \in Handling
    BY <2>1 DEF Shape, JobOK, Handling
  <2>3. CASE r # 0 /\ msgs[r].sender # msgs[m].sender
    <3>1. Notify(m, msgs[r].sender) /\ msgs[r].sender \in Users
      BY <1>4, <2>2, <2>3, ReplyTarget DEF StartNotify
    <3>2. notified[m][msgs[r].sender] = 0
      BY <2>1, <3>1 DEF OneHandler
    <3>3. /\ pc'[c] = "notifying" /\ msgs[m].sender \notin todo'[c]
          /\ \A d \in Conns : d # c => pc'[d] = pc[d] /\ todo'[d] = todo[d]
      BY <2>1 DEF TypeOK
    <3>4. QED
      BY <2>1, <2>2, <2>3, <3>1, <3>2, <3>3, OneNotify
  <2>4. CASE ~(r # 0 /\ msgs[r].sender # msgs[m].sender)
    <3>1. notified' = notified
      BY <1>4, <2>4 DEF StartNotify
    <3>2. OneHandler'
      BY <2>1, <3>1 DEF OneHandler, Handling, TypeOK
    <3>3. QED
      BY <2>1, <3>1, <3>2 DEF NotifiedAtMostOnce
  <2>5. QED
    BY <2>3, <2>4
<1>5. ASSUME NEW c \in Conns, NEW u \in Users, NotifyMember(c, u)
      PROVE  OneHandler' /\ NotifiedAtMostOnce'
  <2>1. /\ pc[c] = "notifying" /\ u \in todo[c] /\ todo' = [todo EXCEPT ![c] = @ \ {u}]
        /\ msgs' = msgs /\ cur' = cur /\ pc' = pc
    BY <1>5 DEF NotifyMember
  <2>2. CASE ~IsUserConnected(Proc[c], u) /\ notified[cur[c]][u] = 0
    <3>1. Notify(cur[c], u)
      BY <1>5, <2>2 DEF NotifyMember
    <3>2. /\ pc[c] \in Handling /\ pc'[c] = "notifying" /\ u # msgs[cur[c]].sender
          /\ msgs[cur[c]].sender \notin todo'[c]
          /\ \A d \in Conns : d # c => pc'[d] = pc[d] /\ todo'[d] = todo[d]
      BY <2>1 DEF OneHandler, Handling, TypeOK
    <3>3. QED
      BY <2>1, <2>2, <3>1, <3>2, OneNotify
  <2>3. CASE ~(~IsUserConnected(Proc[c], u) /\ notified[cur[c]][u] = 0)
    <3>1. notified' = notified
      BY <1>5, <2>3 DEF NotifyMember
    <3>2. QED
      BY <1>0, <2>1, <3>1, QuietNotify DEF TypeOK
  <2>4. QED
    BY <2>2, <2>3
<1>6. ASSUME NEW c \in Conns, NEW n \in 0..AutoReplies, Automate(c, n)
      PROVE  OneHandler' /\ NotifiedAtMostOnce'
  BY <1>0, <1>6, QuietNotify DEF Automate, Before, Handling, TypeOK
<1>7. ASSUME NEW c \in Conns,
             Leave(c) \/ HandlerDies(c) \/ NotifyFails(c) \/ AutomateFails(c)
      PROVE  OneHandler' /\ NotifiedAtMostOnce'
  <2>1. CASE Leave(c)
    BY <1>0, <2>1, QuietNotify DEF Leave, Forget, Before, Handling, TypeOK
  <2>2. CASE HandlerDies(c)
    BY <1>0, <2>2, QuietNotify DEF HandlerDies, Forget, Before, Handling, TypeOK
  <2>3. CASE NotifyFails(c) \/ AutomateFails(c)
    BY <1>0, <2>3, QuietNotify
    DEF NotifyFails, AutomateFails, Forget, Before, Handling, TypeOK
  <2>4. QED
    BY <1>7, <2>1, <2>2, <2>3
<1>8. ASSUME NEW p \in Procs, RestartProcess(p)
      PROVE  OneHandler' /\ NotifiedAtMostOnce'
  BY <1>0, <1>8, QuietNotify DEF RestartProcess, Forget, Before, Handling, TypeOK
<1>9. ASSUME NEW u \in Users, AddMember(u) \/ RemoveMember(u)
      PROVE  OneHandler' /\ NotifiedAtMostOnce'
  BY <1>0, <1>9, QuietNotify DEF AddMember, RemoveMember
<1>10. CASE UNCHANGED vars
  BY <1>0, <1>10, QuietNotify DEF vars
<1>11. QED
  BY <1>1, <1>2, <1>3, <1>4, <1>5, <1>6, <1>7, <1>8, <1>9, <1>10
  DEF Next, HandlerStep, ClientStep, Fault

(***************************************************************************)
(* Presence counts sessions                                                *)
(***************************************************************************)
Uncounted == {"idle", "authorized", "grouped"}

LEMMA CountedFinite ==
  ASSUME NEW p \in Procs, NEW u \in Users
  PROVE  IsFiniteSet(Counted(p, u))
<1>1. Counted(p, u) \subseteq Conns
  BY DEF Counted
<1>2. QED
  BY <1>1, FS_Subset, ChatRoomAssumption

\* A step in which no session starts or stops being counted.
LEMMA QuietPresence ==
  ASSUME PresenceMatchesSessions, presence' = presence,
         \A c \in Conns : pc'[c] \in Uncounted <=> pc[c] \in Uncounted
  PROVE  PresenceMatchesSessions'
<1>1. ASSUME NEW p \in Procs, NEW u \in Users
      PROVE  Counted(p, u)' = Counted(p, u)
  BY DEF Counted, Uncounted
<1>2. QED
  BY <1>1 DEF PresenceMatchesSessions

LEMMA PresenceStep ==
  ASSUME TypeOK, PresenceMatchesSessions, [Next]_vars
  PROVE  PresenceMatchesSessions'
<1> USE ChatRoomAssumption DEF dbVars, handlerVars, viewVars, Become
<1>1. ASSUME NEW c \in Conns, Authorize(c) \/ GroupAdd(c) \/ SendHistory(c) \/ ChatEvent(c)
      PROVE  PresenceMatchesSessions'
  BY <1>1, QuietPresence
  DEF Authorize, GroupAdd, SendHistory, ChatEvent, Uncounted, TypeOK
<1>2. ASSUME NEW c \in Conns, Accept(c)
      PROVE  PresenceMatchesSessions'
  <2> DEFINE q == Proc[c]
             w == Owner[c]
  <2>1. /\ pc[c] = "grouped" /\ pc' = [pc EXCEPT ![c] = "accepted"]
        /\ presence' = [presence EXCEPT ![q][w] = @ + 1]
    BY <1>2 DEF Accept, PresenceInc
  <2>2. ASSUME NEW p \in Procs, NEW u \in Users, p = q, u = w
        PROVE  presence'[p][u] = Cardinality(Counted(p, u)')
    <3>1. c \notin Counted(p, u) /\ Counted(p, u)' = Counted(p, u) \cup {c}
      <4>1. pc'[c] = "accepted" /\ \A d \in Conns : d # c => pc'[d] = pc[d]
        BY <2>1 DEF TypeOK
      <4>2. QED
        BY ONLY <2>1, <2>2, <4>1, c \in Conns DEF Counted
    <3>2. Cardinality(Counted(p, u)') = Cardinality(Counted(p, u)) + 1
      BY <3>1, CountedFinite, FS_AddElement
    <3>3. presence'[p][u] = presence[p][u] + 1
      BY <2>1, <2>2 DEF TypeOK
    <3>4. QED
      BY <3>2, <3>3 DEF PresenceMatchesSessions
  <2>3. ASSUME NEW p \in Procs, NEW u \in Users, ~(p = q /\ u = w)
        PROVE  presence'[p][u] = Cardinality(Counted(p, u)')
    <3>1. Counted(p, u)' = Counted(p, u) /\ presence'[p][u] = presence[p][u]
      BY <2>1, <2>3 DEF Counted, TypeOK
    <3>2. QED
      BY <3>1 DEF PresenceMatchesSessions
  <2>4. QED
    BY <2>2, <2>3 DEF PresenceMatchesSessions
<1>3. ASSUME NEW c \in Conns, NEW r \in 0..Len(msgs), CreateMessage(c, r)
      PROVE  PresenceMatchesSessions'
  BY <1>3, QuietPresence DEF CreateMessage, Uncounted, TypeOK
<1>4. ASSUME NEW c \in Conns, NEW u \in Users,
             Broadcast(c) \/ StartNotify(c) \/ NotifyMember(c, u) \/ EndNotify(c)
      PROVE  PresenceMatchesSessions'
  BY <1>4, QuietPresence
  DEF Broadcast, StartNotify, NotifyMember, EndNotify, Uncounted, TypeOK
<1>5. ASSUME NEW c \in Conns, NEW n \in 0..AutoReplies, Automate(c, n)
      PROVE  PresenceMatchesSessions'
  BY <1>5, QuietPresence DEF Automate, Uncounted, TypeOK
<1>6. ASSUME NEW c \in Conns, BroadcastReply(c) \/ EndSend(c) \/ GroupDiscard(c)
      PROVE  PresenceMatchesSessions'
  BY <1>6, QuietPresence DEF BroadcastReply, EndSend, GroupDiscard, Uncounted, TypeOK
<1>7. ASSUME NEW c \in Conns, Leave(c)
      PROVE  PresenceMatchesSessions'
  <2> DEFINE q == Proc[c]
             w == Owner[c]
             k == presence[q][w]
  <2>1. /\ pc[c] = "leaving" /\ pc' = [pc EXCEPT ![c] = "idle"]
        /\ presence' = [presence EXCEPT ![q][w] = IF @ > 1 THEN @ - 1 ELSE 0]
    BY <1>7 DEF Leave, PresenceDec
  <2>2. ASSUME NEW p \in Procs, NEW u \in Users, p = q, u = w
        PROVE  presence'[p][u] = Cardinality(Counted(p, u)')
    <3>1. c \in Counted(p, u) /\ Counted(p, u)' = Counted(p, u) \ {c}
      BY <2>1, <2>2 DEF Counted, TypeOK
    <3>2. Cardinality(Counted(p, u)') = Cardinality(Counted(p, u)) - 1
      BY <3>1, CountedFinite, FS_RemoveElement
    <3>3. Cardinality(Counted(p, u)) \in Nat /\ Cardinality(Counted(p, u)) # 0
      BY <3>1, CountedFinite, FS_CardinalityType, FS_EmptySet
    <3>4. presence'[p][u] = IF k > 1 THEN k - 1 ELSE 0
      BY <2>1, <2>2 DEF TypeOK
    <3>5. k = Cardinality(Counted(p, u))
      BY <2>2 DEF PresenceMatchesSessions
    <3>6. QED
      BY <3>2, <3>3, <3>4, <3>5
  <2>3. ASSUME NEW p \in Procs, NEW u \in Users, ~(p = q /\ u = w)
        PROVE  presence'[p][u] = Cardinality(Counted(p, u)')
    <3>1. Counted(p, u)' = Counted(p, u) /\ presence'[p][u] = presence[p][u]
      BY <2>1, <2>3 DEF Counted, TypeOK
    <3>2. QED
      BY <3>1 DEF PresenceMatchesSessions
  <2>4. QED
    BY <2>2, <2>3 DEF PresenceMatchesSessions
<1>8. ASSUME NEW c \in Conns, HandlerDies(c) \/ NotifyFails(c) \/ AutomateFails(c)
      PROVE  PresenceMatchesSessions'
  BY <1>8, QuietPresence DEF HandlerDies, NotifyFails, AutomateFails, Uncounted, TypeOK
<1>9. ASSUME NEW q \in Procs, RestartProcess(q)
      PROVE  PresenceMatchesSessions'
  <2>1. /\ \A c \in Conns : pc'[c] = IF Proc[c] = q THEN "idle" ELSE pc[c]
        /\ presence' = [presence EXCEPT ![q] = [u \in Users |-> 0]]
    BY <1>9 DEF RestartProcess
  <2>2. ASSUME NEW p \in Procs, NEW u \in Users, p = q
        PROVE  presence'[p][u] = Cardinality(Counted(p, u)')
    <3>1. Counted(p, u)' = {} /\ presence'[p][u] = 0
      BY <2>1, <2>2 DEF Counted, TypeOK
    <3>2. QED
      BY <3>1, FS_EmptySet
  <2>3. ASSUME NEW p \in Procs, NEW u \in Users, p # q
        PROVE  presence'[p][u] = Cardinality(Counted(p, u)')
    <3>1. Counted(p, u)' = Counted(p, u) /\ presence'[p][u] = presence[p][u]
      BY <2>1, <2>3 DEF Counted, TypeOK
    <3>2. QED
      BY <3>1 DEF PresenceMatchesSessions
  <2>4. QED
    BY <2>2, <2>3 DEF PresenceMatchesSessions
<1>10. ASSUME NEW u \in Users, AddMember(u) \/ RemoveMember(u)
      PROVE  PresenceMatchesSessions'
  BY <1>10, QuietPresence DEF AddMember, RemoveMember
<1>11. CASE UNCHANGED vars
  BY <1>11, QuietPresence DEF vars
<1>12. QED
  BY <1>1, <1>2, <1>3, <1>4, <1>5, <1>6, <1>7, <1>8, <1>9, <1>10, <1>11
  DEF Next, HandlerStep, ClientStep, Fault

(***************************************************************************)
(* No missed message                                                       *)
(***************************************************************************)
LEMMA AppendElems ==
  ASSUME NEW S, NEW q \in Seq(S), NEW x \in S
  PROVE  Elems(Append(q, x)) = Elems(q) \cup {x}
<1>1. /\ Len(q) \in Nat /\ DOMAIN q = 1..Len(q)
      /\ DOMAIN Append(q, x) = 1..(Len(q) + 1)
      /\ \A i \in 1..Len(q) : Append(q, x)[i] = q[i]
      /\ Append(q, x)[Len(q) + 1] = x
  BY ONLY AppendProperties, LenProperties, q \in Seq(S), x \in S
<1>2. QED
  BY ONLY <1>1 DEF Elems

LEMMA HeadTailElems ==
  ASSUME NEW S, NEW q \in Seq(S), q # <<>>
  PROVE  Elems(q) = {Head(q)} \cup Elems(Tail(q))
<1>1. /\ Len(q) \in Nat \ {0} /\ DOMAIN q = 1..Len(q) /\ Head(q) = q[1]
      /\ DOMAIN Tail(q) = 1..(Len(q) - 1)
      /\ \A i \in 1..(Len(q) - 1) : Tail(q)[i] = q[i + 1]
  BY ONLY HeadTailProperties, LenProperties, EmptySeq, q \in Seq(S), q # <<>>
<1>2. \A i \in DOMAIN q : i = 1 \/ (i - 1 \in DOMAIN Tail(q) /\ Tail(q)[i - 1] = q[i])
  BY ONLY <1>1
<1>3. \A i \in DOMAIN Tail(q) : i + 1 \in DOMAIN q /\ Tail(q)[i] = q[i + 1]
  BY ONLY <1>1
<1>4. 1 \in DOMAIN q
  BY ONLY <1>1
<1>5. Elems(q) \subseteq {Head(q)} \cup Elems(Tail(q))
  BY ONLY <1>1, <1>2 DEF Elems
<1>6. Head(q) \in Elems(q)
  BY ONLY <1>1, <1>4 DEF Elems
<1>7. Elems(Tail(q)) \subseteq Elems(q)
  BY ONLY <1>3 DEF Elems
<1>8. QED
  BY ONLY <1>5, <1>6, <1>7

\* A full channel loses one event and says which.
LEMMA EnqueueElems ==
  ASSUME NEW q \in Seq(MsgIds), NEW m \in MsgIds, NEW k \in BOOLEAN
  PROVE  Elems(q) \cup {m} \subseteq Elems(Enqueue(q, m, k)) \cup Lost(q, m, k)
<1>1. CASE Len(q) < Capacity
  BY <1>1, AppendElems DEF Enqueue, Lost
<1>2. CASE ~(Len(q) < Capacity) /\ k
  BY <1>2 DEF Enqueue, Lost
<1>3. CASE ~(Len(q) < Capacity) /\ ~k
  <2>1. q # <<>> /\ Head(q) \in MsgIds /\ Tail(q) \in Seq(MsgIds)
    BY <1>3, ChatRoomAssumption
  <2>2. Elems(q) = {Head(q)} \cup Elems(Tail(q))
    BY <2>1, HeadTailElems
  <2>3. \A t \in Seq(MsgIds) : Elems(Append(t, m)) = Elems(t) \cup {m}
    BY AppendElems
  <2>4. QED
    BY <1>3, <2>1, <2>2, <2>3 DEF Enqueue, Lost
<1>4. QED
  BY <1>1, <1>2, <1>3

Got(c) == history[c] \cup Elems(live[c]) \cup Elems(mailbox[c]) \cup dropped[c]

\* Steps that send nothing and take nothing from a session in use.
LEMMA QuietCover ==
  ASSUME NoMissedMessage, sent' = sent,
         \A d \in Conns : pc'[d] \in Serving =>
           pc[d] \in Serving /\ history'[d] = history[d] /\ Got(d) \subseteq Got(d)'
  PROVE  NoMissedMessage'
  BY DEF NoMissedMessage, Covered, Got

LEMMA GroupSendCover ==
  ASSUME TypeOK, Grouped, NoMissedMessage, NEW m \in MsgIds, GroupSend(m),
         history' = history, live' = live,
         \A d \in Conns : pc'[d] \in Serving => pc[d] \in Serving
  PROVE  NoMissedMessage'
<1>1. PICK k \in BOOLEAN :
        /\ mailbox' = [c \in Conns |-> IF c \in group /\ pc[c] # "dead"
                        THEN Enqueue(mailbox[c], m, k) ELSE mailbox[c]]
        /\ dropped' = [c \in Conns |-> IF c \in group /\ pc[c] # "dead"
                        THEN dropped[c] \cup Lost(mailbox[c], m, k) ELSE dropped[c]]
        /\ sent' = sent \cup {m}
  BY DEF GroupSend
<1>2. ASSUME NEW d \in Conns, pc'[d] \in Serving, NEW x \in sent'
      PROVE  Covered(d, x)'
  <2>1. d \in group /\ pc[d] # "dead" /\ pc[d] \in Serving
    BY <1>2 DEF Grouped, Serving
  <2>2. /\ mailbox'[d] = Enqueue(mailbox[d], m, k)
        /\ dropped'[d] = dropped[d] \cup Lost(mailbox[d], m, k)
    BY <1>1, <2>1
  <2>3. Elems(mailbox[d]) \cup {m} \subseteq
          Elems(Enqueue(mailbox[d], m, k)) \cup Lost(mailbox[d], m, k)
    BY EnqueueElems DEF TypeOK
  <2>4. CASE x = m
    BY <2>2, <2>3, <2>4 DEF Covered
  <2>5. CASE x # m
    <3>1. Covered(d, x)
      BY <1>1, <1>2, <2>1, <2>5 DEF NoMissedMessage
    <3>2. QED
      BY <2>2, <2>3, <3>1 DEF Covered
  <2>6. QED
    BY <2>4, <2>5
<1>3. QED
  BY <1>2 DEF NoMissedMessage

\* The newest HISTORY_LIMIT messages cover every message of the room.
LEMMA LatestCovers ==
  ASSUME TypeOK, NEW m \in DOMAIN msgs
  PROVE  \/ m \in LatestMessages
         \/ Cardinality({h \in LatestMessages : h > m}) >= HistoryLimit
<1>1. /\ Len(msgs) \in Nat /\ DOMAIN msgs = 1..Len(msgs)
      /\ HistoryLimit \in Nat \ {0} /\ m \in 1..Len(msgs)
  BY ChatRoomAssumption DEF TypeOK
<1>2. CASE m + HistoryLimit > Len(msgs)
  BY <1>2 DEF LatestMessages
<1>3. CASE m + HistoryLimit <= Len(msgs)
  <2> DEFINE a == Len(msgs) - HistoryLimit + 1
  <2>1. {h \in LatestMessages : h > m} = a..Len(msgs)
    BY ONLY <1>1, <1>3 DEF LatestMessages
  <2>2. a \in Int /\ a <= Len(msgs) /\ Len(msgs) - a + 1 = HistoryLimit
    BY ONLY <1>1, <1>3
  <2>3. Cardinality(a..Len(msgs)) = Len(msgs) - a + 1
    BY <1>1, <2>2, FS_Interval
  <2> HIDE DEF a
  <2>4. Cardinality({h \in LatestMessages : h > m}) = HistoryLimit
    BY ONLY <2>1, <2>2, <2>3
  <2>5. QED
    BY <1>1, <2>4
<1>4. QED
  BY <1>1, <1>2, <1>3

LEMMA NoMissedStep ==
  ASSUME TypeOK, Shape, Grouped, NoMissedMessage, [Next]_vars
  PROVE  NoMissedMessage'
<1> USE ChatRoomAssumption DEF dbVars, handlerVars, viewVars, Become
<1>1. ASSUME NEW c \in Conns, Authorize(c) \/ GroupAdd(c) \/ Accept(c)
      PROVE  NoMissedMessage'
  BY <1>1, QuietCover DEF Authorize, GroupAdd, Accept, Serving, Got, TypeOK
<1>2. ASSUME NEW c \in Conns, SendHistory(c)
      PROVE  NoMissedMessage'
  <2>1. /\ pc' = [pc EXCEPT ![c] = "open"] /\ history' = [history EXCEPT ![c] = LatestMessages]
        /\ live' = live /\ mailbox' = mailbox /\ dropped' = dropped /\ sent' = sent
    BY <1>2 DEF SendHistory
  <2>2. ASSUME NEW m \in sent PROVE Covered(c, m)'
    <3>1. m \in DOMAIN msgs /\ history'[c] = LatestMessages
      BY <2>1 DEF Shape, TypeOK
    <3>2. QED
      BY <3>1, LatestCovers DEF Covered
  <2>3. ASSUME NEW d \in Conns, d # c, pc'[d] \in Serving, NEW m \in sent
        PROVE  Covered(d, m)'
    BY <2>1, <2>3 DEF NoMissedMessage, Covered, TypeOK
  <2>4. QED
    BY <2>1, <2>2, <2>3 DEF NoMissedMessage
<1>3. ASSUME NEW c \in Conns, ChatEvent(c)
      PROVE  NoMissedMessage'
  <2>1. /\ mailbox[c] # <<>> /\ mailbox' = [mailbox EXCEPT ![c] = Tail(@)]
        /\ live' = [live EXCEPT ![c] = Append(@, Head(mailbox[c]))]
        /\ history' = history /\ dropped' = dropped /\ sent' = sent /\ pc' = pc
    BY <1>3 DEF ChatEvent
  <2>2. /\ mailbox[c] \in Seq(MsgIds) /\ live[c] \in Seq(MsgIds)
        /\ Head(mailbox[c]) \in MsgIds
    BY <2>1 DEF TypeOK
  <2>3. Elems(mailbox[c]) = {Head(mailbox[c])} \cup Elems(Tail(mailbox[c]))
    BY <2>1, <2>2, HeadTailElems
  <2>4. Elems(Append(live[c], Head(mailbox[c]))) = Elems(live[c]) \cup {Head(mailbox[c])}
    BY <2>2, AppendElems
  <2>5. live'[c] = Append(live[c], Head(mailbox[c])) /\ mailbox'[c] = Tail(mailbox[c])
    BY <2>1 DEF TypeOK
  <2>6. Got(c) \subseteq Got(c)'
    BY <2>1, <2>3, <2>4, <2>5 DEF Got
  <2>7. \A d \in Conns : d # c => Got(d) \subseteq Got(d)'
    BY <2>1 DEF Got, TypeOK
  <2>8. QED
    BY <2>1, <2>6, <2>7, QuietCover
<1>4. ASSUME NEW c \in Conns, NEW r \in 0..Len(msgs), CreateMessage(c, r)
      PROVE  NoMissedMessage'
  BY <1>4, QuietCover DEF CreateMessage, Serving, Got, TypeOK
<1>5. ASSUME NEW c \in Conns, Broadcast(c)
      PROVE  NoMissedMessage'
  <2>1. Head(outbox[c]) \in MsgIds
    BY <1>5, ReplyTarget DEF Broadcast, Shape, JobOK, Handling
  <2>2. QED
    BY <1>5, <2>1, GroupSendCover DEF Broadcast, Serving, TypeOK
<1>6. ASSUME NEW c \in Conns, NEW u \in Users,
             StartNotify(c) \/ NotifyMember(c, u) \/ EndNotify(c)
      PROVE  NoMissedMessage'
  BY <1>6, QuietCover DEF StartNotify, NotifyMember, EndNotify, Serving, Got, TypeOK
<1>7. ASSUME NEW c \in Conns, NEW n \in 0..AutoReplies, Automate(c, n)
      PROVE  NoMissedMessage'
  BY <1>7, QuietCover DEF Automate, Serving, Got, TypeOK
<1>8. ASSUME NEW c \in Conns, BroadcastReply(c)
      PROVE  NoMissedMessage'
  <2>1. Head(outbox[c]) \in MsgIds
    BY <1>8, HeadTailProperties DEF BroadcastReply, TypeOK
  <2>2. QED
    BY <1>8, <2>1, GroupSendCover DEF BroadcastReply
<1>9. ASSUME NEW c \in Conns, EndSend(c) \/ GroupDiscard(c)
      PROVE  NoMissedMessage'
  BY <1>9, QuietCover DEF EndSend, GroupDiscard, Serving, Got, TypeOK
<1>10. ASSUME NEW c \in Conns, Leave(c) \/ HandlerDies(c)
      PROVE  NoMissedMessage'
  <2>1. /\ pc' \in {[pc EXCEPT ![c] = "idle"], [pc EXCEPT ![c] = "dead"]}
        /\ Forget({c}) /\ sent' = sent
    BY <1>10 DEF Leave, HandlerDies
  <2>2. \A d \in Conns : pc'[d] \in Serving => d # c /\ pc[d] \in Serving
    BY <2>1 DEF Serving, TypeOK
  <2>3. \A d \in Conns : d # c => history'[d] = history[d] /\ Got(d)' = Got(d)
    BY <2>1 DEF Forget, Got
  <2>4. QED
    BY <2>1, <2>2, <2>3, QuietCover
<1>11. ASSUME NEW c \in Conns, NotifyFails(c) \/ AutomateFails(c)
      PROVE  NoMissedMessage'
  BY <1>11, QuietCover DEF NotifyFails, AutomateFails, Serving, Got, TypeOK
<1>12. ASSUME NEW p \in Procs, RestartProcess(p)
      PROVE  NoMissedMessage'
  BY <1>12, QuietCover DEF RestartProcess, Forget, Serving, Got, TypeOK
<1>13. ASSUME NEW u \in Users, AddMember(u) \/ RemoveMember(u)
      PROVE  NoMissedMessage'
  BY <1>13, QuietCover DEF AddMember, RemoveMember, Got
<1>14. CASE UNCHANGED vars
  BY <1>14, QuietCover DEF vars, Got
<1>15. QED
  BY <1>1, <1>2, <1>3, <1>4, <1>5, <1>6, <1>7, <1>8, <1>9, <1>10, <1>11, <1>12,
     <1>13, <1>14
  DEF Next, HandlerStep, ClientStep, Fault

(***************************************************************************)
(* The theorems                                                            *)
(***************************************************************************)
LEMMA InitIInv ==
  ASSUME Init
  PROVE  IInv
<1> USE ChatRoomAssumption DEF Init
<1>1. TypeOK
  BY DEF TypeOK, MsgIds, Stages
<1>2. Shape
  BY DEF Shape, JobOK, Handling
<1>3. Grouped
  BY DEF Grouped, Serving
<1>4. OneHandler
  <2>1. \A m \in MsgIds, u \in Users : notified[m][u] = 0
    OBVIOUS
  <2>2. QED
    BY <2>1 DEF OneHandler, Handling
<1>5. PresenceMatchesSessions
  <2>1. ASSUME NEW p \in Procs, NEW u \in Users
        PROVE  presence[p][u] = Cardinality(Counted(p, u))
    <3>1. Counted(p, u) = {} /\ presence[p][u] = 0
      BY DEF Counted
    <3>2. QED
      BY <3>1, FS_EmptySet
  <2>2. QED
    BY <2>1 DEF PresenceMatchesSessions
<1>6. NotifiedAtMostOnce
  <2>1. \A m \in DOMAIN msgs, u \in Users : notified[m][u] = 0
    BY DEF MsgIds
  <2>2. QED
    BY <2>1 DEF NotifiedAtMostOnce
<1>7. NoMissedMessage
  BY DEF NoMissedMessage, Serving
<1>8. QED
  BY <1>1, <1>2, <1>3, <1>4, <1>5, <1>6, <1>7 DEF IInv

LEMMA NextIInv ==
  ASSUME IInv, [Next]_vars
  PROVE  IInv'
<1> USE DEF IInv
<1>1. TypeOK'
  BY TypeStep
<1>2. Shape'
  BY ShapeStep
<1>3. Grouped'
  BY GroupedStep
<1>4. OneHandler' /\ NotifiedAtMostOnce'
  BY NotifyStep
<1>5. PresenceMatchesSessions'
  BY PresenceStep
<1>6. NoMissedMessage'
  BY NoMissedStep
<1>7. QED
  BY <1>1, <1>2, <1>3, <1>4, <1>5, <1>6

\* The inductive invariant holds in every reachable state of the room.
THEOREM Inductive == Spec => []IInv
<1>1. Init => IInv
  BY InitIInv
<1>2. IInv /\ [Next]_vars => IInv'
  BY NextIInv
<1>3. QED
  BY <1>1, <1>2, PTL DEF Spec

\* Every variable of the room keeps its type.
THEOREM TypeCorrect == Spec => []TypeOK
<1>1. IInv => TypeOK
  BY DEF IInv
<1>2. QED
  BY <1>1, Inductive, PTL

\* _presence_inc and _presence_dec keep the count of each user equal to the number
\* of the user's counted sessions, for any number of sessions, faults and restarts.
THEOREM PresenceCorrect == Spec => []PresenceMatchesSessions
<1>1. IInv => PresenceMatchesSessions
  BY DEF IInv
<1>2. QED
  BY <1>1, Inductive, PTL

\* notified_ids and the loop over the other members give each user at most one
\* notification per message, and the sender none, whatever fails or restarts.
THEOREM NotifyOnce == Spec => []NotifiedAtMostOnce
<1>1. IInv => NotifiedAtMostOnce
  BY DEF IInv
<1>2. QED
  BY <1>1, Inductive, PTL

\* group_add before the history query leaves no gap between history and events,
\* for every HISTORY_LIMIT and channel capacity.
THEOREM NoGap == Spec => []NoMissedMessage
<1>1. IInv => NoMissedMessage
  BY DEF IInv
<1>2. QED
  BY <1>1, Inductive, PTL

(***************************************************************************)
(* Whom the notification loop leaves out                                   *)
(***************************************************************************)
Notifying == {"notify", "notifying"}

\* The message a loop speaks of has been broadcast.
Broadcasted == \A c \in Conns : pc[c] \in Notifying => cur[c] \in sent

LEMMA BroadcastedStep ==
  ASSUME IInv, Broadcasted, [Next]_vars
  PROVE  Broadcasted'
<1> USE DEF IInv, dbVars, handlerVars, viewVars, Become, Notifying
<1>1. ASSUME sent \subseteq sent',
             \A d \in Conns : pc'[d] \in Notifying => pc[d] \in Notifying /\ cur'[d] = cur[d]
      PROVE  Broadcasted'
  BY <1>1 DEF Broadcasted
<1>2. ASSUME NEW c \in Conns, Broadcast(c)
      PROVE  Broadcasted'
  <2>1. /\ outbox[c] = <<cur[c]>> /\ GroupSend(Head(outbox[c]))
        /\ cur' = cur /\ \A d \in Conns : d # c => pc'[d] = pc[d]
    BY <1>2 DEF Broadcast, Shape, JobOK, TypeOK
  <2>2. sent' = sent \cup {cur[c]}
    BY <2>1 DEF GroupSend
  <2>3. QED
    BY <2>1, <2>2 DEF Broadcasted
<1>3. ASSUME NEW c \in Conns,
             \/ Authorize(c) \/ GroupAdd(c) \/ Accept(c) \/ SendHistory(c) \/ ChatEvent(c)
             \/ \E r \in 0..Len(msgs) : CreateMessage(c, r)
             \/ GroupDiscard(c)
      PROVE  Broadcasted'
  BY <1>3, <1>1
  DEF Authorize, GroupAdd, Accept, SendHistory, ChatEvent, CreateMessage, GroupDiscard, TypeOK
<1>4. ASSUME NEW c \in Conns,
             \/ StartNotify(c) \/ EndNotify(c) \/ BroadcastReply(c) \/ EndSend(c)
             \/ \E u \in Users : NotifyMember(c, u)
             \/ \E n \in 0..AutoReplies : Automate(c, n)
      PROVE  Broadcasted'
  BY <1>4, <1>1
  DEF StartNotify, EndNotify, BroadcastReply, EndSend, NotifyMember, Automate, GroupSend, TypeOK
<1>5. ASSUME NEW c \in Conns,
             Leave(c) \/ HandlerDies(c) \/ NotifyFails(c) \/ AutomateFails(c)
      PROVE  Broadcasted'
  BY <1>5, <1>1 DEF Leave, HandlerDies, NotifyFails, AutomateFails, Forget, TypeOK
<1>6. ASSUME NEW p \in Procs, RestartProcess(p)
      PROVE  Broadcasted'
  BY <1>6, <1>1 DEF RestartProcess, Forget
<1>7. ASSUME NEW u \in Users, AddMember(u) \/ RemoveMember(u)
      PROVE  Broadcasted'
  BY <1>7, <1>1 DEF AddMember, RemoveMember
<1>8. CASE UNCHANGED vars
  BY <1>8, <1>1 DEF vars
<1>9. QED
  BY <1>2, <1>3, <1>4, <1>5, <1>6, <1>7, <1>8 DEF Next, HandlerStep, ClientStep, Fault

LEMMA LoopInductive == Spec => [](IInv /\ Broadcasted)
<1>1. Init => IInv /\ Broadcasted
  BY InitIInv DEF Init, Broadcasted, Notifying
<1>2. IInv /\ Broadcasted /\ [Next]_vars => (IInv /\ Broadcasted)'
  BY NextIInv, BroadcastedStep
<1>3. QED
  BY <1>1, <1>2, PTL DEF Spec

\* Only a turn of the loop decides about a user.
LEMMA DecidesInLoop ==
  ASSUME TypeOK, [Next]_vars, NEW c \in Conns, NEW u \in Users, Decides(c, u)
  PROVE  NotifyMember(c, u)
<1> USE DEF Decides, dbVars, handlerVars, viewVars, Become
<1>1. ASSUME NEW d \in Conns, NEW v \in Users, NotifyMember(d, v)
      PROVE  d = c /\ v = u
  BY <1>1 DEF NotifyMember, TypeOK
<1>2. ASSUME NEW d \in Conns, StartNotify(d)
      PROVE  FALSE
  BY <1>2 DEF StartNotify, TypeOK
<1>3. ASSUME NEW d \in Conns,
             Leave(d) \/ HandlerDies(d) \/ NotifyFails(d) \/ AutomateFails(d)
      PROVE  FALSE
  BY <1>3 DEF Leave, HandlerDies, NotifyFails, AutomateFails, Forget, TypeOK
<1>4. ASSUME NEW p \in Procs, RestartProcess(p)
      PROVE  FALSE
  BY <1>4 DEF RestartProcess, Forget, TypeOK
<1>5. todo' # todo
  OBVIOUS
<1>6. ASSUME NEW d \in Conns,
             \/ Authorize(d) \/ GroupAdd(d) \/ Accept(d) \/ SendHistory(d) \/ ChatEvent(d)
             \/ \E r \in 0..Len(msgs) : CreateMessage(d, r)
             \/ Broadcast(d) \/ EndNotify(d) \/ BroadcastReply(d) \/ EndSend(d)
             \/ \E n \in 0..AutoReplies : Automate(d, n)
             \/ GroupDiscard(d)
      PROVE  FALSE
  BY <1>5, <1>6
  DEF Authorize, GroupAdd, Accept, SendHistory, ChatEvent, CreateMessage, Broadcast, EndNotify,
      BroadcastReply, EndSend, Automate, GroupDiscard
<1>7. ASSUME NEW v \in Users, AddMember(v) \/ RemoveMember(v)
      PROVE  FALSE
  BY <1>5, <1>7 DEF AddMember, RemoveMember
<1>8. CASE UNCHANGED vars
  BY <1>5, <1>8 DEF vars
<1>9. QED
  BY <1>1, <1>2, <1>3, <1>4, <1>6, <1>7, <1>8 DEF Next, HandlerStep, ClientStep, Fault

\* A user is connected, as the table says, just when a session of the user is counted.
LEMMA ConnectedIsCounted ==
  ASSUME IInv, NEW p \in Procs, NEW u \in Users
  PROVE  IsUserConnected(p, u) <=> Counted(p, u) # {}
<1>1. presence[p][u] = Cardinality(Counted(p, u))
  BY DEF IInv, PresenceMatchesSessions
<1>2. Cardinality(Counted(p, u)) \in Nat /\ (Cardinality(Counted(p, u)) = 0 <=> Counted(p, u) = {})
  BY CountedFinite, FS_CardinalityType, FS_EmptySet
<1>3. QED
  BY <1>1, <1>2 DEF IsUserConnected

\* Whoever the loop leaves out has a session that is about to get the message, has it, or
\* is over or on its way out: presence is counted before the history is read, the loop
\* follows the broadcast, and no message is missed in between.
THEOREM LeftOutIsCovered == Spec => SuppressedIsCovered
<1>1. ASSUME IInv, Broadcasted, [Next]_vars, NEW c \in Conns, NEW u \in Users,
             Decides(c, u), notified'[cur[c]][u] = 0
      PROVE  \E d \in Conns :
               /\ Owner[d] = u /\ Proc[d] = Proc[c]
               /\ \/ pc[d] \in {"accepted", "leaving", "dead"}
                  \/ pc[d] \in Serving /\ Covered(d, cur[c])
  <2> USE <1>1 DEF IInv
  <2>1. NotifyMember(c, u) /\ pc[c] = "notifying"
    BY DecidesInLoop DEF Decides
  <2>2. cur[c] \in sent /\ cur[c] \in MsgIds /\ Proc[c] \in Procs
    BY <2>1, ChatRoomAssumption DEF Broadcasted, Notifying, TypeOK
  <2>3. IsUserConnected(Proc[c], u)
    <3>1. SUFFICES ASSUME ~IsUserConnected(Proc[c], u) PROVE FALSE
      OBVIOUS
    <3>2. CASE notified[cur[c]][u] = 0
      <4>1. Notify(cur[c], u)
        BY <2>1, <3>1, <3>2 DEF NotifyMember
      <4>2. notified'[cur[c]][u] = 1
        BY <2>2, <3>2, <4>1 DEF Notify, TypeOK
      <4>3. QED
        BY <4>2
    <3>3. CASE notified[cur[c]][u] # 0
      BY <2>1, <3>1, <3>3 DEF NotifyMember
    <3>4. QED
      BY <3>2, <3>3
  <2>4. PICK d \in Counted(Proc[c], u) : TRUE
    BY <2>2, <2>3, ConnectedIsCounted
  <2>5. /\ d \in Conns /\ Owner[d] = u /\ Proc[d] = Proc[c]
        /\ pc[d] \in {"accepted", "leaving", "dead"} \cup Serving
    BY <2>4 DEF Counted, TypeOK, Stages, Serving
  <2>6. pc[d] \in Serving => Covered(d, cur[c])
    BY <2>2, <2>5 DEF NoMissedMessage
  <2>7. QED
    BY <2>5, <2>6
<1>2. IInv /\ Broadcasted /\ [Next]_vars =>
        [\A c \in Conns, u \in Users :
           (Decides(c, u) /\ notified'[cur[c]][u] = 0) =>
             \E d \in Conns :
               /\ Owner[d] = u /\ Proc[d] = Proc[c]
               /\ \/ pc[d] \in {"accepted", "leaving", "dead"}
                  \/ pc[d] \in Serving /\ Covered(d, cur[c])]_vars
  BY <1>1
<1>3. QED
  BY <1>2, LoopInductive, PTL DEF Spec, SuppressedIsCovered

\* The loop notifies nobody who has a session in the room on the loop's own process, for
\* any number of processes; with the one that docker-compose runs, nobody connected.
THEOREM PresentIsNotNotified == Spec => ConnectedNotNotified
<1>1. ASSUME IInv, [Next]_vars, NEW c \in Conns, NEW u \in Users,
             Decides(c, u), ConnectedOn(Proc[c], u)
      PROVE  notified'[cur[c]][u] = notified[cur[c]][u]
  <2> USE <1>1 DEF IInv
  <2>1. NotifyMember(c, u)
    BY DecidesInLoop
  <2>2. PICK d \in Conns : Owner[d] = u /\ Proc[d] = Proc[c] /\ pc[d] \in Serving \cup {"accepted"}
    BY DEF ConnectedOn
  <2>3. Proc[c] \in Procs /\ d \in Counted(Proc[c], u)
    BY <2>2, ChatRoomAssumption DEF Counted, Serving
  <2>4. IsUserConnected(Proc[c], u)
    BY <2>3, ConnectedIsCounted
  <2>5. notified' = notified
    BY <2>1, <2>4 DEF NotifyMember
  <2>6. QED
    BY <2>5
<1>2. IInv /\ [Next]_vars =>
        [\A c \in Conns, u \in Users :
           (Decides(c, u) /\ ConnectedOn(Proc[c], u)) =>
             notified'[cur[c]][u] = notified[cur[c]][u]]_vars
  BY <1>1
<1>3. QED
  BY <1>2, Inductive, PTL DEF Spec, ConnectedNotNotified

\* A dead session is the only thing that keeps an absent user from being notified: the
\* count never outlives the sessions it counts.
THEOREM OnlyLeaksHide == Spec => AbsentUnlessLeaked
<1>1. ASSUME IInv, [Next]_vars, NEW c \in Conns, NEW u \in Users,
             Decides(c, u), Counted(Proc[c], u) = {}
      PROVE  notified'[cur[c]][u] > 0
  <2> USE <1>1 DEF IInv
  <2>1. NotifyMember(c, u) /\ pc[c] = "notifying"
    BY DecidesInLoop DEF Decides
  <2>2. Proc[c] \in Procs /\ cur[c] \in MsgIds
    <3>1. cur[c] \in DOMAIN msgs
      BY <2>1 DEF Shape, JobOK, Handling
    <3>2. QED
      BY <3>1, ReplyTarget, ChatRoomAssumption DEF Shape
  <2>3. ~IsUserConnected(Proc[c], u)
    BY <2>2, ConnectedIsCounted
  <2>4. notified[cur[c]][u] \in Nat
    BY <2>2 DEF TypeOK
  <2>5. CASE notified[cur[c]][u] = 0
    <3>1. Notify(cur[c], u)
      BY <2>1, <2>3, <2>5 DEF NotifyMember
    <3>2. notified'[cur[c]][u] = 1
      BY <2>2, <2>5, <3>1 DEF Notify, TypeOK
    <3>3. QED
      BY <3>2
  <2>6. CASE notified[cur[c]][u] # 0
    <3>1. notified' = notified
      BY <2>1, <2>6 DEF NotifyMember
    <3>2. QED
      BY <2>4, <2>6, <3>1
  <2>7. QED
    BY <2>5, <2>6
<1>2. IInv /\ [Next]_vars =>
        [\A c \in Conns, u \in Users :
           (Decides(c, u) /\ Counted(Proc[c], u) = {}) => notified'[cur[c]][u] > 0]_vars
  BY <1>1
<1>3. QED
  BY <1>2, Inductive, PTL DEF Spec, AbsentUnlessLeaked

(***************************************************************************)
(* No stored message is lost but by a fault                                *)
(***************************************************************************)

\* A session holds messages only while its handler is about to broadcast them.
HandsFull == \A c \in Conns : outbox[c] # <<>> => pc[c] \in {"created", "replying"}

\* What LostOnlyByFault asks of a step.
Holds ==
  \A m \in DOMAIN msgs' \ sent' :
    \/ InHand(m)'
    \/ m \in DOMAIN msgs /\ (InHand(m) => Fails(msgs[m].by))

LEMMA ByConn ==
  ASSUME TypeOK, NEW m \in DOMAIN msgs
  PROVE  msgs[m].by \in Conns
<1>1. msgs[m] \in Message
  BY ElementOfSeq DEF TypeOK
<1>2. QED
  BY <1>1 DEF Message

\* A step that takes messages from no hands but those of failing sessions.
LEMMA DropHolds ==
  ASSUME TypeOK, msgs' = msgs,
         \A c \in Conns : outbox'[c] = outbox[c] \/ outbox[c] = <<>> \/ Fails(c)
  PROVE  Holds
<1> SUFFICES ASSUME NEW m \in DOMAIN msgs, InHand(m), ~Fails(msgs[m].by)
             PROVE  InHand(m)'
  BY DEF Holds
<1>1. outbox[msgs[m].by] # <<>>
  BY DEF InHand, Elems
<1>2. outbox'[msgs[m].by] = outbox[msgs[m].by]
  BY <1>1, ByConn
<1>3. QED
  BY <1>2 DEF InHand, Elems

\* The first message of a session's outbox is broadcast.
LEMMA SendHolds ==
  ASSUME TypeOK, msgs' = msgs, NEW c \in Conns, outbox[c] # <<>>,
         sent' = sent \cup {Head(outbox[c])},
         outbox' = [outbox EXCEPT ![c] = Tail(outbox[c])]
  PROVE  Holds
<1> SUFFICES ASSUME NEW m \in DOMAIN msgs \ sent', InHand(m)
             PROVE  InHand(m)'
  BY DEF Holds
<1>1. CASE msgs[m].by = c
  <2>1. outbox[c] \in Seq(MsgIds)
    BY DEF TypeOK
  <2>2. Elems(outbox[c]) = {Head(outbox[c])} \cup Elems(Tail(outbox[c]))
    BY <2>1, HeadTailElems
  <2>3. m \in Elems(Tail(outbox[c]))
    BY <1>1, <2>2 DEF InHand
  <2>4. outbox'[msgs'[m].by] = Tail(outbox[c])
    BY <1>1 DEF TypeOK
  <2>5. QED
    BY <2>3, <2>4 DEF InHand, Elems
<1>2. CASE msgs[m].by # c
  <2>1. outbox'[msgs'[m].by] = outbox[msgs[m].by]
    BY <1>2, ByConn DEF TypeOK
  <2>2. QED
    BY <2>1 DEF InHand, Elems
<1>3. QED
  BY <1>1, <1>2

\* Session c, which has nothing else to broadcast, stores n messages.
LEMMA StoreHolds ==
  ASSUME TypeOK, NEW c \in Conns, NEW n \in Nat, outbox[c] = <<>>,
         Len(msgs) \in Nat, DOMAIN msgs = 1..Len(msgs), DOMAIN msgs' = 1..(Len(msgs) + n),
         \A m \in DOMAIN msgs : msgs'[m] = msgs[m],
         \A i \in 1..n : msgs'[Len(msgs) + i].by = c,
         outbox' = [outbox EXCEPT ![c] = [i \in 1..n |-> Len(msgs) + i]]
  PROVE  Holds
<1>1. ASSUME NEW m \in DOMAIN msgs, InHand(m) PROVE InHand(m)'
  <2>1. msgs[m].by \in Conns \ {c}
    BY <1>1, ByConn DEF InHand, Elems
  <2>2. outbox'[msgs'[m].by] = outbox[msgs[m].by]
    BY <2>1 DEF TypeOK
  <2>3. QED
    BY <1>1, <2>2 DEF InHand, Elems
<1>2. ASSUME NEW m \in DOMAIN msgs' \ DOMAIN msgs PROVE InHand(m)'
  <2>1. PICK i \in 1..n : m = Len(msgs) + i
    <3>1. m - Len(msgs) \in 1..n /\ m = Len(msgs) + (m - Len(msgs))
      OBVIOUS
    <3>2. QED
      BY <3>1
  <2>2. msgs'[m].by = c
    BY <2>1
  <2>3. outbox'[c] = [j \in 1..n |-> Len(msgs) + j]
    BY DEF TypeOK
  <2>4. i \in DOMAIN outbox'[c] /\ outbox'[c][i] = m
    BY <2>1, <2>3
  <2>5. QED
    BY <2>2, <2>4 DEF InHand, Elems
<1>3. QED
  BY <1>1, <1>2 DEF Holds

LEMMA HandsStep ==
  ASSUME IInv, HandsFull, [Next]_vars
  PROVE  HandsFull' /\ Holds
<1> USE DEF IInv, dbVars, handlerVars, viewVars, Become
<1> DEFINE Goal == HandsFull' /\ Holds
<1>1. ASSUME UNCHANGED <<msgs, outbox>>,
             \A c \in Conns : pc'[c] = pc[c] \/ pc[c] \notin {"created", "replying"} \/ outbox[c] = <<>>
      PROVE  Goal
  BY <1>1, DropHolds DEF HandsFull
<1>2. ASSUME NEW c \in Conns, NEW r \in 0..Len(msgs), CreateMessage(c, r) PROVE Goal
  <2>1. outbox[c] = <<>> /\ outbox' = [outbox EXCEPT ![c] = <<Len(msgs) + 1>>]
    BY <1>2 DEF CreateMessage, HandsFull
  <2>2. /\ Len(msgs) \in Nat /\ DOMAIN msgs = 1..Len(msgs) /\ DOMAIN msgs' = 1..(Len(msgs) + 1)
        /\ \A m \in DOMAIN msgs : msgs'[m] = msgs[m]
        /\ \A i \in 1..1 : msgs'[Len(msgs) + i].by = c
    BY <1>2, CreateGrows DEF TypeOK
  <2>3. <<Len(msgs) + 1>> = [i \in 1..1 |-> Len(msgs) + i] /\ 1 \in Nat
    BY <2>2
  <2>4. outbox' = [outbox EXCEPT ![c] = [i \in 1..1 |-> Len(msgs) + i]]
    BY <2>1, <2>3
  <2>5. Holds
    BY ONLY TypeOK, <2>1, <2>2, <2>3, <2>4, StoreHolds
  <2>6. HandsFull'
    BY <1>2, <2>1 DEF CreateMessage, HandsFull, TypeOK
  <2>7. QED
    BY <2>5, <2>6
<1>3. ASSUME NEW c \in Conns, NEW n \in 0..AutoReplies, Automate(c, n) PROVE Goal
  <2>1. outbox[c] = <<>> /\ outbox' = [outbox EXCEPT ![c] = [i \in 1..n |-> Len(msgs) + i]]
    BY <1>3 DEF Automate, HandsFull
  <2>2. /\ n \in Nat /\ Len(msgs) \in Nat
        /\ DOMAIN msgs = 1..Len(msgs) /\ DOMAIN msgs' = 1..(Len(msgs) + n)
        /\ \A m \in DOMAIN msgs : msgs'[m] = msgs[m]
        /\ \A i \in 1..n : msgs'[Len(msgs) + i].by = c
    BY <1>3, AutomateGrows
  <2>3. Holds
    BY ONLY TypeOK, <2>1, <2>2, StoreHolds
  <2>4. HandsFull'
    BY <1>3, <2>1 DEF Automate, HandsFull, TypeOK
  <2>5. QED
    BY <2>3, <2>4
<1>4. ASSUME NEW c \in Conns, Broadcast(c) PROVE Goal
  <2>1. outbox[c] = <<cur[c]>>
    BY <1>4 DEF Broadcast, Shape, JobOK
  <2>2. outbox[c] # <<>> /\ Tail(outbox[c]) = <<>>
    BY <2>1
  <2>3. msgs' = msgs /\ sent' = sent \cup {Head(outbox[c])} /\ outbox' = [outbox EXCEPT ![c] = <<>>]
    BY <1>4 DEF Broadcast, GroupSend
  <2>4. Holds
    BY <2>2, <2>3, SendHolds
  <2>5. HandsFull'
    BY <1>4, <2>3 DEF Broadcast, HandsFull, TypeOK
  <2>6. QED
    BY <2>4, <2>5
<1>5. ASSUME NEW c \in Conns, BroadcastReply(c) PROVE Goal
  <2>1. /\ outbox[c] # <<>> /\ msgs' = msgs /\ sent' = sent \cup {Head(outbox[c])}
        /\ outbox' = [outbox EXCEPT ![c] = Tail(outbox[c])]
    BY <1>5 DEF BroadcastReply, GroupSend
  <2>2. Holds
    BY <2>1, SendHolds
  <2>3. HandsFull'
    BY <1>5, <2>1 DEF BroadcastReply, HandsFull, TypeOK
  <2>4. QED
    BY <2>2, <2>3
<1>6. ASSUME NEW c \in Conns, AutomateFails(c) PROVE Goal
  <2>1. msgs' = msgs /\ \A d \in Conns \ {c} : outbox'[d] = outbox[d] /\ pc'[d] = pc[d]
    BY <1>6 DEF AutomateFails, TypeOK
  <2>2. outbox'[c] = <<>> /\ Fails(c)
    BY <1>6 DEF AutomateFails, Fails, TypeOK
  <2>3. Holds
    BY <2>1, <2>2, DropHolds
  <2>4. QED
    BY <2>1, <2>2, <2>3 DEF HandsFull
<1>7. ASSUME NEW c \in Conns, Leave(c) \/ HandlerDies(c) PROVE Goal
  <2>1. msgs' = msgs /\ \A d \in Conns \ {c} : outbox'[d] = outbox[d] /\ pc'[d] = pc[d]
    BY <1>7 DEF Leave, HandlerDies, Forget, TypeOK
  <2>2. outbox'[c] = <<>> /\ (outbox[c] = <<>> \/ Fails(c))
    BY <1>7 DEF Leave, HandlerDies, Forget, Fails, HandsFull
  <2>3. Holds
    BY <2>1, <2>2, DropHolds
  <2>4. QED
    BY <2>1, <2>2, <2>3 DEF HandsFull
<1>8. ASSUME NEW p \in Procs, RestartProcess(p) PROVE Goal
  <2>1. \A d \in Conns :
          \/ Proc[d] = p /\ outbox'[d] = <<>> /\ Fails(d)
          \/ outbox'[d] = outbox[d] /\ pc'[d] = pc[d]
    BY <1>8 DEF RestartProcess, Forget, Fails
  <2>2. msgs' = msgs
    BY <1>8 DEF RestartProcess
  <2>3. Holds
    BY <2>1, <2>2, DropHolds
  <2>4. QED
    BY <2>1, <2>3 DEF HandsFull
<1>9. ASSUME NEW c \in Conns,
             \/ GroupAdd(c) \/ Accept(c) \/ SendHistory(c) \/ StartNotify(c) \/ EndNotify(c)
             \/ EndSend(c) \/ (\E u \in Users : NotifyMember(c, u)) \/ Authorize(c)
             \/ GroupDiscard(c) \/ ChatEvent(c) \/ NotifyFails(c)
      PROVE  Goal
  <2>1. UNCHANGED <<msgs, outbox>>
    BY <1>9 DEF GroupAdd, Accept, SendHistory, StartNotify, EndNotify, EndSend, NotifyMember,
                Authorize, GroupDiscard, ChatEvent, NotifyFails
  <2>2. \A d \in Conns \ {c} : pc'[d] = pc[d]
    BY <1>9 DEF GroupAdd, Accept, SendHistory, StartNotify, EndNotify, EndSend, NotifyMember,
                Authorize, GroupDiscard, ChatEvent, NotifyFails, TypeOK
  <2>3. pc[c] \notin {"created", "replying"} \/ outbox[c] = <<>>
    BY <1>9 DEF GroupAdd, Accept, SendHistory, StartNotify, EndNotify, EndSend, NotifyMember,
                Authorize, GroupDiscard, ChatEvent, NotifyFails
  <2>4. QED
    BY <1>1, <2>1, <2>2, <2>3
<1>10. ASSUME NEW u \in Users, AddMember(u) \/ RemoveMember(u) PROVE Goal
  <2>1. UNCHANGED <<msgs, outbox, pc>>
    BY <1>10 DEF AddMember, RemoveMember
  <2>2. QED
    BY <1>1, <2>1
<1>11. ASSUME UNCHANGED vars PROVE Goal
  BY <1>1, <1>11 DEF vars
<1> HIDE DEF Goal
<1>12. ASSUME NEW c \in Conns, HandlerStep(c) \/ ChatEvent(c) \/ ClientStep(c) PROVE Goal
  BY <1>2, <1>3, <1>4, <1>5, <1>7, <1>9, <1>12 DEF HandlerStep, ClientStep
<1>13. ASSUME Fault PROVE Goal
  <2>1. ASSUME NEW c \in Conns, HandlerDies(c) \/ NotifyFails(c) \/ AutomateFails(c) PROVE Goal
    BY <1>6, <1>7, <1>9, <2>1
  <2>2. QED
    BY <1>8, <1>13, <2>1 DEF Fault
<1>14. Goal
  BY <1>10, <1>11, <1>12, <1>13 DEF Next
<1>15. QED
  BY <1>14 DEF Goal

\* The safety core of StoredIsBroadcast: a stored message stays in its handler's hands until
\* it is broadcast, and the handler that loses it is the one that failed.
THEOREM OnlyFaultsLose == Spec => LostOnlyByFault
<1>1. Init => HandsFull
  BY DEF Init, HandsFull
<1>2. IInv /\ HandsFull /\ [Next]_vars => (IInv /\ HandsFull)'
  BY NextIInv, HandsStep
<1>3. IInv /\ HandsFull /\ [Next]_vars =>
        [\A m \in DOMAIN msgs' \ sent' :
           \/ InHand(m)'
           \/ m \in DOMAIN msgs /\ (InHand(m) => Fails(msgs[m].by))]_vars
  BY HandsStep DEF Holds
<1>4. QED
  BY <1>1, <1>2, <1>3, InitIInv, PTL DEF Spec, LostOnlyByFault

(***************************************************************************)
(* The room keeps the promise of RoomBus                                   *)
(***************************************************************************)
BusProofs == INSTANCE RoomBusProofs WITH
               Sessions  <- Conns,
               Messages  <- MsgIds,
               published <- sent,
               stream    <- [c \in Conns |-> Stream(c)]

\* What a session has still to broadcast is its own, in the order of storing, and newer
\* than all it has broadcast.
Sending ==
  \A c \in Conns : \A i \in DOMAIN outbox[c] :
    /\ msgs[outbox[c][i]].by = c
    /\ \A m \in sent : msgs[m].by = c => m < outbox[c][i]
    /\ \A j \in DOMAIN outbox[c] : i < j => outbox[c][i] < outbox[c][j]

\* Message m is newer than all that its session has broadcast.
Newest(m) == m \in DOMAIN msgs /\ \A x \in sent : msgs[x].by = msgs[m].by => x < m

LEMMA DropSending ==
  ASSUME Sending, UNCHANGED <<msgs, sent>>,
         \A c \in Conns : outbox'[c] \in {outbox[c], <<>>}
  PROVE  Sending'
<1>1. \A c \in Conns : DOMAIN outbox'[c] # {} => outbox'[c] = outbox[c]
  OBVIOUS
<1>2. QED
  BY <1>1 DEF Sending

\* The first message of the outbox is broadcast.
LEMMA SendSending ==
  ASSUME TypeOK, Shape, Sending, NEW c \in Conns, outbox[c] # <<>>,
         msgs' = msgs, sent' = sent \cup {Head(outbox[c])},
         outbox' \in {[outbox EXCEPT ![c] = Tail(outbox[c])]}
  PROVE  Sending' /\ Head(outbox[c]) \in MsgIds \ sent /\ Newest(Head(outbox[c]))
<1>1. /\ outbox[c] \in Seq(MsgIds) /\ DOMAIN outbox[c] = 1..Len(outbox[c]) /\ Len(outbox[c]) \in Nat \ {0}
      /\ Head(outbox[c]) = outbox[c][1] /\ 1 \in DOMAIN outbox[c] /\ outbox[c][1] \in MsgIds
      /\ DOMAIN Tail(outbox[c]) = 1..(Len(outbox[c]) - 1)
      /\ \A i \in 1..(Len(outbox[c]) - 1) : Tail(outbox[c])[i] = outbox[c][i + 1]
  BY HeadTailProperties, LenProperties, EmptySeq DEF TypeOK
<1>2. outbox[c][1] \notin sent
  <2>1. SUFFICES ASSUME outbox[c][1] \in sent PROVE FALSE
    OBVIOUS
  <2>2. outbox[c][1] < outbox[c][1]
    BY <1>1, <2>1 DEF Sending
  <2>3. QED
    BY <1>1, <2>2, ChatRoomAssumption DEF MsgIds
<1>3. ASSUME NEW d \in Conns \ {c}, NEW i \in DOMAIN outbox'[d]
      PROVE  /\ msgs'[outbox'[d][i]].by = d
             /\ \A m \in sent' : msgs'[m].by = d => m < outbox'[d][i]
             /\ \A j \in DOMAIN outbox'[d] : i < j => outbox'[d][i] < outbox'[d][j]
  <2>1. outbox'[d] = outbox[d] /\ msgs[outbox[c][1]].by = c
    BY <1>1 DEF TypeOK, Sending
  <2>2. QED
    BY <1>1, <1>3, <2>1 DEF Sending
<1>4. ASSUME NEW i \in DOMAIN outbox'[c]
      PROVE  /\ msgs'[outbox'[c][i]].by = c
             /\ \A m \in sent' : msgs'[m].by = c => m < outbox'[c][i]
             /\ \A j \in DOMAIN outbox'[c] : i < j => outbox'[c][i] < outbox'[c][j]
  <2>1. outbox'[c] = Tail(outbox[c])
    BY DEF TypeOK
  <2>2. \A j \in DOMAIN outbox'[c] : j \in Nat /\ j + 1 \in DOMAIN outbox[c] /\ outbox'[c][j] = outbox[c][j + 1]
    BY <1>1, <2>1
  <2>3. msgs[outbox[c][i + 1]].by = c /\ \A m \in sent : msgs[m].by = c => m < outbox[c][i + 1]
    BY <2>2 DEF Sending
  <2>4. 1 < i + 1 /\ outbox[c][1] < outbox[c][i + 1]
    <3>1. 1 < i + 1
      BY <1>1, <2>1
    <3>2. QED
      BY <1>1, <2>2, <3>1 DEF Sending
  <2>5. \A j \in DOMAIN outbox'[c] : i < j => outbox[c][i + 1] < outbox[c][j + 1]
    <3>1. \A j \in DOMAIN outbox'[c] : i < j => i + 1 < j + 1
      BY <2>2
    <3>2. QED
      BY <2>2, <3>1 DEF Sending
  <2>6. QED
    BY <1>1, <2>2, <2>3, <2>4, <2>5
<1>5. Newest(outbox[c][1])
  <2>1. outbox[c][1] \in DOMAIN msgs
    BY <1>1 DEF Shape, JobOK
  <2>2. QED
    BY <1>1, <2>1 DEF Sending, Newest
<1>6. QED
  BY <1>1, <1>2, <1>3, <1>4, <1>5 DEF Sending

\* New messages of session c are stored.
LEMMA StoreSending ==
  ASSUME TypeOK, Shape, Sending, NEW c \in Conns, NEW n \in Nat, sent' = sent,
         \A m \in DOMAIN msgs : msgs'[m] = msgs[m],
         \A i \in 1..n : msgs'[Len(msgs) + i].by = c,
         outbox' = [outbox EXCEPT ![c] = [i \in 1..n |-> Len(msgs) + i]]
  PROVE  Sending'
<1>1. Len(msgs) \in Nat /\ DOMAIN msgs = 1..Len(msgs) /\ sent \subseteq DOMAIN msgs
  BY DEF TypeOK, Shape
<1>2. ASSUME NEW d \in Conns \ {c}, NEW i \in DOMAIN outbox'[d]
      PROVE  /\ msgs'[outbox'[d][i]].by = d
             /\ \A m \in sent' : msgs'[m].by = d => m < outbox'[d][i]
             /\ \A j \in DOMAIN outbox'[d] : i < j => outbox'[d][i] < outbox'[d][j]
  <2>1. outbox'[d] = outbox[d]
    BY DEF TypeOK
  <2>2. \A j \in DOMAIN outbox[d] : outbox[d][j] \in DOMAIN msgs
    BY DEF Shape, JobOK
  <2>3. QED
    BY <1>1, <1>2, <2>1, <2>2 DEF Sending
<1>3. ASSUME NEW i \in DOMAIN outbox'[c]
      PROVE  /\ msgs'[outbox'[c][i]].by = c
             /\ \A m \in sent' : msgs'[m].by = c => m < outbox'[c][i]
             /\ \A j \in DOMAIN outbox'[c] : i < j => outbox'[c][i] < outbox'[c][j]
  <2>1. outbox'[c] = [j \in 1..n |-> Len(msgs) + j]
    BY DEF TypeOK
  <2>2. DOMAIN outbox'[c] = 1..n /\ \A j \in 1..n : outbox'[c][j] = Len(msgs) + j
    BY <2>1
  <2>3. \A m \in sent' : m \in Nat /\ m <= Len(msgs)
    BY <1>1
  <2>4. i \in 1..n /\ msgs'[outbox'[c][i]].by = c
    BY <2>2
  <2>5. outbox'[c][i] = Len(msgs) + i
    BY <2>2, <2>4
  <2>6. \A m \in sent' : m < outbox'[c][i]
    BY <1>1, <2>3, <2>4, <2>5
  <2>7. \A j \in DOMAIN outbox'[c] : i < j => outbox'[c][i] < outbox'[c][j]
    BY <1>1, <2>2, <2>4, <2>5
  <2>8. QED
    BY ONLY <2>4, <2>6, <2>7
<1>4. ASSUME NEW d \in Conns, NEW i \in DOMAIN outbox'[d]
      PROVE  /\ msgs'[outbox'[d][i]].by = d
             /\ \A m \in sent' : msgs'[m].by = d => m < outbox'[d][i]
             /\ \A j \in DOMAIN outbox'[d] : i < j => outbox'[d][i] < outbox'[d][j]
  <2>1. CASE d = c
    BY ONLY <1>3, <1>4, <2>1
  <2>2. CASE d # c
    BY ONLY <1>2, <1>4, <2>2
  <2>3. QED
    BY <2>1, <2>2
<1>5. QED
  BY ONLY <1>4 DEF Sending

\* What a step does to the streams: nothing, an event goes on to its client, sessions
\* end, or one new message is published.
Move ==
  \/ UNCHANGED <<sent, live, mailbox>>
  \/ \E c \in Conns : ChatEvent(c)
  \/ \E S \in SUBSET Conns : Forget(S) /\ sent' = sent
  \/ \E m \in MsgIds \ sent : GroupSend(m) /\ live' = live /\ Newest(m)

LEMMA SendingStep ==
  ASSUME TypeOK, Shape, Sending, [Next]_vars
  PROVE  Sending' /\ Move
<1> USE DEF dbVars, handlerVars, viewVars, Become
<1> DEFINE Goal == Sending' /\ Move
<1>1. CASE UNCHANGED <<msgs, outbox, sent, live, mailbox>>
  BY <1>1, DropSending DEF Move
<1>2. ASSUME NEW S \in SUBSET Conns, Forget(S), UNCHANGED <<msgs, sent>> PROVE Goal
  <2>1. \A c \in Conns : outbox'[c] \in {outbox[c], <<>>}
    BY <1>2 DEF Forget
  <2>2. QED
    BY <1>2, <2>1, DropSending DEF Move
<1>3. ASSUME NEW c \in Conns, NEW r \in 0..Len(msgs), CreateMessage(c, r) PROVE Goal
  <2>1. Len(msgs) \in Nat /\ msgs'[Len(msgs) + 1].by = c /\ \A m \in DOMAIN msgs : msgs'[m] = msgs[m]
    BY <1>3, CreateGrows DEF TypeOK
  <2>2. UNCHANGED <<sent, live, mailbox>> /\ outbox' = [outbox EXCEPT ![c] = <<Len(msgs) + 1>>]
    BY <1>3 DEF CreateMessage
  <2>3. <<Len(msgs) + 1>> = [i \in 1..1 |-> Len(msgs) + i] /\ 1 \in Nat
    BY <2>1
  <2>4. outbox' = [outbox EXCEPT ![c] = [i \in 1..1 |-> Len(msgs) + i]]
    BY <2>2, <2>3
  <2>5. \A i \in 1..1 : msgs'[Len(msgs) + i].by = c
    BY <2>1
  <2>6. Sending'
    BY ONLY TypeOK, Shape, Sending, <2>1, <2>2, <2>3, <2>4, <2>5, StoreSending
  <2>7. QED
    BY <2>2, <2>6 DEF Move
<1>4. ASSUME NEW c \in Conns, NEW n \in 0..AutoReplies, Automate(c, n) PROVE Goal
  <2>1. /\ n \in Nat /\ Len(msgs) \in Nat /\ \A m \in DOMAIN msgs : msgs'[m] = msgs[m]
        /\ \A i \in 1..n : msgs'[Len(msgs) + i].by = c
    BY <1>4, AutomateGrows
  <2>2. UNCHANGED <<sent, live, mailbox>> /\ outbox' = [outbox EXCEPT ![c] = [i \in 1..n |-> Len(msgs) + i]]
    BY <1>4 DEF Automate
  <2>3. QED
    BY <2>1, <2>2, StoreSending DEF Move
<1>5. ASSUME NEW c \in Conns, Broadcast(c) PROVE Goal
  <2>1. outbox[c] = <<cur[c]>> /\ cur[c] \in MsgIds
    <3>1. pc[c] = "created" /\ cur[c] \in DOMAIN msgs
      BY <1>5 DEF Broadcast, Shape, JobOK, Handling
    <3>2. QED
      BY <3>1, ReplyTarget DEF Shape, JobOK
  <2>2. outbox[c] # <<>> /\ Tail(outbox[c]) = <<>>
    BY <2>1
  <2>3. msgs' = msgs /\ live' = live /\ GroupSend(Head(outbox[c])) /\ outbox' = [outbox EXCEPT ![c] = <<>>]
    BY <1>5 DEF Broadcast
  <2>4. sent' = sent \cup {Head(outbox[c])}
    BY <2>3 DEF GroupSend
  <2>5. QED
    BY <2>2, <2>3, <2>4, SendSending DEF Move
<1>6. ASSUME NEW c \in Conns, BroadcastReply(c) PROVE Goal
  <2>1. /\ outbox[c] # <<>> /\ msgs' = msgs /\ live' = live /\ GroupSend(Head(outbox[c]))
        /\ outbox' = [outbox EXCEPT ![c] = Tail(outbox[c])]
    BY <1>6 DEF BroadcastReply
  <2>2. sent' = sent \cup {Head(outbox[c])}
    BY <2>1 DEF GroupSend
  <2>3. QED
    BY <2>1, <2>2, SendSending DEF Move
<1>7. ASSUME NEW c \in Conns, AutomateFails(c) PROVE Goal
  <2>1. UNCHANGED <<msgs, sent, live, mailbox>> /\ outbox' = [outbox EXCEPT ![c] = <<>>]
    BY <1>7 DEF AutomateFails
  <2>2. \A d \in Conns : outbox'[d] \in {outbox[d], <<>>}
    BY <2>1 DEF TypeOK
  <2>3. QED
    BY <2>1, <2>2, DropSending DEF Move
<1>8. ASSUME NEW c \in Conns, Leave(c) \/ HandlerDies(c) PROVE Goal
  <2>1. Forget({c}) /\ UNCHANGED <<msgs, sent>>
    BY <1>8 DEF Leave, HandlerDies
  <2>2. QED
    BY <2>1, <1>2
<1>9. ASSUME NEW p \in Procs, RestartProcess(p) PROVE Goal
  <2>1. Forget({c \in Conns : Proc[c] = p}) /\ UNCHANGED <<msgs, sent>>
    BY <1>9 DEF RestartProcess
  <2>2. QED
    BY <2>1, <1>2
<1>10. ASSUME NEW c \in Conns, HandlerStep(c) PROVE Goal
  <2>1. ASSUME GroupAdd(c) \/ Accept(c) \/ SendHistory(c) \/ StartNotify(c) \/ EndNotify(c) \/ EndSend(c)
        PROVE  Goal
    <3>1. UNCHANGED <<msgs, outbox, sent, live, mailbox>>
      BY <2>1 DEF GroupAdd, Accept, SendHistory, StartNotify, EndNotify, EndSend
    <3>2. QED
      BY <1>1, <3>1
  <2>2. ASSUME NEW u \in Users, NotifyMember(c, u) PROVE Goal
    <3>1. UNCHANGED <<msgs, outbox, sent, live, mailbox>>
      BY <2>2 DEF NotifyMember
    <3>2. QED
      BY <1>1, <3>1
  <2> HIDE DEF Goal
  <2>3. QED
    BY <1>4, <1>5, <1>6, <1>8, <1>10, <2>1, <2>2 DEF HandlerStep
<1>14. ASSUME NEW c \in Conns, ClientStep(c) \/ ChatEvent(c) \/ NotifyFails(c) PROVE Goal
  <2>1. ASSUME Authorize(c) \/ GroupDiscard(c) \/ NotifyFails(c) PROVE Goal
    <3>1. UNCHANGED <<msgs, outbox, sent, live, mailbox>>
      BY <2>1 DEF Authorize, GroupDiscard, NotifyFails
    <3>2. QED
      BY <1>1, <3>1
  <2>2. ASSUME ChatEvent(c) PROVE Goal
    <3>1. UNCHANGED <<msgs, outbox, sent>>
      BY <2>2 DEF ChatEvent
    <3>2. QED
      BY <2>2, <3>1, DropSending DEF Move
  <2> HIDE DEF Goal
  <2>3. QED
    BY <1>3, <1>14, <2>1, <2>2 DEF ClientStep
<1>11. ASSUME NEW u \in Users, AddMember(u) \/ RemoveMember(u) PROVE Goal
  <2>1. UNCHANGED <<msgs, outbox, sent, live, mailbox>>
    BY <1>11 DEF AddMember, RemoveMember
  <2>2. QED
    BY <1>1, <2>1
<1>12. ASSUME UNCHANGED vars PROVE Goal
  BY <1>1, <1>12 DEF vars
<1>15. Goal
  <2> HIDE DEF Goal
  <2>1. ASSUME NEW c \in Conns, HandlerStep(c) \/ ChatEvent(c) \/ ClientStep(c) PROVE Goal
    BY <1>10, <1>14, <2>1
  <2>2. ASSUME Fault PROVE Goal
    BY <1>7, <1>8, <1>9, <1>14, <2>2 DEF Fault
  <2>3. QED
    BY <1>11, <1>12, <2>1, <2>2 DEF Next
<1>16. QED
  BY <1>15

(***************************************************************************)
(* Streams                                                                 *)
(***************************************************************************)
LEMMA ConcatAppend ==
  ASSUME NEW S, NEW p \in Seq(S), NEW q \in Seq(S), NEW m \in S
  PROVE  p \o Append(q, m) = Append(p \o q, m)
  OBVIOUS

\* The oldest event of a mailbox gives way to a new one.
LEMMA ConcatReplace ==
  ASSUME NEW S, NEW p \in Seq(S), NEW q \in Seq(S), q # <<>>, NEW m \in S
  PROVE  /\ Len(p) + 1 \in DOMAIN (p \o q)
         /\ p \o Append(Tail(q), m) = Append(Bus!Without(p \o q, Len(p) + 1), m)
<1> DEFINE r == p \o q
           t == p \o Tail(q)
<1>1. /\ Len(p) \in Nat /\ Len(q) \in Nat \ {0} /\ Tail(q) \in Seq(S) /\ Len(Tail(q)) = Len(q) - 1
      /\ \A i \in 1..(Len(q) - 1) : Tail(q)[i] = q[i + 1]
  BY HeadTailProperties, LenProperties, EmptySeq
<1>2. /\ r \in Seq(S) /\ Len(r) = Len(p) + Len(q) /\ DOMAIN r = 1..Len(r)
      /\ \A i \in 1..Len(r) : r[i] = IF i <= Len(p) THEN p[i] ELSE q[i - Len(p)]
  BY ConcatProperties, LenProperties
<1>3. /\ t \in Seq(S) /\ Len(t) = Len(p) + Len(q) - 1 /\ DOMAIN t = 1..Len(t)
      /\ \A i \in 1..Len(t) : t[i] = IF i <= Len(p) THEN p[i] ELSE Tail(q)[i - Len(p)]
  <2>1. /\ t \in Seq(S) /\ Len(t) = Len(p) + Len(Tail(q))
        /\ \A i \in 1..(Len(p) + Len(Tail(q))) : t[i] = IF i <= Len(p) THEN p[i] ELSE Tail(q)[i - Len(p)]
    BY ONLY <1>1, p \in Seq(S), ConcatProperties
  <2>2. DOMAIN t = 1..Len(t)
    BY ONLY <2>1, LenProperties
  <2>3. QED
    BY ONLY <1>1, <2>1, <2>2
<1> HIDE DEF r, t
<1>4. t = Bus!Without(r, Len(p) + 1)
  <2>1. DOMAIN t = 1..(Len(r) - 1)
    BY <1>1, <1>2, <1>3
  <2>2. ASSUME NEW i \in 1..(Len(r) - 1)
        PROVE  t[i] = IF i < Len(p) + 1 THEN r[i] ELSE r[i + 1]
    <3>1. /\ i \in Nat /\ i \in 1..Len(t) /\ i \in 1..Len(r) /\ i + 1 \in 1..Len(r)
          /\ Len(p) \in Nat /\ Len(q) \in Nat
      BY <1>1, <1>2, <1>3
    <3>2. CASE i <= Len(p)
      BY <1>2, <1>3, <3>1, <3>2
    <3>3. CASE ~(i <= Len(p))
      <4>1. i - Len(p) \in 1..(Len(q) - 1) /\ i + 1 - Len(p) = (i - Len(p)) + 1
        BY <1>1, <1>2, <3>1, <3>3
      <4>2. t[i] = q[(i - Len(p)) + 1]
        BY <1>1, <1>3, <3>1, <3>3, <4>1
      <4>3. r[i + 1] = q[i + 1 - Len(p)]
        BY <1>2, <3>1, <3>3
      <4>4. QED
        BY <3>1, <3>3, <4>1, <4>2, <4>3
    <3>4. QED
      BY <3>2, <3>3
  <2>3. t = [i \in 1..(Len(r) - 1) |-> t[i]]
    <3>1. t \in [1..Len(t) -> S]
      BY <1>3
    <3>2. QED
      BY <2>1, <3>1, <1>3
  <2>4. QED
    BY <2>2, <2>3 DEF Bus!Without
<1>5. p \o Append(Tail(q), m) = Append(t, m)
  BY <1>1, ConcatAppend DEF t
<1>6. QED
  BY <1>1, <1>2, <1>4, <1>5 DEF r

\* The head of a mailbox moves to the end of what the client got.
LEMMA MoveHead ==
  ASSUME NEW S, NEW p \in Seq(S), NEW q \in Seq(S), q # <<>>
  PROVE  Append(p, Head(q)) \o Tail(q) = p \o q
<1>1. q = <<Head(q)>> \o Tail(q) /\ Head(q) \in S /\ Tail(q) \in Seq(S)
  BY HeadTailProperties, ConcatProperties
<1>2. QED
  BY <1>1

\* What group_send() does to a session's stream.
LEMMA EnqueueReceives ==
  ASSUME NEW p \in Seq(MsgIds), NEW q \in Seq(MsgIds), NEW m \in MsgIds, NEW k \in BOOLEAN
  PROVE  p \o Enqueue(q, m, k) \in Bus!Receives(p \o q, m)
<1>1. CASE Len(q) < Capacity
  BY <1>1, ConcatAppend DEF Enqueue, Bus!Receives
<1>2. CASE ~(Len(q) < Capacity) /\ k
  BY <1>2 DEF Enqueue, Bus!Receives
<1>3. CASE ~(Len(q) < Capacity) /\ ~k
  <2>1. q # <<>>
    BY <1>3, ChatRoomAssumption
  <2>2. /\ Len(p) + 1 \in DOMAIN (p \o q)
        /\ p \o Append(Tail(q), m) = Append(Bus!Without(p \o q, Len(p) + 1), m)
    BY <2>1, ConcatReplace
  <2>3. p \o Append(Tail(q), m) \in Bus!Receives(p \o q, m)
    BY ONLY <2>2, Zenon DEF Bus!Receives
  <2>4. QED
    BY <1>3, <2>3 DEF Enqueue
<1>4. QED
  BY <1>1, <1>2, <1>3

LEMMA BusStep ==
  ASSUME TypeOK, Shape, Sending, [Next]_vars
  PROVE  [Bus!Next]_(Bus!vars)
<1> DEFINE stream == [c \in Conns |-> Stream(c)]
<1>1. \A c \in Conns : live[c] \in Seq(MsgIds) /\ mailbox[c] \in Seq(MsgIds)
  BY DEF TypeOK
<1>2. CASE UNCHANGED <<sent, live, mailbox>>
  BY <1>2 DEF Bus!vars, Stream
<1>3. ASSUME NEW c \in Conns, ChatEvent(c) PROVE UNCHANGED Bus!vars
  <2>1. /\ live' = [live EXCEPT ![c] = Append(live[c], Head(mailbox[c]))]
        /\ mailbox' = [mailbox EXCEPT ![c] = Tail(mailbox[c])]
        /\ mailbox[c] # <<>> /\ sent' = sent
    BY <1>3 DEF ChatEvent
  <2>2. ASSUME NEW d \in Conns PROVE Stream(d)' = Stream(d)
    <3>1. CASE d = c
      <4>1. live'[c] = Append(live[c], Head(mailbox[c])) /\ mailbox'[c] = Tail(mailbox[c])
        BY <2>1 DEF TypeOK
      <4>2. Append(live[c], Head(mailbox[c])) \o Tail(mailbox[c]) = live[c] \o mailbox[c]
        BY <1>1, <2>1, MoveHead
      <4>3. QED
        BY <3>1, <4>1, <4>2 DEF Stream
    <3>2. CASE d # c
      BY <2>1, <3>2 DEF TypeOK, Stream
    <3>3. QED
      BY <3>1, <3>2
  <2>3. QED
    BY <2>1, <2>2 DEF Bus!vars
<1>4. ASSUME NEW S \in SUBSET Conns, Forget(S), sent' = sent PROVE Bus!Close(S)
  <2>1. \A c \in Conns : Stream(c)' = IF c \in S THEN <<>> ELSE Stream(c)
    <3>1. <<>> \o <<>> = <<>>
      OBVIOUS
    <3>2. QED
      BY <1>4, <3>1 DEF Forget, Stream
  <2>2. QED
    BY <1>4, <2>1 DEF Bus!Close
<1>5. ASSUME NEW m \in MsgIds \ sent, GroupSend(m), live' = live PROVE Bus!Publish(m)
  <2>1. PICK k \in BOOLEAN :
          mailbox' = [c \in Conns |-> IF c \in group /\ pc[c] # "dead"
                                      THEN Enqueue(mailbox[c], m, k) ELSE mailbox[c]]
    BY <1>5 DEF GroupSend
  <2>2. ASSUME NEW c \in Conns
        PROVE  Stream(c)' \in Bus!Receives(Stream(c), m) /\ Stream(c)' \in Seq(MsgIds)
    <3>1. live[c] \o Enqueue(mailbox[c], m, k) \in Bus!Receives(live[c] \o mailbox[c], m)
      BY <1>1, EnqueueReceives
    <3>2. live[c] \o mailbox[c] \in Bus!Receives(live[c] \o mailbox[c], m)
      BY DEF Bus!Receives
    <3>3. Enqueue(mailbox[c], m, k) \in Seq(MsgIds)
      BY <1>1, EnqueueType
    <3>4. mailbox'[c] \in {Enqueue(mailbox[c], m, k), mailbox[c]}
      BY <2>1
    <3>5. live[c] \o mailbox'[c] \in Seq(MsgIds)
      BY <1>1, <3>3, <3>4, ConcatProperties
    <3>6. live[c] \o mailbox'[c] \in Bus!Receives(live[c] \o mailbox[c], m)
      BY <3>1, <3>2, <3>4
    <3>7. QED
      BY <1>5, <3>5, <3>6 DEF Stream
  <2>3. sent' = sent \cup {m} /\ m \notin sent
    BY <1>5 DEF GroupSend
  <2> DEFINE next == [c \in Conns |-> Stream(c)']
  <2>4. next \in [Conns -> Seq(MsgIds)] /\ \A c \in Conns : next[c] \in Bus!Receives(stream[c], m)
    BY <2>2
  <2>5. QED
    BY <2>3, <2>4 DEF Bus!Publish
<1>6. Move
  BY SendingStep
<1>7. QED
  BY <1>2, <1>3, <1>4, <1>5, <1>6 DEF Move, Bus!Next

(***************************************************************************)
(* The order of what one session sends                                     *)
(***************************************************************************)
OnlySent == \A c \in Conns : \A i \in DOMAIN Stream(c) : Stream(c)[i] \in sent

BusIInv == IInv /\ Sending /\ OnlySent /\ SenderOrder

LEMMA OrderStep ==
  ASSUME BusIInv, [Next]_vars
  PROVE  OnlySent' /\ SenderOrder'
<1> USE DEF BusIInv, IInv
<1>1. /\ \A x \in sent : msgs'[x].by = msgs[x].by
      /\ \A x \in DOMAIN msgs : msgs'[x] = msgs[x]
  BY RowsStep DEF Shape
<1>2. \A c \in Conns : Stream(c) \in Seq(MsgIds)
  BY ConcatProperties DEF TypeOK, Stream
<1>3. ASSUME sent' = sent,
             \A c \in Conns : Stream(c)' \in {Stream(c), <<>>}
      PROVE  OnlySent' /\ SenderOrder'
  <2>1. \A c \in Conns : DOMAIN Stream(c)' # {} => Stream(c)' = Stream(c)
    BY <1>3
  <2>2. OnlySent'
    BY <1>3, <2>1 DEF OnlySent
  <2>3. SenderOrder'
    BY <1>1, <2>1 DEF SenderOrder, OnlySent
  <2>4. QED
    BY <2>2, <2>3
<1>4. ASSUME NEW m \in MsgIds \ sent, sent' = sent \cup {m}, Newest(m),
             \A c \in Conns : Stream(c)' \in Bus!Receives(Stream(c), m)
      PROVE  OnlySent' /\ SenderOrder'
  <2>1. ASSUME NEW c \in Conns
        PROVE  BusProofs!Extends(Stream(c)', Stream(c), m)
    <3>1. Stream(c)' \in BusProofs!Receives(Stream(c), m)
      BY <1>4 DEF Bus!Receives, Bus!Without, BusProofs!Receives, BusProofs!Without
    <3>2. QED
      BY <1>2, <3>1, BusProofs!ReceivesExtends
  <2>2. ASSUME NEW c \in Conns, NEW i \in DOMAIN Stream(c)', NEW j \in DOMAIN Stream(c)'
        PROVE  /\ Stream(c)'[i] \in sent'
               /\ (i < j /\ msgs'[Stream(c)'[i]].by = msgs'[Stream(c)'[j]].by) => Stream(c)'[i] < Stream(c)'[j]
    <3>1. PICK n, f : BusProofs!Picks(Stream(c)', Stream(c), m, n, f)
      BY <2>1 DEF BusProofs!Extends
    <3>2. /\ i \in 1..n \/ (i = n + 1 /\ Stream(c)'[i] = m)
          /\ j \in 1..n \/ (j = n + 1 /\ Stream(c)'[j] = m)
      BY <3>1 DEF BusProofs!Picks
    <3>3. /\ n \in Nat
          /\ \A h \in 1..n : Stream(c)'[h] = Stream(c)[f[h]] /\ f[h] \in DOMAIN Stream(c) /\ Stream(c)[f[h]] \in sent
          /\ \A g, h \in 1..n : g < h => f[g] < f[h]
      BY <3>1 DEF BusProofs!Picks, OnlySent
    <3>4. Stream(c)'[i] \in sent'
      BY <1>4, <3>2, <3>3
    <3>5. ASSUME i < j, msgs'[Stream(c)'[i]].by = msgs'[Stream(c)'[j]].by
          PROVE  Stream(c)'[i] < Stream(c)'[j]
      <4>1. i \in 1..n
        BY <3>2, <3>3, <3>5
      <4>2. CASE j \in 1..n
        <5>1. f[i] < f[j] /\ msgs[Stream(c)[f[i]]].by = msgs[Stream(c)[f[j]]].by
          BY <1>1, <3>3, <3>5, <4>1, <4>2
        <5>2. QED
          BY <3>3, <4>1, <4>2, <5>1 DEF SenderOrder
      <4>3. CASE j = n + 1 /\ Stream(c)'[j] = m
        <5>1. msgs[Stream(c)[f[i]]].by = msgs[m].by
          BY <1>1, <1>4, <3>3, <3>5, <4>1, <4>3 DEF Newest
        <5>2. QED
          BY <1>4, <3>3, <4>1, <4>3, <5>1 DEF Newest
      <4>4. QED
        BY <3>2, <4>2, <4>3
    <3>6. QED
      BY <3>4, <3>5
  <2>3. QED
    BY <2>2 DEF OnlySent, SenderOrder
<1>5. [Bus!Next]_(Bus!vars) /\ Move
  BY BusStep, SendingStep
<1>6. \A c \in Conns : [d \in Conns |-> Stream(d)][c] = Stream(c) /\ [d \in Conns |-> Stream(d)'][c] = Stream(c)'
  OBVIOUS
<1>7. CASE UNCHANGED Bus!vars
  <2>1. sent' = sent /\ [d \in Conns |-> Stream(d)'] = [d \in Conns |-> Stream(d)]
    BY <1>7 DEF Bus!vars
  <2>2. QED
    BY <1>3, <1>6, <2>1
<1>8. ASSUME NEW S \in SUBSET Conns, Bus!Close(S) PROVE OnlySent' /\ SenderOrder'
  <2>1. /\ sent' = sent
        /\ [d \in Conns |-> Stream(d)'] = [d \in Conns |-> IF d \in S THEN <<>> ELSE [e \in Conns |-> Stream(e)][d]]
    BY <1>8 DEF Bus!Close
  <2>2. QED
    BY <1>3, <1>6, <2>1
<1>9. ASSUME NEW x \in MsgIds, Bus!Publish(x) PROVE OnlySent' /\ SenderOrder'
  <2>1. /\ x \notin sent /\ sent' = sent \cup {x}
        /\ \A c \in Conns : Stream(c)' \in Bus!Receives(Stream(c), x)
    BY <1>6, <1>9 DEF Bus!Publish
  <2>2. Newest(x)
    <3>1. PICK m \in MsgIds \ sent : GroupSend(m) /\ Newest(m)
      BY <1>5, <2>1 DEF Move, ChatEvent
    <3>2. sent' = sent \cup {m}
      BY <3>1 DEF GroupSend
    <3>3. m = x
      BY <2>1, <3>2
    <3>4. QED
      BY <3>1, <3>3
  <2>3. QED
    BY <1>4, <2>1, <2>2
<1>10. QED
  BY <1>5, <1>7, <1>8, <1>9 DEF Bus!Next

LEMMA BusInductive == Spec => []BusIInv
<1>1. Init => Sending /\ OnlySent /\ SenderOrder
  <2> SUFFICES ASSUME Init PROVE Sending /\ OnlySent /\ SenderOrder
    OBVIOUS
  <2>1. \A c \in Conns : DOMAIN Stream(c) = {} /\ DOMAIN outbox[c] = {}
    <3>1. <<>> \o <<>> = <<>> /\ DOMAIN <<>> = {}
      OBVIOUS
    <3>2. QED
      BY <3>1 DEF Init, Stream
  <2>2. QED
    BY <2>1 DEF Sending, OnlySent, SenderOrder
<1>2. Init => BusIInv
  BY <1>1, InitIInv DEF BusIInv
<1>3. BusIInv /\ [Next]_vars => BusIInv'
  <2> SUFFICES ASSUME BusIInv, [Next]_vars PROVE BusIInv'
    OBVIOUS
  <2>1. IInv' /\ OnlySent' /\ SenderOrder'
    BY NextIInv, OrderStep DEF BusIInv
  <2>2. Sending'
    BY SendingStep DEF BusIInv, IInv
  <2>3. QED
    BY <2>1, <2>2 DEF BusIInv
<1>4. QED
  BY <1>2, <1>3, PTL DEF Spec

\* The room implements the abstract bus: each step of its handlers, its queues and its
\* faults publishes one new message to all sessions, ends sessions, or changes no stream.
THEOREM ChatRoomIsABus == Spec => ImplementsBus
<1>1. Init => Bus!Init
  <2> SUFFICES ASSUME Init PROVE Bus!Init
    OBVIOUS
  <2>1. \A c \in Conns : Stream(c) = <<>>
    BY DEF Init, Stream
  <2>2. sent \subseteq MsgIds
    BY InitIInv DEF IInv, TypeOK
  <2>3. QED
    BY <2>1, <2>2 DEF Bus!Init
<1>2. BusIInv /\ [Next]_vars => [Bus!Next]_(Bus!vars)
  BY BusStep DEF BusIInv, IInv
<1>3. QED
  BY <1>1, <1>2, BusInductive, PTL DEF Spec, ImplementsBus, Bus!Spec

\* What one session sends, and the auto-replies to it, reaches every client in the order
\* it was stored, for any number of sessions and any faults.
THEOREM OwnOrder == Spec => []SenderOrder
<1>1. BusIInv => SenderOrder
  BY DEF BusIInv
<1>2. QED
  BY <1>1, BusInductive, PTL

\* No client gets a message twice, and any two clients get what they both get in the
\* same order: what RoomBus promises, for the streams of the room.
THEOREM OneOrder == Spec => [](Bus!NoDuplicate /\ Bus!SameOrder)
<1>1. Bus!Spec => BusProofs!Spec
  <2>1. Bus!Init => BusProofs!Init
    BY DEF Bus!Init, BusProofs!Init
  <2>2. [Bus!Next]_(Bus!vars) => [BusProofs!Next]_(BusProofs!vars)
    BY DEF Bus!Next, Bus!vars, Bus!Publish, Bus!Close, Bus!Receives, Bus!Without,
           BusProofs!Next, BusProofs!vars, BusProofs!Publish, BusProofs!Close,
           BusProofs!Receives, BusProofs!Without
  <2>3. QED
    BY <2>1, <2>2, PTL DEF Bus!Spec, BusProofs!Spec
<1>2. BusProofs!NoDuplicate /\ BusProofs!SameOrder => Bus!NoDuplicate /\ Bus!SameOrder
  BY DEF Bus!NoDuplicate, Bus!SameOrder, BusProofs!NoDuplicate, BusProofs!SameOrder
<1>3. QED
  BY <1>1, <1>2, ChatRoomIsABus, BusProofs!OneOrder, PTL DEF ImplementsBus
=============================================================================
