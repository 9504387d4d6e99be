---------------------------- MODULE ReactionsProofs ----------------------------
(***************************************************************************)
(* Theorems about Reactions for every set of sessions, users, processes    *)
(* and emojis and any number of frames.                                    *)
(***************************************************************************)
EXTENDS Reactions, TLAPS

\* Stages after the history frame in which the session is alive.
Reading == {"open", "notify"} \cup AtWork

Counted == {"counted", "removedCounted"}

\* No list is newer than the rows.
Bounded ==
  /\ last <= top /\ top <= version /\ lost <= version
  /\ \A c \in Conns :
       /\ list[c] <= version /\ shown[c] <= version /\ newest[c] <= version
       /\ \A i \in DOMAIN mailbox[c] : mailbox[c][i] <= version
       /\ pc[c] = "notify" => list[c] <= top

\* Somebody will broadcast the current list, has done so, or has failed to.
Witness(c) ==
  \/ pc[c] = "removed"
  \/ pc[c] = "added" /\ rows # {}
  \/ pc[c] \in Counted /\ list[c] = version

Announcing == version \in {top, lost} \/ \E c \in Conns : Witness(c)

\* A session of the room has got the newest list that was broadcast or will get it ...
Receiving ==
  \A c \in Conns : pc[c] \in Reading =>
    newest[c] >= top \/ \E i \in DOMAIN mailbox[c] : mailbox[c][i] >= top

\* ... and the last one it gets is the one broadcast last.
EndsWithLast ==
  \A c \in Conns :
    /\ pc[c] \in Reading \cup {"grouped", "accepted"} => c \in group
    /\ c \in group /\ pc[c] # "dead" /\ mailbox[c] # <<>> => mailbox[c][Len(mailbox[c])] = last
    /\ pc[c] \in Reading /\ mailbox[c] = <<>> => shown[c] >= last
    /\ pc[c] \in {"idle", "leaving"} => c \notin group /\ mailbox[c] = <<>>

IInv ==
  /\ TypeOK
  /\ Bounded
  /\ Announcing
  /\ Receiving
  /\ EndsWithLast

LEMMA AppendElement ==
  ASSUME NEW S, NEW s \in Seq(S), NEW v \in S, NEW i \in DOMAIN Append(s, v)
  PROVE  \/ i \in DOMAIN s /\ Append(s, v)[i] = s[i]
         \/ i = Len(s) + 1 /\ Append(s, v)[i] = v
<1>1. Len(s) \in Nat /\ DOMAIN s = 1..Len(s) /\ DOMAIN Append(s, v) = 1..Len(s) + 1
  OBVIOUS
<1>2. CASE i = Len(s) + 1
  BY <1>2
<1>3. CASE i # Len(s) + 1
  <2>1. i \in 1..Len(s)
    BY <1>1, <1>3
  <2>2. \A j \in 1..Len(s) : Append(s, v)[j] = s[j]
    OBVIOUS
  <2>3. QED
    BY <2>1, <2>2, <1>1
<1>4. QED
  BY <1>2, <1>3

LEMMA TailFacts ==
  ASSUME NEW S, NEW s \in Seq(S), s # <<>>
  PROVE  /\ Head(s) = s[1]
         /\ Len(s) = 1 => Tail(s) = <<>>
         /\ Len(s) # 1 => Tail(s) # <<>> /\ Tail(s)[Len(Tail(s))] = s[Len(s)]
<1>1. /\ Len(s) \in Nat /\ Len(s) # 0 /\ Tail(s) \in Seq(S) /\ Len(Tail(s)) = Len(s) - 1
      /\ \A i \in 1..Len(s) - 1 : Tail(s)[i] = s[i + 1]
  OBVIOUS
<1>2. Head(s) = s[1]
  OBVIOUS
<1>3. CASE Len(s) = 1
  <2>1. Tail(s) = <<>>
    <3>1. Tail(s) \in Seq(S) /\ Len(Tail(s)) = 0
      BY ONLY <1>1, <1>3
    <3>2. \A t \in Seq(S) : Len(t) = 0 => t = <<>>
      OBVIOUS
    <3>3. QED
      BY ONLY <3>1, <3>2
  <2>2. QED
    BY <1>2, <1>3, <2>1
<1>4. CASE Len(s) # 1
  <2>1. Len(s) - 1 \in 1..Len(s) - 1 /\ (Len(s) - 1) + 1 = Len(s)
    BY <1>1, <1>4
  <2>2. Tail(s)[Len(s) - 1] = s[Len(s)]
    BY <1>1, <2>1
  <2>3. Tail(s) # <<>>
    BY <1>1, <1>4
  <2>4. QED
    BY <1>1, <1>2, <1>4, <2>2, <2>3
<1>5. QED
  BY <1>3, <1>4

LEMMA AppendKeeps ==
  ASSUME NEW S, NEW s \in Seq(S), NEW v \in S
  PROVE  /\ \A i \in DOMAIN s : i \in DOMAIN Append(s, v) /\ Append(s, v)[i] = s[i]
         /\ Append(s, v) # <<>>
         /\ Len(Append(s, v)) \in DOMAIN Append(s, v)
         /\ Append(s, v)[Len(Append(s, v))] = v
OBVIOUS

LEMMA InitIInv == Init => IInv
<1> SUFFICES ASSUME Init PROVE IInv
  OBVIOUS
<1> USE ReactionAssumption DEF Init, Versions, Stages, AtWork, InDatabase, Reading
<1>1. TypeOK
  BY DEF TypeOK
<1>2. Bounded /\ Announcing
  BY DEF Bounded, Announcing
<1>3. Receiving /\ EndsWithLast
  BY DEF Receiving, EndsWithLast
<1>4. QED
  BY <1>1, <1>2, <1>3 DEF IInv

LEMMA TypeStep ==
  ASSUME TypeOK, [Next]_vars
  PROVE  TypeOK'
<1> USE ReactionAssumption
        DEF TypeOK, Versions, Stages, AtWork, InDatabase, table, views, announced, Become
<1>1. ASSUME NEW c \in Conns, GroupAdd(c) \/ Accept(c) \/ Leave(c) \/ GroupDiscard(c)
      PROVE  TypeOK'
  <2>1. CASE GroupAdd(c)
    BY <2>1 DEF GroupAdd
  <2>2. CASE Accept(c) \/ Leave(c)
    BY <2>2 DEF Accept, Leave
  <2>3. CASE GroupDiscard(c)
    BY <2>3 DEF GroupDiscard
  <2>4. QED
    BY <1>1, <2>1, <2>2, <2>3
<1>2. ASSUME NEW c \in Conns, SendHistory(c) PROVE TypeOK'
  BY <1>2 DEF SendHistory, Receive, Larger
<1>3. ASSUME NEW c \in Conns, ReadEvent(c) PROVE TypeOK'
  <2>1. Head(mailbox[c]) \in Versions /\ Tail(mailbox[c]) \in Seq(Versions)
    BY <1>3 DEF ReadEvent
  <2>2. QED
    BY <1>3, <2>1 DEF ReadEvent, Receive, Larger
<1>4. ASSUME NEW c \in Conns, NEW e \in Emojis, AddReaction(c, e) \/ RemoveReaction(c, e)
      PROVE  TypeOK'
  <2>1. rows' \subseteq Users \X Emojis
    BY <1>4 DEF AddReaction, RemoveReaction
  <2>2. frames' \in Versions /\ version' \in 0..frames'
    BY <1>4 DEF AddReaction, RemoveReaction, Served
  <2>3. pc' \in [Conns -> Stages]
    BY <1>4 DEF AddReaction, RemoveReaction
  <2>4. UNCHANGED <<list, group, views, announced, told>>
    BY <1>4 DEF AddReaction, RemoveReaction
  <2>5. QED
    BY <2>1, <2>2, <2>3, <2>4
<1>5. ASSUME NEW c \in Conns, CountAdded(c) \/ CountRemoved(c) PROVE TypeOK'
  <2>1. pc' \in [Conns -> Stages]
    BY <1>5 DEF CountAdded, CountRemoved
  <2>2. version \in Versions
    OBVIOUS
  <2>3. list' \in [Conns -> Versions]
    BY <1>5, <2>2 DEF CountAdded, CountRemoved
  <2>4. UNCHANGED <<table, group, views, announced, told>>
    BY <1>5 DEF CountAdded, CountRemoved
  <2>5. QED
    BY <2>1, <2>3, <2>4
<1>6. ASSUME NEW c \in Conns, BroadcastAdded(c) \/ BroadcastRemoved(c) PROVE TypeOK'
  <2>1. mailbox' \in [Conns -> Seq(Versions)]
    <3>1. \A d \in Conns : Append(mailbox[d], list[c]) \in Seq(Versions)
      OBVIOUS
    <3>2. mailbox' = [d \in Conns |->
            IF d \in group /\ pc[d] # "dead" THEN Append(mailbox[d], list[c]) ELSE mailbox[d]]
      BY <1>6 DEF BroadcastAdded, BroadcastRemoved, GroupSend
    <3>3. \A d \in Conns : mailbox'[d] \in Seq(Versions)
      BY <3>1, <3>2
    <3>4. QED
      BY <3>2, <3>3
  <2>2. last' \in Versions /\ top' \in Versions /\ lost' = lost
    BY <1>6 DEF BroadcastAdded, BroadcastRemoved, GroupSend, Larger
  <2>3. pc' \in [Conns -> Stages]
    BY <1>6 DEF BroadcastAdded, BroadcastRemoved
  <2>4. UNCHANGED <<table, list, group, shown, newest, told>>
    BY <1>6 DEF BroadcastAdded, BroadcastRemoved
  <2>5. QED
    BY <2>1, <2>2, <2>3, <2>4
<1>7. ASSUME NEW c \in Conns, NotifyAuthor(c) \/ NotifyFails(c) PROVE TypeOK'
  <2>1. told' \in Nat
    BY <1>7 DEF NotifyAuthor, NotifyFails
  <2>2. pc' \in [Conns -> Stages] /\ UNCHANGED <<table, list, group, views, announced>>
    BY <1>7 DEF NotifyAuthor, NotifyFails
  <2>3. QED
    BY <2>1, <2>2
<1>8. ASSUME NEW c \in Conns, HandlerDies(c) PROVE TypeOK'
  BY <1>8 DEF HandlerDies, Unsent, Larger
<1>9. ASSUME NEW p \in Procs, Restart(p) PROVE TypeOK'
  <2>1. pc' \in [Conns -> Stages] /\ group' \subseteq Conns
    BY <1>9 DEF Restart
  <2>2. mailbox' \in [Conns -> Seq(Versions)]
    <3>1. <<>> \in Seq(Versions)
      OBVIOUS
    <3>2. \A c \in Conns : mailbox'[c] \in {<<>>, mailbox[c]}
      BY <1>9 DEF Restart
    <3>3. mailbox' = [c \in Conns |-> mailbox'[c]]
      BY <1>9 DEF Restart
    <3>4. QED
      BY <3>1, <3>2, <3>3
  <2>3. shown' \in [Conns -> Versions] /\ newest' \in [Conns -> Versions]
    BY <1>9 DEF Restart
  <2>4. lost' \in Versions /\ UNCHANGED <<table, list, last, top, told>>
    BY <1>9 DEF Restart
  <2>5. QED
    BY <2>1, <2>2, <2>3, <2>4
<1>10. CASE UNCHANGED vars
  BY <1>10 DEF vars
<1>11. QED
  BY <1>1, <1>2, <1>3, <1>4, <1>5, <1>6, <1>7, <1>8, <1>9, <1>10 DEF Next, HandlerStep

LEMMA BoundedStep ==
  ASSUME TypeOK, Bounded, [Next]_vars
  PROVE  Bounded'
<1> USE ReactionAssumption
        DEF TypeOK, Bounded, Versions, Stages, AtWork, InDatabase, table, views, announced, Become
<1>1. ASSUME NEW c \in Conns, GroupAdd(c) \/ Accept(c) \/ Leave(c) \/ GroupDiscard(c)
      PROVE  Bounded'
  <2>1. CASE GroupAdd(c) \/ Accept(c) \/ Leave(c)
    BY <2>1 DEF GroupAdd, Accept, Leave
  <2>2. CASE GroupDiscard(c)
    BY <2>2 DEF GroupDiscard
  <2>3. QED
    BY <1>1, <2>1, <2>2
<1>2. ASSUME NEW c \in Conns, SendHistory(c) PROVE Bounded'
  BY <1>2 DEF SendHistory, Receive, Larger
<1>3. ASSUME NEW c \in Conns, ReadEvent(c) PROVE Bounded'
  <2>1. /\ Head(mailbox[c]) = mailbox[c][1] /\ 1 \in DOMAIN mailbox[c]
        /\ \A i \in DOMAIN Tail(mailbox[c]) :
             i + 1 \in DOMAIN mailbox[c] /\ Tail(mailbox[c])[i] = mailbox[c][i + 1]
    BY <1>3 DEF ReadEvent
  <2>2. QED
    BY <1>3, <2>1 DEF ReadEvent, Receive, Larger
<1>4. ASSUME NEW c \in Conns, NEW e \in Emojis, AddReaction(c, e) \/ RemoveReaction(c, e)
      PROVE  Bounded'
  <2>1. version' >= version
    BY <1>4 DEF AddReaction, RemoveReaction
  <2>2. UNCHANGED <<list, views, announced>> /\ \A d \in Conns : pc'[d] = "notify" => pc[d] = "notify"
    BY <1>4 DEF AddReaction, RemoveReaction
  <2>3. version' \in Nat
    BY <1>4 DEF AddReaction, RemoveReaction
  <2>4. QED
    BY <2>1, <2>2, <2>3
<1>5. ASSUME NEW c \in Conns, CountAdded(c) \/ CountRemoved(c) PROVE Bounded'
  <2>1. \A d \in Conns : list'[d] \in {list[d], version}
    BY <1>5 DEF CountAdded, CountRemoved
  <2>2. \A d \in Conns : pc'[d] = "notify" => pc[d] = "notify" /\ list'[d] = list[d]
    BY <1>5 DEF CountAdded, CountRemoved
  <2>3. UNCHANGED <<table, group, views, announced>>
    BY <1>5 DEF CountAdded, CountRemoved
  <2>4. QED
    BY <2>1, <2>2, <2>3
<1>6. ASSUME NEW c \in Conns, BroadcastAdded(c) \/ BroadcastRemoved(c) PROVE Bounded'
  <2>1. last' = list[c] /\ top' = Larger(top, list[c])
    BY <1>6 DEF BroadcastAdded, BroadcastRemoved, GroupSend
  <2>2. UNCHANGED <<table, list, group, shown, newest, lost>>
    BY <1>6 DEF BroadcastAdded, BroadcastRemoved, GroupSend
  <2>3. \A d \in Conns : mailbox'[d] \in {mailbox[d], Append(mailbox[d], list[c])}
    BY <1>6 DEF BroadcastAdded, BroadcastRemoved, GroupSend
  <2>4. ASSUME NEW d \in Conns, NEW i \in DOMAIN mailbox'[d] PROVE mailbox'[d][i] <= version
    <3>1. CASE mailbox'[d] = mailbox[d]
      BY <3>1
    <3>2. CASE mailbox'[d] = Append(mailbox[d], list[c])
      <4>1. list[c] \in Versions
        OBVIOUS
      <4>2. QED
        BY <3>2, <4>1, AppendElement
    <3>3. QED
      BY <2>3, <3>1, <3>2
  <2>5. \A d \in Conns : d # c /\ pc'[d] = "notify" => pc[d] = "notify"
    BY <1>6 DEF BroadcastAdded, BroadcastRemoved
  <2>6. QED
    BY <2>1, <2>2, <2>4, <2>5 DEF Larger
<1>7. ASSUME NEW c \in Conns, NotifyAuthor(c) \/ NotifyFails(c) PROVE Bounded'
  BY <1>7 DEF NotifyAuthor, NotifyFails
<1>8. ASSUME NEW c \in Conns, HandlerDies(c) PROVE Bounded'
  BY <1>8 DEF HandlerDies, Unsent, Larger
<1>9. ASSUME NEW p \in Procs, Restart(p) PROVE Bounded'
  BY <1>9 DEF Restart
<1>10. CASE UNCHANGED vars
  BY <1>10 DEF vars
<1>11. QED
  BY <1>1, <1>2, <1>3, <1>4, <1>5, <1>6, <1>7, <1>8, <1>9, <1>10 DEF Next, HandlerStep

LEMMA AnnouncingStep ==
  ASSUME TypeOK, Bounded, Announcing, [Next]_vars
  PROVE  Announcing'
<1> USE ReactionAssumption
        DEF TypeOK, Announcing, Witness, Counted, table, views, announced, Become
<1>1. ASSUME NEW c \in Conns,
             GroupAdd(c) \/ Accept(c) \/ Leave(c) \/ GroupDiscard(c) \/ SendHistory(c)
               \/ ReadEvent(c) \/ NotifyAuthor(c) \/ NotifyFails(c)
      PROVE  Announcing'
  <2>1. UNCHANGED <<rows, version, top, lost, list>>
    BY <1>1 DEF GroupAdd, Accept, Leave, GroupDiscard, SendHistory, ReadEvent, NotifyAuthor, NotifyFails
  <2>2. \A d \in Conns : pc[d] \in {"added", "removed", "counted", "removedCounted"} => pc'[d] = pc[d]
    BY <1>1 DEF GroupAdd, Accept, Leave, GroupDiscard, SendHistory, ReadEvent, NotifyAuthor, NotifyFails
  <2>3. QED
    BY <2>1, <2>2
<1>2. ASSUME NEW c \in Conns, NEW e \in Emojis, AddReaction(c, e) PROVE Announcing'
  <2>1. CASE rows' = rows
    <3>1. UNCHANGED <<rows, version, top, lost, list>> /\ \A d \in Conns : d # c => pc'[d] = pc[d]
      BY <1>2, <2>1 DEF AddReaction
    <3>2. ~Witness(c)
      BY <1>2 DEF AddReaction
    <3>3. QED
      BY <3>1, <3>2
  <2>2. CASE rows' # rows
    BY <1>2, <2>2 DEF AddReaction
  <2>3. QED
    BY <2>1, <2>2
<1>3. ASSUME NEW c \in Conns, NEW e \in Emojis, RemoveReaction(c, e) PROVE Announcing'
  BY <1>3 DEF RemoveReaction
<1>4. ASSUME NEW c \in Conns, CountAdded(c) PROVE Announcing'
  <2>1. UNCHANGED <<rows, version, top, lost>>
        /\ \A d \in Conns : d # c => pc'[d] = pc[d] /\ list'[d] = list[d]
    BY <1>4 DEF CountAdded
  <2>2. Witness(c) => Witness(c)'
    BY <1>4 DEF CountAdded
  <2>3. QED
    BY <2>1, <2>2
<1>5. ASSUME NEW c \in Conns, CountRemoved(c) PROVE Announcing'
  BY <1>5 DEF CountRemoved
<1>6. ASSUME NEW c \in Conns, BroadcastAdded(c) \/ BroadcastRemoved(c) PROVE Announcing'
  <2>1. UNCHANGED <<rows, version, list, lost>> /\ \A d \in Conns : d # c => pc'[d] = pc[d]
    BY <1>6 DEF BroadcastAdded, BroadcastRemoved, GroupSend
  <2>2. top' = Larger(top, list[c]) /\ pc[c] \in Counted
    BY <1>6 DEF BroadcastAdded, BroadcastRemoved, GroupSend
  <2>3. version \in {top, lost} => version \in {top', lost'}
    BY <2>1, <2>2 DEF Larger, Bounded, Versions
  <2>4. Witness(c) => version = top'
    BY <2>2 DEF Larger, Bounded, Versions
  <2>5. QED
    BY <2>1, <2>3, <2>4
<1>7. ASSUME NEW c \in Conns, HandlerDies(c) PROVE Announcing'
  <2>1. UNCHANGED <<rows, version, list, top>> /\ \A d \in Conns : d # c => pc'[d] = pc[d]
    BY <1>7 DEF HandlerDies
  <2>2. version \in {top, lost} => version \in {top', lost'}
    BY <1>7, <2>1 DEF HandlerDies, Unsent, AtWork, InDatabase, Larger, Bounded, Versions
  <2>3. Witness(c) => version = lost'
    BY <1>7 DEF HandlerDies, Unsent, AtWork, InDatabase, Larger, Bounded, Versions
  <2>4. QED
    BY <2>1, <2>2, <2>3
<1>8. ASSUME NEW p \in Procs, Restart(p) PROVE Announcing'
  <2>1. UNCHANGED <<rows, version, list, top>>
    BY <1>8 DEF Restart
  <2>2. CASE \E d \in Conns : Proc[d] = p /\ pc[d] \in AtWork
    BY <1>8, <2>1, <2>2 DEF Restart
  <2>3. CASE \A d \in Conns : Proc[d] = p => pc[d] \notin AtWork
    <3>1. lost' = lost /\ \A d \in Conns : Proc[d] # p => pc'[d] = pc[d]
      BY <1>8, <2>3 DEF Restart
    <3>2. \A d \in Conns : Witness(d) => Proc[d] # p
      BY <2>3 DEF AtWork, InDatabase
    <3>3. QED
      BY <2>1, <3>1, <3>2
  <2>4. QED
    BY <2>2, <2>3
<1>9. CASE UNCHANGED vars
  BY <1>9 DEF vars
<1>10. QED
  BY <1>1, <1>2, <1>3, <1>4, <1>5, <1>6, <1>7, <1>8, <1>9 DEF Next, HandlerStep

LEMMA ReceivingStep ==
  ASSUME TypeOK, Bounded, Receiving, EndsWithLast, [Next]_vars
  PROVE  Receiving'
<1> USE ReactionAssumption
        DEF TypeOK, Receiving, Reading, AtWork, InDatabase, table, views, announced, Become
<1>1. ASSUME NEW c \in Conns, GroupAdd(c) \/ Accept(c) \/ Leave(c) PROVE Receiving'
  <2>1. UNCHANGED <<mailbox, newest, top>>
    BY <1>1 DEF GroupAdd, Accept, Leave
  <2>2. \A d \in Conns : pc'[d] \in Reading => pc[d] \in Reading
    BY <1>1 DEF GroupAdd, Accept, Leave
  <2>3. QED
    BY <2>1, <2>2
<1>2. ASSUME NEW c \in Conns, GroupDiscard(c) PROVE Receiving'
  BY <1>2 DEF GroupDiscard
<1>3. ASSUME NEW c \in Conns, SendHistory(c) PROVE Receiving'
  <2>1. newest'[c] >= top
    BY <1>3 DEF SendHistory, Receive, Larger, Bounded, Versions
  <2>2. \A d \in Conns : d # c => newest'[d] = newest[d] /\ pc'[d] = pc[d]
    BY <1>3 DEF SendHistory, Receive
  <2>3. UNCHANGED <<mailbox, top>>
    BY <1>3 DEF SendHistory
  <2>4. QED
    BY <2>1, <2>2, <2>3
<1>4. ASSUME NEW c \in Conns, ReadEvent(c) PROVE Receiving'
  <2>1. /\ mailbox[c] # <<>> /\ Head(mailbox[c]) = mailbox[c][1] /\ mailbox'[c] = Tail(mailbox[c])
        /\ newest'[c] = Larger(newest[c], Head(mailbox[c]))
    BY <1>4 DEF ReadEvent, Receive
  <2>2. /\ \A d \in Conns : d # c => newest'[d] = newest[d] /\ mailbox'[d] = mailbox[d]
        /\ pc' = pc /\ top' = top
    BY <1>4 DEF ReadEvent, Receive
  <2>3. ASSUME pc[c] \in Reading
        PROVE  newest'[c] >= top \/ \E i \in DOMAIN mailbox'[c] : mailbox'[c][i] >= top
    <3>1. CASE newest[c] >= top \/ mailbox[c][1] >= top
      BY <2>1, <3>1 DEF Larger, Versions
    <3>2. CASE ~(newest[c] >= top \/ mailbox[c][1] >= top)
      <4>1. PICK i \in DOMAIN mailbox[c] : mailbox[c][i] >= top /\ i # 1
        BY <2>3, <3>2
      <4>2. i - 1 \in DOMAIN Tail(mailbox[c]) /\ Tail(mailbox[c])[i - 1] = mailbox[c][i]
        BY <4>1, <2>1
      <4>3. QED
        BY <2>1, <4>1, <4>2
    <3>3. QED
      BY <3>1, <3>2
  <2>4. QED
    BY <2>2, <2>3
<1>5. ASSUME NEW c \in Conns,
             (\E e \in Emojis : AddReaction(c, e) \/ RemoveReaction(c, e))
               \/ CountAdded(c) \/ CountRemoved(c) \/ NotifyAuthor(c) \/ NotifyFails(c) \/ HandlerDies(c)
      PROVE  Receiving'
  <2>1. UNCHANGED <<mailbox, newest, top>>
    BY <1>5 DEF AddReaction, RemoveReaction, CountAdded, CountRemoved, NotifyAuthor, NotifyFails, HandlerDies
  <2>2. \A d \in Conns : pc'[d] \in Reading => pc[d] \in Reading
    BY <1>5 DEF AddReaction, RemoveReaction, CountAdded, CountRemoved, NotifyAuthor, NotifyFails, HandlerDies
  <2>3. QED
    BY <2>1, <2>2
<1>6. ASSUME NEW c \in Conns, BroadcastAdded(c) \/ BroadcastRemoved(c) PROVE Receiving'
  <2>1. top' = Larger(top, list[c]) /\ newest' = newest /\ list[c] \in Versions
    BY <1>6 DEF BroadcastAdded, BroadcastRemoved, GroupSend
  <2>2. ASSUME NEW d \in Conns, pc'[d] \in Reading
        PROVE  /\ pc[d] \in Reading
               /\ mailbox'[d] = Append(mailbox[d], list[c])
    BY <1>6, <2>2 DEF BroadcastAdded, BroadcastRemoved, GroupSend, EndsWithLast
  <2>3. ASSUME NEW d \in Conns, pc'[d] \in Reading
        PROVE  newest'[d] >= top' \/ \E i \in DOMAIN mailbox'[d] : mailbox'[d][i] >= top'
    <3>1. mailbox[d] \in Seq(Versions) /\ mailbox'[d] = Append(mailbox[d], list[c])
      BY <2>2, <2>3
    <3>2. /\ \A i \in DOMAIN mailbox[d] : i \in DOMAIN mailbox'[d] /\ mailbox'[d][i] = mailbox[d][i]
          /\ \E i \in DOMAIN mailbox'[d] : mailbox'[d][i] = list[c]
      <4>1. mailbox[d] \in Seq(Versions) /\ list[c] \in Versions
        BY <2>1, <3>1
      <4>2. /\ \A i \in DOMAIN mailbox[d] :
                 /\ i \in DOMAIN Append(mailbox[d], list[c])
                 /\ Append(mailbox[d], list[c])[i] = mailbox[d][i]
            /\ \E i \in DOMAIN Append(mailbox[d], list[c]) : Append(mailbox[d], list[c])[i] = list[c]
        BY ONLY <4>1, AppendKeeps
      <4>3. QED
        BY ONLY <3>1, <4>2
    <3>3. CASE top' = top
      BY <2>1, <2>2, <2>3, <3>2, <3>3
    <3>4. CASE top' = list[c]
      <4>1. list[c] >= list[c]
        BY <2>1 DEF Versions
      <4>2. QED
        BY <3>2, <3>4, <4>1
    <3>5. QED
      BY <2>1, <3>3, <3>4 DEF Larger
  <2>4. QED
    BY <2>3
<1>7. ASSUME NEW p \in Procs, Restart(p) PROVE Receiving'
  BY <1>7 DEF Restart
<1>8. CASE UNCHANGED vars
  BY <1>8 DEF vars
<1>9. QED
  BY <1>1, <1>2, <1>3, <1>4, <1>5, <1>6, <1>7, <1>8 DEF Next, HandlerStep

LEMMA LastStep ==
  ASSUME TypeOK, Bounded, EndsWithLast, [Next]_vars
  PROVE  EndsWithLast'
<1> USE ReactionAssumption
        DEF TypeOK, EndsWithLast, Reading, AtWork, InDatabase, table, views, announced, Become
<1>1. ASSUME NEW c \in Conns, GroupAdd(c) PROVE EndsWithLast'
  BY <1>1 DEF GroupAdd
<1>2. ASSUME NEW c \in Conns, Accept(c) \/ Leave(c) PROVE EndsWithLast'
  BY <1>2 DEF Accept, Leave
<1>3. ASSUME NEW c \in Conns, GroupDiscard(c) PROVE EndsWithLast'
  BY <1>3 DEF GroupDiscard
<1>4. ASSUME NEW c \in Conns, SendHistory(c) PROVE EndsWithLast'
  <2>1. shown'[c] = version /\ version >= last
    BY <1>4 DEF SendHistory, Receive, Bounded, Versions
  <2>2. /\ UNCHANGED <<mailbox, group, last>>
        /\ pc[c] = "accepted" /\ pc'[c] = "open"
        /\ \A d \in Conns : d # c => shown'[d] = shown[d] /\ pc'[d] = pc[d]
    BY <1>4 DEF SendHistory, Receive
  <2>3. QED
    BY <2>1, <2>2
<1>5. ASSUME NEW c \in Conns, ReadEvent(c) PROVE EndsWithLast'
  <2>1. /\ pc[c] = "open" /\ mailbox[c] # <<>> /\ c \in group
        /\ mailbox'[c] = Tail(mailbox[c]) /\ shown'[c] = Head(mailbox[c])
    BY <1>5 DEF ReadEvent, Receive
  <2>2. /\ UNCHANGED <<pc, group, last>>
        /\ \A d \in Conns : d # c => shown'[d] = shown[d] /\ mailbox'[d] = mailbox[d]
    BY <1>5 DEF ReadEvent, Receive
  <2>3. mailbox[c][Len(mailbox[c])] = last
    BY <2>1
  <2>4. CASE Len(mailbox[c]) = 1
    <3>1. mailbox'[c] = <<>> /\ shown'[c] = last
      <4>1. mailbox[c] \in Seq(Versions)
        OBVIOUS
      <4>2. QED
        BY ONLY <2>1, <2>3, <2>4, <4>1, TailFacts
    <3>2. shown'[c] >= last'
      BY <2>2, <3>1 DEF Versions
    <3>3. QED
      BY <2>1, <2>2, <3>1, <3>2
  <2>5. CASE Len(mailbox[c]) # 1
    <3>1. mailbox'[c] # <<>> /\ mailbox'[c][Len(mailbox'[c])] = last
      <4>1. mailbox[c] \in Seq(Versions)
        OBVIOUS
      <4>2. QED
        BY ONLY <2>1, <2>3, <2>5, <4>1, TailFacts
    <3>2. QED
      BY <2>1, <2>2, <3>1
  <2>6. QED
    BY <2>4, <2>5
<1>6. ASSUME NEW c \in Conns,
             (\E e \in Emojis : AddReaction(c, e) \/ RemoveReaction(c, e))
               \/ CountAdded(c) \/ CountRemoved(c) \/ NotifyAuthor(c) \/ NotifyFails(c) \/ HandlerDies(c)
      PROVE  EndsWithLast'
  <2>1. UNCHANGED <<mailbox, shown, group, last>>
    BY <1>6 DEF AddReaction, RemoveReaction, CountAdded, CountRemoved, NotifyAuthor, NotifyFails, HandlerDies
  <2>2. \A d \in Conns : /\ pc'[d] \in Reading \cup {"grouped", "accepted"} =>
                              pc'[d] = pc[d] \/ pc[d] \in Reading
                         /\ pc'[d] \in Reading => pc[d] \in Reading
                         /\ pc[d] = "dead" => pc'[d] = "dead"
                         /\ pc'[d] \in {"idle", "leaving"} => pc'[d] = pc[d]
    BY <1>6 DEF AddReaction, RemoveReaction, CountAdded, CountRemoved, NotifyAuthor, NotifyFails, HandlerDies
  <2>3. QED
    BY <2>1, <2>2
<1>7. ASSUME NEW c \in Conns, BroadcastAdded(c) \/ BroadcastRemoved(c) PROVE EndsWithLast'
  <2>1. last' = list[c] /\ UNCHANGED <<shown, group, list>> /\ list[c] \in Versions
    BY <1>7 DEF BroadcastAdded, BroadcastRemoved, GroupSend
  <2>2. \A d \in Conns : /\ pc'[d] = pc[d] \/ (pc[d] \in Reading /\ pc'[d] \in Reading)
                         /\ pc'[d] # "dead" => pc[d] # "dead"
    BY <1>7 DEF BroadcastAdded, BroadcastRemoved
  <2>3. \A d \in group : pc[d] # "dead" => mailbox'[d] = Append(mailbox[d], list[c])
    BY <1>7 DEF BroadcastAdded, BroadcastRemoved, GroupSend
  <2>4. ASSUME NEW d \in group, pc[d] # "dead"
        PROVE  mailbox'[d] # <<>> /\ mailbox'[d][Len(mailbox'[d])] = last'
    BY <2>1, <2>3, <2>4, AppendKeeps
  <2>5. \A d \in Conns : pc'[d] \in Reading \cup {"grouped", "accepted"} => d \in group
    BY <2>2
  <2>6. \A d \in Conns : pc'[d] \in {"idle", "leaving"} => d \notin group /\ mailbox'[d] = <<>>
    <3>1. \A d \in Conns : d \notin group => mailbox'[d] = mailbox[d]
      BY <1>7 DEF BroadcastAdded, BroadcastRemoved, GroupSend
    <3>2. QED
      BY <2>2, <3>1
  <2>7. \A d \in Conns : d \in group' /\ pc'[d] # "dead" => mailbox'[d] # <<>> /\ mailbox'[d][Len(mailbox'[d])] = last'
    BY <2>1, <2>2, <2>4
  <2>8. \A d \in Conns : pc'[d] \in Reading => mailbox'[d] # <<>>
    BY <2>4, <2>5, <2>2
  <2>9. QED
    BY <2>1, <2>5, <2>6, <2>7, <2>8
<1>8. ASSUME NEW p \in Procs, Restart(p) PROVE EndsWithLast'
  BY <1>8 DEF Restart
<1>9. CASE UNCHANGED vars
  BY <1>9 DEF vars
<1>10. QED
  BY <1>1, <1>2, <1>3, <1>4, <1>5, <1>6, <1>7, <1>8, <1>9 DEF Next, HandlerStep

LEMMA Invariance == Spec => []IInv
<1>1. IInv /\ [Next]_vars => IInv'
  BY TypeStep, BoundedStep, AnnouncingStep, ReceivingStep, LastStep DEF IInv
<1>2. QED
  BY <1>1, InitIInv, PTL DEF Spec

\* Every variable keeps its type.
THEOREM TypeCorrect == Spec => []TypeOK
<1>1. IInv => TypeOK
  BY DEF IInv
<1>2. QED
  BY <1>1, Invariance, PTL

\* When no handler is at work the last change of the reactions has been broadcast, or
\* an exception or a restart ended the handler that was to do it; and once the current
\* list is broadcast, every client of the room has got it.
THEOREM ReachesAll == Spec => []LatestReachesAll
<1>1. IInv => (Quiet => version \in {top, lost})
  BY DEF IInv, Announcing, Witness, Counted, Quiet, AtWork, InDatabase
<1>2. IInv => (top = version => \A c \in Conns : Drained(c) => newest[c] = version)
  <2> SUFFICES ASSUME IInv, top = version, NEW c \in Conns, Drained(c) PROVE newest[c] = version
    OBVIOUS
  <2>1. newest[c] >= top
    BY DEF IInv, Receiving, Reading, Drained
  <2>2. newest[c] <= version /\ newest[c] \in Nat /\ version \in Nat
    BY DEF IInv, Bounded, TypeOK, Versions
  <2>3. QED
    BY <2>1, <2>2
<1>3. IInv => LatestReachesAll
  BY <1>1, <1>2 DEF LatestReachesAll
<1>4. QED
  BY <1>3, Invariance, PTL

\* A client shows an old list only if that list was broadcast after a newer one.
THEOREM StaleOnlyIfOvertaken == Spec => []OnlyOvertakenIsStale
<1>1. IInv => OnlyOvertakenIsStale
  <2> SUFFICES ASSUME IInv, last = version, NEW c \in Conns, Drained(c) PROVE shown[c] = version
    BY DEF OnlyOvertakenIsStale
  <2>1. shown[c] >= last
    BY DEF IInv, EndsWithLast, Reading, Drained
  <2>2. shown[c] <= version /\ shown[c] \in Nat /\ version \in Nat
    BY DEF IInv, Bounded, TypeOK, Versions
  <2>3. QED
    BY <2>1, <2>2
<1>2. QED
  BY <1>1, Invariance, PTL

\* An author who is not told of a reaction because of an open session has the list on
\* one of the sessions, or it is on its way there.
THEOREM AuthorNeedsNoNotice == Spec => []AuthorSeesIt
<1>1. IInv => AuthorSeesIt
  <2> SUFFICES ASSUME IInv, NEW c \in Conns, pc[c] = "notify",
                      NEW d \in Conns, Owner[d] = Author, pc[d] \notin {"idle", "grouped"}
               PROVE  \/ pc[d] \in {"accepted", "leaving", "dead"}
                      \/ newest[d] >= list[c]
                      \/ \E i \in DOMAIN mailbox[d] : mailbox[d][i] >= list[c]
    BY DEF AuthorSeesIt, AuthorConnected
  <2>1. list[c] <= top /\ list[c] \in Nat /\ top \in Nat
    BY DEF IInv, Bounded, TypeOK, Versions
  <2>2. CASE pc[d] \in Reading
    <3>1. newest[d] \in Nat /\ \A i \in DOMAIN mailbox[d] : mailbox[d][i] \in Nat
      <4>1. mailbox[d] \in Seq(Versions) /\ newest[d] \in Versions /\ Versions \subseteq Nat
        BY ReactionAssumption DEF IInv, TypeOK, Versions
      <4>2. \A i \in DOMAIN mailbox[d] : mailbox[d][i] \in Versions
        BY <4>1
      <4>3. QED
        BY <4>1, <4>2
    <3>2. newest[d] >= top \/ \E i \in DOMAIN mailbox[d] : mailbox[d][i] >= top
      BY <2>2 DEF IInv, Receiving
    <3>3. QED
      BY <2>1, <3>1, <3>2
  <2>3. CASE pc[d] \notin Reading
    BY <2>3 DEF IInv, TypeOK, Stages, Reading
  <2>4. QED
    BY <2>2, <2>3
<1>2. QED
  BY <1>1, Invariance, PTL
================================================================================
