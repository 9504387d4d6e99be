---------------------------- MODULE RoomBusProofs ----------------------------
(***************************************************************************)
(* What follows from the promise of a room, for any sessions and messages. *)
(***************************************************************************)
EXTENDS RoomBus, SequenceTheorems, TLAPS

\* The first n elements of t are elements of s in their order, the last is m.
Picks(t, s, m, n, f) ==
  /\ n \in Nat /\ f \in [1..n -> DOMAIN s]
  /\ DOMAIN t \in {1..n, 1..(n + 1)}
  /\ \A i \in 1..n : t[i] = s[f[i]]
  /\ \A i, j \in 1..n : i < j => f[i] < f[j]
  /\ n + 1 \in DOMAIN t => t[n + 1] = m

Extends(t, s, m) == \E n, f : Picks(t, s, m, n, f)

LEMMA FunctionIsSeq ==
  ASSUME NEW S, NEW n \in Nat, NEW w \in [1..n -> S]
  PROVE  w \in Seq(S) /\ Len(w) = n
<1>1. w \in Seq(S)
  BY SeqDef
<1>2. QED
  BY <1>1, LenProperties

LEMMA ReceivesExtends ==
  ASSUME NEW S, NEW s \in Seq(S), NEW m \in S, NEW t \in Receives(s, m)
  PROVE  Extends(t, s, m) /\ DOMAIN s = 1..Len(s) /\ Len(s) \in Nat
<1>1. Len(s) \in Nat /\ DOMAIN s = 1..Len(s)
  BY LenProperties
<1> DEFINE id == [i \in 1..Len(s) |-> i]
<1>2. /\ id \in [1..Len(s) -> DOMAIN s] /\ \A i \in 1..Len(s) : s[i] = s[id[i]]
      /\ \A i, j \in 1..Len(s) : i < j => id[i] < id[j]
  BY <1>1
<1> HIDE DEF id
<1>3. CASE t = s
  <2>1. DOMAIN t = 1..Len(s)
    BY <1>1, <1>3
  <2>2. Len(s) + 1 \notin DOMAIN t
    BY <1>1, <2>1
  <2>3. Picks(t, s, m, Len(s), id)
    BY <1>1, <1>2, <1>3, <2>1, <2>2 DEF Picks
  <2>4. QED
    BY <1>1, <2>3 DEF Extends
<1>4. CASE t = Append(s, m)
  <2>1. /\ DOMAIN t = 1..(Len(s) + 1) /\ t[Len(s) + 1] = m
        /\ \A i \in 1..Len(s) : t[i] = s[i]
    BY <1>4, AppendProperties, LenProperties
  <2>2. Picks(t, s, m, Len(s), id)
    BY <1>1, <1>2, <2>1 DEF Picks
  <2>3. QED
    BY <1>1, <2>2 DEF Extends
<1>5. ASSUME NEW k \in DOMAIN s, t = Append(Without(s, k), m) PROVE Extends(t, s, m)
  <2> DEFINE n == Len(s) - 1
             w == Without(s, k)
             f == [i \in 1..n |-> IF i < k THEN i ELSE i + 1]
  <2>1. n \in Nat /\ n + 1 = Len(s)
    BY <1>1
  <2>2. \A i \in 1..n : f[i] = (IF i < k THEN i ELSE i + 1) /\ f[i] \in DOMAIN s
    BY <1>1, <2>1
  <2>3. \A i \in 1..n : w[i] = s[f[i]]
    BY <2>2 DEF Without
  <2>4. w \in Seq(S) /\ Len(w) = n
    <3>1. w \in [1..n -> S]
      <4>1. \A i \in 1..n : s[f[i]] \in S
        BY <1>1, <2>2
      <4>2. w = [i \in 1..n |-> w[i]]
        BY DEF Without
      <4>3. QED
        BY <2>3, <4>1, <4>2
    <3> HIDE DEF n, w, f
    <3>2. QED
      BY ONLY <2>1, <3>1, FunctionIsSeq
  <2>5. f \in [1..n -> DOMAIN s] /\ \A i, j \in 1..n : i < j => f[i] < f[j]
    BY <1>1, <2>1, <2>2
  <2>6. t = Append(w, m)
    BY <1>5
  <2> HIDE DEF n, w, f
  <2>7. /\ DOMAIN t = 1..(n + 1) /\ t[n + 1] = m
        /\ \A i \in 1..n : t[i] = w[i]
    BY <2>4, <2>6, AppendProperties, LenProperties
  <2>8. Picks(t, s, m, n, f)
    BY <2>1, <2>3, <2>5, <2>7 DEF Picks
  <2>9. QED
    BY <2>8 DEF Extends
<1>6. QED
  BY <1>1, <1>3, <1>4, <1>5 DEF Receives

(***************************************************************************)
(* The inductive invariant                                                 *)
(***************************************************************************)
\* Nobody gets what was not published.
OnlyPublished ==
  \A c \in Sessions : \A i \in DOMAIN stream[c] : stream[c][i] \in published

IInv ==
  /\ TypeOK
  /\ OnlyPublished
  /\ NoDuplicate
  /\ SameOrder

LEMMA PublishIInv ==
  ASSUME IInv, NEW m \in Messages, Publish(m)
  PROVE  IInv'
<1> USE DEF IInv
<1>1. /\ stream' \in [Sessions -> Seq(Messages)] /\ published' = published \cup {m}
      /\ m \notin published
  BY DEF Publish
<1>2. TypeOK'
  BY <1>1 DEF TypeOK
<1>3. ASSUME NEW c \in Sessions
      PROVE  /\ Extends(stream'[c], stream[c], m)
             /\ DOMAIN stream[c] = 1..Len(stream[c]) /\ Len(stream[c]) \in Nat
  <2>1. stream[c] \in Seq(Messages) /\ stream'[c] \in Receives(stream[c], m)
    BY DEF Publish, TypeOK
  <2>2. QED
    BY <2>1, ReceivesExtends
<1>4. OnlyPublished'
  <2>1. ASSUME NEW c \in Sessions, NEW i \in DOMAIN stream'[c]
        PROVE  stream'[c][i] \in published'
    <3>1. PICK n, f : Picks(stream'[c], stream[c], m, n, f)
      BY <1>3 DEF Extends
    <3>2. i \in 1..n \/ (i = n + 1 /\ stream'[c][i] = m)
      BY <3>1 DEF Picks
    <3>3. i \in 1..n => stream'[c][i] = stream[c][f[i]] /\ f[i] \in DOMAIN stream[c]
      BY <3>1 DEF Picks
    <3>4. QED
      BY <1>1, <3>2, <3>3 DEF OnlyPublished
  <2>2. QED
    BY <2>1 DEF OnlyPublished
<1>5. NoDuplicate'
  <2>1. ASSUME NEW c \in Sessions, NEW i \in DOMAIN stream'[c], NEW j \in DOMAIN stream'[c],
               stream'[c][i] = stream'[c][j], i < j
        PROVE  FALSE
    <3>1. PICK n, f : Picks(stream'[c], stream[c], m, n, f)
      BY <1>3 DEF Extends
    <3>2. i \in 1..n /\ (j \in 1..n \/ j = n + 1)
      BY <2>1, <3>1 DEF Picks
    <3>3. stream'[c][i] = stream[c][f[i]] /\ f[i] \in DOMAIN stream[c]
      BY <3>1, <3>2 DEF Picks
    <3>4. CASE j \in 1..n
      <4>1. f[i] < f[j] /\ f[j] \in DOMAIN stream[c] /\ stream'[c][j] = stream[c][f[j]]
        BY <2>1, <3>1, <3>2, <3>4 DEF Picks
      <4>2. f[i] = f[j]
        BY <2>1, <3>3, <4>1 DEF NoDuplicate
      <4>3. QED
        BY <1>3, <3>3, <4>1, <4>2
    <3>5. CASE j = n + 1
      BY <1>1, <2>1, <3>1, <3>3, <3>5 DEF OnlyPublished, Picks
    <3>6. QED
      BY <3>2, <3>4, <3>5 DEF Picks
  <2>2. \A c \in Sessions : \A i \in DOMAIN stream'[c] : i \in Nat
    BY <1>3 DEF Extends, Picks
  <2>3. QED
    BY <2>1, <2>2 DEF NoDuplicate
<1>6. SameOrder'
  <2>1. ASSUME NEW c \in Sessions, NEW d \in Sessions,
               NEW i \in DOMAIN stream'[c], NEW j \in DOMAIN stream'[c],
               NEW k \in DOMAIN stream'[d], NEW l \in DOMAIN stream'[d],
               i < j, stream'[c][i] = stream'[d][k], stream'[c][j] = stream'[d][l]
        PROVE  k < l
    <3>1. PICK n, f : Picks(stream'[c], stream[c], m, n, f)
      BY <1>3 DEF Extends
    <3>2. PICK o, e : Picks(stream'[d], stream[d], m, o, e)
      BY <1>3 DEF Extends
    <3>3. i \in 1..n /\ (j \in 1..n \/ j = n + 1) /\ (k \in 1..o \/ k = o + 1) /\ (l \in 1..o \/ l = o + 1)
      BY <2>1, <3>1, <3>2 DEF Picks
    <3>4. stream'[c][i] = stream[c][f[i]] /\ f[i] \in DOMAIN stream[c] /\ stream'[c][i] # m
      BY <1>1, <3>1, <3>3 DEF OnlyPublished, Picks
    <3>5. k \in 1..o /\ stream'[d][k] = stream[d][e[k]] /\ e[k] \in DOMAIN stream[d]
      BY <2>1, <3>2, <3>3, <3>4 DEF Picks
    <3>6. CASE l = o + 1
      BY <3>2, <3>5, <3>6 DEF Picks
    <3>7. CASE l \in 1..o
      <4>1. stream'[d][l] = stream[d][e[l]] /\ e[l] \in DOMAIN stream[d] /\ stream'[d][l] # m
        BY <1>1, <3>2, <3>7 DEF OnlyPublished, Picks
      <4>2. j \in 1..n
        BY <2>1, <3>1, <3>3, <4>1 DEF Picks
      <4>3. f[i] < f[j] /\ f[j] \in DOMAIN stream[c] /\ stream'[c][j] = stream[c][f[j]]
        BY <2>1, <3>1, <3>3, <4>2 DEF Picks
      <4>4. e[k] < e[l]
        <5>1. stream[c][f[i]] = stream[d][e[k]] /\ stream[c][f[j]] = stream[d][e[l]]
          BY <2>1, <3>4, <3>5, <4>1, <4>3
        <5>2. QED
          BY <3>4, <3>5, <4>1, <4>3, <5>1 DEF SameOrder
      <4>5. l <= k => e[l] <= e[k]
        BY <1>3, <3>2, <3>5, <3>7 DEF Picks
      <4>6. QED
        BY <1>3, <3>5, <3>7, <4>1, <4>4, <4>5
    <3>8. QED
      BY <3>3, <3>6, <3>7
  <2>2. QED
    BY <2>1 DEF SameOrder
<1>7. QED
  BY <1>2, <1>4, <1>5, <1>6

LEMMA NextIInv ==
  ASSUME IInv, [Next]_vars
  PROVE  IInv'
<1> USE DEF IInv
<1>1. ASSUME NEW S \in SUBSET Sessions, Close(S) PROVE IInv'
  <2>1. \A c \in Sessions : stream'[c] = <<>> \/ stream'[c] = stream[c]
    BY <1>1 DEF Close
  <2>2. published' = published /\ DOMAIN <<>> = {}
    BY <1>1 DEF Close
  <2>3. TypeOK'
    BY <1>1 DEF Close, TypeOK
  <2>4. OnlyPublished'
    BY <2>1, <2>2 DEF OnlyPublished
  <2>5. NoDuplicate'
    BY <2>1, <2>2 DEF NoDuplicate
  <2>6. SameOrder'
    <3>1. ASSUME NEW c \in Sessions, NEW i \in DOMAIN stream'[c] PROVE stream'[c] = stream[c]
      BY <2>1, <2>2, <3>1 DEF Picks
    <3>2. QED
      BY <3>1 DEF SameOrder, Picks
  <2>7. QED
    BY <2>3, <2>4, <2>5, <2>6
<1>2. CASE UNCHANGED vars
  BY <1>2 DEF vars, TypeOK, OnlyPublished, NoDuplicate, SameOrder
<1>3. QED
  BY <1>1, <1>2, PublishIInv DEF Next

LEMMA Invariance == Spec => []IInv
<1>1. Init => IInv
  <2>1. DOMAIN <<>> = {} /\ <<>> \in Seq(Messages)
    OBVIOUS
  <2>2. QED
    BY <2>1 DEF Init, IInv, TypeOK, OnlyPublished, NoDuplicate, SameOrder
<1>2. QED
  BY <1>1, NextIInv, PTL DEF Spec

\* However sessions come, go and fall behind, none gets a message twice, and any two get
\* what they both get in the same order: what the clients of group_send() rely on.
THEOREM OneOrder == Spec => [](NoDuplicate /\ SameOrder)
<1>1. IInv => NoDuplicate /\ SameOrder
  BY DEF IInv
<1>2. QED
  BY <1>1, Invariance, PTL
=============================================================================
