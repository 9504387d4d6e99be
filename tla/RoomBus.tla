------------------------------- MODULE RoomBus -------------------------------
(***************************************************************************)
(* What a room promises its sessions, whatever its handlers, queues and    *)
(* faults do: each message is published at most once, and each session     *)
(* gets the published messages in the order of their publication.  A       *)
(* session that is slow, or not there, may miss some of them.              *)
(***************************************************************************)
EXTENDS Naturals, Sequences

CONSTANTS Sessions, Messages

VARIABLES
  published,  \* the messages published so far
  stream      \* what each session has got or is going to get, in order

vars == <<published, stream>>

TypeOK ==
  /\ published \subseteq Messages
  /\ stream \in [Sessions -> Seq(Messages)]

Init ==
  /\ published \subseteq Messages
  /\ stream = [c \in Sessions |-> <<>>]

\* Sequence s without its element number k.
Without(s, k) == [i \in 1..Len(s) - 1 |-> IF i < k THEN s[i] ELSE s[i + 1]]

\* A session gets the message, misses it, or gets it in the place of an older one.
Receives(s, m) == {s, Append(s, m)} \cup {Append(Without(s, k), m) : k \in DOMAIN s}

Publish(m) ==
  /\ m \notin published
  /\ published' = published \cup {m}
  /\ stream' \in [Sessions -> Seq(Messages)]
  /\ \A c \in Sessions : stream'[c] \in Receives(stream[c], m)

\* Sessions end; what they got is no longer anybody's.
Close(S) ==
  /\ stream' = [c \in Sessions |-> IF c \in S THEN <<>> ELSE stream[c]]
  /\ UNCHANGED published

Next ==
  \/ \E m \in Messages : Publish(m)
  \/ \E S \in SUBSET Sessions : Close(S)

Spec == Init /\ [][Next]_vars

\* No session gets a message twice.
NoDuplicate ==
  \A c \in Sessions : \A i, j \in DOMAIN stream[c] :
    stream[c][i] = stream[c][j] => i = j

\* Any two sessions get the messages they both get in the same order.
SameOrder ==
  \A c, d \in Sessions :
    \A i, j \in DOMAIN stream[c], k, l \in DOMAIN stream[d] :
      (i < j /\ stream[c][i] = stream[d][k] /\ stream[c][j] = stream[d][l]) => k < l
=============================================================================
