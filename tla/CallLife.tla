------------------------------- MODULE CallLife -------------------------------
(***************************************************************************)
(* What a call is to those who take part in it, whatever requests there    *)
(* are.  A user or the creator looks at the call at one moment and acts on *)
(* what was seen at a later one, when it may no longer hold: only who has  *)
(* found the call active, and themselves invited and away, joins; only who *)
(* has found themselves in it leaves; the call ends for good, once for     *)
(* each time it was found active to end it; and who is told that they      *)
(* missed it was away when somebody looked after the end.                  *)
(***************************************************************************)
EXTENDS Naturals, FiniteSets

CONSTANTS
  Users,
  Creator,
  Requests  \* what may end the call

VARIABLES
  phase,       \* "none", "active" or "ended"
  invited,     \* the participants
  attendance,  \* where each user is by the records
  again,       \* whose time the last record of a joining or a leaving replaced
  ended,       \* the requests that ended the call
  told,        \* what each user has been told, and how often
  cleared,     \* users who have seen the call active
  joining,     \* users who have also seen that they are away
  leaving,     \* users who have seen that they are in
  absent,      \* users who have been seen away after the end
  closing      \* requests that have seen the call active, to end it

record == <<phase, invited, attendance, again, ended, told>>
vars   == <<record, cleared, joining, leaving, absent, closing>>

News == {"missed", "ended"}

Init ==
  /\ phase = "none"
  /\ invited = {}
  /\ attendance = [u \in Users |-> "away"]
  /\ again = {} /\ ended = {}
  /\ told = [u \in Users |-> [k \in News \cup {"incoming"} |-> 0]]
  /\ cleared = {} /\ joining = {} /\ leaving = {} /\ absent = {} /\ closing = {}

\* What is seen in a step; what was seen before may be forgotten at any time.
Sees(c, j, l, a, e) ==
  /\ cleared' \subseteq cleared \cup c
  /\ joining' \subseteq joining \cup j
  /\ leaving' \subseteq leaving \cup l
  /\ absent'  \subseteq absent \cup a
  /\ closing' \subseteq closing \cup e

Forgets == Sees({}, {}, {}, {}, {})

(***************************************************************************)
(* Looking                                                                 *)
(***************************************************************************)
Looks ==
  /\ UNCHANGED record
  /\ \/ Forgets
     \/ \E u \in Users : phase = "active" /\ Sees({u}, {}, {}, {}, {})
     \/ \E u \in cleared \cap invited :
          attendance[u] = "away" /\ Sees({}, {u}, {}, {}, {})
     \/ \E u \in Users : attendance[u] = "in" /\ Sees({}, {}, {u}, {}, {})
     \/ /\ phase = "ended"
        /\ Sees({}, {}, {}, {u \in invited : attendance[u] = "away"}, {})
     \/ \E r \in Requests : phase = "active" /\ Sees({}, {}, {}, {}, {r})

(***************************************************************************)
(* Acting                                                                  *)
(***************************************************************************)
Open(group) ==
  /\ phase = "none" /\ phase' = "active"
  /\ invited' = group
  /\ Forgets
  /\ UNCHANGED <<attendance, again, ended, told>>

\* Who is no longer where they were seen is not moved back: the second record replaces the
\* time of the first.
Goes(u, from, to) ==
  /\ IF attendance[u] = from
     THEN attendance' = [attendance EXCEPT ![u] = to] /\ again' = {}
     ELSE again' = {u} /\ UNCHANGED attendance
  /\ Forgets
  /\ UNCHANGED <<phase, invited, ended, told>>

Join(u)  == u \in joining /\ Goes(u, "away", "in")
Leave(u) == u \in leaving /\ Goes(u, "in", "gone")

End(r) ==
  /\ r \in closing \ ended
  /\ phase' = "ended"
  /\ ended' = ended \cup {r}
  /\ Forgets
  /\ UNCHANGED <<invited, attendance, again, told>>

Hears(u, kind) ==
  /\ u \in invited \ {Creator}
  /\ told' = [told EXCEPT ![u][kind] = @ + 1]
  /\ Forgets
  /\ UNCHANGED <<phase, invited, attendance, again, ended>>

Ring(u) == told[u]["incoming"] = 0 /\ Hears(u, "incoming")

TellEnd(u, kind) ==
  /\ phase = "ended"
  /\ IF kind = "missed" THEN u \in absent ELSE attendance[u] # "away"
  /\ told[u]["missed"] + told[u]["ended"] < Cardinality(ended)
  /\ Hears(u, kind)

Next ==
  \/ Looks
  \/ \E group \in SUBSET Users : Open(group)
  \/ \E u \in Users :
       Join(u) \/ Leave(u) \/ Ring(u) \/ \E kind \in News : TellEnd(u, kind)
  \/ \E r \in Requests : End(r)

Spec == Init /\ [][Next]_vars
===============================================================================
