-------------------------------- MODULE Claims --------------------------------
(***************************************************************************)
(* What linking uploads to messages promises, as if no two sends ever      *)
(* overlapped: a send asks for some files and later, at one moment, gets   *)
(* all of them, or is refused for a reason that holds at that moment, or   *)
(* is lost with its process and gets none.                                 *)
(***************************************************************************)
CONSTANTS
  Files, Users, Sends,
  By,      \* whose upload each file is
  Sender,  \* who sends
  None

VARIABLES
  uploaded,  \* files that exist
  owner,     \* the send that has each file
  wish,      \* the files each send asked for
  missing,   \* those of them that did not exist then
  answer     \* what each send was told

vars == <<uploaded, owner, wish, missing, answer>>

TypeOK ==
  /\ uploaded \subseteq Files
  /\ owner \in [Files -> Sends \cup {None}]
  /\ wish \in [Sends -> SUBSET Files]
  /\ missing \in [Sends -> SUBSET Files]
  /\ answer \in [Sends -> {"waiting", "asked", "granted", "refused", "lost"}]

Init ==
  /\ uploaded \in SUBSET Files
  /\ owner = [f \in Files |-> None]
  /\ wish = [s \in Sends |-> {}]
  /\ missing = [s \in Sends |-> {}]
  /\ answer = [s \in Sends |-> "waiting"]

Upload(f) ==
  /\ uploaded' = uploaded \cup {f}
  /\ UNCHANGED <<owner, wish, missing, answer>>

Answer(s, from, to) ==
  /\ answer[s] = from
  /\ answer' = [answer EXCEPT ![s] = to]

Ask(s, ids) ==
  /\ Answer(s, "waiting", "asked")
  /\ wish' = [wish EXCEPT ![s] = ids]
  /\ missing' = [missing EXCEPT ![s] = ids \ uploaded]
  /\ UNCHANGED <<uploaded, owner>>

\* All of the files at once, and only files that are there, free and the sender's own.
Grant(s) ==
  /\ Answer(s, "asked", "granted")
  /\ \A f \in wish[s] : f \in uploaded /\ By[f] = Sender[s] /\ owner[f] = None
  /\ owner' = [f \in Files |-> IF f \in wish[s] THEN s ELSE owner[f]]
  /\ UNCHANGED <<uploaded, wish, missing>>

\* "not found, not yours, or already used"
Refuse(s) ==
  /\ Answer(s, "asked", "refused")
  /\ \E f \in wish[s] : f \in missing[s] \/ By[f] # Sender[s] \/ owner[f] # None
  /\ UNCHANGED <<uploaded, owner, wish, missing>>

\* Some sends that have no answer yet get none.
Lose(S) ==
  /\ \A s \in S : answer[s] \in {"waiting", "asked"}
  /\ answer' = [s \in Sends |-> IF s \in S THEN "lost" ELSE answer[s]]
  /\ wish' = [s \in Sends |-> IF s \in S THEN {} ELSE wish[s]]
  /\ UNCHANGED <<uploaded, owner, missing>>

Next ==
  \/ \E f \in Files : Upload(f)
  \/ \E s \in Sends : (\E ids \in SUBSET Files : Ask(s, ids)) \/ Grant(s) \/ Refuse(s)
  \/ \E S \in SUBSET Sends : Lose(S)

Spec == Init /\ [][Next]_vars
===============================================================================
