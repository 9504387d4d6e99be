-------------------------------- MODULE Outbox --------------------------------
(***************************************************************************)
(* What the notification services promise, as if every call that creates   *)
(* notifications happened at one moment: its notifications appear together *)
(* or never, who opens a feed sees those that are there, and a push that   *)
(* is owed is made, made again within a limit, waived if the user cannot   *)
(* be pushed to, or lost.                                                  *)
(***************************************************************************)
EXTENDS Naturals

CONSTANTS
  Notes,
  For,       \* the user of each
  Calls,
  Creates,   \* what each call creates
  Reachable, \* users who can be pushed to
  Feeds,
  Of,        \* the user of each feed
  MaxPushes

VARIABLES
  stored,   \* notes that are there
  refused,  \* notes of calls that failed
  wanted,   \* stored notes that are to be pushed
  owed,     \* stored notes whose push is under way
  waived,   \* notes whose push was given up because it cannot be made
  lost,     \* notes whose push was lost to an error
  pushes,   \* how often each note was pushed
  frame     \* what each feed showed when it was opened

vars == <<stored, refused, wanted, owed, waived, lost, pushes, frame>>

Init ==
  /\ stored = {} /\ refused = {} /\ wanted = {} /\ owed = {} /\ waived = {} /\ lost = {}
  /\ pushes = [n \in Notes |-> 0]
  /\ frame = [s \in Feeds |-> {}]

Undecided(w) == Creates[w] \cap (stored \cup refused) = {}

\* Which of the notes are to be pushed is up to the settings of the moment; each of them is
\* owed from then on.
Store(w, pick) ==
  /\ Undecided(w)
  /\ pick \subseteq Creates[w]
  /\ stored' = stored \cup Creates[w]
  /\ wanted' = wanted \cup pick
  /\ owed' = owed \cup pick
  /\ UNCHANGED <<refused, waived, lost, pushes, frame>>

Refuse(w) ==
  /\ Undecided(w)
  /\ refused' = refused \cup Creates[w]
  /\ UNCHANGED <<stored, wanted, owed, waived, lost, pushes, frame>>

Pushes(n) ==
  /\ pushes[n] < MaxPushes
  /\ pushes' = [pushes EXCEPT ![n] = @ + 1]

Push(n) ==
  /\ n \in owed
  /\ Pushes(n)
  /\ owed' \in {owed, owed \ {n}}
  /\ UNCHANGED <<stored, refused, wanted, waived, lost, frame>>

Settle(n) ==
  /\ n \in owed
  /\ pushes[n] > 0
  /\ owed' = owed \ {n}
  /\ UNCHANGED <<stored, refused, wanted, waived, lost, pushes, frame>>

Waive(n) ==
  /\ n \in owed /\ For[n] \notin Reachable
  /\ owed' = owed \ {n}
  /\ waived' = waived \cup {n}
  /\ UNCHANGED <<stored, refused, wanted, lost, pushes, frame>>

\* An error may strike before or after the push is made.
Lose(n) ==
  /\ n \in owed
  /\ owed' = owed \ {n}
  /\ lost' = lost \cup {n}
  /\ Pushes(n) \/ UNCHANGED pushes
  /\ UNCHANGED <<stored, refused, wanted, waived, frame>>

Show(s, notes) ==
  /\ frame' = [frame EXCEPT ![s] = notes]
  /\ UNCHANGED <<stored, refused, wanted, owed, waived, lost, pushes>>

Open(s)  == Show(s, {n \in stored : For[n] = Of[s]})
Close(s) == Show(s, {})

Next ==
  \/ \E w \in Calls : Refuse(w) \/ \E pick \in SUBSET Notes : Store(w, pick)
  \/ \E n \in Notes : Push(n) \/ Settle(n) \/ Waive(n) \/ Lose(n)
  \/ \E s \in Feeds : Open(s) \/ Close(s)

Spec == Init /\ [][Next]_vars
===============================================================================
