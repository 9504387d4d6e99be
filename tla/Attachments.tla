------------------------------ MODULE Attachments ------------------------------
(***************************************************************************)
(* The transaction of _create_message() in Communication/consumers.py that *)
(* stores a chat message and links the uploads it names.  ChatRoom sees it *)
(* as one step, CreateMessage.  Inside one web process transactions of     *)
(* sends exclude each other (one database thread); the row locks are for   *)
(* the processes settings.py allows besides.                               *)
(***************************************************************************)
EXTENDS Naturals, FiniteSets

CONSTANTS
  Files,     \* ChatAttachment rows, numbered by created_at
  By,        \* uploaded_by of each
  Users,
  Sends,     \* message.send frames; one creates at most one message
  Sender,    \* the user of each
  Procs,
  Proc,      \* the process that handles each
  Restarts,  \* whether a process may be restarted
  None       \* message__isnull

ASSUME AttachmentAssumption ==
  /\ Files \subseteq Nat /\ IsFiniteSet(Files)
  /\ By \in [Files -> Users]
  /\ Sender \in [Sends -> Users]
  /\ Proc \in [Sends -> Procs]
  /\ Restarts \in BOOLEAN
  /\ None \notin Sends

VARIABLES
  uploaded,  \* files whose upload request has committed
  unknown,   \* history: files not uploaded when a send read the table
  linked,    \* attachment.message, by the send that created the message
  stored,    \* sends whose message is committed
  stage,     \* how far the handler of each send is
  want,      \* attachment_ids of each send, duplicates removed
  toLock,    \* rows of the locking query a send has not come to yet
  locks      \* rows a send has locked and that still match the query

rows == <<uploaded, linked, stored>>
vars == <<uploaded, unknown, linked, stored, stage, want, toLock, locks>>

InTransaction == {"inserted", "locking"}
Answered == {"committed", "refused", "lost"}

TypeOK ==
  /\ uploaded \subseteq Files
  /\ unknown \in [Sends -> SUBSET Files]
  /\ linked \in [Files -> Sends \cup {None}]
  /\ stored \subseteq Sends
  /\ stage \in [Sends -> {"waiting"} \cup InTransaction \cup Answered]
  /\ want \in [Sends -> SUBSET Files]
  /\ toLock \in [Sends -> SUBSET Files]
  /\ locks \in [Sends -> SUBSET Files]
  /\ \A s \in Sends : toLock[s] \cup locks[s] \subseteq want[s]

Init ==
  /\ uploaded \in SUBSET Files
  /\ unknown = [s \in Sends |-> {}]
  /\ linked = [f \in Files |-> None]
  /\ stored = {}
  /\ stage = [s \in Sends |-> "waiting"]
  /\ want = [s \in Sends |-> {}]
  /\ toLock = [s \in Sends |-> {}]
  /\ locks = [s \in Sends |-> {}]

Become(s, from, to) ==
  /\ stage[s] = from
  /\ stage' = [stage EXCEPT ![s] = to]

\* The thread-sensitive executor of process p runs no other transaction.
DbIdle(p) == \A s \in Sends : Proc[s] = p => stage[s] \notin InTransaction

Upload(f) ==
  /\ f \notin uploaded
  /\ uploaded' = uploaded \cup {f}
  /\ UNCHANGED <<unknown, linked, stored, stage, want, toLock, locks>>

\* The message row is inserted; nobody else sees it before the commit.
Begin(s, ids) ==
  /\ Become(s, "waiting", "inserted")
  /\ DbIdle(Proc[s])
  /\ want' = [want EXCEPT ![s] = ids]
  /\ UNCHANGED <<rows, unknown, toLock, locks>>

\* uploaded_by_id=sender_id, message__isnull=True
Usable(s, f) == f \in uploaded /\ By[f] = Sender[s] /\ linked[f] = None

\* Mutant: the query lacks id__in.
ScanAll(s) ==
  /\ Become(s, "inserted", "locking")
  /\ toLock' = [toLock EXCEPT ![s] = {f \in Files : Usable(s, f)}]
  /\ unknown' = [unknown EXCEPT ![s] = want[s] \ uploaded]
  /\ UNCHANGED <<rows, want, locks>>

\* The locking query reads its snapshot.
Scan(s) ==
  /\ Become(s, "inserted", "locking")
  /\ toLock' = [toLock EXCEPT ![s] = {f \in want[s] : Usable(s, f)}]
  /\ unknown' = [unknown EXCEPT ![s] = want[s] \ uploaded]
  /\ UNCHANGED <<rows, want, locks>>

Locked(f) == \E t \in Sends : f \in locks[t]

\* Mutant: the rows are locked in no particular order (no Meta.ordering).
NextRow(s, f) == f \in toLock[s]

\* The rows come in the order of Meta.ordering, -created_at.
NewestFirst(s, f) == f \in toLock[s] /\ \A g \in toLock[s] : g <= f

\* Mutant: the rows are read without select_for_update().
ReadRow(s, f) ==
  /\ stage[s] = "locking"
  /\ NewestFirst(s, f)
  /\ toLock' = [toLock EXCEPT ![s] = @ \ {f}]
  /\ locks' = [locks EXCEPT ![s] = @ \cup {f}]
  /\ UNCHANGED <<rows, unknown, stage, want>>

\* FOR UPDATE waits for the holder of the row, then evaluates the condition again.
LockRow(s, f) ==
  /\ stage[s] = "locking"
  /\ NewestFirst(s, f)
  /\ ~Locked(f)
  /\ toLock' = [toLock EXCEPT ![s] = @ \ {f}]
  /\ locks' = IF linked[f] = None THEN [locks EXCEPT ![s] = @ \cup {f}] ELSE locks
  /\ UNCHANGED <<rows, unknown, stage, want>>

\* The end of the transaction releases its locks.
Release(s) == locks' = [locks EXCEPT ![s] = {}]

\* Every file asked for is locked: link them and commit with the message.
Commit(s) ==
  /\ Become(s, "locking", "committed")
  /\ toLock[s] = {}
  /\ locks[s] = want[s]
  /\ linked' = [f \in Files |-> IF f \in want[s] THEN s ELSE linked[f]]
  /\ stored' = stored \cup {s}
  /\ Release(s)
  /\ UNCHANGED <<uploaded, unknown, want, toLock>>

\* ValueError rolls the message back and becomes an error frame.
Refuse(s) ==
  /\ Become(s, "locking", "refused")
  /\ toLock[s] = {}
  /\ locks[s] # want[s]
  /\ Release(s)
  /\ UNCHANGED <<rows, unknown, want, toLock>>

\* The database rolls back what a process leaves open.
Restart(p) ==
  /\ Restarts
  /\ \E s \in Sends : Proc[s] = p /\ stage[s] \in InTransaction
  /\ stage' = [s \in Sends |->
       IF Proc[s] = p /\ stage[s] \in InTransaction THEN "lost" ELSE stage[s]]
  /\ toLock' = [s \in Sends |-> IF Proc[s] = p THEN {} ELSE toLock[s]]
  /\ locks' = [s \in Sends |-> IF Proc[s] = p THEN {} ELSE locks[s]]
  /\ UNCHANGED <<rows, unknown, want>>

(***************************************************************************)
(* Specification                                                           *)
(***************************************************************************)
Transact(s) ==
  Scan(s) \/ (\E f \in Files : LockRow(s, f)) \/ Commit(s) \/ Refuse(s)

Next ==
  \/ \E f \in Files : Upload(f)
  \/ \E s \in Sends : (\E ids \in SUBSET Files \ {{}} : Begin(s, ids)) \/ Transact(s)
  \/ \E p \in Procs : Restart(p)

Spec == Init /\ [][Next]_vars

\* The database thread runs on with a transaction it has begun.
FairSpec == Spec /\ \A s \in Sends : WF_vars(Transact(s))

(***************************************************************************)
(* Properties                                                              *)
(***************************************************************************)

\* A stored message has every attachment its sender named and all of them are the
\* sender's uploads; a send that was refused or lost has left no link behind.
SentWithAll ==
  \A s \in Sends :
    /\ {f \in Files : linked[f] = s} = IF s \in stored THEN want[s] ELSE {}
    /\ s \in stored => \A f \in want[s] : f \in uploaded /\ By[f] = Sender[s]

\* "Invalid attachment_ids (not found, not yours, or already used)": a send of the
\* sender's own uploads is refused only if another message has one of them for good;
\* two sends of one file never refuse each other.
RefusedOnlyIfTaken ==
  \A s \in Sends :
    stage[s] = "refused" =>
      \E f \in want[s] : f \in unknown[s] \/ By[f] # Sender[s] \/ linked[f] \in stored \ {s}

\* No step of any process takes an attachment from the message that has it.
LinkedForGood ==
  [][\A f \in Files : linked[f] # None => linked'[f] = linked[f]]_vars

\* What the transactions look like to those who send: see Claims.  A send has asked once its
\* locking query has read the table, and is answered at the end of its transaction.
Asked == {"locking", "committed", "refused"}

AnswerTo(s) ==
  CASE stage[s] = "locking"                  -> "asked"
    [] stage[s] = "committed"                -> "granted"
    [] stage[s] \in {"waiting", "inserted"} -> "waiting"
    [] OTHER                                 -> stage[s]

Promise == INSTANCE Claims WITH
             owner   <- linked,
             wish    <- [s \in Sends |-> IF stage[s] \in Asked THEN want[s] ELSE {}],
             missing <- unknown,
             answer  <- [s \in Sends |-> AnswerTo(s)]

\* However the row locks of several processes interleave, every send gets all of its files
\* at one moment or is refused for a reason that holds at that moment.
ImplementsClaims == Promise!Spec

\* The transaction of s needs no other to end before its own next step.
CanGoOn(s) ==
  \/ stage[s] = "inserted"
  \/ /\ stage[s] = "locking"
     /\ toLock[s] = {} \/ \E f \in Files : NewestFirst(s, f) /\ ~Locked(f)

\* Sends that name the same files in any order never wait for each other in a circle: while
\* any transaction is open, one of the open ones can go on.
NoLockCycle ==
  (\E s \in Sends : stage[s] \in InTransaction) => \E t \in Sends : CanGoOn(t)

\* No send waits for ever for rows of another, whatever files the two name.
SendIsAnswered ==
  \A s \in Sends : stage[s] \in InTransaction ~> stage[s] \in Answered
================================================================================
