--------------------------- MODULE AttachmentsProofs ---------------------------
(***************************************************************************)
(* Theorems about Attachments for every set of uploads, sends and          *)
(* processes.                                                              *)
(***************************************************************************)
EXTENDS Attachments, FiniteSetTheorems, TLAPS

\* What a transaction has locked or will lock: free uploads of its own user, each
\* locked by one send only.
LocksOK ==
  /\ \A s \in Sends : stage[s] # "locking" => toLock[s] = {} /\ locks[s] = {}
  /\ \A s \in Sends : \A f \in toLock[s] \cup locks[s] : f \in uploaded /\ By[f] = Sender[s]
  /\ \A s \in Sends : \A f \in locks[s] : linked[f] = None
  /\ \A s, t \in Sends : s # t => locks[s] \cap locks[t] = {}

StoredIsCommitted == \A s \in Sends : s \in stored <=> stage[s] = "committed"

\* Why a send may not have file f.
Unavailable(s, f) ==
  f \in unknown[s] \/ By[f] # Sender[s] \/ linked[f] \in stored \ {s}

\* Every file asked for is still to be locked, locked, or unavailable.
Accounted ==
  \A s \in Sends :
    stage[s] = "locking" =>
      \A f \in want[s] : f \in toLock[s] \cup locks[s] \/ Unavailable(s, f)

\* Rows are locked newest first: what a send still has to lock is older than what it holds.
LockOrder ==
  \A s \in Sends : \A f \in locks[s], g \in toLock[s] : g < f

IInv ==
  /\ TypeOK
  /\ LocksOK
  /\ LockOrder
  /\ StoredIsCommitted
  /\ SentWithAll
  /\ Accounted
  /\ RefusedOnlyIfTaken

LEMMA InitIInv == Init => IInv
<1> SUFFICES ASSUME Init PROVE IInv
  OBVIOUS
<1> USE AttachmentAssumption DEF Init
<1>1. TypeOK
  BY DEF TypeOK
<1>2. LocksOK /\ LockOrder /\ StoredIsCommitted
  BY DEF LocksOK, LockOrder, StoredIsCommitted
<1>3. SentWithAll
  BY DEF SentWithAll
<1>4. Accounted /\ RefusedOnlyIfTaken
  BY DEF Accounted, RefusedOnlyIfTaken
<1>5. QED
  BY <1>1, <1>2, <1>3, <1>4 DEF IInv

LEMMA TypeStep ==
  ASSUME TypeOK, LocksOK, [Next]_vars
  PROVE  TypeOK'
<1> USE AttachmentAssumption DEF TypeOK, rows, Become, InTransaction, Answered
<1>1. ASSUME NEW f \in Files, Upload(f) PROVE TypeOK'
  BY <1>1 DEF Upload
<1>2. ASSUME NEW s \in Sends, NEW ids \in SUBSET Files \ {{}}, Begin(s, ids) PROVE TypeOK'
  <2>1. toLock[s] = {} /\ locks[s] = {}
    BY <1>2 DEF Begin, LocksOK
  <2>2. QED
    BY <1>2, <2>1 DEF Begin
<1>3. ASSUME NEW s \in Sends, Scan(s) PROVE TypeOK'
  BY <1>3 DEF Scan
<1>4. ASSUME NEW s \in Sends, NEW f \in Files, LockRow(s, f) PROVE TypeOK'
  BY <1>4 DEF LockRow, NewestFirst
<1>5. ASSUME NEW s \in Sends, Commit(s) \/ Refuse(s) PROVE TypeOK'
  <2>1. linked' \in [Files -> Sends \cup {None}] /\ stored' \subseteq Sends
    BY <1>5 DEF Commit, Refuse
  <2>2. stage' \in [Sends -> {"waiting"} \cup InTransaction \cup Answered]
    BY <1>5 DEF Commit, Refuse
  <2>3. /\ locks' \in [Sends -> SUBSET Files]
        /\ \A t \in Sends : locks'[t] \subseteq locks[t]
    BY <1>5 DEF Commit, Refuse, Release
  <2>4. UNCHANGED <<uploaded, unknown, want, toLock>>
    BY <1>5 DEF Commit, Refuse
  <2>5. QED
    BY <2>1, <2>2, <2>3, <2>4
<1>6. ASSUME NEW p \in Procs, Restart(p) PROVE TypeOK'
  BY <1>6 DEF Restart
<1>7. CASE UNCHANGED vars
  BY <1>7 DEF vars
<1>8. QED
  BY <1>1, <1>2, <1>3, <1>4, <1>5, <1>6, <1>7 DEF Next, Transact

LEMMA LocksStep ==
  ASSUME TypeOK, LocksOK, [Next]_vars
  PROVE  LocksOK'
<1> USE AttachmentAssumption DEF TypeOK, LocksOK, rows, Become, InTransaction
<1>1. ASSUME NEW f \in Files, Upload(f) PROVE LocksOK'
  BY <1>1 DEF Upload
<1>2. ASSUME NEW s \in Sends, NEW ids \in SUBSET Files \ {{}}, Begin(s, ids) PROVE LocksOK'
  BY <1>2 DEF Begin
<1>3. ASSUME NEW s \in Sends, Scan(s) PROVE LocksOK'
  BY <1>3 DEF Scan, Usable
<1>4. ASSUME NEW s \in Sends, NEW f \in Files, LockRow(s, f) PROVE LocksOK'
  BY <1>4 DEF LockRow, NewestFirst, Locked
<1>5. ASSUME NEW s \in Sends, Commit(s) PROVE LocksOK'
  <2>1. \A t \in Sends : t # s => locks'[t] = locks[t] /\ toLock'[t] = toLock[t] /\ stage'[t] = stage[t]
    BY <1>5 DEF Commit, Release
  <2>2. locks'[s] = {} /\ toLock'[s] = {}
    BY <1>5 DEF Commit, Release
  <2>3. ASSUME NEW t \in Sends, NEW f \in locks'[t] PROVE linked'[f] = None
    <3>1. t # s /\ f \in locks[t] /\ f \in Files
      BY <2>1, <2>2, <2>3
    <3>2. f \notin want[s] /\ linked[f] = None
      BY <1>5, <3>1 DEF Commit
    <3>3. QED
      BY <1>5, <3>1, <3>2 DEF Commit
  <2>4. uploaded' = uploaded
    BY <1>5 DEF Commit
  <2>5. QED
    BY <2>1, <2>2, <2>3, <2>4
<1>6. ASSUME NEW s \in Sends, Refuse(s) PROVE LocksOK'
  BY <1>6 DEF Refuse, Release
<1>7. ASSUME NEW p \in Procs, Restart(p) PROVE LocksOK'
  BY <1>7 DEF Restart
<1>8. CASE UNCHANGED vars
  BY <1>8 DEF vars
<1>9. QED
  BY <1>1, <1>2, <1>3, <1>4, <1>5, <1>6, <1>7, <1>8 DEF Next, Transact

LEMMA OrderStep ==
  ASSUME TypeOK, LocksOK, LockOrder, [Next]_vars
  PROVE  LockOrder'
<1> USE AttachmentAssumption DEF TypeOK, LockOrder, rows, Become, InTransaction
<1>1. ASSUME NEW f \in Files, Upload(f) PROVE LockOrder'
  BY <1>1 DEF Upload
<1>2. ASSUME NEW s \in Sends, NEW ids \in SUBSET Files \ {{}}, Begin(s, ids) PROVE LockOrder'
  BY <1>2 DEF Begin
<1>3. ASSUME NEW s \in Sends, Scan(s) PROVE LockOrder'
  <2>1. locks[s] = {}
    BY <1>3 DEF Scan, LocksOK
  <2>2. QED
    BY <1>3, <2>1 DEF Scan
<1>4. ASSUME NEW s \in Sends, NEW f \in Files, LockRow(s, f) PROVE LockOrder'
  <2>1. \A g \in toLock[s] \ {f} : g < f
    <3>1. f \in Nat /\ toLock[s] \subseteq Nat /\ \A g \in toLock[s] : g <= f
      BY <1>4 DEF LockRow, NewestFirst
    <3>2. QED
      BY <3>1
  <2>2. toLock'[s] = toLock[s] \ {f} /\ locks'[s] \subseteq locks[s] \cup {f}
    BY <1>4 DEF LockRow
  <2>3. \A t \in Sends \ {s} : toLock'[t] = toLock[t] /\ locks'[t] = locks[t]
    BY <1>4 DEF LockRow
  <2>4. QED
    BY <2>1, <2>2, <2>3
<1>5. ASSUME NEW s \in Sends, Commit(s) \/ Refuse(s) PROVE LockOrder'
  BY <1>5 DEF Commit, Refuse, Release
<1>6. ASSUME NEW p \in Procs, Restart(p) PROVE LockOrder'
  BY <1>6 DEF Restart
<1>7. CASE UNCHANGED vars
  BY <1>7 DEF vars
<1>8. QED
  BY <1>1, <1>2, <1>3, <1>4, <1>5, <1>6, <1>7 DEF Next, Transact

\* The files a commit links were free, so it takes none from another message.
LEMMA CommitLinksFreeFiles ==
  ASSUME TypeOK, LocksOK, NEW s \in Sends, Commit(s), NEW f \in Files
  PROVE  /\ f \in want[s] => linked[f] = None /\ linked'[f] = s
         /\ f \notin want[s] => linked'[f] = linked[f]
BY DEF Commit, LocksOK, TypeOK

LEMMA StoredStep ==
  ASSUME TypeOK, LocksOK, StoredIsCommitted, SentWithAll, [Next]_vars
  PROVE  StoredIsCommitted' /\ SentWithAll'
<1> USE AttachmentAssumption
        DEF TypeOK, StoredIsCommitted, SentWithAll, rows, Become, InTransaction
<1>1. ASSUME NEW f \in Files, Upload(f) PROVE StoredIsCommitted' /\ SentWithAll'
  BY <1>1 DEF Upload
<1>2. ASSUME NEW s \in Sends, NEW ids \in SUBSET Files \ {{}}, Begin(s, ids)
      PROVE  StoredIsCommitted' /\ SentWithAll'
  BY <1>2 DEF Begin
<1>3. ASSUME NEW s \in Sends, Scan(s) PROVE StoredIsCommitted' /\ SentWithAll'
  BY <1>3 DEF Scan
<1>4. ASSUME NEW s \in Sends, NEW f \in Files, LockRow(s, f)
      PROVE  StoredIsCommitted' /\ SentWithAll'
  BY <1>4 DEF LockRow
<1>5. ASSUME NEW s \in Sends, Commit(s) PROVE StoredIsCommitted' /\ SentWithAll'
  <2>1. StoredIsCommitted'
    BY <1>5 DEF Commit
  <2>2. \A f \in want[s] : f \in uploaded /\ By[f] = Sender[s]
    BY <1>5 DEF Commit, LocksOK
  <2>3. s \notin stored /\ stored' = stored \cup {s} /\ want' = want /\ uploaded' = uploaded
    BY <1>5 DEF Commit
  <2>4. {f \in Files : linked'[f] = s} = want[s]
    <3>1. want[s] \subseteq Files /\ \A f \in Files : linked[f] # s
      BY <2>3
    <3>2. \A f \in Files : linked'[f] = s <=> f \in want[s]
      BY <1>5, <3>1, CommitLinksFreeFiles
    <3>3. QED
      BY <3>1, <3>2
  <2>5. \A t \in Sends \ {s} : {f \in Files : linked'[f] = t} = {f \in Files : linked[f] = t}
    <3>1. \A t \in Sends \ {s}, f \in Files : linked'[f] = t <=> linked[f] = t
      BY <1>5, CommitLinksFreeFiles
    <3>2. QED
      BY <3>1
  <2>6. QED
    BY <2>1, <2>2, <2>3, <2>4, <2>5
<1>6. ASSUME NEW s \in Sends, Refuse(s) PROVE StoredIsCommitted' /\ SentWithAll'
  BY <1>6 DEF Refuse
<1>7. ASSUME NEW p \in Procs, Restart(p) PROVE StoredIsCommitted' /\ SentWithAll'
  BY <1>7 DEF Restart
<1>8. CASE UNCHANGED vars
  BY <1>8 DEF vars
<1>9. QED
  BY <1>1, <1>2, <1>3, <1>4, <1>5, <1>6, <1>7, <1>8 DEF Next, Transact

\* A link that exists stays, in every step.
LEMMA LinkStays ==
  ASSUME TypeOK, LocksOK, [Next]_vars, NEW f \in Files, linked[f] # None
  PROVE  linked'[f] = linked[f]
<1>1. ASSUME NEW s \in Sends, Commit(s) PROVE linked'[f] = linked[f]
  BY <1>1, CommitLinksFreeFiles
<1>2. CASE \A s \in Sends : ~Commit(s)
  BY <1>2 DEF Next, Transact, Upload, Begin, Scan, LockRow, Refuse, Restart, vars, rows
<1>3. QED
  BY <1>1, <1>2

\* What makes a file unavailable to a send does not go away.
LEMMA UnavailableStays ==
  ASSUME TypeOK, LocksOK, [Next]_vars,
         NEW s \in Sends, NEW f \in Files, Unavailable(s, f), stage[s] # "inserted"
  PROVE  Unavailable(s, f)'
<1> USE AttachmentAssumption DEF TypeOK
<1>1. stored \subseteq stored'
  BY DEF Next, Transact, Upload, Begin, Scan, LockRow, Commit, Refuse, Restart, vars, rows
<1>2. unknown'[s] = unknown[s]
  BY DEF Next, Transact, Upload, Begin, Scan, LockRow, Commit, Refuse, Restart, vars, rows, Become
<1>3. linked[f] \in stored \ {s} => linked'[f] = linked[f]
  BY LinkStays
<1>4. QED
  BY <1>1, <1>2, <1>3 DEF Unavailable

LEMMA ReasonStep ==
  ASSUME TypeOK, LocksOK, StoredIsCommitted, SentWithAll, Accounted, RefusedOnlyIfTaken,
         [Next]_vars
  PROVE  Accounted' /\ RefusedOnlyIfTaken'
<1> USE AttachmentAssumption DEF TypeOK, rows, Become, InTransaction
<1>1. ASSUME NEW s \in Sends, stage'[s] = "locking",
             NEW f \in want'[s]
      PROVE  f \in toLock'[s] \cup locks'[s] \/ Unavailable(s, f)'
  <2>1. CASE stage[s] = "locking"
    <3>1. want'[s] = want[s] /\ f \in Files
      BY <1>1, <2>1 DEF Next, Transact, Upload, Begin, Scan, LockRow, Commit, Refuse, Restart, vars
    <3>2. CASE Unavailable(s, f)
      BY <3>1, <3>2, <2>1, UnavailableStays
    <3>3. CASE f \in locks[s]
      BY <1>1, <2>1, <3>3 DEF Next, Transact, Upload, Begin, Scan, LockRow, Commit, Refuse, Restart, vars, Release
    <3>4. CASE f \in toLock[s]
      <4>1. CASE LockRow(s, f) /\ linked[f] # None
        <5>1. linked[f] \in stored \ {s}
          BY <4>1, <3>1, <2>1 DEF SentWithAll, StoredIsCommitted
        <5>2. linked' = linked /\ stored' = stored
          BY <4>1 DEF LockRow
        <5>3. QED
          BY <5>1, <5>2 DEF Unavailable
      <4>2. CASE LockRow(s, f) /\ linked[f] = None
        BY <4>2 DEF LockRow
      <4>3. CASE ~LockRow(s, f)
        BY <1>1, <2>1, <3>4, <4>3 DEF Next, Transact, Upload, Begin, Scan, LockRow, Commit, Refuse, Restart, vars, Release
      <4>4. QED
        BY <4>1, <4>2, <4>3
    <3>5. QED
      BY <2>1, <3>1, <3>2, <3>3, <3>4 DEF Accounted
  <2>2. CASE stage[s] # "locking"
    <3>1. Scan(s)
      BY <1>1, <2>2 DEF Next, Transact, Upload, Begin, Scan, LockRow, Commit, Refuse, Restart, vars
    <3>2. linked[f] # None => linked[f] \in stored \ {s}
      BY <1>1, <3>1 DEF Scan, SentWithAll, StoredIsCommitted
    <3>3. QED
      BY <1>1, <3>1, <3>2 DEF Scan, Usable, Unavailable
  <2>3. QED
    BY <2>1, <2>2
<1>2. ASSUME NEW s \in Sends, stage'[s] = "refused"
      PROVE  \E f \in want'[s] : Unavailable(s, f)'
  <2>1. stage[s] = "refused" \/ Refuse(s)
    BY <1>2 DEF Next, Transact, Upload, Begin, Scan, LockRow, Commit, Refuse, Restart, vars
  <2>2. want'[s] = want[s] /\ stage[s] # "inserted"
    BY <2>1 DEF Next, Transact, Upload, Begin, Scan, LockRow, Commit, Refuse, Restart, vars
  <2>3. PICK f \in want[s] : Unavailable(s, f)
    <3>1. CASE stage[s] = "refused"
      BY <3>1 DEF RefusedOnlyIfTaken, Unavailable
    <3>2. CASE Refuse(s)
      BY <3>2 DEF Refuse, Accounted
    <3>3. QED
      BY <2>1, <3>1, <3>2
  <2>4. QED
    BY <2>2, <2>3, UnavailableStays
<1>3. QED
  BY <1>1, <1>2 DEF Accounted, RefusedOnlyIfTaken, Unavailable

LEMMA Inductive == IInv /\ [Next]_vars => IInv'
BY TypeStep, LocksStep, OrderStep, StoredStep, ReasonStep DEF IInv

LEMMA Invariance == Spec => []IInv
<1>1. IInv /\ [Next]_vars => IInv'
  BY Inductive
<1>2. QED
  BY <1>1, InitIInv, PTL DEF Spec

\* Every variable keeps its type, and a send locks only rows it asked for.
THEOREM TypeCorrect == Spec => []TypeOK
<1>1. IInv => TypeOK
  BY DEF IInv
<1>2. QED
  BY <1>1, Invariance, PTL

\* A stored message has exactly the attachments its sender named, all of them the
\* sender's, whatever other sends want at the same time (_create_message()).
THEOREM AllAttached == Spec => []SentWithAll
<1>1. IInv => SentWithAll
  BY DEF IInv
<1>2. QED
  BY <1>1, Invariance, PTL

\* An error frame about attachments has one of the three reasons it gives.
THEOREM RefusalHasReason == Spec => []RefusedOnlyIfTaken
<1>1. IInv => RefusedOnlyIfTaken
  BY DEF IInv
<1>2. QED
  BY <1>1, Invariance, PTL

\* No process takes an attachment from the message that has it.
THEOREM NeverTaken == Spec => LinkedForGood
<1>1. IInv /\ [Next]_vars => [\A f \in Files : linked[f] # None => linked'[f] = linked[f]]_vars
  BY LinkStays DEF IInv
<1>2. QED
  BY <1>1, Invariance, PTL DEF Spec, LinkedForGood

(***************************************************************************)
(* No circle of waiting sends                                              *)
(***************************************************************************)

\* Every set of rows has a newest and an oldest one.
LEMMA Extremes ==
  ASSUME NEW T, T \subseteq Nat, IsFiniteSet(T), T # {}
  PROVE  /\ \E f \in T : \A g \in T : g <= f
         /\ \E f \in T : \A g \in T : f <= g
<1> DEFINE Up(f)   == {g \in T : f <= g}
           Down(f) == {g \in T : g <= f}
           R       == StrictSubsetOrdering(T)
<1>1. IsWellFoundedOn(R, SUBSET T)
  BY FS_StrictSubsetOrderingWellFounded, FS_FiniteSubsetsOfFinite
<1>2. \E f \in T : \A g \in T : g <= f
  <2> DEFINE U == {Up(f) : f \in T}
  <2>1. U \subseteq SUBSET T /\ U # {}
    OBVIOUS
  <2>2. PICK u \in U : \A v \in U : <<v, u>> \notin R
    <3> HIDE DEF R, U
    <3>1. QED
      BY <1>1, <2>1, WFMin
  <2>3. PICK f \in T : u = Up(f)
    OBVIOUS
  <2>4. ASSUME NEW g \in T, ~(g <= f) PROVE FALSE
    <3>1. f \in Nat /\ g \in Nat /\ f < g
      BY <2>4
    <3>2. \A x \in Up(g) : x \in Up(f)
      <4>1. ASSUME NEW x \in Up(g) PROVE f <= x
        BY <3>1
      <4>2. QED
        BY <4>1
    <3>3. f \in Up(f) /\ f \notin Up(g)
      BY <3>1
    <3>4. <<Up(g), Up(f)>> \in R
      <4> HIDE DEF Up
      <4>1. Up(g) \in SUBSET T /\ Up(f) \in SUBSET T
        BY DEF Up
      <4>2. QED
        BY <3>2, <3>3, <4>1 DEF StrictSubsetOrdering
    <3>5. QED
      BY <2>2, <2>3, <3>4
  <2>5. QED
    BY <2>4
<1>3. \E f \in T : \A g \in T : f <= g
  <2> DEFINE U == {Down(f) : f \in T}
  <2>1. U \subseteq SUBSET T /\ U # {}
    OBVIOUS
  <2>2. PICK u \in U : \A v \in U : <<v, u>> \notin R
    <3> HIDE DEF R, U
    <3>1. QED
      BY <1>1, <2>1, WFMin
  <2>3. PICK f \in T : u = Down(f)
    OBVIOUS
  <2>4. ASSUME NEW g \in T, ~(f <= g) PROVE FALSE
    <3>1. f \in Nat /\ g \in Nat /\ g < f
      BY <2>4
    <3>2. \A x \in Down(g) : x \in Down(f)
      <4>1. ASSUME NEW x \in Down(g) PROVE x <= f
        BY <3>1
      <4>2. QED
        BY <4>1
    <3>3. f \in Down(f) /\ f \notin Down(g)
      BY <3>1
    <3>4. <<Down(g), Down(f)>> \in R
      <4> HIDE DEF Down
      <4>1. Down(g) \in SUBSET T /\ Down(f) \in SUBSET T
        BY DEF Down
      <4>2. QED
        BY <3>2, <3>3, <4>1 DEF StrictSubsetOrdering
    <3>5. QED
      BY <2>2, <2>3, <3>4
  <2>5. QED
    BY <2>4
<1>4. QED
  BY <1>2, <1>3

\* A send with rows to lock comes to one of them next.
LEMMA HasNext ==
  ASSUME TypeOK, NEW s \in Sends, toLock[s] # {}
  PROVE  \E f \in Files : NewestFirst(s, f)
<1>1. toLock[s] \subseteq Files
  BY DEF TypeOK
<1>2. toLock[s] \subseteq Nat /\ IsFiniteSet(toLock[s])
  BY <1>1, AttachmentAssumption, FS_Subset
<1>3. QED
  BY <1>1, <1>2, Extremes DEF NewestFirst

\* The send whose next row is the oldest of all finds it free: its holder would have to be
\* waiting for a row still older.
LEMMA OldestIsFree == IInv => NoLockCycle
<1> SUFFICES ASSUME IInv, NEW s \in Sends, stage[s] \in InTransaction
             PROVE  \E t \in Sends : CanGoOn(t)
  BY DEF NoLockCycle
<1> USE AttachmentAssumption DEF IInv
<1>1. CASE \E t \in Sends : stage[t] = "inserted" \/ (stage[t] = "locking" /\ toLock[t] = {})
  BY <1>1 DEF CanGoOn
<1>2. CASE \A t \in Sends : stage[t] # "inserted" /\ (stage[t] = "locking" => toLock[t] # {})
  <2> DEFINE W == {f \in Files : \E t \in Sends : stage[t] = "locking" /\ NewestFirst(t, f)}
  <2>1. stage[s] = "locking"
    BY <1>2 DEF InTransaction
  <2>2. W # {}
    BY <1>2, <2>1, HasNext
  <2>3. W \subseteq Nat /\ IsFiniteSet(W)
    BY FS_Subset
  <2>4. PICK f \in W : \A g \in W : f <= g
    BY <2>2, <2>3, Extremes
  <2>5. PICK t \in Sends : stage[t] = "locking" /\ NewestFirst(t, f)
    BY <2>4
  <2>6. ~Locked(f)
    <3> SUFFICES ASSUME NEW u \in Sends, f \in locks[u]
                 PROVE  FALSE
      BY DEF Locked
    <3>1. stage[u] = "locking"
      BY DEF LocksOK
    <3>2. PICK g \in Files : NewestFirst(u, g)
      BY <1>2, <3>1, HasNext
    <3>3. g < f
      BY <3>2 DEF NewestFirst, LockOrder
    <3>4. f <= g
      BY <2>4, <3>1, <3>2
    <3>5. QED
      BY <2>3, <3>3, <3>4
  <2>7. QED
    BY <2>4, <2>5, <2>6 DEF CanGoOn
<1>3. QED
  BY <1>1, <1>2

\* However many sends and processes compete for the same rows of chat_attachment, the order
\* of Meta.ordering keeps them from locking each other out.
THEOREM NeverStuck == Spec => []NoLockCycle
<1>1. QED
  BY OldestIsFree, Invariance, PTL

(***************************************************************************)
(* The row locks implement Claims                                          *)
(***************************************************************************)
Wish == [s \in Sends |-> IF stage[s] \in Asked THEN want[s] ELSE {}]
Told == [s \in Sends |-> AnswerTo(s)]

LEMMA ClaimsInit == Init => Promise!Init
BY DEF Init, Promise!Init, Asked, AnswerTo

\* A send's view changes only with its own stage, and its files only before it has asked.
LEMMA ViewStep ==
  ASSUME TypeOK, NEW s \in Sends,
         stage' \in [Sends -> {"waiting"} \cup InTransaction \cup Answered],
         \A t \in Sends \ {s} : stage'[t] = stage[t] /\ want'[t] = want[t]
  PROVE  /\ Wish' = [Wish EXCEPT ![s] = IF stage'[s] \in Asked THEN want'[s] ELSE {}]
         /\ Told' = [Told EXCEPT ![s] = AnswerTo(s)']
BY DEF TypeOK, Wish, Told, AnswerTo

LEMMA GrantStep ==
  ASSUME IInv, NEW s \in Sends, Commit(s)
  PROVE  Promise!Grant(s)
<1> USE AttachmentAssumption DEF IInv, TypeOK, Become, Asked, AnswerTo
<1>1. Told[s] = "asked" /\ Wish[s] = want[s]
  BY DEF Commit, Told, Wish
<1>2. Wish' = [Wish EXCEPT ![s] = want[s]] /\ Told' = [Told EXCEPT ![s] = "granted"]
  BY ViewStep DEF Commit, InTransaction, Answered
<1>3. Wish' = Wish
  BY <1>1, <1>2 DEF Wish
<1>4. \A f \in want[s] : f \in uploaded /\ By[f] = Sender[s] /\ linked[f] = None
  BY DEF Commit, LocksOK
<1>5. UNCHANGED <<uploaded, unknown>> /\ linked' = [f \in Files |-> IF f \in want[s] THEN s ELSE linked[f]]
  BY DEF Commit
<1>6. QED
  BY <1>1, <1>2, <1>3, <1>4, <1>5 DEF Promise!Grant, Promise!Answer, Wish, Told

LEMMA RefuseStep ==
  ASSUME IInv, NEW s \in Sends, Refuse(s)
  PROVE  Promise!Refuse(s)
<1> USE AttachmentAssumption DEF IInv, TypeOK, Become, Asked, AnswerTo
<1>1. Told[s] = "asked" /\ Wish[s] = want[s]
  BY DEF Refuse, Told, Wish
<1>2. Wish' = [Wish EXCEPT ![s] = want[s]] /\ Told' = [Told EXCEPT ![s] = "refused"]
  BY ViewStep DEF Refuse, InTransaction, Answered
<1>3. Wish' = Wish
  BY <1>1, <1>2 DEF Wish
<1>4. \E f \in want[s] : f \in unknown[s] \/ By[f] # Sender[s] \/ linked[f] # None
  <2>1. PICK f \in want[s] : f \notin toLock[s] \cup locks[s]
    BY DEF Refuse
  <2>2. Unavailable(s, f)
    BY <2>1 DEF Refuse, Accounted
  <2>3. QED
    BY <2>2 DEF Unavailable
<1>5. UNCHANGED <<uploaded, linked, unknown>>
  BY DEF Refuse, rows
<1>6. QED
  BY <1>1, <1>2, <1>3, <1>4, <1>5 DEF Promise!Refuse, Promise!Answer, Wish, Told

LEMMA AskStep ==
  ASSUME IInv, NEW s \in Sends, Scan(s), NEW ids \in SUBSET Files, ids = want[s]
  PROVE  Promise!Ask(s, ids)
<1> USE AttachmentAssumption DEF IInv, TypeOK, Become, Asked, AnswerTo
<1>1. Told[s] = "waiting"
  BY DEF Scan, Told
<1>2. Wish' = [Wish EXCEPT ![s] = want[s]] /\ Told' = [Told EXCEPT ![s] = "asked"]
  BY ViewStep DEF Scan, InTransaction, Answered
<1>3. UNCHANGED <<uploaded, linked>> /\ unknown' = [unknown EXCEPT ![s] = want[s] \ uploaded]
  BY DEF Scan, rows
<1>4. QED
  BY <1>1, <1>2, <1>3 DEF Promise!Ask, Promise!Answer, Wish, Told

LEMMA LoseStep ==
  ASSUME IInv, NEW p \in Procs, Restart(p),
         NEW S \in SUBSET Sends, S = {s \in Sends : Proc[s] = p /\ stage[s] \in InTransaction}
  PROVE  Promise!Lose(S)
<1> USE AttachmentAssumption DEF IInv, TypeOK, Asked, AnswerTo
<1>1. \A s \in S : Told[s] \in {"waiting", "asked"}
  BY DEF Told, InTransaction
<1>2. Told' = [s \in Sends |-> IF s \in S THEN "lost" ELSE Told[s]]
  BY DEF Restart, Told, InTransaction
<1>3. Wish' = [s \in Sends |-> IF s \in S THEN {} ELSE Wish[s]]
  BY DEF Restart, Wish, InTransaction
<1>4. UNCHANGED <<uploaded, linked, unknown>>
  BY DEF Restart, rows
<1>5. QED
  BY <1>1, <1>2, <1>3, <1>4 DEF Promise!Lose, Wish, Told

LEMMA ClaimsStep ==
  ASSUME IInv, [Next]_vars
  PROVE  [Promise!Next]_(Promise!vars)
<1> USE DEF IInv
<1>1. ASSUME NEW f \in Files, Upload(f) PROVE Promise!Next
  BY <1>1 DEF Upload, Promise!Next, Promise!Upload, AnswerTo
<1>2. ASSUME NEW s \in Sends, NEW ids \in SUBSET Files \ {{}}, Begin(s, ids)
      PROVE  UNCHANGED Promise!vars
  <2>1. Wish' = [Wish EXCEPT ![s] = {}] /\ Told' = [Told EXCEPT ![s] = "waiting"]
    BY <1>2, ViewStep DEF Begin, Become, TypeOK, Asked, AnswerTo, InTransaction, Answered
  <2>2. Wish[s] = {} /\ Told[s] = "waiting"
    BY <1>2 DEF Begin, Become, Wish, Told, Asked, AnswerTo
  <2>3. Wish' = Wish /\ Told' = Told
    BY <2>1, <2>2 DEF Wish, Told
  <2>4. QED
    BY <1>2, <2>3 DEF Begin, rows, Promise!vars, Wish, Told
<1>3. ASSUME NEW s \in Sends, Scan(s) PROVE Promise!Next
  <2>1. PICK ids \in SUBSET Files : ids = want[s]
    BY DEF TypeOK
  <2>2. Promise!Ask(s, ids)
    BY <1>3, <2>1, AskStep
  <2>3. QED
    BY <2>2 DEF Promise!Next
<1>4. ASSUME NEW s \in Sends, NEW f \in Files, LockRow(s, f) PROVE UNCHANGED Promise!vars
  BY <1>4 DEF LockRow, rows, Promise!vars, AnswerTo
<1>5. ASSUME NEW s \in Sends, Commit(s) \/ Refuse(s) PROVE Promise!Next
  BY <1>5, GrantStep, RefuseStep DEF Promise!Next
<1>6. ASSUME NEW p \in Procs, Restart(p) PROVE Promise!Next
  <2>1. PICK S \in SUBSET Sends : S = {s \in Sends : Proc[s] = p /\ stage[s] \in InTransaction}
    OBVIOUS
  <2>2. Promise!Lose(S)
    BY <1>6, <2>1, LoseStep
  <2>3. QED
    BY <2>2 DEF Promise!Next
<1>7. CASE UNCHANGED vars
  BY <1>7 DEF vars, Promise!vars, AnswerTo
<1>8. QED
  BY <1>1, <1>2, <1>3, <1>4, <1>5, <1>6, <1>7 DEF Next, Transact

\* The transactions of _create_message(), with a step for every row they lock, implement
\* claims that are decided at one moment, for any sends, uploads and processes.
THEOREM SendsAreClaims == Spec => ImplementsClaims
<1>1. QED
  BY ClaimsInit, ClaimsStep, Invariance, PTL DEF Spec, ImplementsClaims, Promise!Spec
================================================================================
