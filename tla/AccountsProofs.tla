----------------------------- MODULE AccountsProofs -----------------------------
(***************************************************************************)
(* Theorems about Accounts for every set of requests, roles and profiles,  *)
(* every validity and every length of the run.                             *)
(***************************************************************************)
EXTENDS Accounts, TLAPS

(***************************************************************************)
(* The inductive invariant                                                 *)
(***************************************************************************)
Busy(r) == stage[r] \in {"read", "saving", "saved"}

\* A request at work has an instance of a user that has existed; a login that was
\* accepted has cleared the code in its own.
Shape ==
  /\ row # None => row.id < births
  /\ \A r \in Requests : Busy(r) => /\ kind[r] \in Kinds
                                    /\ obj[r] \in Row
                                    /\ obj[r].id < births
  /\ \A r \in Requests : Open(r) /\ kind[r] = "login" => guess[r] \in Codes
  /\ \A r \in Requests : stage[r] = "saving" /\ kind[r] = "login" => obj[r].otp = None

\* A code in a row or an instance was generated, at the time that stands beside it.
Dated(o) == o.otp # None => issued[o.otp] # None /\ o.at = issued[o.otp]

CodesDated ==
  /\ row # None => Dated(row)
  /\ \A r \in Requests : Open(r) => Dated(obj[r])
  /\ \A r \in Requests : stage[r] \in {"idle", "read"} => issued[r] = None
  /\ \A r \in Requests : Open(r) /\ kind[r] = "login" => issued[guess[r]] # None
  /\ \A c \in spent : issued[c] # None

\* A code that is being stored for the first time is nowhere else yet.
Fresh ==
  \A r \in Requests : stage[r] = "saving" /\ kind[r] = "code" =>
    /\ obj[r].otp = r
    /\ r \notin spent
    /\ row # None => row.otp # r
    /\ \A q \in Requests \ {r} : Open(q) => obj[q].otp # r
    /\ \A q \in Requests \ {r} : ~(stage[q] = "saving" /\ kind[q] = "login" /\ guess[q] = r)

\* A code is spent for good unless an instance has kept it.
Unspent ==
  \A c \in spent \ leftover :
    /\ row # None => row.otp # c
    /\ \A q \in Requests : ~Holds(q, c)

\* Instance o differs from row w in the columns of k only.
Keeps(o, w, k) ==
  /\ o.id = w.id
  /\ k \notin {"code", "login"} => o.otp = w.otp /\ o.at = w.at
  /\ k \notin {"edit", "activation"} => o.active = w.active
  /\ k # "edit" => o.role = w.role
  /\ k # "profile" => o.profile = w.profile

\* The instance of a request that nobody has overtaken is the row, but for its columns.
Current ==
  \A r \in Requests \ overtaken : Open(r) =>
    /\ row # None
    /\ stage[r] = "read" => obj[r] = row
    /\ Keeps(obj[r], row, kind[r])

\* The last account notifications agree with flags f.
Agree(f) ==
  /\ told.active \in {None, f.active}
  /\ told.role \in {None, NoRole, f.role}

SameUser(r) == row # None /\ row.id = obj[r].id

ToldOK ==
  /\ row = None => told = [active |-> None, role |-> None]
  /\ ~muddled =>
       /\ \A q, r \in Requests : Saving(q) /\ Saving(r) => q = r
       /\ (row # None /\ \A q \in Requests : stage[q] = "saved" => ~SameUser(q)) => Agree(row)
       /\ \A r \in Requests : stage[r] = "saving" /\ SameUser(r) => prev[r] = FlagsOf(row)
       /\ \A r \in Requests : stage[r] = "saved" /\ SameUser(r) =>
            /\ row.active = obj[r].active /\ row.role = obj[r].role
            /\ prev[r] # None /\ Agree(prev[r])

IInv ==
  /\ TypeOK
  /\ Shape
  /\ CodesDated
  /\ Fresh
  /\ Unspent
  /\ Current
  /\ ToldOK

(***************************************************************************)
(* The steps, by what they do to the row and to the request                *)
(***************************************************************************)
\* A save begins with instance o.
Writes(r, k, o) ==
  /\ SaveBegins(r, k, o)
  /\ o \in Row
  /\ Keeps(o, obj[r], k)
  /\ k = "code" => o.otp = r /\ o.at = now /\ issued' = [issued EXCEPT ![r] = now]
  /\ k # "code" => issued' = issued
  /\ k = "login" => o.otp = None /\ obj[r].otp = guess[r] /\ Usable(obj[r], guess[r])

\* A request ends without touching the row or telling anything.
Quits(r) ==
  /\ Busy(r)
  /\ Ends(r)
  /\ UNCHANGED <<row, births, now, told, issued, spent, leftover>>
  /\ muddled' \in BOOLEAN
  /\ ~muddled' => ~muddled /\ stage[r] # "saved"

RequestStep(r) ==
  \/ GetOrCreate(r)
  \/ \E k \in Kinds, g \in Codes \cup {None} : Get(r, k, g) /\ (k = "login" => g \in Codes) /\ k # "code"
  \/ \E k \in Kinds, o \in Row : Writes(r, k, o)
  \/ UpdateRow(r) \/ InsertRow(r) \/ Quits(r) \/ Tell(r)

LEMMA ChangeWrites ==
  ASSUME TypeOK, Shape, NEW r \in Requests, Change(r)
  PROVE  Quits(r) \/ \E k \in Kinds, o \in Row : Writes(r, k, o)
<1> USE AccountAssumption DEF Kinds
<1>1. CASE GenerateOtp(r)
  <2> DEFINE o == [obj[r] EXCEPT !.otp = r, !.at = now]
  <2>1. obj[r] \in Row /\ now \in Nat
    BY <1>1 DEF GenerateOtp, SaveBegins, Shape, Busy, TypeOK
  <2>2. o \in Row /\ o.otp = r /\ o.at = now /\ Keeps(o, obj[r], "code")
    BY <2>1 DEF Row, Codes, Keeps
  <2>3. QED
    BY <1>1, <2>2 DEF GenerateOtp, Writes
<1>2. CASE VerifyOtp(r)
  <2> DEFINE o == [obj[r] EXCEPT !.otp = None, !.at = None]
  <2>1. obj[r] \in Row
    BY <1>2 DEF VerifyOtp, SaveBegins, Shape, Busy
  <2>2. o \in Row /\ o.otp = None /\ Keeps(o, obj[r], "login")
    BY <2>1 DEF Row, Keeps
  <2>3. QED
    BY <1>2, <2>2 DEF VerifyOtp, Writes, Usable
<1>3. CASE RefuseOtp(r)
  BY <1>3 DEF RefuseOtp, Quits, Busy, TypeOK
<1>4. ASSUME NEW p \in Profiles, ChangeProfile(r, p)
      PROVE  \E k \in Kinds, o \in Row : Writes(r, k, o)
  <2> DEFINE o == [obj[r] EXCEPT !.profile = p]
  <2>1. obj[r] \in Row
    BY <1>4 DEF ChangeProfile, SaveBegins, Shape, Busy
  <2>2. o \in Row /\ Keeps(o, obj[r], "profile")
    BY <2>1 DEF Row, Keeps
  <2>3. QED
    BY <1>4, <2>2 DEF ChangeProfile, Writes
<1>5. ASSUME NEW b \in BOOLEAN, SetActive(r, b)
      PROVE  \E k \in Kinds, o \in Row : Writes(r, k, o)
  <2> DEFINE o == [obj[r] EXCEPT !.active = b]
  <2>1. obj[r] \in Row
    BY <1>5 DEF SetActive, SaveBegins, Shape, Busy
  <2>2. o \in Row /\ Keeps(o, obj[r], "activation")
    BY <2>1 DEF Row, Keeps
  <2>3. QED
    BY <1>5, <2>2 DEF SetActive, Writes
<1>6. ASSUME NEW b \in BOOLEAN, NEW x \in Roles, EditUser(r, b, x)
      PROVE  \E k \in Kinds, o \in Row : Writes(r, k, o)
  <2> DEFINE o == [obj[r] EXCEPT !.active = b, !.role = x]
  <2>1. obj[r] \in Row
    BY <1>6 DEF EditUser, SaveBegins, Shape, Busy
  <2>2. o \in Row /\ Keeps(o, obj[r], "edit")
    BY <2>1 DEF Row, Keeps
  <2>3. QED
    BY <1>6, <2>2 DEF EditUser, Writes
<1>7. QED
  BY <1>1, <1>2, <1>3, <1>4, <1>5, <1>6 DEF Change

LEMMA Steps ==
  ASSUME TypeOK, Shape, Next
  PROVE  (\E r \in Requests : RequestStep(r)) \/ DeleteUser \/ Tick
<1>1. ASSUME NEW r \in Requests, Start(r) PROVE RequestStep(r)
  BY <1>1 DEF Start, RequestStep, Kinds
<1>2. ASSUME NEW r \in Requests, Change(r) PROVE RequestStep(r)
  BY <1>2, ChangeWrites DEF RequestStep
<1>3. ASSUME NEW r \in Requests, Save(r) \/ Breaks(r) PROVE RequestStep(r)
  BY <1>3 DEF Save, SaveFails, Breaks, Quits, Busy, Saving, RequestStep, TypeOK
<1>4. QED
  BY <1>1, <1>2, <1>3 DEF Next

(***************************************************************************)
(* Each part of the invariant                                              *)
(***************************************************************************)
LEMMA InitIInv == Init => IInv
<1> SUFFICES ASSUME Init PROVE IInv
  OBVIOUS
<1> USE AccountAssumption DEF Init
<1>0. PICK c \in {OldCode, None}, b \in BOOLEAN, x \in Roles, p \in Profiles :
        row = [id |-> 0, otp |-> c, at |-> IF c = None THEN None ELSE 0,
               active |-> b, role |-> x, profile |-> p]
  OBVIOUS
<1>1. row \in Row
  BY <1>0 DEF Row, Codes
<1>2. TypeOK
  BY <1>1 DEF TypeOK, Kinds, Codes, Told
<1>3. Shape
  BY <1>0 DEF Shape, Busy, Open
<1>4. CodesDated
  <2>1. issued[OldCode] = 0 /\ 0 # None
    BY DEF Codes
  <2>2. Dated(row)
    BY <1>0, <2>1 DEF Dated
  <2>3. \A r \in Requests : issued[r] = None
    BY DEF Codes
  <2>4. \A d \in spent : d = OldCode
    BY <1>0
  <2>5. QED
    BY <2>1, <2>2, <2>3, <2>4 DEF CodesDated, Open
<1>5. Fresh /\ Unspent /\ Current
  BY <1>0 DEF Fresh, Unspent, Holds, Open, Current
<1>6. ToldOK
  BY <1>0, <1>1 DEF ToldOK, Agree, Saving
<1>7. QED
  BY <1>2, <1>3, <1>4, <1>5, <1>6 DEF IInv

\* What a save stores is a row of the same user.
LEMMA SavedIsRow ==
  ASSUME TypeOK, Shape, NEW r \in Requests, Busy(r), row # None \/ kind[r] # "activation"
  PROVE  /\ Saved(r) \in Row
         /\ kind[r] = "activation" => /\ Saved(r).id = row.id /\ Saved(r).otp = row.otp
                                      /\ Saved(r).at = row.at /\ Saved(r).role = row.role
                                      /\ Saved(r).profile = row.profile
                                      /\ Saved(r).active = obj[r].active
         /\ kind[r] # "activation" => Saved(r) = obj[r]
<1>1. obj[r] \in Row
  BY DEF Shape
<1>2. CASE kind[r] = "activation"
  <2>1. row \in Row
    BY <1>2 DEF TypeOK
  <2>2. QED
    BY <1>1, <1>2, <2>1 DEF Saved, Row
<1>3. CASE kind[r] # "activation"
  BY <1>1, <1>3 DEF Saved
<1>4. QED
  BY <1>2, <1>3

LEMMA SpentType ==
  ASSUME TypeOK, NEW R \in SUBSET Requests, NEW C \in SUBSET Codes, Spends(R, C)
  PROVE  spent' \subseteq Codes /\ leftover' \subseteq Codes
BY DEF TypeOK, Spends

LEMMA ReplacedType ==
  ASSUME TypeOK
  PROVE  Replaced \subseteq Codes
BY DEF TypeOK, Replaced, Row

LEMMA UsedType ==
  ASSUME TypeOK, Shape, NEW r \in Requests, stage[r] = "saving"
  PROVE  Used(r) \subseteq Codes
BY DEF Used, Shape, Open

LEMMA EndsType ==
  ASSUME TypeOK, NEW r \in Requests, Ends(r)
  PROVE  /\ stage' \in [Requests -> {"idle", "read", "saving", "saved", "done"}]
         /\ kind' \in [Requests -> Kinds \cup {None}]
         /\ guess' \in [Requests -> Codes \cup {None}]
         /\ obj' \in [Requests -> Row \cup {None}]
         /\ prev' \in [Requests -> Flags \cup {None}]
         /\ overtaken' \subseteq Requests
BY DEF TypeOK, Ends, Overtakes

LEMMA TypeStep ==
  ASSUME TypeOK, Shape, [Next]_vars
  PROVE  TypeOK'
<1> USE AccountAssumption
<1>1. ASSUME NEW r \in Requests, GetOrCreate(r) PROVE TypeOK'
  <2>1. row' \in Row /\ births' \in Nat
    <3>1. CASE row # None /\ UNCHANGED <<row, births>>
      BY <3>1 DEF TypeOK
    <3>2. ASSUME NEW x \in Roles, NEW p \in Profiles, row' = NewUser(x, p), births' = births + 1
          PROVE  row' \in Row /\ births' \in Nat
      BY <3>2 DEF TypeOK, NewUser, Row
    <3>3. QED
      BY <1>1, <3>1, <3>2 DEF GetOrCreate
  <2>2. QED
    BY <1>1, <2>1 DEF GetOrCreate, Starts, TypeOK, history, Kinds
<1>2. ASSUME NEW r \in Requests, NEW k \in Kinds, NEW g \in Codes \cup {None}, Get(r, k, g)
      PROVE  TypeOK'
  BY <1>2 DEF Get, Starts, TypeOK, history
<1>3. ASSUME NEW r \in Requests, NEW k \in Kinds, NEW o \in Row, Writes(r, k, o)
      PROVE  TypeOK'
  <2>1. prev' \in [Requests -> Flags \cup {None}]
    BY <1>3 DEF Writes, SaveBegins, TypeOK, FlagsOf, Flags, Row
  <2>2. issued' \in [Codes -> Nat \cup {None}]
    BY <1>3 DEF Writes, TypeOK, Codes
  <2>3. muddled' \in BOOLEAN
    BY <1>3 DEF Writes, SaveBegins, TypeOK
  <2>4. QED
    BY <1>3, <2>1, <2>2, <2>3 DEF Writes, SaveBegins, TypeOK, history
<1>4. ASSUME NEW r \in Requests, UpdateRow(r) PROVE TypeOK'
  <2>1. row' \in Row
    BY <1>4, SavedIsRow DEF UpdateRow, Busy
  <2>2. spent' \subseteq Codes /\ leftover' \subseteq Codes
    <3>1. Replaced \cup Used(r) \subseteq Codes
      BY <1>4, ReplacedType, UsedType DEF UpdateRow
    <3>2. QED
      BY <1>4, <3>1, SpentType DEF UpdateRow
  <2>3. muddled' \in BOOLEAN
    BY <1>4 DEF UpdateRow, TypeOK
  <2>4. QED
    BY <1>4, <2>1, <2>2, <2>3 DEF UpdateRow, TypeOK, Overtakes
<1>5. ASSUME NEW r \in Requests, InsertRow(r) PROVE TypeOK'
  <2>1. row' \in Row
    BY <1>5, SavedIsRow DEF InsertRow, Busy
  <2>2. spent' \subseteq Codes /\ leftover' \subseteq Codes
    BY <1>5, UsedType, SpentType DEF InsertRow
  <2>3. QED
    BY <1>5, <2>1, <2>2, EndsType DEF InsertRow, TypeOK
<1>6. ASSUME NEW r \in Requests, Quits(r) PROVE TypeOK'
  <2>1. muddled' \in BOOLEAN
    BY <1>6 DEF Quits
  <2>2. QED
    BY <1>6, <2>1, EndsType DEF Quits, TypeOK
<1>7. ASSUME NEW r \in Requests, Tell(r) PROVE TypeOK'
  <2>1. told' \in Told
    <3>1. obj[r] \in Row
      BY <1>7 DEF Tell, Shape, Busy
    <3>2. obj[r].active \in BOOLEAN /\ obj[r].role \in Roles
      BY <3>1 DEF Row
    <3>3. QED
      BY <1>7, <3>2 DEF Tell, TypeOK, Told
  <2>2. QED
    BY <1>7, <2>1, EndsType DEF Tell, TypeOK
<1>8. CASE DeleteUser
  <2>1. spent' \subseteq Codes /\ leftover' \subseteq Codes
    BY <1>8, ReplacedType, SpentType DEF DeleteUser
  <2>2. QED
    BY <1>8, <2>1 DEF DeleteUser, Overtakes, TypeOK, Told, requestVars
<1>9. CASE Tick
  BY <1>9 DEF Tick, TypeOK, requestVars, history
<1>10. CASE UNCHANGED vars
  BY <1>10 DEF vars, TypeOK, requestVars
<1>11. QED
  BY <1>1, <1>2, <1>3, <1>4, <1>5, <1>6, <1>7, <1>8, <1>9, <1>10, Steps DEF RequestStep

LEMMA NewUserIsRow ==
  ASSUME TypeOK, NEW x \in Roles, NEW p \in Profiles
  PROVE  /\ NewUser(x, p) \in Row /\ NewUser(x, p) # None
         /\ NewUser(x, p).id = births
         /\ NewUser(x, p).otp = None
<1>1. births \in Nat
  BY DEF TypeOK
<1>2. NewUser(x, p) \in Row
  BY <1>1 DEF NewUser, Row
<1>3. None \notin Row
  BY AccountAssumption
<1>4. QED
  BY <1>2, <1>3 DEF NewUser

\* GetOrCreate, by whether the user is known.
LEMMA GetOrCreateCases ==
  ASSUME TypeOK, Shape, NEW r \in Requests, GetOrCreate(r)
  PROVE  /\ row' \in Row /\ row' # None /\ births' \in Nat
         /\ row'.id < births' /\ births <= births'
         /\ \/ row # None /\ row' = row /\ births' = births
            \/ row = None /\ row'.otp = None /\ row'.id = births
         /\ Starts(r, "code", None, row')
         /\ UNCHANGED <<now, told, issued, history, muddled>>
<1>1. CASE row # None /\ UNCHANGED <<row, births>>
  BY <1>1 DEF TypeOK, Shape, GetOrCreate
<1>2. ASSUME NEW x \in Roles, NEW p \in Profiles,
             row = None, row' = NewUser(x, p), births' = births + 1
      PROVE  /\ row' \in Row /\ row' # None /\ births' \in Nat
             /\ row'.id < births' /\ births <= births'
             /\ row = None /\ row'.otp = None /\ row'.id = births
  BY <1>2, NewUserIsRow DEF TypeOK
<1>3. QED
  BY <1>1, <1>2 DEF GetOrCreate

LEMMA ShapeStep ==
  ASSUME TypeOK, Shape, [Next]_vars
  PROVE  Shape'
<1> USE AccountAssumption
<1>1. ASSUME NEW r \in Requests, GetOrCreate(r) PROVE Shape'
  <2>1. births \in Nat
    BY DEF TypeOK
  <2>2. \A q \in Requests \ {r} : Busy(q)' => obj'[q] \in Row /\ obj'[q].id < births'
    BY <1>1, <2>1, GetOrCreateCases DEF Shape, Busy, Starts, Row, TypeOK
  <2>3. QED
    BY <1>1, <2>2, GetOrCreateCases DEF Shape, Busy, Open, Starts, TypeOK, Kinds
<1>2. ASSUME NEW r \in Requests, NEW k \in Kinds, NEW g \in Codes \cup {None}, Get(r, k, g),
             k = "login" => g \in Codes
      PROVE  Shape'
  BY <1>2 DEF Get, Starts, Shape, Busy, Open, TypeOK
<1>3. ASSUME NEW r \in Requests, NEW k \in Kinds, NEW o \in Row, Writes(r, k, o)
      PROVE  Shape'
  BY <1>3 DEF Writes, SaveBegins, Keeps, Shape, Busy, Open, TypeOK
<1>4. ASSUME NEW r \in Requests, UpdateRow(r) PROVE Shape'
  <2>1. row' = Saved(r) /\ Saved(r).id < births
    BY <1>4, SavedIsRow DEF UpdateRow, Busy, Shape
  <2>2. QED
    BY <1>4, <2>1 DEF UpdateRow, Shape, Busy, Open, TypeOK
<1>5. ASSUME NEW r \in Requests, InsertRow(r) PROVE Shape'
  <2>1. row' = Saved(r) /\ Saved(r).id < births
    BY <1>5, SavedIsRow DEF InsertRow, Busy, Shape
  <2>2. QED
    BY <1>5, <2>1 DEF InsertRow, Ends, Shape, Busy, Open, TypeOK
<1>6. ASSUME NEW r \in Requests, Quits(r) \/ Tell(r) PROVE Shape'
  BY <1>6 DEF Quits, Tell, Ends, Shape, Busy, Open, TypeOK
<1>7. CASE DeleteUser
  BY <1>7 DEF DeleteUser, requestVars, Shape, Busy, Open
<1>8. CASE Tick
  BY <1>8 DEF Tick, requestVars, Shape, Busy, Open
<1>9. CASE UNCHANGED vars
  BY <1>9 DEF vars, requestVars, Shape, Busy, Open
<1>10. QED
  BY <1>1, <1>2, <1>3, <1>4, <1>5, <1>6, <1>7, <1>8, <1>9, Steps DEF RequestStep

LEMMA CodesStep ==
  ASSUME TypeOK, Shape, CodesDated, [Next]_vars
  PROVE  CodesDated'
<1> USE AccountAssumption
<1>1. ASSUME NEW r \in Requests, GetOrCreate(r) PROVE CodesDated'
  <2>1. Dated(row)'
    BY <1>1, GetOrCreateCases DEF CodesDated, Dated
  <2>2. QED
    BY <1>1, <2>1, GetOrCreateCases DEF CodesDated, Dated, Open, Starts, TypeOK, history
<1>2. ASSUME NEW r \in Requests, NEW k \in Kinds, NEW g \in Codes \cup {None}, Get(r, k, g),
             k = "login" => g \in Codes
      PROVE  CodesDated'
  BY <1>2 DEF Get, Starts, CodesDated, Dated, Open, TypeOK, history
<1>3. ASSUME NEW r \in Requests, NEW k \in Kinds, NEW o \in Row, Writes(r, k, o)
      PROVE  CodesDated'
  <2>1. \A c \in Codes : issued[c] # None => issued'[c] = issued[c]
    BY <1>3 DEF Writes, SaveBegins, CodesDated, TypeOK, Codes
  <2>2. \A q \in Requests \ {r} : issued'[q] = issued[q]
    BY <1>3 DEF Writes, SaveBegins, CodesDated, TypeOK, Codes
  <2>3. row' # None => Dated(row)'
    BY <1>3, <2>1 DEF Writes, SaveBegins, CodesDated, Dated, TypeOK, Row
  <2>4. Dated(o)'
    <3>1. CASE k = "code"
      BY <1>3, <3>1 DEF Writes, Dated, TypeOK, Codes
    <3>2. CASE k = "login"
      BY <1>3, <3>2 DEF Writes, Dated
    <3>3. CASE k \notin {"code", "login"}
      BY <1>3, <3>3 DEF Writes, SaveBegins, CodesDated, Dated, Keeps, Open
    <3>4. QED
      BY <3>1, <3>2, <3>3
  <2>5. \A q \in Requests : Open(q)' => Dated(obj[q])'
    <3>1. obj'[r] = o
      BY <1>3 DEF Writes, SaveBegins, TypeOK
    <3>2. ASSUME NEW q \in Requests \ {r}, Open(q)' PROVE Dated(obj[q])'
      <4>1. Open(q) /\ obj'[q] = obj[q] /\ obj[q] \in Row
        BY <1>3, <3>2 DEF Writes, SaveBegins, Open, TypeOK, Shape, Busy
      <4>2. QED
        BY <2>1, <4>1 DEF CodesDated, Dated, Row
    <3>3. QED
      BY <2>4, <3>1, <3>2 DEF Dated
  <2>6. \A c \in spent' : issued'[c] # None
    BY <1>3, <2>1 DEF Writes, SaveBegins, CodesDated, TypeOK, history
  <2>7. \A q \in Requests : (Open(q) /\ kind[q] = "login")' => issued'[guess'[q]] # None
    BY <1>3, <2>1 DEF Writes, SaveBegins, CodesDated, TypeOK, Open, Shape
  <2>8. \A q \in Requests : stage'[q] \in {"idle", "read"} => issued'[q] = None
    BY <1>3, <2>2 DEF Writes, SaveBegins, CodesDated, TypeOK
  <2>9. QED
    BY <2>3, <2>5, <2>6, <2>7, <2>8 DEF CodesDated
<1>4. ASSUME NEW r \in Requests, UpdateRow(r) PROVE CodesDated'
  <2>1. Dated(row)'
    <3>1. CASE kind[r] = "activation"
      BY <1>4, <3>1, SavedIsRow DEF UpdateRow, Busy, CodesDated, Dated
    <3>2. CASE kind[r] # "activation"
      BY <1>4, <3>2, SavedIsRow DEF UpdateRow, Busy, CodesDated, Dated, Open
    <3>3. QED
      BY <3>1, <3>2
  <2>2. \A c \in spent' : issued[c] # None
    BY <1>4 DEF UpdateRow, Spends, Replaced, Used, CodesDated, Dated, Open
  <2>3. QED
    BY <1>4, <2>1, <2>2 DEF UpdateRow, CodesDated, Dated, Open, TypeOK
<1>5. ASSUME NEW r \in Requests, InsertRow(r) PROVE CodesDated'
  <2>1. Dated(row)'
    BY <1>5, SavedIsRow DEF InsertRow, Busy, CodesDated, Dated, Open
  <2>2. \A c \in spent' : issued[c] # None
    BY <1>5 DEF InsertRow, Spends, Used, CodesDated, Open
  <2>3. QED
    BY <1>5, <2>1, <2>2 DEF InsertRow, Ends, CodesDated, Dated, Open, TypeOK
<1>6. ASSUME NEW r \in Requests, Quits(r) \/ Tell(r) PROVE CodesDated'
  BY <1>6 DEF Quits, Tell, Ends, CodesDated, Dated, Open, TypeOK
<1>7. CASE DeleteUser
  BY <1>7 DEF DeleteUser, Spends, Replaced, requestVars, CodesDated, Dated, Open
<1>8. CASE Tick
  BY <1>8 DEF Tick, requestVars, history, CodesDated, Dated, Open
<1>9. CASE UNCHANGED vars
  BY <1>9 DEF vars, requestVars, history, CodesDated, Dated, Open
<1>10. QED
  BY <1>1, <1>2, <1>3, <1>4, <1>5, <1>6, <1>7, <1>8, <1>9, Steps DEF RequestStep

LEMMA FreshStep ==
  ASSUME TypeOK, Shape, CodesDated, Fresh, [Next]_vars
  PROVE  Fresh'
<1> USE AccountAssumption
<1>1. ASSUME NEW r \in Requests, GetOrCreate(r) PROVE Fresh'
  BY <1>1, GetOrCreateCases DEF Fresh, Open, Starts, TypeOK, history, Codes
<1>2. ASSUME NEW r \in Requests, NEW k \in Kinds, NEW g \in Codes \cup {None}, Get(r, k, g)
      PROVE  Fresh'
  BY <1>2 DEF Get, Starts, Fresh, Open, TypeOK, history
<1>3. ASSUME NEW r \in Requests, NEW k \in Kinds, NEW o \in Row, Writes(r, k, o)
      PROVE  Fresh'
  <2>1. obj'[r] = o /\ stage'[r] = "saving" /\ kind' = kind /\ kind[r] = k /\ Open(r)
    BY <1>3 DEF Writes, SaveBegins, TypeOK, Open
  <2>2. \A q \in Requests \ {r} : stage'[q] = stage[q] /\ obj'[q] = obj[q]
    BY <1>3 DEF Writes, SaveBegins, TypeOK
  <2>3. row' = row /\ guess' = guess /\ spent' = spent
    BY <1>3 DEF Writes, SaveBegins, history
  <2>4. CASE k = "code"
    \* The code is new: nothing has been generated under this name.
    <3>1. issued[r] = None
      BY <1>3 DEF Writes, SaveBegins, CodesDated
    <3>2. r \notin spent /\ (row # None => row.otp # r)
      BY <3>1 DEF CodesDated, Dated, Codes
    <3>3. \A q \in Requests : Open(q) => obj[q].otp # r
      BY <3>1 DEF CodesDated, Dated, Codes
    <3>4. \A q \in Requests : ~(stage[q] = "saving" /\ kind[q] = "login" /\ guess[q] = r)
      BY <3>1 DEF CodesDated, Open
    <3>5. o.otp = r
      BY <1>3, <2>4 DEF Writes
    <3>6. ASSUME NEW q \in Requests \ {r}, stage[q] = "saving", kind[q] = "code"
          PROVE  o.otp # q
      BY <3>5, <3>6
    <3>7. QED
      BY <2>1, <2>2, <2>3, <2>4, <3>2, <3>3, <3>4, <3>5, <3>6 DEF Fresh, Open
  <2>5. CASE k # "code"
    <3>1. ASSUME NEW q \in Requests \ {r}, stage[q] = "saving", kind[q] = "code"
          PROVE  o.otp # q /\ ~(k = "login" /\ guess[r] = q)
      <4>1. obj[r].otp # q
        BY <2>1, <3>1 DEF Fresh
      <4>2. QED
        BY <1>3, <2>5, <4>1 DEF Writes, Keeps, Codes
    <3>2. QED
      BY <2>1, <2>2, <2>3, <2>5, <3>1 DEF Fresh, Open
  <2>6. QED
    BY <2>4, <2>5
<1>4. ASSUME NEW r \in Requests, UpdateRow(r) \/ InsertRow(r) PROVE Fresh'
  <2>1. stage[r] = "saving" /\ row' = Saved(r) /\ ~Open(r)'
    BY <1>4 DEF UpdateRow, InsertRow, Ends, Open, TypeOK
  <2>2. \A q \in Requests \ {r} : stage'[q] = stage[q] /\ kind'[q] = kind[q]
                                  /\ guess'[q] = guess[q] /\ obj'[q] = obj[q]
    BY <1>4 DEF UpdateRow, InsertRow, Ends, TypeOK
  <2>3. ASSUME NEW q \in Requests \ {r}, stage[q] = "saving", kind[q] = "code"
        PROVE  q \notin spent' /\ row'.otp # q
    <3>1. q \notin spent /\ obj[r].otp # q /\ ~(kind[r] = "login" /\ guess[r] = q)
          /\ (row # None => row.otp # q)
      BY <2>1, <2>3 DEF Fresh, Open
    <3>2. row'.otp # q
      <4>1. row # None \/ kind[r] # "activation"
        BY <1>4 DEF UpdateRow, InsertRow
      <4>2. row'.otp = obj[r].otp \/ (row # None /\ row'.otp = row.otp)
        BY <2>1, <4>1, SavedIsRow DEF Busy, Saved
      <4>3. QED
        BY <3>1, <4>2
    <3>3. QED
      BY <1>4, <3>1, <3>2 DEF UpdateRow, InsertRow, Spends, Replaced, Used
  <2>4. QED
    BY <2>1, <2>2, <2>3 DEF Fresh, Open
<1>5. ASSUME NEW r \in Requests, Quits(r) \/ Tell(r) PROVE Fresh'
  BY <1>5 DEF Quits, Tell, Ends, Fresh, Open, TypeOK
<1>6. CASE DeleteUser
  BY <1>6 DEF DeleteUser, Spends, Replaced, requestVars, Fresh, Open
<1>7. CASE Tick
  BY <1>7 DEF Tick, requestVars, history, Fresh, Open
<1>8. CASE UNCHANGED vars
  BY <1>8 DEF vars, requestVars, history, Fresh, Open
<1>9. QED
  BY <1>1, <1>2, <1>3, <1>4, <1>5, <1>6, <1>7, <1>8, Steps DEF RequestStep

LEMMA UnspentStep ==
  ASSUME TypeOK, Shape, CodesDated, Fresh, Unspent, [Next]_vars
  PROVE  Unspent'
<1> USE AccountAssumption
<1>1. ASSUME NEW r \in Requests, GetOrCreate(r) PROVE Unspent'
  <2>1. \A c \in Codes : row' # None /\ row'.otp = c => row # None /\ row.otp = c
    BY <1>1, GetOrCreateCases
  <2>2. \A c \in Codes, q \in Requests : Holds(q, c)' => Holds(q, c)
    BY <1>1, GetOrCreateCases DEF Starts, Holds, Open, TypeOK
  <2>3. QED
    BY <1>1, <2>1, <2>2, GetOrCreateCases DEF Unspent, history, TypeOK
<1>2. ASSUME NEW r \in Requests, NEW k \in Kinds, NEW g \in Codes \cup {None}, Get(r, k, g)
      PROVE  Unspent'
  <2>1. \A c \in Codes, q \in Requests : Holds(q, c)' => Holds(q, c) \/ row.otp = c
    BY <1>2 DEF Get, Starts, Holds, Open, TypeOK
  <2>2. QED
    BY <1>2, <2>1 DEF Get, Unspent, history, TypeOK
<1>3. ASSUME NEW r \in Requests, NEW k \in Kinds, NEW o \in Row, Writes(r, k, o)
      PROVE  Unspent'
  <2>1. \A c \in Codes, q \in Requests \ {r} : Holds(q, c)' => Holds(q, c)
    BY <1>3 DEF Writes, SaveBegins, Holds, Open, TypeOK
  <2>2. \A c \in Codes : Holds(r, c)' => Holds(r, c)
    BY <1>3 DEF Writes, SaveBegins, Keeps, Holds, Open, TypeOK
  <2>3. QED
    BY <1>3, <2>1, <2>2 DEF Writes, SaveBegins, Unspent, history, TypeOK
<1>4. ASSUME NEW r \in Requests, UpdateRow(r) \/ InsertRow(r) PROVE Unspent'
  <2>1. stage[r] = "saving" /\ row' = Saved(r) /\ ~Open(r)'
    BY <1>4 DEF UpdateRow, InsertRow, Ends, Open, TypeOK
  <2>2. \A c \in Codes, q \in Requests \ {r} : Holds(q, c)' <=> Holds(q, c)
    BY <1>4 DEF UpdateRow, InsertRow, Ends, Holds, Open, TypeOK
  <2>3. \A c \in Codes : ~Holds(r, c)'
    BY <2>1 DEF Holds
  <2>4. PICK C \in SUBSET Codes : Spends({r}, C) /\ C = (IF row = None THEN {} ELSE Replaced) \cup Used(r)
    BY <1>4, <2>1, ReplacedType, UsedType DEF UpdateRow, InsertRow
  <2>5. ASSUME NEW c \in spent' \ leftover' PROVE \A q \in Requests : ~Holds(q, c)'
    <3>1. c \in Codes
      BY <2>4, <2>5 DEF Spends, TypeOK
    <3>2. \A q \in Requests \ {r} : ~Holds(q, c)
      <4>1. CASE c \in spent
        BY <2>4, <2>5, <4>1 DEF Spends, Unspent
      <4>2. CASE c \notin spent
        BY <2>4, <2>5, <4>2 DEF Spends
      <4>3. QED
        BY <4>1, <4>2
    <3>3. QED
      BY <2>2, <2>3, <3>1, <3>2
  <2>6. ASSUME NEW c \in spent' \ leftover', row'.otp = c PROVE FALSE
    <3>1. c \in Codes /\ c # None
      BY <2>4, <2>6 DEF Spends, TypeOK
    <3>2. row # None \/ kind[r] # "activation"
      BY <1>4 DEF UpdateRow, InsertRow
    <3>3. CASE kind[r] = "activation"
      <4>1. row.otp = c /\ Used(r) = {} /\ row # None
        BY <2>1, <2>6, <3>2, <3>3, SavedIsRow DEF Busy, Used
      <4>2. Replaced = {}
        BY <2>1, <2>6, <4>1, SavedIsRow, <3>1, <3>2, <3>3 DEF Replaced, Busy
      <4>3. c \in spent \ leftover
        BY <2>4, <2>6, <4>1, <4>2 DEF Spends
      <4>4. QED
        BY <4>1, <4>3 DEF Unspent
    <3>4. CASE kind[r] = "code"
      <4>1. obj[r].otp = r /\ r \notin spent /\ (row # None => row.otp # r) /\ Used(r) = {}
        BY <2>1, <3>4 DEF Fresh, Used
      <4>2. c = r
        BY <2>1, <2>6, <3>2, <3>4, <4>1, SavedIsRow DEF Busy
      <4>3. QED
        BY <2>4, <2>6, <4>1, <4>2 DEF Spends, Replaced
    <3>5. CASE kind[r] = "login"
      <4>1. obj[r].otp = None
        BY <2>1, <3>5 DEF Shape
      <4>2. QED
        BY <2>1, <2>6, <3>1, <3>2, <3>5, <4>1, SavedIsRow DEF Busy
    <3>6. CASE kind[r] \in {"profile", "edit"}
      <4>1. obj[r].otp = c /\ Used(r) = {}
        BY <2>1, <2>6, <3>2, <3>6, SavedIsRow DEF Busy, Used
      <4>2. Holds(r, c)
        BY <2>1, <3>6, <4>1 DEF Holds, Open
      <4>3. c \notin C
        <5>1. row' # None
          BY <2>1, <3>2, SavedIsRow DEF Busy
        <5>2. QED
          BY <2>4, <2>6, <4>1, <5>1 DEF Replaced
      <4>4. c \in spent \ leftover
        BY <2>4, <2>6, <4>3 DEF Spends
      <4>5. QED
        BY <4>2, <4>4 DEF Unspent
    <3>7. QED
      BY <2>1, <3>3, <3>4, <3>5, <3>6 DEF Shape, Busy, Kinds
  <2>7. QED
    BY <2>5, <2>6 DEF Unspent
<1>5. ASSUME NEW r \in Requests, Quits(r) \/ Tell(r) PROVE Unspent'
  BY <1>5 DEF Quits, Tell, Ends, Unspent, Holds, Open, TypeOK
<1>6. CASE DeleteUser
  <2>1. \A c \in Codes, q \in Requests : Holds(q, c)' <=> Holds(q, c)
    BY <1>6 DEF DeleteUser, requestVars, Holds, Open
  <2>2. row' = None /\ Spends({}, Replaced)
    BY <1>6 DEF DeleteUser
  <2>3. QED
    BY <2>1, <2>2, ReplacedType DEF Spends, Unspent, TypeOK
<1>7. CASE Tick
  BY <1>7 DEF Tick, requestVars, history, Unspent, Holds, Open
<1>8. CASE UNCHANGED vars
  BY <1>8 DEF vars, requestVars, history, Unspent, Holds, Open
<1>9. QED
  BY <1>1, <1>2, <1>3, <1>4, <1>5, <1>6, <1>7, <1>8, Steps DEF RequestStep

LEMMA CurrentStep ==
  ASSUME TypeOK, Shape, Current, [Next]_vars
  PROVE  Current'
<1> USE AccountAssumption
<1>1. ASSUME NEW r \in Requests, GetOrCreate(r) PROVE Current'
  BY <1>1, GetOrCreateCases DEF Current, Keeps, Open, Starts, TypeOK, history
<1>2. ASSUME NEW r \in Requests, NEW k \in Kinds, NEW g \in Codes \cup {None}, Get(r, k, g)
      PROVE  Current'
  BY <1>2 DEF Get, Starts, Current, Keeps, Open, TypeOK, history
<1>3. ASSUME NEW r \in Requests, NEW k \in Kinds, NEW o \in Row, Writes(r, k, o)
      PROVE  Current'
  <2>1. obj'[r] = o /\ stage'[r] = "saving" /\ kind'[r] = k /\ stage[r] = "read" /\ kind[r] = k
    BY <1>3 DEF Writes, SaveBegins, TypeOK
  <2>2. \A q \in Requests \ {r} : stage'[q] = stage[q] /\ obj'[q] = obj[q] /\ kind'[q] = kind[q]
    BY <1>3 DEF Writes, SaveBegins, TypeOK
  <2>3. row' = row /\ overtaken' = overtaken
    BY <1>3 DEF Writes, SaveBegins, history
  <2>4. r \notin overtaken => row # None /\ Keeps(o, row, k)
    BY <1>3, <2>1 DEF Current, Open, Writes
  <2>5. QED
    BY <2>1, <2>2, <2>3, <2>4 DEF Current, Keeps, Open
<1>4. ASSUME NEW r \in Requests, UpdateRow(r) \/ InsertRow(r) \/ Quits(r) \/ Tell(r)
      PROVE  Current'
  <2>1. ~Open(r)' /\ Overtakes({r})
    BY <1>4 DEF UpdateRow, InsertRow, Quits, Tell, Ends, Open, TypeOK
  <2>2. \A q \in Requests \ {r} : stage'[q] = stage[q] /\ obj'[q] = obj[q] /\ kind'[q] = kind[q]
    BY <1>4 DEF UpdateRow, InsertRow, Quits, Tell, Ends, TypeOK
  <2>3. QED
    BY <2>1, <2>2 DEF Overtakes, Current, Keeps, Open
<1>5. CASE DeleteUser
  BY <1>5 DEF DeleteUser, Overtakes, requestVars, Current, Keeps, Open
<1>6. CASE Tick
  BY <1>6 DEF Tick, requestVars, history, Current, Keeps, Open
<1>7. CASE UNCHANGED vars
  BY <1>7 DEF vars, requestVars, history, Current, Keeps, Open
<1>8. QED
  BY <1>1, <1>2, <1>3, <1>4, <1>5, <1>6, <1>7, Steps DEF RequestStep

LEMMA ToldStep ==
  ASSUME TypeOK, Shape, ToldOK, [Next]_vars
  PROVE  ToldOK'
<1> USE AccountAssumption
<1>0. FlagsOf(row) # None \/ row = None
  BY DEF FlagsOf, TypeOK, Row
<1>1. ASSUME NEW r \in Requests, GetOrCreate(r) PROVE ToldOK'
  <2>1. \A q \in Requests : Saving(q)' => /\ Saving(q) /\ q # r /\ stage'[q] = stage[q]
                                         /\ obj'[q] = obj[q] /\ prev'[q] = prev[q]
    BY <1>1, GetOrCreateCases DEF Starts, Saving, TypeOK
  <2>2. CASE row # None /\ row' = row
    <3>1. \A q \in Requests : stage[q] = "saved" => stage'[q] = "saved" /\ obj'[q] = obj[q]
      BY <1>1, GetOrCreateCases DEF Starts, TypeOK
    <3>2. told' = told /\ muddled' = muddled
      BY <1>1, GetOrCreateCases
    <3>3. QED
      BY <2>1, <2>2, <3>1, <3>2 DEF ToldOK, Saving, SameUser, Agree, FlagsOf
  <2>3. CASE row = None /\ row'.id = births
    <3>1. \A q \in Requests : Saving(q)' => ~SameUser(q)'
      <4>1. ASSUME NEW q \in Requests, Saving(q)' PROVE obj'[q].id # row'.id
        <5>1. obj[q] \in Row /\ obj[q].id < births /\ births \in Nat
          BY <2>1, <4>1 DEF Shape, Busy, Saving, TypeOK
        <5>2. QED
          BY <2>1, <2>3, <4>1, <5>1 DEF Row
      <4>2. QED
        BY <4>1 DEF SameUser
    <3>2. told' = told /\ muddled' = muddled /\ row' # None
      BY <1>1, GetOrCreateCases
    <3>3. Agree(row)'
      BY <2>3, <3>2 DEF ToldOK, Agree
    <3>4. QED
      BY <2>1, <3>1, <3>2, <3>3 DEF ToldOK, Saving
  <2>4. QED
    BY <1>1, <2>2, <2>3, GetOrCreateCases
<1>2. ASSUME NEW r \in Requests, NEW k \in Kinds, NEW g \in Codes \cup {None}, Get(r, k, g)
      PROVE  ToldOK'
  BY <1>2 DEF Get, Starts, ToldOK, Saving, SameUser, Agree, FlagsOf, TypeOK
<1>3. ASSUME NEW r \in Requests, NEW k \in Kinds, NEW o \in Row, Writes(r, k, o)
      PROVE  ToldOK'
  <2>1. stage'[r] = "saving" /\ obj'[r] = o /\ row' = row /\ told' = told
    BY <1>3 DEF Writes, SaveBegins, TypeOK
  <2>2. \A q \in Requests \ {r} : stage'[q] = stage[q]
    BY <1>3 DEF Writes, SaveBegins, TypeOK
  <2>3. row' = None => told' = [active |-> None, role |-> None]
    BY <2>1 DEF ToldOK
  <2>4. CASE muddled'
    BY <2>3, <2>4 DEF ToldOK
  <2>5. CASE ~muddled'
    <3>1. ~muddled /\ \A q \in Requests \ {r} : ~Saving(q)
      BY <1>3, <2>5 DEF Writes, SaveBegins
    <3>2. \A q \in Requests : Saving(q)' => q = r
      BY <2>2, <3>1 DEF Saving
    <3>3. row # None => Agree(row)
      BY <1>3, <3>1 DEF ToldOK, Writes, SaveBegins, Saving
    <3>4. SameUser(r)' => prev'[r] = FlagsOf(row)
      BY <1>3, <2>1 DEF SameUser, Writes, SaveBegins, TypeOK
    <3>5. QED
      BY <2>1, <2>3, <3>2, <3>3, <3>4 DEF ToldOK, Saving, Agree, FlagsOf
  <2>6. QED
    BY <2>4, <2>5
<1>4. ASSUME NEW r \in Requests, UpdateRow(r) PROVE ToldOK'
  <2>1. row' # None /\ row' \in Row
    BY <1>4, SavedIsRow DEF UpdateRow, Busy
  <2>2. CASE muddled'
    BY <2>1, <2>2 DEF ToldOK
  <2>3. CASE ~muddled'
    <3>1. ~muddled /\ (kind[r] = "activation" => obj[r].role = row.role)
      BY <1>4, <2>3 DEF UpdateRow
    <3>2. stage[r] = "saving" /\ SameUser(r)
      BY <1>4 DEF UpdateRow, SameUser
    <3>3. \A q \in Requests : Saving(q) => q = r
      BY <3>1, <3>2 DEF ToldOK, Saving
    <3>4. prev[r] = FlagsOf(row) /\ Agree(row)
      <4>1. \A q \in Requests : stage[q] # "saved"
        BY <3>2, <3>3 DEF Saving
      <4>2. QED
        BY <3>1, <3>2, <4>1 DEF ToldOK, SameUser
    <3>5. row'.active = obj[r].active /\ row'.role = obj[r].role /\ row'.id = obj[r].id
      BY <1>4, <3>1, SavedIsRow DEF UpdateRow, Busy
    <3>6. stage'[r] = "saved" /\ obj'[r] = obj[r] /\ prev'[r] = prev[r] /\ told' = told
      BY <1>4 DEF UpdateRow, TypeOK
    <3>7. \A q \in Requests : Saving(q)' => q = r
      BY <1>4, <3>3 DEF UpdateRow, Saving, TypeOK
    <3>8. Agree(prev[r]) /\ prev[r] # None
      BY <1>0, <3>2, <3>4 DEF Agree, FlagsOf, SameUser
    <3>9. Agree(prev[r])'
      BY <3>6, <3>8 DEF Agree
    <3>10. SameUser(r)'
      BY <2>1, <3>5, <3>6 DEF SameUser
    <3>11. QED
      BY <2>1, <3>5, <3>6, <3>7, <3>8, <3>9, <3>10 DEF ToldOK, Saving
  <2>4. QED
    BY <2>2, <2>3
<1>5. ASSUME NEW r \in Requests, InsertRow(r) PROVE ToldOK'
  <2>1. row = None /\ row' # None /\ told' = told /\ muddled' = muddled
    BY <1>5, SavedIsRow DEF InsertRow, Busy
  <2>2. Agree(row)'
    BY <2>1 DEF ToldOK, Agree
  <2>3. ~muddled => \A q \in Requests : ~Saving(q)'
    BY <1>5 DEF InsertRow, Ends, ToldOK, Saving, TypeOK
  <2>4. QED
    BY <2>1, <2>2, <2>3 DEF ToldOK, Saving
<1>6. ASSUME NEW r \in Requests, Quits(r) PROVE ToldOK'
  BY <1>6 DEF Quits, Ends, ToldOK, Saving, SameUser, Agree, FlagsOf, TypeOK
<1>7. ASSUME NEW r \in Requests, Tell(r) PROVE ToldOK'
  <2>1. row' = row /\ muddled' = muddled /\ stage[r] = "saved" /\ stage'[r] = "done"
    BY <1>7 DEF Tell, Ends, TypeOK
  <2>2. CASE muddled
    <3>1. row = None => told' = told
      BY <1>7 DEF Tell
    <3>2. QED
      BY <2>1, <2>2, <3>1 DEF ToldOK
  <2>3. CASE ~muddled
    <3>1. \A q \in Requests : ~Saving(q)'
      BY <1>7, <2>1, <2>3 DEF Tell, Ends, ToldOK, Saving, TypeOK
    <3>2. CASE SameUser(r)
      <4>1. /\ row.active = obj[r].active /\ row.role = obj[r].role
            /\ prev[r] # None /\ Agree(prev[r])
        BY <2>1, <2>3, <3>2 DEF ToldOK
      <4>2. told' = [active |-> IF prev[r].active # obj[r].active THEN obj[r].active ELSE told.active,
                     role   |-> IF prev[r].role # NoRole /\ prev[r].role # obj[r].role
                                THEN obj[r].role ELSE told.role]
        BY <1>7, <3>2, <4>1 DEF Tell, SameUser
      <4>3. told'.active \in {None, row.active}
        BY <4>1, <4>2 DEF Agree
      <4>4. told'.role \in {None, NoRole, row.role}
        BY <4>1, <4>2 DEF Agree
      <4>5. QED
        BY <2>1, <3>1, <3>2, <4>3, <4>4 DEF ToldOK, Agree, SameUser, Saving
    <3>3. CASE ~SameUser(r)
      <4>1. told' = told
        BY <1>7, <3>3 DEF Tell, SameUser
      <4>2. row # None => Agree(row)
        BY <2>1, <2>3, <3>3 DEF ToldOK, Saving
      <4>3. QED
        BY <2>1, <3>1, <4>1, <4>2 DEF ToldOK, Agree, Saving
    <3>4. QED
      BY <3>2, <3>3
  <2>4. QED
    BY <2>2, <2>3
<1>8. CASE DeleteUser
  <2>1. row' = None /\ told' = [active |-> None, role |-> None]
    BY <1>8 DEF DeleteUser
  <2>2. QED
    BY <1>8, <2>1 DEF DeleteUser, requestVars, ToldOK, Saving, SameUser
<1>9. CASE Tick
  BY <1>9 DEF Tick, requestVars, ToldOK, Saving, SameUser, Agree, FlagsOf
<1>10. CASE UNCHANGED vars
  BY <1>10 DEF vars, requestVars, ToldOK, Saving, SameUser, Agree, FlagsOf
<1>11. QED
  BY <1>1, <1>2, <1>3, <1>4, <1>5, <1>6, <1>7, <1>8, <1>9, <1>10, Steps DEF RequestStep

(***************************************************************************)
(* The theorems                                                            *)
(***************************************************************************)
LEMMA Inductive == IInv /\ [Next]_vars => IInv'
<1> SUFFICES ASSUME IInv, [Next]_vars PROVE IInv'
  OBVIOUS
<1> USE DEF IInv
<1>1. TypeOK' /\ Shape'
  BY TypeStep, ShapeStep
<1>2. CodesDated' /\ Fresh' /\ Unspent'
  BY CodesStep, FreshStep, UnspentStep
<1>3. Current' /\ ToldOK'
  BY CurrentStep, ToldStep
<1>4. QED
  BY <1>1, <1>2, <1>3

LEMMA Invariance == Spec => []IInv
<1>1. QED
  BY InitIInv, Inductive, PTL DEF Spec

\* Rows, instances and histories keep their shape in every run.
THEOREM TypeCorrect == Spec => []TypeOK
<1>1. IInv => TypeOK
  BY DEF IInv
<1>2. QED
  BY Invariance, <1>1, PTL

\* As long as no two saves overlap and no notification fails, the last account
\* notification says what the row says: notify_user_account_changes() compares with
\* the stored flags, and what a stale instance reverts is told as well.
THEOREM ToldWhatIsStored == Spec => []LastWordIsTrue
<1>1. IInv => LastWordIsTrue
  <2> SUFFICES ASSUME IInv, ~muddled, row # None, \A r \in Requests : ~Saving(r)
               PROVE  Agree(row)
    BY DEF LastWordIsTrue, Agree
  <2>1. QED
    BY DEF IInv, ToldOK, Saving
<1>2. QED
  BY Invariance, <1>1, PTL

\* Only the step that saves changes the row for request r.
LEMMA SavingStep ==
  ASSUME TypeOK, Shape, Next, NEW r \in Requests, Saves(r)
  PROVE  row' = Saved(r) /\ (row # None \/ kind[r] # "activation")
<1>1. stage[r] = "saving" /\ stage'[r] # stage[r] /\ (stage'[r] = "saved" \/ row' # row)
  BY DEF Saves
<1>2. ASSUME NEW q \in Requests, RequestStep(q) PROVE q = r
  BY <1>1, <1>2, GetOrCreateCases
     DEF RequestStep, Get, Starts, Writes, SaveBegins, UpdateRow, InsertRow, Quits, Tell,
         Ends, TypeOK
<1>3. ~DeleteUser /\ ~Tick
  BY <1>1 DEF DeleteUser, Tick, requestVars
<1>4. RequestStep(r)
  BY <1>2, <1>3, Steps
<1>5. QED
  BY <1>1, <1>4, GetOrCreateCases
     DEF RequestStep, Get, Starts, Writes, SaveBegins, UpdateRow, InsertRow, Quits, Tell,
         Ends, TypeOK

\* A login accepts a code within its validity, and a spent one only where an instance
\* has kept it: verify_otp() compares with the instance it has read.
THEOREM CodesAreSpent == Spec => OneTimeCode
<1>1. ASSUME IInv, [Next]_vars, NEW r \in Requests, UNCHANGED vars
      PROVE  ~Accepts(r) /\ ~LogsIn(r)
  BY <1>1 DEF vars, requestVars, Accepts, LogsIn, Saves
<1>2. ASSUME IInv, Next, NEW r \in Requests, Accepts(r)
      PROVE  now <= issued[guess[r]] + Validity
  <2> USE DEF IInv
  <2>1. ASSUME NEW q \in Requests, NEW k \in Kinds, NEW o \in Row, Writes(q, k, o)
        PROVE  now <= issued[guess[r]] + Validity
    <3>1. q = r /\ k = "login"
      BY <1>2, <2>1 DEF Writes, SaveBegins, Accepts, TypeOK
    <3>2. Usable(obj[r], guess[r]) /\ Dated(obj[r])
      BY <1>2, <2>1, <3>1 DEF Writes, CodesDated, Accepts, Open
    <3>3. guess[r] \in Codes /\ issued[guess[r]] # None
      BY <1>2 DEF Accepts, Shape, CodesDated, Open
    <3>4. QED
      BY <3>2, <3>3 DEF Usable, Dated
  <2>2. ASSUME NEW q \in Requests, RequestStep(q), stage'[r] = "saving", stage[r] = "read"
        PROVE  \E k \in Kinds, o \in Row : Writes(q, k, o)
    BY <1>2, <2>2, GetOrCreateCases
       DEF RequestStep, Get, Starts, UpdateRow, InsertRow, Quits, Tell, Ends, TypeOK
  <2>3. QED
    BY <1>2, <2>1, <2>2, Steps DEF Accepts, DeleteUser, Tick, requestVars
<1>3. ASSUME IInv, Next, NEW r \in Requests, LogsIn(r), guess[r] \in spent
      PROVE  guess[r] \in leftover
  <2>1. Holds(r, guess[r])
    BY <1>3 DEF LogsIn, Saves, Holds, Open
  <2>2. QED
    BY <1>3, <2>1 DEF IInv, Unspent
<1>4. IInv /\ [Next]_vars =>
        [\A r \in Requests :
           /\ Accepts(r) => now <= issued[guess[r]] + Validity
           /\ (LogsIn(r) /\ guess[r] \in spent) => guess[r] \in leftover]_vars
  BY <1>1, <1>2, <1>3
<1>5. QED
  BY Invariance, <1>4, PTL DEF Spec, OneTimeCode

\* No save takes back what another request or a deletion did, unless that happened
\* between the query of the request and its save.
THEOREM NothingElseIsLost == Spec => LostOnlyToOverlap
<1>1. ASSUME IInv, Next, NEW r \in Requests \ overtaken, Saves(r)
      PROVE  /\ row # None /\ row' # None
             /\ \A f \in {"id", "otp", "at", "active", "role", "profile"} \ Owns(kind[r]) :
                  row'[f] = row[f]
  <2> USE AccountAssumption DEF IInv
  <2>1. row' = Saved(r) /\ stage[r] = "saving"
    BY <1>1, SavingStep DEF Saves
  <2>2. row # None /\ Keeps(obj[r], row, kind[r]) /\ kind[r] \in Kinds
    BY <1>1, <2>1 DEF Current, Open, Shape, Busy
  <2>3. Saved(r) \in Row
    BY <1>1, <2>1, <2>2, SavedIsRow DEF Busy
  <2>4. \A f \in {"id", "otp", "at", "active", "role", "profile"} \ Owns(kind[r]) :
          Saved(r)[f] = row[f]
    <3>1. CASE kind[r] = "activation"
      BY <1>1, <2>1, <2>2, <3>1, SavedIsRow DEF Owns, Busy
    <3>2. CASE kind[r] # "activation"
      BY <1>1, <2>1, <2>2, <3>2, SavedIsRow DEF Owns, Keeps, Kinds, Busy
    <3>3. QED
      BY <3>1, <3>2
  <2>5. QED
    BY <2>1, <2>2, <2>3, <2>4
<1>2. IInv /\ [Next]_vars =>
        [\A r \in Requests \ overtaken :
           (Saves(r) /\ row' # row) =>
             /\ row # None /\ row' # None
             /\ \A f \in {"id", "otp", "at", "active", "role", "profile"} \ Owns(kind[r]) :
                  row'[f] = row[f]]_vars
  BY <1>1
<1>3. QED
  BY Invariance, <1>2, PTL DEF Spec, LostOnlyToOverlap
===============================================================================
