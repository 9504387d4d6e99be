------------------------------- MODULE Accounts -------------------------------
(***************************************************************************)
(* The row of one user in authentication/models.py and the requests that   *)
(* save it: one-time-password login, profile changes, administration.      *)
(* Each reads the row into an instance, changes the instance and saves     *)
(* every column of it, but for the activation endpoint, which saves        *)
(* is_active only.  Around the save the signals of Notification/signals.py *)
(* compare the stored row with the instance and tell the user.             *)
(***************************************************************************)
EXTENDS Naturals

CONSTANTS
  Requests,  \* each is made once; a code is named by the request that generates it
  OldCode,   \* a code generated before the model starts
  Roles,
  NoRole,    \* role is null
  Profiles,  \* name, title, phone number and status together
  Validity,  \* the ten minutes of verify_otp(), in ticks
  MaxTime,   \* bound of the model: ticks of the clock
  Faults,    \* whether notifications may fail and processes may die
  None

Kinds == {"code", "login", "profile", "edit", "activation"}
Codes == Requests \cup {OldCode}

Row == [id : Nat, otp : Codes \cup {None}, at : Nat \cup {None},
        active : BOOLEAN, role : Roles, profile : Profiles]

ASSUME AccountAssumption ==
  /\ OldCode \notin Requests
  /\ None \notin Codes \cup Roles \cup Profiles \cup BOOLEAN \cup Nat \cup Row \cup [active : BOOLEAN, role : Roles]
  /\ NoRole \in Roles
  /\ Validity \in Nat /\ MaxTime \in Nat
  /\ Faults \in BOOLEAN

VARIABLES
  row,       \* the stored row, None when there is no such user
  births,    \* primary keys given out
  now,
  stage,     \* how far each request is
  kind,      \* what it does
  guess,     \* the code a login was given
  obj,       \* the instance a request works on
  prev,      \* _prev_is_active and _prev_role_id of the instance
  told,      \* the last account notification of each sort
  issued,    \* history: when each code was generated
  overtaken, \* history: open requests whose row changed after they read it
  spent,     \* history: codes that were used or that the row has lost
  leftover,  \* history: codes that were in some instance when they were spent
  muddled    \* history: two saves overlapped, or a notification was lost

requestVars == <<stage, kind, guess, obj, prev>>
history     == <<overtaken, spent, leftover>>
vars == <<row, births, now, stage, kind, guess, obj, prev, told, issued,
          overtaken, spent, leftover, muddled>>

Flags == [active : BOOLEAN, role : Roles]
Told  == [active : BOOLEAN \cup {None}, role : Roles \cup {None}]

TypeOK ==
  /\ row \in Row \cup {None}
  /\ births \in Nat
  /\ now \in Nat
  /\ stage \in [Requests -> {"idle", "read", "saving", "saved", "done"}]
  /\ kind \in [Requests -> Kinds \cup {None}]
  /\ guess \in [Requests -> Codes \cup {None}]
  /\ obj \in [Requests -> Row \cup {None}]
  /\ prev \in [Requests -> Flags \cup {None}]
  /\ told \in Told
  /\ issued \in [Codes -> Nat \cup {None}]
  /\ overtaken \subseteq Requests
  /\ spent \subseteq Codes
  /\ leftover \subseteq Codes
  /\ muddled \in BOOLEAN

\* A user who has just asked for a code, or has not.
Init ==
  /\ \E c \in {OldCode, None}, b \in BOOLEAN, x \in Roles, p \in Profiles :
       row = [id |-> 0, otp |-> c, at |-> IF c = None THEN None ELSE 0,
              active |-> b, role |-> x, profile |-> p]
  /\ births = 1
  /\ now = 0
  /\ stage = [r \in Requests |-> "idle"]
  /\ kind = [r \in Requests |-> None]
  /\ guess = [r \in Requests |-> None]
  /\ obj = [r \in Requests |-> None]
  /\ prev = [r \in Requests |-> None]
  /\ told = [active |-> None, role |-> None]
  /\ issued = [c \in Codes |-> IF c = OldCode THEN 0 ELSE None]
  /\ overtaken = {}
  /\ spent = IF row.otp = OldCode THEN {} ELSE {OldCode}
  /\ leftover = {}
  /\ muddled = FALSE

(***************************************************************************)
(* History                                                                 *)
(***************************************************************************)
Open(r) == stage[r] \in {"read", "saving"}

\* Request r has read code c and may still log in with it or write it back.
Holds(r, c) ==
  /\ Open(r)
  /\ \/ kind[r] = "login" /\ guess[r] = c /\ (stage[r] = "read" => obj[r].otp = c)
     \/ kind[r] \in {"profile", "edit"} /\ obj[r].otp = c

\* The requests R are past their save; the others have read a row that may now change.
Overtakes(R) ==
  overtaken' = (IF row' = row THEN overtaken ELSE {q \in Requests : Open(q)}) \ R

\* The requests R (or nobody, for a deletion) spend the codes C.
Spends(R, C) ==
  /\ spent' = spent \cup C
  /\ leftover' = leftover \cup
       {c \in C \ spent : \E q \in Requests \ R : Holds(q, c)}

\* The code the row has and is about to lose.
Replaced == IF row # None /\ (row' = None \/ row'.otp # row.otp) THEN {row.otp} \ {None} ELSE {}

(***************************************************************************)
(* Requests                                                                *)
(***************************************************************************)
Starts(r, k, g, o) ==
  /\ stage[r] = "idle"
  /\ stage' = [stage EXCEPT ![r] = "read"]
  /\ kind' = [kind EXCEPT ![r] = k]
  /\ guess' = [guess EXCEPT ![r] = g]
  /\ obj' = [obj EXCEPT ![r] = o]
  /\ UNCHANGED prev

\* The request is answered, or dead, and its instance is gone.
Ends(r) ==
  /\ stage' = [stage EXCEPT ![r] = "done"]
  /\ kind' = [kind EXCEPT ![r] = None]
  /\ guess' = [guess EXCEPT ![r] = None]
  /\ obj' = [obj EXCEPT ![r] = None]
  /\ prev' = [prev EXCEPT ![r] = None]
  /\ Overtakes({r})

NewUser(x, p) ==
  [id |-> births, otp |-> None, at |-> None, active |-> TRUE, role |-> x, profile |-> p]

\* Sending a code creates the user who is not known.
GetOrCreate(r) ==
  /\ \/ row # None /\ UNCHANGED <<row, births>>
     \/ /\ row = None
        /\ \E x \in Roles, p \in Profiles : row' = NewUser(x, p)
        /\ births' = births + 1
  /\ Starts(r, "code", None, row')
  /\ UNCHANGED <<now, told, issued, history, muddled>>

\* The other requests need the user.  A login brings a code that was generated at some
\* time: any other is refused.
Get(r, k, g) ==
  /\ row # None
  /\ g # None => issued[g] # None
  /\ Starts(r, k, g, row)
  /\ UNCHANGED <<row, births, now, told, issued, history, muddled>>

\* save() begins: pre_save reads the stored flags.
FlagsOf(o) == [active |-> o.active, role |-> o.role]

Saving(q) == stage[q] \in {"saving", "saved"}

\* Mutant: the hook remembers the flags the instance was loaded with.
SaveBeginsAsLoaded(r, k, o) ==
  /\ stage[r] = "read" /\ kind[r] = k
  /\ stage' = [stage EXCEPT ![r] = "saving"]
  /\ obj' = [obj EXCEPT ![r] = o]
  /\ prev' = [prev EXCEPT ![r] = FlagsOf(obj[r])]
  /\ muddled' = (muddled \/ \E q \in Requests \ {r} : Saving(q))
  /\ UNCHANGED <<row, births, now, kind, guess, told, history>>

SaveBegins(r, k, o) ==
  /\ stage[r] = "read" /\ kind[r] = k
  /\ stage' = [stage EXCEPT ![r] = "saving"]
  /\ obj' = [obj EXCEPT ![r] = o]
  /\ prev' = [prev EXCEPT ![r] = IF row # None /\ row.id = o.id THEN FlagsOf(row) ELSE None]
  /\ muddled' = (muddled \/ \E q \in Requests \ {r} : Saving(q))
  /\ UNCHANGED <<row, births, now, kind, guess, told, history>>

\* Mutant: sending a code to a user activates the account.
GenerateOtpActivates(r) ==
  /\ SaveBegins(r, "code", [obj[r] EXCEPT !.otp = r, !.at = now, !.active = TRUE])
  /\ issued' = [issued EXCEPT ![r] = now]

\* Mutant: the time stored is not that of the code.
GenerateOtpBackdated(r) ==
  /\ SaveBegins(r, "code", [obj[r] EXCEPT !.otp = r, !.at = now - 1])
  /\ issued' = [issued EXCEPT ![r] = now]

\* generate_otp(): two draws of the same six digits are left out.
GenerateOtp(r) ==
  /\ SaveBegins(r, "code", [obj[r] EXCEPT !.otp = r, !.at = now])
  /\ issued' = [issued EXCEPT ![r] = now]

Usable(o, c) ==
  /\ o.otp # None /\ o.otp = c
  /\ o.at = None \/ now <= o.at + Validity

\* Mutant: the code is not cleared.
VerifyOtpKeepsIt(r) ==
  /\ kind[r] = "login" /\ Usable(obj[r], guess[r])
  /\ SaveBegins(r, "login", obj[r])
  /\ UNCHANGED issued

\* verify_otp() compares with the instance, then clears the code.
VerifyOtp(r) ==
  /\ kind[r] = "login" /\ Usable(obj[r], guess[r])
  /\ SaveBegins(r, "login", [obj[r] EXCEPT !.otp = None, !.at = None])
  /\ UNCHANGED issued

RefuseOtp(r) ==
  /\ stage[r] = "read" /\ kind[r] = "login"
  /\ ~Usable(obj[r], guess[r])
  /\ UNCHANGED <<row, births, now, told, issued, spent, leftover, muddled>>
  /\ Ends(r)

\* The user's own change, or an administrator's change of the same columns.
ChangeProfile(r, p) ==
  /\ SaveBegins(r, "profile", [obj[r] EXCEPT !.profile = p])
  /\ UNCHANGED issued

\* An administrator's PATCH of one flag.
EditUser(r, b, x) ==
  /\ stage[r] = "read"
  /\ (b = obj[r].active) # (x = obj[r].role)
  /\ SaveBegins(r, "edit", [obj[r] EXCEPT !.active = b, !.role = x])
  /\ UNCHANGED issued

SetActive(r, b) ==
  /\ SaveBegins(r, "activation", [obj[r] EXCEPT !.active = b])
  /\ UNCHANGED issued

\* The row as request r saves it.
Saved(r) == IF kind[r] = "activation" THEN [row EXCEPT !.active = obj[r].active] ELSE obj[r]

Used(r) == IF kind[r] = "login" THEN {guess[r]} ELSE {}

UpdateRow(r) ==
  /\ stage[r] = "saving"
  /\ row # None /\ row.id = obj[r].id
  /\ row' = Saved(r)
  /\ stage' = [stage EXCEPT ![r] = "saved"]
  /\ Overtakes({r})
  /\ Spends({r}, Replaced \cup Used(r))
  /\ muddled' = (muddled \/ (kind[r] = "activation" /\ obj[r].role # row.role))
  /\ UNCHANGED <<births, now, kind, guess, obj, prev, told, issued>>

\* save() inserts the row it does not find, save(update_fields) does not; the signal
\* for a new user tells this user nothing.
InsertRow(r) ==
  /\ stage[r] = "saving"
  /\ row = None /\ kind[r] # "activation"
  /\ row' = Saved(r)
  /\ Spends({r}, Used(r))
  /\ Ends(r)
  /\ UNCHANGED <<births, now, told, issued, muddled>>

\* The row is gone, or somebody else has registered with the e-mail address.
SaveFails(r) ==
  /\ stage[r] = "saving"
  /\ IF row = None THEN kind[r] = "activation" ELSE row.id # obj[r].id
  /\ UNCHANGED <<row, births, now, told, issued, spent, leftover, muddled>>
  /\ Ends(r)

\* notify_user_account_changes(): a first role is not told.
Tell(r) ==
  /\ stage[r] = "saved"
  /\ told' =
       IF row = None \/ row.id # obj[r].id \/ prev[r] = None THEN told
       ELSE [active |-> IF prev[r].active # obj[r].active THEN obj[r].active ELSE told.active,
             role   |-> IF prev[r].role # NoRole /\ prev[r].role # obj[r].role
                        THEN obj[r].role ELSE told.role]
  /\ UNCHANGED <<row, births, now, issued, spent, leftover, muddled>>
  /\ Ends(r)

\* "Never break user updates due to the notification system"; or the process dies,
\* and the rest of the request does not happen.  One that dies before its save
\* begins leaves no trace: it is one that stays where it is.
Breaks(r) ==
  /\ Faults
  /\ Saving(r)
  /\ muddled' = (muddled \/ stage[r] = "saved")
  /\ UNCHANGED <<row, births, now, told, issued, spent, leftover>>
  /\ Ends(r)

\* UserViewSet.destroy() takes the user's notifications along.
DeleteUser ==
  /\ row # None
  /\ row' = None
  /\ told' = [active |-> None, role |-> None]
  /\ Overtakes({})
  /\ Spends({}, Replaced)
  /\ UNCHANGED <<births, now, requestVars, issued, muddled>>

Tick ==
  /\ now < MaxTime
  /\ now' = now + 1
  /\ UNCHANGED <<row, births, requestVars, told, issued, history, muddled>>

(***************************************************************************)
(* Specification                                                           *)
(***************************************************************************)
Start(r) ==
  \/ GetOrCreate(r)
  \/ \E g \in Codes : Get(r, "login", g)
  \/ \E k \in {"profile", "edit", "activation"} : Get(r, k, None)

Change(r) ==
  \/ GenerateOtp(r) \/ VerifyOtp(r) \/ RefuseOtp(r)
  \/ \E p \in Profiles : ChangeProfile(r, p)
  \/ \E b \in BOOLEAN : SetActive(r, b) \/ \E x \in Roles : EditUser(r, b, x)

Save(r) == UpdateRow(r) \/ InsertRow(r) \/ SaveFails(r) \/ Tell(r)

Next ==
  \/ \E r \in Requests : Start(r) \/ Change(r) \/ Save(r) \/ Breaks(r)
  \/ DeleteUser
  \/ Tick

Spec == Init /\ [][Next]_vars

(***************************************************************************)
(* Properties                                                              *)
(***************************************************************************)
Accepts(r) == kind[r] = "login" /\ stage[r] = "read" /\ stage'[r] = "saving"

\* Request r ends its save.
Saves(r)  == stage[r] = "saving" /\ (stage'[r] = "saved" \/ (stage'[r] = "done" /\ row' # row))
LogsIn(r) == kind[r] = "login" /\ Saves(r)

\* "OTP is valid for 10 minutes": a login accepts only a code generated within the
\* validity, and one that was used, replaced or deleted before only if some other
\* request still had it in an instance at that time.
OneTimeCode ==
  [][\A r \in Requests :
       /\ Accepts(r) => now <= issued[guess[r]] + Validity
       /\ (LogsIn(r) /\ guess[r] \in spent) => guess[r] \in leftover]_vars

\* The columns a request is there to change.
Owns(k) ==
  CASE k \in {"code", "login"} -> {"otp", "at"}
    [] k = "profile"           -> {"profile"}
    [] k = "edit"              -> {"active", "role"}
    [] OTHER                   -> {"active"}

\* No request undoes what another has saved, nor a deletion, unless that happened
\* between its own query and its save.
LostOnlyToOverlap ==
  [][\A r \in Requests \ overtaken :
       (Saves(r) /\ row' # row) =>
         /\ row # None /\ row' # None
         /\ \A f \in {"id", "otp", "at", "active", "role", "profile"} \ Owns(kind[r]) :
              row'[f] = row[f]]_vars

\* Whatever requests overlap, as long as their saves do not, the last account
\* notification a user has got says what the row says; except for a first role,
\* which is not told.
LastWordIsTrue ==
  (~muddled /\ row # None /\ \A r \in Requests : ~Saving(r)) =>
    /\ told.active \in {None, row.active}
    /\ told.role \in {None, NoRole, row.role}
===============================================================================
