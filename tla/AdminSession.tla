---------------------------- MODULE AdminSession ----------------------------
(***************************************************************************)
(* One admin's account: routes/auth.js, routes/admins.js and models/Admin  *)
(* .js.  The refresh tokens that its sign-ins end with are RefreshTokens.  *)
(*                                                                         *)
(* POST /login reads the raw document and puts it into `new Admin(...)`:   *)
(* to mongoose every field of it is modified, so the save() that unlocks   *)
(* an account after its lock has expired writes them all, and the hook     *)
(* that hashes a modified password hashes the stored hash once more.  The  *)
(* other requests load the document through mongoose and write only what   *)
(* they change.                                                            *)
(*                                                                         *)
(* A password is a number (the how-manieth it is), `hashed` whether it is  *)
(* hashed once.                                                            *)
(***************************************************************************)
EXTENDS Integers, FiniteSets

CONSTANTS
  Signers,      \* requests the server works on
  MaxAttempts,  \* failed logins that lock the account
  MaxPasswords  \* bound on the passwords set

ASSUME SessionAssumption == MaxAttempts \in Nat \ {0} /\ MaxPasswords \in Nat \ {0}

VARIABLES
  account,  \* the Admin document
  sign,     \* request -> where it waits and what it has read
  raced     \* history: an attempt was counted from an old copy

sessionVars == <<account, sign, raced>>

Passwords == 1..MaxPasswords

Locks == {"none", "held", "over"}  \* lockUntil: unset, in the future, in the past

Accounts ==
  [ alive : BOOLEAN, password : Passwords, hashed : BOOLEAN,
    attempts : Nat, lock : Locks, reset : BOOLEAN ]

SignSteps == {"idle", "unlock", "failed", "passed", "change", "reset", "mail", "release"}

SignStates == [step : SignSteps, copy : Accounts, given : Passwords]

SessionTypeOK ==
  /\ account \in Accounts
  /\ sign \in [Signers -> SignStates]
  /\ raced \in BOOLEAN

NewAccount == [alive |-> TRUE, password |-> 1, hashed |-> TRUE, attempts |-> 0,
               lock |-> "none", reset |-> FALSE]

NoAccount == [NewAccount EXCEPT !.alive = FALSE]

IdleSigner == [step |-> "idle", copy |-> NewAccount, given |-> 1]

SessionInit ==
  /\ account = NewAccount
  /\ sign = [h \in Signers |-> IdleSigner]
  /\ raced = FALSE

-----------------------------------------------------------------------------
(* Helpers                                                                 *)

SignEnds(h) == sign' = [sign EXCEPT ![h] = IdleSigner]

\* What a request still uses of the account it has read.
Used(step) ==
  CASE step = "unlock" -> account
    [] step = "failed" -> [NewAccount EXCEPT !.attempts = account.attempts,
                                             !.password = account.password]
    [] step = "reset"  -> [NewAccount EXCEPT !.attempts = account.attempts, !.lock = account.lock]
    [] OTHER           -> NewAccount

SignStarts(h, step, given) ==
  /\ sign[h].step = "idle"
  /\ account.alive
  /\ sign' = [sign EXCEPT ![h] =
       [IdleSigner EXCEPT !.step = step, !.copy = Used(step),
                          !.given = IF step \in {"unlock", "failed"} THEN given ELSE 1]]

\* bcrypt.compare with the hash that was read.
Matches(given, copy) == copy.hashed /\ given = copy.password

Compared(given, copy) == IF Matches(given, copy) THEN "passed" ELSE "failed"

\* save() of a document that is gone throws.
Saved(h, d) ==
  /\ account' = IF account.alive THEN d ELSE account
  /\ SignEnds(h)

LocksNow(copy) == copy.attempts + 1 >= MaxAttempts

-----------------------------------------------------------------------------
(* POST /login                                                             *)

\* A locked account is answered with 423.
Login(h, given) ==
  /\ account.lock # "held"
  /\ SignStarts(h, IF account.lock = "over" THEN "unlock" ELSE Compared(given, account), given)
  /\ UNCHANGED <<account, raced>>

\* The whole copy is written; the hash in it is hashed.
SaveUnlocked(h) ==
  LET r == sign[h] IN
  /\ r.step = "unlock"
  /\ IF account.alive
       THEN /\ account' = [r.copy EXCEPT !.attempts = 0, !.lock = "none", !.hashed = FALSE]
            /\ sign' = [sign EXCEPT ![h] =
                 IF Matches(r.given, r.copy) THEN [IdleSigner EXCEPT !.step = "passed"]
                 ELSE [r EXCEPT !.step = "failed",
                                !.copy = [NewAccount EXCEPT !.password = r.copy.password]]]
       ELSE SignEnds(h) /\ UNCHANGED account
  /\ raced' = (raced \/ r.copy # account)

\* incLoginAttempts; the copy is not locked here.
IncLoginAttempts(h) ==
  LET r == sign[h] IN
  /\ r.step = "failed"
  /\ account' = IF account.alive
       THEN [account EXCEPT !.attempts = @ + 1,
                            !.lock = IF LocksNow(r.copy) THEN "held" ELSE @]
       ELSE account
  /\ raced' = (raced \/ r.copy.attempts # account.attempts \/ account.lock # "none")
  /\ SignEnds(h)

\* The request goes on to its tokens.
ResetLoginAttempts(h) ==
  /\ sign[h].step = "passed"
  /\ account' = IF account.alive THEN [account EXCEPT !.attempts = 0, !.lock = "none"]
                                 ELSE account
  /\ raced' = FALSE
  /\ SignEnds(h)

LockExpires ==
  /\ account.lock = "held"
  /\ account' = [account EXCEPT !.lock = "over"]
  /\ UNCHANGED <<sign, raced>>

-----------------------------------------------------------------------------
(* PATCH /change-password, POST /forgot-password, POST /reset-password     *)

\* Only a right current password goes on; the new one is the next one.
ChangePassword(h, given) ==
  /\ Matches(given, account)
  /\ SignStarts(h, "change", given)
  /\ UNCHANGED <<account, raced>>

SaveChanged(h) ==
  /\ sign[h].step = "change"
  /\ account.password < MaxPasswords
  /\ Saved(h, [account EXCEPT !.password = @ + 1, !.hashed = TRUE])
  /\ UNCHANGED raced

ForgotPassword(h) ==
  /\ SignStarts(h, "mail", 1)
  /\ account' = [account EXCEPT !.reset = TRUE]
  /\ UNCHANGED raced

\* The mail is sent, or it fails and the reset token, whose ever, is cleared.
MailResetToken(h) ==
  /\ sign[h].step = "mail"
  /\ account' \in {account, [account EXCEPT !.reset = FALSE]}
  /\ SignEnds(h)
  /\ UNCHANGED raced

ResetTokenExpires ==
  /\ account.reset
  /\ account' = [account EXCEPT !.reset = FALSE]
  /\ UNCHANGED <<sign, raced>>

ResetPassword(h) ==
  /\ account.reset
  /\ SignStarts(h, "reset", 1)
  /\ UNCHANGED <<account, raced>>

\* Attempts and lock are written if the copy has any; sessions go on.
SaveReset(h) ==
  LET copy == sign[h].copy IN
  /\ sign[h].step = "reset"
  /\ account.password < MaxPasswords
  /\ Saved(h, [account EXCEPT !.password = @ + 1, !.hashed = TRUE, !.reset = FALSE,
                              !.attempts = IF copy.attempts = 0 THEN @ ELSE 0,
                              !.lock = IF copy.lock = "none" THEN @ ELSE "none"])
  /\ raced' = (raced \/ copy.attempts # account.attempts \/ copy.lock # account.lock)

-----------------------------------------------------------------------------
(* admins.js: POST /:adminId/unlock, DELETE /:adminId                      *)

UnlockAdmin(h) ==
  /\ account.lock = "held"
  /\ SignStarts(h, "release", 1)
  /\ UNCHANGED <<account, raced>>

SaveReleased(h) ==
  /\ sign[h].step = "release"
  /\ IF account.alive THEN account' = [account EXCEPT !.attempts = 0, !.lock = "none"]
                      ELSE UNCHANGED account
  /\ raced' = FALSE
  /\ SignEnds(h)

DeleteAdmin ==
  /\ account.alive
  /\ account' = NoAccount
  /\ UNCHANGED <<sign, raced>>

\* The server dies, or an await throws.
SignFails(h) ==
  /\ sign[h].step # "idle"
  /\ SignEnds(h)
  /\ UNCHANGED <<account, raced>>

SessionNext ==
  \/ LockExpires \/ ResetTokenExpires \/ DeleteAdmin
  \/ \E h \in Signers :
       \/ \E given \in Passwords : Login(h, given) \/ ChangePassword(h, given)
       \/ SaveUnlocked(h) \/ IncLoginAttempts(h) \/ ResetLoginAttempts(h)
       \/ SaveChanged(h)
       \/ ForgotPassword(h) \/ MailResetToken(h)
       \/ ResetPassword(h) \/ SaveReset(h) \/ UnlockAdmin(h) \/ SaveReleased(h)
       \/ SignFails(h)

SessionSpec == SessionInit /\ [][SessionNext]_sessionVars

-----------------------------------------------------------------------------
(* Properties                                                              *)

\* An account is locked, or its lock has run out, exactly when the maximum of
\* attempts has failed since the last success or release, unless an attempt was
\* counted since then from a copy that another request had overtaken.
LockedAfterMaxAttempts ==
  ~raced => (account.attempts >= MaxAttempts <=> account.lock # "none")

\* The password the owner set last is not counted as a failed attempt.  It does
\* not hold: the first login after a lock has expired hashes the hash.
RightPasswordPasses ==
  \A h \in Signers : sign[h].step = "failed" => sign[h].given # sign[h].copy.password
=============================================================================
