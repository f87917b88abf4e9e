------------------------------- MODULE Staff --------------------------------
(***************************************************************************)
(* The specialists of one salon and the accounts they sign in with:        *)
(* routes/specialists.js, routes/admins.js and PATCH /me of                *)
(* routes/auth.js.  Creating a specialist with an e-mail makes an account  *)
(* of the role specialist, unless the salon has an account with that       *)
(* e-mail; the two name each other.  An admin may make further accounts    *)
(* and link any account to any specialist: then the account names the      *)
(* specialist and the specialist does not name the account.  Deleting a    *)
(* specialist deletes the account that it names or, when it names none,    *)
(* the account with its e-mail.                                            *)
(*                                                                         *)
(* Each handler waits between its queries: requests interleave, and a      *)
(* crash or an error ends a request where it waits.  Services name the     *)
(* specialists who give them; the test in DELETE asks for fields that no   *)
(* service has, finds none, and is left out (see the README).              *)
(***************************************************************************)
EXTENDS Naturals, FiniteSets

CONSTANTS
  Editors,      \* requests the server works on
  Specialists, NoSpecialist,
  Logins,       \* accounts
  Owner,        \* the account that was made with the salon
  NoLogin,
  Addresses, OwnerEmail, NoEmail

ASSUME StaffAssumption ==
  /\ OwnerEmail \in Addresses /\ NoEmail \notin Addresses
  /\ NoSpecialist \notin Specialists
  /\ Owner \in Logins /\ NoLogin \notin Logins

VARIABLES
  person,    \* specialist -> its document
  login,     \* account -> its document
  editor,    \* request -> where it waits
  excused,   \* history: specialists whose account may outlive them
  byHand     \* history: accounts that an admin has linked

staffVars == <<person, login, editor, excused, byHand>>

Lives == {"none", "there", "gone"}

\* login is adminId, and specialist specialistId.
PersonDocs == [state : Lives, email : Addresses \cup {NoEmail}, login : Logins \cup {NoLogin}]

LoginDocs == [state : Lives, email : Addresses \cup {NoEmail},
              specialist : Specialists \cup {NoSpecialist}]

EditorSteps == {"idle", "account", "make", "link", "unlink", "find", "remove"}

EditorStates == [step : EditorSteps, person : Specialists \cup {NoSpecialist},
                 email : Addresses \cup {NoEmail}, login : Logins \cup {NoLogin}]

StaffTypeOK ==
  /\ person \in [Specialists -> PersonDocs]
  /\ login \in [Logins -> LoginDocs]
  /\ editor \in [Editors -> EditorStates]
  /\ excused \in SUBSET Specialists
  /\ byHand \in SUBSET Logins

IdleEditor == [step |-> "idle", person |-> NoSpecialist, email |-> NoEmail, login |-> NoLogin]

NobodyYet == [state |-> "none", email |-> NoEmail, login |-> NoLogin]

NoLoginYet == [state |-> "none", email |-> NoEmail, specialist |-> NoSpecialist]

\* The sign-up of the salon has made its owner's account, and a specialist that
\* is the owner; salons from before have only the former.
StaffInit ==
  /\ \E s \in Specialists \cup {NoSpecialist} :
       /\ person = [t \in Specialists |-> IF t # s THEN NobodyYet
            ELSE [state |-> "there", email |-> OwnerEmail, login |-> Owner]]
       /\ login = [a \in Logins |-> IF a # Owner THEN NoLoginYet
            ELSE [state |-> "there", email |-> OwnerEmail, specialist |-> s]]
  /\ editor = [h \in Editors |-> IdleEditor]
  /\ excused = {} /\ byHand = {}

EditorEnds(h) == editor' = [editor EXCEPT ![h] = IdleEditor]

EditorGoes(h, step) == editor' = [editor EXCEPT ![h].step = step]

WithEmail(e) == {a \in Logins : login[a].state = "there" /\ login[a].email = e}

\* Requests that create or delete specialist s.
WorkOn(s) == {h \in Editors : editor[h].step # "idle" /\ editor[h].person = s}

\* An account is deleted by its id, if it is still there.
AccountGoes(a) == login' = [b \in Logins |->
  IF b = a /\ login[a].state = "there" THEN [NoLoginYet EXCEPT !.state = "gone"] ELSE login[b]]

-----------------------------------------------------------------------------
(* POST /specialists                                                       *)

CreatePerson(h, s, e) ==
  /\ editor[h].step = "idle"
  /\ person[s].state = "none"
  /\ person' = [person EXCEPT ![s] = [state |-> "there", email |-> e, login |-> NoLogin]]
  /\ editor' = [editor EXCEPT ![h] = IF e = NoEmail THEN IdleEditor
       ELSE [IdleEditor EXCEPT !.step = "account", !.person = s, !.email = e]]
  /\ UNCHANGED <<login, excused, byHand>>

\* An account of the salon with this e-mail is left as it is, and not linked.
FindExistingAdmin(h) ==
  /\ editor[h].step = "account"
  /\ IF WithEmail(editor[h].email) = {} THEN EditorGoes(h, "make") ELSE EditorEnds(h)
  /\ UNCHANGED <<person, login, excused, byHand>>

\* The e-mail of an account is unique.
CreateLogin(h, a) ==
  LET r == editor[h] IN
  /\ r.step = "make"
  /\ login[a].state = "none"
  /\ IF WithEmail(r.email) = {}
       THEN /\ login' = [login EXCEPT ![a] = [state |-> "there", email |-> r.email,
                                              specialist |-> r.person]]
            /\ editor' = [editor EXCEPT ![h].step = "link", ![h].login = a]
       ELSE EditorEnds(h) /\ UNCHANGED login
  /\ UNCHANGED <<person, excused, byHand>>

\* save() of a specialist that has been deleted throws.
LinkLogin(h) ==
  LET s == editor[h].person IN
  /\ editor[h].step = "link"
  /\ person' = IF person[s].state = "there" THEN [person EXCEPT ![s].login = editor[h].login]
               ELSE person
  /\ EditorEnds(h)
  /\ UNCHANGED <<login, excused, byHand>>

-----------------------------------------------------------------------------
(* admins.js                                                               *)

\* POST /, with or without a specialist, whom nobody looks up.
AddLogin(a, e, s) ==
  /\ login[a].state = "none"
  /\ WithEmail(e) = {}
  /\ login' = [login EXCEPT ![a] = [state |-> "there", email |-> e, specialist |-> s]]
  /\ byHand' = byHand \cup {a}
  /\ UNCHANGED <<person, editor, excused>>

\* PATCH /:adminId/link-specialist: linked to another specialist, or to none.
RelinkLogin(a, s) ==
  /\ login[a].state = "there" /\ login[a].specialist # s
  /\ login' = [login EXCEPT ![a].specialist = s]
  /\ byHand' = byHand \cup {a}
  /\ UNCHANGED <<person, editor, excused>>

\* DELETE /:adminId
RemoveLogin(a) ==
  /\ login[a].state = "there"
  /\ AccountGoes(a)
  /\ UNCHANGED <<person, editor, excused, byHand>>

-----------------------------------------------------------------------------
(* Changes of an e-mail: only that of the specialist or of the account,    *)
(* which no longer find each other by it.                                  *)

\* PATCH /specialists/:id
PatchEmail(s, e) ==
  /\ person[s].state = "there" /\ person[s].email # e
  /\ person' = [person EXCEPT ![s].email = e]
  /\ excused' = IF person[s].login = NoLogin THEN excused \cup {s} ELSE excused
  /\ UNCHANGED <<login, editor, byHand>>

\* PATCH /me
PatchMe(a, e) ==
  /\ login[a].state = "there" /\ WithEmail(e) = {}
  /\ login' = [login EXCEPT ![a].email = e]
  /\ excused' = excused \cup {s \in Specialists : login[a].specialist = s
                                                  /\ person[s].login = NoLogin}
  /\ UNCHANGED <<person, editor, byHand>>

-----------------------------------------------------------------------------
(* DELETE /specialists/:id                                                 *)

DeletePerson(h, s) ==
  LET d == person[s] IN
  /\ editor[h].step = "idle"
  /\ d.state = "there"
  /\ person' = [person EXCEPT ![s].state = "gone", ![s].email = NoEmail]
  /\ editor' = [editor EXCEPT ![h] = IF d.login = NoLogin /\ d.email = NoEmail THEN IdleEditor
       ELSE IF d.login # NoLogin
         THEN [IdleEditor EXCEPT !.step = "unlink", !.person = s, !.login = d.login]
         ELSE [IdleEditor EXCEPT !.step = "find", !.person = s, !.email = d.email]]
  /\ excused' = IF WorkOn(s) # {} THEN excused \cup {s} ELSE excused
  /\ UNCHANGED <<login, byHand>>

\* "Delete associated admin account if it exists"
DeleteLinked(h) ==
  /\ editor[h].step = "unlink"
  /\ AccountGoes(editor[h].login)
  /\ EditorEnds(h)
  /\ UNCHANGED <<person, excused, byHand>>

\* Mutant: no account is looked for by e-mail.
FindNone(h) ==
  /\ editor[h].step = "find"
  /\ EditorEnds(h)
  /\ UNCHANGED <<person, login, excused, byHand>>

\* "Also try to delete admin by email if adminId field doesn't exist": it is
\* not asked for whom the account was made.
FindByEmail(h) ==
  /\ editor[h].step = "find"
  /\ \/ \E a \in WithEmail(editor[h].email) :
          editor' = [editor EXCEPT ![h].step = "remove", ![h].login = a]
     \/ WithEmail(editor[h].email) = {} /\ EditorEnds(h)
  /\ UNCHANGED <<person, login, excused, byHand>>

DeleteFound(h) ==
  /\ editor[h].step = "remove"
  /\ AccountGoes(editor[h].login)
  /\ EditorEnds(h)
  /\ UNCHANGED <<person, excused, byHand>>

\* An error, or the process dies.  Errors of the deletion of an account are
\* logged and answered as a success.
EditorFails(h) ==
  /\ editor[h].step # "idle"
  /\ excused' = IF editor[h].step \in {"unlink", "find", "remove"}
                  THEN excused \cup {editor[h].person} ELSE excused
  /\ EditorEnds(h)
  /\ UNCHANGED <<person, login, byHand>>

StaffNext ==
  \/ \E h \in Editors :
       \/ \E s \in Specialists :
            \/ \E e \in Addresses \cup {NoEmail} : CreatePerson(h, s, e)
            \/ DeletePerson(h, s)
       \/ FindExistingAdmin(h) \/ LinkLogin(h) \/ \E a \in Logins : CreateLogin(h, a)
       \/ DeleteLinked(h) \/ FindByEmail(h) \/ DeleteFound(h) \/ EditorFails(h)
  \/ \E a \in Logins :
       \/ \E s \in Specialists \cup {NoSpecialist} :
            RelinkLogin(a, s) \/ \E e \in Addresses : AddLogin(a, e, s)
       \/ \E e \in Addresses : PatchMe(a, e)
       \/ RemoveLogin(a)
  \/ \E s \in Specialists, e \in Addresses : PatchEmail(s, e)

StaffSpec == StaffInit /\ [][StaffNext]_staffVars

-----------------------------------------------------------------------------
(* Properties                                                              *)

\* Whoever has been deleted cannot sign in any more: an account outlives its
\* specialist only when the deletion overtook the creation, failed behind the
\* specialist, the e-mail of one of them was changed while the specialist did
\* not name the account, or an admin linked the account to the specialist,
\* who does not name it.
DeletedCannotSignIn ==
  \A a \in Logins, s \in Specialists :
    (login[a].state = "there" /\ login[a].specialist = s /\ person[s].state = "gone") =>
      s \in excused \/ WorkOn(s) # {} \/ (a \in byHand /\ person[s].login # a)

=============================================================================
