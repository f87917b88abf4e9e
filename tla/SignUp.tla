------------------------------- MODULE SignUp -------------------------------
(***************************************************************************)
(* A salon signs up, changes its address and is deleted: POST /create, PUT *)
(* /:id and DELETE /:id of routes/tenants.js, with the hooks of            *)
(* models/Tenant.js and middleware/multiTenantPlugin.js.                   *)
(*                                                                         *)
(* The sign-up is eight writes without a transaction.  E-mail addresses    *)
(* are looked up first; an admin's is unique in the database too, as is a  *)
(* slug, and a salon's is not.  A request that fails leaves what it wrote. *)
(* All salons have one name: their slugs are the name and a number.        *)
(*                                                                         *)
(* A request may belong to a salon, by its host, header or token.  The     *)
(* plugin then puts that salon in place of the one that a query on the     *)
(* other documents asks for; a tenant's own document is not concerned.     *)
(***************************************************************************)
EXTENDS Integers, FiniteSets

CONSTANTS
  Founders,  \* requests the server works on
  Salons,
  NoSalon,
  Emails,
  Applications  \* the pairs of a business and an admin address that sign up

ASSUME SignUpAssumption == NoSalon \notin Salons /\ IsFiniteSet(Salons) /\ Emails # {}
                           /\ Applications \subseteq Emails \X Emails

VARIABLES
  salon,     \* the tenant and the documents made with it
  founder,   \* request -> where it waits and what it has read
  met,       \* history: salon -> salons there when its e-mail was looked up
  given,     \* history: salons that were given another e-mail
  torn,      \* history: salons deleted while a request worked on them, or by a
             \* request of another salon
  lost       \* history: salons that lost a part on its own, or by the deletion
             \* of another salon

signUpVars == <<salon, founder, met, given, torn, lost>>

\* tenant.ownerId and admin.specialistId are parts too.
Parts == {"admin", "owner", "settings", "location", "specialist", "linked"}

SalonDocs == [ state : {"none", "there", "answered", "deleted"}, email : Emails,
               adminEmail : Emails, slug : 0..Cardinality(Salons), parts : SUBSET Parts ]

FounderSteps == {"idle", "tenantEmail", "slug", "tenant", "admin", "owner",
                 "settings", "location", "specialist", "linked", "answer"}

FounderStates ==
  [ step : FounderSteps, salon : Salons \cup {NoSalon}, email : Emails, adminEmail : Emails,
    slug : 0..Cardinality(Salons), met : SUBSET Salons ]

SignUpTypeOK ==
  /\ salon \in [Salons -> SalonDocs]
  /\ founder \in [Founders -> FounderStates]
  /\ met \in [Salons -> SUBSET Salons]
  /\ {given, torn, lost} \subseteq SUBSET Salons

AnEmail == CHOOSE e \in Emails : TRUE

IdleFounder == [step |-> "idle", salon |-> NoSalon, email |-> AnEmail, adminEmail |-> AnEmail,
                slug |-> 0, met |-> {}]

SignUpInit ==
  /\ salon = [s \in Salons |-> [state |-> "none", email |-> AnEmail, adminEmail |-> AnEmail,
                                slug |-> 0, parts |-> {}]]
  /\ founder = [h \in Founders |-> IdleFounder]
  /\ met = [s \in Salons |-> {}]
  /\ given = {} /\ torn = {} /\ lost = {}

-----------------------------------------------------------------------------
(* Helpers                                                                 *)

Existing == {s \in Salons : salon[s].state \in {"there", "answered"}}

AdminEmailsOf(salons) ==
  {salon[s].adminEmail : s \in {t \in salons : "admin" \in salon[t].parts}}

AdminEmails == AdminEmailsOf(Salons)

\* The salon a request belongs to, and the salons its queries then reach.
Contexts == Existing \cup {NoSalon}

Within(context, salons) == IF context = NoSalon THEN salons ELSE {context}

\* A slug is the name and the first number that is not taken.
TakenSlugs == {salon[s].slug : s \in Existing}

FreeSlug == CHOOSE n \in 1..(Cardinality(Salons) + 1) :
              n \notin TakenSlugs /\ \A m \in 1..(n - 1) : m \in TakenSlugs

FounderGoes(h, step) == founder' = [founder EXCEPT ![h].step = step]

FounderEnds(h) == founder' = [founder EXCEPT ![h] = IdleFounder]

-----------------------------------------------------------------------------
(* POST /create                                                            *)

\* Admin.findOne.
SignsUp(h, email, adminEmail) ==
  /\ founder[h].step = "idle"
  /\ \E t \in Contexts : adminEmail \notin AdminEmailsOf(Within(t, Salons))
  /\ founder' = [founder EXCEPT ![h] =
       [IdleFounder EXCEPT !.step = "tenantEmail", !.email = email, !.adminEmail = adminEmail]]
  /\ UNCHANGED <<salon, met, given, torn, lost>>

\* Mutant: only salons whose sign-up is finished are looked at.
UsedByAnswered(email) == \E s \in Salons : salon[s].state = "answered" /\ salon[s].email = email

EmailUsed(email) == \E s \in Existing : salon[s].email = email

\* Tenant.findOne
CheckTenantEmail(h) ==
  /\ founder[h].step = "tenantEmail"
  /\ IF EmailUsed(founder[h].email) THEN FounderEnds(h)
     ELSE founder' = [founder EXCEPT ![h].step = "slug", ![h].met = Existing]
  /\ UNCHANGED <<salon, met, given, torn, lost>>

\* The pre-save hook of the tenant.
SearchSlug(h) ==
  /\ founder[h].step = "slug"
  /\ FreeSlug <= Cardinality(Salons)
  /\ founder' = [founder EXCEPT ![h].step = "tenant", ![h].slug = FreeSlug]
  /\ UNCHANGED <<salon, met, given, torn, lost>>

\* The index on the slug refuses one that was taken meanwhile.
SaveTenant(h, s) ==
  LET r == founder[h] IN
  /\ r.step = "tenant"
  /\ salon[s].state = "none"
  /\ IF r.slug \in TakenSlugs THEN FounderEnds(h) /\ UNCHANGED <<salon, met>>
     ELSE /\ salon' = [salon EXCEPT ![s] = [state |-> "there", email |-> r.email, slug |-> r.slug,
                                            adminEmail |-> r.adminEmail, parts |-> {}]]
          /\ met' = [met EXCEPT ![s] = r.met]
          /\ founder' = [founder EXCEPT ![h].step = "admin", ![h].salon = s, ![h].met = {},
                                        ![h].email = AnEmail, ![h].slug = 0]
  /\ UNCHANGED <<given, torn, lost>>

\* A part is saved; an admin's address that was taken meanwhile is refused,
\* and so is an update of a tenant that is gone.
SavePart(h, part, next) ==
  LET s == founder[h].salon IN
  /\ founder[h].step = part
  /\ IF \/ part = "admin" /\ founder[h].adminEmail \in AdminEmails
        \/ part = "owner" /\ salon[s].state = "deleted"
        \/ part = "linked" /\ "admin" \notin salon[s].parts
       THEN FounderEnds(h) /\ UNCHANGED salon
       ELSE salon' = [salon EXCEPT ![s].parts = @ \cup {part}] /\ FounderGoes(h, next)
  /\ UNCHANGED <<met, given, torn, lost>>

\* The mail is sent or fails; the answer is 201.
AnswerSignUp(h) ==
  LET s == founder[h].salon IN
  /\ founder[h].step = "answer"
  /\ salon' = [salon EXCEPT ![s].state = IF @ = "there" THEN "answered" ELSE @]
  /\ FounderEnds(h)
  /\ UNCHANGED <<met, given, torn, lost>>

-----------------------------------------------------------------------------
(* PUT /:id and DELETE /:id                                                *)

\* The e-mail is not looked up (bound: for one salon that is there).
UpdateEmail(s, email) ==
  /\ given = {} /\ s \in Existing /\ salon[s].email # email
  /\ salon' = [salon EXCEPT ![s].email = email]
  /\ given' = given \cup {s}
  /\ UNCHANGED <<founder, met, torn, lost>>

\* Mutant: the settings stay.
AllButSettings == Parts \ {"owner", "settings"}

\* What deleteMany deletes; links go with their documents.
DeletedParts == Parts \ {"owner"}

\* The transaction, asked for by a request of salon t: deleteMany({ tenantId: s })
\* deletes what belongs to t.
DeleteSalon(s, t) ==
  LET left(x) == salon[x].parts \ (IF x \in Within(t, {s}) THEN DeletedParts ELSE {}) IN
  /\ s \in Existing
  /\ salon' = [x \in Salons |->
       IF x = s THEN [state |-> "deleted", email |-> AnEmail, slug |-> 0,
                      adminEmail |-> IF "admin" \in left(s) THEN salon[s].adminEmail ELSE AnEmail,
                      parts |-> left(s) \ {"owner"}]
       ELSE [salon[x] EXCEPT !.parts = left(x)]]
  /\ torn' = IF t \notin {s, NoSalon} \/ \E h \in Founders : founder[h].salon = s
               THEN torn \cup {s} ELSE torn
  /\ lost' = (lost \cup Within(t, {s})) \ {s}
  /\ met' = [x \in Salons |-> IF x = s THEN {} ELSE met[x] \ {s}]
  /\ UNCHANGED <<founder, given>>

\* An account, a location or a specialist is deleted by the routes of its own
\* (bounds: of one whose sign-up is answered, and nothing more once a part is lost).
DeletePart(s, part) ==
  /\ salon[s].state = "answered" /\ s \notin lost /\ part \in salon[s].parts
  /\ salon' = [salon EXCEPT ![s].parts = @ \ (IF part = "admin" THEN {part, "linked"} ELSE {part})]
  /\ lost' = lost \cup {s}
  /\ UNCHANGED <<founder, met, given, torn>>

-----------------------------------------------------------------------------

\* The server dies, or an await throws.
FounderFails(h) ==
  /\ founder[h].step # "idle"
  /\ FounderEnds(h)
  /\ UNCHANGED <<salon, met, given, torn, lost>>

SignUpNext ==
  \/ \E s \in Salons :
       \/ \E t \in Contexts : DeleteSalon(s, t)
       \/ \E email \in Emails : UpdateEmail(s, email)
       \/ \E part \in {"admin", "location", "specialist"} : DeletePart(s, part)
  \/ \E h \in Founders :
       \/ \E a \in Applications : SignsUp(h, a[1], a[2])
       \/ CheckTenantEmail(h) \/ SearchSlug(h) \/ \E s \in Salons : SaveTenant(h, s)
       \/ SavePart(h, "admin", "owner") \/ SavePart(h, "owner", "settings")
       \/ SavePart(h, "settings", "location") \/ SavePart(h, "location", "specialist")
       \/ SavePart(h, "specialist", "linked") \/ SavePart(h, "linked", "answer")
       \/ AnswerSignUp(h) \/ FounderFails(h)

SignUpSpec == SignUpInit /\ [][SignUpNext]_signUpVars

-----------------------------------------------------------------------------
(* Properties                                                              *)

\* Two salons have the same business address only if one was given it later or
\* they signed up at once: neither was there when the address was looked up for
\* the other.
SameAddressOverlapped ==
  \A s, t \in Existing \ given : (s # t /\ salon[s].email = salon[t].email) => s \notin met[t]

\* A salon whose sign-up was answered has all its parts, unless one of them was
\* deleted on its own, or with another salon by a request of this one.  None is
\* left of a salon that has been deleted, unless the deletion overtook the
\* sign-up or was asked for by a request of another salon.
WholeOrGone ==
  \A s \in Salons :
    /\ (salon[s].state = "answered" /\ s \notin lost) => salon[s].parts = Parts
    /\ (salon[s].state = "deleted" /\ s \notin torn) => salon[s].parts = {}

\* Both: a salon is there once and as a whole.
SalonsAreSound == SameAddressOverlapped /\ WholeOrGone
=============================================================================
