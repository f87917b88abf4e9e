------------------------------ MODULE Referral ------------------------------
(***************************************************************************)
(* Referral codes and the salons that signed up by them: models/           *)
(* ReferralCode.js, models/Referral.js, utils/referralCodeGenerator.js,    *)
(* controllers/referralController.js and the part of POST /create in       *)
(* routes/tenants.js that records a referral.                              *)
(*                                                                         *)
(* A referral stays "pending": nothing calls recordFirstBooking, and no    *)
(* code is ever made inactive.                                             *)
(***************************************************************************)
EXTENDS Integers, FiniteSets

CONSTANTS
  Referrers,  \* requests the server works on
  Owners,     \* clients and salons that may have a code
  NoOwner,
  Codes,
  NoCode,
  Referred    \* salons that sign up

ASSUME ReferralAssumption == NoOwner \notin Owners /\ NoCode \notin Codes

VARIABLES
  owner,      \* code -> its owner
  referrals,  \* pairs of a code and a salon
  referrer,   \* request -> where it waits and what it has read
  before,     \* history: code -> codes that were there when its owner's were looked for
  shown       \* what the last dashboard has shown: its code and its referrals, and
              \* (history) all referrals by a code of the owner, with their codes

referralVars == <<owner, referrals, referrer, before, shown>>

ReferrerSteps == {"idle", "create", "generate", "save", "record", "stats"}

ReferrerStates == [ step : ReferrerSteps, owner : Owners \cup {NoOwner},
                    code : Codes \cup {NoCode}, salon : Referred \cup {NoOwner},
                    before : SUBSET Codes ]

ReferralTypeOK ==
  /\ owner \in [Codes -> Owners \cup {NoOwner}]
  /\ referrals \in SUBSET (Codes \X Referred)
  /\ referrer \in [Referrers -> ReferrerStates]
  /\ before \in [Codes -> SUBSET Codes]
  /\ shown \in [code : Codes \cup {NoCode}, salons : SUBSET Referred,
                 all : SUBSET (Codes \X Referred)]

IdleReferrer == [step |-> "idle", owner |-> NoOwner, code |-> NoCode, salon |-> NoOwner,
                 before |-> {}]

NothingShown == [code |-> NoCode, salons |-> {}, all |-> {}]

ReferralInit ==
  /\ owner = [c \in Codes |-> NoOwner]
  /\ referrals = {}
  /\ referrer = [h \in Referrers |-> IdleReferrer]
  /\ before = [c \in Codes |-> {}]
  /\ shown = NothingShown

-----------------------------------------------------------------------------

Issued == {c \in Codes : owner[c] # NoOwner}

OwnedBy(o) == {c \in Codes : owner[c] = o}

ReferrerEnds(h) == referrer' = [referrer EXCEPT ![h] = IdleReferrer]

\* POST /generate, GET /my-code: the latter looks for a code by itself before
\* createForOwner does so again.
AskForCode(h, o, looked) ==
  /\ referrer[h].step = "idle"
  /\ looked => OwnedBy(o) = {}
  /\ referrer' = [referrer EXCEPT ![h] = [IdleReferrer EXCEPT !.step = "create", !.owner = o]]
  /\ UNCHANGED <<owner, referrals, before, shown>>

\* Mutant: a code is looked for among those that were used.
UsedCode(o) == \E c \in OwnedBy(o) : \E s \in Referred : <<c, s>> \in referrals

HasCode(o) == OwnedBy(o) # {}

CreateForOwner(h) ==
  LET o == referrer[h].owner IN
  /\ referrer[h].step = "create"
  /\ IF HasCode(o) THEN ReferrerEnds(h)
     ELSE referrer' = [referrer EXCEPT ![h].step = "generate", ![h].before = Issued]
  /\ UNCHANGED <<owner, referrals, before, shown>>

\* A random code that no one has; there may be none in ten attempts.
GenerateUniqueCode(h, c) ==
  /\ referrer[h].step = "generate"
  /\ c \notin Issued
  /\ referrer' = [referrer EXCEPT ![h].step = "save", ![h].code = c]
  /\ UNCHANGED <<owner, referrals, before, shown>>

\* The unique index refuses a code that was issued meanwhile.
SaveReferralCode(h) ==
  LET r == referrer[h] IN
  /\ r.step = "save"
  /\ IF r.code \in Issued THEN UNCHANGED <<owner, before>>
     ELSE /\ owner' = [owner EXCEPT ![r.code] = r.owner]
          /\ before' = [before EXCEPT ![r.code] = r.before]
  /\ ReferrerEnds(h)
  /\ UNCHANGED <<referrals, shown>>

\* POST /create of a tenant: a code that is found ...
FindByCode(h, c, s) ==
  /\ referrer[h].step = "idle"
  /\ c \in Issued
  /\ \A d \in Codes : <<d, s>> \notin referrals
  /\ \A k \in Referrers : referrer[k].salon # s
  /\ referrer' = [referrer EXCEPT ![h] = [IdleReferrer EXCEPT !.step = "record", !.code = c,
                                                              !.salon = s]]
  /\ UNCHANGED <<owner, referrals, before, shown>>

\* ... is recorded.
CreateReferral(h) ==
  /\ referrer[h].step = "record"
  /\ referrals' = referrals \cup {<<referrer[h].code, referrer[h].salon>>}
  /\ ReferrerEnds(h)
  /\ UNCHANGED <<owner, before, shown>>

\* GET /dashboard, GET /stats: one of the owner's codes and its referrals.
FindByOwner(h, o, c) ==
  /\ referrer[h].step = "idle"
  /\ c \in OwnedBy(o)
  /\ referrer' = [referrer EXCEPT ![h] = [IdleReferrer EXCEPT !.step = "stats", !.code = c]]
  /\ UNCHANGED <<owner, referrals, before, shown>>

GetStats(h) ==
  LET c == referrer[h].code IN
  /\ referrer[h].step = "stats"
  /\ shown' = [code |-> c, salons |-> {s \in Referred : <<c, s>> \in referrals},
               all |-> {r \in referrals : owner[r[1]] = owner[c]}]
  /\ ReferrerEnds(h)
  /\ UNCHANGED <<owner, referrals, before>>

\* The server dies, or an await throws; a sign-up goes on without its referral.
ReferrerFails(h) ==
  /\ referrer[h].step # "idle"
  /\ ReferrerEnds(h)
  /\ UNCHANGED <<owner, referrals, before, shown>>

ReferralNext ==
  \E h \in Referrers :
    \/ \E o \in Owners : \/ \E looked \in BOOLEAN : AskForCode(h, o, looked)
                         \/ \E c \in Codes : FindByOwner(h, o, c)
    \/ CreateForOwner(h) \/ SaveReferralCode(h)
    \/ \E c \in Codes : \/ GenerateUniqueCode(h, c)
                        \/ \E s \in Referred : FindByCode(h, c, s)
    \/ CreateReferral(h) \/ GetStats(h) \/ ReferrerFails(h)

ReferralSpec == ReferralInit /\ [][ReferralNext]_referralVars

-----------------------------------------------------------------------------
(* Properties                                                              *)

\* A dashboard, which knows of one code, shows all the salons that its owner has
\* referred, but for those by another code that was asked for at the same time:
\* neither code was there when the owner's were looked for to make the other.
ReferralsAreShown ==
  \A r \in shown.all :
    r[2] \in shown.salons \/ (r[1] \notin before[shown.code] /\ shown.code \notin before[r[1]])
=============================================================================
