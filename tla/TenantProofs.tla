---------------------------- MODULE TenantProofs -----------------------------
(***************************************************************************)
(* Salons as tenants, for any number of requests and salons: the sign-up   *)
(* with its deletion, and the cached tenant of a request.                  *)
(***************************************************************************)
EXTENDS SignUp, Tenancy, TLAPS

-----------------------------------------------------------------------------
(* Sign-up.  A salon that is there has the parts that its sign-up has      *)
(* saved so far (Progress), and only one request works on it.  The numbers *)
(* of slugs do not matter: they are in some set.                           *)

SalonShape(S) ==
  [ state : {"none", "there", "answered", "deleted"}, email : Emails, adminEmail : Emails,
    slug : S, parts : SUBSET Parts ]

FounderShape(S) ==
  [ step : FounderSteps, salon : Salons \cup {NoSalon}, email : Emails, adminEmail : Emails,
    slug : S, met : SUBSET Salons ]

SignUpShape(S) ==
  /\ salon \in [Salons -> SalonShape(S)]
  /\ founder \in [Founders -> FounderShape(S)]
  /\ met \in [Salons -> SUBSET Salons]
  /\ {given, torn, lost} \subseteq SUBSET Salons

Saving == {"admin", "owner", "settings", "location", "specialist", "linked", "answer"}

\* The parts that are saved when a request comes to a step.
Done(step) ==
  CASE step = "admin"      -> {}
    [] step = "owner"      -> {"admin"}
    [] step = "settings"   -> {"admin", "owner"}
    [] step = "location"   -> {"admin", "owner", "settings"}
    [] step = "specialist" -> {"admin", "owner", "settings", "location"}
    [] step = "linked"     -> {"admin", "owner", "settings", "location", "specialist"}
    [] step = "answer"     -> Parts

Progress ==
  /\ \A h \in Founders :
       IF founder[h].step \in Saving
         THEN /\ founder[h].salon \in Salons
              /\ salon[founder[h].salon].state \in {"there", "deleted"}
              /\ salon[founder[h].salon].state = "there" /\ founder[h].salon \notin lost =>
                   salon[founder[h].salon].parts = Done(founder[h].step)
         ELSE founder[h].salon = NoSalon
  /\ \A h, k \in Founders :
       founder[h].step \in Saving /\ founder[k].step \in Saving
         /\ founder[h].salon = founder[k].salon => h = k
  /\ \A s \in Salons : salon[s].state = "deleted" /\ s \notin torn =>
       \A h \in Founders : founder[h].salon # s

\* What a request met when it looked up its address has another one.
Met ==
  /\ \A h \in Founders : \A s \in founder[h].met :
       salon[s].state # "none" /\ (s \in Existing \ given => salon[s].email # founder[h].email)
  /\ \A t \in Salons : \A s \in met[t] : salon[s].state # "none"

SignUpInv ==
  /\ \E S : 0 \in S /\ SignUpShape(S)
  /\ Progress
  /\ Met
  /\ SameAddressOverlapped
  /\ WholeOrGone

LEMMA FounderTyped ==
  ASSUME NEW S, 0 \in S
  PROVE  /\ IdleFounder \in FounderShape(S) /\ IdleFounder.step = "idle"
         /\ IdleFounder.salon = NoSalon /\ IdleFounder.met = {} /\ AnEmail \in Emails
<1>1. AnEmail \in Emails
  BY SignUpAssumption DEF AnEmail
<1> QED BY <1>1 DEF IdleFounder, FounderShape, FounderSteps

LEMMA SignUpStarts == SignUpInit => SignUpInv
<1> SUFFICES ASSUME SignUpInit PROVE SignUpInv
  OBVIOUS
<1>1. SignUpShape({0})
  BY FounderTyped DEF SignUpInit, SignUpShape, SalonShape
<1>2. \A s \in Salons : salon[s].state = "none"
  BY DEF SignUpInit
<1>3. \A h \in Founders : founder[h] = IdleFounder
  BY DEF SignUpInit
<1>4. Progress /\ Met
  BY <1>2, <1>3, FounderTyped DEF SignUpInit, Progress, Met, Saving
<1>5. SameAddressOverlapped /\ WholeOrGone
  BY <1>2 DEF SameAddressOverlapped, WholeOrGone, Existing
<1> QED BY <1>1, <1>4, <1>5 DEF SignUpInv

\* A request that saves nothing yet goes on, or any request ends.
LEMMA FounderKeeps ==
  ASSUME SignUpInv, NEW h \in Founders, NEW r, founder' = [founder EXCEPT ![h] = r],
         UNCHANGED <<salon, met, given, torn, lost>>, \E S : 0 \in S /\ SignUpShape(S)',
         r.step \notin Saving, r.salon = NoSalon,
         \A s \in r.met : salon[s].state # "none" /\ (s \in Existing \ given => salon[s].email # r.email)
  PROVE  SignUpInv'
<1>0. PICK S : SignUpShape(S)
  BY DEF SignUpInv
<1>1. founder'[h] = r /\ \A g \in Founders : g # h => founder'[g] = founder[g]
  BY <1>0 DEF SignUpShape
<1>2. Progress'
  BY <1>1, SignUpAssumption DEF SignUpInv, Progress
<1>3. Met'
  BY <1>1 DEF SignUpInv, Met, Existing
<1>4. SameAddressOverlapped' /\ WholeOrGone'
  BY DEF SignUpInv, SameAddressOverlapped, WholeOrGone, Existing
<1> QED BY <1>2, <1>3, <1>4 DEF SignUpInv

LEMMA FounderEndKeeps ==
  ASSUME SignUpInv, NEW h \in Founders, FounderEnds(h), UNCHANGED <<salon, met, given, torn, lost>>
  PROVE  SignUpInv'
<1>0. PICK S : 0 \in S /\ SignUpShape(S)
  BY DEF SignUpInv
<1>1. SignUpShape(S)'
  BY <1>0, FounderTyped DEF SignUpShape, FounderEnds
<1> QED BY <1>0, <1>1, FounderTyped, FounderKeeps DEF FounderEnds, Saving

LEMMA SearchSlugKeeps == ASSUME SignUpInv, NEW h \in Founders, SearchSlug(h) PROVE SignUpInv'
<1> DEFINE r == [founder[h] EXCEPT !.step = "tenant", !.slug = FreeSlug]
<1>0. PICK S : 0 \in S /\ SignUpShape(S)
  BY DEF SignUpInv
<1>1. /\ founder[h] \in FounderShape(S) /\ founder[h].step = "slug"
      /\ founder' = [founder EXCEPT ![h] = r] /\ UNCHANGED <<salon, met, given, torn, lost>>
  BY <1>0 DEF SearchSlug, SignUpShape
<1>a. PICK T : T = S \cup {FreeSlug}
  OBVIOUS
<1>2. r \in FounderShape(T)
  BY <1>1, <1>a DEF FounderShape, FounderSteps
<1>3. FounderShape(S) \subseteq FounderShape(T) /\ SalonShape(S) \subseteq SalonShape(T)
  BY <1>a DEF FounderShape, SalonShape
<1>4. /\ r.step = "tenant" /\ r.salon = founder[h].salon /\ r.email = founder[h].email
      /\ r.met = founder[h].met
  BY <1>1 DEF FounderShape
<1> HIDE DEF r
<1>5. SignUpShape(T)'
  BY <1>0, <1>1, <1>2, <1>3 DEF SignUpShape
<1>6. r.salon = NoSalon /\ r.step \notin Saving
  BY <1>1, <1>4 DEF SignUpInv, Progress, Saving
<1>7. \A s \in r.met : salon[s].state # "none" /\ (s \in Existing \ given => salon[s].email # r.email)
  BY <1>4 DEF SignUpInv, Met
<1>8. 0 \in T
  BY <1>0, <1>a
<1> QED BY <1>1, <1>5, <1>6, <1>7, <1>8, FounderKeeps

LEMMA SignsUpKeeps ==
  ASSUME SignUpInv, NEW h \in Founders, NEW a \in Applications, SignsUp(h, a[1], a[2])
  PROVE  SignUpInv'
<1> DEFINE r == [IdleFounder EXCEPT !.step = "tenantEmail", !.email = a[1], !.adminEmail = a[2]]
<1>0. PICK S : 0 \in S /\ SignUpShape(S)
  BY DEF SignUpInv
<1>1. a[1] \in Emails /\ a[2] \in Emails
  BY SignUpAssumption
<1>2. r \in FounderShape(S) /\ r.step = "tenantEmail" /\ r.salon = NoSalon /\ r.met = {}
  BY <1>0, <1>1, FounderTyped DEF FounderShape, FounderSteps, IdleFounder
<1>3. founder' = [founder EXCEPT ![h] = r] /\ UNCHANGED <<salon, met, given, torn, lost>>
  BY DEF SignsUp
<1> HIDE DEF r
<1>4. SignUpShape(S)'
  BY <1>0, <1>2, <1>3 DEF SignUpShape
<1> QED BY <1>0, <1>2, <1>3, <1>4, FounderKeeps DEF Saving

LEMMA CheckTenantEmailKeeps ==
  ASSUME SignUpInv, NEW h \in Founders, CheckTenantEmail(h) PROVE SignUpInv'
<1>1. CASE EmailUsed(founder[h].email)
  BY <1>1, FounderEndKeeps DEF CheckTenantEmail
<1>2. CASE ~EmailUsed(founder[h].email)
  <2> DEFINE r == [founder[h] EXCEPT !.step = "slug", !.met = Existing]
  <2>0. PICK S : 0 \in S /\ SignUpShape(S)
    BY DEF SignUpInv
  <2>1. /\ founder[h] \in FounderShape(S) /\ founder[h].step = "tenantEmail"
        /\ founder' = [founder EXCEPT ![h] = r] /\ UNCHANGED <<salon, met, given, torn, lost>>
    BY <1>2, <2>0 DEF CheckTenantEmail, SignUpShape
  <2>2. Existing \in SUBSET Salons
    BY DEF Existing
  <2>3. /\ r \in FounderShape(S) /\ r.step = "slug" /\ r.salon = founder[h].salon
        /\ r.email = founder[h].email /\ r.met = Existing
    BY <2>1, <2>2 DEF FounderShape, FounderSteps
  <2> HIDE DEF r
  <2>4. SignUpShape(S)'
    BY <2>0, <2>1, <2>3 DEF SignUpShape
  <2>5. r.salon = NoSalon /\ r.step \notin Saving
    BY <2>1, <2>3 DEF SignUpInv, Progress, Saving
  <2>6. \A s \in r.met : salon[s].state # "none" /\ (s \in Existing \ given => salon[s].email # r.email)
    BY <1>2, <2>3 DEF EmailUsed, Existing
  <2> QED BY <2>0, <2>1, <2>4, <2>5, <2>6, FounderKeeps
<1> QED BY <1>1, <1>2


\* A new salon: nobody has met it, and its address was free.
LEMMA SaveTenantKeeps ==
  ASSUME SignUpInv, NEW h \in Founders, NEW s \in Salons, SaveTenant(h, s) PROVE SignUpInv'
<1>1. CASE founder[h].slug \in TakenSlugs
  BY <1>1, FounderEndKeeps DEF SaveTenant
<1>2. CASE founder[h].slug \notin TakenSlugs
  <2> DEFINE r == founder[h]
             d == [state |-> "there", email |-> r.email, slug |-> r.slug,
                   adminEmail |-> r.adminEmail, parts |-> {}]
             n == [r EXCEPT !.step = "admin", !.salon = s, !.met = {}, !.email = AnEmail, !.slug = 0]
  <2>0. PICK S : 0 \in S /\ SignUpShape(S)
    BY DEF SignUpInv
  <2>1. /\ r \in FounderShape(S) /\ r.step = "tenant" /\ salon[s].state = "none"
        /\ salon' = [salon EXCEPT ![s] = d] /\ met' = [met EXCEPT ![s] = r.met]
        /\ founder' = [founder EXCEPT ![h] = n] /\ UNCHANGED <<given, torn, lost>>
    BY <1>2, <2>0 DEF SaveTenant, SignUpShape
  <2>2. /\ d \in SalonShape(S) /\ n \in FounderShape(S) /\ r.met \in SUBSET Salons
        /\ n.step = "admin" /\ n.salon = s /\ n.met = {}
        /\ d.state = "there" /\ d.email = r.email /\ d.parts = {}
    <3>1. r.email \in Emails /\ r.adminEmail \in Emails /\ r.slug \in S /\ r.met \in SUBSET Salons
      BY <2>1 DEF FounderShape
    <3>2. d \in SalonShape(S)
      BY <3>1 DEF SalonShape
    <3>3. n \in FounderShape(S) /\ n.step = "admin" /\ n.salon = s /\ n.met = {}
      BY <2>0, <2>1, FounderTyped DEF FounderShape, FounderSteps
    <3> QED BY <3>1, <3>2, <3>3
  <2>3. \A x \in r.met : salon[x].state # "none" /\ (x \in Existing \ given => salon[x].email # r.email)
    BY DEF SignUpInv, Met
  <2> HIDE DEF d, n, r
  <2>4. SignUpShape(S)'
    BY <2>0, <2>1, <2>2 DEF SignUpShape
  <2>5. /\ founder'[h] = n /\ \A g \in Founders : g # h => founder'[g] = founder[g]
        /\ salon'[s] = d /\ \A t \in Salons : t # s => salon'[t] = salon[t]
        /\ met'[s] = r.met /\ \A t \in Salons : t # s => met'[t] = met[t]
    BY <2>0, <2>1 DEF SignUpShape
  <2>6. \A g \in Founders : founder[g].salon # s
    <3>1. ASSUME NEW g \in Founders, founder[g].salon = s PROVE FALSE
      <4>1. founder[g].step \in Saving
        BY <3>1, SignUpAssumption DEF SignUpInv, Progress
      <4>2. salon[s].state \in {"there", "deleted"}
        BY <3>1, <4>1 DEF SignUpInv, Progress
      <4> QED BY <4>2, <2>1
    <3> QED BY <3>1
  <2>7. Progress'
    <3>0. "admin" \in Saving /\ Done("admin") = {}
      BY DEF Saving, Done
    <3>1. ASSUME NEW g \in Founders
          PROVE  IF founder'[g].step \in Saving
                 THEN /\ founder'[g].salon \in Salons
                      /\ salon'[founder'[g].salon].state \in {"there", "deleted"}
                      /\ salon'[founder'[g].salon].state = "there" /\ founder'[g].salon \notin lost' =>
                           salon'[founder'[g].salon].parts = Done(founder'[g].step)
                 ELSE founder'[g].salon = NoSalon
      <4>1. CASE g = h
        BY <3>0, <4>1, <2>2, <2>5
      <4>2. CASE g # h
        BY <4>2, <2>1, <2>5, <2>6 DEF SignUpInv, Progress
      <4> QED BY <4>1, <4>2
    <3>2. \A g, k \in Founders :
            founder'[g].step \in Saving /\ founder'[k].step \in Saving
              /\ founder'[g].salon = founder'[k].salon => g = k
      BY <2>2, <2>5, <2>6 DEF SignUpInv, Progress
    <3>3. \A t \in Salons : salon'[t].state = "deleted" /\ t \notin torn' =>
            \A g \in Founders : founder'[g].salon # t
      BY <2>1, <2>2, <2>5 DEF SignUpInv, Progress
    <3> QED BY <3>1, <3>2, <3>3 DEF Progress
  <2>8. Existing' = Existing \cup {s} /\ s \notin Existing
    BY <2>1, <2>2, <2>5 DEF Existing
  <2>9. \A g \in Founders : founder[g].met \in SUBSET Salons
    BY <2>0 DEF SignUpShape, FounderShape
  <2>10. \A t \in Salons : met[t] \in SUBSET Salons
    BY <2>0 DEF SignUpShape
  <2>11. Met'
    <3>1. ASSUME NEW g \in Founders, NEW x \in founder'[g].met
          PROVE  salon'[x].state # "none" /\ (x \in Existing' \ given' => salon'[x].email # founder'[g].email)
      BY <2>1, <2>2, <2>5, <2>8, <2>9 DEF SignUpInv, Met
    <3>2. ASSUME NEW t \in Salons, NEW x \in met'[t] PROVE salon'[x].state # "none"
      BY <2>2, <2>3, <2>5, <2>10 DEF SignUpInv, Met
    <3> QED BY <3>1, <3>2 DEF Met
  <2>12. SameAddressOverlapped'
    BY <2>1, <2>2, <2>3, <2>5, <2>8 DEF SignUpInv, Met, SameAddressOverlapped, Existing
  <2>13. WholeOrGone'
    BY <2>1, <2>2, <2>5 DEF SignUpInv, WholeOrGone
  <2> QED BY <2>0, <2>4, <2>7, <2>11, <2>12, <2>13 DEF SignUpInv
<1> QED BY <1>1, <1>2

\* The step behind each of those that save a part.
Follows(part, next) ==
  /\ part \in Saving \ {"answer"} /\ next \in Saving /\ part \in Parts
  /\ Done(next) = Done(part) \cup {part}

LEMMA SavePartKeeps ==
  ASSUME SignUpInv, NEW h \in Founders, NEW part, NEW next, Follows(part, next),
         SavePart(h, part, next)
  PROVE  SignUpInv'
<1> DEFINE s == founder[h].salon
           d == [salon[s] EXCEPT !.parts = @ \cup {part}]
           n == [founder[h] EXCEPT !.step = next]
<1>0. PICK S : 0 \in S /\ SignUpShape(S)
  BY DEF SignUpInv
<1>1. CASE salon' = salon /\ FounderEnds(h)
  BY <1>1, FounderEndKeeps DEF SavePart
<1>2. CASE salon' = [salon EXCEPT ![s].parts = @ \cup {part}] /\ FounderGoes(h, next)
  <2>1. /\ founder[h] \in FounderShape(S) /\ founder[h].step = part
        /\ s \in Salons /\ salon[s] \in SalonShape(S)
        /\ salon[s].state \in {"there", "deleted"}
        /\ salon[s].state = "there" /\ s \notin lost => salon[s].parts = Done(part)
    BY <1>0 DEF SavePart, SignUpShape, SignUpInv, Progress, Follows
  <2>2. /\ salon' = [salon EXCEPT ![s] = d] /\ founder' = [founder EXCEPT ![h] = n]
        /\ UNCHANGED <<met, given, torn, lost>>
    BY <1>2 DEF SavePart, FounderGoes
  <2>3. /\ d \in SalonShape(S) /\ d.state = salon[s].state /\ d.email = salon[s].email
        /\ d.parts = salon[s].parts \cup {part}
    BY <2>1 DEF SalonShape, Follows
  <2>4. /\ n \in FounderShape(S) /\ n.step = next /\ n.salon = founder[h].salon
        /\ n.email = founder[h].email /\ n.met = founder[h].met
    BY <2>1 DEF FounderShape, FounderSteps, Follows, Saving
  <2>5. PICK x \in Salons : x = s
    BY <2>1
  <2> HIDE DEF d, n, s
  <2>6. SignUpShape(S)'
    BY <1>0, <2>1, <2>2, <2>3, <2>4 DEF SignUpShape
  <2>7. /\ founder'[h] = n /\ \A g \in Founders : g # h => founder'[g] = founder[g]
        /\ salon'[x] = d /\ \A t \in Salons : t # x => salon'[t] = salon[t]
        /\ founder[h].salon = x
    BY <1>0, <2>2, <2>5 DEF SignUpShape, s
  <2>8. \A g \in Founders : founder'[g].salon = founder[g].salon
                            /\ founder'[g].email = founder[g].email
                            /\ founder'[g].met = founder[g].met
                            /\ (founder'[g].step \in Saving <=> founder[g].step \in Saving)
    BY <2>1, <2>4, <2>7 DEF Follows
  <2>9. \A t \in Salons : salon'[t].state = salon[t].state /\ salon'[t].email = salon[t].email
    BY <2>3, <2>5, <2>7
  <2>10. Existing' = Existing
    BY <2>9 DEF Existing
  <2>11. Progress'
    <3>1. ASSUME NEW g \in Founders
          PROVE  IF founder'[g].step \in Saving
                 THEN /\ founder'[g].salon \in Salons
                      /\ salon'[founder'[g].salon].state \in {"there", "deleted"}
                      /\ salon'[founder'[g].salon].state = "there" /\ founder'[g].salon \notin lost' =>
                           salon'[founder'[g].salon].parts = Done(founder'[g].step)
                 ELSE founder'[g].salon = NoSalon
      <4>1. CASE g = h
        <5>1. founder'[g].step = next /\ founder'[g].salon = x /\ next \in Saving
          BY <4>1, <2>4, <2>7 DEF Follows
        <5>2. salon'[x].state \in {"there", "deleted"}
          BY <2>1, <2>3, <2>5, <2>7
        <5>3. salon'[x].state = "there" /\ x \notin lost' => salon'[x].parts = Done(next)
          BY <2>1, <2>2, <2>3, <2>5, <2>7 DEF Follows
        <5> QED BY <5>1, <5>2, <5>3
      <4>2. CASE g # h /\ founder[g].step \in Saving
        <5>1. founder[g].salon # x
          BY <4>2, <2>1, <2>5, <2>7 DEF SignUpInv, Progress, Follows
        <5> QED BY <4>2, <5>1, <2>2, <2>7 DEF SignUpInv, Progress
      <4>3. CASE g # h /\ founder[g].step \notin Saving
        BY <4>3, <2>7 DEF SignUpInv, Progress
      <4> QED BY <4>1, <4>2, <4>3
    <3>2. \A g, k \in Founders :
            founder'[g].step \in Saving /\ founder'[k].step \in Saving
              /\ founder'[g].salon = founder'[k].salon => g = k
      BY <2>8 DEF SignUpInv, Progress
    <3>3. \A t \in Salons : salon'[t].state = "deleted" /\ t \notin torn' =>
            \A g \in Founders : founder'[g].salon # t
      BY <2>2, <2>8, <2>9 DEF SignUpInv, Progress
    <3> QED BY <3>1, <3>2, <3>3 DEF Progress
  <2>12. \A g \in Founders : founder[g].met \in SUBSET Salons
    BY <1>0 DEF SignUpShape, FounderShape
  <2>13. \A t \in Salons : met[t] \in SUBSET Salons
    BY <1>0 DEF SignUpShape
  <2>14. Met'
    BY <2>2, <2>8, <2>9, <2>10, <2>12, <2>13 DEF SignUpInv, Met
  <2>15. SameAddressOverlapped'
    BY <2>2, <2>9, <2>10 DEF SignUpInv, SameAddressOverlapped, Existing
  <2>16. WholeOrGone'
    <3>1. salon[x].state = "deleted" => x \in torn
      BY <2>7 DEF SignUpInv, Progress
    <3> QED BY <3>1, <2>1, <2>2, <2>3, <2>5, <2>7 DEF SignUpInv, WholeOrGone
  <2> QED BY <1>0, <2>6, <2>11, <2>14, <2>15, <2>16 DEF SignUpInv
<1> QED BY <1>1, <1>2 DEF SavePart


LEMMA AnswerSignUpKeeps == ASSUME SignUpInv, NEW h \in Founders, AnswerSignUp(h) PROVE SignUpInv'
<1> DEFINE s == founder[h].salon
           d == [salon[s] EXCEPT !.state = IF @ = "there" THEN "answered" ELSE @]
<1>0. PICK S : 0 \in S /\ SignUpShape(S)
  BY DEF SignUpInv
<1>1. /\ founder[h] \in FounderShape(S) /\ founder[h].step = "answer"
      /\ s \in Salons /\ salon[s] \in SalonShape(S)
      /\ salon[s].state \in {"there", "deleted"}
      /\ salon[s].state = "there" /\ s \notin lost => salon[s].parts = Parts
  BY <1>0 DEF AnswerSignUp, SignUpShape, SignUpInv, Progress, Saving, Done
<1>2. /\ salon' = [salon EXCEPT ![s] = d] /\ founder' = [founder EXCEPT ![h] = IdleFounder]
      /\ UNCHANGED <<met, given, torn, lost>>
  BY DEF AnswerSignUp, FounderEnds
<1>3. /\ d \in SalonShape(S) /\ d.email = salon[s].email /\ d.parts = salon[s].parts
      /\ salon[s].state = "there" => d.state = "answered"
      /\ salon[s].state = "deleted" => d.state = "deleted"
  BY <1>1 DEF SalonShape
<1>4. PICK x \in Salons : x = s
  BY <1>1
<1> HIDE DEF d, s
<1>5. SignUpShape(S)'
  BY <1>0, <1>1, <1>2, <1>3, FounderTyped DEF SignUpShape
<1>6. /\ founder'[h] = IdleFounder /\ \A g \in Founders : g # h => founder'[g] = founder[g]
      /\ salon'[x] = d /\ \A t \in Salons : t # x => salon'[t] = salon[t]
      /\ founder[h].salon = x
  BY <1>0, <1>2, <1>4 DEF SignUpShape, s
<1>7. \A g \in Founders : g # h => founder[g].salon # x
  <2>1. ASSUME NEW g \in Founders, g # h, founder[g].salon = x PROVE FALSE
    <3>1. founder[g].step \in Saving
      BY <2>1, SignUpAssumption DEF SignUpInv, Progress
    <3>2. founder[h].step \in Saving
      BY <1>1 DEF Saving
    <3> QED BY <2>1, <3>1, <3>2, <1>6 DEF SignUpInv, Progress
  <2> QED BY <2>1
<1>8. Existing' = Existing
  BY <1>1, <1>3, <1>4, <1>6 DEF Existing
<1>9. Progress'
  <2>1. ASSUME NEW g \in Founders, g # h
        PROVE  IF founder'[g].step \in Saving
               THEN /\ founder'[g].salon \in Salons
                    /\ salon'[founder'[g].salon].state \in {"there", "deleted"}
                    /\ salon'[founder'[g].salon].state = "there" /\ founder'[g].salon \notin lost' =>
                         salon'[founder'[g].salon].parts = Done(founder'[g].step)
               ELSE founder'[g].salon = NoSalon
    BY <2>1, <1>2, <1>6, <1>7 DEF SignUpInv, Progress
  <2>2. founder'[h].step \notin Saving /\ founder'[h].salon = NoSalon
    BY <1>6, FounderTyped DEF Saving
  <2>3. \A g, k \in Founders :
          founder'[g].step \in Saving /\ founder'[k].step \in Saving
            /\ founder'[g].salon = founder'[k].salon => g = k
    BY <2>2, <1>6 DEF SignUpInv, Progress
  <2>4. \A t \in Salons : salon'[t].state = "deleted" /\ t \notin torn' =>
          \A g \in Founders : founder'[g].salon # t
    <3>1. ASSUME NEW t \in Salons, salon'[t].state = "deleted", t \notin torn', NEW g \in Founders
          PROVE  founder'[g].salon # t
      <4>1. salon[t].state = "deleted"
        BY <3>1, <1>1, <1>3, <1>4, <1>6
      <4>2. founder[g].salon # t
        BY <3>1, <4>1, <1>2 DEF SignUpInv, Progress
      <4> QED BY <4>2, <2>2, <1>6, SignUpAssumption
    <3> QED BY <3>1
  <2> QED BY <2>1, <2>2, <2>3, <2>4 DEF Progress
<1>10. Met'
  <2>1. \A g \in Founders : founder[g].met \in SUBSET Salons
    BY <1>0 DEF SignUpShape, FounderShape
  <2>2. \A t \in Salons : met[t] \in SUBSET Salons
    BY <1>0 DEF SignUpShape
  <2>3. \A t \in Salons : (salon'[t].state = "none" <=> salon[t].state = "none")
                          /\ salon'[t].email = salon[t].email
    BY <1>1, <1>3, <1>4, <1>6
  <2> QED BY <2>1, <2>2, <2>3, <1>2, <1>6, <1>8, FounderTyped DEF SignUpInv, Met
<1>11. SameAddressOverlapped'
  BY <1>2, <1>3, <1>4, <1>6, <1>8 DEF SignUpInv, SameAddressOverlapped, Existing
<1>12. WholeOrGone'
  BY <1>1, <1>2, <1>3, <1>4, <1>6 DEF SignUpInv, WholeOrGone
<1> QED BY <1>0, <1>5, <1>9, <1>10, <1>11, <1>12 DEF SignUpInv

LEMMA DeleteSalonKeeps ==
  ASSUME SignUpInv, NEW s \in Salons, NEW t \in Contexts, DeleteSalon(s, t) PROVE SignUpInv'
<1> DEFINE left(x) == salon[x].parts \ (IF x \in Within(t, {s}) THEN DeletedParts ELSE {})
           d == [state |-> "deleted", email |-> AnEmail, slug |-> 0,
                 adminEmail |-> IF "admin" \in left(s) THEN salon[s].adminEmail ELSE AnEmail,
                 parts |-> left(s) \ {"owner"}]
           e(x) == [salon[x] EXCEPT !.parts = left(x)]
<1>0. PICK S : 0 \in S /\ SignUpShape(S)
  BY DEF SignUpInv
<1>1. /\ s \in Existing /\ salon' = [x \in Salons |-> IF x = s THEN d ELSE e(x)]
      /\ torn' = IF t \notin {s, NoSalon} \/ \E h \in Founders : founder[h].salon = s
                   THEN torn \cup {s} ELSE torn
      /\ lost' = (lost \cup Within(t, {s})) \ {s}
      /\ met' = [x \in Salons |-> IF x = s THEN {} ELSE met[x] \ {s}]
      /\ UNCHANGED <<founder, given>>
  BY DEF DeleteSalon
<1>2. /\ torn \subseteq torn' /\ torn' \in SUBSET Salons
      /\ s \notin torn' => t \in {s, NoSalon} /\ \A h \in Founders : founder[h].salon # s
  BY <1>0, <1>1 DEF SignUpShape
<1>3. \A x \in Salons : salon[x] \in SalonShape(S)
  BY <1>0 DEF SignUpShape
<1>4. d \in SalonShape(S) /\ d.state = "deleted" /\ (t \in {s, NoSalon} => d.parts = {})
  <2>1. salon[s].adminEmail \in Emails /\ salon[s].parts \in SUBSET Parts
    BY <1>3 DEF SalonShape
  <2>2. t \in {s, NoSalon} => s \in Within(t, {s})
    BY DEF Within
  <2> QED BY <1>0, <2>1, <2>2, FounderTyped DEF SalonShape, DeletedParts
<1>5. ASSUME NEW x \in Salons, x # s
      PROVE  /\ e(x) \in SalonShape(S) /\ e(x).state = salon[x].state /\ e(x).email = salon[x].email
             /\ e(x).parts \subseteq salon[x].parts
             /\ x \notin lost' => e(x).parts = salon[x].parts /\ x \notin lost
  <2>1. left(x) \in SUBSET Parts /\ left(x) \subseteq salon[x].parts
    BY <1>3 DEF SalonShape
  <2>2. x \notin lost' => left(x) = salon[x].parts /\ x \notin lost
    BY <1>1, <1>5
  <2> HIDE DEF left
  <2> QED BY <1>3, <2>1, <2>2 DEF SalonShape
<1>6. Within(t, {s}) \in SUBSET Salons
  BY DEF Within, Contexts, Existing
<1> HIDE DEF d, e, left
<1>7. SignUpShape(S)'
  <2>1. \A x \in Salons : met[x] \in SUBSET Salons
    BY <1>0 DEF SignUpShape
  <2>2. salon' \in [Salons -> SalonShape(S)] /\ met' \in [Salons -> SUBSET Salons]
    BY <1>1, <1>4, <1>5, <2>1
  <2> QED BY <1>0, <1>1, <1>2, <1>6, <2>2 DEF SignUpShape
<1>8. salon'[s] = d /\ \A x \in Salons : x # s => salon'[x] = e(x)
  BY <1>1
<1>9. \A x \in Salons : /\ x # s => salon'[x].state = salon[x].state /\ salon'[x].email = salon[x].email
                        /\ x # s => salon'[x].parts \subseteq salon[x].parts
                        /\ x # s /\ x \notin lost' => salon'[x].parts = salon[x].parts /\ x \notin lost
                        /\ salon'[s].state = "deleted" /\ (t \in {s, NoSalon} => salon'[s].parts = {})
  BY <1>4, <1>5, <1>8
<1>10. Existing' = Existing \ {s}
  BY <1>9 DEF Existing
<1>11. Progress'
  <2>1. ASSUME NEW g \in Founders
        PROVE  IF founder'[g].step \in Saving
               THEN /\ founder'[g].salon \in Salons
                    /\ salon'[founder'[g].salon].state \in {"there", "deleted"}
                    /\ salon'[founder'[g].salon].state = "there" /\ founder'[g].salon \notin lost' =>
                         salon'[founder'[g].salon].parts = Done(founder'[g].step)
               ELSE founder'[g].salon = NoSalon
    BY <1>1, <1>9 DEF SignUpInv, Progress
  <2>2. \A g, k \in Founders :
          founder'[g].step \in Saving /\ founder'[k].step \in Saving
            /\ founder'[g].salon = founder'[k].salon => g = k
    BY <1>1 DEF SignUpInv, Progress
  <2>3. \A x \in Salons : salon'[x].state = "deleted" /\ x \notin torn' =>
          \A g \in Founders : founder'[g].salon # x
    BY <1>1, <1>2, <1>9 DEF SignUpInv, Progress
  <2> QED BY <2>1, <2>2, <2>3 DEF Progress
<1>12. Met'
  <2>1. \A g \in Founders : founder[g].met \in SUBSET Salons
    BY <1>0 DEF SignUpShape, FounderShape
  <2>2. \A x \in Salons : met[x] \in SUBSET Salons
    BY <1>0 DEF SignUpShape
  <2>3. \A x \in Salons : (salon[x].state # "none" => salon'[x].state # "none") /\ met'[x] \subseteq met[x]
    BY <1>1, <1>9
  <2> QED BY <2>1, <2>2, <2>3, <1>1, <1>9, <1>10 DEF SignUpInv, Met
<1>13. SameAddressOverlapped'
  <2>1. \A x \in Existing : x \in Salons
    BY DEF Existing
  <2>2. \A x \in Salons : met'[x] \subseteq met[x]
    BY <1>1
  <2> QED BY <1>1, <1>9, <1>10, <2>1, <2>2 DEF SignUpInv, SameAddressOverlapped
<1>14. WholeOrGone'
  <2>1. ASSUME NEW x \in Salons, salon'[x].state = "answered", x \notin lost'
        PROVE  salon'[x].parts = Parts
    BY <2>1, <1>9 DEF SignUpInv, WholeOrGone
  <2>2. ASSUME NEW x \in Salons, salon'[x].state = "deleted", x \notin torn'
        PROVE  salon'[x].parts = {}
    BY <2>2, <1>2, <1>9 DEF SignUpInv, WholeOrGone
  <2> QED BY <2>1, <2>2 DEF WholeOrGone
<1> QED BY <1>0, <1>7, <1>11, <1>12, <1>13, <1>14 DEF SignUpInv

\* A salon changes something that no request that is under way depends on: a
\* part is lost, or its address is another and known as given.
LEMMA SalonEditKeeps ==
  ASSUME SignUpInv, NEW s \in Existing, NEW d, d.state = salon[s].state,
         salon' = [salon EXCEPT ![s] = d], UNCHANGED <<founder, met, torn>>,
         d.email = salon[s].email \/ s \in given',
         d.parts = salon[s].parts \/ s \in lost',
         given \subseteq given', lost \subseteq lost', \E S : 0 \in S /\ SignUpShape(S)'
  PROVE  SignUpInv'
<1>0. PICK S : 0 \in S /\ SignUpShape(S)
  BY DEF SignUpInv
<1>1. s \in Salons /\ salon[s].state \in {"there", "answered"}
  BY DEF Existing
<1>2. salon'[s] = d /\ \A t \in Salons : t # s => salon'[t] = salon[t]
  BY <1>0, <1>1 DEF SignUpShape
<1>3. \A t \in Salons : /\ salon'[t].state = salon[t].state
                        /\ salon'[t].email = salon[t].email \/ t \in given'
                        /\ salon'[t].parts = salon[t].parts \/ t \in lost'
                        /\ salon[t].state = "deleted" => salon'[t].parts = salon[t].parts
  BY <1>1, <1>2
<1>4. Existing' = Existing
  BY <1>3 DEF Existing
<1>5. Progress'
  <2>1. ASSUME NEW g \in Founders
        PROVE  IF founder'[g].step \in Saving
               THEN /\ founder'[g].salon \in Salons
                    /\ salon'[founder'[g].salon].state \in {"there", "deleted"}
                    /\ salon'[founder'[g].salon].state = "there" /\ founder'[g].salon \notin lost' =>
                         salon'[founder'[g].salon].parts = Done(founder'[g].step)
               ELSE founder'[g].salon = NoSalon
    BY <1>3 DEF SignUpInv, Progress
  <2>2. \A g, k \in Founders :
          founder'[g].step \in Saving /\ founder'[k].step \in Saving
            /\ founder'[g].salon = founder'[k].salon => g = k
    BY DEF SignUpInv, Progress
  <2>3. \A t \in Salons : salon'[t].state = "deleted" /\ t \notin torn' =>
          \A g \in Founders : founder'[g].salon # t
    BY <1>3 DEF SignUpInv, Progress
  <2> QED BY <2>1, <2>2, <2>3 DEF Progress
<1>6. Met'
  <2>1. \A g \in Founders : founder[g].met \in SUBSET Salons
    BY <1>0 DEF SignUpShape, FounderShape
  <2>2. \A t \in Salons : met[t] \in SUBSET Salons
    BY <1>0 DEF SignUpShape
  <2> QED BY <2>1, <2>2, <1>3, <1>4 DEF SignUpInv, Met
<1>7. SameAddressOverlapped'
  <2>1. \A t \in Existing : t \in Salons
    BY DEF Existing
  <2> QED BY <1>3, <1>4, <2>1 DEF SignUpInv, SameAddressOverlapped
<1>8. WholeOrGone'
  BY <1>3 DEF SignUpInv, WholeOrGone
<1> QED BY <1>5, <1>6, <1>7, <1>8 DEF SignUpInv

LEMMA UpdateEmailKeeps ==
  ASSUME SignUpInv, NEW s \in Salons, NEW email \in Emails, UpdateEmail(s, email) PROVE SignUpInv'
<1> DEFINE d == [salon[s] EXCEPT !.email = email]
<1>0. PICK S : 0 \in S /\ SignUpShape(S)
  BY DEF SignUpInv
<1>1. /\ s \in Existing /\ salon' = [salon EXCEPT ![s] = d] /\ UNCHANGED <<founder, met, torn, lost>>
      /\ given' = given \cup {s}
  BY DEF UpdateEmail
<1>2. d \in SalonShape(S) /\ d.state = salon[s].state /\ d.parts = salon[s].parts
  BY <1>0 DEF SignUpShape, SalonShape
<1> HIDE DEF d
<1>3. SignUpShape(S)'
  BY <1>0, <1>1, <1>2 DEF SignUpShape
<1> QED BY <1>0, <1>1, <1>2, <1>3, SalonEditKeeps

LEMMA DeletePartKeeps ==
  ASSUME SignUpInv, NEW s \in Salons, NEW part, DeletePart(s, part) PROVE SignUpInv'
<1> DEFINE d == [salon[s] EXCEPT !.parts = @ \ (IF part = "admin" THEN {part, "linked"} ELSE {part})]
<1>0. PICK S : 0 \in S /\ SignUpShape(S)
  BY DEF SignUpInv
<1>1. /\ s \in Existing /\ salon' = [salon EXCEPT ![s] = d] /\ UNCHANGED <<founder, met, given, torn>>
      /\ lost' = lost \cup {s}
  BY DEF DeletePart, Existing
<1>2. d \in SalonShape(S) /\ d.state = salon[s].state /\ d.email = salon[s].email
  BY <1>0 DEF SignUpShape, SalonShape
<1> HIDE DEF d
<1>3. SignUpShape(S)'
  BY <1>0, <1>1, <1>2 DEF SignUpShape
<1> QED BY <1>0, <1>1, <1>2, <1>3, SalonEditKeeps

LEMMA SignUpStutters == ASSUME SignUpInv, UNCHANGED signUpVars PROVE SignUpInv'
<1>0. PICK S : 0 \in S /\ SignUpShape(S)
  BY DEF SignUpInv
<1>1. SignUpShape(S)'
  BY <1>0 DEF signUpVars, SignUpShape
<1>2. Progress' /\ Met'
  BY DEF signUpVars, SignUpInv, Progress, Met, Existing
<1>3. SameAddressOverlapped' /\ WholeOrGone'
  BY DEF signUpVars, SignUpInv, SameAddressOverlapped, WholeOrGone, Existing
<1> QED BY <1>0, <1>1, <1>2, <1>3 DEF SignUpInv

LEMMA SignUpStepKeeps == SignUpInv /\ [SignUpNext]_signUpVars => SignUpInv'
<1> SUFFICES ASSUME SignUpInv, [SignUpNext]_signUpVars PROVE SignUpInv'
  OBVIOUS
<1>1. CASE UNCHANGED signUpVars
  BY <1>1, SignUpStutters
<1>2. ASSUME NEW s \in Salons, NEW t \in Contexts, DeleteSalon(s, t) PROVE SignUpInv'
  BY <1>2, DeleteSalonKeeps
<1>8. ASSUME NEW s \in Salons, NEW email \in Emails, UpdateEmail(s, email) PROVE SignUpInv'
  BY <1>8, UpdateEmailKeeps
<1>9. ASSUME NEW s \in Salons, NEW part, DeletePart(s, part) PROVE SignUpInv'
  BY <1>9, DeletePartKeeps
<1>3. ASSUME NEW h \in Founders, NEW a \in Applications, SignsUp(h, a[1], a[2]) PROVE SignUpInv'
  BY <1>3, SignsUpKeeps
<1>4. ASSUME NEW h \in Founders, CheckTenantEmail(h) \/ SearchSlug(h) \/ AnswerSignUp(h)
      PROVE  SignUpInv'
  BY <1>4, CheckTenantEmailKeeps, SearchSlugKeeps, AnswerSignUpKeeps
<1>5. ASSUME NEW h \in Founders, NEW s \in Salons, SaveTenant(h, s) PROVE SignUpInv'
  BY <1>5, SaveTenantKeeps
<1>6. ASSUME NEW h \in Founders,
             \/ SavePart(h, "admin", "owner") \/ SavePart(h, "owner", "settings")
             \/ SavePart(h, "settings", "location") \/ SavePart(h, "location", "specialist")
             \/ SavePart(h, "specialist", "linked") \/ SavePart(h, "linked", "answer")
      PROVE  SignUpInv'
  <2>1. /\ Follows("admin", "owner") /\ Follows("owner", "settings")
        /\ Follows("settings", "location") /\ Follows("location", "specialist")
        /\ Follows("specialist", "linked") /\ Follows("linked", "answer")
    BY DEF Follows, Saving, Parts, Done
  <2> QED BY <2>1, <1>6, SavePartKeeps
<1>7. ASSUME NEW h \in Founders, FounderFails(h) PROVE SignUpInv'
  BY <1>7, FounderEndKeeps DEF FounderFails
<1> QED BY <1>1, <1>2, <1>3, <1>4, <1>5, <1>6, <1>7, <1>8, <1>9 DEF SignUpNext

(***************************************************************************)
(* Two salons share an address only if one was given it later or they      *)
(* signed up at once; one that was answered is whole unless a part of it   *)
(* was deleted on its own or with another salon, and none of a deleted one *)
(* is left unless a sign-up was still at work on it or a request of        *)
(* another salon deleted it (routes/tenants.js POST /create, PUT /:id,     *)
(* DELETE /:id).  Inductive with what every request has saved and met.     *)
(***************************************************************************)
THEOREM SalonsStandWhole == SignUpSpec => []SalonsAreSound
<1>1. SignUpInv => SalonsAreSound
  BY DEF SignUpInv, SalonsAreSound
<1> QED BY <1>1, SignUpStarts, SignUpStepKeeps, PTL DEF SignUpSpec

-----------------------------------------------------------------------------
(* The tenant of a request.  The invariant holds of every step a request   *)
(* waits at (Fits): nothing is in its context until a tenant is resolved,  *)
(* and then both are one until it is authenticated.                        *)

Resolving == {"slug", "slugRead", "id", "idRead"}

Fits(r) ==
  /\ r.step \in {"slug", "slugRead"} => r.slug \in Tenants
  /\ r.step \in {"id", "idRead"} => r.token \in Tenants
  /\ r.step \in {"merge", "clear"} => r.target \in Tenants
  /\ r.step \in Resolving => r.context = NoTenant /\ r.tenantId = NoTenant
  /\ r.step = "auth" => r.context = r.tenantId
  /\ r.step = "running" => r.context \in {NoTenant, r.tenantId}

TenancyInv == TenancyTypeOK /\ (\A h \in Visitors : Fits(visitor[h])) /\ CacheIsCurrent

\* Facts about records with Boolean fields, for any set in place of BOOLEAN.
LEMMA DocFields ==
  ASSUME NEW B, NEW d \in [alive : B, active : B, features : B], NEW b \in B
  PROVE  /\ [d EXCEPT !.features = b] \in [alive : B, active : B, features : B]
         /\ [d EXCEPT !.active = b] \in [alive : B, active : B, features : B]
         /\ [d EXCEPT !.alive = b] \in [alive : B, active : B, features : B]
OBVIOUS

LEMMA DocsTyped ==
  /\ NewTenant \in TenantDocs /\ [NewTenant EXCEPT !.alive = FALSE] \in TenantDocs
  /\ \A d \in TenantDocs, b \in BOOLEAN :
       [d EXCEPT !.features = b] \in TenantDocs /\ [d EXCEPT !.active = b] \in TenantDocs
<1>1. NewTenant \in TenantDocs
  BY DEF NewTenant, TenantDocs
<1>2. \A d \in TenantDocs, b \in BOOLEAN :
        /\ [d EXCEPT !.features = b] \in TenantDocs /\ [d EXCEPT !.active = b] \in TenantDocs
        /\ [d EXCEPT !.alive = b] \in TenantDocs
  BY DocFields, Zenon DEF TenantDocs
<1> QED BY <1>1, <1>2

LEMMA EntriesTyped ==
  ASSUME NEW d \in TenantDocs
  PROVE  LET e == [NoEntry EXCEPT !.full = TRUE, !.doc = d] IN
         /\ e \in CacheEntries /\ e.doc = d
         /\ LateEntry \in CacheEntries /\ LateEntry.late
         /\ NoEntry \in CacheEntries /\ ~NoEntry.full
BY DocsTyped DEF NoEntry, LateEntry, CacheEntries

LEMMA IdleFits ==
  IdleVisitor \in VisitorStates /\ IdleVisitor.step = "idle" /\ Fits(IdleVisitor)
BY DocsTyped DEF IdleVisitor, VisitorStates, VisitorSteps, MaybeTenant, Fits, Resolving

LEMMA TenancyStarts == TenancyInit => TenancyInv
<1> SUFFICES ASSUME TenancyInit PROVE TenancyInv
  OBVIOUS
<1>1. NoEntry \in CacheEntries /\ NewTenant \in TenantDocs
  BY DocsTyped, EntriesTyped
<1>2. TenancyTypeOK
  BY <1>1, IdleFits DEF TenancyInit, TenancyTypeOK
<1>3. \A h \in Visitors : Fits(visitor[h])
  BY IdleFits DEF TenancyInit
<1>4. CacheIsCurrent
  BY <1>1, EntriesTyped DEF TenancyInit, CacheIsCurrent
<1> QED BY <1>2, <1>3, <1>4 DEF TenancyInv

\* A request goes on that was not about to clear the cache.
LEMMA VisitorKeeps ==
  ASSUME TenancyInv, NEW h \in Visitors, NEW r \in VisitorStates, Fits(r),
         visitor' = [visitor EXCEPT ![h] = r], visitor[h].step # "clear",
         UNCHANGED <<tenant, cache>>
  PROVE  TenancyInv'
<1>1. visitor'[h] = r /\ \A g \in Visitors : g # h => visitor'[g] = visitor[g]
  BY DEF TenancyInv, TenancyTypeOK
<1>2. TenancyTypeOK'
  BY DEF TenancyInv, TenancyTypeOK
<1>3. \A g \in Visitors : Fits(visitor'[g])
  BY <1>1 DEF TenancyInv
<1>4. CacheIsCurrent'
  BY <1>1 DEF TenancyInv, CacheIsCurrent
<1>5. (\A g \in Visitors : Fits(visitor[g]))'
  BY <1>3 DEF Fits
<1> QED BY <1>2, <1>4, <1>5 DEF TenancyInv

LEMMA EndFits ==
  ASSUME TenancyInv, NEW h \in Visitors, VisitorEnds(h), visitor[h].step # "clear",
         UNCHANGED <<tenant, cache>>
  PROVE  TenancyInv'
BY IdleFits, VisitorKeeps DEF VisitorEnds

LEMMA ArrivesKeeps ==
  ASSUME TenancyInv, NEW h \in Visitors, NEW slug \in MaybeTenant, NEW token \in MaybeTenant,
         Arrives(h, slug, token)
  PROVE  TenancyInv'
<1> DEFINE r == [IdleVisitor EXCEPT !.slug = slug, !.token = token,
                   !.step = IF slug = NoTenant THEN "id" ELSE "slug"]
<1>1. r \in VisitorStates
  BY IdleFits DEF VisitorStates, VisitorSteps
<1>2. Fits(r)
  BY DEF IdleVisitor, Fits, Resolving, Arrives, MaybeTenant
<1>3. /\ visitor' = [visitor EXCEPT ![h] = r] /\ UNCHANGED <<tenant, cache>>
      /\ visitor[h].step # "clear"
  BY DEF Arrives
<1> QED BY <1>1, <1>2, <1>3, VisitorKeeps

\* The query of a request is one for a tenant.
LEMMA KeyTyped ==
  ASSUME TenancyInv, NEW h \in Visitors, visitor[h].step \in Resolving
  PROVE  Key(h) \in Keys /\ Key(h)[1] \in Tenants
BY DEF TenancyInv, Resolving, Key, Keys, Fits

LEMMA ResolvedFits ==
  ASSUME TenancyInv, NEW h \in Visitors, NEW t \in Tenants, Resolved(h, t)
  PROVE  \E r \in VisitorStates : Fits(r) /\ visitor' = [visitor EXCEPT ![h] = r] /\ r.step = "auth"
<1> DEFINE r == [IdleVisitor EXCEPT !.step = "auth", !.tenantId = t, !.context = t,
                   !.token = visitor[h].token]
<1>1. visitor[h].token \in MaybeTenant
  BY DEF TenancyInv, TenancyTypeOK, VisitorStates
<1>2. r \in VisitorStates /\ r.step = "auth"
  BY <1>1, IdleFits DEF VisitorStates, VisitorSteps, MaybeTenant
<1>3. Fits(r)
  BY DEF IdleVisitor, Fits, Resolving
<1> QED BY <1>2, <1>3 DEF Resolved

LEMMA CacheHitKeeps == ASSUME TenancyInv, NEW h \in Visitors, CacheHit(h) PROVE TenancyInv'
<1>1. visitor[h].step \in Resolving /\ visitor[h].step # "clear"
  BY DEF CacheHit, Resolving
<1> QED BY <1>1, KeyTyped, ResolvedFits, VisitorKeeps DEF CacheHit

LEMMA ReadTenantKeeps == ASSUME TenancyInv, NEW h \in Visitors, ReadTenant(h) PROVE TenancyInv'
<1> DEFINE t == Key(h)[1]
           f == [visitor[h] EXCEPT !.step = IF visitor[h].step = "slug" THEN "slugRead" ELSE "idRead",
                                   !.copy = tenant[t]]
           n == [visitor[h] EXCEPT !.step = IF visitor[h].step = "slug" THEN AfterSlug(visitor[h].token)
                                            ELSE "auth",
                                   !.slug = NoTenant]
<1>1. /\ visitor[h].step \in {"slug", "id"} /\ visitor[h] \in VisitorStates /\ Fits(visitor[h])
      /\ UNCHANGED <<tenant, cache>>
  BY DEF ReadTenant, TenancyInv, TenancyTypeOK
<1>2. t \in Tenants
  BY <1>1, KeyTyped DEF Resolving
<1>3. tenant[t] \in TenantDocs
  BY <1>2 DEF TenancyInv, TenancyTypeOK
<1>4. f \in VisitorStates /\ Fits(f)
  BY <1>1, <1>3 DEF VisitorStates, VisitorSteps, Fits, Resolving
<1>5. n \in VisitorStates /\ Fits(n)
  BY <1>1 DEF VisitorStates, VisitorSteps, Fits, Resolving, MaybeTenant, AfterSlug
<1>6. visitor' = [visitor EXCEPT ![h] = f] \/ visitor' = [visitor EXCEPT ![h] = n]
  BY DEF ReadTenant
<1> HIDE DEF f, n
<1> QED BY <1>1, <1>4, <1>5, <1>6, VisitorKeeps

LEMMA FillCacheKeeps == ASSUME TenancyInv, NEW h \in Visitors, FillCache(h) PROVE TenancyInv'
<1> DEFINE k == Key(h)
           e == IF visitor[h].copy # tenant[k[1]] THEN LateEntry
                ELSE [NoEntry EXCEPT !.full = TRUE, !.doc = visitor[h].copy]
<1>1. /\ visitor[h].step \in {"slugRead", "idRead"} /\ cache' = [cache EXCEPT ![k] = e]
      /\ Resolved(h, k[1]) /\ tenant' = tenant
  BY DEF FillCache
<1>2. k \in Keys /\ k[1] \in Tenants
  BY <1>1, KeyTyped DEF Resolving
<1>3. PICK r \in VisitorStates : Fits(r) /\ visitor' = [visitor EXCEPT ![h] = r]
  BY <1>1, <1>2, ResolvedFits
<1>4. visitor[h].copy \in TenantDocs
  BY DEF TenancyInv, TenancyTypeOK, VisitorStates
<1>5. e \in CacheEntries /\ (e.late \/ e.doc = tenant[k[1]])
  BY <1>4, EntriesTyped
<1>6. PICK q \in Keys : q = k
  BY <1>2
<1> HIDE DEF e, k
<1>7. TenancyTypeOK'
  BY <1>1, <1>3, <1>5 DEF TenancyInv, TenancyTypeOK
<1>8. visitor'[h] = r /\ \A g \in Visitors : g # h => visitor'[g] = visitor[g]
  BY <1>3 DEF TenancyInv, TenancyTypeOK
<1>9. (\A g \in Visitors : Fits(visitor[g]))'
  BY <1>3, <1>8 DEF TenancyInv, Fits
<1>10. cache'[q] = e /\ \A j \in Keys : j # q => cache'[j] = cache[j]
  BY <1>1, <1>6 DEF TenancyInv, TenancyTypeOK
<1>11. CacheIsCurrent'
  BY <1>1, <1>5, <1>6, <1>8, <1>10 DEF TenancyInv, CacheIsCurrent
<1> QED BY <1>7, <1>9, <1>11 DEF TenancyInv

LEMMA CacheExpiresKeeps == ASSUME TenancyInv, NEW k \in Keys, CacheExpires(k) PROVE TenancyInv'
<1>1. cache' = [cache EXCEPT ![k] = NoEntry] /\ UNCHANGED <<tenant, visitor>>
  BY DEF CacheExpires
<1>2. NoEntry \in CacheEntries /\ ~NoEntry.full
  BY DocsTyped, EntriesTyped
<1>3. TenancyTypeOK'
  BY <1>1, <1>2 DEF TenancyInv, TenancyTypeOK
<1>4. (\A g \in Visitors : Fits(visitor[g]))'
  BY <1>1 DEF TenancyInv, Fits
<1>5. CacheIsCurrent'
  BY <1>1, <1>2 DEF TenancyInv, TenancyTypeOK, CacheIsCurrent
<1> QED BY <1>3, <1>4, <1>5 DEF TenancyInv

\* What authentication adds is there for the context as well, or it is empty.
LEMMA AuthenticateKeeps == ASSUME TenancyInv, NEW h \in Visitors, Authenticate(h) PROVE TenancyInv'
<1> DEFINE a == TenantFromAdmin(visitor[h])
<1>1. visitor[h] \in VisitorStates /\ Fits(visitor[h])
  BY DEF TenancyInv, TenancyTypeOK
<1>2. PICK c \in {visitor[h].context, a} :
        visitor' = [visitor EXCEPT ![h].step = "running", ![h].context = c, ![h].tenantId = a]
  BY DEF Authenticate
<1> DEFINE r == [visitor[h] EXCEPT !.step = "running", !.context = c, !.tenantId = a]
<1>3. visitor[h].context = visitor[h].tenantId /\ visitor[h].step = "auth"
  BY <1>1 DEF Authenticate, Fits
<1>4. a \in MaybeTenant /\ c \in MaybeTenant /\ c \in {NoTenant, a}
  BY <1>1, <1>3 DEF VisitorStates, TenantFromAdmin
<1> HIDE DEF a
<1>5. r \in VisitorStates /\ r.step = "running" /\ r.context = c /\ r.tenantId = a
  BY <1>1, <1>4 DEF VisitorStates, VisitorSteps
<1>6. visitor' = [visitor EXCEPT ![h] = r] /\ UNCHANGED <<tenant, cache>>
  BY <1>2 DEF Authenticate
<1> HIDE DEF r
<1>7. Fits(r)
  BY <1>4, <1>5 DEF Fits, Resolving
<1> QED BY <1>3, <1>5, <1>6, <1>7, VisitorKeeps

\* A running request has begun to work on a tenant.
LEMMA WorksFits ==
  ASSUME TenancyInv, NEW h \in Visitors, NEW t \in Tenants, NEW step \in {"merge", "clear"},
         Works(h, t, step)
  PROVE  \E r \in VisitorStates :
           /\ Fits(r) /\ r.step = step /\ r.target = t
           /\ visitor' = [visitor EXCEPT ![h] = r] /\ visitor[h].step = "running"
<1> DEFINE r == [IdleVisitor EXCEPT !.step = step, !.target = t]
<1>1. r \in VisitorStates /\ r.step = step /\ r.target = t
  BY IdleFits DEF VisitorStates, VisitorSteps, MaybeTenant
<1>2. Fits(r)
  BY <1>1 DEF Fits, Resolving
<1> QED BY <1>1, <1>2 DEF Works

\* A tenant is written by a request that is to clear the cache next.
LEMMA WriteKeeps ==
  ASSUME TenancyInv, NEW h \in Visitors, NEW r \in VisitorStates, NEW t \in Tenants,
         NEW d \in TenantDocs, Fits(r), r.step = "clear", r.target = t,
         visitor' = [visitor EXCEPT ![h] = r], visitor[h].step # "clear",
         tenant' = [tenant EXCEPT ![t] = d], cache' = cache
  PROVE  TenancyInv'
<1>1. visitor'[h] = r /\ \A g \in Visitors : g # h => visitor'[g] = visitor[g]
  BY DEF TenancyInv, TenancyTypeOK
<1>2. TenancyTypeOK'
  BY DEF TenancyInv, TenancyTypeOK
<1>3. (\A g \in Visitors : Fits(visitor[g]))'
  BY <1>1 DEF TenancyInv, Fits
<1>4. \A u \in Tenants : u # t => tenant'[u] = tenant[u]
  BY DEF TenancyInv, TenancyTypeOK
<1>5. \A k \in Keys : k[1] \in Tenants
  BY DEF Keys
<1>6. CacheIsCurrent'
  <2>1. ASSUME NEW k \in Keys, k[1] = t
        PROVE  \E g \in Visitors : visitor'[g].step = "clear" /\ visitor'[g].target = k[1]
    BY <2>1, <1>1
  <2>2. ASSUME NEW k \in Keys, k[1] # t,
               cache'[k].full /\ ~cache'[k].late /\ cache'[k].doc # tenant'[k[1]]
        PROVE  \E g \in Visitors : visitor'[g].step = "clear" /\ visitor'[g].target = k[1]
    <3>1. PICK g \in Visitors : visitor[g].step = "clear" /\ visitor[g].target = k[1]
      BY <2>2, <1>4, <1>5 DEF TenancyInv, CacheIsCurrent
    <3> QED BY <3>1, <1>1
  <2> QED BY <2>1, <2>2 DEF CacheIsCurrent
<1> QED BY <1>2, <1>3, <1>6 DEF TenancyInv

LEMMA SaveFeaturesKeeps == ASSUME TenancyInv, NEW h \in Visitors, SaveFeatures(h) PROVE TenancyInv'
<1> DEFINE t == visitor[h].target
           r == [visitor[h] EXCEPT !.step = "clear"]
<1>1. /\ visitor[h].step = "merge" /\ cache' = cache /\ t \in Tenants
      /\ visitor[h] \in VisitorStates
  BY DEF SaveFeatures, TenancyInv, TenancyTypeOK, Fits
<1>2. CASE tenant[t].alive
  <2>1. PICK features \in BOOLEAN : tenant' = [tenant EXCEPT ![t].features = features]
    BY <1>2 DEF SaveFeatures
  <2>2. tenant[t] \in TenantDocs
    BY <1>1 DEF TenancyInv, TenancyTypeOK
  <2>3. PICK d \in TenantDocs : tenant' = [tenant EXCEPT ![t] = d]
    BY <2>1, <2>2, DocsTyped
  <2>4. r \in VisitorStates /\ r.step = "clear" /\ r.target = t
    BY <1>1 DEF VisitorStates, VisitorSteps
  <2>5. Fits(r)
    BY <1>1, <2>4 DEF Fits, Resolving
  <2>6. visitor' = [visitor EXCEPT ![h] = r]
    BY <1>2 DEF SaveFeatures
  <2>7. PICK u \in Tenants : u = t
    BY <1>1
  <2> HIDE DEF r, t
  <2> QED BY <1>1, <2>3, <2>4, <2>5, <2>6, <2>7, WriteKeeps
<1>3. CASE ~tenant[t].alive
  BY <1>1, <1>3, EndFits DEF SaveFeatures
<1> QED BY <1>2, <1>3

LEMMA PutFeaturesKeeps ==
  ASSUME TenancyInv, NEW h \in Visitors, NEW t \in Tenants, PutFeatures(h, t) PROVE TenancyInv'
<1>1. Works(h, t, "merge") /\ UNCHANGED <<tenant, cache>>
  BY DEF PutFeatures
<1> QED BY <1>1, WorksFits, VisitorKeeps

LEMMA SetActiveKeeps ==
  ASSUME TenancyInv, NEW h \in Visitors, NEW t \in Tenants, NEW active \in BOOLEAN,
         SetActive(h, t, active)
  PROVE  TenancyInv'
<1>1. /\ Works(h, t, "clear") /\ cache' = cache
      /\ tenant' = [tenant EXCEPT ![t].active = active]
  BY DEF SetActive
<1>2. tenant[t] \in TenantDocs
  BY DEF TenancyInv, TenancyTypeOK
<1>3. PICK d \in TenantDocs : tenant' = [tenant EXCEPT ![t] = d]
  BY <1>1, <1>2, DocsTyped
<1>4. PICK r \in VisitorStates :
        /\ Fits(r) /\ r.step = "clear" /\ r.target = t
        /\ visitor' = [visitor EXCEPT ![h] = r] /\ visitor[h].step = "running"
  BY <1>1, WorksFits
<1>5. cache' = cache
  BY <1>1
<1> QED BY <1>3, <1>4, <1>5, WriteKeeps

LEMMA DeleteTenantKeeps ==
  ASSUME TenancyInv, NEW h \in Visitors, NEW t \in Tenants, DeleteTenant(h, t) PROVE TenancyInv'
<1> DEFINE d == [NewTenant EXCEPT !.alive = FALSE]
<1>1. d \in TenantDocs
  BY DocsTyped
<1> HIDE DEF d
<1>2. CASE tenant' = [tenant EXCEPT ![t] = d] /\ Works(h, t, "clear")
  <2>1. PICK r \in VisitorStates :
          /\ Fits(r) /\ r.step = "clear" /\ r.target = t
          /\ visitor' = [visitor EXCEPT ![h] = r] /\ visitor[h].step = "running"
    BY <1>2, WorksFits
  <2>2. cache' = cache
    BY DEF DeleteTenant
  <2> QED BY <1>1, <1>2, <2>1, <2>2, WriteKeeps
<1>3. CASE UNCHANGED tenant /\ visitor[h].step = "running" /\ VisitorEnds(h)
  BY <1>3, EndFits DEF DeleteTenant
<1> QED BY <1>2, <1>3 DEF DeleteTenant, d

\* With the entries of its tenant goes the excuse for them.
LEMMA ClearCacheKeeps == ASSUME TenancyInv, NEW h \in Visitors, ClearCache(h) PROVE TenancyInv'
<1> DEFINE t == visitor[h].target
<1>1. /\ visitor[h].step = "clear" /\ tenant' = tenant /\ cache' = Cleared(t)
      /\ visitor' = [visitor EXCEPT ![h] = IdleVisitor]
  BY DEF ClearCache, VisitorEnds
<1> HIDE DEF t
<1>2. NoEntry \in CacheEntries /\ ~NoEntry.full
  BY DocsTyped, EntriesTyped
<1>3. visitor'[h] = IdleVisitor /\ \A g \in Visitors : g # h => visitor'[g] = visitor[g]
  BY <1>1 DEF TenancyInv, TenancyTypeOK
<1>4. TenancyTypeOK'
  BY <1>1, <1>2, IdleFits DEF TenancyInv, TenancyTypeOK, Cleared
<1>5. (\A g \in Visitors : Fits(visitor[g]))'
  BY <1>3, IdleFits DEF TenancyInv, Fits
<1>6. CacheIsCurrent'
  <2>1. ASSUME NEW k \in Keys, cache'[k].full /\ ~cache'[k].late /\ cache'[k].doc # tenant'[k[1]]
        PROVE  \E g \in Visitors : visitor'[g].step = "clear" /\ visitor'[g].target = k[1]
    <3>1. k[1] # t /\ cache'[k] = cache[k]
      BY <1>1, <1>2, <2>1 DEF Cleared
    <3>2. PICK g \in Visitors : visitor[g].step = "clear" /\ visitor[g].target = k[1]
      BY <1>1, <2>1, <3>1 DEF TenancyInv, CacheIsCurrent
    <3>3. g # h
      BY <3>1, <3>2 DEF t
    <3> QED BY <1>3, <3>2, <3>3
  <2> QED BY <2>1 DEF CacheIsCurrent
<1> QED BY <1>4, <1>5, <1>6 DEF TenancyInv

LEMMA WebhookFlagsKeeps ==
  ASSUME TenancyInv, NEW t \in Tenants, NEW features \in BOOLEAN, WebhookFlags(t, features)
  PROVE  TenancyInv'
<1>1. /\ tenant' = [tenant EXCEPT ![t].features = features] /\ visitor' = visitor
      /\ cache' = [k \in Keys |-> IF k[1] = t /\ cache[k].full THEN LateEntry ELSE cache[k]]
  BY DEF WebhookFlags
<1>2. tenant[t] \in TenantDocs
  BY DEF TenancyInv, TenancyTypeOK
<1>3. PICK d \in TenantDocs : tenant' = [tenant EXCEPT ![t] = d]
  BY <1>1, <1>2, DocsTyped
<1>4. LateEntry \in CacheEntries /\ LateEntry.late
  BY DocsTyped, EntriesTyped
<1>5. TenancyTypeOK'
  BY <1>1, <1>3, <1>4 DEF TenancyInv, TenancyTypeOK
<1>6. (\A g \in Visitors : Fits(visitor[g]))'
  BY <1>1 DEF TenancyInv, Fits
<1>7. CacheIsCurrent'
  <2>1. ASSUME NEW k \in Keys, cache'[k].full /\ ~cache'[k].late /\ cache'[k].doc # tenant'[k[1]]
        PROVE  \E g \in Visitors : visitor'[g].step = "clear" /\ visitor'[g].target = k[1]
    <3>1. k[1] # t /\ cache'[k] = cache[k]
      BY <1>1, <1>4, <2>1
    <3>2. tenant'[k[1]] = tenant[k[1]]
      BY <1>3, <3>1 DEF TenancyInv, TenancyTypeOK, Keys
    <3> QED BY <1>1, <2>1, <3>1, <3>2 DEF TenancyInv, CacheIsCurrent
  <2> QED BY <2>1 DEF CacheIsCurrent
<1> QED BY <1>5, <1>6, <1>7 DEF TenancyInv

LEMMA TenancyStepKeeps == TenancyInv /\ [TenancyNext]_tenancyVars => TenancyInv'
<1> SUFFICES ASSUME TenancyInv, [TenancyNext]_tenancyVars PROVE TenancyInv'
  OBVIOUS
<1>1. CASE UNCHANGED tenancyVars
  BY <1>1 DEF tenancyVars, TenancyInv, TenancyTypeOK, Fits, CacheIsCurrent
<1>2. ASSUME NEW k \in Keys, CacheExpires(k) PROVE TenancyInv'
  BY <1>2, CacheExpiresKeeps
<1>3. ASSUME NEW t \in Tenants, NEW features \in BOOLEAN, WebhookFlags(t, features)
      PROVE  TenancyInv'
  BY <1>3, WebhookFlagsKeeps
<1>4. ASSUME NEW h \in Visitors, NEW slug \in MaybeTenant, NEW token \in MaybeTenant,
             Arrives(h, slug, token)
      PROVE  TenancyInv'
  BY <1>4, ArrivesKeeps
<1>5. ASSUME NEW h \in Visitors, CacheHit(h) \/ ReadTenant(h) \/ FillCache(h) \/ Authenticate(h)
      PROVE  TenancyInv'
  BY <1>5, CacheHitKeeps, ReadTenantKeeps, FillCacheKeeps, AuthenticateKeeps
<1>6. ASSUME NEW h \in Visitors, Answer(h) PROVE TenancyInv'
  BY <1>6, EndFits DEF Answer
<1>7. ASSUME NEW h \in Visitors, NEW t \in Tenants, PutFeatures(h, t) \/ DeleteTenant(h, t)
      PROVE  TenancyInv'
  BY <1>7, PutFeaturesKeeps, DeleteTenantKeeps
<1>8. ASSUME NEW h \in Visitors, NEW t \in Tenants, NEW active \in BOOLEAN,
             SetActive(h, t, active)
      PROVE  TenancyInv'
  BY <1>8, SetActiveKeeps
<1>9. ASSUME NEW h \in Visitors, SaveFeatures(h) \/ ClearCache(h) PROVE TenancyInv'
  BY <1>9, SaveFeaturesKeeps, ClearCacheKeeps
<1>10. CASE \E k \in Keys : CacheExpires(k)
  BY <1>2, <1>10
<1>11. CASE \E t \in Tenants, features \in BOOLEAN : WebhookFlags(t, features)
  BY <1>3, <1>11
<1>12. ASSUME NEW h \in Visitors,
              \E t \in Tenants : \/ PutFeatures(h, t) \/ DeleteTenant(h, t)
                               \/ \E active \in BOOLEAN : SetActive(h, t, active)
       PROVE  TenancyInv'
  <2>1. PICK t \in Tenants : \/ PutFeatures(h, t) \/ DeleteTenant(h, t)
                            \/ \E active \in BOOLEAN : SetActive(h, t, active)
    BY <1>12
  <2> QED BY <1>7, <1>8, <2>1
<1> QED BY <1>1, <1>4, <1>5, <1>6, <1>9, <1>10, <1>11, <1>12 DEF TenancyNext

(***************************************************************************)
(* A request works on the tenant it names, and the cache holds what the    *)
(* database has but for the entries of a writer that is about to clear     *)
(* them and those a write has overtaken (middleware/resolveTenant.js,      *)
(* routes/tenants.js): for any number of requests and tenants.             *)
(***************************************************************************)
THEOREM RequestsKeepTheirTenant == TenancySpec => []TenantIsRight
<1>1. TenancyInv => TenantIsRight
  BY DEF TenancyInv, Fits, TenantIsRight, ContextIsTheRequests
<1> QED BY <1>1, TenancyStarts, TenancyStepKeeps, PTL DEF TenancySpec
=============================================================================
