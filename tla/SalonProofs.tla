----------------------------- MODULE SalonProofs ------------------------------
(***************************************************************************)
(* What a salon sells and how it is paid, for any number of requests:      *)
(* referral codes, the order of the shop, the payment at the terminal, the *)
(* account at Stripe Connect, and the window of the shop.                  *)
(***************************************************************************)
EXTENDS MCSalon, FiniteSetTheorems, SequenceTheorems, TLAPS

-----------------------------------------------------------------------------
(* Referral codes: first the types.                                        *)

LEMMA IdleReferrerTyped ==
  /\ IdleReferrer \in ReferrerStates
  /\ \A o \in Owners : [IdleReferrer EXCEPT !.step = "create", !.owner = o] \in ReferrerStates
  /\ \A c \in Codes, s \in Referred :
       [IdleReferrer EXCEPT !.step = "record", !.code = c, !.salon = s] \in ReferrerStates
  /\ \A c \in Codes : [IdleReferrer EXCEPT !.step = "stats", !.code = c] \in ReferrerStates
BY DEF IdleReferrer, ReferrerStates, ReferrerSteps

RecordFits(r) == r.step = "record" => r.code \in Codes /\ r.salon \in Referred

ReferralTyped == ReferralTypeOK /\ \A h \in Referrers : RecordFits(referrer[h])

LEMMA ReferralTypesKeep == ReferralTyped /\ [ReferralNext]_referralVars => ReferralTyped'
<1> SUFFICES ASSUME ReferralTyped, [ReferralNext]_referralVars PROVE ReferralTyped'
  OBVIOUS
<1>1. CASE UNCHANGED referralVars
  BY <1>1 DEF referralVars, ReferralTyped, ReferralTypeOK, RecordFits
<1>2. ASSUME NEW h \in Referrers, NEW r \in ReferrerStates, RecordFits(r), referrer' = [referrer EXCEPT ![h] = r],
             UNCHANGED <<owner, referrals, before, shown>>
      PROVE  ReferralTyped'
  <2>1. \A g \in Referrers : referrer'[g] \in {r, referrer[g]}
    BY <1>2 DEF ReferralTyped, ReferralTypeOK
  <2>2. (\A g \in Referrers : RecordFits(referrer[g]))'
    BY <1>2, <2>1 DEF ReferralTyped, RecordFits
  <2> QED BY <1>2, <2>2 DEF ReferralTyped, ReferralTypeOK
<1>3. ASSUME NEW h \in Referrers PROVE referrer[h] \in ReferrerStates /\ RecordFits(referrer[h])
  BY DEF ReferralTyped, ReferralTypeOK
<1>4. /\ IdleReferrer \in ReferrerStates /\ RecordFits(IdleReferrer)
      /\ \A o \in Owners : RecordFits([IdleReferrer EXCEPT !.step = "create", !.owner = o])
      /\ \A c \in Codes, s \in Referred :
           RecordFits([IdleReferrer EXCEPT !.step = "record", !.code = c, !.salon = s])
      /\ \A c \in Codes : RecordFits([IdleReferrer EXCEPT !.step = "stats", !.code = c])
  BY IdleReferrerTyped DEF IdleReferrer, RecordFits
<1>12. ASSUME NEW h \in Referrers, ReferrerEnds(h)
       PROVE  referrer' \in [Referrers -> ReferrerStates] /\ (\A g \in Referrers : RecordFits(referrer[g]))'
  <2>1. referrer' \in [Referrers -> ReferrerStates] /\ \A g \in Referrers : referrer'[g] \in {IdleReferrer, referrer[g]}
    BY <1>4, <1>12 DEF ReferrerEnds, ReferralTyped, ReferralTypeOK
  <2> QED BY <1>4, <2>1 DEF ReferralTyped, RecordFits
<1>5. ASSUME NEW h \in Referrers, NEW o \in Owners, NEW looked \in BOOLEAN, AskForCode(h, o, looked)
      PROVE  ReferralTyped'
  BY <1>2, <1>4, <1>5, IdleReferrerTyped DEF AskForCode
<1>6. ASSUME NEW h \in Referrers, NEW o \in Owners, NEW c \in Codes, FindByOwner(h, o, c)
      PROVE  ReferralTyped'
  BY <1>2, <1>4, <1>6, IdleReferrerTyped DEF FindByOwner
<1>7. ASSUME NEW h \in Referrers, CreateForOwner(h) \/ ReferrerFails(h)
      PROVE  ReferralTyped'
  <2>1. CASE ReferrerEnds(h) /\ UNCHANGED <<owner, referrals, before, shown>>
    BY <1>2, <1>4, <2>1 DEF ReferrerEnds
  <2>2. CASE ~HasCode(referrer[h].owner) /\ CreateForOwner(h)
    <3> DEFINE r == [referrer[h] EXCEPT !.step = "generate", !.before = Issued]
    <3>1. Issued \in SUBSET Codes
      BY DEF Issued
    <3>2. r \in ReferrerStates /\ RecordFits(r)
      BY <1>3, <3>1 DEF ReferrerStates, ReferrerSteps, RecordFits
    <3>3. referrer' = [referrer EXCEPT ![h] = r] /\ UNCHANGED <<owner, referrals, before, shown>>
      BY <2>2 DEF CreateForOwner
    <3> HIDE DEF r
    <3> QED BY <1>2, <3>2, <3>3
  <2> QED BY <1>7, <2>1, <2>2 DEF CreateForOwner, ReferrerFails
<1>8. ASSUME NEW h \in Referrers, NEW c \in Codes, GenerateUniqueCode(h, c)
      PROVE  ReferralTyped'
  <2> DEFINE r == [referrer[h] EXCEPT !.step = "save", !.code = c]
  <2>1. r \in ReferrerStates /\ RecordFits(r)
    BY <1>3 DEF ReferrerStates, ReferrerSteps, RecordFits
  <2>2. referrer' = [referrer EXCEPT ![h] = r] /\ UNCHANGED <<owner, referrals, before, shown>>
    BY <1>8 DEF GenerateUniqueCode
  <2> HIDE DEF r
  <2> QED BY <1>2, <2>1, <2>2
<1>9. ASSUME NEW h \in Referrers, NEW c \in Codes, NEW s \in Referred, FindByCode(h, c, s)
      PROVE  ReferralTyped'
  BY <1>2, <1>4, <1>9, IdleReferrerTyped DEF FindByCode
<1>10. ASSUME NEW h \in Referrers, SaveReferralCode(h) PROVE ReferralTyped'
  <2>1. /\ referrer[h].owner \in Owners \cup {NoOwner} /\ referrer[h].before \in SUBSET Codes
        /\ referrer[h].code \in Codes \cup {NoCode}
    BY <1>3 DEF ReferrerStates
  <2>2. owner' \in [Codes -> Owners \cup {NoOwner}] /\ before' \in [Codes -> SUBSET Codes]
    BY <1>10, <2>1 DEF SaveReferralCode, ReferralTyped, ReferralTypeOK
  <2>3. referrer' \in [Referrers -> ReferrerStates] /\ (\A g \in Referrers : RecordFits(referrer[g]))'
    BY <1>12, <1>10 DEF SaveReferralCode
  <2> QED BY <1>10, <2>2, <2>3 DEF SaveReferralCode, ReferralTyped, ReferralTypeOK
<1>11. ASSUME NEW h \in Referrers, GetStats(h) PROVE ReferralTyped'
  <2>1. referrer[h].code \in Codes \cup {NoCode}
    BY <1>3 DEF ReferrerStates
  <2>2. referrer' \in [Referrers -> ReferrerStates] /\ (\A g \in Referrers : RecordFits(referrer[g]))'
    BY <1>12, <1>11 DEF GetStats
  <2>3. shown' \in [code : Codes \cup {NoCode}, salons : SUBSET Referred,
                    all : SUBSET (Codes \X Referred)]
    BY <1>11, <2>1 DEF GetStats, ReferralTyped, ReferralTypeOK
  <2> QED BY <1>11, <2>2, <2>3 DEF GetStats, ReferralTyped, ReferralTypeOK
<1>13. ASSUME NEW h \in Referrers, CreateReferral(h) PROVE ReferralTyped'
  <2>1. referrer[h].code \in Codes /\ referrer[h].salon \in Referred
    BY <1>3, <1>13 DEF CreateReferral, RecordFits
  <2>2. referrals' \in SUBSET (Codes \X Referred)
    BY <1>13, <2>1 DEF CreateReferral, ReferralTyped, ReferralTypeOK
  <2> QED BY <1>12, <1>13, <2>2 DEF CreateReferral, ReferralTyped, ReferralTypeOK
<1> QED BY <1>1, <1>5, <1>6, <1>7, <1>8, <1>9, <1>10, <1>11, <1>13 DEF ReferralNext

LEMMA ReferralTypesStart == ReferralInit => ReferralTyped
<1>1. /\ IdleReferrer \in ReferrerStates /\ RecordFits(IdleReferrer)
      /\ NothingShown \in [code : Codes \cup {NoCode}, salons : SUBSET Referred,
                           all : SUBSET (Codes \X Referred)]
  BY IdleReferrerTyped DEF IdleReferrer, RecordFits, NothingShown
<1> QED BY <1>1 DEF ReferralInit, ReferralTyped, ReferralTypeOK

-----------------------------------------------------------------------------
(* The codes that were there when those of an owner were looked for belong *)
(* to others, and a code keeps its owner: so two codes of an owner have    *)
(* missed each other.                                                      *)

Missing(r) ==
  /\ r.step \in {"generate", "save"} => \A c \in r.before : owner[c] \notin {NoOwner, r.owner}
  /\ r.step = "stats" => r.code \in Issued

ReferralInv ==
  /\ ReferralTyped
  /\ \A h \in Referrers : Missing(referrer[h])
  /\ \A d \in Codes : \A c \in before[d] : owner[c] \notin {NoOwner, owner[d]}
  /\ \A r \in shown.all :
       /\ shown.code \in Codes
       /\ owner[r[1]] = owner[shown.code] /\ owner[shown.code] # NoOwner
       /\ r[1] = shown.code => r[2] \in shown.salons

\* No code changes its owner, and a request either ends, or goes on as it suits.
LEMMA ReferrerKeeps ==
  ASSUME ReferralInv, NEW h \in Referrers, NEW r \in ReferrerStates, Missing(r),
         referrer' = [referrer EXCEPT ![h] = r], UNCHANGED <<owner, before, shown>>,
         ReferralTyped'
  PROVE  ReferralInv'
<1>1. \A g \in Referrers : referrer'[g] \in {r, referrer[g]}
  BY DEF ReferralInv, ReferralTyped, ReferralTypeOK
<1>2. (\A g \in Referrers : Missing(referrer[g]))'
  BY <1>1 DEF ReferralInv, Missing, Issued
<1> QED BY <1>2 DEF ReferralInv

LEMMA ReferralStepKeeps == ReferralInv /\ [ReferralNext]_referralVars => ReferralInv'
<1> SUFFICES ASSUME ReferralInv, [ReferralNext]_referralVars PROVE ReferralInv'
  OBVIOUS
<1>0. ReferralTyped' /\ ReferralTyped /\ IdleReferrer \in ReferrerStates /\ Missing(IdleReferrer)
  BY ReferralTypesKeep, IdleReferrerTyped DEF ReferralInv, IdleReferrer, Missing
<1>1. CASE UNCHANGED referralVars
  BY <1>0, <1>1 DEF referralVars, ReferralInv, Missing, Issued
<1>2. ASSUME NEW h \in Referrers, NEW o \in Owners, NEW looked \in BOOLEAN, AskForCode(h, o, looked)
      PROVE  ReferralInv'
  <2> DEFINE r == [IdleReferrer EXCEPT !.step = "create", !.owner = o]
  <2>1. r \in ReferrerStates /\ Missing(r)
    BY IdleReferrerTyped DEF IdleReferrer, Missing
  <2> QED BY <1>0, <1>2, <2>1, ReferrerKeeps DEF AskForCode
<1>3. ASSUME NEW h \in Referrers, NEW o \in Owners, NEW c \in Codes, FindByOwner(h, o, c)
      PROVE  ReferralInv'
  <2> DEFINE r == [IdleReferrer EXCEPT !.step = "stats", !.code = c]
  <2>1. r \in ReferrerStates /\ Missing(r)
    BY <1>3, IdleReferrerTyped, ReferralAssumption
       DEF IdleReferrer, Missing, FindByOwner, OwnedBy, Issued
  <2> QED BY <1>0, <1>3, <2>1, ReferrerKeeps DEF FindByOwner
<1>4. ASSUME NEW h \in Referrers, CreateForOwner(h) PROVE ReferralInv'
  <2> DEFINE r == [referrer[h] EXCEPT !.step = "generate", !.before = Issued]
  <2>1. CASE HasCode(referrer[h].owner)
    BY <1>0, <1>4, <2>1, ReferrerKeeps DEF CreateForOwner, ReferrerEnds
  <2>2. CASE ~HasCode(referrer[h].owner)
    <3>1. referrer[h] \in ReferrerStates
      BY <1>0 DEF ReferralTyped, ReferralTypeOK
    <3>2. r \in ReferrerStates /\ r.before = Issued /\ r.step = "generate"
          /\ r.owner = referrer[h].owner
      BY <3>1 DEF ReferrerStates, ReferrerSteps, Issued
    <3>3. Missing(r)
      BY <2>2, <3>2 DEF Missing, HasCode, OwnedBy, Issued
    <3>4. referrer' = [referrer EXCEPT ![h] = r] /\ UNCHANGED <<owner, before, shown>>
      BY <1>4, <2>2 DEF CreateForOwner
    <3> HIDE DEF r
    <3> QED BY <1>0, <3>2, <3>3, <3>4, ReferrerKeeps
  <2> QED BY <2>1, <2>2
<1>5. ASSUME NEW h \in Referrers, NEW c \in Codes, GenerateUniqueCode(h, c) PROVE ReferralInv'
  <2> DEFINE r == [referrer[h] EXCEPT !.step = "save", !.code = c]
  <2>1. referrer[h] \in ReferrerStates /\ Missing(referrer[h])
    BY <1>0 DEF ReferralInv, ReferralTyped, ReferralTypeOK
  <2>2. r \in ReferrerStates /\ Missing(r)
    BY <1>5, <2>1 DEF ReferrerStates, ReferrerSteps, Missing, GenerateUniqueCode
  <2>3. referrer' = [referrer EXCEPT ![h] = r] /\ UNCHANGED <<owner, before, shown>>
    BY <1>5 DEF GenerateUniqueCode
  <2> HIDE DEF r
  <2> QED BY <1>0, <2>2, <2>3, ReferrerKeeps
<1>6. ASSUME NEW h \in Referrers, SaveReferralCode(h) PROVE ReferralInv'
  <2> DEFINE d == referrer[h].code
  <2>1. CASE UNCHANGED <<owner, before>>
    BY <1>0, <1>6, <2>1, ReferrerKeeps DEF SaveReferralCode, ReferrerEnds
  <2>2. CASE /\ d \notin Issued
             /\ owner' = [owner EXCEPT ![d] = referrer[h].owner]
             /\ before' = [before EXCEPT ![d] = referrer[h].before]
    <3>1. /\ referrer' = [referrer EXCEPT ![h] = IdleReferrer] /\ UNCHANGED shown
          /\ \A c \in referrer[h].before : owner[c] \notin {NoOwner, referrer[h].owner}
          /\ referrer[h].before \subseteq Codes
      BY <1>0, <1>6 DEF SaveReferralCode, ReferrerEnds, ReferralInv, Missing, ReferralTyped,
         ReferralTypeOK, ReferrerStates
    <3>2. \A c \in Codes : owner[c] # NoOwner => owner'[c] = owner[c] /\ c # d
      BY <1>0, <2>2 DEF Issued, ReferralTyped, ReferralTypeOK
    <3>3. \A c \in Codes : c # d => owner'[c] = owner[c] /\ before'[c] = before[c]
      BY <1>0, <2>2 DEF ReferralTyped, ReferralTypeOK
    <3>4. d \in Codes => owner'[d] = referrer[h].owner /\ before'[d] = referrer[h].before
      BY <1>0, <2>2 DEF ReferralTyped, ReferralTypeOK
    <3>5. \A g \in Referrers : /\ referrer'[g] \in {IdleReferrer, referrer[g]}
                               /\ referrer[g].before \subseteq Codes
      BY <1>0, <3>1 DEF ReferralTyped, ReferralTypeOK, ReferrerStates
    <3>6. (\A g \in Referrers : Missing(referrer[g]))'
      <4>1. ASSUME NEW g \in Referrers, referrer[g].step \in {"generate", "save"},
                   NEW c \in referrer[g].before
            PROVE  owner'[c] \notin {NoOwner, referrer[g].owner}
        <5>1. owner[c] \notin {NoOwner, referrer[g].owner} /\ c \in Codes
          BY <3>5, <4>1 DEF ReferralInv, Missing
        <5> QED BY <3>2, <5>1
      <4>2. \A c \in Issued : c \in Issued'
        BY <3>2 DEF Issued
      <4>3. \A g \in Referrers : referrer[g].step = "stats" => referrer[g].code \in Issued'
        BY <4>2 DEF ReferralInv, Missing
      <4>4. IdleReferrer.step = "idle"
        BY DEF IdleReferrer
      <4> QED BY <3>5, <4>1, <4>3, <4>4 DEF Missing
    <3>7. \A c \in Codes : before[c] \subseteq Codes
      BY <1>0 DEF ReferralTyped, ReferralTypeOK
    <3>8. \A e \in Codes : \A c \in before'[e] : owner'[c] \notin {NoOwner, owner'[e]}
      <4> SUFFICES ASSUME NEW e \in Codes, NEW c \in before'[e]
                   PROVE  owner'[c] \notin {NoOwner, owner'[e]}
        OBVIOUS
      <4>1. CASE e = d
        BY <3>1, <3>2, <3>4, <4>1
      <4>2. CASE e # d
        <5>1. c \in before[e] /\ owner'[e] = owner[e]
          BY <3>3, <4>2
        <5> QED BY <3>2, <3>7, <5>1 DEF ReferralInv
      <4> QED BY <4>1, <4>2
    <3>9. ASSUME NEW r \in shown.all
          PROVE  /\ shown.code \in Codes
                 /\ owner'[r[1]] = owner'[shown.code] /\ owner'[shown.code] # NoOwner
                 /\ r[1] = shown.code => r[2] \in shown.salons
      <4>1. r[1] \in Codes /\ shown.code \in Codes
        BY <1>0 DEF ReferralInv, ReferralTyped, ReferralTypeOK
      <4>2. owner[r[1]] = owner[shown.code] /\ owner[shown.code] # NoOwner
            /\ (r[1] = shown.code => r[2] \in shown.salons)
        BY DEF ReferralInv
      <4> QED BY <3>2, <4>1, <4>2
    <3> QED BY <1>0, <3>1, <3>6, <3>8, <3>9 DEF ReferralInv
  <2> QED BY <1>6, <2>1, <2>2 DEF SaveReferralCode
<1>7. ASSUME NEW h \in Referrers, NEW c \in Codes, NEW s \in Referred, FindByCode(h, c, s)
      PROVE  ReferralInv'
  <2> DEFINE r == [IdleReferrer EXCEPT !.step = "record", !.code = c, !.salon = s]
  <2>1. r \in ReferrerStates /\ Missing(r)
    BY IdleReferrerTyped DEF IdleReferrer, Missing
  <2> QED BY <1>0, <1>7, <2>1, ReferrerKeeps DEF FindByCode
<1>8. ASSUME NEW h \in Referrers, CreateReferral(h) \/ ReferrerFails(h) PROVE ReferralInv'
  BY <1>0, <1>8, ReferrerKeeps DEF CreateReferral, ReferrerFails, ReferrerEnds
<1>9. ASSUME NEW h \in Referrers, GetStats(h) PROVE ReferralInv'
  <2> DEFINE c == referrer[h].code
  <2>1. c \in Codes /\ owner[c] # NoOwner
    BY <1>9 DEF GetStats, ReferralInv, Missing, Issued
  <2>2. \A r \in referrals : r = <<r[1], r[2]>> /\ r[2] \in Referred
    BY <1>0 DEF ReferralTyped, ReferralTypeOK
  <2>3. /\ shown'.code = c /\ shown'.salons = {s \in Referred : <<c, s>> \in referrals}
        /\ shown'.all = {r \in referrals : owner[r[1]] = owner[c]}
        /\ referrer' = [referrer EXCEPT ![h] = IdleReferrer] /\ UNCHANGED <<owner, before>>
    BY <1>9 DEF GetStats, ReferrerEnds
  <2>4. \A g \in Referrers : referrer'[g] \in {IdleReferrer, referrer[g]}
    BY <1>0, <2>3 DEF ReferralTyped, ReferralTypeOK
  <2>5. (\A g \in Referrers : Missing(referrer[g]))'
    BY <1>0, <2>3, <2>4 DEF ReferralInv, Missing, Issued
  <2>6. ASSUME NEW r \in shown'.all
        PROVE  /\ shown'.code \in Codes
               /\ owner'[r[1]] = owner'[shown'.code] /\ owner'[shown'.code] # NoOwner
               /\ r[1] = shown'.code => r[2] \in shown'.salons
    BY <2>1, <2>2, <2>3
  <2> QED BY <1>0, <2>3, <2>5, <2>6 DEF ReferralInv
<1> QED BY <1>1, <1>2, <1>3, <1>4, <1>5, <1>6, <1>7, <1>8, <1>9 DEF ReferralNext

(***************************************************************************)
(* A dashboard shows all the salons that its owner has referred, but those *)
(* by a second code; and an owner has two codes only if both were asked    *)
(* for at once, neither being there when the owner's were looked for to    *)
(* make the other (models/ReferralCode.js createForOwner,                  *)
(* controllers/referralController.js).                                     *)
(***************************************************************************)
THEOREM DashboardIsWhole == ReferralSpec => []ReferralsAreShown
<1>1. ReferralInit => ReferralInv
  <2> SUFFICES ASSUME ReferralInit PROVE ReferralInv
    OBVIOUS
  <2>1. ReferralTyped
    BY ReferralTypesStart
  <2> QED BY <2>1 DEF ReferralInit, ReferralInv, Missing, IdleReferrer, NothingShown
<1>2. ReferralInv => ReferralsAreShown
  <2> SUFFICES ASSUME ReferralInv, NEW r \in shown.all, r[1] # shown.code
               PROVE  r[1] \notin before[shown.code] /\ shown.code \notin before[r[1]]
    BY DEF ReferralInv, ReferralsAreShown
  <2>1. r[1] \in Codes /\ shown.code \in Codes
    BY DEF ReferralInv, ReferralTyped, ReferralTypeOK
  <2> QED BY <2>1 DEF ReferralInv
<1> QED BY <1>1, <1>2, ReferralStepKeeps, PTL DEF ReferralSpec

-----------------------------------------------------------------------------
(* The order of the shop.  Stripe refunds a payment once, so only one      *)
(* request comes to take the specialist's share back, and none has before. *)

KeeperRecord(r) ==
  r = [step |-> r.step, changed |-> r.changed, intent |-> r.intent, owed |-> r.owed,
       stock |-> r.stock]

ShopInv ==
  /\ keeper = [h \in Keepers |-> keeper[h]]
  /\ \A h \in Keepers : KeeperRecord(keeper[h])
  /\ deducted \in {0, 1}
  /\ deducted = 1 => orderPayment = "refunded"
  /\ \A h \in Keepers :
       keeper[h].step = "refunded" => orderPayment = "refunded" /\ deducted = 0
  /\ \A h, k \in Keepers : keeper[h].step = "refunded" /\ keeper[k].step = "refunded" => h = k

\* A request goes anywhere but behind the refund.
LEMMA KeeperGoesOn ==
  ASSUME ShopInv, NEW h \in Keepers, NEW r, KeeperRecord(r), r.step # "refunded",
         keeper' = [keeper EXCEPT ![h] = r], UNCHANGED <<orderPayment, deducted>>
  PROVE  ShopInv'
<1>1. \A g \in Keepers : keeper'[g] = IF g = h THEN r ELSE keeper[g]
  BY DEF ShopInv
<1>2. keeper' = [g \in Keepers |-> keeper'[g]]
  BY DEF ShopInv
<1>3. (\A g \in Keepers : KeeperRecord(keeper[g]))'
  BY <1>1 DEF ShopInv, KeeperRecord
<1> QED BY <1>1, <1>2, <1>3 DEF ShopInv

LEMMA IdleKeeperFits == KeeperRecord(IdleKeeper) /\ IdleKeeper.step = "idle"
BY DEF IdleKeeper, KeeperRecord

LEMMA StepChanges ==
  ASSUME NEW r, NEW step, KeeperRecord(r)
  PROVE  LET n == [r EXCEPT !.step = step] IN KeeperRecord(n) /\ n.step = step /\ n.owed = r.owed
<1> DEFINE k == [step |-> r.step, changed |-> r.changed, intent |-> r.intent, owed |-> r.owed,
                 stock |-> r.stock]
<1>0. [r EXCEPT !.step = step] = [k EXCEPT !.step = step]
  BY DEF KeeperRecord
<1>1. [r EXCEPT !.step = step] = [step |-> step, changed |-> r.changed, intent |-> r.intent,
                                  owed |-> r.owed, stock |-> r.stock]
  BY <1>0
<1> QED BY <1>1 DEF KeeperRecord

LEMMA StockChanges ==
  ASSUME NEW r, NEW n, KeeperRecord(r)
  PROVE  LET m == [r EXCEPT !.stock = n] IN KeeperRecord(m) /\ m.step = r.step
<1> DEFINE k == [step |-> r.step, changed |-> r.changed, intent |-> r.intent, owed |-> r.owed,
                 stock |-> r.stock]
<1>0. [r EXCEPT !.stock = n] = [k EXCEPT !.stock = n]
  BY DEF KeeperRecord
<1>1. [r EXCEPT !.stock = n] = [step |-> r.step, changed |-> r.changed, intent |-> r.intent,
                                owed |-> r.owed, stock |-> n]
  BY <1>0
<1> QED BY <1>1 DEF KeeperRecord

LEMMA ReadOrderKeeps ==
  ASSUME ShopInv, NEW h \in Keepers, NEW d, NEW step, step # "refunded", ReadOrder(h, d, step)
  PROVE  ShopInv'
<1> DEFINE r == [step |-> step, changed |-> {f \in DOMAIN order : d[f] # order[f]},
                 intent |-> order.intent, owed |-> order.owed, stock |-> 0]
<1>1. KeeperRecord(r) /\ r.step = step
  BY DEF KeeperRecord
<1>2. keeper' = [keeper EXCEPT ![h] = r] /\ UNCHANGED <<orderPayment, deducted>>
  BY DEF ReadOrder
<1> HIDE DEF r
<1> QED BY <1>1, <1>2, KeeperGoesOn

LEMMA KeeperEndKeeps ==
  ASSUME ShopInv, NEW h \in Keepers, KeeperEnds(h), UNCHANGED <<orderPayment, deducted>>
  PROVE  ShopInv'
BY IdleKeeperFits, KeeperGoesOn DEF KeeperEnds

LEMMA SaveOrderKeeps ==
  ASSUME ShopInv, NEW h \in Keepers, NEW d, NEW step, step # "refunded", SaveOrder(h, d, step),
         UNCHANGED <<orderPayment, deducted>>
  PROVE  ShopInv'
<1> DEFINE r == [IdleKeeper EXCEPT !.step = step]
<1>1. KeeperRecord(r) /\ r.step = step
  BY IdleKeeperFits, StepChanges
<1> HIDE DEF r
<1>2. keeper' = [keeper EXCEPT ![h] = r] \/ KeeperEnds(h)
  BY DEF SaveOrder, r
<1> QED BY <1>1, <1>2, KeeperGoesOn, KeeperEndKeeps

LEMMA ReadStockKeeps == ASSUME ShopInv, NEW h \in Keepers, ReadStock(h) PROVE ShopInv'
<1>1. PICK step \in {"taken", "put back", "put back and delete"} :
        keeper' = [keeper EXCEPT ![h] = [keeper[h] EXCEPT !.step = step, !.stock = stock]]
  BY DEF ReadStock
<1> DEFINE m == [keeper[h] EXCEPT !.step = step]
           r == [m EXCEPT !.stock = stock]
<1>2. KeeperRecord(r) /\ r.step = step
  <2>1. KeeperRecord(keeper[h])
    BY DEF ShopInv
  <2>2. KeeperRecord(m) /\ m.step = step
    BY <2>1, StepChanges
  <2> HIDE DEF m
  <2> QED BY <2>2, StockChanges
<1>3. keeper' = [keeper EXCEPT ![h] = r] /\ UNCHANGED <<orderPayment, deducted>>
  BY <1>1 DEF ReadStock
<1> HIDE DEF r
<1> QED BY <1>2, <1>3, KeeperGoesOn

\* Stripe refunds only once: nobody stands behind the refund yet, and nothing
\* has been taken back.
LEMMA RefundAtStripeKeeps == ASSUME ShopInv, NEW h \in Keepers, RefundAtStripe(h) PROVE ShopInv'
<1>1. CASE orderPayment = "paid" /\ keeper[h].intent
  <2> DEFINE r == [keeper[h] EXCEPT !.step = "refunded"]
  <2>1. /\ keeper' = [keeper EXCEPT ![h] = r] /\ orderPayment' = "refunded"
        /\ deducted' = deducted
    BY <1>1 DEF RefundAtStripe, KeeperGoes
  <2>2. KeeperRecord(r) /\ r.step = "refunded"
    <3>1. KeeperRecord(keeper[h])
      BY DEF ShopInv
    <3> QED BY <3>1, StepChanges
  <2>3. deducted = 0 /\ \A g \in Keepers : keeper[g].step # "refunded"
    BY <1>1 DEF ShopInv
  <2> HIDE DEF r
  <2>4. \A g \in Keepers : keeper'[g] = IF g = h THEN r ELSE keeper[g]
    BY <2>1 DEF ShopInv
  <2>5. keeper' = [g \in Keepers |-> keeper'[g]]
    BY <2>1 DEF ShopInv
  <2>6. (\A g \in Keepers : KeeperRecord(keeper[g]))'
    BY <2>2, <2>4 DEF ShopInv, KeeperRecord
  <2> QED BY <2>1, <2>2, <2>3, <2>4, <2>5, <2>6 DEF ShopInv
<1>2. CASE ~(orderPayment = "paid" /\ keeper[h].intent)
  BY <1>2, KeeperEndKeeps DEF RefundAtStripe
<1> QED BY <1>1, <1>2

LEMMA DeductShareKeeps == ASSUME ShopInv, NEW h \in Keepers, DeductShare(h) PROVE ShopInv'
<1> DEFINE r == [keeper[h] EXCEPT !.step = "save refund"]
<1>1. /\ keeper' = [keeper EXCEPT ![h] = r] /\ orderPayment' = orderPayment
      /\ keeper[h].step = "refunded"
  BY DEF DeductShare, KeeperGoes
<1>2. KeeperRecord(r) /\ r.step = "save refund"
  <2>1. KeeperRecord(keeper[h])
    BY DEF ShopInv
  <2> QED BY <2>1, StepChanges
<1>3. deducted = 0 /\ orderPayment = "refunded"
  BY <1>1 DEF ShopInv
<1>4. deducted' \in {0, 1}
  <2>1. deducted' = deducted + 1 \/ deducted' = deducted
    BY Zenon DEF DeductShare
  <2> QED BY <1>3, <2>1
<1>5. \A g \in Keepers : g # h => keeper[g].step # "refunded"
  BY <1>1 DEF ShopInv
<1> HIDE DEF r
<1>6. \A g \in Keepers : keeper'[g] = IF g = h THEN r ELSE keeper[g]
  BY <1>1 DEF ShopInv
<1>7. keeper' = [g \in Keepers |-> keeper'[g]]
  BY <1>1 DEF ShopInv
<1>8. (\A g \in Keepers : KeeperRecord(keeper[g]))'
  BY <1>2, <1>6 DEF ShopInv, KeeperRecord
<1> QED BY <1>1, <1>2, <1>3, <1>4, <1>5, <1>6, <1>7, <1>8 DEF ShopInv

\* No request moves; money moves towards the refund only.
LEMMA KeepersStay ==
  ASSUME ShopInv, keeper' = keeper, deducted' = deducted,
         orderPayment = "refunded" => orderPayment' = "refunded"
  PROVE  ShopInv'
<1>1. (\A g \in Keepers : KeeperRecord(keeper[g]))'
  BY DEF ShopInv, KeeperRecord
<1> QED BY <1>1 DEF ShopInv

LEMMA ShopStepKeeps == ShopInv /\ [ShopNext]_shopVars => ShopInv'
<1> SUFFICES ASSUME ShopInv, [ShopNext]_shopVars PROVE ShopInv'
  OBVIOUS
<1>1. CASE UNCHANGED shopVars
  BY <1>1, KeepersStay DEF shopVars
<1>2. CASE BuyerPays \/ PaidEvent \/ FailedEvent \/ RefundedEvent \/ PatchOrder \/ DeleteOnly
  BY <1>2, KeepersStay DEF BuyerPays, PaidEvent, FailedEvent, RefundedEvent, PatchOrder, DeleteOnly
<1>3. ASSUME NEW h \in Keepers,
             \/ ReadOrderToConfirm(h) \/ ReadOrderToCancel(h) \/ ReadOrderToRefund(h)
             \/ ReadToDelete(h)
      PROVE  ShopInv'
  BY <1>3, ReadOrderKeeps DEF ReadOrderToConfirm, ReadOrderToCancel, ReadOrderToRefund, ReadToDelete
<1>4. ASSUME NEW h \in Keepers, ConfirmOrder(h) PROVE ShopInv'
  BY <1>4, SaveOrderKeeps, KeeperEndKeeps DEF ConfirmOrder
<1>5. ASSUME NEW h \in Keepers, CancelOrder(h) \/ SaveRefund(h) PROVE ShopInv'
  BY <1>5, SaveOrderKeeps DEF CancelOrder, SaveRefund
<1>6. ASSUME NEW h \in Keepers,
             TakeStock(h) \/ PutBack(h) \/ RestoreAndDelete(h) \/ ClerkStops(h)
      PROVE  ShopInv'
  BY <1>6, KeeperEndKeeps DEF TakeStock, PutBack, RestoreAndDelete, ClerkStops
<1>7. ASSUME NEW h \in Keepers, ReadStock(h) \/ RefundAtStripe(h) \/ DeductShare(h)
      PROVE  ShopInv'
  BY <1>7, ReadStockKeeps, RefundAtStripeKeeps, DeductShareKeeps
<1> QED BY <1>1, <1>2, <1>3, <1>4, <1>5, <1>6, <1>7 DEF ShopNext

LEMMA ShopStarts == ShopInit => ShopInv
<1> SUFFICES ASSUME ShopInit PROVE ShopInv
  OBVIOUS
<1>1. keeper = [h \in Keepers |-> IdleKeeper] /\ deducted = 0
  BY DEF ShopInit
<1> QED BY <1>1, IdleKeeperFits DEF ShopInv

(***************************************************************************)
(* However often an order is refunded, patched and confirmed again, its    *)
(* specialist pays once, and only for money that went back (routes/        *)
(* orders.js POST /:id/refund).  It rests on Stripe, which refunds a       *)
(* payment once, and on the share being taken behind that call.            *)
(***************************************************************************)
THEOREM SharesGoBackOnce == ShopSpec => []SellerPaysOnce
<1>1. ShopInv => SellerPaysOnce
  BY DEF ShopInv, SellerPaysOnce
<1> QED BY <1>1, ShopStarts, ShopStepKeeps, PTL DEF ShopSpec
-----------------------------------------------------------------------------
(* The payment at the terminal.  A request that has seen the money, or is  *)
(* refunding it, stands on an intent that has succeeded (Paid), which no   *)
(* intent ever leaves; and no copy of the document has more refunds in it  *)
(* than the document.                                                      *)

Paid(r) == (r.step = "confirm" /\ r.seen = "succeeded") \/ r.step \in {"refund", "record"}

\* How a request stands to the document, p, and the intent, i.
CashierFits(r, p, i) ==
  /\ r.step \in {"refund", "record"} => r.amount # 0 /\ CanRefund(r.copy)
  /\ r.step = "record" => r.id # 0
  /\ Paid(r) => i = "succeeded"
  /\ r.copy.back <= p.back
  /\ r.copy.status = "partially_refunded" => r.copy.back > 0
  /\ r.step = "create" => p.status = "none" /\ i # "none"
  /\ r.step \notin {"idle", "create"} => p.status # "none"

TerminalInv ==
  /\ TerminalTypeOK
  /\ \A h \in Cashiers : CashierFits(cashier[h], payment, intent)
  /\ \A g, h \in Cashiers : cashier[g].step = "create" /\ cashier[h].step = "create" => g = h
  /\ payment.status = "none" => payment.back = 0
  /\ RefundsAreRecorded
  /\ PaidIsCaptured
  /\ StatusIsExplained

LEMMA IdleCashierFits ==
  /\ IdleCashier \in CashierStates /\ IdleCashier.step = "idle"
  /\ \A p \in PaymentDocs : \A i : CashierFits(IdleCashier, p, i)
<1>1. 0 \in 0..Total /\ 0 \in 0..MaxRefunds
  BY TerminalAssumption
<1>2. IdleCashier \in CashierStates
  BY <1>1 DEF IdleCashier, CashierStates, CashierSteps, NoPayment, PaymentDocs, PaymentStatuses,
     IntentStates
<1> QED BY <1>2 DEF IdleCashier, NoPayment, CashierFits, Paid, PaymentDocs

LEMMA TerminalShape ==
  ASSUME TerminalInv
  PROVE  /\ payment \in PaymentDocs /\ payment.back \in Nat /\ payment.status \in PaymentStatuses
         /\ intent \in IntentStates /\ cashier \in [Cashiers -> CashierStates]
         /\ unrecorded \in BOOLEAN /\ overwritten \in BOOLEAN
         /\ Total \in Nat /\ Total > 0
         /\ \A h \in Cashiers :
              /\ cashier[h] \in CashierStates /\ CashierFits(cashier[h], payment, intent)
              /\ cashier[h].copy \in PaymentDocs /\ cashier[h].copy.back \in Nat
              /\ cashier[h].amount \in 0..Total /\ cashier[h].id \in 0..MaxRefunds
              /\ cashier[h].seen \in IntentStates /\ cashier[h].step \in CashierSteps
BY TerminalAssumption DEF TerminalInv, TerminalTypeOK, PaymentDocs, CashierStates

\* One request goes on to r; no refund leaves the document.
LEMMA CashierMoves ==
  ASSUME TerminalInv, NEW h \in Cashiers, NEW r \in CashierStates,
         cashier' = [cashier EXCEPT ![h] = r], CashierFits(r, payment', intent'),
         intent' \in IntentStates, intent = "succeeded" => intent' = "succeeded",
         intent # "none" => intent' # "none",
         payment' \in PaymentDocs, payment.back <= payment'.back,
         payment.status # "none" => payment'.status # "none",
         payment.status = "none" =>
           payment.back = payment'.back /\ \A g \in Cashiers \ {h} : cashier[g].step # "create",
         r.step = "create" => \A g \in Cashiers \ {h} : cashier[g].step # "create",
         refunded' \in [count : 0..MaxRefunds, sum : 0..Total],
         unrecorded' \in BOOLEAN, overwritten' \in BOOLEAN,
         RefundsAreRecorded', PaidIsCaptured', StatusIsExplained'
  PROVE  TerminalInv'
<1>1. \A g \in Cashiers : cashier'[g] = IF g = h THEN r ELSE cashier[g]
  BY TerminalShape
<1>2. TerminalTypeOK'
  BY TerminalShape DEF TerminalTypeOK
<1>3. \A g \in Cashiers : CashierFits(cashier'[g], payment', intent')
  <2> SUFFICES ASSUME NEW g \in Cashiers, g # h PROVE CashierFits(cashier[g], payment', intent')
    BY <1>1
  <2>1. CashierFits(cashier[g], payment, intent) /\ cashier[g].copy.back \in Nat
        /\ payment.back \in Nat /\ payment'.back \in Nat
    BY TerminalShape DEF PaymentDocs
  <2>2. cashier[g].step = "create" => payment'.status = "none"
    BY <2>1 DEF CashierFits
  <2>3. cashier[g].copy.back <= payment'.back
    BY <2>1 DEF CashierFits
  <2> QED BY <2>1, <2>2, <2>3 DEF CashierFits
<1>4. \A g, k \in Cashiers : cashier'[g].step = "create" /\ cashier'[k].step = "create" => g = k
  BY <1>1 DEF TerminalInv
<1>5. payment'.status = "none" => payment'.back = 0
  BY DEF TerminalInv
<1> QED BY <1>2, <1>3, <1>4, <1>5 DEF TerminalInv

\* Nobody comes to have a refund to record, or has recorded one.
LEMMA RecordedStays ==
  ASSUME TerminalInv, NEW h \in Cashiers, NEW r \in CashierStates,
         cashier' = [cashier EXCEPT ![h] = r], cashier[h].step # "record", r.step # "record",
         payment'.refunds = payment.refunds, UNCHANGED refunded, unrecorded => unrecorded'
  PROVE  RefundsAreRecorded'
<1>1. \A g \in Cashiers : cashier'[g] = IF g = h THEN r ELSE cashier[g]
  BY TerminalShape
<1>2. {cashier'[g].id : g \in {k \in Cashiers : cashier'[k].step = "record"}}
        = {cashier[g].id : g \in {k \in Cashiers : cashier[k].step = "record"}}
  BY <1>1
<1> QED BY <1>2 DEF TerminalInv, RefundsAreRecorded

\* A request reads, and goes on.
LEMMA ReadKeeps ==
  ASSUME TerminalInv, NEW h \in Cashiers, NEW r \in CashierStates, cashier[h].step # "record",
         r.step \notin {"record", "create"}, CashierFits(r, payment, intent), payment.status # "none",
         cashier' = [cashier EXCEPT ![h] = r],
         UNCHANGED <<intent, refunded, payment, unrecorded, overwritten>>
  PROVE  TerminalInv'
<1>1. RefundsAreRecorded'
  BY RecordedStays
<1>2. PaidIsCaptured' /\ StatusIsExplained'
  BY DEF TerminalInv, PaidIsCaptured, StatusIsExplained
<1>3. /\ intent' \in IntentStates /\ payment' \in PaymentDocs /\ payment.back <= payment'.back
      /\ unrecorded' \in BOOLEAN /\ overwritten' \in BOOLEAN
      /\ refunded' \in [count : 0..MaxRefunds, sum : 0..Total]
  BY TerminalShape DEF TerminalInv, TerminalTypeOK
<1> QED BY <1>1, <1>2, <1>3, CashierMoves

LEMMA ReadingKeeps ==
  ASSUME TerminalInv, NEW h \in Cashiers,
         ReadToConfirm(h) \/ ReadToCancel(h) \/ RetrieveIntent(h) \/ \E n \in 1..Total : ReadToRefund(h, n)
  PROVE  TerminalInv'
<1>0. /\ payment \in PaymentDocs /\ intent \in IntentStates /\ cashier[h] \in CashierStates
      /\ CashierFits(cashier[h], payment, intent) /\ payment.back \in Nat
  BY TerminalShape
<1>a. payment.status = "partially_refunded" => payment.back > 0
  BY DEF TerminalInv, StatusIsExplained
<1>1. CASE ReadToConfirm(h)
  <2> DEFINE r == [cashier[h] EXCEPT !.step = "retrieve", !.copy = payment]
  <2>1. r \in CashierStates /\ r.step = "retrieve" /\ r.copy = payment
    BY <1>0 DEF CashierStates, CashierSteps
  <2>2. /\ cashier' = [cashier EXCEPT ![h] = r] /\ cashier[h].step # "record"
        /\ UNCHANGED <<intent, refunded, payment, unrecorded, overwritten>>
        /\ payment.status # "none"
    BY <1>1 DEF ReadToConfirm
  <2> HIDE DEF r
  <2>3. CashierFits(r, payment, intent)
    BY <1>0, <1>a, <2>1, <2>2 DEF CashierFits, Paid
  <2> QED BY <2>1, <2>2, <2>3, ReadKeeps
<1>2. CASE ReadToCancel(h)
  <2> DEFINE r == [cashier[h] EXCEPT !.step = "cancel", !.copy = payment]
  <2>1. r \in CashierStates /\ r.step = "cancel" /\ r.copy = payment
    BY <1>0 DEF CashierStates, CashierSteps
  <2>2. /\ cashier' = [cashier EXCEPT ![h] = r] /\ cashier[h].step # "record"
        /\ UNCHANGED <<intent, refunded, payment, unrecorded, overwritten>>
        /\ payment.status # "none"
    BY <1>2 DEF ReadToCancel
  <2> HIDE DEF r
  <2>3. CashierFits(r, payment, intent)
    BY <1>0, <1>a, <2>1, <2>2 DEF CashierFits, Paid
  <2> QED BY <2>1, <2>2, <2>3, ReadKeeps
<1>3. CASE RetrieveIntent(h)
  <2> DEFINE r == [cashier[h] EXCEPT !.step = "confirm", !.seen = intent]
  <2>1. r \in CashierStates /\ r.step = "confirm" /\ r.seen = intent /\ r.copy = cashier[h].copy
    BY <1>0 DEF CashierStates, CashierSteps
  <2>2. /\ cashier' = [cashier EXCEPT ![h] = r] /\ cashier[h].step = "retrieve"
        /\ UNCHANGED <<intent, refunded, payment, unrecorded, overwritten>>
    BY <1>3 DEF RetrieveIntent
  <2> HIDE DEF r
  <2>3. CashierFits(r, payment, intent) /\ payment.status # "none"
    BY <1>0, <2>1, <2>2 DEF CashierFits, Paid
  <2> QED BY <2>1, <2>2, <2>3, ReadKeeps
<1>4. ASSUME NEW n \in 1..Total, ReadToRefund(h, n) PROVE TerminalInv'
  <2> DEFINE r == [cashier[h] EXCEPT !.step = "refund", !.copy = payment, !.amount = n]
  <2>1. n \in 0..Total /\ n # 0
    BY TerminalAssumption
  <2>2. r \in CashierStates /\ r.step = "refund" /\ r.copy = payment /\ r.amount = n
    BY <1>0, <2>1 DEF CashierStates, CashierSteps
  <2>3. /\ cashier' = [cashier EXCEPT ![h] = r] /\ cashier[h].step # "record" /\ CanRefund(payment)
        /\ UNCHANGED <<intent, refunded, payment, unrecorded, overwritten>>
    BY <1>4 DEF ReadToRefund
  <2> HIDE DEF r
  <2>4. intent = "succeeded" /\ payment.status # "none"
    BY <2>3 DEF CanRefund, TerminalInv, PaidIsCaptured
  <2>5. CashierFits(r, payment, intent)
    BY <1>0, <1>a, <2>1, <2>2, <2>3, <2>4 DEF CashierFits, Paid
  <2> QED BY <2>2, <2>3, <2>4, <2>5, ReadKeeps
<1> QED BY <1>1, <1>2, <1>3, <1>4

LEMMA IntentMoves ==
  ASSUME TerminalInv, PresentCard \/ CaptureIntent \/ CancelIntent PROVE TerminalInv'
<1>1. /\ intent' \in IntentStates /\ intent \notin {"none", "succeeded"} /\ intent' # "none"
      /\ UNCHANGED <<refunded, payment, cashier, unrecorded, overwritten>>
  BY DEF PresentCard, CaptureIntent, CancelIntent, IntentStates
<1>2. \A h \in Cashiers : CashierFits(cashier[h], payment, intent')
  BY <1>1 DEF TerminalInv, CashierFits
<1> QED BY <1>1, <1>2 DEF TerminalInv, TerminalTypeOK, RefundsAreRecorded, PaidIsCaptured, StatusIsExplained

LEMMA CreateIntentKeeps == ASSUME TerminalInv, NEW h \in Cashiers, CreateIntent(h) PROVE TerminalInv'
<1>0. /\ payment \in PaymentDocs /\ intent \in IntentStates /\ cashier[h] \in CashierStates
      /\ CashierFits(cashier[h], payment, intent) /\ payment.back = 0 /\ Total > 0 /\ Total \in Nat
      /\ refunded \in [count : 0..MaxRefunds, sum : 0..Total]
      /\ unrecorded \in BOOLEAN /\ overwritten \in BOOLEAN
  BY TerminalShape DEF CreateIntent, TerminalInv, TerminalTypeOK
<1>1. /\ cashier[h].step = "idle" /\ payment.status = "none" /\ intent = "none"
      /\ UNCHANGED <<refunded, unrecorded, overwritten>>
  BY DEF CreateIntent
<1>2. \A g \in Cashiers : cashier[g].step # "create"
  BY <1>1 DEF TerminalInv, CashierFits
<1>3. CASE intent' = "open" /\ cashier' = [cashier EXCEPT ![h].step = "create"] /\ payment' = payment
  <2> DEFINE r == [cashier[h] EXCEPT !.step = "create"]
  <2>1. r \in CashierStates /\ r.step = "create" /\ r.copy = cashier[h].copy
    BY <1>0 DEF CashierStates, CashierSteps
  <2>2. cashier' = [cashier EXCEPT ![h] = r]
    BY <1>3
  <2> HIDE DEF r
  <2>3. CashierFits(r, payment', intent')
    BY <1>0, <1>1, <1>3, <2>1 DEF CashierFits, Paid
  <2>4. PaidIsCaptured' /\ StatusIsExplained' /\ intent' \in IntentStates
    BY <1>0, <1>1, <1>3 DEF PaidIsCaptured, StatusIsExplained, TerminalInv, IntentStates
  <2>5. RefundsAreRecorded'
    BY <1>1, <1>3, <2>1, <2>2, RecordedStays
  <2>6. /\ refunded' \in [count : 0..MaxRefunds, sum : 0..Total] /\ payment.back <= payment'.back
        /\ unrecorded' \in BOOLEAN /\ overwritten' \in BOOLEAN /\ payment' \in PaymentDocs
    BY <1>0, <1>1, <1>3
  <2> QED BY <1>1, <1>2, <1>3, <2>1, <2>2, <2>3, <2>4, <2>5, <2>6, CashierMoves
<1>4. CASE payment' = [payment EXCEPT !.status = "failed"] /\ UNCHANGED <<intent, cashier>>
  <2> DEFINE r == cashier[h]
  <2>1. cashier' = [cashier EXCEPT ![h] = r]
    BY <1>4, TerminalShape
  <2>2. payment' \in PaymentDocs /\ payment'.refunds = payment.refunds /\ payment'.status = "failed"
        /\ payment'.back = 0
    BY <1>0, <1>4 DEF PaymentDocs, PaymentStatuses
  <2>3. CashierFits(r, payment', intent')
    BY <1>0, <1>1, <1>4, <2>2 DEF CashierFits, Paid
  <2>4. PaidIsCaptured' /\ StatusIsExplained' /\ intent' \in IntentStates
    BY <1>0, <1>4, <2>2 DEF PaidIsCaptured, StatusIsExplained
  <2>5. RefundsAreRecorded'
    BY <1>0, <1>1, <2>1, <2>2, RecordedStays
  <2>6. /\ refunded' \in [count : 0..MaxRefunds, sum : 0..Total] /\ payment.back <= payment'.back
        /\ unrecorded' \in BOOLEAN /\ overwritten' \in BOOLEAN /\ payment.back = payment'.back
    BY <1>0, <1>1, <2>2
  <2> HIDE DEF r
  <2>7. r \in CashierStates /\ r.step # "create"
    BY <1>0, <1>1 DEF r
  <2> QED BY <1>1, <1>2, <1>4, <2>1, <2>2, <2>3, <2>4, <2>5, <2>6, <2>7, CashierMoves
<1> QED BY <1>3, <1>4 DEF CreateIntent

\* A request that is not to record a refund ends, with a status written or not.
LEMMA StatusKeeps ==
  ASSUME TerminalInv, NEW h \in Cashiers, NEW p \in PaymentDocs, cashier[h].step # "record",
         payment' = p, p.refunds = payment.refunds, p.back = payment.back, p.status # "none",
         \/ p.status = payment.status
         \/ /\ p.status \notin {"refunded", "partially_refunded"}
            /\ overwritten' \/ payment.back = 0,
         payment.status = "none" => cashier[h].step = "create",
         p.status = "succeeded" => payment.status = "succeeded" \/ intent = "succeeded",
         CashierEnds(h), UNCHANGED <<intent, refunded>>,
         unrecorded => unrecorded', overwritten => overwritten',
         unrecorded' \in BOOLEAN, overwritten' \in BOOLEAN
  PROVE  TerminalInv'
<1>0. /\ payment \in PaymentDocs /\ payment.back \in Nat /\ Total > 0 /\ Total \in Nat
      /\ refunded \in [count : 0..MaxRefunds, sum : 0..Total]
      /\ intent \in IntentStates
  BY TerminalShape DEF TerminalInv, TerminalTypeOK
<1>1. /\ cashier' = [cashier EXCEPT ![h] = IdleCashier] /\ IdleCashier \in CashierStates
      /\ IdleCashier.step = "idle" /\ CashierFits(IdleCashier, payment', intent')
  BY IdleCashierFits DEF CashierEnds
<1>2. RefundsAreRecorded'
  BY <1>1, RecordedStays
<1>3. PaidIsCaptured'
  BY DEF TerminalInv, PaidIsCaptured
<1>4. StatusIsExplained'
  <2>1. CASE p.status = payment.status
    BY <2>1 DEF TerminalInv, StatusIsExplained
  <2>2. CASE p.status \notin {"refunded", "partially_refunded"} /\ (overwritten' \/ payment.back = 0)
    <3>1. ~overwritten' => payment.back = 0
      BY <2>2
    <3> QED BY <1>0, <2>2, <3>1 DEF StatusIsExplained
  <2> QED BY <2>1, <2>2
<1>5. payment.status = "none" => \A g \in Cashiers \ {h} : cashier[g].step # "create"
  BY DEF TerminalInv
<1>6. payment.back <= payment'.back
  BY <1>0
<1> QED BY <1>0, <1>1, <1>2, <1>3, <1>4, <1>5, <1>6, CashierMoves

\* The status given is written, or the document keeps its own.
LEMMA NewStatusIs ==
  ASSUME TerminalInv, NEW h \in Cashiers, NEW s \in PaymentStatuses
  PROVE  LET p == NewStatus(h, s) IN
         /\ p \in PaymentDocs /\ p.refunds = payment.refunds /\ p.back = payment.back
         /\ s # cashier[h].copy.status => p.status = s
         /\ s = cashier[h].copy.status => p.status = payment.status
BY TerminalShape DEF NewStatus, PaymentDocs

LEMMA SavesKeep ==
  ASSUME TerminalInv, NEW h \in Cashiers, SavePayment(h) \/ SaveConfirmed(h) \/ SaveCanceled(h)
  PROVE  TerminalInv'
<1>0. /\ payment \in PaymentDocs /\ payment.back \in Nat /\ CashierFits(cashier[h], payment, intent)
      /\ unrecorded \in BOOLEAN /\ overwritten \in BOOLEAN
  BY TerminalShape
<1>1. CASE SavePayment(h)
  <2>1. /\ payment'.refunds = payment.refunds /\ payment'.back = payment.back
        /\ payment'.status = "pending" /\ payment' \in PaymentDocs /\ cashier[h].step = "create"
        /\ CashierEnds(h) /\ UNCHANGED <<intent, refunded, unrecorded, overwritten>>
    BY <1>0, <1>1 DEF SavePayment, PaymentDocs, PaymentStatuses
  <2>2. payment.back = 0
    BY <1>0, <2>1 DEF CashierFits, TerminalInv
  <2> QED BY <1>0, <2>1, <2>2, StatusKeeps
<1>2. ASSUME NEW s \in {"succeeded", "processing", "canceled"}, payment' = NewStatus(h, s),
             s = "succeeded" => intent = "succeeded", cashier[h].step \in {"confirm", "cancel"},
             overwritten' = (overwritten \/ payment.back > 0),
             CashierEnds(h), UNCHANGED <<intent, refunded, unrecorded>>
      PROVE  TerminalInv'
  <2>1. s \in PaymentStatuses
    BY DEF PaymentStatuses
  <2>2. /\ payment' \in PaymentDocs /\ payment'.refunds = payment.refunds
        /\ payment'.back = payment.back /\ payment'.status \in {s, payment.status}
    BY <1>2, <2>1, NewStatusIs
  <2>3. payment.status # "none"
    BY <1>0, <1>2 DEF CashierFits
  <2>4. /\ overwritten' \in BOOLEAN /\ (overwritten => overwritten')
        /\ overwritten' \/ ~(payment.back > 0)
    BY <1>2, Zenon
  <2>5. overwritten' \/ payment.back = 0
    BY <1>0, <2>4
  <2> QED BY <1>0, <1>2, <2>2, <2>3, <2>4, <2>5, StatusKeeps
<1>3. CASE SaveConfirmed(h)
  <2>1. ConfirmedStatus(cashier[h].seen) \in {"succeeded", "processing", "canceled"}
        /\ (ConfirmedStatus(cashier[h].seen) = "succeeded" => cashier[h].seen = "succeeded")
    BY DEF ConfirmedStatus
  <2>2. cashier[h].step = "confirm" /\ (cashier[h].seen = "succeeded" => intent = "succeeded")
    BY <1>0, <1>3 DEF SaveConfirmed, CashierFits, Paid
  <2> QED BY <1>2, <1>3, <2>1, <2>2 DEF SaveConfirmed
<1>4. CASE SaveCanceled(h)
  BY <1>2, <1>4 DEF SaveCanceled
<1> QED BY <1>1, <1>3, <1>4

\* The refund Stripe makes is the next one, and now the request's to record.
LEMMA RefundIntentKeeps == ASSUME TerminalInv, NEW h \in Cashiers, RefundIntent(h) PROVE TerminalInv'
<1> DEFINE n == cashier[h].amount
           m == refunded.count + 1
           r == [cashier[h] EXCEPT !.step = "record", !.id = m]
<1>0. /\ refunded \in [count : 0..MaxRefunds, sum : 0..Total] /\ refunded.count \in Nat
      /\ refunded.sum \in Nat /\ MaxRefunds \in Nat
  BY TerminalAssumption DEF TerminalInv, TerminalTypeOK
<1>1. /\ cashier[h].step = "refund" /\ UNCHANGED <<intent, payment, unrecorded, overwritten>>
      /\ n \in 0..Total
  BY TerminalShape DEF RefundIntent
<1>2. intent = "succeeded" /\ payment.status # "none" /\ n # 0 /\ CanRefund(cashier[h].copy)
  BY <1>1, TerminalShape DEF CashierFits, Paid
<1>3. CASE /\ refunded.sum + n <= Total /\ refunded.count < MaxRefunds
           /\ refunded' = [count |-> m, sum |-> refunded.sum + n]
           /\ cashier' = [cashier EXCEPT ![h].step = "record", ![h].id = m]
  <2>1. refunded' \in [count : 0..MaxRefunds, sum : 0..Total]
    BY <1>0, <1>1, <1>3
  <2>2. m \in 0..MaxRefunds /\ m # 0 /\ 1..m = 1..refunded.count \cup {m}
    BY <1>0, <1>3
  <2> HIDE DEF m, n
  <2>3. /\ r \in CashierStates /\ r.step = "record" /\ r.id = m /\ r.copy = cashier[h].copy
        /\ r.amount = n
    BY <2>2, TerminalShape DEF CashierStates, CashierSteps, n
  <2>4. cashier' = [cashier EXCEPT ![h] = r]
    BY <1>3
  <2> HIDE DEF r
  <2>5. CashierFits(r, payment', intent')
    BY <1>1, <1>2, <2>2, <2>3, TerminalShape DEF CashierFits, Paid
  <2>6. \A g \in Cashiers : cashier'[g] = IF g = h THEN r ELSE cashier[g]
    BY <2>4, TerminalShape
  <2>7. {cashier'[g].id : g \in {k \in Cashiers : cashier'[k].step = "record"}}
          = {cashier[g].id : g \in {k \in Cashiers : cashier[k].step = "record"}} \cup {m}
    BY <1>1, <2>3, <2>6
  <2>8. RefundsAreRecorded'
    BY <1>1, <1>3, <2>2, <2>7 DEF TerminalInv, RefundsAreRecorded
  <2>9. PaidIsCaptured' /\ StatusIsExplained'
    BY <1>1 DEF TerminalInv, PaidIsCaptured, StatusIsExplained
  <2>10. /\ payment' \in PaymentDocs /\ payment.back <= payment'.back /\ intent' \in IntentStates
         /\ unrecorded' \in BOOLEAN /\ overwritten' \in BOOLEAN
    BY <1>1, TerminalShape
  <2> QED BY <1>1, <1>2, <2>1, <2>3, <2>4, <2>5, <2>8, <2>9, <2>10, CashierMoves
<1>4. CASE CashierEnds(h) /\ refunded' = refunded
  BY <1>1, <1>2, <1>4, TerminalShape, StatusKeeps
<1> QED BY <1>3, <1>4 DEF RefundIntent

\* What was the request's to record goes to the document.  The sum that the
\* status is chosen by holds the refund twice, and what the copy has.
LEMMA RecordRefundKeeps == ASSUME TerminalInv, NEW h \in Cashiers, RecordRefund(h) PROVE TerminalInv'
<1> DEFINE c == cashier[h]
           s == RefundStatus(h)
           p == NewStatus(h, s)
           b == payment.back + c.amount
<1>1. /\ c.step = "record" /\ UNCHANGED <<intent, refunded, unrecorded>>
      /\ cashier' = [cashier EXCEPT ![h] = IdleCashier]
      /\ payment' = [p EXCEPT !.refunds = payment.refunds \cup {c.id}, !.back = @ + c.amount]
      /\ overwritten' = (overwritten \/ payment.back # c.copy.back)
  BY DEF RecordRefund, PushedTo, CashierEnds
<1>2. /\ c.amount \in Nat /\ c.amount > 0 /\ c.copy.back \in Nat /\ payment.back \in Nat
      /\ c.copy.back <= payment.back /\ CanRefund(c.copy) /\ intent = "succeeded"
      /\ payment.status # "none" /\ Total \in Nat /\ Total > 0 /\ payment \in PaymentDocs
      /\ c.copy.status = "partially_refunded" => c.copy.back > 0
      /\ refunded \in [count : 0..MaxRefunds, sum : 0..Total] /\ c.id \in RefundIds
      /\ intent \in IntentStates
  <2>1. CashierFits(c, payment, intent) /\ c.amount \in 0..Total /\ c.id \in 0..MaxRefunds
    BY TerminalShape
  <2>2. c.id # 0 /\ c.amount # 0
    BY <1>1, <2>1 DEF CashierFits
  <2>3. c.id \in RefundIds /\ c.amount \in Nat /\ c.amount > 0
    BY <2>1, <2>2, TerminalAssumption DEF RefundIds
  <2> QED BY <1>1, <2>1, <2>3, TerminalShape DEF CashierFits, Paid, TerminalInv, TerminalTypeOK
<1>3. s = IF c.copy.back + c.amount + c.amount >= Total THEN "refunded" ELSE "partially_refunded"
  BY <1>2 DEF RefundStatus, TotalRefunded
<1>4. s \in PaymentStatuses /\ s \in {"refunded", "partially_refunded"}
  BY <1>3 DEF PaymentStatuses
<1>5. /\ p \in PaymentDocs /\ p.refunds = payment.refunds /\ p.back = payment.back
      /\ s # c.copy.status => p.status = s
      /\ s = c.copy.status => p.status = payment.status
  BY <1>4, NewStatusIs
<1> HIDE DEF p, s
<1>6. /\ payment' \in PaymentDocs /\ payment'.refunds = payment.refunds \cup {c.id}
      /\ payment'.back = b /\ payment'.status = p.status /\ b \in Nat
  <2>1. payment.refunds \cup {c.id} \in SUBSET RefundIds /\ b \in Nat
    BY <1>2 DEF PaymentDocs
  <2> HIDE DEF c
  <2>2. payment' = [p EXCEPT !.refunds = payment.refunds \cup {c.id}, !.back = b]
    BY <1>1, <1>5 DEF PaymentDocs
  <2> HIDE DEF b
  <2> QED BY <1>5, <2>1, <2>2 DEF PaymentDocs
<1> HIDE DEF c
<1>7. payment'.status \in {"refunded", "partially_refunded", payment.status}
  BY <1>4, <1>5, <1>6
<1>8. ~overwritten' => ~overwritten /\ payment.back = c.copy.back
  BY <1>1, Zenon
<1>9. c.copy.status \in {"succeeded", "partially_refunded"}
  BY <1>2 DEF CanRefund
<1>10. StatusIsExplained'
  <2>0. StatusIsExplained
    BY DEF TerminalInv
  <2>1. payment'.status = "refunded" => 2 * payment'.back >= Total
    <3>1. CASE p.status = s
      BY <1>2, <1>3, <1>6, <3>1
    <3>2. CASE p.status = payment.status
      BY <1>2, <1>6, <2>0, <3>2 DEF StatusIsExplained
    <3> QED BY <1>5, <3>1, <3>2
  <2>2. payment'.status = "partially_refunded" => payment'.back > 0
    BY <1>2, <1>6
  <2>3. ASSUME ~overwritten'
        PROVE  /\ payment'.status \in {"refunded", "partially_refunded"}
               /\ payment'.back >= Total => payment'.status = "refunded"
    <3>1. ~overwritten /\ payment.back = c.copy.back
      BY <1>8, <2>3
    <3>2. CASE s = c.copy.status
      <4>1. s = "partially_refunded" /\ c.copy.back > 0
        BY <1>2, <1>4, <1>9, <3>2
      <4>2. payment.status \in {"refunded", "partially_refunded"}
        BY <2>0, <3>1, <4>1 DEF StatusIsExplained
      <4>3. ~(b >= Total)
        BY <1>2, <1>3, <3>1, <4>1
      <4> QED BY <1>5, <1>6, <3>2, <4>2, <4>3
    <3>3. CASE s # c.copy.status
      <4>1. b >= Total => s = "refunded"
        BY <1>2, <1>3, <3>1
      <4> QED BY <1>4, <1>5, <1>6, <3>3, <4>1
    <3> QED BY <3>2, <3>3
  <2> QED BY <2>1, <2>2, <2>3 DEF StatusIsExplained
<1>11. \A g \in Cashiers : cashier'[g] = IF g = h THEN IdleCashier ELSE cashier[g]
  BY <1>1, TerminalShape
<1>12. {cashier[g].id : g \in {k \in Cashiers : cashier[k].step = "record"}}
         = {cashier'[g].id : g \in {k \in Cashiers : cashier'[k].step = "record"}} \cup {c.id}
  BY <1>1, <1>11, IdleCashierFits DEF c
<1>13. RefundsAreRecorded'
  BY <1>1, <1>6, <1>12 DEF TerminalInv, RefundsAreRecorded
<1>14. PaidIsCaptured'
  BY <1>1, <1>2 DEF PaidIsCaptured
<1>15. /\ IdleCashier \in CashierStates /\ IdleCashier.step = "idle"
       /\ CashierFits(IdleCashier, payment', intent')
  BY <1>6, IdleCashierFits
<1>16. overwritten' \in BOOLEAN /\ unrecorded' \in BOOLEAN
  <2>1. overwritten' \in BOOLEAN
    BY <1>1, Zenon
  <2> QED BY <1>1, <2>1, TerminalShape
<1>17. payment'.status # "none" /\ payment.back <= payment'.back
  BY <1>2, <1>6, <1>7
<1> QED BY <1>1, <1>2, <1>6, <1>10, <1>13, <1>14, <1>15, <1>16, <1>17, CashierMoves

LEMMA CashierFailsKeeps == ASSUME TerminalInv, NEW h \in Cashiers, CashierFails(h) PROVE TerminalInv'
<1>1. /\ cashier' = [cashier EXCEPT ![h] = IdleCashier]
      /\ UNCHANGED <<intent, refunded, payment, overwritten>>
      /\ unrecorded' = (unrecorded \/ cashier[h].step = "record")
  BY DEF CashierFails, CashierEnds
<1>2. /\ IdleCashier \in CashierStates /\ IdleCashier.step = "idle"
      /\ CashierFits(IdleCashier, payment', intent')
  BY <1>1, IdleCashierFits, TerminalShape
<1>3. unrecorded' \in BOOLEAN /\ (unrecorded => unrecorded') /\ (cashier[h].step = "record" => unrecorded')
  BY <1>1, Zenon
<1>4. RefundsAreRecorded'
  <2>1. CASE cashier[h].step # "record"
    BY <1>1, <1>2, <1>3, <2>1, RecordedStays
  <2>2. CASE cashier[h].step = "record"
    <3>1. unrecorded'
      BY <1>3, <2>2
    <3> QED BY <3>1, Zenon DEF RefundsAreRecorded
  <2> QED BY <2>1, <2>2
<1>5. PaidIsCaptured' /\ StatusIsExplained'
  BY <1>1 DEF TerminalInv, PaidIsCaptured, StatusIsExplained
<1>6. payment.status = "none" => \A g \in Cashiers \ {h} : cashier[g].step # "create"
  <2> SUFFICES ASSUME payment.status = "none", NEW g \in Cashiers \ {h}, cashier[g].step = "create"
               PROVE  FALSE
    OBVIOUS
  <2>1. cashier[h].step = "create"
    BY TerminalShape DEF CashierFails, CashierFits
  <2> QED BY <2>1 DEF TerminalInv
<1>7. /\ payment' \in PaymentDocs /\ payment.back <= payment'.back /\ intent' \in IntentStates
      /\ refunded' \in [count : 0..MaxRefunds, sum : 0..Total] /\ overwritten' \in BOOLEAN
  BY <1>1, TerminalShape DEF TerminalInv, TerminalTypeOK
<1> QED BY <1>1, <1>2, <1>3, <1>4, <1>5, <1>6, <1>7, CashierMoves

LEMMA TerminalStepKeeps == TerminalInv /\ [TerminalNext]_terminalVars => TerminalInv'
<1> SUFFICES ASSUME TerminalInv, [TerminalNext]_terminalVars PROVE TerminalInv'
  OBVIOUS
<1>1. CASE UNCHANGED terminalVars
  <2>1. /\ intent' = intent /\ refunded' = refunded /\ payment' = payment /\ cashier' = cashier
        /\ unrecorded' = unrecorded /\ overwritten' = overwritten
    BY <1>1 DEF terminalVars
  <2> QED BY <2>1 DEF TerminalInv, TerminalTypeOK, RefundsAreRecorded, PaidIsCaptured, StatusIsExplained
<1>2. CASE PresentCard \/ CaptureIntent \/ CancelIntent
  BY <1>2, IntentMoves
<1>3. ASSUME NEW h \in Cashiers, CreateIntent(h) \/ RefundIntent(h) \/ RecordRefund(h) \/ CashierFails(h)
      PROVE  TerminalInv'
  BY <1>3, CreateIntentKeeps, RefundIntentKeeps, RecordRefundKeeps, CashierFailsKeeps
<1>4. ASSUME NEW h \in Cashiers,
             \/ ReadToConfirm(h) \/ ReadToCancel(h) \/ RetrieveIntent(h)
             \/ \E n \in 1..Total : ReadToRefund(h, n)
      PROVE  TerminalInv'
  BY <1>4, ReadingKeeps
<1>5. ASSUME NEW h \in Cashiers, SavePayment(h) \/ SaveConfirmed(h) \/ SaveCanceled(h) PROVE TerminalInv'
  BY <1>5, SavesKeep
<1> QED BY <1>1, <1>2, <1>3, <1>4, <1>5 DEF TerminalNext

LEMMA TerminalStarts == TerminalInit => TerminalInv
<1> SUFFICES ASSUME TerminalInit PROVE TerminalInv
  OBVIOUS
<1>1. /\ cashier = [h \in Cashiers |-> IdleCashier] /\ refunded = [count |-> 0, sum |-> 0]
      /\ payment = NoPayment /\ intent = "none" /\ unrecorded = FALSE /\ overwritten = FALSE
  BY DEF TerminalInit
<1>2. /\ NoPayment \in PaymentDocs /\ NoPayment.refunds = {} /\ NoPayment.status = "none"
      /\ NoPayment.back = 0
  BY DEF NoPayment, PaymentDocs, PaymentStatuses
<1>3. \A h \in Cashiers : cashier[h] = IdleCashier
  BY <1>1
<1>4. TerminalTypeOK
  <2>1. 0 \in 0..MaxRefunds /\ 0 \in 0..Total
    BY TerminalAssumption
  <2>2. refunded \in [count : 0..MaxRefunds, sum : 0..Total]
    BY <1>1, <2>1
  <2> QED BY <1>1, <1>2, <2>2, IdleCashierFits DEF TerminalTypeOK, IntentStates
<1>5. {cashier[g].id : g \in {k \in Cashiers : cashier[k].step = "record"}} = {}
  BY <1>3, IdleCashierFits
<1>6. 1..refunded.count = {}
  BY <1>1
<1>7. RefundsAreRecorded /\ PaidIsCaptured
  BY <1>1, <1>2, <1>5, <1>6 DEF RefundsAreRecorded, PaidIsCaptured
<1>8. StatusIsExplained
  BY <1>1, <1>2, TerminalAssumption DEF StatusIsExplained
<1> QED BY <1>1, <1>2, <1>3, <1>4, <1>7, <1>8, IdleCashierFits DEF TerminalInv

(***************************************************************************)
(* What the document of a payment says of Stripe is so (routes/            *)
(* payments.js): every refund is in it or about to be put there unless a   *)
(* request died in between; it is called paid or refunded only if it was   *)
(* paid; and its status tells of the refunds in it unless a confirmation,  *)
(* a cancellation or another refund wrote over it, "refunded" meaning that *)
(* half of the amount went back, as the code adds a refund twice.  For any *)
(* amount, any number of refunds and of requests.                          *)
(***************************************************************************)
THEOREM PaymentSaysWhatIsSo == TerminalSpec => []PaymentIsRecorded
<1>1. TerminalInv => PaymentIsRecorded
  BY DEF TerminalInv, PaymentIsRecorded
<1> QED BY <1>1, TerminalStarts, TerminalStepKeeps, PTL DEF TerminalSpec

-----------------------------------------------------------------------------
(* The account at Stripe Connect.                                          *)

\* The fields of the specialist that say whether it is connected.
TellsOneStory(d) ==
  /\ d.status = "connected" <=> d.onboarded
  /\ d.status \in {"pending", "connected"} <=> d.account # NoAccount

\* Requests with a payout that is not yet saved.
Adding == {h \in Linkers : linker[h].new.total # linker[h].copy.total}

\* What a request waits for fits what it has read.
LinkerFits(r) ==
  /\ r.new.total # r.copy.total => r.step = "save" /\ r.new.total = r.copy.total + 1
  /\ r.step = "create" => r.copy.account = NoAccount
  /\ r.step = "saveThenCreate" => r.new.account = NoAccount
  /\ r.step = "status" => r.copy.account # NoAccount

ConnectInv ==
  /\ ConnectTypeOK
  /\ \A h \in Linkers : LinkerFits(linker[h])
  /\ IsFiniteSet(Adding)
  /\ ~overtaken =>
       /\ TellsOneStory(seller)
       /\ \A h \in Linkers : TellsOneStory(linker[h].copy) /\ TellsOneStory(linker[h].new)
       /\ seller.total + Cardinality(Adding) = Cardinality(counted)

LEMMA NewSellerTyped ==
  /\ NewSeller \in Sellers /\ TellsOneStory(NewSeller)
  /\ IdleLinker \in LinkerStates /\ LinkerFits(IdleLinker)
  /\ IdleLinker.copy = NewSeller /\ IdleLinker.new = NewSeller /\ IdleLinker.step = "idle"
<1>1. NewSeller \in Sellers /\ TellsOneStory(NewSeller)
  BY ConnectAssumption DEF NewSeller, Sellers, ConnectStatuses, TellsOneStory
<1> QED BY <1>1 DEF IdleLinker, LinkerStates, LinkerSteps, LinkerFits

LEMMA ConnectStarts == ConnectInit => ConnectInv
<1> SUFFICES ASSUME ConnectInit PROVE ConnectInv
  OBVIOUS
<1>1. \A h \in Linkers : linker[h] = IdleLinker
  BY DEF ConnectInit
<1>2. ConnectTypeOK
  <2>1. linker \in [Linkers -> LinkerStates] /\ seller \in Sellers
    BY NewSellerTyped DEF ConnectInit
  <2>2. payouts \in 0..MaxPayouts
    BY ConnectAssumption DEF ConnectInit
  <2>3. /\ stripe \in [Accounts -> {"none", "opened", "complete"}]
        /\ counted \in SUBSET (1..MaxPayouts) /\ overtaken \in BOOLEAN
    BY DEF ConnectInit
  <2> QED BY <2>1, <2>2, <2>3 DEF ConnectTypeOK
<1>3. Adding = {}
  BY <1>1, NewSellerTyped DEF Adding
<1>4. IsFiniteSet(Adding) /\ seller.total + Cardinality(Adding) = Cardinality(counted)
  BY <1>3, FS_EmptySet DEF ConnectInit, NewSeller
<1>5. /\ \A h \in Linkers : LinkerFits(linker[h]) /\ TellsOneStory(linker[h].copy) /\ TellsOneStory(linker[h].new)
      /\ TellsOneStory(seller)
  BY <1>1, NewSellerTyped DEF ConnectInit
<1> QED BY <1>2, <1>4, <1>5 DEF ConnectInv

LEMMA ConnectCounts ==
  ASSUME ConnectInv
  PROVE  /\ IsFiniteSet(counted) /\ Cardinality(counted) \in Nat
         /\ IsFiniteSet(Adding) /\ Cardinality(Adding) \in Nat
         /\ seller.total \in Nat
<1>1. IsFiniteSet(1..MaxPayouts)
  BY FS_Interval, ConnectAssumption
<1>2. counted \subseteq 1..MaxPayouts /\ IsFiniteSet(Adding)
  BY DEF ConnectInv, ConnectTypeOK
<1>3. seller.total \in Nat
  BY ConnectAssumption DEF ConnectInv, ConnectTypeOK, Sellers
<1> QED BY <1>1, <1>2, <1>3, FS_Subset, FS_CardinalityType

\* One request changes its record.
LEMMA LinkerChanges ==
  ASSUME ConnectInv, NEW h \in Linkers, NEW r \in LinkerStates, LinkerFits(r),
         linker' = [linker EXCEPT ![h] = r]
  PROVE  /\ linker' \in [Linkers -> LinkerStates] /\ linker'[h] = r
         /\ \A g \in Linkers \ {h} : linker'[g] = linker[g]
         /\ \A g \in Linkers : LinkerFits(linker'[g])
         /\ IsFiniteSet(Adding')
         /\ (h \in Adding <=> r.new.total # r.copy.total) => Adding' = Adding
         /\ h \notin Adding /\ r.new.total # r.copy.total =>
              Cardinality(Adding') = Cardinality(Adding) + 1
         /\ h \in Adding /\ r.new.total = r.copy.total =>
              Cardinality(Adding') = Cardinality(Adding) - 1
<1>1. /\ linker' \in [Linkers -> LinkerStates] /\ linker'[h] = r
      /\ \A g \in Linkers \ {h} : linker'[g] = linker[g]
  BY DEF ConnectInv, ConnectTypeOK
<1>2. \A g \in Linkers : LinkerFits(linker'[g])
  BY <1>1 DEF ConnectInv
<1>3. IsFiniteSet(Adding) /\ Cardinality(Adding) \in Nat
  BY ConnectCounts
<1>4. CASE h \in Adding <=> r.new.total # r.copy.total
  <2>1. Adding' = Adding
    BY <1>1, <1>4 DEF Adding
  <2> QED BY <1>1, <1>2, <1>3, <1>4, <2>1
<1>5. CASE h \notin Adding /\ r.new.total # r.copy.total
  <2>1. Adding' = Adding \cup {h}
    BY <1>1, <1>5 DEF Adding
  <2>2. IsFiniteSet(Adding') /\ Cardinality(Adding') = Cardinality(Adding) + 1
    BY <1>3, <1>5, <2>1, FS_AddElement
  <2> QED BY <1>1, <1>2, <1>5, <2>2
<1>6. CASE h \in Adding /\ r.new.total = r.copy.total
  <2>1. Adding' = Adding \ {h}
    BY <1>1, <1>6 DEF Adding
  <2>2. IsFiniteSet(Adding') /\ Cardinality(Adding') = Cardinality(Adding) - 1
    BY <1>3, <1>6, <2>1, FS_RemoveElement
  <2> QED BY <1>1, <1>2, <1>6, <2>2
<1> QED BY <1>4, <1>5, <1>6

\* A request goes on without adding a payout, and the specialist is not written.
LEMMA LinkerKeeps ==
  ASSUME ConnectInv, NEW h \in Linkers, NEW r \in LinkerStates, LinkerFits(r),
         linker' = [linker EXCEPT ![h] = r],
         r.new.total = r.copy.total, overtaken' \in BOOLEAN, ~overtaken' => ~overtaken /\ h \notin Adding,
         ~overtaken => TellsOneStory(r.copy) /\ TellsOneStory(r.new),
         UNCHANGED <<seller, counted, payouts>>, stripe' \in [Accounts -> {"none", "opened", "complete"}]
  PROVE  ConnectInv'
<1>1. /\ linker' \in [Linkers -> LinkerStates] /\ linker'[h] = r
      /\ \A g \in Linkers \ {h} : linker'[g] = linker[g]
      /\ \A g \in Linkers : LinkerFits(linker'[g])
      /\ IsFiniteSet(Adding')
      /\ ~overtaken' => Adding' = Adding
  BY LinkerChanges
<1>2. ConnectTypeOK'
  BY <1>1 DEF ConnectInv, ConnectTypeOK
<1>3. ASSUME ~overtaken'
      PROVE  /\ TellsOneStory(seller') /\ seller'.total + Cardinality(Adding') = Cardinality(counted')
             /\ \A g \in Linkers : TellsOneStory(linker'[g].copy) /\ TellsOneStory(linker'[g].new)
  BY <1>1, <1>3 DEF ConnectInv
<1> QED BY <1>1, <1>2, <1>3 DEF ConnectInv, TellsOneStory

\* An idle request, or one that has not a payout to save.
LEMMA NotAdding ==
  ASSUME ConnectInv, NEW h \in Linkers, linker[h].step # "save"
  PROVE  h \notin Adding
BY DEF ConnectInv, LinkerFits, Adding

\* A request is going to save, or ends if there is nothing to save.
LEMMA WillSaveKeeps ==
  ASSUME ConnectInv, NEW h \in Linkers, linker[h].step # "save", NEW copy \in Sellers, NEW new \in Sellers,
         WillSave(h, copy, new), new.total = copy.total,
         ~overtaken => TellsOneStory(copy) /\ TellsOneStory(new),
         UNCHANGED <<seller, counted, payouts, overtaken>>,
         stripe' \in [Accounts -> {"none", "opened", "complete"}]
  PROVE  ConnectInv'
<1>1. h \notin Adding /\ overtaken' \in BOOLEAN
  BY NotAdding DEF ConnectInv, ConnectTypeOK
<1>2. CASE LinkerEnds(h)
  <2> DEFINE r == IdleLinker
  <2>1. r \in LinkerStates /\ LinkerFits(r) /\ r.new.total = r.copy.total
        /\ TellsOneStory(r.copy) /\ TellsOneStory(r.new) /\ linker' = [linker EXCEPT ![h] = r]
    BY <1>2, NewSellerTyped DEF LinkerEnds
  <2> HIDE DEF r
  <2> QED BY <1>1, <2>1, LinkerKeeps
<1>3. CASE LinkerWaits(h, "save", copy, new)
  <2> DEFINE r == [step |-> "save", copy |-> copy, new |-> new]
  <2>1. r \in LinkerStates /\ LinkerFits(r) /\ r.copy = copy /\ r.new = new
        /\ linker' = [linker EXCEPT ![h] = r]
    BY <1>3 DEF LinkerWaits, LinkerStates, LinkerSteps, LinkerFits
  <2> HIDE DEF r
  <2> QED BY <1>1, <2>1, LinkerKeeps
<1> QED BY <1>2, <1>3 DEF WillSave

\* What a handler makes of the document.
LEMMA ClearedTyped ==
  ASSUME NEW d \in Sellers
  PROVE  Cleared(d) \in Sellers /\ Cleared(d).account = NoAccount /\ Cleared(d).total = d.total
         /\ TellsOneStory(Cleared(d)) /\ Cleared(d).onboarded = FALSE
BY DEF Cleared, StatusCleared, Sellers, ConnectStatuses, TellsOneStory

LEMMA ConnectedTyped ==
  ASSUME NEW d \in Sellers, d.account # NoAccount, NEW isComplete \in BOOLEAN
  PROVE  Connected(d, isComplete) \in Sellers /\ Connected(d, isComplete).total = d.total
         /\ TellsOneStory(Connected(d, isComplete))
BY DEF Connected, Sellers, ConnectStatuses, TellsOneStory

LEMMA ConnectedEnabled ==
  ASSUME NEW d \in Sellers, d.account # NoAccount, NEW isComplete \in BOOLEAN, NEW enabled \in BOOLEAN
  PROVE  /\ [Connected(d, isComplete) EXCEPT !.payoutsOn = enabled] \in Sellers
         /\ [Connected(d, isComplete) EXCEPT !.payoutsOn = enabled].total = d.total
         /\ TellsOneStory([Connected(d, isComplete) EXCEPT !.payoutsOn = enabled])
BY DEF Connected, Sellers, ConnectStatuses, TellsOneStory

\* What holds of a request at its step.
LEMMA LinkerAtStep ==
  ASSUME ConnectInv, NEW h \in Linkers
  PROVE  /\ linker[h] \in LinkerStates /\ linker[h].copy \in Sellers /\ linker[h].new \in Sellers
         /\ LinkerFits(linker[h]) /\ seller \in Sellers /\ overtaken \in BOOLEAN
         /\ stripe \in [Accounts -> {"none", "opened", "complete"}]
         /\ counted \subseteq 1..MaxPayouts
         /\ ~overtaken => /\ TellsOneStory(seller)
                          /\ TellsOneStory(linker[h].copy) /\ TellsOneStory(linker[h].new)
BY DEF ConnectInv, ConnectTypeOK, LinkerStates

\* A request reads the specialist and asks Stripe about it.
LEMMA AsksKeeps ==
  ASSUME ConnectInv, NEW h \in Linkers, linker[h].step = "idle", NEW step \in {"create", "onboard", "status"},
         step = "create" => seller.account = NoAccount, step = "status" => seller.account # NoAccount,
         LinkerWaits(h, step, seller, seller),
         UNCHANGED <<stripe, payouts, seller, counted, overtaken>>
  PROVE  ConnectInv'
<1> DEFINE r == [step |-> step, copy |-> seller, new |-> seller]
<1>1. r \in LinkerStates /\ r.copy = seller /\ r.new = seller /\ LinkerFits(r)
  BY LinkerAtStep DEF LinkerStates, LinkerSteps, LinkerFits
<1>2. linker' = [linker EXCEPT ![h] = r]
  BY DEF LinkerWaits
<1> HIDE DEF r
<1> QED BY <1>1, <1>2, LinkerKeeps, LinkerAtStep, NotAdding

LEMMA RetrieveForLinkKeeps ==
  ASSUME ConnectInv, NEW h \in Linkers, RetrieveForLink(h) PROVE ConnectInv'
<1> DEFINE copy == linker[h].copy
           r == [step |-> "saveThenCreate", copy |-> copy, new |-> Cleared(copy)]
           s == IdleLinker
<1>1. linker[h].step = "onboard" /\ UNCHANGED <<stripe, payouts, seller, counted, overtaken>>
  BY DEF RetrieveForLink
<1>2. CASE LinkerEnds(h)
  <2>1. s \in LinkerStates /\ LinkerFits(s) /\ s.new.total = s.copy.total
        /\ TellsOneStory(s.copy) /\ TellsOneStory(s.new) /\ linker' = [linker EXCEPT ![h] = s]
    BY <1>2, NewSellerTyped DEF LinkerEnds
  <2> HIDE DEF s
  <2> QED BY <1>1, <2>1, LinkerKeeps, LinkerAtStep, NotAdding
<1>3. CASE linker' = [linker EXCEPT ![h] = r]
  <2>1. Cleared(copy) \in Sellers /\ Cleared(copy).account = NoAccount /\ Cleared(copy).total = copy.total
        /\ TellsOneStory(Cleared(copy))
    BY ClearedTyped, LinkerAtStep
  <2>2. r \in LinkerStates /\ r.copy = copy /\ r.new = Cleared(copy) /\ LinkerFits(r)
    <3> HIDE DEF copy
    <3>1. copy \in Sellers
      BY LinkerAtStep DEF copy
    <3> QED BY <2>1, <3>1 DEF LinkerStates, LinkerSteps, LinkerFits
  <2> HIDE DEF r
  <2> QED BY <1>1, <1>3, <2>1, <2>2, LinkerKeeps, LinkerAtStep, NotAdding
<1> QED BY <1>2, <1>3 DEF RetrieveForLink, LinkerWaits

LEMMA CreateAccountKeeps ==
  ASSUME ConnectInv, NEW h \in Linkers, NEW a \in Accounts, CreateAccount(h, a) PROVE ConnectInv'
<1> DEFINE copy == linker[h].copy
           new == [copy EXCEPT !.account = a, !.status = "pending"]
<1>1. /\ linker[h].step = "create" /\ copy.account = NoAccount
      /\ UNCHANGED <<payouts, seller, counted, overtaken>> /\ WillSave(h, copy, new)
      /\ stripe' \in [Accounts -> {"none", "opened", "complete"}]
  BY LinkerAtStep DEF CreateAccount, LinkerFits
<1>2. copy \in Sellers /\ (~overtaken => TellsOneStory(copy))
  BY LinkerAtStep
<1>3. new \in Sellers /\ new.total = copy.total /\ (TellsOneStory(copy) => TellsOneStory(new))
  <2> HIDE DEF copy
  <2> QED BY <1>1, <1>2, ConnectAssumption DEF Sellers, ConnectStatuses, TellsOneStory
<1> HIDE DEF new, copy
<1> QED BY <1>1, <1>2, <1>3, WillSaveKeeps

LEMMA RetrieveForStatusKeeps ==
  ASSUME ConnectInv, NEW h \in Linkers, RetrieveForStatus(h) PROVE ConnectInv'
<1> DEFINE copy == linker[h].copy
<1>1. /\ linker[h].step = "status" /\ copy.account # NoAccount
      /\ UNCHANGED <<stripe, payouts, seller, counted, overtaken>>
      /\ stripe' \in [Accounts -> {"none", "opened", "complete"}]
  BY LinkerAtStep DEF RetrieveForStatus, LinkerFits
<1>2. copy \in Sellers /\ (~overtaken => TellsOneStory(copy))
  BY LinkerAtStep
<1>3. CASE WillSave(h, copy, Cleared(copy))
  BY <1>1, <1>2, <1>3, WillSaveKeeps, ClearedTyped
<1>4. CASE \E enabled \in BOOLEAN : WillSave(h, copy, [Connected(copy, TRUE) EXCEPT !.payoutsOn = enabled])
  BY <1>1, <1>2, <1>4, WillSaveKeeps, ConnectedEnabled
<1>5. CASE WillSave(h, copy, Connected(copy, FALSE))
  BY <1>1, <1>2, <1>5, WillSaveKeeps, ConnectedTyped
<1>6. CASE LinkerEnds(h)
  <2> DEFINE r == IdleLinker
  <2>1. r \in LinkerStates /\ LinkerFits(r) /\ r.new.total = r.copy.total
        /\ TellsOneStory(r.copy) /\ TellsOneStory(r.new) /\ linker' = [linker EXCEPT ![h] = r]
    BY <1>6, NewSellerTyped DEF LinkerEnds
  <2> HIDE DEF r
  <2> QED BY <1>1, <2>1, LinkerKeeps, LinkerAtStep, NotAdding
<1> QED BY <1>3, <1>4, <1>5, <1>6 DEF RetrieveForStatus

\* A handler changes what the specialist's account is known to be.
LEMMA AccountEventKeeps ==
  ASSUME ConnectInv, NEW h \in Linkers,
         \/ Disconnect(h) \/ ApplicationAuthorized(h) \/ ApplicationDeauthorized(h)
         \/ \E isComplete \in BOOLEAN, enabled \in BOOLEAN : AccountUpdated(h, isComplete, enabled)
  PROVE  ConnectInv'
<1>1. /\ linker[h].step = "idle" /\ seller.account # NoAccount
      /\ UNCHANGED <<stripe, payouts, seller, counted, overtaken>>
      /\ stripe' \in [Accounts -> {"none", "opened", "complete"}]
  BY LinkerAtStep DEF Disconnect, ApplicationAuthorized, ApplicationDeauthorized, AccountUpdated
<1>2. seller \in Sellers /\ (~overtaken => TellsOneStory(seller))
  BY LinkerAtStep
<1>3. CASE Disconnect(h)
  BY <1>1, <1>2, <1>3, WillSaveKeeps, ClearedTyped DEF Disconnect
<1>4. CASE ApplicationAuthorized(h)
  BY <1>1, <1>2, <1>4, WillSaveKeeps, ConnectedTyped DEF ApplicationAuthorized
<1>5. CASE ApplicationDeauthorized(h)
  <2> DEFINE c == Cleared(seller)
             new == [c EXCEPT !.status = "disconnected"]
  <2>1. c \in Sellers /\ c.account = NoAccount /\ c.total = seller.total /\ c.onboarded = FALSE
    BY <1>2, ClearedTyped
  <2>2. WillSave(h, seller, new)
    BY <1>5 DEF ApplicationDeauthorized
  <2>3. new \in Sellers /\ new.total = seller.total /\ TellsOneStory(new)
    <3> HIDE DEF c
    <3> QED BY <2>1 DEF Sellers, ConnectStatuses, TellsOneStory
  <2> HIDE DEF new
  <2> QED BY <1>1, <1>2, <2>2, <2>3, WillSaveKeeps
<1>6. ASSUME NEW isComplete \in BOOLEAN, NEW enabled \in BOOLEAN, AccountUpdated(h, isComplete, enabled)
      PROVE  ConnectInv'
  BY <1>1, <1>2, <1>6, WillSaveKeeps, ConnectedEnabled DEF AccountUpdated
<1> QED BY <1>3, <1>4, <1>5, <1>6

\* A payout's event is counted, and will be saved.
LEMMA PayoutPaidKeeps ==
  ASSUME ConnectInv, NEW h \in Linkers, NEW p \in 1..payouts, PayoutPaid(h, p) PROVE ConnectInv'
<1> DEFINE new == AddPayout(seller)
           r == [step |-> "save", copy |-> seller, new |-> new]
<1>1. /\ linker[h].step = "idle" /\ seller.total < 2 * MaxPayouts /\ WillSave(h, seller, new)
      /\ counted' = counted \cup {p} /\ UNCHANGED <<stripe, payouts, seller>>
  BY DEF PayoutPaid
<1>2. overtaken' \in BOOLEAN /\ (~overtaken' => ~overtaken /\ p \notin counted)
  BY DEF PayoutPaid
<1>3. seller \in Sellers /\ seller.total \in Nat /\ MaxPayouts \in Nat
  BY LinkerAtStep, ConnectCounts, ConnectAssumption
<1>4. /\ new \in Sellers /\ new.total = seller.total + 1
      /\ TellsOneStory(seller) => TellsOneStory(new)
  <2>1. seller.total + 1 \in 0..(2 * MaxPayouts)
    BY <1>1, <1>3
  <2> QED BY <1>3, <2>1 DEF AddPayout, Sellers, TellsOneStory
<1> HIDE DEF new
<1>5. r \in LinkerStates /\ r.copy = seller /\ r.new = new /\ LinkerFits(r)
  BY <1>3, <1>4 DEF LinkerStates, LinkerSteps, LinkerFits
<1>6. linker' = [linker EXCEPT ![h] = r]
  <2>1. new # seller
    BY <1>3, <1>4
  <2> QED BY <1>1, <2>1 DEF WillSave, LinkerWaits
<1> HIDE DEF r
<1>7. h \notin Adding /\ r.new.total # r.copy.total
  BY <1>1, <1>3, <1>4, <1>5, NotAdding
<1>8. /\ linker' \in [Linkers -> LinkerStates] /\ linker'[h] = r
      /\ \A g \in Linkers \ {h} : linker'[g] = linker[g]
      /\ \A g \in Linkers : LinkerFits(linker'[g])
      /\ IsFiniteSet(Adding') /\ Cardinality(Adding') = Cardinality(Adding) + 1
  BY <1>5, <1>6, <1>7, LinkerChanges
<1>9. p \in 1..MaxPayouts
  <2>1. payouts \in 0..MaxPayouts
    BY DEF ConnectInv, ConnectTypeOK
  <2> QED BY <1>3, <2>1
<1>10. ConnectTypeOK'
  BY <1>1, <1>2, <1>8, <1>9 DEF ConnectInv, ConnectTypeOK
<1>11. ASSUME ~overtaken'
       PROVE  seller'.total + Cardinality(Adding') = Cardinality(counted')
  <2>1. Cardinality(counted') = Cardinality(counted) + 1
    BY <1>1, <1>2, <1>11, ConnectCounts, FS_AddElement
  <2>2. seller.total + Cardinality(Adding) = Cardinality(counted)
    BY <1>2, <1>11 DEF ConnectInv
  <2>3. Cardinality(Adding) \in Nat /\ Cardinality(counted) \in Nat
    BY ConnectCounts
  <2> QED BY <1>1, <1>3, <1>8, <2>1, <2>2, <2>3
<1>12. ASSUME ~overtaken'
       PROVE  /\ TellsOneStory(seller')
              /\ \A g \in Linkers : TellsOneStory(linker'[g].copy) /\ TellsOneStory(linker'[g].new)
  BY <1>1, <1>2, <1>4, <1>5, <1>8, <1>12 DEF ConnectInv
<1> QED BY <1>8, <1>10, <1>11, <1>12 DEF ConnectInv, TellsOneStory

\* The fields that changed are saved; from a copy that is up to date, all of them.
LEMMA SaveSellerKeeps == ASSUME ConnectInv, NEW h \in Linkers, SaveSeller(h) PROVE ConnectInv'
<1> DEFINE r == linker[h]
           f == [step |-> "create", copy |-> r.new, new |-> r.new]
           d == IF r.step = "save" THEN IdleLinker ELSE f
<1>1. /\ r.step \in {"save", "saveThenCreate"} /\ UNCHANGED <<stripe, payouts, counted>>
      /\ linker' = [linker EXCEPT ![h] = d]
  BY DEF SaveSeller, LinkerEnds, LinkerWaits
<1>2. overtaken' \in BOOLEAN /\ (~overtaken' => ~overtaken /\ r.copy = seller)
  BY DEF SaveSeller
<1>3. /\ r \in LinkerStates /\ r.copy \in Sellers /\ r.new \in Sellers /\ LinkerFits(r)
      /\ seller \in Sellers
  BY LinkerAtStep
<1>4. seller' \in Sellers /\ (r.copy = seller => seller' = r.new)
  <2>1. /\ \E account \in {seller.account, r.new.account}, status \in {seller.status, r.new.status},
              onboarded \in {seller.onboarded, r.new.onboarded},
              payoutsOn \in {seller.payoutsOn, r.new.payoutsOn}, total \in {seller.total, r.new.total} :
              seller' = [account |-> account, status |-> status, onboarded |-> onboarded,
                         payoutsOn |-> payoutsOn, total |-> total]
    BY DEF SaveSeller
  <2>2. seller' \in Sellers
    BY <1>3, <2>1 DEF Sellers
  <2>3. r.copy = seller =>
          /\ seller'.account = r.new.account /\ seller'.status = r.new.status
          /\ seller'.onboarded = r.new.onboarded /\ seller'.payoutsOn = r.new.payoutsOn
          /\ seller'.total = r.new.total
    BY DEF SaveSeller
  <2> QED BY <1>3, <2>2, <2>3 DEF Sellers
<1>5. /\ d \in LinkerStates /\ LinkerFits(d) /\ d.new.total = d.copy.total
      /\ TellsOneStory(r.new) => TellsOneStory(d.copy) /\ TellsOneStory(d.new)
  <2>1. CASE r.step = "save"
    BY <2>1, NewSellerTyped
  <2>2. CASE r.step # "save"
    <3>1. r.new.account = NoAccount
      BY <1>1, <1>3, <2>2 DEF LinkerFits
    <3> HIDE DEF r
    <3>2. f \in LinkerStates /\ LinkerFits(f) /\ f.new = r.new /\ f.copy = r.new
      BY <1>3, <3>1 DEF LinkerStates, LinkerSteps, LinkerFits
    <3> QED BY <2>2, <3>2
  <2> QED BY <2>1, <2>2
<1> HIDE DEF d
<1>6. /\ linker' \in [Linkers -> LinkerStates] /\ linker'[h] = d
      /\ \A g \in Linkers \ {h} : linker'[g] = linker[g]
      /\ \A g \in Linkers : LinkerFits(linker'[g])
      /\ IsFiniteSet(Adding')
      /\ h \notin Adding => Adding' = Adding
      /\ h \in Adding => Cardinality(Adding') = Cardinality(Adding) - 1
  BY <1>1, <1>5, LinkerChanges
<1>7. ConnectTypeOK'
  BY <1>1, <1>2, <1>4, <1>6 DEF ConnectInv, ConnectTypeOK
<1>8. ASSUME ~overtaken'
      PROVE  seller'.total + Cardinality(Adding') = Cardinality(counted')
  <2>1. seller.total + Cardinality(Adding) = Cardinality(counted)
    BY <1>2, <1>8 DEF ConnectInv
  <2>2. Cardinality(Adding) \in Nat /\ Cardinality(counted) \in Nat /\ seller.total \in Nat
    BY ConnectCounts
  <2>3. seller'.total = r.new.total /\ r.copy.total = seller.total
    BY <1>2, <1>4, <1>8
  <2>4. CASE h \notin Adding
    BY <1>1, <1>6, <2>1, <2>3, <2>4 DEF Adding
  <2>5. CASE h \in Adding
    <3>1. r.new.total = r.copy.total + 1
      BY <1>3, <2>5 DEF Adding, LinkerFits
    <3> QED BY <1>1, <1>6, <2>1, <2>2, <2>3, <2>5, <3>1
  <2> QED BY <2>4, <2>5
<1>9. ASSUME ~overtaken'
      PROVE  /\ TellsOneStory(seller')
             /\ \A g \in Linkers : TellsOneStory(linker'[g].copy) /\ TellsOneStory(linker'[g].new)
  BY <1>2, <1>4, <1>5, <1>6, <1>9 DEF ConnectInv
<1> QED BY <1>6, <1>7, <1>8, <1>9 DEF ConnectInv, TellsOneStory

LEMMA LinkerFailsKeeps == ASSUME ConnectInv, NEW h \in Linkers, LinkerFails(h) PROVE ConnectInv'
<1> DEFINE s == IdleLinker
<1>1. /\ s \in LinkerStates /\ LinkerFits(s) /\ s.new.total = s.copy.total
      /\ TellsOneStory(s.copy) /\ TellsOneStory(s.new) /\ linker' = [linker EXCEPT ![h] = s]
  BY NewSellerTyped DEF LinkerFails, LinkerEnds
<1>2. overtaken' \in BOOLEAN /\ (~overtaken' => ~overtaken /\ h \notin Adding)
  BY DEF LinkerFails, Adding
<1> HIDE DEF s
<1> QED BY <1>1, <1>2, LinkerKeeps, LinkerAtStep DEF LinkerFails

LEMMA ConnectSteps == ConnectInv /\ [ConnectNext]_connectVars => ConnectInv'
<1> SUFFICES ASSUME ConnectInv, [ConnectNext]_connectVars PROVE ConnectInv'
  OBVIOUS
<1>1. CASE PayoutMade
  <2>1. payouts' \in 0..MaxPayouts
    BY <1>1, ConnectAssumption DEF PayoutMade, ConnectInv, ConnectTypeOK
  <2> QED BY <1>1, <2>1 DEF PayoutMade, ConnectInv, ConnectTypeOK, TellsOneStory, Adding
<1>2. ASSUME NEW a \in Accounts, AccountChanges(a) PROVE ConnectInv'
  <2>1. stripe' \in [Accounts -> {"none", "opened", "complete"}]
    BY <1>2 DEF AccountChanges, ConnectInv, ConnectTypeOK
  <2> QED BY <1>2, <2>1 DEF AccountChanges, ConnectInv, ConnectTypeOK, TellsOneStory, Adding
<1>3. ASSUME NEW h \in Linkers, Onboard(h) \/ GetStatus(h) PROVE ConnectInv'
  <2>1. PICK step \in {"create", "onboard", "status"} :
          /\ LinkerWaits(h, step, seller, seller)
          /\ step = "create" => seller.account = NoAccount
          /\ step = "status" => seller.account # NoAccount
    BY <1>3 DEF Onboard, GetStatus
  <2> QED BY <1>3, <2>1, AsksKeeps DEF Onboard, GetStatus
<1>4. ASSUME NEW h \in Linkers,
             \/ RetrieveForLink(h) \/ \E a \in Accounts : CreateAccount(h, a)
             \/ RetrieveForStatus(h) \/ SaveSeller(h) \/ LinkerFails(h)
      PROVE  ConnectInv'
  BY <1>4, RetrieveForLinkKeeps, CreateAccountKeeps, RetrieveForStatusKeeps, SaveSellerKeeps,
     LinkerFailsKeeps
<1>5. ASSUME NEW h \in Linkers,
             \/ Disconnect(h) \/ ApplicationAuthorized(h) \/ ApplicationDeauthorized(h)
             \/ \E isComplete \in BOOLEAN, enabled \in BOOLEAN : AccountUpdated(h, isComplete, enabled)
      PROVE  ConnectInv'
  BY <1>5, AccountEventKeeps
<1>6. ASSUME NEW h \in Linkers, NEW p \in 1..payouts, PayoutPaid(h, p) PROVE ConnectInv'
  BY <1>6, PayoutPaidKeeps
<1>7. CASE UNCHANGED connectVars
  BY <1>7 DEF connectVars, ConnectInv, ConnectTypeOK, TellsOneStory, Adding
<1> QED BY <1>1, <1>2, <1>3, <1>4, <1>5, <1>6, <1>7 DEF ConnectNext

LEMMA ConnectInvariance == ConnectSpec => []ConnectInv
<1> QED BY ConnectStarts, ConnectSteps, PTL DEF ConnectSpec

\* Unless one save of the specialist overtook another, its fields tell one story, and the
\* payouts saved and about to be saved are those whose event found it.
THEOREM SellerStaysConsistent == ConnectSpec => []SellerIsConsistent
<1>1. ConnectInv => SellerIsConsistent
  BY DEF ConnectInv, SellerIsConsistent, TellsOneStory, Adding
<1> QED BY <1>1, ConnectInvariance, PTL

-----------------------------------------------------------------------------
(* The pages of the catalogue.                                             *)

\* All services of i's name are on the page, in whatever order a query has them.
OnPage(i, page) == (page - 1) * Limit <= First(i) /\ BehindLast(i) <= page * Limit

\* These services hold all that are on the pages up to this one in any order.
Covers(seen, page) ==
  /\ seen \subseteq listed
  /\ \A i \in listed : \A p \in 1..page : OnPage(i, p) => i \in seen

\* A count that is not older than a change is right.
CountIsRight == count.value # NoCount /\ ~count.old => count.value = Cardinality(listed)

\* A walk during which nothing changed knows how many services there are and has seen
\* those of the pages before its own.
WalkIsRight(r) ==
  ~r.disturbed =>
    /\ r.total # NoCount => r.total = Cardinality(listed)
    /\ r.step \in {"ask", "wait"} => Covers(r.seen, r.page - 1)
    /\ r.step = "wait" /\ r.has =>
         r.got \subseteq listed /\ \A i \in listed : OnPage(i, r.page) => i \in r.got
    /\ r.step = "done" => Covers(r.seen, TotalPages(Cardinality(listed)))

\* What a reader is about to cache is right, unless it is known to be old.
FillIsRight(r) ==
  r.step = "wait" /\ r.total # NoCount /\ ~r.filled /\ ~r.old => r.total = Cardinality(listed)

ReaderFits(r) ==
  /\ r.page \in Nat \ {0}
  /\ r.total \in 0..Cardinality(Items) \cup {NoCount}
  /\ {r.disturbed, r.old, r.filled, r.has} \subseteq BOOLEAN
  /\ r.filled => r.total # NoCount
  /\ r.step = "wait" \/ (~r.has /\ r.total = NoCount)

CatalogueInv ==
  /\ CatalogueTypeOK
  /\ CountIsRight
  /\ \A h \in Readers : ReaderFits(reader[h]) /\ WalkIsRight(reader[h]) /\ FillIsRight(reader[h])

LEMMA ListedIsFinite ==
  ASSUME CatalogueInv
  PROVE  /\ IsFiniteSet(listed) /\ Cardinality(listed) \in Nat
         /\ Cardinality(listed) \in 0..Cardinality(Items)
<1>1. listed \subseteq Items
  BY DEF CatalogueInv, CatalogueTypeOK
<1>2. IsFiniteSet(listed) /\ Cardinality(listed) <= Cardinality(Items)
  BY <1>1, LimitAssumption, FS_Subset
<1>3. Cardinality(listed) \in Nat /\ Cardinality(Items) \in Nat
  BY <1>2, LimitAssumption, FS_CardinalityType
<1> QED BY <1>2, <1>3

\* A service is among those of its name, wherever a query puts it.
LEMMA PlacesFit ==
  ASSUME CatalogueInv, NEW i \in listed
  PROVE  /\ First(i) \in Nat /\ BehindLast(i) \in Nat /\ First(i) < BehindLast(i)
         /\ BehindLast(i) <= Cardinality(listed)
         /\ \A ord \in Orders : /\ Cardinality(Before(i, ord)) \in Nat
                                 /\ First(i) <= Cardinality(Before(i, ord))
                                 /\ Cardinality(Before(i, ord)) < BehindLast(i)
<1> DEFINE less == {j \in listed : Name[j] < Name[i]}
           upTo == {j \in listed : Name[j] <= Name[i]}
<1>1. \A j \in listed : Name[j] \in Nat
  BY LimitAssumption DEF CatalogueInv, CatalogueTypeOK
<1>2. less \subseteq upTo /\ upTo \subseteq listed /\ i \in upTo /\ i \notin less
  BY <1>1
<1>3. /\ IsFiniteSet(upTo) /\ Cardinality(upTo) \in Nat /\ Cardinality(upTo) <= Cardinality(listed)
  BY <1>2, ListedIsFinite, FS_Subset, FS_CardinalityType
<1>4. ASSUME NEW S, less \subseteq S, S \subseteq upTo, i \notin S
      PROVE  /\ Cardinality(S) \in Nat /\ Cardinality(less) <= Cardinality(S)
             /\ Cardinality(S) < Cardinality(upTo)
  <2> HIDE DEF less, upTo
  <2>1. /\ IsFiniteSet(S) /\ Cardinality(S) \in Nat /\ Cardinality(S) <= Cardinality(upTo)
        /\ (Cardinality(upTo) = Cardinality(S) => upTo = S)
    BY <1>3, <1>4, FS_Subset, FS_CardinalityType
  <2>2. Cardinality(S) # Cardinality(upTo)
    BY <1>2, <1>4, <2>1
  <2>3. Cardinality(less) <= Cardinality(S)
    BY <1>4, <2>1, FS_Subset
  <2> QED BY <1>3, <2>1, <2>2, <2>3
<1>5. Cardinality(less) \in Nat /\ Cardinality(less) < Cardinality(upTo)
  BY <1>2, <1>4
<1>6. ASSUME NEW ord \in Orders
      PROVE  /\ Cardinality(Before(i, ord)) \in Nat
             /\ Cardinality(less) <= Cardinality(Before(i, ord))
             /\ Cardinality(Before(i, ord)) < Cardinality(upTo)
  <2>1. less \subseteq Before(i, ord)
    BY DEF Before
  <2>2. Before(i, ord) \subseteq upTo
    BY <1>1 DEF Before
  <2>3. i \notin Before(i, ord)
    <3>1. ord[i] \in 1..Cardinality(Items)
      BY DEF Orders, CatalogueInv, CatalogueTypeOK
    <3>2. ord[i] \in Int /\ Name[i] \in Int
      BY <1>1, <3>1, LimitAssumption, FS_CardinalityType
    <3> QED BY <3>2 DEF Before
  <2> QED BY <1>4, <2>1, <2>2, <2>3
<1> HIDE DEF less, upTo
<1>7. First(i) = Cardinality(less) /\ BehindLast(i) = Cardinality(upTo)
  BY DEF First, BehindLast, less, upTo
<1> QED BY <1>3, <1>5, <1>6, <1>7

\* A query for the page returns what is on it in any ord.
LEMMA PageHolds ==
  ASSUME CatalogueInv, NEW page \in Nat \ {0}, NEW ord \in Orders
  PROVE  /\ PageOf(page, ord) \subseteq listed
         /\ \A i \in listed : OnPage(i, page) => i \in PageOf(page, ord)
<1>1. PageOf(page, ord) \subseteq listed
  BY DEF PageOf
<1>2. ASSUME NEW i \in listed, OnPage(i, page) PROVE i \in PageOf(page, ord)
  <2>1. (page - 1) * Limit \in Int /\ page * Limit \in Int
    BY LimitAssumption
  <2>2. /\ Cardinality(Before(i, ord)) >= (page - 1) * Limit
        /\ Cardinality(Before(i, ord)) < page * Limit
    BY <1>2, <2>1, PlacesFit DEF OnPage
  <2> QED BY <2>2 DEF PageOf
<1> QED BY <1>1, <1>2

\* The last page holds the last service.
LEMMA PagesSuffice ==
  ASSUME NEW total \in Nat, NEW page \in Nat, page >= TotalPages(total)
  PROVE  total <= page * Limit
<1> DEFINE q == TotalPages(total)
<1>1. Limit \in Nat /\ Limit > 0
  BY LimitAssumption
<1>2. q \in Nat /\ total + Limit - 1 < (q + 1) * Limit
  BY <1>1 DEF TotalPages
<1> HIDE DEF q
<1>3. (q + 1) * Limit = q * Limit + Limit
  BY <1>1, <1>2
<1>4. q * Limit <= page * Limit
  BY <1>1, <1>2 DEF q
<1> QED BY <1>1, <1>2, <1>3, <1>4

\* Every page covers what is on it.
LEMMA PagesJoin ==
  ASSUME NEW seen, NEW got, NEW page \in Nat \ {0}, Covers(seen, page - 1),
         got \subseteq listed, \A i \in listed : OnPage(i, page) => i \in got
  PROVE  Covers(seen \cup got, page)
<1>1. \A p \in 1..page : p = page \/ p \in 1..(page - 1)
  OBVIOUS
<1> QED BY <1>1 DEF Covers

LEMMA FewerAreCovered ==
  ASSUME NEW seen, NEW page \in Nat, NEW total \in Int, total <= page, Covers(seen, page)
  PROVE  Covers(seen, total)
<1>1. \A p \in 1..total : p \in 1..page
  OBVIOUS
<1> QED BY <1>1 DEF Covers

\* What a whole walk has not seen has the name of another service, on two pages.
LEMMA WalkSuffices ==
  ASSUME CatalogueInv, NEW seen, Covers(seen, TotalPages(Cardinality(listed))),
         NEW i \in listed, i \notin seen
  PROVE  \E page \in 1..TotalPages(Cardinality(listed)) :
           First(i) < page * Limit /\ page * Limit < BehindLast(i)
<1> DEFINE n == Cardinality(listed)
           q == First(i) \div Limit
           k == q + 1
           t == TotalPages(n)
<1>1. Limit \in Nat /\ Limit > 0 /\ n \in Nat
  BY LimitAssumption, ListedIsFinite
<1>2. First(i) \in Nat /\ BehindLast(i) \in Nat /\ First(i) < BehindLast(i) /\ BehindLast(i) <= n
  BY PlacesFit
<1>3. q \in Nat /\ q * Limit <= First(i) /\ First(i) < (q + 1) * Limit
  BY <1>1, <1>2
<1>4. t \in Nat
  BY <1>1 DEF TotalPages
<1> HIDE DEF n, q, t
<1>5. n <= t * Limit
  BY <1>1, <1>4, PagesSuffice DEF t
<1>6. q < t
  <2> SUFFICES ASSUME t <= q PROVE FALSE
    BY <1>3, <1>4
  <2>1. t * Limit <= q * Limit
    BY <1>1, <1>3, <1>4
  <2> QED BY <1>1, <1>2, <1>3, <1>4, <1>5, <2>1
<1>7. k \in 1..t /\ k - 1 = q
  BY <1>3, <1>4, <1>6
<1>8. ~OnPage(i, k)
  BY <1>7 DEF Covers, t, n
<1>9. k * Limit < BehindLast(i) /\ First(i) < k * Limit
  BY <1>1, <1>2, <1>3, <1>7, <1>8 DEF OnPage
<1> QED BY <1>7, <1>9 DEF t, n

LEMMA IdleReaderFits ==
  /\ IdleReader \in ReaderStates /\ ReaderFits(IdleReader)
  /\ IdleReader.step = "idle" /\ IdleReader.page = 1 /\ IdleReader.total = NoCount
  /\ IdleReader.filled = FALSE /\ IdleReader.has = FALSE /\ IdleReader.seen = {} /\ IdleReader.got = {}
  /\ IdleReader.disturbed = FALSE /\ IdleReader.old = FALSE
BY DEF IdleReader, ReaderStates, ReaderSteps, ReaderFits

LEMMA CatalogueStarts == CatalogueInit => CatalogueInv
<1> SUFFICES ASSUME CatalogueInit PROVE CatalogueInv
  OBVIOUS
<1>1. \A h \in Readers : reader[h] = IdleReader
  BY DEF CatalogueInit
<1>2. reader \in [Readers -> ReaderStates]
  BY IdleReaderFits DEF CatalogueInit
<1>3. count \in [value : 0..Cardinality(Items) \cup {NoCount}, old : BOOLEAN] /\ count.value = NoCount
  BY DEF CatalogueInit, NothingCached
<1>4. \A h \in Readers : ReaderFits(reader[h]) /\ WalkIsRight(reader[h]) /\ FillIsRight(reader[h])
  BY <1>1, IdleReaderFits DEF WalkIsRight, FillIsRight
<1> QED BY <1>2, <1>3, <1>4 DEF CatalogueInv, CatalogueTypeOK, CountIsRight, CatalogueInit

\* A visitor goes on, and perhaps the cache is filled; the list stays.
LEMMA ReaderKeeps ==
  ASSUME CatalogueInv, NEW h \in Readers, NEW r \in ReaderStates, ReaderFits(r), WalkIsRight(r), FillIsRight(r),
         reader' = [reader EXCEPT ![h] = r], UNCHANGED listed,
         count' \in [value : 0..Cardinality(Items) \cup {NoCount}, old : BOOLEAN],
         count'.value # NoCount /\ ~count'.old => count'.value = Cardinality(listed)
  PROVE  CatalogueInv'
<1>1. /\ reader' \in [Readers -> ReaderStates] /\ reader'[h] = r
      /\ \A g \in Readers \ {h} : reader'[g] = reader[g]
  BY DEF CatalogueInv, CatalogueTypeOK
<1>2. CatalogueTypeOK' /\ CountIsRight'
  BY <1>1 DEF CatalogueInv, CatalogueTypeOK, CountIsRight
<1>3. \A g \in Readers : ReaderFits(reader'[g]) /\ WalkIsRight(reader'[g]) /\ FillIsRight(reader'[g])
  BY <1>1 DEF CatalogueInv
<1> QED BY <1>2, <1>3 DEF CatalogueInv, ReaderFits, WalkIsRight, FillIsRight, Covers, OnPage,
         First, BehindLast

LEMMA ReaderAtStep ==
  ASSUME CatalogueInv, NEW h \in Readers
  PROVE  /\ reader[h] \in ReaderStates /\ ReaderFits(reader[h]) /\ WalkIsRight(reader[h])
         /\ FillIsRight(reader[h]) /\ reader \in [Readers -> ReaderStates]
         /\ count \in [value : 0..Cardinality(Items) \cup {NoCount}, old : BOOLEAN] /\ CountIsRight
BY DEF CatalogueInv, CatalogueTypeOK

LEMMA StartWalkKeeps == ASSUME CatalogueInv, NEW h \in Readers, StartWalk(h) PROVE CatalogueInv'
<1> DEFINE r == [IdleReader EXCEPT !.step = "ask"]
<1>1. /\ r \in ReaderStates /\ r.step = "ask" /\ r.page = 1 /\ r.seen = {} /\ r.total = NoCount
      /\ r.has = FALSE /\ ReaderFits(r)
  BY IdleReaderFits DEF ReaderStates, ReaderSteps, ReaderFits
<1>2. reader' = [reader EXCEPT ![h] = r] /\ UNCHANGED <<listed, count>>
  BY DEF StartWalk
<1>3. Covers({}, 0)
  BY DEF Covers
<1> HIDE DEF r
<1>4. WalkIsRight(r) /\ FillIsRight(r)
  BY <1>1, <1>3 DEF WalkIsRight, FillIsRight
<1> QED BY <1>1, <1>2, <1>4, ReaderKeeps, ReaderAtStep DEF CountIsRight

LEMMA AskPageKeeps == ASSUME CatalogueInv, NEW h \in Readers, AskPage(h) PROVE CatalogueInv'
<1> DEFINE v == count.value
           f == (v # NoCount)
           d == (reader[h].disturbed \/ count.old)
           r == [reader[h] EXCEPT !.step = "wait", !.total = v, !.filled = f, !.disturbed = d]
<1>1. /\ reader[h].step = "ask" /\ reader' = [reader EXCEPT ![h] = r] /\ UNCHANGED <<listed, count>>
  BY ReaderAtStep DEF AskPage
<1>2. /\ v \in 0..Cardinality(Items) \cup {NoCount} /\ f \in BOOLEAN /\ d \in BOOLEAN /\ (f => v # NoCount)
      /\ ~d => ~reader[h].disturbed /\ (v # NoCount => v = Cardinality(listed))
  <2>1. v \in 0..Cardinality(Items) \cup {NoCount} /\ count.old \in BOOLEAN
    BY ReaderAtStep
  <2>2. ~count.old /\ v # NoCount => v = Cardinality(listed)
    BY ReaderAtStep DEF CountIsRight
  <2> HIDE DEF v
  <2> QED BY <2>1, <2>2
<1>3. /\ reader[h] \in ReaderStates /\ ReaderFits(reader[h]) /\ WalkIsRight(reader[h])
      /\ v \in Nat \cup {NoCount}
  BY <1>2, ReaderAtStep
<1> HIDE DEF v, f, d
<1>4. /\ r \in ReaderStates /\ r.step = "wait" /\ r.total = v /\ r.filled = f /\ r.disturbed = d
      /\ r.page = reader[h].page /\ r.seen = reader[h].seen /\ r.has = reader[h].has /\ r.old = reader[h].old
  BY <1>2, <1>3 DEF ReaderStates, ReaderSteps
<1>5. reader[h].has = FALSE
  BY <1>1, <1>3 DEF ReaderFits
<1> HIDE DEF r
<1>6. ReaderFits(r)
  BY <1>2, <1>3, <1>4 DEF ReaderFits
<1>7. WalkIsRight(r)
  BY <1>1, <1>2, <1>3, <1>4, <1>5 DEF WalkIsRight
<1>8. FillIsRight(r)
  BY <1>4 DEF FillIsRight, f
<1> QED BY <1>1, <1>4, <1>6, <1>7, <1>8, ReaderKeeps, ReaderAtStep DEF CountIsRight

LEMMA ReadPageKeeps == ASSUME CatalogueInv, NEW h \in Readers, ReadPage(h) PROVE CatalogueInv'
<1> PICK ord \in Orders :
      reader' = [reader EXCEPT ![h].has = TRUE, ![h].got = PageOf(reader[h].page, ord)]
  BY DEF ReadPage
<1> DEFINE p == PageOf(reader[h].page, ord)
           r == [reader[h] EXCEPT !.has = TRUE, !.got = p]
<1>1. /\ reader[h].step = "wait" /\ reader' = [reader EXCEPT ![h] = r] /\ UNCHANGED <<listed, count>>
  BY ReaderAtStep DEF ReadPage
<1>2. p \in SUBSET Items
  BY DEF CatalogueInv, CatalogueTypeOK, PageOf
<1>8. p \subseteq listed /\ \A i \in listed : OnPage(i, reader[h].page) => i \in p
  BY ReaderAtStep, PageHolds DEF ReaderFits
<1>3. /\ reader[h] \in ReaderStates /\ ReaderFits(reader[h]) /\ WalkIsRight(reader[h])
      /\ FillIsRight(reader[h])
  BY ReaderAtStep
<1> HIDE DEF p
<1>4. /\ r \in ReaderStates /\ r.step = "wait" /\ r.has = TRUE /\ r.got = p
      /\ r.total = reader[h].total /\ r.filled = reader[h].filled /\ r.disturbed = reader[h].disturbed
      /\ r.page = reader[h].page /\ r.seen = reader[h].seen /\ r.old = reader[h].old
  BY <1>1, <1>2, <1>3 DEF ReaderStates
<1> HIDE DEF r
<1>5. ReaderFits(r)
  BY <1>1, <1>3, <1>4 DEF ReaderFits
<1>6. WalkIsRight(r)
  BY <1>1, <1>3, <1>4, <1>8 DEF WalkIsRight
<1>7. FillIsRight(r)
  BY <1>1, <1>3, <1>4 DEF FillIsRight
<1> QED BY <1>1, <1>4, <1>5, <1>6, <1>7, ReaderKeeps, ReaderAtStep DEF CountIsRight

LEMMA CountItemsKeeps == ASSUME CatalogueInv, NEW h \in Readers, CountItems(h) PROVE CatalogueInv'
<1> DEFINE n == Cardinality(listed)
           r == [reader[h] EXCEPT !.total = n, !.old = FALSE]
<1>1. /\ reader[h].step = "wait" /\ reader[h].total = NoCount
      /\ reader' = [reader EXCEPT ![h] = r] /\ UNCHANGED <<listed, count>>
  BY ReaderAtStep DEF CountItems
<1>2. n \in Nat /\ n \in 0..Cardinality(Items)
  BY ListedIsFinite
<1>3. /\ reader[h] \in ReaderStates /\ ReaderFits(reader[h]) /\ WalkIsRight(reader[h])
  BY ReaderAtStep
<1> HIDE DEF n
<1>4. /\ r \in ReaderStates /\ r.step = "wait" /\ r.total = n /\ r.old = FALSE
      /\ r.has = reader[h].has /\ r.got = reader[h].got
      /\ r.filled = reader[h].filled /\ r.disturbed = reader[h].disturbed
      /\ r.page = reader[h].page /\ r.seen = reader[h].seen
  BY <1>1, <1>2, <1>3 DEF ReaderStates
<1>5. r.filled = FALSE
  BY <1>1, <1>3, <1>4 DEF ReaderFits
<1> HIDE DEF r
<1>6. ReaderFits(r)
  BY <1>1, <1>2, <1>3, <1>4, <1>5 DEF ReaderFits
<1>7. WalkIsRight(r)
  BY <1>1, <1>3, <1>4 DEF WalkIsRight, n
<1>8. FillIsRight(r)
  BY <1>4 DEF FillIsRight, n
<1> QED BY <1>1, <1>4, <1>6, <1>7, <1>8, ReaderKeeps, ReaderAtStep DEF CountIsRight

LEMMA FillCountKeeps == ASSUME CatalogueInv, NEW h \in Readers, FillCount(h) PROVE CatalogueInv'
<1> DEFINE r == [reader[h] EXCEPT !.filled = TRUE]
<1>1. /\ reader[h].step = "wait" /\ reader[h].total # NoCount /\ ~reader[h].filled
      /\ reader' = [reader EXCEPT ![h] = r] /\ UNCHANGED listed
      /\ count' = [value |-> reader[h].total, old |-> reader[h].old]
  BY ReaderAtStep DEF FillCount
<1>2. /\ reader[h] \in ReaderStates /\ ReaderFits(reader[h]) /\ WalkIsRight(reader[h])
      /\ FillIsRight(reader[h])
  BY ReaderAtStep
<1>3. /\ r \in ReaderStates /\ r.step = "wait" /\ r.filled = TRUE /\ r.got = reader[h].got
      /\ r.total = reader[h].total /\ r.has = reader[h].has /\ r.disturbed = reader[h].disturbed
      /\ r.page = reader[h].page /\ r.seen = reader[h].seen /\ r.old = reader[h].old
  BY <1>1, <1>2 DEF ReaderStates
<1> HIDE DEF r
<1>4. ReaderFits(r) /\ FillIsRight(r)
  BY <1>1, <1>2, <1>3 DEF ReaderFits, FillIsRight
<1>5. WalkIsRight(r)
  BY <1>1, <1>2, <1>3 DEF WalkIsRight
<1>6. /\ count' \in [value : 0..Cardinality(Items) \cup {NoCount}, old : BOOLEAN]
      /\ count'.value # NoCount /\ ~count'.old => count'.value = Cardinality(listed)
  BY <1>1, <1>2 DEF ReaderFits, FillIsRight
<1> QED BY <1>1, <1>3, <1>4, <1>5, <1>6, ReaderKeeps

\* The next page, or the end of the list.
LEMMA TurnPageKeeps == ASSUME CatalogueInv, NEW h \in Readers, TurnPage(h) PROVE CatalogueInv'
<1> DEFINE o == reader[h]
           seen == o.seen \cup o.got
           next == [IdleReader EXCEPT !.seen = seen, !.disturbed = o.disturbed]
           on == [next EXCEPT !.step = "ask", !.page = o.page + 1]
           end == [next EXCEPT !.step = "done"]
<1>1. /\ o.step = "wait" /\ o.has /\ o.filled /\ UNCHANGED <<listed, count>>
      /\ reader' = [reader EXCEPT ![h] = IF o.page < TotalPages(o.total) THEN on ELSE end]
  BY ReaderAtStep DEF TurnPage
<1>2. /\ o \in ReaderStates /\ ReaderFits(o) /\ WalkIsRight(o)
  BY ReaderAtStep
<1>3. seen \in SUBSET Items /\ o.page \in Nat \ {0} /\ o.page + 1 \in Nat \ {0} /\ o.disturbed \in BOOLEAN
  BY <1>2 DEF ReaderStates, ReaderFits
<1>4. ~o.disturbed => /\ Covers(seen, o.page) /\ o.total = Cardinality(listed)
                      /\ o.page >= TotalPages(o.total) => Covers(seen, TotalPages(o.total))
  <2> HIDE DEF o
  <2>1. ~o.disturbed =>
          /\ o.total = Cardinality(listed) /\ Covers(o.seen, o.page - 1)
          /\ o.got \subseteq listed /\ \A i \in listed : OnPage(i, o.page) => i \in o.got
    BY <1>1, <1>2 DEF WalkIsRight, ReaderFits
  <2>2. ~o.disturbed => Covers(seen, o.page)
    BY <1>3, <2>1, PagesJoin
  <2>3. TotalPages(Cardinality(listed)) \in Int
    BY ListedIsFinite, LimitAssumption DEF TotalPages
  <2> QED BY <1>3, <2>1, <2>2, <2>3, FewerAreCovered
<1> HIDE DEF o, seen
<1>5. /\ next \in ReaderStates /\ next.seen = seen /\ next.disturbed = o.disturbed /\ next.total = NoCount
      /\ next.filled = FALSE /\ next.has = FALSE /\ next.page = 1 /\ next.old = FALSE
  BY <1>3, IdleReaderFits DEF ReaderStates
<1> HIDE DEF next
<1>6. /\ on \in ReaderStates /\ on.seen = seen /\ on.disturbed = o.disturbed /\ on.total = NoCount
      /\ on.filled = FALSE /\ on.has = FALSE /\ on.page = o.page + 1 /\ on.step = "ask" /\ on.old = FALSE
  BY <1>3, <1>5 DEF ReaderStates, ReaderSteps
<1>7. /\ end \in ReaderStates /\ end.seen = seen /\ end.disturbed = o.disturbed /\ end.total = NoCount
      /\ end.filled = FALSE /\ end.has = FALSE /\ end.page = 1 /\ end.step = "done" /\ end.old = FALSE
  BY <1>3, <1>5 DEF ReaderStates, ReaderSteps
<1> HIDE DEF on, end
<1>8. CASE o.page < TotalPages(o.total)
  <2>1. ReaderFits(on) /\ FillIsRight(on)
    BY <1>3, <1>6 DEF ReaderFits, FillIsRight
  <2>2. WalkIsRight(on)
    <3>1. on.page - 1 = o.page
      BY <1>3, <1>6
    <3> QED BY <1>4, <1>6, <3>1 DEF WalkIsRight
  <2> QED BY <1>1, <1>6, <1>8, <2>1, <2>2, ReaderKeeps, ReaderAtStep DEF CountIsRight
<1>9. CASE ~(o.page < TotalPages(o.total))
  <2>1. ReaderFits(end) /\ FillIsRight(end)
    <3>1. end.page \in Nat \ {0}
      BY <1>7
    <3> QED BY <1>3, <1>7, <3>1 DEF ReaderFits, FillIsRight
  <2>2. ~o.disturbed => o.page >= TotalPages(o.total)
    <3>1. ~o.disturbed => TotalPages(o.total) \in Int
      BY <1>4, ListedIsFinite, LimitAssumption DEF TotalPages
    <3> QED BY <1>3, <1>9, <3>1
  <2>3. WalkIsRight(end)
    BY <1>4, <1>7, <2>2 DEF WalkIsRight
  <2> QED BY <1>1, <1>7, <1>9, <2>1, <2>3, ReaderKeeps, ReaderAtStep DEF CountIsRight
<1> QED BY <1>8, <1>9

\* A write to the list disturbs every walk there is.
LEMMA ChangeItemsKeeps ==
  ASSUME CatalogueInv, NEW items \in SUBSET Items, ChangeItems(items) PROVE CatalogueInv'
<1>1. /\ count' \in [value : 0..Cardinality(Items) \cup {NoCount}, old : BOOLEAN]
      /\ count'.value = NoCount \/ count'.old
  <2>1. count \in [value : 0..Cardinality(Items) \cup {NoCount}, old : BOOLEAN]
    BY DEF CatalogueInv, CatalogueTypeOK
  <2> QED BY <2>1 DEF ChangeItems
<1>2. ASSUME NEW h \in Readers
      PROVE  /\ reader'[h] \in ReaderStates /\ ReaderFits(reader'[h])
             /\ reader'[h].step = "idle" \/ reader'[h].disturbed
             /\ reader'[h].step = "wait" /\ reader'[h].total # NoCount /\ ~reader'[h].filled => reader'[h].old
  <2> DEFINE o == (reader[h].total # NoCount /\ ~reader[h].filled)
             r == [reader[h] EXCEPT !.disturbed = TRUE, !.old = o]
  <2>1. reader[h] \in ReaderStates /\ ReaderFits(reader[h])
    BY ReaderAtStep
  <2>2. CASE reader[h].step \in {"ask", "wait", "done"}
    <3>1. reader'[h] = r /\ o \in BOOLEAN
      BY <2>2 DEF ChangeItems
    <3>2. o <=> (reader[h].total # NoCount /\ ~reader[h].filled)
      OBVIOUS
    <3> HIDE DEF o
    <3>3. /\ r \in ReaderStates /\ r.disturbed = TRUE /\ r.old = o /\ r.step = reader[h].step
          /\ r.total = reader[h].total /\ r.filled = reader[h].filled /\ r.has = reader[h].has
          /\ r.page = reader[h].page
      BY <2>1, <3>1 DEF ReaderStates
    <3> HIDE DEF r
    <3>4. ReaderFits(r)
      BY <2>1, <3>1, <3>3 DEF ReaderFits
    <3> QED BY <3>1, <3>2, <3>3, <3>4
  <2>3. CASE reader[h].step \notin {"ask", "wait", "done"}
    BY <2>1, <2>3 DEF ChangeItems, ReaderStates, ReaderSteps
  <2> QED BY <2>2, <2>3
<1>3. reader' \in [Readers -> ReaderStates]
  BY <1>2 DEF ChangeItems
<1>4. \A h \in Readers : WalkIsRight(reader[h])' /\ FillIsRight(reader[h])'
  BY <1>2 DEF WalkIsRight, FillIsRight, ReaderFits
<1>5. \A h \in Readers : ReaderFits(reader[h])'
  BY <1>2 DEF ReaderFits
<1> QED BY <1>1, <1>3, <1>4, <1>5 DEF ChangeItems, CatalogueInv, CatalogueTypeOK, CountIsRight

LEMMA CatalogueSteps == CatalogueInv /\ [CatalogueNext]_catalogueVars => CatalogueInv'
<1> SUFFICES ASSUME CatalogueInv, [CatalogueNext]_catalogueVars PROVE CatalogueInv'
  OBVIOUS
<1>1. CASE CountExpires
  <2>1. /\ count' \in [value : 0..Cardinality(Items) \cup {NoCount}, old : BOOLEAN]
        /\ count'.value = NoCount /\ UNCHANGED <<listed, reader>>
    BY <1>1 DEF CountExpires, NothingCached
  <2> QED BY <2>1 DEF CatalogueInv, CatalogueTypeOK, CountIsRight, ReaderFits, WalkIsRight, FillIsRight,
                      Covers, OnPage, First, BehindLast
<1>2. CASE AddService \/ RemoveService
  <2>1. PICK items \in SUBSET Items : ChangeItems(items)
    BY <1>2 DEF AddService, RemoveService, CatalogueInv, CatalogueTypeOK
  <2> QED BY <2>1, ChangeItemsKeeps
<1>3. ASSUME NEW h \in Readers,
             StartWalk(h) \/ AskPage(h) \/ ReadPage(h) \/ CountItems(h) \/ FillCount(h) \/ TurnPage(h)
      PROVE  CatalogueInv'
  BY <1>3, StartWalkKeeps, AskPageKeeps, ReadPageKeeps, CountItemsKeeps, FillCountKeeps, TurnPageKeeps
<1>4. CASE UNCHANGED catalogueVars
  BY <1>4 DEF catalogueVars, CatalogueInv, CatalogueTypeOK, CountIsRight, ReaderFits, WalkIsRight,
              FillIsRight, Covers, OnPage, First, BehindLast
<1> QED BY <1>1, <1>2, <1>3, <1>4 DEF CatalogueNext

LEMMA CatalogueInvariance == CatalogueSpec => []CatalogueInv
<1> QED BY CatalogueStarts, CatalogueSteps, PTL DEF CatalogueSpec

LEMMA WalkStaysComplete == CatalogueSpec => []WalkIsComplete
<1>1. CatalogueInv => WalkIsComplete
  BY WalkSuffices DEF CatalogueInv, WalkIsRight, WalkIsComplete, Covers
<1> QED BY <1>1, CatalogueInvariance, PTL

-----------------------------------------------------------------------------
(* Pictures.                                                               *)

Holds(plan, step) == \E i \in 1..Len(plan) : plan[i] = step

\* Steps that write what the route has read or uploaded, or read anew.
BeforeDeletion == {"read", "push", "append", "send back", "remove"}

\* What all plans have in common: a deletion comes behind the reading and in front of a
\* write, a write of the main picture belongs to a route for it, and so on.
Suits(plan, wants) ==
  /\ plan \in Seq(PlanSteps)
  /\ \A i \in 1..Len(plan) : plan[i] = "remove" =>
       \A j \in 1..Len(plan) : i < j => plan[j] \notin BeforeDeletion
  /\ \A i \in 1..Len(plan) : plan[i] \in {"read", "upload", "remove"} => i # Len(plan)
  /\ \A i \in 1..Len(plan) : plan[i] \in {"push", "append"} => i = Len(plan)
  /\ Holds(plan, "set main") \/ Holds(plan, "clear main") => wants = "main"
  /\ Holds(plan, "splice") => wants = "one"

\* A plan as a route begins it: what is pushed or appended is uploaded before.
IsRoute(plan, wants) ==
  /\ Suits(plan, wants)
  /\ Holds(plan, "push") \/ Holds(plan, "append") => Holds(plan, "upload")

LEMMA PlansSuit ==
  /\ IsRoute(<<"read", "upload", "remove", "set main">>, "main")
  /\ IsRoute(<<"read", "upload", "push">>, "main")
  /\ IsRoute(<<"read", "send back">>, "main")
  /\ IsRoute(<<"erase">>, "main")
  /\ IsRoute(<<"read", "remove", "upload", "set main">>, "main")
  /\ IsRoute(<<"read", "erase">>, "main")
  /\ IsRoute(<<"read", "upload", "append">>, "main")
  /\ IsRoute(<<"read", "remove", "splice">>, "one")
  /\ IsRoute(<<"read", "remove", "erase">>, "all")
  /\ IsRoute(<<"read", "remove", "erase">>, "main")
  /\ IsRoute(<<"upload", "read", "remove", "set main">>, "main")
  /\ IsRoute(<<"read", "remove", "clear main">>, "main")
<1>1. IsRoute(<<"read", "upload", "remove", "set main">>, "main")
  <2> DEFINE p == <<"read", "upload", "remove", "set main">>
  <2>1. /\ p \in Seq(PlanSteps) /\ Len(p) = 4
        /\ p[1] = "read" /\ p[2] = "upload" /\ p[3] = "remove" /\ p[4] = "set main"
    BY DEF PlanSteps
  <2>2. 1..4 = {1, 2, 3, 4}
    OBVIOUS
  <2> HIDE DEF p
  <2>3. \A i \in 1..Len(p) : p[i] = "remove" => i = 3
    BY <2>1, <2>2
  <2>4. \A j \in 1..Len(p) : 3 < j => p[j] \notin BeforeDeletion
    <3>1. \A j \in 1..4 : 3 < j => j = 4
      OBVIOUS
    <3> QED BY <2>1, <3>1 DEF BeforeDeletion
  <2>5. Suits(p, "main")
    BY <2>1, <2>2, <2>3, <2>4 DEF Suits, Holds
  <2>6. ~Holds(p, "push") /\ ~Holds(p, "append")
    BY <2>1, <2>2 DEF Holds
  <2> QED BY <2>5, <2>6 DEF p, IsRoute
<1>2. IsRoute(<<"read", "upload", "push">>, "main")
  <2> DEFINE p == <<"read", "upload", "push">>
  <2>1. /\ p \in Seq(PlanSteps) /\ Len(p) = 3
        /\ p[1] = "read" /\ p[2] = "upload" /\ p[3] = "push"
    BY DEF PlanSteps
  <2>2. 1..3 = {1, 2, 3}
    OBVIOUS
  <2> HIDE DEF p
  <2>5. Suits(p, "main")
    BY <2>1, <2>2 DEF Suits, Holds, BeforeDeletion
  <2>6. Holds(p, "upload")
    <3>1. 2 \in 1..Len(p)
      BY <2>1
    <3> QED BY <2>1, <3>1 DEF Holds
  <2> QED BY <2>5, <2>6 DEF p, IsRoute
<1>3. IsRoute(<<"read", "send back">>, "main")
  <2> DEFINE p == <<"read", "send back">>
  <2>1. /\ p \in Seq(PlanSteps) /\ Len(p) = 2
        /\ p[1] = "read" /\ p[2] = "send back"
    BY DEF PlanSteps
  <2>2. 1..2 = {1, 2}
    OBVIOUS
  <2> HIDE DEF p
  <2>5. Suits(p, "main")
    BY <2>1, <2>2 DEF Suits, Holds, BeforeDeletion
  <2>6. ~Holds(p, "push") /\ ~Holds(p, "append")
    BY <2>1, <2>2 DEF Holds
  <2> QED BY <2>5, <2>6 DEF p, IsRoute
<1>4. IsRoute(<<"erase">>, "main")
  <2> DEFINE p == <<"erase">>
  <2>1. /\ p \in Seq(PlanSteps) /\ Len(p) = 1
        /\ p[1] = "erase"
    BY DEF PlanSteps
  <2>2. 1..1 = {1}
    OBVIOUS
  <2> HIDE DEF p
  <2>5. Suits(p, "main")
    BY <2>1, <2>2 DEF Suits, Holds, BeforeDeletion
  <2>6. ~Holds(p, "push") /\ ~Holds(p, "append")
    BY <2>1, <2>2 DEF Holds
  <2> QED BY <2>5, <2>6 DEF p, IsRoute
<1>5. IsRoute(<<"read", "remove", "upload", "set main">>, "main")
  <2> DEFINE p == <<"read", "remove", "upload", "set main">>
  <2>1. /\ p \in Seq(PlanSteps) /\ Len(p) = 4
        /\ p[1] = "read" /\ p[2] = "remove" /\ p[3] = "upload" /\ p[4] = "set main"
    BY DEF PlanSteps
  <2>2. 1..4 = {1, 2, 3, 4}
    OBVIOUS
  <2> HIDE DEF p
  <2>3. \A i \in 1..Len(p) : p[i] = "remove" => i = 2
    BY <2>1, <2>2
  <2>4. \A j \in 1..Len(p) : 2 < j => p[j] \notin BeforeDeletion
    <3>1. \A j \in 1..4 : 2 < j => j = 3 \/ j = 4
      OBVIOUS
    <3> QED BY <2>1, <3>1 DEF BeforeDeletion
  <2>5. Suits(p, "main")
    BY <2>1, <2>2, <2>3, <2>4 DEF Suits, Holds
  <2>6. ~Holds(p, "push") /\ ~Holds(p, "append")
    BY <2>1, <2>2 DEF Holds
  <2> QED BY <2>5, <2>6 DEF p, IsRoute
<1>6. IsRoute(<<"read", "erase">>, "main")
  <2> DEFINE p == <<"read", "erase">>
  <2>1. /\ p \in Seq(PlanSteps) /\ Len(p) = 2
        /\ p[1] = "read" /\ p[2] = "erase"
    BY DEF PlanSteps
  <2>2. 1..2 = {1, 2}
    OBVIOUS
  <2> HIDE DEF p
  <2>5. Suits(p, "main")
    BY <2>1, <2>2 DEF Suits, Holds, BeforeDeletion
  <2>6. ~Holds(p, "push") /\ ~Holds(p, "append")
    BY <2>1, <2>2 DEF Holds
  <2> QED BY <2>5, <2>6 DEF p, IsRoute
<1>7. IsRoute(<<"read", "upload", "append">>, "main")
  <2> DEFINE p == <<"read", "upload", "append">>
  <2>1. /\ p \in Seq(PlanSteps) /\ Len(p) = 3
        /\ p[1] = "read" /\ p[2] = "upload" /\ p[3] = "append"
    BY DEF PlanSteps
  <2>2. 1..3 = {1, 2, 3}
    OBVIOUS
  <2> HIDE DEF p
  <2>5. Suits(p, "main")
    BY <2>1, <2>2 DEF Suits, Holds, BeforeDeletion
  <2>6. Holds(p, "upload")
    <3>1. 2 \in 1..Len(p)
      BY <2>1
    <3> QED BY <2>1, <3>1 DEF Holds
  <2> QED BY <2>5, <2>6 DEF p, IsRoute
<1>8. IsRoute(<<"read", "remove", "splice">>, "one")
  <2> DEFINE p == <<"read", "remove", "splice">>
  <2>1. /\ p \in Seq(PlanSteps) /\ Len(p) = 3
        /\ p[1] = "read" /\ p[2] = "remove" /\ p[3] = "splice"
    BY DEF PlanSteps
  <2>2. 1..3 = {1, 2, 3}
    OBVIOUS
  <2> HIDE DEF p
  <2>3. \A i \in 1..Len(p) : p[i] = "remove" => i = 2
    BY <2>1, <2>2
  <2>4. \A j \in 1..Len(p) : 2 < j => p[j] \notin BeforeDeletion
    <3>1. \A j \in 1..3 : 2 < j => j = 3
      OBVIOUS
    <3> QED BY <2>1, <3>1 DEF BeforeDeletion
  <2>5. Suits(p, "one")
    BY <2>1, <2>2, <2>3, <2>4 DEF Suits, Holds
  <2>6. ~Holds(p, "push") /\ ~Holds(p, "append")
    BY <2>1, <2>2 DEF Holds
  <2> QED BY <2>5, <2>6 DEF p, IsRoute
<1>9. IsRoute(<<"read", "remove", "erase">>, "all") /\ IsRoute(<<"read", "remove", "erase">>, "main")
  <2> DEFINE p == <<"read", "remove", "erase">>
  <2>1. /\ p \in Seq(PlanSteps) /\ Len(p) = 3
        /\ p[1] = "read" /\ p[2] = "remove" /\ p[3] = "erase"
    BY DEF PlanSteps
  <2>2. 1..3 = {1, 2, 3}
    OBVIOUS
  <2> HIDE DEF p
  <2>3. \A i \in 1..Len(p) : p[i] = "remove" => i = 2
    BY <2>1, <2>2
  <2>4. \A j \in 1..Len(p) : 2 < j => p[j] \notin BeforeDeletion
    <3>1. \A j \in 1..3 : 2 < j => j = 3
      OBVIOUS
    <3> QED BY <2>1, <3>1 DEF BeforeDeletion
  <2>5. Suits(p, "all") /\ Suits(p, "main")
    BY <2>1, <2>2, <2>3, <2>4 DEF Suits, Holds
  <2>6. ~Holds(p, "push") /\ ~Holds(p, "append")
    BY <2>1, <2>2 DEF Holds
  <2> QED BY <2>5, <2>6 DEF p, IsRoute
<1>10. IsRoute(<<"upload", "read", "remove", "set main">>, "main")
  <2> DEFINE p == <<"upload", "read", "remove", "set main">>
  <2>1. /\ p \in Seq(PlanSteps) /\ Len(p) = 4
        /\ p[1] = "upload" /\ p[2] = "read" /\ p[3] = "remove" /\ p[4] = "set main"
    BY DEF PlanSteps
  <2>2. 1..4 = {1, 2, 3, 4}
    OBVIOUS
  <2> HIDE DEF p
  <2>3. \A i \in 1..Len(p) : p[i] = "remove" => i = 3
    BY <2>1, <2>2
  <2>4. \A j \in 1..Len(p) : 3 < j => p[j] \notin BeforeDeletion
    <3>1. \A j \in 1..4 : 3 < j => j = 4
      OBVIOUS
    <3> QED BY <2>1, <3>1 DEF BeforeDeletion
  <2>5. Suits(p, "main")
    BY <2>1, <2>2, <2>3, <2>4 DEF Suits, Holds
  <2>6. ~Holds(p, "push") /\ ~Holds(p, "append")
    BY <2>1, <2>2 DEF Holds
  <2> QED BY <2>5, <2>6 DEF p, IsRoute
<1>11. IsRoute(<<"read", "remove", "clear main">>, "main")
  <2> DEFINE p == <<"read", "remove", "clear main">>
  <2>1. /\ p \in Seq(PlanSteps) /\ Len(p) = 3
        /\ p[1] = "read" /\ p[2] = "remove" /\ p[3] = "clear main"
    BY DEF PlanSteps
  <2>2. 1..3 = {1, 2, 3}
    OBVIOUS
  <2> HIDE DEF p
  <2>3. \A i \in 1..Len(p) : p[i] = "remove" => i = 2
    BY <2>1, <2>2
  <2>4. \A j \in 1..Len(p) : 2 < j => p[j] \notin BeforeDeletion
    <3>1. \A j \in 1..3 : 2 < j => j = 3
      OBVIOUS
    <3> QED BY <2>1, <3>1 DEF BeforeDeletion
  <2>5. Suits(p, "main")
    BY <2>1, <2>2, <2>3, <2>4 DEF Suits, Holds
  <2>6. ~Holds(p, "push") /\ ~Holds(p, "append")
    BY <2>1, <2>2 DEF Holds
  <2> QED BY <2>5, <2>6 DEF p, IsRoute
<1> QED BY <1>1, <1>2, <1>3, <1>4, <1>5, <1>6, <1>7, <1>8, <1>9, <1>10, <1>11

\* The first step of a plan is taken.
LEMMA PlanShrinks ==
  ASSUME NEW plan, NEW wants, Suits(plan, wants), plan # <<>>
  PROVE  /\ Tail(plan) \in Seq(PlanSteps) /\ Len(Tail(plan)) = Len(plan) - 1 /\ Len(plan) \in Nat \ {0}
         /\ \A i \in 1..Len(Tail(plan)) : i + 1 \in 1..Len(plan) /\ Tail(plan)[i] = plan[i + 1]
         /\ \A step : Holds(Tail(plan), step) => Holds(plan, step)
         /\ Suits(Tail(plan), wants)
         /\ Head(plan) = plan[1] /\ 1 \in 1..Len(plan)
         /\ Head(plan) \in {"read", "upload", "remove"} => Tail(plan) # <<>>
         /\ Head(plan) = "remove" => \A step \in BeforeDeletion : ~Holds(Tail(plan), step)
<1> DEFINE t == Tail(plan)
<1>1. plan \in Seq(PlanSteps)
  BY DEF Suits
<1>2. /\ t \in Seq(PlanSteps) /\ Len(t) = Len(plan) - 1 /\ Len(plan) \in Nat \ {0}
      /\ \A i \in 1..Len(t) : t[i] = plan[i + 1]
      /\ Head(plan) = plan[1]
  BY <1>1
<1> HIDE DEF t
<1>3. \A i \in 1..Len(t) : i + 1 \in 1..Len(plan) /\ t[i] = plan[i + 1]
  BY <1>2
<1>4. \A step : Holds(t, step) => Holds(plan, step)
  BY <1>3 DEF Holds
<1>5. \A i \in 1..Len(t) : t[i] = "remove" =>
        \A j \in 1..Len(t) : i < j => t[j] \notin BeforeDeletion
  <2> SUFFICES ASSUME NEW i \in 1..Len(t), t[i] = "remove", NEW j \in 1..Len(t), i < j
               PROVE  t[j] \notin BeforeDeletion
    OBVIOUS
  <2>1. plan[i + 1] = "remove" /\ i + 1 < j + 1 /\ t[j] = plan[j + 1]
        /\ i + 1 \in 1..Len(plan) /\ j + 1 \in 1..Len(plan)
    BY <1>3
  <2> QED BY <2>1 DEF Suits
<1>6. \A i \in 1..Len(t) : t[i] \in {"read", "upload", "remove"} => i # Len(t)
  <2> SUFFICES ASSUME NEW i \in 1..Len(t), t[i] \in {"read", "upload", "remove"} PROVE i # Len(t)
    OBVIOUS
  <2>1. i + 1 \in 1..Len(plan) /\ plan[i + 1] \in {"read", "upload", "remove"}
    BY <1>3
  <2>2. i + 1 # Len(plan)
    BY <2>1 DEF Suits
  <2> QED BY <1>2, <2>2
<1>7. Suits(t, wants)
  <2>1. \A i \in 1..Len(t) : t[i] \in {"push", "append"} => i = Len(t)
    <3> SUFFICES ASSUME NEW i \in 1..Len(t), t[i] \in {"push", "append"} PROVE i = Len(t)
      OBVIOUS
    <3>1. i + 1 \in 1..Len(plan) /\ plan[i + 1] \in {"push", "append"}
      BY <1>3
    <3>2. i + 1 = Len(plan)
      BY <3>1 DEF Suits
    <3> QED BY <1>2, <3>2
  <2> QED BY <1>2, <1>4, <1>5, <1>6, <2>1 DEF Suits
<1>8. 1 \in 1..Len(plan)
  BY <1>2
<1>9. Head(plan) \in {"read", "upload", "remove"} => t # <<>>
  <2>1. Head(plan) \in {"read", "upload", "remove"} => 1 # Len(plan)
    BY <1>2, <1>8 DEF Suits
  <2> QED BY <1>2, <2>1
<1>10. Head(plan) = "remove" => \A step \in BeforeDeletion : ~Holds(t, step)
  <2> SUFFICES ASSUME plan[1] = "remove", NEW i \in 1..Len(t) PROVE t[i] \notin BeforeDeletion
    BY <1>2 DEF Holds
  <2>1. i + 1 \in 1..Len(plan) /\ t[i] = plan[i + 1] /\ 1 < i + 1
    BY <1>3
  <2> QED BY <1>8, <2>1 DEF Suits
<1> QED BY <1>2, <1>3, <1>4, <1>7, <1>8, <1>9, <1>10 DEF t

\* An upload that is still to come is not the first step.
LEMMA UploadIsLater ==
  ASSUME NEW plan, NEW wants, Suits(plan, wants), plan # <<>>, Head(plan) # "upload",
         Holds(plan, "upload")
  PROVE  Holds(Tail(plan), "upload")
<1>1. PICK i \in 1..Len(plan) : plan[i] = "upload"
  BY DEF Holds
<1>2. /\ Head(plan) = plan[1] /\ Len(Tail(plan)) = Len(plan) - 1 /\ Len(plan) \in Nat \ {0}
      /\ \A j \in 1..Len(Tail(plan)) : Tail(plan)[j] = plan[j + 1]
  BY PlanShrinks
<1>3. i - 1 \in 1..Len(Tail(plan)) /\ (i - 1) + 1 = i
  BY <1>1, <1>2
<1> QED BY <1>1, <1>2, <1>3 DEF Holds

\* What a request deletes is of the document it has read, of the part it is for, and
\* before the write it ends with.
EditorFits(e) ==
  /\ Suits(e.plan, e.wants)
  /\ e.gone # {} => /\ e.plan # <<>>
                    /\ \A step \in {"read", "push", "append", "send back"} : ~Holds(e.plan, step)
  /\ e.doomed \cup e.gone \subseteq {e.copy.main} \cup e.copy.gallery
  /\ e.wants = "main" => e.doomed \cup e.gone \subseteq {e.copy.main}
  /\ e.wants = "one" => e.doomed \cup e.gone \subseteq e.copy.gallery
  /\ e.plan = <<>> => ~e.current

\* The steps that are left are those of a plan.
LEMMA LeftSuits ==
  ASSUME NEW e \in EditorStates, EditorFits(e), StepsLeft(e) # <<>>
  PROVE  /\ Suits(StepsLeft(e), e.wants) /\ e.plan # <<>>
         /\ \A step : Holds(StepsLeft(e), step) => Holds(e.plan, step)
         /\ Holds(StepsLeft(e), Head(StepsLeft(e)))
         /\ Head(StepsLeft(e)) = "remove" /\ e.doomed # {} => StepsLeft(e) = e.plan
<1>1. Suits(e.plan, e.wants)
  BY DEF EditorFits
<1>2. CASE e.plan # <<>> /\ Head(e.plan) = "remove" /\ e.doomed = {}
  <2>1. StepsLeft(e) = Tail(e.plan)
    BY <1>2 DEF StepsLeft
  <2>2. Suits(Tail(e.plan), e.wants) /\ \A step : Holds(Tail(e.plan), step) => Holds(e.plan, step)
    BY <1>1, <1>2, PlanShrinks
  <2>3. Holds(Tail(e.plan), Head(Tail(e.plan)))
    BY <2>1, <2>2, PlanShrinks DEF Holds
  <2> QED BY <1>2, <2>1, <2>2, <2>3
<1>3. CASE ~(e.plan # <<>> /\ Head(e.plan) = "remove" /\ e.doomed = {})
  <2>1. StepsLeft(e) = e.plan
    BY <1>3 DEF StepsLeft
  <2>2. Holds(e.plan, Head(e.plan))
    BY <1>1, <2>1, PlanShrinks DEF Holds
  <2> QED BY <1>1, <2>1, <2>2
<1> QED BY <1>2, <1>3

\* The documents that requests may show: the stored one and the copies.
Docs == {display} \cup {editor[h].copy : h \in Editors}

\* A picture is a main picture or one of a gallery.
KindsAreApart == \A d, e \in Docs : d.main \notin e.gallery

\* A picture that has been uploaded and not written is nobody else's.
UploadsAreNew ==
  \A h \in Editors : LET new == editor[h].new IN new # NoImage =>
    /\ new \in hosted
    /\ \A d \in Docs : new # d.main /\ new \notin d.gallery
    /\ \A k \in Editors \ {h} : new # editor[k].new

\* Pictures that may be shown.
Excused == hosted \cup lost \cup UNION {editor[h].gone : h \in Editors}

\* Only such pictures are shown, or come back by a gallery that may still be written.
GalleriesAreExcused ==
  display.alive =>
    /\ Shown \subseteq Excused
    /\ \A h \in Editors : editor[h].current => editor[h].copy.gallery \subseteq Excused

\* (`push` and `append` come behind the upload.)
UploadComesFirst(e) ==
  (Holds(e.plan, "push") \/ Holds(e.plan, "append")) /\ ~Holds(e.plan, "upload") => e.new # NoImage

PictureInv ==
  /\ PictureTypeOK
  /\ display.alive \/ display = NoDisplay
  /\ \A h \in Editors : EditorFits(editor[h]) /\ UploadComesFirst(editor[h])
  /\ KindsAreApart
  /\ UploadsAreNew
  /\ GalleriesAreExcused

LEMMA IdleEditorTyped ==
  /\ NoDisplay \in Displays /\ IdleEditor \in EditorStates
  /\ EditorFits(IdleEditor) /\ UploadComesFirst(IdleEditor)
  /\ IdleEditor.copy = NoDisplay /\ IdleEditor.new = NoImage /\ IdleEditor.gone = {} /\ IdleEditor.doomed = {}
  /\ IdleEditor.plan = <<>> /\ ~IdleEditor.current
  /\ NoDisplay.main = NoImage /\ NoDisplay.gallery = {} /\ NoDisplay.alive = FALSE
<1>1. NoDisplay \in Displays
  BY DEF NoDisplay, Displays
<1>2. <<>> \in Seq(PlanSteps) /\ Len(<<>>) = 0 /\ 1..0 = {}
  OBVIOUS
<1>3. IdleEditor \in EditorStates
  BY <1>1, <1>2 DEF IdleEditor, EditorStates
<1>4. Suits(<<>>, "main") /\ \A step : ~Holds(<<>>, step)
  BY <1>2 DEF Suits, Holds
<1>5. EditorFits(IdleEditor) /\ UploadComesFirst(IdleEditor)
  BY <1>4 DEF IdleEditor, EditorFits, UploadComesFirst
<1> QED BY <1>1, <1>3, <1>5 DEF IdleEditor, NoDisplay

LEMMA PicturesStart == PictureInit => PictureInv
<1> SUFFICES ASSUME PictureInit PROVE PictureInv
  OBVIOUS
<1>1. \A h \in Editors : editor[h] = IdleEditor
  BY DEF PictureInit
<1>2. display \in Displays /\ display.main = NoImage /\ display.gallery = {} /\ display.alive
  BY IdleEditorTyped DEF PictureInit, Displays
<1>3. PictureTypeOK
  BY <1>2, IdleEditorTyped DEF PictureInit, PictureTypeOK
<1>4. KindsAreApart /\ UploadsAreNew
  BY <1>1, <1>2, IdleEditorTyped DEF KindsAreApart, UploadsAreNew, Docs
<1>5. GalleriesAreExcused
  BY <1>1, <1>2, IdleEditorTyped DEF GalleriesAreExcused, Shown
<1> QED BY <1>1, <1>2, <1>3, <1>4, <1>5, IdleEditorTyped DEF PictureInv

\* Every route begins with a plan that suits it.
LEMMA RoutesSuit ==
  ASSUME NEW route \in Routes
  PROVE  /\ IsRoute(route.plan, route.wants) /\ route.wants \in {"main", "one", "all"}
         /\ route.strict \in BOOLEAN
<1>1. CASE route \in {ServiceImage, CenterImage, RightImage}
  <2>1. ServiceImage.plan = <<"read", "upload", "remove", "set main">> /\ ServiceImage.wants = "main" /\ ServiceImage.strict \in BOOLEAN
    BY DEF Route, Strict, ServiceImage
  <2>2. CenterImage.plan = <<"read", "upload", "remove", "set main">> /\ CenterImage.wants = "main" /\ CenterImage.strict \in BOOLEAN
    BY DEF Route, Strict, CenterImage
  <2>3. RightImage.plan = <<"read", "upload", "remove", "set main">> /\ RightImage.wants = "main" /\ RightImage.strict \in BOOLEAN
    BY DEF Route, Strict, RightImage
  <2> QED BY <1>1, <2>1, <2>2, <2>3, PlansSuit
<1>2. CASE route \in {ServiceGallery, SeminarGallery}
  <2>1. ServiceGallery.plan = <<"read", "upload", "push">> /\ ServiceGallery.wants = "main" /\ ServiceGallery.strict \in BOOLEAN
    BY DEF Route, Strict, ServiceGallery
  <2>2. SeminarGallery.plan = <<"read", "upload", "push">> /\ SeminarGallery.wants = "main" /\ SeminarGallery.strict \in BOOLEAN
    BY DEF Route, Strict, SeminarGallery
  <2> QED BY <1>2, <2>1, <2>2, PlansSuit
<1>3. CASE route \in {ServiceForm, SpecialistForm, SeminarForm, ProductForm, HeroForm, SettingsForm, AboutKeep}
  <2>1. ServiceForm.plan = <<"read", "send back">> /\ ServiceForm.wants = "main" /\ ServiceForm.strict \in BOOLEAN
    BY DEF Route, Strict, ServiceForm
  <2>2. SpecialistForm.plan = <<"read", "send back">> /\ SpecialistForm.wants = "main" /\ SpecialistForm.strict \in BOOLEAN
    BY DEF Route, Strict, SpecialistForm
  <2>3. SeminarForm.plan = <<"read", "send back">> /\ SeminarForm.wants = "main" /\ SeminarForm.strict \in BOOLEAN
    BY DEF Route, Strict, SeminarForm
  <2>4. ProductForm.plan = <<"read", "send back">> /\ ProductForm.wants = "main" /\ ProductForm.strict \in BOOLEAN
    BY DEF Route, Strict, ProductForm
  <2>5. HeroForm.plan = <<"read", "send back">> /\ HeroForm.wants = "main" /\ HeroForm.strict \in BOOLEAN
    BY DEF Route, Strict, HeroForm
  <2>6. SettingsForm.plan = <<"read", "send back">> /\ SettingsForm.wants = "main" /\ SettingsForm.strict \in BOOLEAN
    BY DEF Route, Strict, SettingsForm
  <2>7. AboutKeep.plan = <<"read", "send back">> /\ AboutKeep.wants = "main" /\ AboutKeep.strict \in BOOLEAN
    BY DEF Route, Strict, AboutKeep
  <2> QED BY <1>3, <2>1, <2>2, <2>3, <2>4, <2>5, <2>6, <2>7, PlansSuit
<1>4. CASE route \in {ServiceErase, SpecialistErase}
  <2>1. ServiceErase.plan = <<"erase">> /\ ServiceErase.wants = "main" /\ ServiceErase.strict \in BOOLEAN
    BY DEF Route, Strict, ServiceErase
  <2>2. SpecialistErase.plan = <<"erase">> /\ SpecialistErase.wants = "main" /\ SpecialistErase.strict \in BOOLEAN
    BY DEF Route, Strict, SpecialistErase
  <2> QED BY <1>4, <2>1, <2>2, PlansSuit
<1>5. CASE route \in {SpecialistImage, SeminarImage, ProductImage, AboutImage}
  <2>1. SpecialistImage.plan = <<"read", "remove", "upload", "set main">> /\ SpecialistImage.wants = "main" /\ SpecialistImage.strict \in BOOLEAN
    BY DEF Route, Strict, SpecialistImage
  <2>2. SeminarImage.plan = <<"read", "remove", "upload", "set main">> /\ SeminarImage.wants = "main" /\ SeminarImage.strict \in BOOLEAN
    BY DEF Route, Strict, SeminarImage
  <2>3. ProductImage.plan = <<"read", "remove", "upload", "set main">> /\ ProductImage.wants = "main" /\ ProductImage.strict \in BOOLEAN
    BY DEF Route, Strict, ProductImage
  <2>4. AboutImage.plan = <<"read", "remove", "upload", "set main">> /\ AboutImage.wants = "main" /\ AboutImage.strict \in BOOLEAN
    BY DEF Route, Strict, AboutImage
  <2> QED BY <1>5, <2>1, <2>2, <2>3, <2>4, PlansSuit
<1>6. CASE route \in {SeminarErase}
  <2>1. SeminarErase.plan = <<"read", "erase">> /\ SeminarErase.wants = "main" /\ SeminarErase.strict \in BOOLEAN
    BY DEF Route, Strict, SeminarErase
  <2> QED BY <1>6, <2>1, PlansSuit
<1>7. CASE route \in {ProductGallery}
  <2>1. ProductGallery.plan = <<"read", "upload", "append">> /\ ProductGallery.wants = "main" /\ ProductGallery.strict \in BOOLEAN
    BY DEF Route, Strict, ProductGallery
  <2> QED BY <1>7, <2>1, PlansSuit
<1>8. CASE route \in {ProductDrop}
  <2>1. ProductDrop.plan = <<"read", "remove", "splice">> /\ ProductDrop.wants = "one" /\ ProductDrop.strict \in BOOLEAN
    BY DEF Route, Strict, ProductDrop
  <2> QED BY <1>8, <2>1, PlansSuit
<1>9. CASE route \in {ProductErase}
  <2>1. ProductErase.plan = <<"read", "remove", "erase">> /\ ProductErase.wants = "all" /\ ProductErase.strict \in BOOLEAN
    BY DEF Route, Strict, ProductErase
  <2> QED BY <1>9, <2>1, PlansSuit
<1>10. CASE route \in {HeroErase}
  <2>1. HeroErase.plan = <<"read", "remove", "erase">> /\ HeroErase.wants = "main" /\ HeroErase.strict \in BOOLEAN
    BY DEF Route, Strict, HeroErase
  <2> QED BY <1>10, <2>1, PlansSuit
<1>11. CASE route \in {SalonHero, ProductsHero}
  <2>1. SalonHero.plan = <<"upload", "read", "remove", "set main">> /\ SalonHero.wants = "main" /\ SalonHero.strict \in BOOLEAN
    BY DEF Route, Strict, SalonHero
  <2>2. ProductsHero.plan = <<"upload", "read", "remove", "set main">> /\ ProductsHero.wants = "main" /\ ProductsHero.strict \in BOOLEAN
    BY DEF Route, Strict, ProductsHero
  <2> QED BY <1>11, <2>1, <2>2, PlansSuit
<1>12. CASE route \in {AboutClear}
  <2>1. AboutClear.plan = <<"read", "remove", "clear main">> /\ AboutClear.wants = "main" /\ AboutClear.strict \in BOOLEAN
    BY DEF Route, Strict, AboutClear
  <2> QED BY <1>12, <2>1, PlansSuit
<1> QED BY <1>1, <1>2, <1>3, <1>4, <1>5, <1>6, <1>7, <1>8, <1>9, <1>10, <1>11, <1>12 DEF Routes

LEMMA EditorAtStep ==
  ASSUME PictureInv, NEW h \in Editors
  PROVE  /\ editor[h] \in EditorStates /\ EditorFits(editor[h]) /\ UploadComesFirst(editor[h])
         /\ editor \in [Editors -> EditorStates] /\ editor[h].copy \in Displays
         /\ display \in Displays /\ hosted \subseteq Images /\ lost \subseteq Images
BY DEF PictureInv, PictureTypeOK, EditorStates

LEMMA DocsTyped ==
  ASSUME PictureInv
  PROVE  \A d \in Docs : d \in Displays /\ NoImage \notin d.gallery
<1>1. \A d \in Docs : d \in Displays
  BY EditorAtStep DEF Docs, PictureInv, PictureTypeOK
<1> QED BY <1>1, ImageAssumption DEF Displays

\* A request goes on; what it has deleted it knows of.
LEMMA EditorKeeps ==
  ASSUME PictureInv, NEW h \in Editors, NEW r \in EditorStates, EditorFits(r), UploadComesFirst(r),
         editor' = [editor EXCEPT ![h] = r], UNCHANGED <<kind, display, lost>>, hosted' \subseteq Images,
         r.copy \in Docs \cup {NoDisplay},
         r.new # NoImage => /\ r.new \in hosted'
                            /\ \A d \in Docs : r.new # d.main /\ r.new \notin d.gallery
                            /\ \A k \in Editors \ {h} : r.new # editor[k].new,
         \A k \in Editors \ {h} : editor[k].new # NoImage => editor[k].new \in hosted',
         hosted \cup editor[h].gone \subseteq hosted' \cup r.gone,
         display.alive /\ r.current => r.copy.gallery \subseteq Excused
  PROVE  PictureInv'
<1>1. /\ editor' \in [Editors -> EditorStates] /\ editor'[h] = r
      /\ \A k \in Editors \ {h} : editor'[k] = editor[k]
  BY EditorAtStep
<1>2. PictureTypeOK'
  BY <1>1 DEF PictureInv, PictureTypeOK
<1>3. \A k \in Editors : EditorFits(editor'[k]) /\ UploadComesFirst(editor'[k])
  BY <1>1 DEF PictureInv
<1>4. Docs' \subseteq Docs \cup {NoDisplay}
  BY <1>1 DEF Docs
<1>5. KindsAreApart'
  BY <1>4, DocsTyped, IdleEditorTyped DEF PictureInv, KindsAreApart
<1>6. UploadsAreNew'
  <2> SUFFICES ASSUME NEW k \in Editors, editor'[k].new # NoImage
               PROVE  /\ editor'[k].new \in hosted'
                      /\ \A d \in Docs' : editor'[k].new # d.main /\ editor'[k].new \notin d.gallery
                      /\ \A g \in Editors \ {k} : editor'[k].new # editor'[g].new
    BY DEF UploadsAreNew
  <2>1. CASE k = h
    BY <1>1, <1>4, <2>1, IdleEditorTyped
  <2>2. CASE k # h
    <3>1. /\ \A d \in Docs : editor[k].new # d.main /\ editor[k].new \notin d.gallery
          /\ \A g \in Editors \ {k} : editor[k].new # editor[g].new
      BY <1>1, <2>2 DEF PictureInv, UploadsAreNew
    <3> QED BY <1>1, <1>4, <2>2, <3>1, IdleEditorTyped
  <2> QED BY <2>1, <2>2
<1>7. Excused \subseteq Excused'
  BY <1>1 DEF Excused
<1>8. Shown' = Shown
  BY DEF Shown
<1>9. GalleriesAreExcused'
  BY <1>1, <1>7, <1>8 DEF PictureInv, GalleriesAreExcused
<1> QED BY <1>2, <1>3, <1>5, <1>6, <1>9 DEF PictureInv

LEMMA AskKeeps == ASSUME PictureInv, NEW h \in Editors, Ask(h) PROVE PictureInv'
<1>1. /\ editor[h].plan = <<>> /\ UNCHANGED <<kind, display, hosted, lost>>
  BY DEF Ask
<1>2. PICK route \in Routes : editor' = [editor EXCEPT ![h] = [IdleEditor EXCEPT
            !.plan = route.plan, !.wants = route.wants, !.strict = route.strict]]
  BY DEF Ask
<1> DEFINE p == route.plan
           w == route.wants
           s == route.strict
           r == [IdleEditor EXCEPT !.plan = p, !.wants = w, !.strict = s]
<1>3. IsRoute(p, w) /\ w \in {"main", "one", "all"} /\ s \in BOOLEAN /\ p \in Seq(PlanSteps)
  BY RoutesSuit DEF IsRoute, Suits
<1>4. editor' = [editor EXCEPT ![h] = r]
  BY <1>2
<1> HIDE DEF p, w, s
<1>5. /\ r \in EditorStates /\ r.plan = p /\ r.wants = w /\ r.copy = NoDisplay /\ r.new = NoImage
      /\ r.gone = {} /\ r.doomed = {} /\ ~r.current
  BY <1>3, IdleEditorTyped DEF EditorStates
<1> HIDE DEF r
<1>6. EditorFits(r) /\ UploadComesFirst(r)
  BY <1>3, <1>5 DEF IsRoute, EditorFits, UploadComesFirst
<1>7. editor[h].gone = {}
  BY <1>1, EditorAtStep DEF EditorFits
<1> QED BY <1>1, <1>4, <1>5, <1>6, <1>7, EditorKeeps, EditorAtStep DEF PictureInv, UploadsAreNew

\* What holds in front of a step.
LEMMA InFront ==
  ASSUME PictureInv, NEW h \in Editors, NEW step, At(h, step)
  PROVE  /\ StepsLeft(editor[h]) # <<>> /\ editor[h].plan # <<>>
         /\ Suits(StepsLeft(editor[h]), editor[h].wants) /\ Head(StepsLeft(editor[h])) = step
         /\ Holds(editor[h].plan, step)
         /\ \A other : Holds(StepsLeft(editor[h]), other) => Holds(editor[h].plan, other)
         /\ step \in {"read", "push", "append", "send back"} => editor[h].gone = {}
         /\ step \in {"set main", "clear main"} => editor[h].gone \subseteq {editor[h].copy.main}
         /\ step = "splice" => editor[h].gone \subseteq editor[h].copy.gallery
<1>1. /\ StepsLeft(editor[h]) # <<>> /\ Head(StepsLeft(editor[h])) = step
      /\ EditorFits(editor[h]) /\ editor[h] \in EditorStates
  BY EditorAtStep DEF At
<1>2. /\ Suits(StepsLeft(editor[h]), editor[h].wants) /\ editor[h].plan # <<>>
      /\ \A other : Holds(StepsLeft(editor[h]), other) => Holds(editor[h].plan, other)
      /\ Holds(StepsLeft(editor[h]), Head(StepsLeft(editor[h])))
  BY <1>1, LeftSuits
<1>3. Holds(editor[h].plan, step)
  BY <1>1, <1>2
<1>4. step \in {"read", "push", "append", "send back"} => editor[h].gone = {}
  BY <1>1, <1>3 DEF EditorFits
<1>5. step \in {"set main", "clear main"} => editor[h].gone \subseteq {editor[h].copy.main}
  BY <1>1, <1>3 DEF EditorFits, Suits
<1>6. step = "splice" => editor[h].gone \subseteq editor[h].copy.gallery
  BY <1>1, <1>3 DEF EditorFits, Suits
<1> QED BY <1>1, <1>2, <1>3, <1>4, <1>5, <1>6

LEMMA ReadDisplayKeeps == ASSUME PictureInv, NEW h \in Editors, ReadDisplay(h) PROVE PictureInv'
<1>1. At(h, "read") /\ display.alive /\ UNCHANGED <<kind, display, hosted, lost>>
  BY DEF ReadDisplay
<1>2. PICK doomed \in Doomed(editor[h]) :
        editor' = [editor EXCEPT ![h].plan = Tail(@), ![h].copy = display, ![h].current = TRUE,
                                 ![h].doomed = doomed]
  BY DEF ReadDisplay
<1> DEFINE e == editor[h]
           t == Tail(e.plan)
           r == [e EXCEPT !.plan = t, !.copy = display, !.current = TRUE, !.doomed = doomed]
<1>3. e \in EditorStates /\ EditorFits(e) /\ UploadComesFirst(e) /\ display \in Displays
  BY EditorAtStep
<1>4. e.gone = {} /\ e.plan # <<>> /\ Suits(e.plan, e.wants) /\ Head(e.plan) = "read"
  <2>1. e.gone = {} /\ e.plan # <<>> /\ Suits(e.plan, e.wants) /\ Holds(e.plan, "read")
        /\ StepsLeft(e) # <<>> /\ Head(StepsLeft(e)) = "read" /\ Holds(StepsLeft(e), "read")
    BY <1>1, <1>3, InFront, LeftSuits DEF EditorFits
  <2>2. CASE StepsLeft(e) = e.plan
    BY <2>1, <2>2
  <2>3. CASE StepsLeft(e) = Tail(e.plan) /\ Head(e.plan) = "remove"
    BY <2>1, <2>3, PlanShrinks DEF BeforeDeletion
  <2> QED BY <2>1, <2>2, <2>3 DEF StepsLeft
<1>5. /\ t \in Seq(PlanSteps) /\ Suits(t, e.wants) /\ t # <<>>
      /\ \A step : Holds(t, step) => Holds(e.plan, step)
      /\ Holds(e.plan, "upload") => Holds(t, "upload")
  <2>1. /\ t \in Seq(PlanSteps) /\ Suits(t, e.wants) /\ t # <<>>
        /\ \A step : Holds(t, step) => Holds(e.plan, step)
    BY <1>4, PlanShrinks
  <2>2. Holds(e.plan, "upload") => Holds(t, "upload")
    BY <1>4, UploadIsLater
  <2> QED BY <2>1, <2>2
<1>6. /\ doomed \subseteq Images /\ doomed \subseteq {display.main} \cup display.gallery
      /\ e.wants = "main" => doomed \subseteq {display.main}
      /\ e.wants = "one" => doomed \subseteq display.gallery
  <2>1. CASE e.wants = "main"
    BY <1>2, <1>3, <2>1 DEF Doomed, Displays
  <2>2. CASE e.wants = "one"
    BY <1>2, <1>3, <2>2 DEF Doomed, Displays
  <2>3. CASE e.wants = "all"
    BY <1>2, <1>3, <2>3 DEF Doomed, Displays
  <2> QED BY <1>3, <2>1, <2>2, <2>3 DEF EditorStates
<1>7. editor' = [editor EXCEPT ![h] = r]
  BY <1>2, EditorAtStep
<1> HIDE DEF t, e
<1>8. /\ r \in EditorStates /\ r.plan = t /\ r.copy = display /\ r.current = TRUE /\ r.doomed = doomed
      /\ r.wants = e.wants /\ r.gone = e.gone /\ r.new = e.new
  BY <1>3, <1>5, <1>6 DEF EditorStates
<1> HIDE DEF r
<1>9. EditorFits(r)
  BY <1>4, <1>5, <1>6, <1>8 DEF EditorFits
<1>10. UploadComesFirst(r)
  BY <1>3, <1>5, <1>8 DEF UploadComesFirst
<1>11. display \in Docs /\ hosted \subseteq Images
  BY EditorAtStep DEF Docs
<1>12. display.gallery \subseteq Excused
  <2>1. display.gallery \subseteq Shown
    BY <1>1, <1>11, DocsTyped DEF Shown
  <2> QED BY <1>1, <2>1 DEF PictureInv, GalleriesAreExcused
<1>13. /\ e.new # NoImage => /\ e.new \in hosted
                             /\ \A d \in Docs : e.new # d.main /\ e.new \notin d.gallery
                             /\ \A k \in Editors \ {h} : e.new # editor[k].new
       /\ \A k \in Editors \ {h} : editor[k].new # NoImage => editor[k].new \in hosted
  BY DEF PictureInv, UploadsAreNew, e
<1>14. hosted' = hosted /\ editor[h].gone = {}
  BY <1>1, <1>4 DEF e
<1> QED BY <1>1, <1>7, <1>8, <1>9, <1>10, <1>11, <1>12, <1>13, <1>14, EditorKeeps

LEMMA UploadKeeps == ASSUME PictureInv, NEW h \in Editors, Upload(h) PROVE PictureInv'
<1> PICK new \in Unknown :
      /\ hosted' = hosted \cup {new}
      /\ editor' = [editor EXCEPT ![h].new = new, ![h].plan = Tail(StepsLeft(editor[h]))]
  BY DEF Upload
<1> DEFINE e == editor[h]
           t == Tail(StepsLeft(e))
           r == [e EXCEPT !.new = new, !.plan = t]
<1>1. /\ At(h, "upload") /\ new \in Unknown /\ hosted' = hosted \cup {new}
      /\ editor' = [editor EXCEPT ![h] = r] /\ UNCHANGED <<kind, display, lost>>
  BY EditorAtStep DEF Upload
<1>2. /\ new \in Images /\ new # NoImage /\ new \notin hosted /\ new \notin Shown
      /\ \A k \in Editors : /\ new # editor[k].new /\ new # editor[k].copy.main
                            /\ new \notin editor[k].copy.gallery
  BY <1>1, ImageAssumption DEF Unknown
<1>3. \A d \in Docs : new # d.main /\ new \notin d.gallery
  <2>1. new # display.main /\ new \notin display.gallery
    BY <1>2, IdleEditorTyped DEF PictureInv, Shown
  <2> QED BY <1>2, <2>1 DEF Docs
<1>4. e \in EditorStates /\ EditorFits(e)
  BY EditorAtStep
<1>5. /\ t \in Seq(PlanSteps) /\ Suits(t, e.wants) /\ t # <<>> /\ e.plan # <<>>
      /\ \A step : Holds(t, step) => Holds(e.plan, step)
  BY <1>1, InFront, PlanShrinks
<1> HIDE DEF e, t
<1>6. /\ r \in EditorStates /\ r.plan = t /\ r.new = new /\ r.copy = e.copy /\ r.current = e.current
      /\ r.doomed = e.doomed /\ r.gone = e.gone /\ r.wants = e.wants
  BY <1>2, <1>4, <1>5 DEF EditorStates
<1> HIDE DEF r
<1>7. EditorFits(r) /\ UploadComesFirst(r)
  BY <1>2, <1>4, <1>5, <1>6 DEF EditorFits, UploadComesFirst
<1>8. r.copy \in Docs /\ (display.alive /\ r.current => r.copy.gallery \subseteq Excused)
  BY <1>6 DEF Docs, PictureInv, GalleriesAreExcused, e
<1>9. hosted' \subseteq Images /\ hosted \cup editor[h].gone \subseteq hosted' \cup r.gone
  BY <1>1, <1>2, <1>6, EditorAtStep DEF e
<1>10. \A k \in Editors \ {h} : editor[k].new # NoImage => editor[k].new \in hosted'
  BY <1>1 DEF PictureInv, UploadsAreNew
<1>11. new \in hosted'
  BY <1>1
<1> QED BY <1>1, <1>2, <1>3, <1>6, <1>7, <1>8, <1>9, <1>10, <1>11, EditorKeeps

\* A deletion does not hit a new upload: it is of a copy.
LEMMA DeletionsAreKnown ==
  ASSUME PictureInv, NEW h \in Editors, NEW i \in editor[h].doomed, NEW k \in Editors,
         editor[k].new # NoImage
  PROVE  editor[k].new # i
<1>1. i = editor[h].copy.main \/ i \in editor[h].copy.gallery
  BY EditorAtStep DEF EditorFits
<1> QED BY <1>1 DEF PictureInv, UploadsAreNew, Docs

LEMMA RemoveKeeps == ASSUME PictureInv, NEW h \in Editors, Remove(h) PROVE PictureInv'
<1> DEFINE e == editor[h]
<1>1. At(h, "remove") /\ UNCHANGED <<kind, display, lost>>
  BY DEF Remove
<1> DEFINE Deletes(i, deleted) ==
             /\ hosted' = hosted \ deleted
             /\ editor' = [editor EXCEPT ![h].doomed = @ \ {i}, ![h].gone = @ \cup deleted]
<1>15. PICK i \in e.doomed : \E deleted \in {{i}, {}} : Deletes(i, deleted)
  BY DEF Remove
<1>2. PICK deleted \in {{i}, {}} : Deletes(i, deleted)
  BY <1>15
<1> DEFINE r == [e EXCEPT !.doomed = @ \ {i}, !.gone = @ \cup deleted]
<1>3. editor' = [editor EXCEPT ![h] = r]
  BY <1>2, EditorAtStep
<1>4. e \in EditorStates /\ EditorFits(e) /\ UploadComesFirst(e) /\ i \in Images
  BY EditorAtStep DEF EditorStates
<1>5. /\ e.plan # <<>>
      /\ \A step \in {"read", "push", "append", "send back"} : ~Holds(e.plan, step)
  <2>1. e.plan # <<>> /\ StepsLeft(e) # <<>> /\ Head(StepsLeft(e)) = "remove" /\ e.doomed # {}
    BY <1>1, InFront
  <2>2. StepsLeft(e) = e.plan /\ Suits(e.plan, e.wants)
    BY <1>4, <2>1, LeftSuits
  <2>3. /\ e.plan[1] = "remove" /\ 1 \in 1..Len(e.plan) /\ Len(e.plan) \in Nat
    BY <2>1, <2>2, PlanShrinks
  <2>4. \A j \in 1..Len(e.plan) : j = 1 \/ (1 < j /\ e.plan[j] \notin BeforeDeletion)
    <3>1. \A j \in 1..Len(e.plan) : 1 < j => e.plan[j] \notin BeforeDeletion
      BY <2>2, <2>3 DEF Suits
    <3>2. \A j \in 1..Len(e.plan) : j = 1 \/ 1 < j
      BY <2>3
    <3> QED BY <3>1, <3>2
  <2> QED BY <2>1, <2>3, <2>4 DEF Holds, BeforeDeletion
<1> HIDE DEF e
<1>6. /\ r \in EditorStates /\ r.plan = e.plan /\ r.new = e.new /\ r.copy = e.copy /\ r.current = e.current
      /\ r.doomed = e.doomed \ {i} /\ r.gone = e.gone \cup deleted /\ r.wants = e.wants
  BY <1>2, <1>4 DEF EditorStates
<1> HIDE DEF r
<1>7. EditorFits(r) /\ UploadComesFirst(r)
  BY <1>2, <1>4, <1>5, <1>6 DEF EditorFits, UploadComesFirst
<1>8. r.copy \in Docs /\ (display.alive /\ r.current => r.copy.gallery \subseteq Excused)
  BY <1>6 DEF Docs, PictureInv, GalleriesAreExcused, e
<1>9. hosted' \subseteq Images /\ hosted \cup editor[h].gone \subseteq hosted' \cup r.gone
  BY <1>2, <1>6, EditorAtStep DEF e
<1>10. \A k \in Editors : editor[k].new # NoImage => editor[k].new \in hosted'
  BY <1>2, DeletionsAreKnown DEF PictureInv, UploadsAreNew, e
<1>11. r.new # NoImage => /\ \A d \in Docs : r.new # d.main /\ r.new \notin d.gallery
                          /\ \A k \in Editors \ {h} : r.new # editor[k].new
  BY <1>6 DEF PictureInv, UploadsAreNew, e
<1>12. r.new # NoImage => r.new \in hosted'
  BY <1>6, <1>10 DEF e
<1> QED BY <1>1, <1>3, <1>6, <1>7, <1>8, <1>9, <1>10, <1>11, <1>12, EditorKeeps

\* A request ends: the picture and the gallery it has written are of the document, of its
\* copy or of its upload, and what it had deleted is not among what may be shown.
LEMMA WriteKeeps ==
  ASSUME PictureInv, NEW h \in Editors, NEW step, NEW doc \in Displays, NEW changed,
         Write(h, step, doc, changed), doc.alive \/ doc = NoDisplay,
         \/ doc.main \in {display.main, editor[h].copy.main, NoImage}
         \/ doc.main = editor[h].new /\ doc.gallery \subseteq display.gallery \cup editor[h].copy.gallery,
         doc.gallery \subseteq display.gallery \cup editor[h].copy.gallery \cup {editor[h].new},
         doc.alive => \A x \in {doc.main} \cup doc.gallery :
           \/ x \in hosted \cup {NoImage} \/ step = "send back"
           \/ x \in Excused /\ x \notin editor[h].gone,
         doc.alive => \A k \in Editors \ ({h} \cup changed) :
           editor[k].current => editor[k].copy.gallery \cap editor[h].gone = {}
  PROVE  PictureInv'
<1>1. /\ display.alive /\ display' = doc /\ UNCHANGED <<kind, hosted>>
      /\ lost' = (lost \cup (IF step = "send back" THEN Shown' \ hosted ELSE {})) \cap Remembered'
  BY DEF Write
<1>2. /\ editor' \in [Editors -> EditorStates] /\ editor'[h] = IdleEditor
      /\ \A k \in Editors \ {h} :
           /\ editor'[k].plan = editor[k].plan /\ editor'[k].wants = editor[k].wants
           /\ editor'[k].copy = editor[k].copy /\ editor'[k].doomed = editor[k].doomed
           /\ editor'[k].gone = editor[k].gone /\ editor'[k].new = editor[k].new
           /\ editor'[k].current => editor[k].current /\ k \notin changed
  <2>1. ASSUME NEW k \in Editors \ {h}
        PROVE  /\ editor'[k] \in EditorStates
               /\ editor'[k].plan = editor[k].plan /\ editor'[k].wants = editor[k].wants
               /\ editor'[k].copy = editor[k].copy /\ editor'[k].doomed = editor[k].doomed
               /\ editor'[k].gone = editor[k].gone /\ editor'[k].new = editor[k].new
               /\ editor'[k].current => editor[k].current /\ k \notin changed
    <3> DEFINE e == editor[k]
               c == (e.current /\ k \notin changed)
    <3>1. editor'[k] = [e EXCEPT !.current = c] /\ e \in EditorStates
      BY EditorAtStep DEF Write
    <3>2. c \in BOOLEAN /\ (c => e.current /\ k \notin changed)
      OBVIOUS
    <3> HIDE DEF c, e
    <3> QED BY <3>1, <3>2 DEF EditorStates, e
  <2>2. editor'[h] = IdleEditor
    BY DEF Write
  <2>3. \A k \in Editors : editor'[k] \in EditorStates
    BY <2>1, <2>2, IdleEditorTyped
  <2>4. editor' \in [Editors -> EditorStates]
    BY <2>3 DEF Write
  <2> QED BY <2>1, <2>2, <2>4
<1>3. \A k \in Editors : EditorFits(editor'[k]) /\ UploadComesFirst(editor'[k])
  <2>1. ASSUME NEW k \in Editors \ {h} PROVE EditorFits(editor'[k]) /\ UploadComesFirst(editor'[k])
    <3>1. EditorFits(editor[k]) /\ UploadComesFirst(editor[k])
      BY EditorAtStep
    <3>2. UploadComesFirst(editor'[k])
      BY <1>2, <3>1 DEF UploadComesFirst
    <3>3. editor'[k].plan = <<>> => ~editor'[k].current
      BY <1>2, <3>1 DEF EditorFits
    <3> QED BY <1>2, <3>1, <3>2, <3>3 DEF EditorFits
  <2> QED BY <1>2, <2>1, IdleEditorTyped
<1>4. Shown' \subseteq Images /\ Shown' \subseteq Remembered'
  BY <1>1 DEF Shown, Remembered, Displays
<1>5. PictureTypeOK'
  BY <1>1, <1>2, <1>4 DEF PictureInv, PictureTypeOK
<1>6. \A d \in Docs' : d = doc \/ d \in Docs \/ d = NoDisplay
  <2>1. \A k \in Editors : editor'[k].copy = NoDisplay \/ editor'[k].copy = editor[k].copy
    BY <1>2, IdleEditorTyped
  <2>2. \A d \in Docs' : d = doc \/ \E k \in Editors : d = editor'[k].copy
    BY <1>1 DEF Docs
  <2>3. \A k \in Editors : editor[k].copy \in Docs
    BY DEF Docs
  <2> SUFFICES ASSUME NEW d \in Docs' PROVE d = doc \/ d \in Docs \/ d = NoDisplay
    OBVIOUS
  <2>4. CASE d = doc
    BY <2>4
  <2>5. CASE d # doc
    <3>1. PICK k \in Editors : d = editor'[k].copy
      BY <2>2, <2>5
    <3> QED BY <2>1, <2>3, <3>1
  <2> QED BY <2>4, <2>5
<1>7. display \in Docs /\ \A k \in Editors : editor[k].copy \in Docs
  BY DEF Docs
<1>8. editor[h].new # NoImage => \A d \in Docs : editor[h].new # d.main /\ editor[h].new \notin d.gallery
  BY DEF PictureInv, UploadsAreNew
<1>9. NoImage \notin doc.gallery
  BY ImageAssumption DEF Displays
<1>10. KindsAreApart'
  <2> SUFFICES ASSUME NEW d \in Docs', NEW f \in Docs' PROVE d.main \notin f.gallery
    BY DEF KindsAreApart
  <2>1. CASE d = NoDisplay \/ f = NoDisplay
    BY <1>6, <1>9, <2>1, DocsTyped, IdleEditorTyped
  <2>2. CASE d \in Docs /\ f \in Docs
    BY <2>2 DEF PictureInv, KindsAreApart
  <2>3. CASE d = doc /\ f \in Docs
    BY <1>7, <1>8, <2>3, DocsTyped DEF PictureInv, KindsAreApart
  <2>4. CASE d \in Docs /\ f = doc
    BY <1>7, <1>8, <1>9, <2>4 DEF PictureInv, KindsAreApart
  <2>5. CASE d = doc /\ f = doc
    BY <1>7, <1>8, <1>9, <2>5 DEF PictureInv, KindsAreApart
  <2> QED BY <1>6, <2>1, <2>2, <2>3, <2>4, <2>5
<1>11. UploadsAreNew'
  <2> SUFFICES ASSUME NEW k \in Editors, editor'[k].new # NoImage
               PROVE  /\ editor'[k].new \in hosted
                      /\ \A d \in Docs' : editor'[k].new # d.main /\ editor'[k].new \notin d.gallery
                      /\ \A g \in Editors \ {k} : editor'[k].new # editor'[g].new
    BY <1>1 DEF UploadsAreNew
  <2>1. k # h /\ editor'[k].new = editor[k].new
    BY <1>2, IdleEditorTyped
  <2>2. /\ editor[k].new \in hosted
        /\ \A d \in Docs : editor[k].new # d.main /\ editor[k].new \notin d.gallery
        /\ \A g \in Editors \ {k} : editor[k].new # editor[g].new
    BY <2>1 DEF PictureInv, UploadsAreNew
  <2>3. \A g \in Editors \ {k} : editor'[k].new # editor'[g].new
    BY <1>2, <2>1, <2>2, IdleEditorTyped
  <2>4. editor[k].new # doc.main /\ editor[k].new \notin doc.gallery
    BY <1>7, <2>1, <2>2
  <2> QED BY <1>6, <2>1, <2>2, <2>3, <2>4, IdleEditorTyped
<1>12. \A x \in Remembered' : x \in Excused /\ x \notin editor[h].gone => x \in Excused'
  <2> SUFFICES ASSUME NEW x \in Remembered', x \in Excused, x \notin editor[h].gone
               PROVE  x \in Excused'
    OBVIOUS
  <2>1. CASE x \in hosted
    BY <1>1, <2>1 DEF Excused
  <2>2. CASE x \in lost
    BY <1>1, <2>2 DEF Excused
  <2>3. CASE \E k \in Editors : x \in editor[k].gone
    BY <1>2, <2>3 DEF Excused
  <2>4. x \in hosted \/ x \in lost \/ \E k \in Editors : x \in editor[k].gone
    BY DEF Excused
  <2> QED BY <2>1, <2>2, <2>3, <2>4
<1>13. GalleriesAreExcused'
  <2> SUFFICES ASSUME doc.alive
               PROVE  /\ Shown' \subseteq Excused'
                      /\ \A k \in Editors : editor'[k].current => editor'[k].copy.gallery \subseteq Excused'
    BY <1>1 DEF GalleriesAreExcused
  <2>1. ASSUME NEW x \in Shown' PROVE x \in Excused'
    <3>1. x \in {doc.main} \cup doc.gallery /\ x # NoImage /\ x \in Remembered'
      BY <1>1, <1>4, <2>1 DEF Shown
    <3>2. CASE x \in hosted
      BY <1>1, <3>2 DEF Excused
    <3>3. CASE step = "send back" /\ x \notin hosted
      BY <1>1, <3>1, <3>3 DEF Excused
    <3> QED BY <1>12, <3>1, <3>2, <3>3
  <2>2. ASSUME NEW k \in Editors, editor'[k].current, NEW x \in editor'[k].copy.gallery
        PROVE  x \in Excused'
    <3>1. k # h /\ editor[k].current /\ k \notin changed /\ x \in editor[k].copy.gallery
      BY <1>2, <2>2, IdleEditorTyped
    <3>2. x \in Excused /\ x \notin editor[h].gone
      BY <1>1, <3>1 DEF PictureInv, GalleriesAreExcused
    <3>3. x \in Remembered'
      BY <2>2 DEF Remembered
    <3> QED BY <1>12, <3>2, <3>3
  <2> QED BY <2>1, <2>2
<1> QED BY <1>1, <1>3, <1>5, <1>10, <1>11, <1>13 DEF PictureInv

\* What a request may write: main pictures and galleries that are known, its upload.
LEMMA AtTheWrite ==
  ASSUME PictureInv, NEW h \in Editors, display.alive
  PROVE  /\ \A x \in {display.main} \cup display.gallery : x = NoImage \/ x \in Excused
         /\ editor[h].new \in hosted \cup {NoImage} /\ editor[h].new \in Images \cup {NoImage}
         /\ \A x \in editor[h].copy.gallery : editor[h].current => x \in Excused
         /\ editor[h].gone \subseteq {editor[h].copy.main} => \A d \in Docs : d.gallery \cap editor[h].gone = {}
         /\ editor[h].gone \subseteq editor[h].copy.gallery => display.main \notin editor[h].gone
         /\ display \in Docs /\ \A k \in Editors : editor[k].copy \in Docs
<1>1. display \in Docs /\ \A k \in Editors : editor[k].copy \in Docs
  BY DEF Docs
<1>2. \A x \in {display.main} \cup display.gallery : x = NoImage \/ x \in Excused
  BY DEF PictureInv, GalleriesAreExcused, Shown
<1>3. editor[h].new \in hosted \cup {NoImage} /\ editor[h].new \in Images \cup {NoImage}
  BY EditorAtStep DEF PictureInv, UploadsAreNew, EditorStates
<1>4. \A x \in editor[h].copy.gallery : editor[h].current => x \in Excused
  BY DEF PictureInv, GalleriesAreExcused
<1>5. editor[h].gone \subseteq {editor[h].copy.main} => \A d \in Docs : d.gallery \cap editor[h].gone = {}
  BY <1>1 DEF PictureInv, KindsAreApart
<1>6. editor[h].gone \subseteq editor[h].copy.gallery => display.main \notin editor[h].gone
  BY <1>1 DEF PictureInv, KindsAreApart
<1> QED BY <1>1, <1>2, <1>3, <1>4, <1>5, <1>6

\* The main picture is replaced or cleared.
LEMMA MainKeeps ==
  ASSUME PictureInv, NEW h \in Editors, NEW step \in {"set main", "clear main"},
         NEW main \in {editor[h].new, NoImage},
         Write(h, step, [display EXCEPT !.main = main], {})
  PROVE  PictureInv'
<1> DEFINE doc == [display EXCEPT !.main = main]
<1>1. At(h, step) /\ display.alive /\ display \in Displays
  BY EditorAtStep DEF Write
<1>2. main \in hosted \cup {NoImage} /\ main \in Images \cup {NoImage}
  BY <1>1, AtTheWrite
<1>3. doc \in Displays /\ doc.main = main /\ doc.gallery = display.gallery /\ doc.alive
  BY <1>1, <1>2 DEF Displays
<1>4. Write(h, step, doc, {})
  OBVIOUS
<1> HIDE DEF doc
<1>5. editor[h].gone \subseteq {editor[h].copy.main}
  BY <1>1, InFront
<1>6. \A d \in Docs : d.gallery \cap editor[h].gone = {}
  BY <1>1, <1>5, AtTheWrite
<1>7. \A x \in {doc.main} \cup doc.gallery :
           x \in hosted \cup {NoImage} \/ (x \in Excused /\ x \notin editor[h].gone)
  BY <1>1, <1>2, <1>3, <1>6, AtTheWrite
<1>8. \A k \in Editors : editor[k].copy.gallery \cap editor[h].gone = {}
  BY <1>1, <1>6, AtTheWrite
<1> QED BY <1>1, <1>3, <1>4, <1>7, <1>8, WriteKeeps

LEMMA SetMainKeeps == ASSUME PictureInv, NEW h \in Editors, SetMain(h) PROVE PictureInv'
BY MainKeeps DEF SetMain

LEMMA ClearMainKeeps == ASSUME PictureInv, NEW h \in Editors, ClearMain(h) PROVE PictureInv'
BY MainKeeps DEF ClearMain

\* Behind the upload there is nothing in front of a push but the push.
LEMMA UploadedForGallery ==
  ASSUME PictureInv, NEW h \in Editors, NEW step \in {"push", "append"}, At(h, step)
  PROVE  editor[h].new # NoImage
<1> DEFINE e == editor[h]
           s == StepsLeft(e)
<1>1. /\ s # <<>> /\ e.plan # <<>> /\ Suits(s, e.wants) /\ Head(s) = step /\ Holds(e.plan, step)
      /\ e \in EditorStates /\ EditorFits(e) /\ UploadComesFirst(e) /\ Suits(e.plan, e.wants)
  BY InFront, EditorAtStep DEF EditorFits
<1>2. s = e.plan
  <2>1. CASE Head(e.plan) = "remove" /\ s = Tail(e.plan)
    <3>1. ~Holds(Tail(e.plan), step)
      BY <1>1, <2>1, PlanShrinks DEF BeforeDeletion
    <3>2. Holds(s, step)
      BY <1>1, LeftSuits
    <3> QED BY <2>1, <3>1, <3>2
  <2> QED BY <2>1 DEF StepsLeft
<1> HIDE DEF s
<1>3. e.plan[1] = step /\ 1 \in 1..Len(e.plan) /\ Len(e.plan) \in Nat
  BY <1>1, <1>2, PlanShrinks
<1>4. 1 = Len(e.plan)
  BY <1>1, <1>3 DEF Suits
<1>5. ~Holds(e.plan, "upload")
  BY <1>3, <1>4 DEF Holds
<1> QED BY <1>1, <1>5 DEF UploadComesFirst

\* The gallery is written.
LEMMA GalleryKeeps ==
  ASSUME PictureInv, NEW h \in Editors, NEW step, NEW gallery,
         WriteGallery(h, step, gallery),
         \/ step = "push" /\ gallery = display.gallery \cup {editor[h].new}
         \/ step = "append" /\ editor[h].current /\ gallery = editor[h].copy.gallery \cup {editor[h].new}
         \/ step = "splice" /\ editor[h].current /\ gallery = editor[h].copy.gallery \ editor[h].gone
  PROVE  PictureInv'
<1> DEFINE doc == [display EXCEPT !.gallery = gallery]
<1>1. /\ At(h, step) /\ display.alive /\ Write(h, step, doc, Editors)
      /\ display \in Displays /\ editor[h].copy \in Displays
  BY EditorAtStep DEF Write, WriteGallery
<1>2. step \in {"push", "append"} => editor[h].new \in hosted /\ editor[h].new \in Images /\ editor[h].gone = {}
  <2>1. step \in {"push", "append"} => editor[h].new # NoImage /\ editor[h].gone = {}
    BY <1>1, UploadedForGallery, InFront
  <2> QED BY <1>1, <2>1, AtTheWrite
<1>3. gallery \subseteq Images
  BY <1>1, <1>2 DEF Displays
<1>4. doc \in Displays /\ doc.main = display.main /\ doc.gallery = gallery /\ doc.alive
  BY <1>1, <1>3 DEF Displays
<1> HIDE DEF doc
<1>5. step = "splice" => display.main \notin editor[h].gone
  BY <1>1, AtTheWrite, InFront
<1>6. \A x \in gallery : x \in hosted \cup {NoImage} \/ (x \in Excused /\ x \notin editor[h].gone)
  BY <1>1, <1>2, AtTheWrite
<1>7. display.main \in hosted \cup {NoImage} \/ (display.main \in Excused /\ display.main \notin editor[h].gone)
  BY <1>1, <1>2, <1>5, AtTheWrite
<1>8. \A x \in {doc.main} \cup doc.gallery :
           x \in hosted \cup {NoImage} \/ (x \in Excused /\ x \notin editor[h].gone)
  BY <1>4, <1>6, <1>7
<1>9. doc.gallery \subseteq display.gallery \cup editor[h].copy.gallery \cup {editor[h].new}
  BY <1>4
<1> QED BY <1>1, <1>4, <1>8, <1>9, WriteKeeps

LEMMA PushToGalleryKeeps == ASSUME PictureInv, NEW h \in Editors, PushToGallery(h) PROVE PictureInv'
BY GalleryKeeps DEF PushToGallery

LEMMA AppendToGalleryKeeps == ASSUME PictureInv, NEW h \in Editors, AppendToGallery(h) PROVE PictureInv'
BY GalleryKeeps DEF AppendToGallery

LEMMA SpliceGalleryKeeps == ASSUME PictureInv, NEW h \in Editors, SpliceGallery(h) PROVE PictureInv'
BY GalleryKeeps DEF SpliceGallery

LEMMA EraseKeeps == ASSUME PictureInv, NEW h \in Editors, Erase(h) PROVE PictureInv'
BY WriteKeeps, IdleEditorTyped DEF Erase

LEMMA SendBackKeeps == ASSUME PictureInv, NEW h \in Editors, SendBack(h) PROVE PictureInv'
<1> DEFINE doc == [display EXCEPT !.main = editor[h].copy.main, !.gallery = editor[h].copy.gallery]
<1>1. /\ Write(h, "send back", doc, {}) /\ At(h, "send back") /\ display.alive
      /\ display \in Displays /\ editor[h].copy \in Displays
  BY EditorAtStep DEF SendBack, Write
<1>2. /\ doc \in Displays /\ doc.alive
      /\ doc.main = editor[h].copy.main /\ doc.gallery = editor[h].copy.gallery
  BY <1>1 DEF Displays
<1> HIDE DEF doc
<1>3. editor[h].gone = {}
  BY <1>1, InFront
<1> QED BY <1>1, <1>2, <1>3, WriteKeeps

LEMMA EditFailsKeeps == ASSUME PictureInv, NEW h \in Editors, EditFails(h) PROVE PictureInv'
<1>1. /\ UNCHANGED <<kind, display>> /\ editor' = [editor EXCEPT ![h] = IdleEditor]
  BY DEF EditFails
<1>2. PICK last \in {{}} \cup {{i} : i \in editor[h].doomed} :
        /\ hosted' = hosted \ last
        /\ lost' = (lost \cup editor[h].gone \cup last) \cap Remembered'
  BY DEF EditFails
<1>3. last \subseteq editor[h].doomed
  BY <1>2
<1>4. /\ editor' \in [Editors -> EditorStates] /\ editor'[h] = IdleEditor
      /\ \A k \in Editors \ {h} : editor'[k] = editor[k]
  BY <1>1, EditorAtStep, IdleEditorTyped
<1>5. \A k \in Editors : EditorFits(editor'[k]) /\ UploadComesFirst(editor'[k])
  BY <1>4, IdleEditorTyped DEF PictureInv
<1>6. Shown' = Shown /\ Shown' \subseteq Remembered'
  BY <1>1 DEF Shown, Remembered
<1>7. Remembered' \subseteq Images
  <2>1. Shown' \subseteq Images
    BY <1>6, EditorAtStep DEF Shown, Displays
  <2>2. \A k \in Editors : editor'[k].copy.gallery \subseteq Images
    BY <1>4 DEF EditorStates, Displays
  <2> QED BY <2>1, <2>2 DEF Remembered
<1>8. PictureTypeOK'
  BY <1>1, <1>2, <1>4, <1>7 DEF PictureInv, PictureTypeOK
<1>9. \A k \in Editors : editor'[k].copy = NoDisplay \/ editor'[k].copy = editor[k].copy
  BY <1>4, IdleEditorTyped
<1>10. Docs' \subseteq Docs \cup {NoDisplay}
  <2> SUFFICES ASSUME NEW d \in Docs' PROVE d \in Docs \cup {NoDisplay}
    OBVIOUS
  <2>1. d = display \/ \E k \in Editors : d = editor'[k].copy
    BY <1>1 DEF Docs
  <2> QED BY <1>9, <2>1 DEF Docs
<1>11. KindsAreApart'
  BY <1>10, DocsTyped, IdleEditorTyped DEF PictureInv, KindsAreApart
<1>12. UploadsAreNew'
  <2> SUFFICES ASSUME NEW k \in Editors, editor'[k].new # NoImage
               PROVE  /\ editor'[k].new \in hosted'
                      /\ \A d \in Docs' : editor'[k].new # d.main /\ editor'[k].new \notin d.gallery
                      /\ \A g \in Editors \ {k} : editor'[k].new # editor'[g].new
    BY DEF UploadsAreNew
  <2>1. k # h /\ editor'[k] = editor[k]
    BY <1>4, IdleEditorTyped
  <2>2. /\ editor[k].new \in hosted
        /\ \A d \in Docs : editor[k].new # d.main /\ editor[k].new \notin d.gallery
        /\ \A g \in Editors \ {k} : editor[k].new # editor[g].new
    BY <2>1 DEF PictureInv, UploadsAreNew
  <2>3. editor[k].new \notin last
    BY <1>3, <2>1, DeletionsAreKnown
  <2>4. \A g \in Editors \ {k} : editor'[k].new # editor'[g].new
    BY <1>4, <2>1, <2>2, IdleEditorTyped
  <2> QED BY <1>2, <1>10, <2>1, <2>2, <2>3, <2>4, IdleEditorTyped
<1>13. \A x \in Remembered' : x \in Excused => x \in Excused'
  <2> SUFFICES ASSUME NEW x \in Remembered', x \in Excused PROVE x \in Excused'
    OBVIOUS
  <2>1. CASE x \in hosted \cup lost \cup editor[h].gone
    BY <1>2, <2>1 DEF Excused
  <2>2. CASE \E k \in Editors \ {h} : x \in editor[k].gone
    BY <1>4, <2>2 DEF Excused
  <2>3. x \in hosted \cup lost \cup editor[h].gone \/ \E k \in Editors \ {h} : x \in editor[k].gone
    BY DEF Excused
  <2> QED BY <2>1, <2>2, <2>3
<1>14. GalleriesAreExcused'
  <2> SUFFICES ASSUME display.alive
               PROVE  /\ Shown' \subseteq Excused'
                      /\ \A k \in Editors : editor'[k].current => editor'[k].copy.gallery \subseteq Excused'
    BY <1>1 DEF GalleriesAreExcused
  <2>1. Shown' \subseteq Excused'
    BY <1>6, <1>13 DEF PictureInv, GalleriesAreExcused
  <2>2. ASSUME NEW k \in Editors, editor'[k].current, NEW x \in editor'[k].copy.gallery
        PROVE  x \in Excused'
    <3>1. k # h /\ editor'[k] = editor[k]
      BY <1>4, <2>2, IdleEditorTyped
    <3>2. x \in Excused
      BY <2>2, <3>1 DEF PictureInv, GalleriesAreExcused
    <3>3. x \in Remembered'
      BY <2>2 DEF Remembered
    <3> QED BY <1>13, <3>2, <3>3
  <2> QED BY <2>1, <2>2
<1> QED BY <1>1, <1>5, <1>8, <1>11, <1>12, <1>14 DEF PictureInv

\* (The invariant reads only the variables.)
LEMMA PicturesStutter == ASSUME PictureInv, UNCHANGED pictureVars PROVE PictureInv'
<1>1. /\ display' = display /\ editor' = editor /\ hosted' = hosted /\ lost' = lost /\ kind' = kind
  BY DEF pictureVars
<1>2. Docs' = Docs /\ Excused' = Excused /\ Shown' = Shown
  BY <1>1 DEF Docs, Excused, Shown
<1>3. PictureTypeOK' /\ KindsAreApart'
  BY <1>1, <1>2 DEF PictureInv, PictureTypeOK, KindsAreApart
<1>4. UploadsAreNew'
  BY <1>1, <1>2 DEF PictureInv, UploadsAreNew
<1>5. GalleriesAreExcused'
  BY <1>1, <1>2 DEF PictureInv, GalleriesAreExcused
<1> QED BY <1>1, <1>3, <1>4, <1>5 DEF PictureInv

LEMMA PictureSteps == PictureInv /\ [PictureNext]_pictureVars => PictureInv'
<1> SUFFICES ASSUME PictureInv, [PictureNext]_pictureVars PROVE PictureInv'
  OBVIOUS
<1>1. CASE UNCHANGED pictureVars
  BY <1>1, PicturesStutter
<1>2. ASSUME NEW h \in Editors,
             \/ Ask(h) \/ ReadDisplay(h) \/ Upload(h) \/ Remove(h)
             \/ SetMain(h) \/ ClearMain(h) \/ PushToGallery(h) \/ AppendToGallery(h)
             \/ SpliceGallery(h) \/ Erase(h) \/ SendBack(h) \/ EditFails(h)
      PROVE  PictureInv'
  <2>1. CASE Ask(h) \/ ReadDisplay(h) \/ Upload(h) \/ Remove(h)
    BY <2>1, AskKeeps, ReadDisplayKeeps, UploadKeeps, RemoveKeeps
  <2>2. CASE SetMain(h) \/ ClearMain(h) \/ PushToGallery(h) \/ AppendToGallery(h)
    BY <2>2, SetMainKeeps, ClearMainKeeps, PushToGalleryKeeps, AppendToGalleryKeeps
  <2>3. CASE SpliceGallery(h) \/ Erase(h) \/ SendBack(h) \/ EditFails(h)
    BY <2>3, SpliceGalleryKeeps, EraseKeeps, SendBackKeeps, EditFailsKeeps
  <2> QED BY <1>2, <2>1, <2>2, <2>3
<1> QED BY <1>1, <1>2 DEF PictureNext

\* A picture that is shown is hosted, or its deletion is accounted for.
LEMMA ShownStayHosted == PictureSpec => []ShownIsHosted
<1>1. PictureInv => ShownIsHosted
  BY DEF PictureInv, GalleriesAreExcused, ShownIsHosted, Excused, Shown
<1> QED BY <1>1, PicturesStart, PictureSteps, PTL DEF PictureSpec

-----------------------------------------------------------------------------
(* Premium features.                                                       *)

InHand(h) == hook[h].step \in {"flag", "save"}

\* The last event of a subscription holds its present state; the creation is the first.
EventFits(i) ==
  /\ events[i].kind = "deleted" <=> events[i].status = "canceled"
  /\ events[i].kind = "created" => \A j \in 1..Len(events) : j < i => events[j].sub # events[i].sub

Untold(s) ==
  /\ sub[s].status \in {"none", "session"} /\ sub[s].cancelling = FALSE
  /\ \A i \in 1..Len(events) : events[i].sub # s

LastTold(s, i) ==
  /\ events[i].sub = s /\ events[i].status = sub[s].status /\ events[i].cancelling = sub[s].cancelling
  /\ \A j \in 1..Len(events) : i < j => events[j].sub # s

EventsFit ==
  /\ \A i \in 1..Len(events) : EventFits(i)
  /\ \A s \in Subs : \/ Untold(s)
                     \/ /\ sub[s].status \notin {"none", "session"}
                        /\ \E i \in 1..Len(events) : LastTold(s, i)

\* Only a subscription that is stored is cancelled, and it is not forgotten.
CancelFits(h) ==
  /\ hook[h].step = "cancel" => feature[hook[h].feature].sub # NoSub
  /\ InHand(h) => /\ hook[h].event \in 1..Len(events)
                  /\ \/ hook[h].new.sub # NoSub
                     \/ hook[h].new.sub = hook[h].copy.sub /\ events[hook[h].event].kind # "created"

\* The events come in their order, and the handler of one is done before the next.
OneAtATime ==
  /\ \E n \in 0..Len(events) : handled = 1..n /\ \A h \in Hooks : InHand(h) => hook[h].event = n
  /\ \A h, k \in Hooks : InHand(h) /\ InHand(k) => h = k

\* A handler has read what is stored.
HookFits(h) ==
  LET e == events[hook[h].event]
      f == hook[h].feature
  IN
  /\ hook[h].event \in handled
  /\ f = sub[e.sub].feature /\ hook[h].copy = feature[f] /\ hook[h].new = Told(e, feature[f])
  /\ hook[h].step = "flag" => f = "sms"
  /\ hook[h].step = "save" /\ f = "sms" /\ e.kind = "deleted" => tenantSms = FALSE

\* What is stored of a feature comes from an event of one of its subscriptions.
FeatureFits(f) ==
  /\ feature[f].sub # NoSub =>
       /\ sub[feature[f].sub].feature = f
       /\ \E i \in handled : events[i].sub = feature[f].sub
  /\ feature[f].sub = NoSub /\ (\A h \in Hooks : InHand(h) => hook[h].feature # f) =>
       feature[f].enabled = FALSE /\ (f = "sms" => tenantSms = FALSE)

\* i is the last event of s that was handled and stored.
LastStored(s, i) ==
  /\ events[i].sub = s
  /\ \A j \in handled : i < j => events[j].sub # s
  /\ \A h \in Hooks : InHand(h) => hook[h].event # i

\* The only subscription to a feature is stored as its last event told.
StoredAsTold(f, s) ==
  SubsOf(f) = {s} => \A i \in handled :
    LastStored(s, i) /\ (f = "sms" => events[i].kind # "created") =>
      /\ feature[f].enabled = InForce(events[i])
      /\ f = "sms" /\ events[i].kind = "deleted" => tenantSms = FALSE

Ordered ==
  /\ OneAtATime
  /\ \A h \in Hooks : InHand(h) => HookFits(h)
  /\ \A f \in Features : FeatureFits(f)
  /\ \A f \in Features, s \in Subs : StoredAsTold(f, s)

PremiumInv ==
  /\ PremiumTypeOK
  /\ EventsFit
  /\ \A h \in Hooks : CancelFits(h)
  /\ disturbed = FALSE => Ordered

\* What a step of no handler of events does to the requests.
QuietHooks ==
  \A h \in Hooks :
    \/ hook'[h] = hook[h]
    \/ /\ ~InHand(h) /\ ~InHand(h)'
       /\ hook'[h].step = "cancel" => feature[hook'[h].feature].sub # NoSub

LEMMA IdleHookTyped ==
  /\ IdleHook \in HookStates /\ NoFeature \in StoredFeatures
  /\ IdleHook.step = "idle" /\ NoFeature.enabled = FALSE /\ NoFeature.sub = NoSub
  /\ Cardinality(Hooks) \in Nat /\ MaxEvents \in Nat
<1>1. Cardinality(Hooks) \in Nat /\ MaxEvents \in Nat
  BY PremiumAssumption, FS_CardinalityType
<1>2. NoFeature \in StoredFeatures
  BY DEF NoFeature, StoredFeatures
<1>3. IdleHook \in HookStates
  BY <1>1, <1>2 DEF IdleHook, HookStates, HookSteps, Features
<1> QED BY <1>1, <1>2, <1>3 DEF IdleHook, NoFeature

LEMMA PremiumStarts == PremiumInit => PremiumInv
<1> SUFFICES ASSUME PremiumInit PROVE PremiumInv
  OBVIOUS
<1>1. /\ events = <<>> /\ handled = {} /\ customers = 0 /\ customer = 0 /\ tenantSms = FALSE /\ disturbed = FALSE
      /\ Len(events) = 0 /\ 1..0 = {} /\ events \in Seq(Events)
  BY DEF PremiumInit
<1>2. \A h \in Hooks : hook[h] = IdleHook /\ ~InHand(h)
  BY IdleHookTyped DEF PremiumInit, InHand
<1>3. \A s \in Subs : sub[s] \in StripeSubs /\ sub[s].status = "none" /\ sub[s].cancelling = FALSE
  BY IdleHookTyped DEF PremiumInit, StripeSubs, SubStates, Features
<1>4. \A f \in Features : feature[f] = NoFeature
  BY DEF PremiumInit
<1>5. PremiumTypeOK
  <2>1. sub \in [Subs -> StripeSubs]
    BY <1>3 DEF PremiumInit
  <2>2. feature \in [Features -> StoredFeatures]
    BY IdleHookTyped DEF PremiumInit
  <2>3. hook \in [Hooks -> HookStates]
    BY IdleHookTyped DEF PremiumInit
  <2>4. 0 \in 0..Cardinality(Hooks) /\ 0 <= MaxEvents
    BY IdleHookTyped
  <2> QED BY <1>1, <2>1, <2>2, <2>3, <2>4 DEF PremiumTypeOK
<1>6. EventsFit
  BY <1>1, <1>3 DEF EventsFit, EventFits, Untold
<1>7. OneAtATime
  <2>1. 0 \in 0..Len(events) /\ handled = 1..0
    BY <1>1
  <2> QED BY <1>2, <2>1 DEF OneAtATime
<1>8. \A f \in Features : FeatureFits(f)
  BY <1>1, <1>4, IdleHookTyped DEF FeatureFits
<1>9. \A f \in Features, s \in Subs : StoredAsTold(f, s)
  BY <1>1 DEF StoredAsTold
<1>10. \A h \in Hooks : CancelFits(h)
  BY <1>2, IdleHookTyped DEF CancelFits
<1> QED BY <1>2, <1>5, <1>6, <1>7, <1>8, <1>9, <1>10 DEF PremiumInv, Ordered

\* An event stays what it was, a subscription that has begun stays with its feature, and
\* handlers of events go on: nothing changes for what is stored.
LEMMA QuietKeeps ==
  ASSUME PremiumInv, PremiumTypeOK', EventsFit', UNCHANGED <<handled, feature, tenantSms, disturbed>>,
         Len(events) <= Len(events'), Len(events') \in Nat,
         \A i \in 1..Len(events) : events'[i] = events[i],
         QuietHooks,
         \A s \in Subs : sub[s].status # "none" => /\ sub'[s].status # "none"
                                                   /\ sub'[s].feature = sub[s].feature
  PROVE  PremiumInv'
<1>9. ASSUME NEW h \in Hooks PROVE CancelFits(h)'
  <2>1. CancelFits(h) /\ Len(events) \in Nat
    BY DEF PremiumInv, PremiumTypeOK
  <2>2. CASE hook'[h] = hook[h]
    <3>1. hook[h].event \in 1..Len(events) => hook[h].event \in 1..Len(events')
      BY <2>1
    <3> QED BY <2>1, <2>2, <3>1 DEF CancelFits, InHand
  <2>3. CASE /\ ~InHand(h) /\ ~InHand(h)'
             /\ hook'[h].step = "cancel" => feature[hook'[h].feature].sub # NoSub
    BY <2>3 DEF CancelFits
  <2> QED BY <2>2, <2>3 DEF QuietHooks
<1> SUFFICES ASSUME disturbed = FALSE PROVE Ordered'
  BY <1>9 DEF PremiumInv
<1>10. \A h \in Hooks : (InHand(h) => hook'[h] = hook[h]) /\ (InHand(h)' => InHand(h))
  BY DEF QuietHooks, InHand
<1>1. /\ Ordered /\ PremiumTypeOK /\ EventsFit /\ handled' = handled /\ feature' = feature /\ tenantSms' = tenantSms
  BY DEF PremiumInv
<1>2. /\ Len(events) \in Nat /\ \A i \in 1..Len(events) : events[i] \in Events /\ events[i].sub \in Subs
      /\ \A i \in handled : i \in 1..Len(events)
  <2>1. Len(events) \in Nat /\ \A i \in 1..Len(events) : events[i] \in Events
    BY <1>1 DEF PremiumTypeOK
  <2>2. \A i \in handled : i \in 1..Len(events)
    BY <1>1, <2>1 DEF Ordered, OneAtATime
  <2> QED BY <2>1, <2>2 DEF Events
<1>3. \A i \in handled : events'[i] = events[i] /\ sub[events[i].sub].status # "none"
  BY <1>1, <1>2 DEF EventsFit, Untold
<1>4. \A i \in handled : sub'[events[i].sub].feature = sub[events[i].sub].feature
  BY <1>2, <1>3
<1>5. OneAtATime'
  <2>1. PICK n \in 0..Len(events) : handled = 1..n /\ \A h \in Hooks : InHand(h) => hook[h].event = n
    BY <1>1 DEF Ordered, OneAtATime
  <2>2. n \in 0..Len(events') /\ handled' = 1..n /\ \A h \in Hooks : InHand(h)' => hook'[h].event = n
    BY <1>1, <1>2, <1>10, <2>1
  <2>3. \A h, k \in Hooks : InHand(h)' /\ InHand(k)' => h = k
    BY <1>1, <1>10 DEF Ordered, OneAtATime
  <2> QED BY <2>2, <2>3 DEF OneAtATime
<1>6. ASSUME NEW h \in Hooks, InHand(h)' PROVE HookFits(h)'
  <2>1. InHand(h) /\ hook'[h] = hook[h] /\ HookFits(h)
    BY <1>1, <1>6, <1>10 DEF Ordered
  <2>2. hook[h].event \in handled /\ events'[hook[h].event] = events[hook[h].event]
    BY <1>3, <2>1 DEF HookFits
  <2>3. sub'[events[hook[h].event].sub].feature = sub[events[hook[h].event].sub].feature
    BY <1>4, <2>2
  <2> QED BY <1>1, <2>1, <2>2, <2>3 DEF HookFits, Told, InForce
<1>7. ASSUME NEW f \in Features PROVE FeatureFits(f)'
  <2>1. FeatureFits(f)
    BY <1>1 DEF Ordered
  <2>2. (\A h \in Hooks : InHand(h)' => hook'[h].feature # f) => \A h \in Hooks : InHand(h) => hook[h].feature # f
    BY <1>10 DEF InHand
  <2>3. feature[f].sub # NoSub => /\ sub'[feature[f].sub].feature = f
                                  /\ \E i \in handled : events'[i].sub = feature[f].sub
    BY <1>3, <1>4, <2>1 DEF FeatureFits
  <2> QED BY <1>1, <2>1, <2>2, <2>3 DEF FeatureFits
<1>8. ASSUME NEW f \in Features, NEW s \in Subs PROVE StoredAsTold(f, s)'
  <2> SUFFICES ASSUME SubsOf(f)' = {s}, NEW i \in handled, LastStored(s, i)',
                      f = "sms" => events[i].kind # "created"
               PROVE  /\ feature[f].enabled = InForce(events[i])
                      /\ f = "sms" /\ events[i].kind = "deleted" => tenantSms = FALSE
    BY <1>1, <1>3 DEF StoredAsTold, InForce
  <2>1. events[i].sub = s
    BY <1>3 DEF LastStored
  <2>2. SubsOf(f) = {s}
    <3>1. sub[s].status # "none" /\ sub'[s].feature = f
      BY <1>3, <2>1 DEF SubsOf
    <3>2. s \in SubsOf(f)
      BY <3>1 DEF SubsOf
    <3>3. SubsOf(f) \subseteq SubsOf(f)'
      BY DEF SubsOf
    <3> QED BY <3>2, <3>3
  <2>3. LastStored(s, i)
    <3>1. \A j \in handled : i < j => events[j].sub # s
      BY <1>1, <1>3 DEF LastStored
    <3>2. \A h \in Hooks : InHand(h) => hook[h].event # i
      BY <1>10 DEF LastStored, InHand
    <3> QED BY <2>1, <3>1, <3>2 DEF LastStored
  <2> QED BY <1>1, <2>2, <2>3 DEF Ordered, StoredAsTold
<1> QED BY <1>5, <1>6, <1>7, <1>8 DEF Ordered

\* An event is appended.
LEMMA ReportsKeeps ==
  ASSUME PremiumInv, NEW s \in Subs, NEW type \in {"created", "updated", "deleted"},
         NEW new \in StripeSubs, Reports(s, type, new),
         new.feature = sub[s].feature, new.status \notin {"none", "session"}, sub[s].status # "none",
         type = "created" => sub[s].status = "session", type = "deleted" <=> new.status = "canceled",
         hook' \in [Hooks -> HookStates], QuietHooks
  PROVE  PremiumInv'
<1>11. PICK n \in Nat : n = Len(events)
  BY DEF PremiumInv, PremiumTypeOK
<1> DEFINE e == [kind |-> type, sub |-> s, status |-> new.status, cancelling |-> new.cancelling]
<1>1. /\ n < MaxEvents /\ sub' = [sub EXCEPT ![s] = new] /\ events' = Append(events, e)
      /\ UNCHANGED <<handled, customers, feature, customer, tenantSms, disturbed>>
  BY <1>11 DEF Reports
<1>2. /\ PremiumTypeOK /\ EventsFit /\ events \in Seq(Events) /\ n \in Nat /\ sub \in [Subs -> StripeSubs]
      /\ MaxEvents \in Nat
  BY <1>11, IdleHookTyped DEF PremiumInv, PremiumTypeOK
<1>3. /\ e \in Events /\ e.kind = type /\ e.sub = s /\ e.status = new.status /\ e.cancelling = new.cancelling
  BY DEF Events, StripeSubs
<1> HIDE DEF e
<1>4. /\ events' \in Seq(Events) /\ Len(events') = n + 1 /\ events'[n + 1] = e
      /\ \A i \in 1..n : events'[i] = events[i]
  BY <1>1, <1>2, <1>3, <1>11
<1>5. /\ sub' \in [Subs -> StripeSubs] /\ sub'[s] = new /\ \A t \in Subs \ {s} : sub'[t] = sub[t]
  BY <1>1, <1>2
<1>6. PremiumTypeOK'
  <2>1. Len(events') <= MaxEvents
    BY <1>1, <1>2, <1>4
  <2> QED BY <1>1, <1>2, <1>4, <1>5, <2>1 DEF PremiumTypeOK
<1>7. 1..(n + 1) = 1..n \cup {n + 1} /\ n + 1 \notin 1..n
  BY <1>2
<1>8. EventsFit'
  <2>1. ASSUME NEW i \in 1..(n + 1) PROVE EventFits(i)'
    <3>1. CASE i \in 1..n
      <4>1. \A j \in 1..(n + 1) : j < i => j \in 1..n
        BY <1>2, <3>1
      <4>2. EventFits(i)
        BY <1>2, <3>1, <1>11 DEF EventsFit
      <4> QED BY <1>4, <3>1, <4>1, <4>2, <1>11 DEF EventFits
    <3>2. CASE i = n + 1
      <4>1. type = "created" => \A j \in 1..n : events[j].sub # s
        BY <1>2, <1>11 DEF EventsFit, Untold
      <4>2. \A j \in 1..(n + 1) : j < i => j \in 1..n
        BY <1>2, <3>2
      <4> QED BY <1>3, <1>4, <3>2, <4>1, <4>2 DEF EventFits
    <3> QED BY <1>7, <3>1, <3>2
  <2>2. ASSUME NEW t \in Subs \ {s}
        PROVE  \/ Untold(t)'
               \/ /\ sub'[t].status \notin {"none", "session"}
                  /\ \E i \in 1..(n + 1) : LastTold(t, i)'
    <3>1. sub'[t] = sub[t]
      BY <1>5
    <3>2. CASE Untold(t)
      BY <1>3, <1>4, <1>7, <3>1, <3>2, <1>11 DEF Untold
    <3>3. CASE sub[t].status \notin {"none", "session"} /\ \E i \in 1..n : LastTold(t, i)
      <4>1. PICK i \in 1..n : LastTold(t, i)
        BY <3>3
      <4>2. \A j \in 1..(n + 1) : i < j => events'[j].sub # t
        BY <1>3, <1>4, <1>7, <4>1, <1>11 DEF LastTold
      <4>3. LastTold(t, i)'
        BY <1>4, <3>1, <4>1, <4>2 DEF LastTold
      <4> QED BY <1>7, <3>1, <3>3, <4>3
    <3> QED BY <1>2, <3>2, <3>3, <1>11 DEF EventsFit
  <2>3. sub'[s].status \notin {"none", "session"} /\ \E i \in 1..(n + 1) : LastTold(s, i)'
    <3>1. n + 1 \in 1..(n + 1) /\ \A j \in 1..(n + 1) : ~(n + 1 < j)
      BY <1>2
    <3>2. PICK m \in 1..(n + 1) : m = n + 1
      BY <3>1
    <3>3. LastTold(s, m)'
      BY <1>3, <1>4, <1>5, <3>1, <3>2 DEF LastTold
    <3> QED BY <1>5, <3>3
  <2>4. ASSUME NEW t \in Subs
        PROVE  \/ Untold(t)'
               \/ /\ sub'[t].status \notin {"none", "session"}
                  /\ \E i \in 1..(n + 1) : LastTold(t, i)'
    BY <2>2, <2>3
  <2> QED BY <1>4, <2>1, <2>4 DEF EventsFit
<1>9. n <= Len(events') /\ Len(events') \in Nat
  BY <1>2, <1>4
<1>10. \A t \in Subs : sub[t].status # "none" => sub'[t].status # "none" /\ sub'[t].feature = sub[t].feature
  BY <1>5
<1> QED BY <1>1, <1>4, <1>6, <1>8, <1>9, <1>10, <1>11, QuietKeeps

\* What changes of a subscription.
LEMMA SubTyped ==
  ASSUME PremiumInv, NEW s \in Subs, NEW status \in SubStates
  PROVE  /\ sub[s] \in StripeSubs
         /\ LET new == [sub[s] EXCEPT !.status = status] IN
              new \in StripeSubs /\ new.status = status /\ new.feature = sub[s].feature
         /\ LET new == [sub[s] EXCEPT !.cancelling = TRUE] IN
              new \in StripeSubs /\ new.status = sub[s].status /\ new.feature = sub[s].feature
<1>1. sub[s] \in StripeSubs
  BY DEF PremiumInv, PremiumTypeOK
<1> QED BY <1>1 DEF StripeSubs

LEMMA StripeKeeps ==
  ASSUME PremiumInv, NEW s \in Subs,
         \/ SubscriptionBegins(s) \/ InvoicePaid(s) \/ InvoiceUnpaid(s) \/ SubscriptionEnds(s)
  PROVE  PremiumInv'
<1>1. hook' = hook /\ hook \in [Hooks -> HookStates]
  BY DEF SubscriptionBegins, InvoicePaid, InvoiceUnpaid, SubscriptionEnds, PremiumInv, PremiumTypeOK
<1>2. hook' \in [Hooks -> HookStates] /\ QuietHooks
  BY <1>1 DEF QuietHooks
<1>3. \A status \in SubStates : LET new == [sub[s] EXCEPT !.status = status] IN
        new \in StripeSubs /\ new.status = status /\ new.feature = sub[s].feature
  BY SubTyped
<1>4. CASE SubscriptionBegins(s)
  <2>1. PICK status \in {"incomplete", "active"} :
          Reports(s, "created", [sub[s] EXCEPT !.status = status])
    BY <1>4 DEF SubscriptionBegins
  <2> QED BY <1>2, <1>3, <1>4, <2>1, ReportsKeeps DEF SubscriptionBegins, SubStates
<1>5. CASE InvoicePaid(s)
  BY <1>2, <1>3, <1>5, ReportsKeeps DEF InvoicePaid, SubStates
<1>6. CASE InvoiceUnpaid(s)
  BY <1>2, <1>3, <1>6, ReportsKeeps DEF InvoiceUnpaid, SubStates
<1>7. CASE SubscriptionEnds(s)
  <2>1. sub[s].status # "none"
    BY <1>7 DEF SubscriptionEnds, PremiumInv, EventsFit, Untold
  <2> QED BY <1>2, <1>3, <1>7, <2>1, ReportsKeeps DEF SubscriptionEnds, SubStates
<1> QED BY <1>4, <1>5, <1>6, <1>7

\* A request that handles no event.
LEMMA HookMoves ==
  ASSUME PremiumInv, NEW h \in Hooks, ~InHand(h), NEW r \in HookStates, r.step \notin {"flag", "save"},
         r.step = "cancel" => feature[r.feature].sub # NoSub, hook' = [hook EXCEPT ![h] = r]
  PROVE  hook' \in [Hooks -> HookStates] /\ QuietHooks
<1>1. /\ hook' \in [Hooks -> HookStates] /\ hook'[h] = r /\ \A k \in Hooks \ {h} : hook'[k] = hook[k]
  BY DEF PremiumInv, PremiumTypeOK
<1> QED BY <1>1 DEF InHand, QuietHooks

\* Only requests change.
LEMMA RequestKeeps ==
  ASSUME PremiumInv, NEW h \in Hooks, ~InHand(h), NEW r \in HookStates, r.step \notin {"flag", "save"},
         r.step = "cancel" => feature[r.feature].sub # NoSub,
         hook' = [hook EXCEPT ![h] = r], UNCHANGED <<sub, events, handled, feature, tenantSms, disturbed>>,
         customers' \in 0..Cardinality(Hooks), customer' \in 0..Cardinality(Hooks)
  PROVE  PremiumInv'
<1>1. hook' \in [Hooks -> HookStates] /\ QuietHooks
  BY HookMoves
<1>2. PremiumTypeOK'
  BY <1>1 DEF PremiumInv, PremiumTypeOK
<1>3. EventsFit'
  BY DEF PremiumInv, EventsFit, EventFits, Untold, LastTold
<1>4. Len(events) \in Nat
  BY DEF PremiumInv, PremiumTypeOK
<1> QED BY <1>1, <1>2, <1>3, <1>4, QuietKeeps

LEMMA SubscribeKeeps ==
  ASSUME PremiumInv, NEW h \in Hooks, NEW f \in Features, Subscribe(h, f) \/ CancelFeature(h, f)
  PROVE  PremiumInv'
<1>1. PICK step \in {"customer", "session", "cancel"} :
        HookStarts(h, f, step) /\ (step = "cancel" => feature[f].sub # NoSub)
  BY DEF Subscribe, CancelFeature
<1>2. /\ UNCHANGED <<sub, events, handled, customers, feature, customer, tenantSms, disturbed>>
      /\ customers \in 0..Cardinality(Hooks) /\ customer \in 0..Cardinality(Hooks)
  BY DEF Subscribe, CancelFeature, PremiumInv, PremiumTypeOK
<1> DEFINE r == [IdleHook EXCEPT !.step = step, !.feature = f, !.customer = customer]
<1>3. ~InHand(h) /\ hook' = [hook EXCEPT ![h] = r]
  BY <1>1 DEF HookStarts, InHand
<1>4. r \in HookStates /\ r.step = step /\ r.feature = f
  <2>1. IdleHook \in HookStates /\ step \in HookSteps
    BY IdleHookTyped DEF HookSteps
  <2> QED BY <1>2, <2>1 DEF HookStates
<1> HIDE DEF r
<1> QED BY <1>1, <1>2, <1>3, <1>4, RequestKeeps

LEMMA CreateCustomerKeeps == ASSUME PremiumInv, NEW h \in Hooks, CreateCustomer(h) PROVE PremiumInv'
<1> DEFINE c == customers + 1
           r == [hook[h] EXCEPT !.step = "session", !.customer = c]
<1>1. hook \in [Hooks -> HookStates] /\ hook[h] \in HookStates /\ customers \in 0..Cardinality(Hooks)
  BY DEF PremiumInv, PremiumTypeOK
<1>2. c \in 0..Cardinality(Hooks)
  BY <1>1, IdleHookTyped DEF CreateCustomer
<1>3. customers' = c /\ customer' = c /\ hook' = [hook EXCEPT ![h] = r] /\ ~InHand(h)
      /\ UNCHANGED <<sub, events, handled, feature, tenantSms, disturbed>>
  BY <1>1 DEF CreateCustomer, InHand
<1> HIDE DEF c
<1>4. r \in HookStates /\ r.step = "session"
  BY <1>1, <1>2 DEF HookStates, HookSteps
<1> HIDE DEF r
<1> QED BY <1>2, <1>3, <1>4, RequestKeeps

LEMMA CreateSessionKeeps ==
  ASSUME PremiumInv, NEW h \in Hooks, NEW s \in Subs, CreateSession(h, s) PROVE PremiumInv'
<1> DEFINE f == hook[h].feature
           c == hook[h].customer
           new == [status |-> "session", cancelling |-> FALSE, feature |-> f, customer |-> c]
<1>1. /\ hook[h].step = "session" /\ sub[s].status = "none" /\ sub' = [sub EXCEPT ![s] = new]
      /\ hook' = [hook EXCEPT ![h] = IdleHook]
      /\ UNCHANGED <<events, handled, customers, feature, customer, tenantSms, disturbed>>
  BY DEF CreateSession, HookEnds
<1>2. PremiumTypeOK /\ EventsFit /\ hook[h] \in HookStates /\ sub \in [Subs -> StripeSubs]
  BY DEF PremiumInv, PremiumTypeOK
<1>3. f \in Features /\ c \in 0..Cardinality(Hooks)
  BY <1>2 DEF HookStates
<1> HIDE DEF f, c
<1>4. new \in StripeSubs /\ new.status = "session" /\ new.cancelling = FALSE
  BY <1>3 DEF StripeSubs, SubStates
<1> HIDE DEF new
<1>5. sub' \in [Subs -> StripeSubs] /\ sub'[s] = new /\ \A t \in Subs \ {s} : sub'[t] = sub[t]
  BY <1>1, <1>2, <1>4
<1>6. hook' \in [Hooks -> HookStates] /\ QuietHooks
  <2>1. ~InHand(h)
    BY <1>1 DEF InHand
  <2> QED BY <1>1, <2>1, HookMoves, IdleHookTyped
<1>7. PremiumTypeOK'
  BY <1>1, <1>2, <1>5, <1>6 DEF PremiumTypeOK
<1>8. EventsFit'
  <2>1. Untold(s)
    BY <1>1, <1>2 DEF EventsFit
  <2>2. Untold(s)'
    BY <1>1, <1>4, <1>5, <2>1 DEF Untold
  <2>3. \A i \in 1..Len(events) : EventFits(i)'
    BY <1>1, <1>2 DEF EventsFit, EventFits
  <2>4. ASSUME NEW t \in Subs \ {s}
        PROVE  \/ Untold(t)'
               \/ sub'[t].status \notin {"none", "session"} /\ \E i \in 1..Len(events) : LastTold(t, i)'
    <3>1. sub'[t] = sub[t]
      BY <1>5
    <3> QED BY <1>1, <1>2, <3>1 DEF EventsFit, Untold, LastTold
  <2> QED BY <1>1, <2>2, <2>3, <2>4 DEF EventsFit
<1>9. Len(events) \in Nat /\ \A t \in Subs : sub[t].status # "none" => sub'[t].status # "none" /\ sub'[t].feature = sub[t].feature
  BY <1>1, <1>2, <1>5 DEF PremiumTypeOK
<1> QED BY <1>1, <1>6, <1>7, <1>8, <1>9, QuietKeeps

LEMMA CancelAtPeriodEndKeeps ==
  ASSUME PremiumInv, NEW h \in Hooks, CancelAtPeriodEnd(h) PROVE PremiumInv'
<1> DEFINE s == feature[hook[h].feature].sub
<1>1. /\ hook[h].step = "cancel" /\ sub[s].status \in {"incomplete", "active", "past_due"}
      /\ Reports(s, "updated", [sub[s] EXCEPT !.cancelling = TRUE])
      /\ hook' = [hook EXCEPT ![h] = IdleHook]
  BY DEF CancelAtPeriodEnd, HookEnds
<1>2. hook' \in [Hooks -> HookStates] /\ QuietHooks
  <2>1. ~InHand(h)
    BY <1>1 DEF InHand
  <2> QED BY <1>1, <2>1, HookMoves, IdleHookTyped
<1>3. s \in Subs
  <2>1. hook[h].feature \in Features
    BY DEF PremiumInv, PremiumTypeOK, HookStates
  <2>2. s \in Subs \cup {NoSub}
    BY <2>1 DEF PremiumInv, PremiumTypeOK, StoredFeatures
  <2> QED BY <1>1, <2>2 DEF PremiumInv, CancelFits
<1> HIDE DEF s
<1>4. LET new == [sub[s] EXCEPT !.cancelling = TRUE] IN
        new \in StripeSubs /\ new.status = sub[s].status /\ new.feature = sub[s].feature
  BY <1>3, SubTyped DEF SubStates
<1> QED BY <1>1, <1>2, <1>3, <1>4, ReportsKeeps

\* What an event makes of a feature.
LEMMA ToldTyped ==
  ASSUME NEW e \in Events, NEW stored \in StoredFeatures
  PROVE  /\ Told(e, stored) \in StoredFeatures
         /\ e.kind = "deleted" => Told(e, stored).enabled = FALSE /\ Told(e, stored).sub = stored.sub
         /\ e.kind # "deleted" => Told(e, stored).enabled = InForce(e) /\ Told(e, stored).sub = e.sub
         /\ e.status = "canceled" => InForce(e) = FALSE
<1>1. InForce(e) \in BOOLEAN
  BY DEF InForce
<1>2. CASE e.kind = "deleted"
  BY <1>1, <1>2 DEF Told, StoredFeatures, SubStates, InForce
<1>3. CASE e.kind # "deleted"
  <2> DEFINE b == InForce(e)
  <2>1. Told(e, stored) = [enabled |-> b, status |-> e.status, sub |-> e.sub]
    BY <1>3 DEF Told
  <2>2. e.status = "canceled" => b = FALSE
    BY DEF InForce
  <2> HIDE DEF b
  <2> QED BY <1>1, <1>3, <2>1, <2>2 DEF StoredFeatures, Events, b
<1> QED BY <1>2, <1>3

\* The handler of an event has the last one that came.
LEMMA EventInHand ==
  ASSUME PremiumInv, disturbed = FALSE, NEW h \in Hooks, InHand(h)
  PROVE  /\ HookFits(h) /\ hook[h].event \in handled /\ \A j \in handled : j <= hook[h].event
         /\ events[hook[h].event].sub \in SubsOf(hook[h].feature)
         /\ \A k \in Hooks : InHand(k) => k = h
<1>1. Ordered /\ HookFits(h) /\ hook[h].event \in handled /\ hook[h].event \in 1..Len(events)
  BY DEF PremiumInv, Ordered, HookFits, CancelFits
<1>2. PICK n \in 0..Len(events) : handled = 1..n /\ hook[h].event = n
  BY <1>1 DEF Ordered, OneAtATime
<1>3. events[hook[h].event] \in Events /\ Len(events) \in Nat
  BY <1>1 DEF PremiumInv, PremiumTypeOK
<1>4. sub[events[hook[h].event].sub].status # "none"
  BY <1>1, <1>3 DEF PremiumInv, EventsFit, Untold, Events
<1>5. events[hook[h].event].sub \in SubsOf(hook[h].feature)
  BY <1>1, <1>3, <1>4 DEF HookFits, SubsOf, Events
<1>6. \A k \in Hooks : InHand(k) => k = h
  BY <1>1 DEF Ordered, OneAtATime
<1>7. \A j \in handled : j <= hook[h].event
  BY <1>2, <1>3
<1> QED BY <1>1, <1>5, <1>6, <1>7

\* What is stored comes from a subscription of the feature.
LEMMA StoredIsOwn ==
  ASSUME PremiumInv, disturbed = FALSE, NEW f \in Features, feature[f].sub # NoSub
  PROVE  feature[f].sub \in SubsOf(f)
<1>1. PICK i \in handled : events[i].sub = feature[f].sub /\ sub[feature[f].sub].feature = f
  BY DEF PremiumInv, Ordered, FeatureFits
<1>2. i \in 1..Len(events) /\ events[i] \in Events
  BY <1>1 DEF PremiumInv, PremiumTypeOK, Ordered, OneAtATime
<1>3. events[i].sub \in Subs /\ sub[events[i].sub].status # "none"
  BY <1>2 DEF PremiumInv, EventsFit, Untold, Events
<1> QED BY <1>1, <1>3 DEF SubsOf

LEMMA ReceiveKeeps ==
  ASSUME PremiumInv, NEW h \in Hooks, NEW i \in 1..Len(events), Receive(h, i) PROVE PremiumInv'
<1> DEFINE e == events[i]
           f == sub[e.sub].feature
           step == IF Flags(e, f) THEN "flag" ELSE "save"
           new == Told(e, feature[f])
           r == [IdleHook EXCEPT !.step = step, !.event = i, !.feature = f,
                                 !.copy = feature[f], !.new = new]
<1>1. /\ hook[h].step = "idle" /\ handled' = handled \cup {i}
      /\ disturbed' = (disturbed \/ handled # 1..(i - 1)
                                 \/ \E k \in Hooks : hook[k].step \in {"flag", "save"})
      /\ IF Concerned(e) THEN hook' = [hook EXCEPT ![h] = r] ELSE hook' = hook
      /\ UNCHANGED <<sub, events, customers, feature, customer, tenantSms>>
  BY DEF Receive
<1>2. /\ PremiumTypeOK /\ EventsFit /\ e \in Events /\ e.sub \in Subs /\ f \in Features /\ feature[f] \in StoredFeatures
      /\ Len(events) \in Nat /\ Len(events) <= MaxEvents /\ MaxEvents \in Nat
      /\ hook \in [Hooks -> HookStates] /\ feature \in [Features -> StoredFeatures]
  <2>1. /\ PremiumTypeOK /\ EventsFit /\ Len(events) \in Nat /\ Len(events) <= MaxEvents /\ MaxEvents \in Nat
        /\ hook \in [Hooks -> HookStates] /\ feature \in [Features -> StoredFeatures]
        /\ sub \in [Subs -> StripeSubs] /\ e \in Events
    BY IdleHookTyped DEF PremiumInv, PremiumTypeOK
  <2>2. e.sub \in Subs
    BY <2>1 DEF Events
  <2>3. f \in Features
    BY <2>1, <2>2 DEF StripeSubs
  <2> QED BY <2>1, <2>2, <2>3
<1>3. /\ new \in StoredFeatures
      /\ e.kind = "deleted" => new.enabled = FALSE /\ new.sub = feature[f].sub
      /\ e.kind # "deleted" => new.enabled = InForce(e) /\ new.sub = e.sub
      /\ e.status = "canceled" => InForce(e) = FALSE
  BY <1>2, ToldTyped
<1>4. /\ step \in {"flag", "save"} /\ (step = "flag" => f = "sms")
      /\ step = "save" /\ f = "sms" => e.kind # "deleted"
  BY DEF Flags
<1> HIDE DEF step, f, new, e
<1>5. /\ r \in HookStates /\ r.step = step /\ r.event = i /\ r.feature = f /\ r.copy = feature[f] /\ r.new = new
  <2>1. i \in 0..MaxEvents /\ step \in HookSteps
    BY <1>2, <1>4 DEF HookSteps
  <2> QED BY <1>2, <1>3, <2>1, IdleHookTyped DEF HookStates
<1> HIDE DEF r
<1>6. /\ hook' \in [Hooks -> HookStates] /\ \A k \in Hooks \ {h} : hook'[k] = hook[k]
      /\ Concerned(e) => hook'[h] = r
      /\ ~Concerned(e) => hook'[h] = hook[h]
  BY <1>1, <1>2, <1>5
<1>7. PremiumTypeOK'
  <2>1. handled' \in SUBSET (1..MaxEvents) /\ disturbed' \in BOOLEAN
    BY <1>1, <1>2 DEF PremiumTypeOK
  <2> QED BY <1>1, <1>2, <1>6, <2>1 DEF PremiumTypeOK
<1>8. EventsFit'
  BY <1>1, <1>2 DEF EventsFit, EventFits, Untold, LastTold
<1>9. ASSUME NEW k \in Hooks PROVE CancelFits(k)'
  <2>1. CASE hook'[k] = hook[k]
    BY <1>1, <2>1 DEF PremiumInv, CancelFits, InHand
  <2>2. CASE k = h /\ hook'[k] = r
    <3>1. new.sub # NoSub \/ (new.sub = feature[f].sub /\ e.kind # "created")
      BY <1>2, <1>3, PremiumAssumption
    <3> QED BY <1>1, <1>4, <1>5, <2>2, <3>1 DEF CancelFits, e
  <2> QED BY <1>6, <2>1, <2>2
<1>10. ASSUME disturbed' = FALSE PROVE Ordered'
  <2>1. disturbed = FALSE /\ handled = 1..(i - 1) /\ (\A k \in Hooks : ~InHand(k)) /\ Ordered
    BY <1>1, <1>10 DEF PremiumInv, PremiumTypeOK, InHand
  <2>2. /\ handled' = 1..i /\ i \in Nat /\ \A j \in handled : j < i /\ j \in 1..Len(events)
    BY <1>1, <1>2, <2>1
  <2>3. \A k \in Hooks : InHand(k)' => k = h /\ hook'[k] = r
    BY <1>6, <2>1 DEF InHand
  <2>4. OneAtATime'
    <3>1. i \in 0..Len(events') /\ \A k \in Hooks : InHand(k)' => hook'[k].event = i
      BY <1>1, <1>2, <1>5, <2>3
    <3>2. \A k, g \in Hooks : InHand(k)' /\ InHand(g)' => k = g
      BY <2>3
    <3> QED BY <2>2, <3>1, <3>2 DEF OneAtATime
  <2>5. ASSUME NEW k \in Hooks, InHand(k)' PROVE HookFits(k)'
    <3>1. hook'[k] = r /\ events' = events /\ sub' = sub /\ feature' = feature /\ i \in handled'
      BY <1>1, <2>3, <2>5
    <3> QED BY <1>4, <1>5, <3>1 DEF HookFits, e, f, new, Told, InForce
  <2>6. ASSUME NEW g \in Features PROVE FeatureFits(g)'
    BY <1>1, <2>1 DEF Ordered, FeatureFits
  <2>7. ASSUME NEW g \in Features, NEW s \in Subs PROVE StoredAsTold(g, s)'
    <3> SUFFICES ASSUME SubsOf(g)' = {s}, NEW j \in handled', LastStored(s, j)',
                        g = "sms" => events[j].kind # "created"
                 PROVE  /\ feature[g].enabled = InForce(events[j])
                        /\ g = "sms" /\ events[j].kind = "deleted" => tenantSms = FALSE
      BY <1>1 DEF StoredAsTold, InForce
    <3>1. SubsOf(g) = {s} /\ events[j].sub = s
      BY <1>1 DEF SubsOf, LastStored
    <3>2. CASE j \in handled
      <4>1. LastStored(s, j)
        BY <1>1, <2>1, <3>1 DEF LastStored
      <4> QED BY <2>1, <3>1, <3>2, <4>1 DEF Ordered, StoredAsTold
    <3>3. CASE j = i
      <4>1. ~Concerned(e) /\ e.sub = s
        BY <1>4, <1>5, <1>6, <3>1, <3>3 DEF LastStored, InHand, e
      <4>2. g = f
        BY <3>1, <4>1 DEF SubsOf, f
      <4>3. e.kind # "created"
        <5> SUFFICES ASSUME e.kind = "created" PROVE FALSE
          OBVIOUS
        <5>1. f = "noFee"
          BY <1>2, <3>3, <4>2 DEF Features, e
        <5>2. feature[f].sub = s /\ s # NoSub
          BY <1>2, <4>1, <5>1, PremiumAssumption DEF Concerned, SkipsCreation, f
        <5>3. PICK m \in handled : events[m].sub = s
          BY <1>2, <2>1, <5>2 DEF Ordered, FeatureFits
        <5>4. m < i /\ m \in 1..Len(events)
          BY <2>2
        <5> QED BY <1>2, <4>1, <5>3, <5>4 DEF EventsFit, EventFits, e
      <4>4. e.kind = "deleted"
        BY <1>2, <4>1, <4>3 DEF Concerned, Events
      <4>5. feature[f].sub # s
        BY <1>2, <4>1, <4>4 DEF Concerned
      <4>6. feature[f].sub = NoSub
        BY <1>2, <2>1, <3>1, <4>2, <4>5, StoredIsOwn
      <4>7. feature[f].enabled = FALSE /\ (f = "sms" => tenantSms = FALSE)
        BY <1>2, <2>1, <4>6 DEF Ordered, FeatureFits
      <4>8. InForce(e) = FALSE
        BY <1>2, <1>3, <4>4 DEF EventsFit, EventFits, e
      <4> QED BY <3>3, <4>2, <4>7, <4>8 DEF e
    <3> QED BY <1>1, <3>2, <3>3
  <2> QED BY <2>4, <2>5, <2>6, <2>7 DEF Ordered
<1> QED BY <1>7, <1>8, <1>9, <1>10 DEF PremiumInv

\* What is written of a feature.
Written(r, now) ==
  IF events[r.event].kind = "created" THEN r.new
  ELSE [enabled |-> IF r.new.enabled = r.copy.enabled THEN now.enabled ELSE r.new.enabled,
        status |-> IF r.new.status = r.copy.status THEN now.status ELSE r.new.status,
        sub |-> IF r.new.sub = r.copy.sub THEN now.sub ELSE r.new.sub]

LEMMA WrittenTyped ==
  ASSUME NEW r, r.new \in StoredFeatures, r.copy \in StoredFeatures, NEW now \in StoredFeatures
  PROVE  /\ Written(r, now) \in StoredFeatures
         /\ r.copy = now => Written(r, now) = r.new
         /\ Written(r, now).sub \in {now.sub, r.new.sub}
         /\ r.new.sub = r.copy.sub /\ events[r.event].kind # "created" => Written(r, now).sub = now.sub
<1>1. CASE events[r.event].kind = "created"
  BY <1>1 DEF Written
<1>2. CASE events[r.event].kind # "created"
  <2> DEFINE a == IF r.new.enabled = r.copy.enabled THEN now.enabled ELSE r.new.enabled
             b == IF r.new.status = r.copy.status THEN now.status ELSE r.new.status
             c == IF r.new.sub = r.copy.sub THEN now.sub ELSE r.new.sub
  <2>1. Written(r, now) = [enabled |-> a, status |-> b, sub |-> c]
    BY <1>2 DEF Written
  <2>2. /\ a \in BOOLEAN /\ b \in SubStates \cup {"inactive"} /\ c \in Subs \cup {NoSub}
        /\ r.copy = now => a = r.new.enabled /\ b = r.new.status /\ c = r.new.sub
        /\ c \in {now.sub, r.new.sub} /\ (r.new.sub = r.copy.sub => c = now.sub)
    BY DEF StoredFeatures
  <2>3. r.new = [enabled |-> r.new.enabled, status |-> r.new.status, sub |-> r.new.sub]
    BY DEF StoredFeatures
  <2> HIDE DEF a, b, c
  <2> QED BY <1>2, <2>1, <2>2, <2>3 DEF StoredFeatures
<1> QED BY <1>1, <1>2

LEMMA SaveFlagsKeeps == ASSUME PremiumInv, NEW h \in Hooks, SaveFlags(h) PROVE PremiumInv'
<1> DEFINE n == hook[h].event
           r == [hook[h] EXCEPT !.step = "save"]
<1>1. /\ hook[h].step = "flag" /\ tenantSms' = (events[n].kind # "deleted")
      /\ hook' = [hook EXCEPT ![h] = r]
      /\ UNCHANGED <<sub, events, handled, customers, feature, customer, disturbed>>
  BY DEF SaveFlags, PremiumInv, PremiumTypeOK
<1>2. PremiumTypeOK /\ EventsFit /\ hook \in [Hooks -> HookStates] /\ hook[h] \in HookStates /\ InHand(h)
  BY <1>1 DEF PremiumInv, PremiumTypeOK, InHand
<1>3. /\ r \in HookStates /\ r.step = "save" /\ r.event = n /\ r.feature = hook[h].feature
      /\ r.copy = hook[h].copy /\ r.new = hook[h].new
  BY <1>2 DEF HookStates, HookSteps
<1> HIDE DEF r, n
<1>4. hook' \in [Hooks -> HookStates] /\ hook'[h] = r /\ \A k \in Hooks \ {h} : hook'[k] = hook[k]
  BY <1>1, <1>2, <1>3
<1>5. tenantSms' \in BOOLEAN /\ (events[n].kind = "deleted" => tenantSms' = FALSE)
  BY <1>1
<1>6. PremiumTypeOK'
  BY <1>1, <1>2, <1>4, <1>5 DEF PremiumTypeOK
<1>7. EventsFit'
  BY <1>1, <1>2 DEF EventsFit, EventFits, Untold, LastTold
<1>8. \A k \in Hooks : InHand(k)' = InHand(k) /\ hook'[k].event = hook[k].event /\ hook'[k].feature = hook[k].feature
  BY <1>1, <1>3, <1>4 DEF InHand, n
<1>9. ASSUME NEW k \in Hooks PROVE CancelFits(k)'
  <2>1. CancelFits(k)
    BY DEF PremiumInv
  <2>2. CASE k = h
    BY <1>1, <1>2, <1>3, <1>4, <2>1, <2>2 DEF CancelFits, n
  <2>3. CASE k # h
    BY <1>1, <1>4, <1>8, <2>1, <2>3 DEF CancelFits
  <2> QED BY <2>2, <2>3
<1>10. ASSUME disturbed' = FALSE PROVE Ordered'
  <2>1. disturbed = FALSE /\ Ordered
    BY <1>1, <1>10 DEF PremiumInv
  <2>2. /\ HookFits(h) /\ n \in handled /\ \A j \in handled : j <= n
        /\ events[n].sub \in SubsOf(hook[h].feature)
        /\ \A k \in Hooks : InHand(k) => k = h
    BY <1>2, <2>1, EventInHand DEF n
  <2>3. hook[h].feature = "sms"
    BY <1>1, <2>2 DEF HookFits
  <2>4. OneAtATime'
    BY <1>1, <1>8, <2>1 DEF Ordered, OneAtATime
  <2>5. ASSUME NEW k \in Hooks, InHand(k)' PROVE HookFits(k)'
    <3>1. k = h
      BY <1>8, <2>2, <2>5
    <3> QED BY <1>1, <1>3, <1>4, <1>5, <2>2, <3>1 DEF HookFits, Told, InForce, n
  <2>6. ASSUME NEW g \in Features PROVE FeatureFits(g)'
    <3>1. CASE g = "sms"
      <4>1. ~(\A k \in Hooks : InHand(k)' => hook'[k].feature # g)
        BY <1>2, <1>8, <2>3, <3>1
      <4> QED BY <1>1, <2>1, <4>1 DEF Ordered, FeatureFits
    <3>2. CASE g # "sms"
      BY <1>1, <1>8, <2>1, <3>2 DEF Ordered, FeatureFits
    <3> QED BY <3>1, <3>2
  <2>7. ASSUME NEW g \in Features, NEW s \in Subs PROVE StoredAsTold(g, s)'
    <3> SUFFICES ASSUME SubsOf(g)' = {s}, NEW j \in handled, LastStored(s, j)',
                        g = "sms" => events[j].kind # "created"
                 PROVE  /\ feature[g].enabled = InForce(events[j])
                        /\ g = "sms" /\ events[j].kind = "deleted" => tenantSms' = FALSE
      BY <1>1 DEF StoredAsTold, InForce
    <3>1. SubsOf(g) = {s} /\ LastStored(s, j)
      BY <1>1, <1>8 DEF SubsOf, LastStored
    <3>2. g # "sms"
      <4> SUFFICES ASSUME g = "sms" PROVE FALSE
        OBVIOUS
      <4>1. events[n].sub = s /\ n # j
        BY <1>2, <2>2, <2>3, <3>1 DEF LastStored, n
      <4>2. handled \subseteq Nat
        BY <1>2 DEF PremiumTypeOK
      <4>3. j < n
        BY <2>2, <4>1, <4>2
      <4> QED BY <2>2, <3>1, <4>1, <4>3 DEF LastStored
    <3> QED BY <2>1, <3>1, <3>2 DEF Ordered, StoredAsTold
  <2> QED BY <2>4, <2>5, <2>6, <2>7 DEF Ordered
<1> QED BY <1>6, <1>7, <1>9, <1>10 DEF PremiumInv

LEMMA SaveFeatureKeeps == ASSUME PremiumInv, NEW h \in Hooks, SaveFeature(h) PROVE PremiumInv'
<1> DEFINE n == hook[h].event
           f == hook[h].feature
           new == Written(hook[h], feature[f])
<1>1. /\ hook[h].step = "save" /\ feature' = [feature EXCEPT ![f] = new]
      /\ hook' = [hook EXCEPT ![h] = IdleHook]
      /\ UNCHANGED <<sub, events, handled, customers, customer, tenantSms, disturbed>>
  BY DEF SaveFeature, HookEnds, Written, PremiumInv, PremiumTypeOK
<1>2. /\ PremiumTypeOK /\ EventsFit /\ hook \in [Hooks -> HookStates] /\ hook[h] \in HookStates /\ InHand(h)
      /\ feature \in [Features -> StoredFeatures]
  BY <1>1 DEF PremiumInv, PremiumTypeOK, InHand
<1>3. f \in Features /\ feature[f] \in StoredFeatures /\ hook[h].new \in StoredFeatures /\ hook[h].copy \in StoredFeatures
  BY <1>2 DEF HookStates
<1>4. /\ new \in StoredFeatures /\ (hook[h].copy = feature[f] => new = hook[h].new)
      /\ new.sub \in {feature[f].sub, hook[h].new.sub}
      /\ hook[h].new.sub = hook[h].copy.sub /\ events[n].kind # "created" => new.sub = feature[f].sub
  BY <1>3, WrittenTyped
<1> HIDE DEF new, f, n
<1>5. hook' \in [Hooks -> HookStates] /\ hook'[h] = IdleHook /\ \A k \in Hooks \ {h} : hook'[k] = hook[k]
  BY <1>1, <1>2, IdleHookTyped
<1>6. /\ feature' \in [Features -> StoredFeatures] /\ feature'[f] = new
      /\ \A g \in Features \ {f} : feature'[g] = feature[g]
  BY <1>1, <1>2, <1>3, <1>4
<1>7. PremiumTypeOK'
  BY <1>1, <1>2, <1>5, <1>6 DEF PremiumTypeOK
<1>8. EventsFit'
  BY <1>1, <1>2 DEF EventsFit, EventFits, Untold, LastTold
<1>9. ASSUME NEW k \in Hooks PROVE CancelFits(k)'
  <2>1. CASE k = h
    BY <1>5, <2>1, IdleHookTyped DEF CancelFits, InHand
  <2>2. CASE k # h
    <3>1. CancelFits(k) /\ hook'[k] = hook[k] /\ hook[k].feature \in Features
      BY <1>2, <1>5, <2>2 DEF PremiumInv, HookStates
    <3>2. \/ hook[h].new.sub # NoSub
          \/ hook[h].new.sub = hook[h].copy.sub /\ events[n].kind # "created"
      BY <1>2 DEF PremiumInv, CancelFits, n
    <3>3. feature[f].sub # NoSub => new.sub # NoSub
      BY <1>4, <3>2
    <3>4. hook[k].step = "cancel" => feature'[hook[k].feature].sub # NoSub
      BY <1>6, <3>1, <3>3 DEF CancelFits
    <3> QED BY <1>1, <3>1, <3>4 DEF CancelFits, InHand
  <2> QED BY <2>1, <2>2
<1>10. ASSUME disturbed' = FALSE PROVE Ordered'
  <2> DEFINE e == events[n]
  <2>1. disturbed = FALSE /\ Ordered
    BY <1>1, <1>10 DEF PremiumInv
  <2>2. /\ HookFits(h) /\ n \in handled /\ (\A j \in handled : j <= n) /\ e.sub \in SubsOf(f)
        /\ \A k \in Hooks : InHand(k) => k = h
    BY <1>2, <2>1, EventInHand DEF n, f
  <2>3. /\ n \in 1..Len(events) /\ e \in Events /\ e.sub \in Subs /\ handled \subseteq Nat
        /\ e.kind = "deleted" => e.status = "canceled"
    <3>1. n \in 1..Len(events)
      BY <1>2 DEF PremiumInv, CancelFits, n
    <3>2. e \in Events /\ handled \subseteq Nat
      BY <1>2, <3>1 DEF PremiumTypeOK
    <3>3. e.sub \in Subs
      BY <3>2 DEF Events
    <3> QED BY <1>2, <3>1, <3>2, <3>3 DEF EventsFit, EventFits
  <2>4. hook[h].copy = feature[f] /\ new = Told(e, feature[f]) /\ f = sub[e.sub].feature
        /\ (f = "sms" /\ e.kind = "deleted" => tenantSms = FALSE)
    BY <1>1, <1>4, <2>2 DEF HookFits, n, f
  <2>5. /\ e.kind = "deleted" => new.enabled = FALSE /\ new.sub = feature[f].sub /\ InForce(e) = FALSE
        /\ e.kind # "deleted" => new.enabled = InForce(e) /\ new.sub = e.sub /\ new.sub # NoSub
    BY <1>3, <2>3, <2>4, ToldTyped, PremiumAssumption
  <2>6. \A k \in Hooks : ~InHand(k)'
    BY <1>5, <2>2, IdleHookTyped DEF InHand
  <2>7. OneAtATime'
    BY <1>1, <2>1, <2>6 DEF Ordered, OneAtATime
  <2> HIDE DEF e
  <2>8. ASSUME NEW g \in Features PROVE FeatureFits(g)'
    <3>1. CASE g # f
      <4>1. feature'[g] = feature[g] /\ \A k \in Hooks : InHand(k) => hook[k].feature # g
        BY <1>6, <2>2, <3>1 DEF f
      <4> QED BY <1>1, <2>1, <4>1 DEF Ordered, FeatureFits
    <3>2. CASE g = f
      <4>1. CASE e.kind = "deleted"
        BY <1>1, <1>6, <2>1, <2>4, <2>5, <3>2, <4>1 DEF Ordered, FeatureFits
      <4>2. CASE e.kind # "deleted"
        BY <1>1, <1>6, <2>2, <2>4, <2>5, <3>2, <4>2 DEF FeatureFits, e
      <4> QED BY <4>1, <4>2
    <3> QED BY <3>1, <3>2
  <2>9. ASSUME NEW g \in Features, NEW s \in Subs PROVE StoredAsTold(g, s)'
    <3> SUFFICES ASSUME SubsOf(g)' = {s}, NEW j \in handled, LastStored(s, j)',
                        g = "sms" => events[j].kind # "created"
                 PROVE  /\ feature'[g].enabled = InForce(events'[j])
                        /\ g = "sms" /\ events[j].kind = "deleted" => tenantSms = FALSE
      BY <1>1 DEF StoredAsTold
    <3>1. SubsOf(g) = {s} /\ events[j].sub = s /\ \A m \in handled : j < m => events[m].sub # s
      BY <1>1 DEF SubsOf, LastStored
    <3>2. CASE j = n
      <4>1. g = f
        BY <2>4, <3>1, <3>2 DEF SubsOf, e
      <4> QED BY <1>1, <1>6, <2>4, <2>5, <3>2, <4>1 DEF e
    <3>3. CASE j # n
      <4>1. g # f
        <5>1. j < n
          BY <2>2, <2>3, <3>3
        <5> QED BY <2>2, <3>1, <5>1 DEF e
      <4>2. LastStored(s, j)
        BY <2>2, <3>1, <3>3 DEF LastStored, n
      <4> QED BY <1>1, <1>6, <2>1, <3>1, <4>1, <4>2 DEF Ordered, StoredAsTold
    <3> QED BY <3>2, <3>3
  <2> QED BY <2>6, <2>7, <2>8, <2>9 DEF Ordered
<1> QED BY <1>7, <1>8, <1>9, <1>10 DEF PremiumInv

LEMMA HookFailsKeeps == ASSUME PremiumInv, NEW h \in Hooks, HookFails(h) PROVE PremiumInv'
<1>1. /\ disturbed' = (disturbed \/ InHand(h)) /\ hook' = [hook EXCEPT ![h] = IdleHook]
      /\ UNCHANGED <<sub, events, handled, customers, feature, customer, tenantSms>>
  BY DEF HookFails, HookEnds, InHand
<1>2. PremiumTypeOK /\ EventsFit /\ hook \in [Hooks -> HookStates]
  BY DEF PremiumInv, PremiumTypeOK
<1>3. CASE ~InHand(h)
  <2>1. disturbed' = disturbed
    BY <1>1, <1>2, <1>3 DEF PremiumTypeOK
  <2>2. customers \in 0..Cardinality(Hooks) /\ customer \in 0..Cardinality(Hooks)
    BY <1>2 DEF PremiumTypeOK
  <2> QED BY <1>1, <1>3, <2>1, <2>2, RequestKeeps, IdleHookTyped
<1>4. CASE InHand(h)
  <2>1. disturbed' = TRUE
    BY <1>1, <1>4
  <2>2. hook' \in [Hooks -> HookStates] /\ hook'[h] = IdleHook /\ \A k \in Hooks \ {h} : hook'[k] = hook[k]
    BY <1>1, <1>2, IdleHookTyped
  <2>3. PremiumTypeOK'
    BY <1>1, <1>2, <2>1, <2>2 DEF PremiumTypeOK
  <2>4. EventsFit'
    BY <1>1, <1>2 DEF EventsFit, EventFits, Untold, LastTold
  <2>5. ASSUME NEW k \in Hooks PROVE CancelFits(k)'
    <3>1. CASE k = h
      BY <2>2, <3>1, IdleHookTyped DEF CancelFits, InHand
    <3>2. CASE k # h
      BY <1>1, <2>2, <3>2 DEF PremiumInv, CancelFits, InHand
    <3> QED BY <3>1, <3>2
  <2> QED BY <2>1, <2>3, <2>4, <2>5 DEF PremiumInv
<1> QED BY <1>3, <1>4

LEMMA PremiumSteps == PremiumInv /\ [PremiumNext]_premiumVars => PremiumInv'
<1> SUFFICES ASSUME PremiumInv, [PremiumNext]_premiumVars PROVE PremiumInv'
  OBVIOUS
<1>1. CASE UNCHANGED premiumVars
  <2>1. PremiumTypeOK' /\ EventsFit'
    BY <1>1 DEF premiumVars, PremiumInv, PremiumTypeOK, EventsFit, EventFits, Untold, LastTold
  <2>2. QuietHooks /\ UNCHANGED <<sub, events, handled, feature, tenantSms, disturbed>> /\ Len(events) \in Nat
    BY <1>1 DEF premiumVars, QuietHooks, PremiumInv, PremiumTypeOK
  <2> QED BY <2>1, <2>2, QuietKeeps
<1>2. ASSUME NEW s \in Subs,
             \/ SubscriptionBegins(s) \/ InvoicePaid(s) \/ InvoiceUnpaid(s) \/ SubscriptionEnds(s)
      PROVE  PremiumInv'
  BY <1>2, StripeKeeps
<1>3. ASSUME NEW h \in Hooks,
             \/ \E f \in Features : Subscribe(h, f) \/ CancelFeature(h, f)
             \/ CreateCustomer(h) \/ CancelAtPeriodEnd(h)
             \/ \E s \in Subs : CreateSession(h, s)
             \/ \E i \in 1..Len(events) : Receive(h, i)
             \/ SaveFlags(h) \/ SaveFeature(h) \/ HookFails(h)
      PROVE  PremiumInv'
  BY <1>3, SubscribeKeeps, CreateCustomerKeeps, CancelAtPeriodEndKeeps, CreateSessionKeeps, ReceiveKeeps,
     SaveFlagsKeeps, SaveFeatureKeeps, HookFailsKeeps
<1> QED BY <1>1, <1>2, <1>3 DEF PremiumNext

LEMMA FeatureWasTold == PremiumInv => FeatureFollowsStripe
<1> SUFFICES ASSUME PremiumInv, disturbed = FALSE, handled = 1..Len(events), \A h \in Hooks : ~InHand(h),
                    NEW f \in Features, NEW s \in Subs, SubsOf(f) = {s},
                    f = "sms" => \E i \in handled : events[i].sub = s /\ events[i].kind # "created"
             PROVE  /\ feature[f].enabled <=> sub[s].status = "active" /\ ~sub[s].cancelling
                    /\ f = "sms" /\ tenantSms => sub[s].status # "canceled"
  BY DEF FeatureFollowsStripe, InHand, SubsOf, PremiumInv, PremiumTypeOK
<1>1. /\ PremiumTypeOK /\ EventsFit /\ Ordered /\ Len(events) \in Nat
      /\ \A i \in handled : events[i] \in Events
  BY DEF PremiumInv, PremiumTypeOK
<1>2. CASE Untold(s)
  <2>1. feature[f].sub = NoSub
    <3> SUFFICES ASSUME feature[f].sub # NoSub PROVE FALSE
      OBVIOUS
    <3>1. feature[f].sub = s
      BY StoredIsOwn
    <3> QED BY <1>1, <1>2, <3>1 DEF Ordered, FeatureFits, Untold
  <2>2. feature[f].enabled = FALSE /\ sub[s].status # "active" /\ sub[s].status # "canceled"
    BY <1>1, <1>2, <2>1 DEF Ordered, FeatureFits, Untold
  <2> QED BY <2>2
<1>3. CASE \E i \in 1..Len(events) : LastTold(s, i)
  <2>1. PICK i \in handled : LastTold(s, i)
    BY <1>3
  <2>2. LastStored(s, i)
    BY <2>1 DEF LastTold, LastStored
  <2>3. f = "sms" => events[i].kind # "created"
    <3> SUFFICES ASSUME f = "sms", events[i].kind = "created" PROVE FALSE
      OBVIOUS
    <3>1. PICK j \in handled : events[j].sub = s /\ events[j].kind # "created"
      OBVIOUS
    <3>2. j # i /\ ~(i < j)
      BY <2>1, <3>1 DEF LastTold
    <3>3. j < i
      BY <1>1, <3>2
    <3> QED BY <1>1, <2>1, <3>1, <3>3 DEF EventsFit, EventFits, LastTold
  <2>4. /\ feature[f].enabled = InForce(events[i])
        /\ f = "sms" /\ events[i].kind = "deleted" => tenantSms = FALSE
    BY <1>1, <2>2, <2>3 DEF Ordered, StoredAsTold
  <2>5. InForce(events[i]) <=> sub[s].status = "active" /\ ~sub[s].cancelling
    BY <2>1 DEF LastTold, InForce
  <2>6. sub[s].status = "canceled" => events[i].kind = "deleted"
    BY <1>1, <2>1 DEF EventsFit, EventFits, LastTold
  <2> QED BY <2>4, <2>5, <2>6
<1> QED BY <1>1, <1>2, <1>3 DEF EventsFit

\* Once every event has been handled in its order, one at a time and with none lost,
\* a feature that was subscribed to once is enabled exactly while Stripe counts the
\* subscription as active and not ending (customer.subscription.* in routes/webhooks.js).
\* For any number of requests, subscriptions and events.
THEOREM FeaturesFollow == PremiumSpec => []FeatureFollowsStripe
BY FeatureWasTold, PremiumStarts, PremiumSteps, PTL DEF PremiumSpec

-----------------------------------------------------------------------------
(* The types of the parts whose invariants leave them out.                 *)

LEMMA OrderTyped ==
  ASSUME NEW d \in OrderDocs
  PROVE  /\ d.intent \in BOOLEAN /\ d.owed \in BOOLEAN /\ DOMAIN d = {"status", "paid", "full", "intent", "owed"}
         /\ ConfirmedOrder(d) \in OrderDocs /\ CancelledOrder(d) \in OrderDocs /\ RefundedOrder(d) \in OrderDocs
         /\ \A s \in {"pending", "processing", "shipped", "cancelled", "refunded", "deleted"} :
              [d EXCEPT !.status = s] \in OrderDocs
         /\ [d EXCEPT !.paid = "refunded", !.full = TRUE] \in OrderDocs
BY DEF OrderDocs, ConfirmedOrder, CancelledOrder, RefundedOrder

LEMMA PaidTyped ==
  ASSUME NEW d \in OrderDocs, NEW p \in {"pending", "paid", "failed", "refunded"}
  PROVE  [d EXCEPT !.paid = p] \in OrderDocs
BY DEF OrderDocs

\* What is saved has each path of one document or of the other.
LEMMA MixedTyped ==
  ASSUME NEW d \in OrderDocs, NEW e \in OrderDocs, NEW C
  PROVE  [f \in DOMAIN d |-> IF f \in C THEN e[f] ELSE d[f]] \in OrderDocs
<1> DEFINE m == [f \in {"status", "paid", "full", "intent", "owed"} |-> IF f \in C THEN e[f] ELSE d[f]]
<1>1. /\ m.status \in {"pending", "processing", "shipped", "cancelled", "refunded", "deleted"}
      /\ m.paid \in {"pending", "paid", "failed", "refunded"}
      /\ m.full \in BOOLEAN /\ m.intent \in BOOLEAN /\ m.owed \in BOOLEAN
  BY DEF OrderDocs
<1>2. DOMAIN m = {"status", "paid", "full", "intent", "owed"} /\ m = [f \in DOMAIN m |-> m[f]]
  OBVIOUS
<1> HIDE DEF m
<1>3. m \in OrderDocs
  BY <1>1, <1>2 DEF OrderDocs
<1> QED BY <1>3, OrderTyped DEF m

\* The paths of an order never change.
Paths == {"status", "paid", "full", "intent", "owed"}

KeeperShape == [step : KeeperSteps, changed : SUBSET Paths, intent : BOOLEAN, owed : BOOLEAN,
                stock : 0..MaxStock]

ShopTyped ==
  /\ order \in OrderDocs /\ stock \in 0..MaxStock
  /\ orderPayment \in {"none", "open", "paid", "refunded"}
  /\ keeper \in [Keepers -> KeeperShape]

LEMMA ShopIsTyped == ASSUME ShopTyped, ShopInv PROVE ShopTypeOK
<1>1. DOMAIN order = Paths
  BY OrderTyped DEF ShopTyped, Paths
<1>2. KeeperStates = KeeperShape
  BY <1>1 DEF KeeperStates, KeeperShape
<1>3. deducted \in 0..2
  BY DEF ShopInv
<1> QED BY <1>2, <1>3 DEF ShopTyped, ShopTypeOK

LEMMA IdleKeeperTyped ==
  IdleKeeper \in KeeperShape /\ \A s \in KeeperSteps : [IdleKeeper EXCEPT !.step = s] \in KeeperShape
<1>1. 0 \in 0..MaxStock
  BY ShopAssumption
<1> QED BY <1>1 DEF IdleKeeper, KeeperShape, KeeperSteps

LEMMA KeepersTyped ==
  ASSUME ShopTyped, NEW h \in Keepers, NEW r \in KeeperShape, keeper' = [keeper EXCEPT ![h] = r],
         order' \in OrderDocs, stock' \in 0..MaxStock,
         orderPayment' \in {"none", "open", "paid", "refunded"}
  PROVE  ShopTyped'
BY DEF ShopTyped

LEMMA KeeperTyped ==
  ASSUME ShopTyped, NEW h \in Keepers
  PROVE  /\ keeper[h] \in KeeperShape /\ keeper[h].stock \in 0..MaxStock
         /\ \A s \in KeeperSteps : /\ [keeper[h] EXCEPT !.step = s] \in KeeperShape
                                   /\ [keeper[h] EXCEPT !.step = s, !.stock = stock] \in KeeperShape
BY DEF ShopTyped, KeeperShape

LEMMA ReadTyped ==
  ASSUME ShopTyped, NEW h \in Keepers, NEW d, NEW s \in KeeperSteps, ReadOrder(h, d, s)
  PROVE  ShopTyped'
<1> DEFINE r == [step |-> s, changed |-> {f \in DOMAIN order : d[f] # order[f]},
                 intent |-> order.intent, owed |-> order.owed, stock |-> 0]
<1>1. {f \in DOMAIN order : d[f] # order[f]} \in SUBSET Paths /\ order.intent \in BOOLEAN
      /\ order.owed \in BOOLEAN
  BY OrderTyped DEF ShopTyped, Paths
<1>2. 0 \in 0..MaxStock
  BY ShopAssumption
<1>3. r \in KeeperShape
  BY <1>1, <1>2 DEF KeeperShape
<1> HIDE DEF r
<1>4. keeper' = [keeper EXCEPT ![h] = r] /\ UNCHANGED <<order, stock, orderPayment>>
  BY DEF ReadOrder, r
<1> QED BY <1>3, <1>4 DEF ShopTyped

LEMMA EndTyped ==
  ASSUME ShopTyped, NEW h \in Keepers, KeeperEnds(h), order' \in OrderDocs, stock' \in 0..MaxStock,
         orderPayment' = orderPayment
  PROVE  ShopTyped'
BY IdleKeeperTyped DEF ShopTyped, KeeperEnds

LEMMA SaveTyped ==
  ASSUME ShopTyped, NEW h \in Keepers, NEW d \in OrderDocs, NEW s \in KeeperSteps, SaveOrder(h, d, s),
         UNCHANGED <<stock, orderPayment>>
  PROVE  ShopTyped'
<1> DEFINE r == [IdleKeeper EXCEPT !.step = s]
           C == keeper[h].changed
<1>1. r \in KeeperShape
  BY IdleKeeperTyped
<1>2. [f \in DOMAIN order |-> IF f \in C THEN d[f] ELSE order[f]] \in OrderDocs
  BY MixedTyped DEF ShopTyped
<1> HIDE DEF r
<1>3. CASE Stored
  <2>1. keeper' = [keeper EXCEPT ![h] = r]
    BY <1>3 DEF SaveOrder, r
  <2>2. order' = [f \in DOMAIN order |-> IF f \in C THEN d[f] ELSE order[f]]
    BY <1>3 DEF SaveOrder
  <2> HIDE DEF C
  <2>3. order' \in OrderDocs
    BY <1>2, <2>2
  <2> QED BY <1>1, <2>1, <2>3 DEF ShopTyped
<1>4. CASE ~Stored
  BY <1>4, EndTyped DEF SaveOrder, ShopTyped
<1> QED BY <1>3, <1>4

LEMMA ShopTypesKeep == ShopTyped /\ [ShopNext]_shopVars => ShopTyped'
<1> SUFFICES ASSUME ShopTyped, [ShopNext]_shopVars PROVE ShopTyped'
  OBVIOUS
<1>0. order \in OrderDocs /\ stock \in 0..MaxStock /\ MaxStock \in Nat
  BY ShopAssumption DEF ShopTyped
<1>1. CASE UNCHANGED shopVars \/ BuyerPays
  BY <1>1 DEF shopVars, BuyerPays, ShopTyped
<1>2. CASE PaidEvent \/ FailedEvent \/ RefundedEvent \/ PatchOrder \/ DeleteOnly
  <2>1. order' \in OrderDocs
    <3>1. CASE PaidEvent \/ FailedEvent
      BY <1>0, <3>1, PaidTyped DEF PaidEvent, FailedEvent
    <3>2. CASE RefundedEvent
      BY <1>0, <3>2, OrderTyped DEF RefundedEvent
    <3>3. CASE PatchOrder
      <4>1. CASE \E t \in {"pending", "processing", "shipped", "cancelled", "refunded"} :
                    order' = [order EXCEPT !.status = t]
        BY <1>0, <4>1, OrderTyped
      <4>2. CASE \E p \in {"pending", "paid", "failed", "refunded"} : order' = [order EXCEPT !.paid = p]
        BY <1>0, <4>2, PaidTyped
      <4> QED BY <3>3, <4>1, <4>2 DEF PatchOrder
    <3>4. CASE DeleteOnly
      BY <1>0, <3>4, OrderTyped DEF DeleteOnly
    <3> QED BY <1>2, <3>1, <3>2, <3>3, <3>4
  <2> QED BY <1>2, <2>1 DEF PaidEvent, FailedEvent, RefundedEvent, PatchOrder, DeleteOnly, ShopTyped
<1>3. ASSUME NEW h \in Keepers,
             \/ ReadOrderToConfirm(h) \/ ReadOrderToCancel(h) \/ ReadOrderToRefund(h)
             \/ ReadToDelete(h)
      PROVE  ShopTyped'
  <2>1. {"confirm", "cancel", "refund", "restore and delete"} \subseteq KeeperSteps
    BY DEF KeeperSteps
  <2> QED BY <1>3, <2>1, ReadTyped DEF ReadOrderToConfirm, ReadOrderToCancel, ReadOrderToRefund, ReadToDelete
<1>4. ASSUME NEW h \in Keepers, ConfirmOrder(h) \/ CancelOrder(h) \/ SaveRefund(h)
      PROVE  ShopTyped'
  <2>1. {"take", "restore"} \subseteq KeeperSteps
    BY DEF KeeperSteps
  <2>2. ASSUME KeeperEnds(h), UNCHANGED <<order, stock, orderPayment>> PROVE ShopTyped'
    BY <1>0, <2>2, EndTyped
  <2> QED BY <1>0, <1>4, <2>1, <2>2, OrderTyped, SaveTyped DEF ConfirmOrder, CancelOrder, SaveRefund
<1>5. ASSUME NEW h \in Keepers, TakeStock(h) PROVE ShopTyped'
  <2>1. stock' \in 0..MaxStock
    <3>1. PICK q \in 0..MaxStock : q = keeper[h].stock
      BY KeeperTyped
    <3>2. q > 0 => q - 1 \in 0..MaxStock
      BY <1>0
    <3> QED BY <1>0, <1>5, <3>1, <3>2 DEF TakeStock
  <2> QED BY <1>0, <1>5, <2>1, EndTyped DEF TakeStock
<1>6. ASSUME NEW h \in Keepers, PutBack(h) \/ RestoreAndDelete(h) PROVE ShopTyped'
  <2>1. stock' \in 0..MaxStock
    <3>1. PICK q \in 0..MaxStock : q = keeper[h].stock
      BY KeeperTyped
    <3>2. q < MaxStock => q + 1 \in 0..MaxStock
      BY <1>0
    <3> QED BY <1>6, <3>1, <3>2 DEF PutBack, RestoreAndDelete
  <2>2. order' \in OrderDocs
    BY <1>0, <1>6, OrderTyped DEF PutBack, RestoreAndDelete
  <2> QED BY <1>6, <2>1, <2>2, EndTyped DEF PutBack, RestoreAndDelete
<1>7. ASSUME NEW h \in Keepers, ClerkStops(h) PROVE ShopTyped'
  BY <1>0, <1>7, EndTyped DEF ClerkStops
<1>8. ASSUME NEW h \in Keepers, ReadStock(h) PROVE ShopTyped'
  <2>1. PICK s \in {"taken", "put back", "put back and delete"} :
          keeper' = [keeper EXCEPT ![h] = [keeper[h] EXCEPT !.step = s, !.stock = stock]]
    BY <1>8 DEF ReadStock
  <2>2. s \in KeeperSteps
    BY DEF KeeperSteps
  <2> QED BY <1>8, <2>1, <2>2, KeeperTyped DEF ReadStock, ShopTyped
<1>9. ASSUME NEW h \in Keepers, RefundAtStripe(h) \/ DeductShare(h) PROVE ShopTyped'
  <2>1. {"refunded", "save refund"} \subseteq KeeperSteps
    BY DEF KeeperSteps
  <2>2. ASSUME NEW s \in KeeperSteps, KeeperGoes(h, s) PROVE keeper' \in [Keepers -> KeeperShape]
    <3> DEFINE r == [keeper[h] EXCEPT !.step = s]
    <3>1. r \in KeeperShape
      BY KeeperTyped
    <3>2. keeper' = [keeper EXCEPT ![h] = r]
      BY <2>2 DEF KeeperGoes
    <3> HIDE DEF r
    <3> QED BY <3>1, <3>2 DEF ShopTyped
  <2>3. CASE KeeperEnds(h) /\ UNCHANGED <<order, stock, orderPayment>>
    BY <1>0, <2>3, EndTyped
  <2>4. CASE KeeperGoes(h, "refunded") /\ orderPayment' = "refunded" /\ UNCHANGED <<order, stock>>
    BY <1>0, <2>1, <2>2, <2>4 DEF ShopTyped
  <2>5. CASE KeeperGoes(h, "save refund") /\ UNCHANGED <<order, stock, orderPayment>>
    BY <1>0, <2>1, <2>2, <2>5 DEF ShopTyped
  <2> QED BY <1>9, <2>3, <2>4, <2>5 DEF RefundAtStripe, DeductShare
<1> QED BY <1>1, <1>2, <1>3, <1>4, <1>5, <1>6, <1>7, <1>8, <1>9 DEF ShopNext

LEMMA ShopTypesStart == ShopInit => ShopTyped
<1>1. 1 \in 0..MaxStock
  BY ShopAssumption
<1>2. \A s \in {"pending", "processing"}, p \in {"pending", "paid"}, c \in BOOLEAN :
        Migrated(s, p, c) \in OrderDocs
  BY DEF Migrated, OrderDocs
<1> QED BY <1>1, <1>2, IdleKeeperTyped DEF ShopInit, ShopTyped

-----------------------------------------------------------------------------
(* The parts together.  Whatever the behaviour is about, the catalogue and *)
(* the pictures do what they do on their own, or stand still.              *)

LEMMA WindowRuns == Spec => CatalogueSpec /\ PictureSpec
<1>1. Init => CatalogueInit /\ PictureInit
  BY DEF Init
<1>2. Next => [CatalogueNext]_catalogueVars
  BY DEF Next
<1>3. Next => [PictureNext]_pictureVars
  BY DEF Next
<1>4. UNCHANGED <<focus, connectVars, premiumVars, referralVars, catalogueVars, terminalVars, shopVars,
                  pictureVars>> => UNCHANGED catalogueVars /\ UNCHANGED pictureVars
  OBVIOUS
<1> QED BY <1>1, <1>2, <1>3, <1>4, PTL DEF Spec, CatalogueSpec, PictureSpec

\* The window of the shop shows all of it: a walk through the pages during which
\* the list stood still has seen every service, but one whose name stands on both
\* sides of a page's end, and no visitor is shown a picture
\* that Cloudinary has not, but for the requests that have deleted it and not yet,
\* or never, written.  For any list, any size of a page, any number of pictures and
\* of requests.
THEOREM WindowStaysWhole == Spec => []WindowIsWhole
<1>1. WalkIsComplete /\ ShownIsHosted => WindowIsWhole
  BY DEF WindowIsWhole
<1> QED BY <1>1, WindowRuns, WalkStaysComplete, ShownStayHosted, PTL

SalonTyped ==
  /\ ReferralTyped
  /\ ShopTyped
  /\ ShopInv
  /\ TerminalInv
  /\ ConnectInv
  /\ CatalogueInv
  /\ PictureInv
  /\ PremiumInv

\* A step of the salon is a step of one of its parts; the others stand still.
LEMMA SalonSteps ==
  [Next]_<<focus, connectVars, premiumVars, referralVars, catalogueVars, terminalVars, shopVars, pictureVars>> =>
    /\ [ConnectNext]_connectVars
    /\ [PremiumNext]_premiumVars
    /\ [ReferralNext]_referralVars
    /\ [CatalogueNext]_catalogueVars
    /\ [TerminalNext]_terminalVars
    /\ [ShopNext]_shopVars
    /\ [PictureNext]_pictureVars
BY DEF Next

\* Every field of every document, copy and request of the salon's trade holds one
\* of the values its type admits: quantities, prices, counts and ids stay natural
\* numbers, lists of refunds and galleries stay sequences.  For any number of
\* requests, services, products, pictures and subscriptions.
THEOREM SalonTypes == Spec => []TypeOK
<1>1. Init => SalonTyped
  BY ConnectStarts, PremiumStarts, CatalogueStarts, PicturesStart, ReferralTypesStart, ShopTypesStart,
     ShopStarts, TerminalStarts
     DEF Init, SalonTyped
<1>2. SalonTyped /\ [Next]_<<focus, connectVars, premiumVars, referralVars, catalogueVars, terminalVars,
                             shopVars, pictureVars>> => SalonTyped'
  BY SalonSteps, ConnectSteps, PremiumSteps, CatalogueSteps, PictureSteps, ReferralTypesKeep,
     ShopTypesKeep, ShopStepKeeps, TerminalStepKeeps
     DEF SalonTyped
<1>3. SalonTyped => TypeOK
  BY ShopIsTyped DEF SalonTyped, TypeOK, ReferralTyped, TerminalInv, ConnectInv, CatalogueInv, PictureInv,
                     PremiumInv
<1> QED BY <1>1, <1>2, <1>3, PTL DEF Spec
=============================================================================
