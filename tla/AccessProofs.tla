---------------------------- MODULE AccessProofs -----------------------------
(***************************************************************************)
(* A salon's people, places and papers, for any number of requests and     *)
(* documents: the logins of specialists, the primary location, signed      *)
(* consents, the lock of an admin's account, its refresh tokens, and the   *)
(* types of all of them.  The components share no state; each has an       *)
(* inductive invariant of its own.                                         *)
(***************************************************************************)
EXTENDS MCAccess, TenantProofs, FiniteSetTheorems, WellFoundedInduction, TLAPS

-----------------------------------------------------------------------------
(* Locations.  While nothing is forced, at most one creation has taken the *)
(* flag, and as long as it has it no location carries it.  The numbers of  *)
(* slugs do not matter: they are in some set.                              *)

SiteShape(S) == [there : BOOLEAN, active : BOOLEAN, primary : BOOLEAN, slug : S]

ManagerShape(S) == [step : ManagerSteps, site : Sites \cup {NoSite}, primary : BOOLEAN, slug : S]

Shaped(S) ==
  /\ site \in [Sites -> SiteShape(S)]
  /\ manager \in [Managers -> ManagerShape(S)]
  /\ \A h \in Managers : /\ manager[h].step = "demote" => manager[h].primary
                         /\ manager[h].step = "close" => manager[h].site \in Sites
                         /\ manager[h].step = "count" => manager[h].site \in Sites

OnePrimary ==
  ~forced => /\ \A l, m \in Primary : l = m
             /\ Taking # {} => Primary = {}
             /\ \A h, k \in Taking : h = k

NoneExplained == Primary = {} => dropped \/ Taking # {}

LocationInv ==
  /\ \E S : 0 \in S /\ Shaped(S)
  /\ forced \in BOOLEAN /\ dropped \in BOOLEAN
  /\ OnePrimary
  /\ NoneExplained

\* A location's flags are values like others.
LEMMA FlagChanges ==
  ASSUME NEW B, NEW S, NEW d \in [there : B, active : B, primary : B, slug : S], NEW p \in B
  PROVE  /\ [d EXCEPT !.primary = p] \in [there : B, active : B, primary : B, slug : S]
         /\ [d EXCEPT !.active = p] \in [there : B, active : B, primary : B, slug : S]
  OBVIOUS

LEMMA SiteChanges ==
  ASSUME NEW S, NEW d \in SiteShape(S), NEW p \in BOOLEAN
  PROVE  [d EXCEPT !.primary = p] \in SiteShape(S) /\ [d EXCEPT !.active = p] \in SiteShape(S)
  BY FlagChanges DEF SiteShape

LEMMA SitesStay ==
  ASSUME NEW S, NEW D, NEW f \in [Sites -> D], NEW l \in Sites, NEW d \in D
  PROVE  [f EXCEPT ![l] = d] \in [Sites -> D]
  OBVIOUS

LEMMA NewSite ==
  ASSUME NEW B, NEW S, NEW p \in B, NEW t \in B, NEW n \in S
  PROVE  [there |-> t, active |-> t, primary |-> p, slug |-> n]
           \in [there : B, active : B, primary : B, slug : S]
  OBVIOUS

LEMMA LocationStarts == LocationInit => LocationInv
<1> SUFFICES ASSUME LocationInit PROVE LocationInv
  OBVIOUS
<1>1. PICK first \in Sites :
        site = [l \in Sites |-> IF l = first
                  THEN [NoDoc EXCEPT !.there = TRUE, !.active = TRUE, !.primary = TRUE] ELSE NoDoc]
  BY DEF LocationInit
<1>2. Shaped({0})
  BY <1>1 DEF LocationInit, Shaped, SiteShape, ManagerShape, NoDoc, IdleManager, ManagerSteps
<1>3. Primary = {first} /\ Taking = {}
  BY <1>1 DEF LocationInit, Primary, ExistingSites, Taking, NoDoc, IdleManager
<1> QED BY <1>2, <1>3 DEF LocationInv, OnePrimary, NoneExplained, LocationInit

\* A request goes on without the flag, or keeps it, and no location changes it.
LEMMA FlagsKeep ==
  ASSUME LocationInv, \E S : 0 \in S /\ Shaped(S)', UNCHANGED forced, dropped' \in BOOLEAN,
         dropped => dropped', Primary' = Primary, Taking' \subseteq Taking,
         Taking' # Taking => dropped'
  PROVE  LocationInv'
  BY DEF LocationInv, OnePrimary, NoneExplained

LEMMA LocationSteps == LocationInv /\ [LocationNext]_locationVars => LocationInv'
<1> SUFFICES ASSUME LocationInv, [LocationNext]_locationVars PROVE LocationInv'
  OBVIOUS
<1>0. PICK S : 0 \in S /\ Shaped(S)
  BY DEF LocationInv
<1> USE DEF ManagerSteps, SiteShape, ManagerShape
<1>a. IdleManager \in ManagerShape(S) /\ IdleManager.step = "idle"
  BY <1>0 DEF IdleManager
<1>b. \A h \in Managers : ManagerEnds(h) => manager' \in [Managers -> ManagerShape(S)]
  BY <1>0, <1>a DEF ManagerEnds, Shaped
<1>1. ASSUME NEW h \in Managers, NEW primary \in BOOLEAN, AddSite(h, primary) PROVE LocationInv'
  <2>1. Shaped(S)'
    BY <1>0, <1>1 DEF AddSite, Shaped, IdleManager
  <2>2. Primary' = Primary /\ Taking' = Taking
    BY <1>0, <1>1 DEF AddSite, Shaped, IdleManager, Primary, ExistingSites, Taking
  <2> QED BY <1>0, <1>1, <2>1, <2>2, FlagsKeep DEF AddSite, LocationInv
<1>2. ASSUME NEW h \in Managers, SearchSiteSlug(h) PROVE LocationInv'
  <2> PICK free : manager' = [manager EXCEPT ![h].slug = free,
                                ![h].step = IF manager[h].primary THEN "demote" ELSE "insert"]
    BY <1>2 DEF SearchSiteSlug
  <2>1. Shaped(S \cup {free})'
    BY <1>0, <1>2 DEF SearchSiteSlug, Shaped
  <2>2. Primary' = Primary /\ Taking' = Taking
    BY <1>0, <1>2 DEF SearchSiteSlug, Shaped, Primary, ExistingSites, Taking
  <2> QED BY <1>0, <1>2, <2>1, <2>2, FlagsKeep DEF SearchSiteSlug, LocationInv
<1>3. ASSUME NEW h \in Managers, DemoteOthers(h) PROVE LocationInv'
  <2>1. Shaped(S)'
    <3>1. site' \in [Sites -> SiteShape(S)]
      <4>1. \A l \in Sites : [site[l] EXCEPT !.primary = FALSE] \in SiteShape(S)
        BY <1>0, SiteChanges DEF Shaped
      <4> HIDE DEF SiteShape
      <4> QED BY <1>3, <4>1 DEF DemoteOthers
    <3>2. manager' \in [Managers -> ManagerShape(S)]
      BY <1>0, <1>3 DEF DemoteOthers, ManagerGoes, Shaped
    <3> HIDE DEF SiteShape
    <3> QED BY <1>0, <1>3, <3>1, <3>2 DEF DemoteOthers, ManagerGoes, Shaped
  <2>2. Primary' = {}
    BY <1>0, <1>3 DEF DemoteOthers, Shaped, Primary, ExistingSites
  <2>3. Taking' \subseteq Taking \cup {h} /\ forced' = (forced \/ Taking # {})
    BY <1>0, <1>3 DEF DemoteOthers, ManagerGoes, Shaped, Taking
  <2>4. h \in Taking'
    BY <1>0, <1>3 DEF DemoteOthers, ManagerGoes, Shaped, Taking
  <2>5. UNCHANGED dropped /\ forced' \in BOOLEAN
    BY <1>3, <2>3 DEF DemoteOthers
  <2>6. OnePrimary'
    BY <2>2, <2>3 DEF LocationInv, OnePrimary
  <2> QED BY <1>0, <2>1, <2>2, <2>4, <2>5, <2>6 DEF LocationInv, NoneExplained
<1>4. ASSUME NEW h \in Managers, NEW l \in Sites, InsertSite(h, l) PROVE LocationInv'
  <2>1. Shaped(S)'
    <3>1. /\ manager' = [manager EXCEPT ![h] = IdleManager]
          /\ \/ UNCHANGED site
             \/ site' = [site EXCEPT ![l] = [there |-> TRUE, active |-> TRUE,
                           primary |-> manager[h].primary, slug |-> manager[h].slug]]
      BY <1>4 DEF InsertSite, ManagerEnds
    <3>2. manager[h].primary \in BOOLEAN /\ manager[h].slug \in S
      BY <1>0 DEF Shaped
    <3>3. site' \in [Sites -> SiteShape(S)]
      <4>1. [there |-> TRUE, active |-> TRUE, primary |-> manager[h].primary,
             slug |-> manager[h].slug] \in SiteShape(S)
        BY <3>2, NewSite
      <4> HIDE DEF SiteShape
      <4> QED BY <1>0, <3>1, <4>1, SitesStay DEF Shaped
    <3>4. manager' \in [Managers -> ManagerShape(S)]
      BY <1>4, <1>b DEF InsertSite
    <3> HIDE DEF SiteShape, ManagerShape
    <3> QED BY <1>0, <1>a, <3>1, <3>3, <3>4 DEF Shaped
  <2>2. Taking' = Taking \ {h} /\ (h \in Taking <=> manager[h].primary) /\ UNCHANGED forced
    BY <1>0, <1>4 DEF InsertSite, ManagerEnds, IdleManager, Shaped, Taking
  <2>3. CASE UNCHANGED site /\ dropped' = (dropped \/ manager[h].primary)
    <3>1. Primary' = Primary
      BY <2>3 DEF Primary, ExistingSites
    <3>2. dropped' \in BOOLEAN
      BY <2>3
    <3> QED BY <1>0, <2>1, <2>2, <2>3, <3>1, <3>2, FlagsKeep
  <2>4. CASE UNCHANGED dropped /\ ~site[l].there /\ manager[h].step = "insert"
             /\ site' = [site EXCEPT ![l] = [there |-> TRUE, active |-> TRUE,
                           primary |-> manager[h].primary, slug |-> manager[h].slug]]
    <3>1. Primary' = IF manager[h].primary THEN Primary \cup {l} ELSE Primary
      BY <1>0, <2>4 DEF Shaped, Primary, ExistingSites
    <3>2. CASE manager[h].primary
      BY <1>0, <2>1, <2>2, <2>4, <3>1, <3>2 DEF LocationInv, OnePrimary, NoneExplained
    <3>3. CASE ~manager[h].primary
      BY <1>0, <2>1, <2>2, <2>4, <3>1, <3>3, FlagsKeep DEF LocationInv
    <3> QED BY <3>2, <3>3
  <2> QED BY <1>4, <2>3, <2>4 DEF InsertSite
<1>5. ASSUME NEW l \in Sites, NEW primary \in BOOLEAN, PatchPrimary(l, primary) PROVE LocationInv'
  <2>1. Shaped(S)'
    BY <1>0, <1>5 DEF PatchPrimary, Shaped
  <2>2. Primary' = (IF primary THEN Primary \cup {l} ELSE Primary \ {l}) /\ Taking' = Taking
    BY <1>0, <1>5 DEF PatchPrimary, Shaped, Primary, ExistingSites, Taking
  <2>3. forced' = (forced \/ (primary /\ (Primary # {} \/ Taking # {})))
        /\ dropped' = (dropped \/ ~primary)
    BY <1>5 DEF PatchPrimary
  <2>4. forced' \in BOOLEAN /\ dropped' \in BOOLEAN
    BY <2>3
  <2>5. OnePrimary'
    BY <2>2, <2>3 DEF LocationInv, OnePrimary
  <2>6. NoneExplained'
    BY <2>2, <2>3 DEF LocationInv, NoneExplained
  <2> QED BY <1>0, <2>1, <2>4, <2>5, <2>6 DEF LocationInv
<1>6. ASSUME NEW l \in Sites, NEW active \in BOOLEAN, PatchActive(l, active) PROVE LocationInv'
  <2>1. Shaped(S)'
    BY <1>0, <1>6 DEF PatchActive, Shaped
  <2>2. Primary' = Primary /\ Taking' = Taking
    BY <1>0, <1>6 DEF PatchActive, Shaped, Primary, ExistingSites, Taking
  <2> QED BY <1>0, <1>6, <2>1, <2>2, FlagsKeep DEF PatchActive, LocationInv
<1>7. ASSUME NEW h \in Managers, NEW l \in Sites, ReadToClose(h, l) PROVE LocationInv'
  <2>1. Shaped(S)'
    BY <1>0, <1>7 DEF ReadToClose, IdleManager, Shaped
  <2>2. Primary' = Primary /\ Taking' = Taking
    BY <1>0, <1>7 DEF ReadToClose, IdleManager, Shaped, Primary, ExistingSites, Taking
  <2> QED BY <1>0, <1>7, <2>1, <2>2, FlagsKeep DEF ReadToClose, LocationInv
<1>8. ASSUME NEW h \in Managers, CountActive(h) PROVE LocationInv'
  <2>0. (ManagerEnds(h) \/ ManagerGoes(h, "close")) /\ manager[h].step = "count"
        /\ UNCHANGED site
    BY <1>8 DEF CountActive
  <2>1. Shaped(S)'
    <3>1. manager' \in [Managers -> ManagerShape(S)]
      BY <1>0, <1>b, <2>0 DEF ManagerGoes, Shaped
    <3> QED BY <1>0, <1>a, <2>0, <3>1 DEF ManagerEnds, ManagerGoes, Shaped
  <2>2. Primary' = Primary /\ Taking' = Taking
    BY <1>0, <2>0 DEF ManagerEnds, ManagerGoes, IdleManager, Shaped, Primary, ExistingSites,
       Taking
  <2> QED BY <1>0, <1>8, <2>1, <2>2, FlagsKeep DEF CountActive, LocationInv
<1>9. ASSUME NEW h \in Managers, CloseSite(h) PROVE LocationInv'
  <2>1. Shaped(S)'
    <3>1. manager' \in [Managers -> ManagerShape(S)]
      BY <1>9, <1>b DEF CloseSite
    <3>2. manager[h].site \in Sites
      BY <1>0, <1>9 DEF CloseSite, Shaped
    <3>3. site' \in [Sites -> SiteShape(S)]
      <4> DEFINE d == [site[manager[h].site] EXCEPT !.active = FALSE]
      <4>1. site[manager[h].site] \in SiteShape(S) /\ FALSE \in BOOLEAN
        BY <1>0, <3>2 DEF Shaped
      <4>2. d \in SiteShape(S)
        BY <4>1, SiteChanges
      <4>3. site' = [site EXCEPT ![manager[h].site] = d]
        BY <1>9 DEF CloseSite
      <4> HIDE DEF SiteShape, d
      <4> QED BY <1>0, <3>2, <4>2, <4>3, SitesStay DEF Shaped
    <3> QED BY <1>0, <1>9, <1>a, <3>1, <3>3 DEF CloseSite, ManagerEnds, Shaped
  <2>2. Primary' = Primary /\ Taking' = Taking
    BY <1>0, <1>9 DEF CloseSite, ManagerEnds, IdleManager, Shaped, Primary, ExistingSites, Taking
  <2> QED BY <1>0, <1>9, <2>1, <2>2, FlagsKeep DEF CloseSite, LocationInv
<1>10. ASSUME NEW h \in Managers, ManagerFails(h) PROVE LocationInv'
  <2>1. Shaped(S)'
    BY <1>0, <1>10 DEF ManagerFails, ManagerEnds, IdleManager, Shaped
  <2>2. Primary' = Primary /\ Taking' = Taking \ {h} /\ dropped' = (dropped \/ h \in Taking)
    BY <1>0, <1>10 DEF ManagerFails, ManagerEnds, IdleManager, Shaped, Primary, ExistingSites,
       Taking
  <2>3. dropped' \in BOOLEAN
    BY <2>2
  <2> QED BY <1>0, <1>10, <2>1, <2>2, <2>3, FlagsKeep DEF ManagerFails
<1>11. CASE UNCHANGED locationVars
  BY <1>0, <1>11, FlagsKeep DEF locationVars, LocationInv, Shaped, Primary, ExistingSites, Taking
<1> QED
  BY <1>1, <1>2, <1>3, <1>4, <1>5, <1>6, <1>7, <1>8, <1>9, <1>10, <1>11 DEF LocationNext

\* A second primary location, or none, has one of the causes that are named,
\* whatever the number of requests and locations.
THEOREM PrimaryHasReason == LocationSpec => []PrimaryIsExplained
<1>1. LocationInv => PrimaryIsExplained
  <2> SUFFICES ASSUME LocationInv, ~forced PROVE ~(Cardinality(Primary) > 1)
    BY DEF LocationInv, PrimaryIsExplained, NoneExplained
  <2>1. CASE Primary = {}
    BY <2>1, FS_EmptySet
  <2>2. ASSUME NEW l \in Primary PROVE ~(Cardinality(Primary) > 1)
    <3>1. Primary = {l}
      BY <2>2 DEF LocationInv, OnePrimary
    <3>2. Cardinality({l}) = 1
      BY FS_Singleton
    <3> QED BY <3>1, <3>2
  <2> QED BY <2>1, <2>2
<1> QED BY <1>1, LocationStarts, LocationSteps, PTL DEF LocationSpec

-----------------------------------------------------------------------------
(* Consents.  Publishing a template raises its revision, so that an edit   *)
(* that was begun while it was a draft is behind (Settled) and is not      *)
(* written; and who has read a published template to sign it has its text. *)

FormShape == [ status : {"none", "draft", "published", "archived", "deleted"},
               version : Nat, content : 0..MaxRevision, revision : 0..MaxRevision,
               renamed : BOOLEAN ]

ClericShape == [ step : ClericSteps, form : Forms \cup {NoForm}, copy : FormShape,
                 record : Records \cup {NoRecord} ]

ConsentShape ==
  /\ form \in [Forms -> FormShape]
  /\ record \in [Records -> RecordDocs]
  /\ cleric \in [Clerics -> ClericShape]
  /\ late \in SUBSET Records

Settled(f) == \A h \in Clerics :
  cleric[h].step = "edit" /\ cleric[h].form = f => cleric[h].copy.revision < form[f].revision

Stands(f, text) ==
  /\ f \in Forms /\ form[f].status \in {"published", "archived", "deleted"}
  /\ form[f].status # "deleted" => Settled(f) /\ form[f].content = text

\* What a request relies on while it waits.
Reads(h) ==
  LET c == cleric[h] IN
  /\ c.step \in {"edit", "rename", "publish", "copy", "archive", "count", "delete", "pdf"} =>
       c.form \in Forms /\ form[c.form].status # "none"
  /\ c.step \in {"edit", "publish"} =>
       form[c.form].status = "deleted" \/ c.copy.revision <= form[c.form].revision
  /\ c.step = "pdf" => Stands(c.form, c.copy.content)
  /\ c.step \in {"upload", "revoke"} => c.record \in Records /\ record[c.record].status # "none"

PublishedSettled == \A f \in Forms : form[f].status = "published" => Settled(f)

RecordsStand == \A r \in Records :
  record[r].status # "none" => Stands(record[r].form, record[r].content)

ConsentInv ==
  /\ ConsentShape
  /\ \A h \in Clerics : Reads(h)
  /\ PublishedSettled
  /\ RecordsStand

LEMMA EmptyTyped == EmptyForm \in FormShape /\ IdleCleric \in ClericShape
                    /\ IdleCleric.step = "idle"
<1>1. EmptyForm \in FormShape
  BY ConsentAssumption DEF EmptyForm, FormShape
<1> QED BY <1>1 DEF IdleCleric, ClericShape, ClericSteps

LEMMA FieldsChange ==
  ASSUME NEW A, NEW B, NEW C, NEW D, NEW E, NEW a \in A, NEW k \in C, NEW n \in D,
         NEW x \in [status : A, version : B, content : C, revision : D, renamed : E]
  PROVE  /\ [x EXCEPT !.content = k, !.revision = n]
              \in [status : A, version : B, content : C, revision : D, renamed : E]
         /\ [x EXCEPT !.status = a, !.revision = n]
              \in [status : A, version : B, content : C, revision : D, renamed : E]
  OBVIOUS

LEMMA RenamedField ==
  ASSUME NEW A, NEW B, NEW C, NEW D, NEW E, NEW n \in E,
         NEW x \in [status : A, version : B, content : C, revision : D, renamed : E]
  PROVE  /\ [x EXCEPT !.renamed = n]
              \in [status : A, version : B, content : C, revision : D, renamed : E]
         /\ [x EXCEPT !.renamed = n].status = x.status
         /\ [x EXCEPT !.renamed = n].content = x.content
         /\ [x EXCEPT !.renamed = n].revision = x.revision
  OBVIOUS

LEMMA FormChanges ==
  ASSUME NEW c \in FormShape, NEW n \in 0..MaxRevision, n = c.revision + 1,
         NEW status \in {"none", "draft", "published", "archived", "deleted"}
  PROVE  /\ [c EXCEPT !.content = n, !.revision = n] \in FormShape
         /\ [c EXCEPT !.status = status, !.revision = n] \in FormShape
         /\ c.revision <= n
<1>1. c.status \in {"none", "draft", "published", "archived", "deleted"} /\ c.version \in Nat
      /\ c.content \in 0..MaxRevision /\ c.revision \in 0..MaxRevision
  BY DEF FormShape
<1>2. c.revision <= n
  BY <1>1, ConsentAssumption
<1> QED BY <1>2, FieldsChange DEF FormShape

LEMMA ConsentStarts == ConsentInit => ConsentInv
<1> SUFFICES ASSUME ConsentInit PROVE ConsentInv
  OBVIOUS
<1>1. ConsentShape
  BY EmptyTyped, ConsentAssumption DEF ConsentInit, ConsentShape, RecordDocs
<1>2. \A h \in Clerics : Reads(h)
  BY EmptyTyped DEF ConsentInit, Reads
<1>3. PublishedSettled /\ RecordsStand
  BY DEF ConsentInit, PublishedSettled, RecordsStand, EmptyForm
<1> QED BY <1>1, <1>2, <1>3 DEF ConsentInv

\* One request goes on to r; templates are as they are.
LEMMA ClericKeeps ==
  ASSUME ConsentInv, NEW h \in Clerics, NEW r \in ClericShape, cleric' = [cleric EXCEPT ![h] = r],
         UNCHANGED form, record' \in [Records -> RecordDocs], late' \in SUBSET Records,
         \A x \in Records : record'[x].status # "none" =>
           record'[x] = record[x] \/ Stands(record'[x].form, record'[x].content),
         \A x \in Records : record[x].status # "none" => record'[x].status # "none",
         r.step = "edit" => r.form \in Forms /\ form[r.form].status = "draft"
                            /\ r.copy = form[r.form],
         r.step = "publish" => r.form \in Forms /\ form[r.form].status # "none"
                               /\ r.copy = form[r.form],
         r.step \in {"rename", "copy", "archive", "count", "delete"} =>
           r.form \in Forms /\ form[r.form].status # "none",
         r.step = "pdf" => Stands(r.form, r.copy.content),
         r.step \in {"upload", "revoke"} => r.record \in Records
                                            /\ record'[r.record].status # "none"
  PROVE  ConsentInv'
<1>1. ConsentShape'
  BY DEF ConsentInv, ConsentShape
<1>2. cleric'[h] = r /\ \A g \in Clerics : g # h => cleric'[g] = cleric[g]
  BY DEF ConsentInv, ConsentShape
<1>3. \A f \in Forms : Settled(f) /\ form[f].status # "draft" => Settled(f)'
  BY <1>2 DEF Settled
<1>4. \A f, text : Stands(f, text) => Stands(f, text)'
  BY <1>3 DEF Stands
<1>5. \A g \in Clerics : Reads(g)'
  <2>1. ASSUME NEW g \in Clerics, g # h PROVE Reads(g)'
    BY <1>2, <1>4, <2>1 DEF ConsentInv, Reads
  <2>2. Reads(h)'
    <3>1. \A f \in Forms : form[f].revision <= form[f].revision
      BY DEF ConsentInv, ConsentShape, FormShape
    <3>2. r.step = "pdf" => r.form \in Forms /\ form[r.form].status # "none"
      BY DEF Stands
    <3> QED BY <1>2, <1>4, <3>1, <3>2 DEF Reads
  <2> QED BY <2>1, <2>2
<1>6. PublishedSettled'
  BY <1>3 DEF ConsentInv, PublishedSettled
<1>7. RecordsStand'
  BY <1>4 DEF ConsentInv, RecordsStand
<1> QED BY <1>1, <1>5, <1>6, <1>7 DEF ConsentInv

\* A template is written; requests go nowhere or end.
LEMMA FormKeeps ==
  ASSUME ConsentInv, NEW f \in Forms, NEW d \in FormShape, form' = [form EXCEPT ![f] = d],
         UNCHANGED <<record, late>>, cleric' \in [Clerics -> ClericShape],
         \A h \in Clerics : cleric'[h] = cleric[h] \/ cleric'[h].step = "idle",
         d.status # "none", form[f].status = "deleted" => d.status = "deleted",
         form[f].status = "none" \/ d.status = "deleted" \/ form[f].revision <= d.revision,
         \A text : Stands(f, text) => Stands(f, text)',
         d.status = "published" => Settled(f)'
  PROVE  ConsentInv'
<1>1. ConsentShape'
  BY DEF ConsentInv, ConsentShape
<1>2. form'[f] = d /\ \A g \in Forms : g # f => form'[g] = form[g]
  BY DEF ConsentInv, ConsentShape
<1>3. \A g \in Forms : g # f /\ Settled(g) => Settled(g)'
  BY <1>2 DEF Settled
<1>4. \A g, text : Stands(g, text) => Stands(g, text)'
  BY <1>2, <1>3 DEF Stands
<1>5. ASSUME NEW h \in Clerics PROVE Reads(h)'
  <2>1. CASE cleric'[h] = cleric[h]
    <3>1. cleric[h].step \in {"edit", "publish"} =>
            form'[cleric[h].form].status = "deleted"
            \/ cleric[h].copy.revision <= form'[cleric[h].form].revision
      <4> SUFFICES ASSUME cleric[h].step \in {"edit", "publish"}, cleric[h].form = f
                   PROVE  d.status = "deleted" \/ cleric[h].copy.revision <= d.revision
        BY <1>2 DEF ConsentInv, Reads
      <4>1. d.revision \in Nat /\ cleric[h].copy.revision \in Nat /\ form[f].revision \in Nat
        BY ConsentAssumption DEF ConsentInv, ConsentShape, FormShape, ClericShape
      <4> QED BY <4>1 DEF ConsentInv, Reads
    <3>2. cleric[h].step = "pdf" => Stands(cleric[h].form, cleric[h].copy.content)'
      BY <1>4, <2>1 DEF ConsentInv, Reads
    <3> QED BY <1>2, <2>1, <3>1, <3>2 DEF ConsentInv, Reads
  <2>2. CASE cleric'[h].step = "idle"
    BY <2>2 DEF Reads
  <2> QED BY <2>1, <2>2
<1>6. PublishedSettled'
  BY <1>2, <1>3 DEF ConsentInv, PublishedSettled
<1>7. RecordsStand'
  BY <1>4 DEF ConsentInv, RecordsStand
<1> QED BY <1>1, <1>5, <1>6, <1>7 DEF ConsentInv

LEMMA LoadKeeps ==
  ASSUME ConsentInv, NEW h \in Clerics, NEW f \in Forms, NEW statuses, NEW step,
         Loads(h, f, statuses, step), "none" \notin statuses,
         \/ step = "edit" /\ statuses = {"draft"}
         \/ step = "pdf" /\ statuses = {"published"}
         \/ step \in {"rename", "publish", "copy", "archive", "count"}
  PROVE  ConsentInv'
<1> DEFINE r == [IdleCleric EXCEPT !.step = step, !.form = f, !.copy = form[f]]
<1>1. cleric' = [cleric EXCEPT ![h] = r] /\ UNCHANGED <<form, record, late>> /\ form[f].status \in statuses
  BY DEF Loads
<1>2. form[f] \in FormShape
  BY DEF ConsentInv, ConsentShape
<1>3. r \in ClericShape /\ r.step = step /\ r.form = f /\ r.copy = form[f]
  BY <1>2, EmptyTyped DEF ClericShape, ClericSteps
<1>4. statuses = {"published"} => Stands(f, form[f].content)
  BY <1>1 DEF ConsentInv, PublishedSettled, Stands
<1>5. record' \in [Records -> RecordDocs] /\ late' \in SUBSET Records
  BY <1>1 DEF ConsentInv, ConsentShape
<1> HIDE DEF r
<1> QED BY <1>1, <1>3, <1>4, <1>5, ClericKeeps

LEMMA ConsentSteps == ConsentInv /\ [ConsentNext]_consentVars => ConsentInv'
<1> SUFFICES ASSUME ConsentInv, [ConsentNext]_consentVars PROVE ConsentInv'
  OBVIOUS
<1>0. form \in [Forms -> FormShape] /\ record \in [Records -> RecordDocs]
      /\ cleric \in [Clerics -> ClericShape] /\ late \in SUBSET Records
  BY DEF ConsentInv, ConsentShape
<1>a. \A h \in Clerics : ClericEnds(h) =>
        /\ cleric' \in [Clerics -> ClericShape]
        /\ \A g \in Clerics : cleric'[g] = cleric[g] \/ cleric'[g].step = "idle"
  BY <1>0, EmptyTyped DEF ClericEnds
<1>b. ASSUME NEW h \in Clerics, ClericEnds(h), UNCHANGED <<form, late>>, record' \in [Records -> RecordDocs],
             \A x \in Records : record'[x].status # "none" =>
               record'[x] = record[x] \/ Stands(record'[x].form, record'[x].content),
             \A x \in Records : record[x].status # "none" => record'[x].status # "none"
      PROVE  ConsentInv'
  BY <1>0, <1>b, EmptyTyped, ClericKeeps DEF ClericEnds
<1>1. ASSUME NEW f \in Forms, CreateTemplate(f) PROVE ConsentInv'
  <2> DEFINE d == [EmptyForm EXCEPT !.status = "draft", !.version = 1]
  <2>1. d \in FormShape /\ d.status = "draft"
    BY EmptyTyped DEF FormShape, EmptyForm
  <2>2. form' = [form EXCEPT ![f] = d] /\ form[f].status = "none" /\ UNCHANGED <<record, cleric, late>>
    BY <1>1 DEF CreateTemplate
  <2> HIDE DEF d
  <2> QED BY <1>0, <2>1, <2>2, FormKeeps DEF Stands
<1>2. ASSUME NEW h \in Clerics, NEW f \in Forms,
             \/ Edit(h, f) \/ Rename(h, f) \/ Publish(h, f) \/ NewVersion(h, f) \/ Archive(h, f) \/ Delete(h, f)
             \/ Sign(h, f)
      PROVE  ConsentInv'
  BY <1>2, LoadKeeps DEF Edit, Rename, Publish, NewVersion, Archive, Delete, Sign
<1>3. ASSUME NEW h \in Clerics, SaveEdit(h) PROVE ConsentInv'
  <2> PICK f \in Forms : f = cleric[h].form
    BY <1>3 DEF SaveEdit, ConsentInv, Reads
  <2> DEFINE d == [form[f] EXCEPT !.content = form[f].revision + 1, !.revision = @ + 1]
  <2>1. cleric[h].step = "edit" /\ ClericEnds(h) /\ UNCHANGED <<record, late>>
    BY <1>3 DEF SaveEdit
  <2>2. CASE UNCHANGED form
    BY <1>0, <1>b, <2>1, <2>2
  <2>3. CASE SameRevision(h) /\ form[f].revision < MaxRevision /\ form' = [form EXCEPT ![f] = d]
    <3>1. f \in Forms /\ form[f].status \notin {"none", "deleted"} /\ form[f] \in FormShape
      BY <1>0, <2>1, <2>3 DEF SameRevision, SameDocument, ConsentInv, Reads
    <3>2. d \in FormShape /\ d.status = form[f].status /\ form[f].revision <= d.revision
      <4>1. form[f].revision \in 0..MaxRevision
        BY <3>1 DEF FormShape
      <4>2. form[f].revision + 1 \in 0..MaxRevision
        BY <2>3, <4>1, ConsentAssumption
      <4>3. d = [form[f] EXCEPT !.content = form[f].revision + 1,
                                !.revision = form[f].revision + 1]
        BY <3>1 DEF FormShape
      <4>4. d \in FormShape /\ form[f].revision <= form[f].revision + 1
        BY <3>1, <4>2, <4>3, FormChanges
      <4>5. d.status = form[f].status /\ d.revision = form[f].revision + 1
        BY <3>1 DEF FormShape
      <4> QED BY <4>4, <4>5
    <3>3. ~Settled(f)
      <4>1. form[f].revision = cleric[h].copy.revision /\ form[f].revision \in 0..MaxRevision
        BY <2>3, <3>1 DEF SameRevision, FormShape
      <4> QED BY <2>1, <4>1, ConsentAssumption DEF Settled
    <3>4. d.status # "published" /\ \A text : ~Stands(f, text)
      BY <3>1, <3>2, <3>3 DEF ConsentInv, PublishedSettled, Stands
    <3> HIDE DEF d
    <3> QED BY <1>a, <2>1, <2>3, <3>1, <3>2, <3>4, FormKeeps
  <2>4. \/ UNCHANGED form
        \/ SameRevision(h) /\ form[f].revision < MaxRevision /\ form' = [form EXCEPT ![f] = d]
    <3> SUFFICES ASSUME SameRevision(h) PROVE form[f].revision < MaxRevision
                                              /\ form' = [form EXCEPT ![f] = d]
      BY <1>3 DEF SaveEdit
    <3>1. f \in Forms
      BY <2>1 DEF ConsentInv, Reads
    <3> QED BY <1>0, <1>3, <3>1 DEF SaveEdit, FormShape
  <2> QED BY <2>2, <2>3, <2>4
<1>4. ASSUME NEW h \in Clerics, SavePublished(h) PROVE ConsentInv'
  <2> PICK f \in Forms : f = cleric[h].form
    BY <1>4 DEF SavePublished, ConsentInv, Reads
  <2> DEFINE d == [form[f] EXCEPT !.status = "published", !.revision = @ + 1]
  <2>1. cleric[h].step = "publish" /\ ClericEnds(h) /\ UNCHANGED <<record, late>>
    BY <1>4 DEF SavePublished
  <2>2. CASE UNCHANGED form
    BY <1>0, <1>b, <2>1, <2>2
  <2>3. CASE SameRevision(h) /\ form[f].revision < MaxRevision /\ form' = [form EXCEPT ![f] = d]
    <3>1. f \in Forms /\ form[f].status \notin {"none", "deleted"} /\ form[f] \in FormShape
      BY <1>0, <2>1, <2>3 DEF SameRevision, SameDocument, ConsentInv, Reads
    <3>2. d \in FormShape /\ d.status = "published" /\ d.revision = form[f].revision + 1
          /\ d.content = form[f].content
      <4>1. form[f].revision \in 0..MaxRevision
        BY <3>1 DEF FormShape
      <4>2. form[f].revision + 1 \in 0..MaxRevision
        BY <2>3, <4>1, ConsentAssumption
      <4>3. d = [form[f] EXCEPT !.status = "published", !.revision = form[f].revision + 1]
        BY <3>1 DEF FormShape
      <4>4. d \in FormShape
        BY <3>1, <4>2, <4>3, FormChanges
      <4> QED BY <3>1, <4>4 DEF FormShape
    <3>3. form'[f] = d
      BY <1>0, <2>3, <3>1
    <3>4. Settled(f)'
      <4> SUFFICES ASSUME NEW g \in Clerics, cleric'[g].step = "edit", cleric'[g].form = f
                   PROVE  cleric'[g].copy.revision < d.revision
        BY <3>3 DEF Settled
      <4>1. cleric'[g] = cleric[g]
        BY <1>a, <2>1
      <4>2. cleric[g].copy.revision <= form[f].revision
        BY <3>1, <4>1 DEF ConsentInv, Reads
      <4>3. cleric[g].copy.revision \in Nat /\ form[f].revision \in Nat
        BY <1>0, <3>1, ConsentAssumption DEF ClericShape, FormShape
      <4> QED BY <3>2, <4>1, <4>2, <4>3
    <3>5. \A text : Stands(f, text) => Stands(f, text)'
      BY <3>1, <3>2, <3>3, <3>4 DEF Stands
    <3>6. form[f].revision <= d.revision
      BY <3>1, <3>2, ConsentAssumption DEF FormShape
    <3> HIDE DEF d
    <3> QED BY <1>a, <2>1, <2>3, <3>1, <3>2, <3>4, <3>5, <3>6, FormKeeps
  <2>4. \/ UNCHANGED form
        \/ SameRevision(h) /\ form[f].revision < MaxRevision /\ form' = [form EXCEPT ![f] = d]
    <3> SUFFICES ASSUME SameRevision(h) PROVE form[f].revision < MaxRevision
                                              /\ form' = [form EXCEPT ![f] = d]
      BY <1>4 DEF SavePublished
    <3>1. f \in Forms
      BY <2>1 DEF ConsentInv, Reads
    <3> QED BY <1>0, <1>4, <3>1 DEF SavePublished, FormShape
  <2> QED BY <2>2, <2>3, <2>4
<1>5. ASSUME NEW h \in Clerics, NEW g \in Forms, CreateNewVersion(h, g) PROVE ConsentInv'
  <2> DEFINE d == [status |-> "draft", version |-> cleric[h].copy.version + 1,
                   content |-> cleric[h].copy.content, revision |-> 0, renamed |-> FALSE]
  <2>1. form' = [form EXCEPT ![g] = d] /\ form[g].status = "none" /\ UNCHANGED <<record, late>>
        /\ ClericEnds(h)
    BY <1>5 DEF CreateNewVersion, NextVersion
  <2>2. d \in FormShape /\ d.status = "draft"
    BY <1>0, ConsentAssumption DEF ClericShape, FormShape
  <2> HIDE DEF d
  <2> QED BY <1>a, <2>1, <2>2, FormKeeps DEF Stands
<1>6. ASSUME NEW h \in Clerics, SaveArchived(h) PROVE ConsentInv'
  <2> PICK f \in Forms : f = cleric[h].form
    BY <1>6 DEF SaveArchived, ConsentInv, Reads
  <2> DEFINE status == IF form[f].status = "deleted" \/ cleric[h].copy.status = "archived"
                         THEN form[f].status ELSE "archived"
             d == [form[f] EXCEPT !.status = status]
  <2>1. f \in Forms /\ form[f].status # "none" /\ ClericEnds(h) /\ UNCHANGED <<record, late>>
    BY <1>6 DEF SaveArchived, ConsentInv, Reads
  <2>2. form[f] \in FormShape
    BY <1>0, <2>1
  <2>3. d \in FormShape /\ d.revision = form[f].revision /\ d.content = form[f].content
        /\ d.status \in {form[f].status, "archived"}
        /\ (form[f].status = "deleted" => d.status = "deleted")
    BY <2>2 DEF FormShape
  <2>4. form' = [form EXCEPT ![f] = d]
    BY <1>0, <1>6, <2>1, <2>2 DEF SaveArchived, FormShape
  <2> HIDE DEF d
  <2>5. form'[f] = d
    BY <1>0, <2>1, <2>4
  <2>6. Settled(f) => Settled(f)'
    BY <1>a, <2>1, <2>3, <2>5 DEF Settled
  <2>7. \A text : Stands(f, text) => Stands(f, text)'
    BY <2>3, <2>5, <2>6 DEF Stands
  <2>8. d.status = "published" => Settled(f)'
    BY <2>1, <2>3, <2>6 DEF ConsentInv, PublishedSettled
  <2>9. form[f].revision <= d.revision
    BY <2>2, <2>3, ConsentAssumption DEF FormShape
  <2> QED BY <1>a, <2>1, <2>3, <2>4, <2>7, <2>8, <2>9, FormKeeps
<1>7. ASSUME NEW h \in Clerics, CountRecords(h) PROVE ConsentInv'
  <2> DEFINE r == [cleric[h] EXCEPT !.step = "delete", !.copy = EmptyForm]
  <2>1. cleric[h].step = "count" /\ UNCHANGED <<form, record, late>>
    BY <1>7 DEF CountRecords
  <2>2. CASE ClericEnds(h)
    BY <1>0, <1>b, <2>1, <2>2
  <2>3. CASE cleric' = [cleric EXCEPT ![h] = r]
    <3>1. r \in ClericShape /\ r.step = "delete" /\ r.form = cleric[h].form
      BY <1>0, EmptyTyped DEF ClericShape, ClericSteps
    <3>2. r.form \in Forms /\ form[r.form].status # "none"
      BY <2>1, <3>1 DEF ConsentInv, Reads
    <3> HIDE DEF r
    <3> QED BY <1>0, <2>1, <2>3, <3>1, <3>2, ClericKeeps
  <2> QED BY <1>0, <1>7, <2>2, <2>3 DEF CountRecords
<1>8. ASSUME NEW h \in Clerics, DeleteOne(h) PROVE ConsentInv'
  <2> PICK f \in Forms : f = cleric[h].form
    BY <1>8 DEF DeleteOne, ConsentInv, Reads
  <2> DEFINE d == [EmptyForm EXCEPT !.status = "deleted"]
  <2>1. form' = [form EXCEPT ![f] = d] /\ ClericEnds(h) /\ UNCHANGED <<record, late>>
        /\ f \in Forms
    BY <1>8 DEF DeleteOne, ConsentInv, Reads
  <2>2. d \in FormShape /\ d.status = "deleted"
    BY EmptyTyped DEF FormShape
  <2> HIDE DEF d
  <2>3. form'[f] = d
    BY <1>0, <2>1
  <2>4. \A text : Stands(f, text) => Stands(f, text)'
    BY <2>2, <2>3 DEF Stands
  <2> QED BY <1>a, <2>1, <2>2, <2>4, FormKeeps
<1>9. ASSUME NEW h \in Clerics, NEW x \in Records, SaveRecord(h, x) PROVE ConsentInv'
  <2> DEFINE r == [IdleCleric EXCEPT !.step = "upload", !.record = x]
             d == [status |-> "signed", form |-> cleric[h].form,
                   content |-> cleric[h].copy.content]
  <2>1. cleric[h].step = "pdf" /\ record' = [record EXCEPT ![x] = d]
        /\ cleric' = [cleric EXCEPT ![h] = r] /\ UNCHANGED form /\ late' \in SUBSET Records
    BY <1>0, <1>9 DEF SaveRecord
  <2>2. r \in ClericShape /\ r.step = "upload" /\ r.record = x
    BY EmptyTyped DEF ClericShape, ClericSteps
  <2>3. Stands(cleric[h].form, cleric[h].copy.content) /\ cleric[h] \in ClericShape
    BY <1>0, <2>1 DEF ConsentInv, Reads
  <2>4. d \in RecordDocs /\ d.status = "signed" /\ Stands(d.form, d.content)
    BY <2>3 DEF RecordDocs, ClericShape, FormShape
  <2> HIDE DEF r, d
  <2>5. record' \in [Records -> RecordDocs] /\ record'[x] = d
        /\ \A y \in Records : y # x => record'[y] = record[y]
    BY <1>0, <2>1, <2>4
  <2> QED BY <2>1, <2>2, <2>4, <2>5, ClericKeeps
<1>10. ASSUME NEW h \in Clerics, NEW status \in {"signed", "revoked"},
              cleric[h].step \in {"upload", "revoke"}, ClericEnds(h), UNCHANGED <<form, late>>,
              record' = [record EXCEPT ![cleric[h].record].status = status]
       PROVE  ConsentInv'
  <2> DEFINE x == cleric[h].record
             d == [record[x] EXCEPT !.status = status]
  <2>1. x \in Records /\ record[x].status # "none" /\ record[x] \in RecordDocs
    BY <1>0, <1>10 DEF ConsentInv, Reads
  <2>2. d \in RecordDocs /\ d.status = status /\ d.form = record[x].form
        /\ d.content = record[x].content
    BY <2>1 DEF RecordDocs
  <2>3. record' = [record EXCEPT ![x] = d]
    BY <1>10
  <2> HIDE DEF d, x
  <2>4. record' \in [Records -> RecordDocs] /\ record'[x] = d
        /\ \A y \in Records : y # x => record'[y] = record[y]
    BY <1>0, <2>1, <2>2, <2>3
  <2>5. Stands(d.form, d.content)
    BY <2>1, <2>2 DEF ConsentInv, RecordsStand
  <2> QED BY <1>10, <1>b, <2>1, <2>2, <2>4, <2>5
<1>11. ASSUME NEW h \in Clerics, NEW x \in Records, Revoke(h, x) PROVE ConsentInv'
  <2> DEFINE r == [IdleCleric EXCEPT !.step = "revoke", !.record = x]
  <2>1. cleric' = [cleric EXCEPT ![h] = r] /\ UNCHANGED <<form, record, late>>
        /\ record[x].status = "signed"
    BY <1>11 DEF Revoke
  <2>2. r \in ClericShape /\ r.step = "revoke" /\ r.record = x
    BY EmptyTyped DEF ClericShape, ClericSteps
  <2> HIDE DEF r
  <2> QED BY <1>0, <2>1, <2>2, ClericKeeps
<1>12. ASSUME NEW h \in Clerics, ClericFails(h) PROVE ConsentInv'
  BY <1>0, <1>12, <1>b DEF ClericFails
<1>13. CASE UNCHANGED consentVars
  BY <1>13 DEF consentVars, ConsentInv, ConsentShape, Reads, PublishedSettled, RecordsStand,
     Stands, Settled
<1>14. ASSUME NEW h \in Clerics, SetGcsPath(h) \/ SaveRevoked(h) PROVE ConsentInv'
  BY <1>14, <1>10 DEF SetGcsPath, SaveRevoked
<1>15. ASSUME NEW h \in Clerics, SaveRenamed(h) PROVE ConsentInv'
  <2> PICK f \in Forms : f = cleric[h].form
    BY <1>15 DEF SaveRenamed, ConsentInv, Reads
  <2> DEFINE name == form[f].renamed \/ form[f].status \in {"published", "archived"}
             d == [form[f] EXCEPT !.renamed = name]
  <2>1. f \in Forms /\ form[f].status # "none" /\ ClericEnds(h) /\ UNCHANGED <<record, late>>
    BY <1>15 DEF SaveRenamed, ConsentInv, Reads
  <2>2. form[f] \in FormShape /\ name \in BOOLEAN
    BY <1>0, <2>1
  <2>3. form' = [form EXCEPT ![f] = d]
    BY <1>0, <1>15, <2>1, <2>2, Zenon DEF SaveRenamed, FormShape
  <2> HIDE DEF name
  <2>4. d \in FormShape /\ d.revision = form[f].revision /\ d.content = form[f].content
        /\ d.status = form[f].status
    BY <2>2, RenamedField DEF FormShape
  <2> HIDE DEF d
  <2>5. form'[f] = d
    BY <1>0, <2>1, <2>3
  <2>6. Settled(f) => Settled(f)'
    BY <1>a, <2>1, <2>4, <2>5 DEF Settled
  <2>7. \A text : Stands(f, text) => Stands(f, text)'
    BY <2>4, <2>5, <2>6 DEF Stands
  <2>8. d.status = "published" => Settled(f)'
    BY <2>1, <2>4, <2>6 DEF ConsentInv, PublishedSettled
  <2>9. form[f].revision <= d.revision
    BY <2>2, <2>4, ConsentAssumption DEF FormShape
  <2> QED BY <1>a, <2>1, <2>3, <2>4, <2>7, <2>8, <2>9, FormKeeps
<1> QED
  BY <1>1, <1>2, <1>3, <1>4, <1>5, <1>6, <1>7, <1>8, <1>9, <1>11, <1>12, <1>13, <1>14, <1>15
  DEF ConsentNext

(* A record of a template that a deletion has counted, or has deleted, was *)
(* saved behind the count.                                                 *)

RecordsAreCounted == \A r \in Records :
  record[r].status # "none" /\ BeingDeleted(record[r].form) => r \in late

\* No template gets into deletion, and no record changes its template.
LEMMA CountStands ==
  ASSUME ConsentInv, RecordsAreCounted, late \subseteq late',
         \A f \in Forms : form'[f].status = "deleted" => form[f].status = "deleted",
         \A k \in Clerics : cleric'[k].step = "delete" =>
           cleric[k].step = "delete" /\ cleric'[k].form = cleric[k].form,
         \A r \in Records : record'[r].status # "none" =>
           record[r].status # "none" /\ record'[r].form = record[r].form
  PROVE  RecordsAreCounted'
<1> SUFFICES ASSUME NEW r \in Records, record'[r].status # "none",
                    \/ form'[record'[r].form].status = "deleted"
                    \/ \E k \in Clerics : cleric'[k].step = "delete" /\ cleric'[k].form = record'[r].form
             PROVE  r \in late
  BY DEF RecordsAreCounted, BeingDeleted
<1>1. record[r].status # "none" /\ record'[r].form = record[r].form /\ record[r].form \in Forms
  BY DEF ConsentInv, RecordsStand, Stands
<1>2. BeingDeleted(record[r].form)
  BY <1>1 DEF BeingDeleted
<1> QED BY <1>1, <1>2 DEF RecordsAreCounted

LEMMA CountKeeps ==
  ConsentInv /\ RecordsAreCounted /\ [ConsentNext]_consentVars => RecordsAreCounted'
<1> SUFFICES ASSUME ConsentInv, RecordsAreCounted, [ConsentNext]_consentVars
             PROVE  RecordsAreCounted'
  OBVIOUS
<1>0. form \in [Forms -> FormShape] /\ record \in [Records -> RecordDocs]
      /\ cleric \in [Clerics -> ClericShape]
  BY DEF ConsentInv, ConsentShape
<1>a. \A h \in Clerics : ClericEnds(h) =>
        \A k \in Clerics : cleric'[k].step = "delete" =>
          cleric[k].step = "delete" /\ cleric'[k].form = cleric[k].form
  BY <1>0, EmptyTyped DEF ClericEnds
<1>1. ASSUME NEW f \in Forms, CreateTemplate(f) PROVE RecordsAreCounted'
  <2>1. form'[f].status = "draft" /\ \A g \in Forms : g # f => form'[g] = form[g]
    BY <1>0, <1>1, EmptyTyped DEF CreateTemplate, FormShape
  <2> QED BY <1>1, <2>1, CountStands DEF CreateTemplate
<1>2. ASSUME NEW h \in Clerics, NEW f \in Forms,
             \/ Edit(h, f) \/ Rename(h, f) \/ Publish(h, f) \/ NewVersion(h, f) \/ Archive(h, f)
             \/ Delete(h, f) \/ Sign(h, f)
      PROVE  RecordsAreCounted'
  <2>1. PICK step, statuses : step \in ClericSteps \ {"delete"} /\ Loads(h, f, statuses, step)
    BY <1>2 DEF Edit, Rename, Publish, NewVersion, Archive, Delete, Sign, ClericSteps
  <2>2. cleric'[h].step = step /\ \A k \in Clerics : k # h => cleric'[k] = cleric[k]
    BY <1>0, <2>1, EmptyTyped DEF Loads, ClericShape
  <2> QED BY <2>1, <2>2, CountStands DEF Loads
<1>3. ASSUME NEW h \in Clerics, ClericEnds(h), UNCHANGED <<record, late>>,
             \A f \in Forms : form'[f].status = "deleted" => form[f].status = "deleted"
      PROVE  RecordsAreCounted'
  BY <1>3, <1>a, CountStands
<1>4. ASSUME NEW h \in Clerics, SaveEdit(h) \/ SavePublished(h) \/ SaveArchived(h) \/ SaveRenamed(h)
      PROVE  RecordsAreCounted'
  <2>1. ASSUME NEW f \in Forms PROVE form'[f].status = "deleted" => form[f].status = "deleted"
    BY <1>0, <1>4 DEF SaveEdit, SavePublished, SaveArchived, SaveRenamed, FormShape
  <2> QED BY <1>3, <1>4, <2>1 DEF SaveEdit, SavePublished, SaveArchived, SaveRenamed
<1>5. ASSUME NEW h \in Clerics, NEW g \in Forms, CreateNewVersion(h, g) PROVE RecordsAreCounted'
  <2>1. ASSUME NEW f \in Forms PROVE form'[f].status = "deleted" => form[f].status = "deleted"
    BY <1>0, <1>5 DEF CreateNewVersion, FormShape
  <2> QED BY <1>3, <1>5, <2>1 DEF CreateNewVersion
<1>6. ASSUME NEW h \in Clerics, CountRecords(h) PROVE RecordsAreCounted'
  <2> DEFINE f == cleric[h].form
  <2>1. CASE ClericEnds(h)
    BY <1>3, <1>6, <2>1 DEF CountRecords
  <2>2. CASE /\ \A r \in Records : record[r].form # f
             /\ cleric' = [cleric EXCEPT ![h].step = "delete", ![h].copy = EmptyForm]
    <3>1. cleric'[h].form = f /\ \A k \in Clerics : k # h => cleric'[k] = cleric[k]
      BY <1>0, <2>2 DEF ClericShape
    <3>2. UNCHANGED <<form, record, late>>
      BY <1>6 DEF CountRecords
    <3> HIDE DEF f
    <3>3. ASSUME NEW r \in Records, record[r].status # "none", BeingDeleted(record[r].form)'
          PROVE  r \in late
      <4>1. BeingDeleted(record[r].form)
        BY <3>1, <3>2, <3>3, <2>2 DEF BeingDeleted
      <4> QED BY <3>3, <4>1 DEF RecordsAreCounted
    <3> QED BY <3>2, <3>3 DEF RecordsAreCounted
  <2> QED BY <1>6, <2>1, <2>2 DEF CountRecords
<1>7. ASSUME NEW h \in Clerics, DeleteOne(h) PROVE RecordsAreCounted'
  <2> DEFINE f == cleric[h].form
  <2>1. UNCHANGED <<record, late>> /\ cleric[h].step = "delete" /\ f \in Forms
        /\ \A g \in Forms : g # f => form'[g] = form[g]
    BY <1>0, <1>7 DEF DeleteOne, ConsentInv, Reads
  <2>2. \A k \in Clerics : cleric'[k].step = "delete" =>
          cleric[k].step = "delete" /\ cleric'[k].form = cleric[k].form
    BY <1>a, <1>7 DEF DeleteOne
  <2> HIDE DEF f
  <2>3. ASSUME NEW r \in Records, record[r].status # "none", BeingDeleted(record[r].form)'
        PROVE  r \in late
    <3>1. record[r].form \in Forms
      BY <2>3 DEF ConsentInv, RecordsStand, Stands
    <3>2. BeingDeleted(record[r].form)
      BY <2>1, <2>2, <2>3, <3>1 DEF BeingDeleted, f
    <3> QED BY <2>3, <3>2 DEF RecordsAreCounted
  <2> QED BY <2>1, <2>3 DEF RecordsAreCounted
<1>8. ASSUME NEW h \in Clerics, NEW x \in Records, SaveRecord(h, x) PROVE RecordsAreCounted'
  <2>1. /\ cleric'[h].step = "upload" /\ \A k \in Clerics : k # h => cleric'[k] = cleric[k]
        /\ UNCHANGED form /\ cleric[h].step = "pdf"
    BY <1>0, <1>8, EmptyTyped DEF SaveRecord, ClericShape
  <2>2. \A f : BeingDeleted(f)' => BeingDeleted(f)
    BY <2>1 DEF BeingDeleted
  <2>3. /\ record'[x].form = cleric[h].form /\ \A r \in Records : r # x => record'[r] = record[r]
        /\ late \subseteq late' /\ (BeingDeleted(cleric[h].form) => x \in late')
    BY <1>0, <1>8 DEF SaveRecord
  <2> QED BY <2>2, <2>3 DEF RecordsAreCounted
<1>9. ASSUME NEW h \in Clerics, SetGcsPath(h) \/ SaveRevoked(h) PROVE RecordsAreCounted'
  <2>1. cleric[h].record \in Records /\ record[cleric[h].record].status # "none"
    BY <1>9 DEF SetGcsPath, SaveRevoked, ConsentInv, Reads
  <2>2. \A r \in Records : record'[r].status # "none" =>
          record[r].status # "none" /\ record'[r].form = record[r].form
    BY <1>0, <1>9, <2>1 DEF SetGcsPath, SaveRevoked, RecordDocs
  <2> QED BY <1>9, <1>a, <2>2, CountStands DEF SetGcsPath, SaveRevoked
<1>10. ASSUME NEW h \in Clerics, NEW x \in Records, Revoke(h, x) PROVE RecordsAreCounted'
  <2>1. cleric'[h].step = "revoke" /\ \A k \in Clerics : k # h => cleric'[k] = cleric[k]
    BY <1>0, <1>10, EmptyTyped DEF Revoke, ClericShape
  <2> QED BY <1>10, <2>1, CountStands DEF Revoke
<1>11. ASSUME NEW h \in Clerics, ClericFails(h) PROVE RecordsAreCounted'
  BY <1>3, <1>11 DEF ClericFails
<1>12. CASE UNCHANGED consentVars
  BY <1>12, CountStands DEF consentVars
<1> QED
  BY <1>1, <1>2, <1>4, <1>5, <1>6, <1>7, <1>8, <1>9, <1>10, <1>11, <1>12 DEF ConsentNext

(***************************************************************************)
(* No edit, new version, publication or archiving changes the sections of  *)
(* a template behind a signature, and none of its deletions takes it away  *)
(* but one that had counted the records before the signature was saved     *)
(* (routes/consentTemplates.js PUT /:id, DELETE /:id; routes/consents.js   *)
(* POST /sign), whatever the number of requests, templates and records.    *)
(***************************************************************************)
THEOREM TextStands == ConsentSpec => []SignedTextStands
<1>1. ConsentInv /\ RecordsAreCounted => SignedTextStands
  BY DEF ConsentInv, RecordsStand, RecordsAreCounted, BeingDeleted, Stands, SignedTextStands
<1>2. ConsentInit => RecordsAreCounted
  BY DEF ConsentInit, RecordsAreCounted
<1> QED BY <1>1, <1>2, ConsentStarts, ConsentSteps, CountKeeps, PTL DEF ConsentSpec

-----------------------------------------------------------------------------
(* Staff.  The deletion of a specialist comes to the account that it names *)
(* (LinkHolds) and, when it names none, to the one that was made for it:   *)
(* that account still has its e-mail, which no other has (MailHolds).      *)

Creating(h) == editor[h].step \in {"account", "make", "link"}

\* An account that was made with the specialist, and that no admin has linked.
Own(a, s) == login[a].state = "there" /\ login[a].specialist = s /\ a \notin byHand

\* The same of the specialist that a request is about.
OwnOf(h, a) ==
  login[a].state = "there" /\ login[a].specialist = editor[h].person /\ a \notin byHand

EmailsDiffer ==
  /\ \A a, b \in Logins :
       login[a].state = "there" /\ login[b].state = "there" /\ login[a].email = login[b].email
         => a = b
  /\ \A a \in Logins : login[a].state = "there" => login[a].email # NoEmail

Named ==
  /\ \A s \in Specialists : /\ person[s].login # NoLogin => login[person[s].login].state # "none"
                            /\ person[s].state = "none" => person[s].login = NoLogin
  /\ \A h \in Editors : editor[h].login # NoLogin => login[editor[h].login].state # "none"

Creators ==
  /\ \A h \in Editors : editor[h].step # "idle" =>
       editor[h].person \in Specialists /\ person[editor[h].person].state # "none"
  /\ \A h \in Editors : Creating(h) =>
       /\ editor[h].email \in Addresses
       /\ editor[h].person \notin excused =>
            /\ person[editor[h].person].state = "there"
            /\ person[editor[h].person].login = NoLogin
            /\ person[editor[h].person].email = editor[h].email
            /\ \A a \in Logins : OwnOf(h, a) =>
                 editor[h].step = "link" /\ editor[h].login = a
  /\ \A h, k \in Editors :
       Creating(h) /\ Creating(k) /\ editor[h].person = editor[k].person => h = k

Unlinks(h, s, a) == editor[h].person = s /\ editor[h].step = "unlink" /\ editor[h].login = a

Finds(h, s, a) ==
  /\ editor[h].person = s
  /\ \/ editor[h].step = "find" /\ editor[h].email = login[a].email
     \/ editor[h].step = "remove" /\ editor[h].login = a

LinkHolds == \A s \in Specialists \ excused, a \in Logins :
  person[s].login = a /\ login[a].state = "there" =>
    person[s].state = "there" \/ \E h \in Editors : Unlinks(h, s, a)

MailHolds == \A s \in Specialists \ excused, a \in Logins :
  Own(a, s) /\ person[s].login # a =>
    /\ person[s].login = NoLogin
    /\ \/ person[s].state = "there" /\ person[s].email = login[a].email
       \/ \E h \in Editors : Finds(h, s, a)

StaffInv ==
  /\ StaffTypeOK
  /\ EmailsDiffer
  /\ Named
  /\ Creators
  /\ LinkHolds
  /\ MailHolds

LEMMA EditorTyped ==
  IdleEditor \in EditorStates /\ IdleEditor.step = "idle" /\ IdleEditor.login = NoLogin
  BY DEF IdleEditor, EditorStates, EditorSteps

LEMMA StaffStarts == StaffInit => StaffInv
<1> SUFFICES ASSUME StaffInit PROVE StaffInv
  OBVIOUS
<1>1. PICK s \in Specialists \cup {NoSpecialist} :
        /\ person = [t \in Specialists |-> IF t # s THEN NobodyYet
             ELSE [state |-> "there", email |-> OwnerEmail, login |-> Owner]]
        /\ login = [a \in Logins |-> IF a # Owner THEN NoLoginYet
             ELSE [state |-> "there", email |-> OwnerEmail, specialist |-> s]]
  BY DEF StaffInit
<1>2. editor = [h \in Editors |-> IdleEditor] /\ excused = {} /\ byHand = {}
  BY DEF StaffInit
<1>3. StaffTypeOK
  BY <1>1, <1>2, EditorTyped, StaffAssumption
     DEF StaffTypeOK, PersonDocs, LoginDocs, Lives, NobodyYet, NoLoginYet
<1>4. \A a \in Logins : login[a].state = "there" =>
        a = Owner /\ login[a].email = OwnerEmail /\ login[a].specialist = s
  BY <1>1 DEF NoLoginYet
<1>5. EmailsDiffer
  BY <1>4, StaffAssumption DEF EmailsDiffer
<1>6. \A t \in Specialists : /\ t # s => person[t].login = NoLogin
                             /\ t = s => person[t].login = Owner /\ person[t].state = "there"
  BY <1>1 DEF NobodyYet
<1>7. Named
  BY <1>1, <1>2, <1>6, EditorTyped, StaffAssumption DEF Named
<1>8. Creators
  BY <1>2, EditorTyped DEF Creators, Creating
<1>9. LinkHolds /\ MailHolds
  BY <1>4, <1>6, StaffAssumption DEF LinkHolds, MailHolds, Own
<1> QED BY <1>3, <1>5, <1>7, <1>8, <1>9 DEF StaffInv

\* One request goes on to r, nothing else changes but excuses.
LEMMA EditorKeeps ==
  ASSUME StaffInv, NEW h \in Editors, NEW r \in EditorStates, editor' = [editor EXCEPT ![h] = r],
         UNCHANGED <<person, login, byHand>>, excused \subseteq excused',
         excused' \in SUBSET Specialists,
         r.step # "idle" => editor[h].step # "idle" /\ r.person = editor[h].person
                            /\ r.email = editor[h].email,
         r.step \in {"account", "make", "link"} =>
           r.step # "link" /\ editor[h].step \in {"account", "make"},
         r.login # NoLogin => login[r.login].state # "none",
         \A s \in Specialists \ excused', a \in Logins :
           /\ Unlinks(h, s, a) /\ login[a].state = "there" => Unlinks(h, s, a)'
           /\ Finds(h, s, a) /\ Own(a, s) => Finds(h, s, a)'
  PROVE  StaffInv'
<1>1. editor'[h] = r /\ \A g \in Editors : g # h => editor'[g] = editor[g]
  BY DEF StaffInv, StaffTypeOK
<1>2. StaffTypeOK'
  BY DEF StaffInv, StaffTypeOK
<1>3. EmailsDiffer'
  BY DEF StaffInv, EmailsDiffer
<1>4. Named'
  BY <1>1 DEF StaffInv, Named
<1>5. \A g \in Editors : /\ Creating(g)' => Creating(g) /\ (g = h => editor[g].step # "link")
                         /\ editor'[g].step # "idle" => editor[g].step # "idle"
                              /\ editor'[g].person = editor[g].person
                              /\ editor'[g].email = editor[g].email
  BY <1>1 DEF Creating
<1>6. \A s, a : Own(a, s)' <=> Own(a, s)
  BY DEF Own
<1>7. Creators'
  <2>1. ASSUME NEW g \in Editors, Creating(g)', editor'[g].person \notin excused',
               NEW a \in Logins, OwnOf(g, a)'
        PROVE  editor'[g].step = "link" /\ editor'[g].login = a
    <3>1. /\ Creating(g) /\ editor[g].person \notin excused /\ OwnOf(g, a)
          /\ (g = h => editor[g].step # "link")
      BY <1>1, <1>5, <2>1 DEF Creating, OwnOf
    <3>2. editor[g].step = "link" /\ editor[g].login = a
      BY <3>1 DEF StaffInv, Creators
    <3> QED BY <1>1, <3>1, <3>2
  <2>2. \A g \in Editors : Creating(g)' => editor'[g].step # "idle"
    BY DEF Creating
  <2> QED BY <1>5, <1>6, <2>1, <2>2 DEF StaffInv, Creators
<1>8. \A g \in Editors, s \in Specialists \ excused', a \in Logins :
        /\ Unlinks(g, s, a) /\ login[a].state = "there" => Unlinks(g, s, a)'
        /\ Finds(g, s, a) /\ Own(a, s) => Finds(g, s, a)'
  BY <1>1 DEF Unlinks, Finds
<1>9. LinkHolds'
  BY <1>8 DEF StaffInv, LinkHolds
<1>10. MailHolds'
  BY <1>6, <1>8 DEF StaffInv, MailHolds
<1> QED BY <1>2, <1>3, <1>4, <1>7, <1>9, <1>10 DEF StaffInv

\* An account is deleted, and the request for it ends.
LEMMA RemoveKeeps ==
  ASSUME StaffInv, NEW a \in Logins, UNCHANGED <<person, excused, byHand>>, AccountGoes(a),
         editor' \in [Editors -> EditorStates],
         \A h \in Editors : editor'[h] = editor[h]
                            \/ (editor'[h] = IdleEditor /\ editor[h].login = a
                                /\ editor[h].step \in {"unlink", "remove"})
  PROVE  StaffInv'
<1>1. \A b \in Logins : /\ login'[b].state = "there" => login'[b] = login[b] /\ b # a
                        /\ login[b].state # "none" => login'[b].state # "none"
  BY DEF AccountGoes, NoLoginYet
<1>2. login' \in [Logins -> LoginDocs]
  <2>1. [NoLoginYet EXCEPT !.state = "gone"] \in LoginDocs
    BY DEF NoLoginYet, LoginDocs, Lives
  <2> QED BY <2>1 DEF AccountGoes, StaffInv, StaffTypeOK
<1>3. StaffTypeOK'
  BY <1>2 DEF StaffInv, StaffTypeOK
<1>4. EmailsDiffer'
  BY <1>1 DEF StaffInv, EmailsDiffer
<1>5. Named'
  <2>1. \A s \in Specialists : person[s].login # NoLogin => person[s].login \in Logins
    BY DEF StaffInv, StaffTypeOK, PersonDocs
  <2>2. \A h \in Editors : editor[h].login # NoLogin => editor[h].login \in Logins
    BY DEF StaffInv, StaffTypeOK, EditorStates
  <2> QED BY <1>1, <2>1, <2>2, EditorTyped DEF StaffInv, Named
<1>6. \A b, s : b \in Logins /\ Own(b, s)' => Own(b, s)
  BY <1>1 DEF Own
<1>7. \A h \in Editors : /\ editor'[h].step # "idle" => editor'[h] = editor[h]
                         /\ Creating(h)' => Creating(h)
  BY EditorTyped DEF Creating
<1>8. Creators'
  <2>1. \A h \in Editors : Creating(h)' => editor'[h].step # "idle"
    BY DEF Creating
  <2>2. \A h \in Editors, b \in Logins : Creating(h)' /\ OwnOf(h, b)' => OwnOf(h, b)
    BY <1>1, <1>7, <2>1 DEF OwnOf
  <2> QED BY <1>7, <2>1, <2>2 DEF StaffInv, Creators
<1>9. \A g \in Editors, s \in Specialists, b \in Logins : login'[b].state = "there" =>
        (Unlinks(g, s, b) => Unlinks(g, s, b)') /\ (Finds(g, s, b) => Finds(g, s, b)')
  BY <1>1 DEF Unlinks, Finds
<1>10. LinkHolds'
  BY <1>1, <1>9 DEF StaffInv, LinkHolds
<1>11. MailHolds'
  <2> SUFFICES ASSUME NEW s \in Specialists \ excused, NEW b \in Logins, Own(b, s)',
                      person[s].login # b
               PROVE  /\ person[s].login = NoLogin
                      /\ \/ person[s].state = "there" /\ person[s].email = login'[b].email
                         \/ \E h \in Editors : Finds(h, s, b)'
    BY DEF MailHolds
  <2>1. Own(b, s) /\ login'[b] = login[b] /\ login'[b].state = "there"
    BY <1>1, <1>6 DEF Own
  <2> QED BY <1>9, <2>1 DEF StaffInv, MailHolds
<1> QED BY <1>3, <1>4, <1>5, <1>8, <1>10, <1>11 DEF StaffInv

LEMMA EndsKeeps ==
  ASSUME StaffInv, NEW h \in Editors, EditorEnds(h), UNCHANGED <<person, login, byHand>>,
         excused \subseteq excused', excused' \in SUBSET Specialists,
         \A s \in Specialists \ excused', a \in Logins :
           /\ ~(Unlinks(h, s, a) /\ login[a].state = "there")
           /\ ~(Finds(h, s, a) /\ Own(a, s))
  PROVE  StaffInv'
  BY EditorTyped, EditorKeeps DEF EditorEnds

LEMMA GoesKeeps ==
  ASSUME StaffInv, NEW h \in Editors, editor[h].step = "account",
         EditorGoes(h, "make"), UNCHANGED <<person, login, excused, byHand>>
  PROVE  StaffInv'
<1> DEFINE r == [editor[h] EXCEPT !.step = "make"]
<1>1. editor' = [editor EXCEPT ![h] = r]
  BY DEF EditorGoes
<1>2. editor[h] \in EditorStates
  BY DEF StaffInv, StaffTypeOK
<1>3. r \in EditorStates /\ r.step = "make" /\ r.person = editor[h].person
      /\ r.email = editor[h].email /\ r.login = editor[h].login
  BY <1>2 DEF EditorStates, EditorSteps
<1>4. \A s, a : ~Unlinks(h, s, a) /\ ~Finds(h, s, a)
  BY DEF Unlinks, Finds
<1>5. r.login # NoLogin => login[r.login].state # "none"
  BY <1>3 DEF StaffInv, Named
<1>6. excused' \in SUBSET Specialists
  BY DEF StaffInv, StaffTypeOK
<1> HIDE DEF r
<1> QED BY <1>1, <1>3, <1>4, <1>5, <1>6, EditorKeeps

LEMMA CreatePersonKeeps ==
  ASSUME StaffInv, NEW h \in Editors, NEW s \in Specialists, NEW e \in Addresses \cup {NoEmail},
         CreatePerson(h, s, e)
  PROVE  StaffInv'
<1> DEFINE d == [state |-> "there", email |-> e, login |-> NoLogin]
           r == IF e = NoEmail THEN IdleEditor
                ELSE [IdleEditor EXCEPT !.step = "account", !.person = s, !.email = e]
<1>1. editor[h].step = "idle" /\ person[s].state = "none" /\ person' = [person EXCEPT ![s] = d]
      /\ editor' = [editor EXCEPT ![h] = r] /\ UNCHANGED <<login, excused, byHand>>
  BY DEF CreatePerson
<1>2. d \in PersonDocs /\ d.state = "there" /\ d.email = e /\ d.login = NoLogin
  BY DEF PersonDocs, Lives
<1>3. r \in EditorStates /\ r.login = NoLogin
      /\ (r.step # "idle" => r.step = "account" /\ r.person = s /\ r.email = e /\ e \in Addresses)
  BY EditorTyped DEF EditorStates, EditorSteps, IdleEditor
<1> HIDE DEF d, r
<1>4. /\ editor'[h] = r /\ \A g \in Editors : g # h => editor'[g] = editor[g]
      /\ person'[s] = d /\ \A t \in Specialists : t # s => person'[t] = person[t]
  BY <1>1 DEF StaffInv, StaffTypeOK
<1>5. \A g \in Editors : editor[g].step # "idle" => editor[g].person # s
  BY <1>1 DEF StaffInv, Creators
<1>6. person[s].login = NoLogin /\ \A a \in Logins, g \in Editors : ~Unlinks(g, s, a) /\ ~Finds(g, s, a)
  BY <1>1, <1>5 DEF StaffInv, Named, Unlinks, Finds
<1>7. s \notin excused => \A a \in Logins : ~Own(a, s)
  BY <1>1, <1>6, StaffAssumption DEF StaffInv, MailHolds
<1>8. StaffTypeOK'
  BY <1>1, <1>2, <1>3 DEF StaffInv, StaffTypeOK
<1>9. EmailsDiffer'
  BY <1>1 DEF StaffInv, EmailsDiffer
<1>10. Named'
  BY <1>1, <1>2, <1>3, <1>4 DEF StaffInv, Named
<1>11. \A t, a : Own(a, t)' <=> Own(a, t)
  BY <1>1 DEF Own
<1>12. Creators'
  <2>1. ASSUME NEW g \in Editors, editor'[g].step # "idle"
        PROVE  editor'[g].person \in Specialists /\ person'[editor'[g].person].state # "none"
    BY <1>2, <1>3, <1>4, <1>5, <2>1 DEF StaffInv, Creators
  <2>2. ASSUME NEW g \in Editors, Creating(g)'
        PROVE  /\ editor'[g].email \in Addresses
               /\ editor'[g].person \notin excused' =>
                    /\ person'[editor'[g].person].state = "there"
                    /\ person'[editor'[g].person].login = NoLogin
                    /\ person'[editor'[g].person].email = editor'[g].email
                    /\ \A a \in Logins : OwnOf(g, a)' =>
                         editor'[g].step = "link" /\ editor'[g].login = a
    <3>1. CASE g = h
      <4>1. r.step = "account" /\ r.person = s /\ r.email = e /\ e \in Addresses
        BY <1>3, <1>4, <2>2, <3>1 DEF Creating
      <4>2. s \notin excused => \A a \in Logins : ~OwnOf(g, a)'
        BY <1>1, <1>4, <1>7, <3>1, <4>1 DEF Own, OwnOf
      <4> QED BY <1>1, <1>2, <1>4, <3>1, <4>1, <4>2
    <3>2. CASE g # h
      <4>1. Creating(g) /\ editor'[g] = editor[g] /\ editor[g].person # s
            /\ editor[g].person \in Specialists
        BY <1>4, <1>5, <2>2, <3>2 DEF StaffInv, Creators, Creating
      <4>2. \A a \in Logins : OwnOf(g, a)' => OwnOf(g, a)
        BY <1>1, <4>1 DEF OwnOf
      <4> QED BY <1>1, <1>4, <4>1, <4>2 DEF StaffInv, Creators
    <3> QED BY <3>1, <3>2
  <2>3. ASSUME NEW g \in Editors, NEW k \in Editors, Creating(g)', Creating(k)',
               editor'[g].person = editor'[k].person
        PROVE  g = k
    BY <1>3, <1>4, <1>5, <2>3 DEF StaffInv, Creators, Creating
  <2> QED BY <2>1, <2>2, <2>3 DEF Creators
<1>13. \A g \in Editors, t \in Specialists, a \in Logins :
         (Unlinks(g, t, a) => Unlinks(g, t, a)') /\ (Finds(g, t, a) => Finds(g, t, a)')
  BY <1>1, <1>4 DEF Unlinks, Finds
<1>14. LinkHolds'
  <2> SUFFICES ASSUME NEW t \in Specialists \ excused, NEW a \in Logins, person'[t].login = a,
                      login[a].state = "there"
               PROVE  person'[t].state = "there" \/ \E g \in Editors : Unlinks(g, t, a)'
    BY <1>1 DEF LinkHolds
  <2> QED BY <1>2, <1>4, <1>13 DEF StaffInv, LinkHolds
<1>15. MailHolds'
  <2> SUFFICES ASSUME NEW t \in Specialists \ excused, NEW a \in Logins, Own(a, t),
                      person'[t].login # a
               PROVE  /\ person'[t].login = NoLogin
                      /\ \/ person'[t].state = "there" /\ person'[t].email = login[a].email
                         \/ \E g \in Editors : Finds(g, t, a)'
    BY <1>1, <1>11 DEF MailHolds
  <2> QED BY <1>4, <1>7, <1>13 DEF StaffInv, MailHolds
<1> QED BY <1>8, <1>9, <1>10, <1>12, <1>14, <1>15 DEF StaffInv

LEMMA CreateOneLoginKeeps ==
  ASSUME StaffInv, NEW h \in Editors, NEW a \in Logins, CreateLogin(h, a)
  PROVE  StaffInv'
<1>1. editor[h].step = "make" /\ login[a].state = "none" /\ UNCHANGED <<person, excused, byHand>>
      /\ Creating(h)
  BY DEF CreateLogin, Creating
<1>2. CASE EditorEnds(h) /\ UNCHANGED login
  BY <1>1, <1>2, EndsKeeps DEF StaffInv, StaffTypeOK, Unlinks, Finds
<1>3. CASE /\ WithEmail(editor[h].email) = {}
           /\ editor' = [editor EXCEPT ![h].step = "link", ![h].login = a]
           /\ login' = [login EXCEPT ![a] = [state |-> "there", email |-> editor[h].email,
                                             specialist |-> editor[h].person]]
  <2> DEFINE r == [editor[h] EXCEPT !.step = "link", !.login = a]
             d == [state |-> "there", email |-> editor[h].email, specialist |-> editor[h].person]
  <2>1. PICK s \in Specialists : s = editor[h].person
    BY <1>1 DEF StaffInv, Creators
  <2>2. editor[h] \in EditorStates /\ editor[h].email \in Addresses
    BY <1>1 DEF StaffInv, StaffTypeOK, Creators
  <2>3. r \in EditorStates /\ r.step = "link" /\ r.person = s /\ r.email = editor[h].email
        /\ r.login = a
    BY <2>1, <2>2 DEF EditorStates, EditorSteps
  <2>4. d \in LoginDocs /\ d.state = "there" /\ d.email = editor[h].email /\ d.specialist = s
    BY <2>1, <2>2 DEF LoginDocs, Lives
  <2>5. editor' = [editor EXCEPT ![h] = r] /\ login' = [login EXCEPT ![a] = d]
    BY <1>3, <2>2 DEF EditorStates, StaffInv, StaffTypeOK
  <2> HIDE DEF r, d
  <2>6. editor'[h] = r /\ \A g \in Editors : g # h => editor'[g] = editor[g]
    BY <2>5 DEF StaffInv, StaffTypeOK
  <2>7. login'[a] = d /\ \A b \in Logins : b # a => login'[b] = login[b]
    BY <2>5 DEF StaffInv, StaffTypeOK
  <2>8. StaffTypeOK'
    BY <1>1, <2>3, <2>4, <2>5 DEF StaffInv, StaffTypeOK
  <2>9. EmailsDiffer'
    BY <1>3, <2>2, <2>4, <2>7, StaffAssumption DEF StaffInv, EmailsDiffer, WithEmail
  <2>10. Named'
    <3>1. \A t \in Specialists : person[t].login # NoLogin => person[t].login \in Logins
      BY DEF StaffInv, StaffTypeOK, PersonDocs
    <3>2. \A g \in Editors : editor[g].login # NoLogin => editor[g].login \in Logins
      BY DEF StaffInv, StaffTypeOK, EditorStates
    <3> QED BY <1>1, <2>3, <2>4, <2>6, <2>7, <3>1, <3>2 DEF StaffInv, Named
  <2>11. \A t \in Specialists, b \in Logins : Own(b, t)' => Own(b, t) \/ (b = a /\ t = s)
    BY <1>1, <2>4, <2>7 DEF Own
  <2>12. Creators'
    <3>1. ASSUME NEW g \in Editors, editor'[g].step # "idle"
          PROVE  editor'[g].person \in Specialists /\ person'[editor'[g].person].state # "none"
      BY <1>1, <2>1, <2>3, <2>6, <3>1 DEF StaffInv, Creators
    <3>2. \A g \in Editors : Creating(g)' => Creating(g) /\ editor'[g].person = editor[g].person
                                             /\ editor'[g].email = editor[g].email
                                             /\ editor'[g].person \in Specialists
      BY <1>1, <2>1, <2>3, <2>6 DEF StaffInv, Creators, Creating
    <3>3. ASSUME NEW g \in Editors, Creating(g)', editor'[g].person \notin excused,
                 NEW b \in Logins, OwnOf(g, b)'
          PROVE  editor'[g].step = "link" /\ editor'[g].login = b
      <4>1. CASE g = h
        <5>1. ~OwnOf(h, b)
          BY <1>1, <2>1, <2>3, <2>6, <3>3, <4>1 DEF StaffInv, Creators
        <5>2. b = a
          BY <1>1, <2>1, <2>3, <2>6, <2>7, <3>3, <4>1, <5>1 DEF OwnOf
        <5> QED BY <2>3, <2>6, <4>1, <5>2
      <4>2. CASE g # h
        <5>1. editor'[g].person # s
          BY <1>1, <2>1, <3>2, <3>3, <4>2 DEF StaffInv, Creators
        <5>2. editor'[g] = editor[g] /\ OwnOf(g, b)
          BY <1>1, <2>4, <2>6, <2>7, <3>3, <4>2, <5>1 DEF OwnOf
        <5> QED BY <1>1, <3>2, <3>3, <5>2 DEF StaffInv, Creators
      <4> QED BY <4>1, <4>2
    <3> QED BY <1>1, <3>1, <3>2, <3>3 DEF StaffInv, Creators
  <2>13. \A g \in Editors, t \in Specialists, b \in Logins : b # a =>
           (Unlinks(g, t, b) => Unlinks(g, t, b)') /\ (Finds(g, t, b) => Finds(g, t, b)')
    BY <1>1, <2>6, <2>7 DEF Unlinks, Finds
  <2>14. LinkHolds'
    <3>1. \A t \in Specialists : person[t].login # a
      BY <1>1, StaffAssumption DEF StaffInv, Named
    <3> QED BY <1>1, <2>7, <2>13, <3>1 DEF StaffInv, LinkHolds
  <2>15. MailHolds'
    <3> SUFFICES ASSUME NEW t \in Specialists \ excused, NEW b \in Logins, Own(b, t)',
                        person[t].login # b
                 PROVE  /\ person[t].login = NoLogin
                        /\ \/ person[t].state = "there" /\ person[t].email = login'[b].email
                           \/ \E g \in Editors : Finds(g, t, b)'
      BY <1>1 DEF MailHolds
    <3>1. CASE b = a
      <4>1. t = s
        BY <1>1, <2>11, <3>1 DEF Own
      <4> QED BY <1>1, <2>1, <2>4, <2>7, <3>1, <4>1 DEF StaffInv, Creators
    <3>2. CASE b # a
      BY <2>7, <2>11, <2>13, <3>2 DEF StaffInv, MailHolds
    <3> QED BY <3>1, <3>2
  <2> QED BY <2>8, <2>9, <2>10, <2>12, <2>14, <2>15 DEF StaffInv
<1> QED BY <1>2, <1>3 DEF CreateLogin

\* A specialist is written, d, and nobody creates it any more but the request
\* that ends; or there is an excuse.
LEMMA PersonKeeps ==
  ASSUME StaffInv, NEW s \in Specialists, NEW d \in PersonDocs, person' = [person EXCEPT ![s] = d],
         UNCHANGED <<login, byHand>>, d.state = "there", person[s].state = "there",
         d.login # NoLogin => login[d.login].state # "none",
         editor' \in [Editors -> EditorStates],
         \A g \in Editors : editor'[g] = editor[g] \/ editor'[g] = IdleEditor,
         \A g \in Editors : Creating(g) \/ editor'[g] = editor[g],
         excused \subseteq excused', excused' \in SUBSET Specialists,
         s \in excused' \/ /\ \A g \in Editors : Creating(g)' => editor'[g].person # s
                           /\ \A a \in Logins : Own(a, s) => d.login = a
  PROVE  StaffInv'
<1>1. person'[s] = d /\ \A t \in Specialists : t # s => person'[t] = person[t]
  BY DEF StaffInv, StaffTypeOK
<1>2. StaffTypeOK'
  BY DEF StaffInv, StaffTypeOK
<1>3. EmailsDiffer'
  BY DEF StaffInv, EmailsDiffer
<1>4. Named'
  BY <1>1, EditorTyped DEF StaffInv, Named
<1>5. \A g \in Editors : /\ editor'[g].step # "idle" => editor'[g] = editor[g]
                         /\ Creating(g)' => Creating(g) /\ editor'[g] = editor[g]
  BY EditorTyped DEF Creating
<1>6. \A t, a : Own(a, t)' <=> Own(a, t)
  BY DEF Own
<1>7. Creators'
  <2>1. ASSUME NEW g \in Editors, editor'[g].step # "idle"
        PROVE  editor'[g].person \in Specialists /\ person'[editor'[g].person].state # "none"
    BY <1>1, <1>5, <2>1 DEF StaffInv, Creators
  <2>2. ASSUME NEW g \in Editors, Creating(g)'
        PROVE  /\ editor'[g].email \in Addresses
               /\ editor'[g].person \notin excused' =>
                    /\ person'[editor'[g].person].state = "there"
                    /\ person'[editor'[g].person].login = NoLogin
                    /\ person'[editor'[g].person].email = editor'[g].email
                    /\ \A a \in Logins : OwnOf(g, a)' =>
                         editor'[g].step = "link" /\ editor'[g].login = a
    <3>1. Creating(g) /\ editor'[g] = editor[g] /\ editor[g].person \in Specialists
      BY <1>5, <2>2 DEF StaffInv, Creators, Creating
    <3>2. editor'[g].person \notin excused' => editor[g].person \notin excused /\ editor[g].person # s
      BY <2>2, <3>1
    <3>3. \A a \in Logins : OwnOf(g, a)' => OwnOf(g, a)
      BY <3>1 DEF OwnOf
    <3> QED BY <1>1, <3>1, <3>2, <3>3 DEF StaffInv, Creators
  <2>3. ASSUME NEW g \in Editors, NEW k \in Editors, Creating(g)', Creating(k)',
               editor'[g].person = editor'[k].person
        PROVE  g = k
    BY <1>5, <2>3 DEF StaffInv, Creators
  <2> QED BY <2>1, <2>2, <2>3 DEF Creators
<1>8. \A g \in Editors, t \in Specialists, a \in Logins :
        (Unlinks(g, t, a) => Unlinks(g, t, a)') /\ (Finds(g, t, a) => Finds(g, t, a)')
  BY DEF Unlinks, Finds, Creating
<1>9. LinkHolds'
  <2> SUFFICES ASSUME NEW t \in Specialists \ excused', NEW a \in Logins, person'[t].login = a,
                      login[a].state = "there"
               PROVE  person'[t].state = "there" \/ \E g \in Editors : Unlinks(g, t, a)'
    BY DEF LinkHolds
  <2> QED BY <1>1, <1>8 DEF StaffInv, LinkHolds
<1>10. MailHolds'
  <2> SUFFICES ASSUME NEW t \in Specialists \ excused', NEW a \in Logins, Own(a, t),
                      person'[t].login # a
               PROVE  /\ person'[t].login = NoLogin
                      /\ \/ person'[t].state = "there" /\ person'[t].email = login[a].email
                         \/ \E g \in Editors : Finds(g, t, a)'
    BY <1>6 DEF MailHolds
  <2> QED BY <1>1, <1>8 DEF StaffInv, MailHolds
<1> QED BY <1>2, <1>3, <1>4, <1>7, <1>9, <1>10 DEF StaffInv

LEMMA LinkKeeps ==
  ASSUME StaffInv, NEW h \in Editors, LinkLogin(h)
  PROVE  StaffInv'
<1>1. editor[h].step = "link" /\ EditorEnds(h) /\ UNCHANGED <<login, excused, byHand>> /\ Creating(h)
  BY DEF LinkLogin, Creating
<1> PICK s \in Specialists : s = editor[h].person
  BY <1>1 DEF StaffInv, Creators
<1> DEFINE d == [person[s] EXCEPT !.login = editor[h].login]
<1>2. \A t, a : ~Unlinks(h, t, a) /\ ~Finds(h, t, a)
  BY <1>1 DEF Unlinks, Finds
<1>3. CASE UNCHANGED person
  BY <1>1, <1>2, <1>3, EndsKeeps DEF StaffInv, StaffTypeOK
<1>4. CASE person[s].state = "there" /\ person' = [person EXCEPT ![s] = d]
  <2>1. person[s] \in PersonDocs /\ editor[h].login \in Logins \cup {NoLogin}
    BY DEF StaffInv, StaffTypeOK, EditorStates
  <2>2. d \in PersonDocs /\ d.state = "there" /\ d.login = editor[h].login
    BY <1>4, <2>1 DEF PersonDocs
  <2>3. editor'[h] = IdleEditor /\ \A g \in Editors : g # h => editor'[g] = editor[g]
    BY <1>1 DEF EditorEnds, StaffInv, StaffTypeOK
  <2>4. editor' \in [Editors -> EditorStates]
    BY <1>1, EditorTyped DEF EditorEnds, StaffInv, StaffTypeOK
  <2>5. \A g \in Editors : Creating(g)' => editor'[g].person # s
    BY <1>1, <2>3, EditorTyped DEF StaffInv, Creators, Creating
  <2>6. excused \in SUBSET Specialists
    BY DEF StaffInv, StaffTypeOK
  <2>7. s \notin excused => \A a \in Logins : Own(a, s) => d.login = a
    BY <1>1, <2>2 DEF StaffInv, Creators, Own, OwnOf
  <2>8. d.login # NoLogin => login[d.login].state # "none"
    BY <2>2 DEF StaffInv, Named
  <2>9. \A g \in Editors : /\ editor'[g] = editor[g] \/ editor'[g] = IdleEditor
                           /\ Creating(g) \/ editor'[g] = editor[g]
    BY <1>1, <2>3
  <2> HIDE DEF d
  <2> QED BY <1>1, <1>4, <2>2, <2>4, <2>5, <2>6, <2>7, <2>8, <2>9, PersonKeeps
<1> QED BY <1>3, <1>4 DEF LinkLogin

LEMMA PatchKeeps ==
  ASSUME StaffInv, NEW s \in Specialists, NEW e \in Addresses, PatchEmail(s, e)
  PROVE  StaffInv'
<1> DEFINE d == [person[s] EXCEPT !.email = e]
<1>1. person[s] \in PersonDocs /\ person[s].state = "there"
  BY DEF PatchEmail, StaffInv, StaffTypeOK
<1>2. d \in PersonDocs /\ d.state = "there" /\ d.login = person[s].login
  BY <1>1 DEF PersonDocs
<1>3. person' = [person EXCEPT ![s] = d] /\ UNCHANGED <<login, editor, byHand>>
      /\ excused' = IF person[s].login = NoLogin THEN excused \cup {s} ELSE excused
  BY DEF PatchEmail
<1>4. excused' \in SUBSET Specialists /\ excused \subseteq excused'
  BY <1>3 DEF StaffInv, StaffTypeOK
<1>5. s \notin excused' => \A g \in Editors : Creating(g)' => editor'[g].person # s
  BY <1>3 DEF StaffInv, Creators, Creating
<1>6. s \notin excused' => \A a \in Logins : Own(a, s) => d.login = a
  BY <1>2, <1>3 DEF StaffInv, MailHolds
<1>7. editor' \in [Editors -> EditorStates]
  BY <1>3 DEF StaffInv, StaffTypeOK
<1>8. d.login # NoLogin => login[d.login].state # "none"
  BY <1>2 DEF StaffInv, Named
<1> HIDE DEF d
<1> QED BY <1>1, <1>2, <1>3, <1>4, <1>5, <1>6, <1>7, <1>8, PersonKeeps

\* An account is made or written by hand, or its e-mail is changed: it is d.
LEMMA OneLoginKeeps ==
  ASSUME StaffInv, NEW a \in Logins, NEW d \in LoginDocs, login' = [login EXCEPT ![a] = d],
         UNCHANGED <<person, editor>>, d.state = "there",
         byHand \subseteq byHand', byHand' \in SUBSET Logins,
         excused \subseteq excused', excused' \in SUBSET Specialists,
         d.email # NoEmail, \A b \in Logins : login[b].state = "there" /\ login[b].email = d.email => b = a,
         a \in byHand' \/ /\ login[a].state = "there" /\ d.specialist = login[a].specialist
                          /\ \A s \in Specialists : Own(a, s) /\ person[s].login = NoLogin => s \in excused',
         login[a].state \in {"none", "there"}
  PROVE  StaffInv'
<1>1. login'[a] = d /\ \A b \in Logins : b # a => login'[b] = login[b]
  BY DEF StaffInv, StaffTypeOK
<1>2. StaffTypeOK'
  BY DEF StaffInv, StaffTypeOK
<1>3. EmailsDiffer'
  BY <1>1 DEF StaffInv, EmailsDiffer
<1>4. Named'
  <2>1. \A s \in Specialists : person[s].login # NoLogin => person[s].login \in Logins
    BY DEF StaffInv, StaffTypeOK, PersonDocs
  <2>2. \A h \in Editors : editor[h].login # NoLogin => editor[h].login \in Logins
    BY DEF StaffInv, StaffTypeOK, EditorStates
  <2> QED BY <1>1, <2>1, <2>2 DEF StaffInv, Named
<1>5. \A b \in Logins, s \in Specialists : Own(b, s)' => Own(b, s) /\ (b # a => login'[b] = login[b])
                                     /\ (b = a => person[s].login # NoLogin \/ s \in excused')
  BY <1>1 DEF Own
<1>6. Creators'
  <2>1. \A h \in Editors : Creating(h) => editor[h].person \in Specialists
    BY DEF StaffInv, Creators, Creating
  <2>2. \A h \in Editors, b \in Logins : Creating(h) /\ OwnOf(h, b)' =>
          OwnOf(h, b) \/ editor[h].person \in excused'
            \/ person[editor[h].person].login # NoLogin
    BY <1>5, <2>1 DEF Own, OwnOf
  <2> QED BY <2>1, <2>2 DEF StaffInv, Creators, Creating
<1>7. LinkHolds'
  <2> SUFFICES ASSUME NEW s \in Specialists \ excused', NEW b \in Logins, person[s].login = b,
                      login'[b].state = "there"
               PROVE  person[s].state = "there" \/ \E g \in Editors : Unlinks(g, s, b)'
    BY DEF LinkHolds
  <2>1. login[b].state = "there"
    BY <1>1, StaffAssumption DEF StaffInv, Named
  <2> QED BY <2>1 DEF StaffInv, LinkHolds, Unlinks
<1>8. MailHolds'
  <2> SUFFICES ASSUME NEW s \in Specialists \ excused', NEW b \in Logins, Own(b, s)',
                      person[s].login # b
               PROVE  /\ person[s].login = NoLogin
                      /\ \/ person[s].state = "there" /\ person[s].email = login'[b].email
                         \/ \E g \in Editors : Finds(g, s, b)'
    BY DEF MailHolds
  <2>1. Own(b, s) /\ person[s].login = NoLogin
    BY <1>5 DEF StaffInv, MailHolds
  <2>2. b # a /\ login'[b] = login[b]
    BY <1>5, <2>1
  <2> QED BY <2>1, <2>2 DEF StaffInv, MailHolds, Finds
<1> QED BY <1>2, <1>3, <1>4, <1>6, <1>7, <1>8 DEF StaffInv

LEMMA AccountsKeep ==
  ASSUME StaffInv, NEW a \in Logins, NEW e \in Addresses, NEW s \in Specialists \cup {NoSpecialist},
         AddLogin(a, e, s) \/ RelinkLogin(a, s) \/ PatchMe(a, e)
  PROVE  StaffInv'
<1>0. /\ login[a] \in LoginDocs /\ excused \in SUBSET Specialists /\ byHand \in SUBSET Logins
      /\ e # NoEmail
  BY StaffAssumption DEF StaffInv, StaffTypeOK
<1>1. CASE AddLogin(a, e, s)
  <2> DEFINE d == [state |-> "there", email |-> e, specialist |-> s]
  <2>1. d \in LoginDocs /\ d.state = "there" /\ d.email = e
    BY DEF LoginDocs, Lives
  <2>2. /\ login' = [login EXCEPT ![a] = d] /\ UNCHANGED <<person, editor, excused>>
        /\ byHand' = byHand \cup {a} /\ login[a].state = "none"
        /\ \A b \in Logins : ~(login[b].state = "there" /\ login[b].email = e)
    BY <1>1 DEF AddLogin, WithEmail
  <2> HIDE DEF d
  <2> QED BY <1>0, <2>1, <2>2, OneLoginKeeps
<1>2. CASE RelinkLogin(a, s)
  <2> DEFINE d == [login[a] EXCEPT !.specialist = s]
  <2>1. d \in LoginDocs /\ d.state = login[a].state /\ d.email = login[a].email
    BY <1>0 DEF LoginDocs
  <2>2. /\ login' = [login EXCEPT ![a] = d] /\ UNCHANGED <<person, editor, excused>>
        /\ byHand' = byHand \cup {a} /\ login[a].state = "there"
    BY <1>2 DEF RelinkLogin
  <2> HIDE DEF d
  <2>3. /\ d.email # NoEmail
        /\ \A b \in Logins : login[b].state = "there" /\ login[b].email = d.email => b = a
    BY <2>1, <2>2 DEF StaffInv, EmailsDiffer
  <2>4. \A b \in Logins : login[b].state = "there" /\ login[b].email = d.email => b = a
    BY <2>3
  <2>5. /\ byHand \subseteq byHand' /\ byHand' \in SUBSET Logins /\ a \in byHand'
        /\ excused \subseteq excused' /\ excused' \in SUBSET Specialists
    BY <1>0, <2>2
  <2>6. /\ login' = [login EXCEPT ![a] = d] /\ UNCHANGED <<person, editor>>
        /\ d \in LoginDocs /\ d.state = "there" /\ login[a].state \in {"none", "there"}
    BY <2>1, <2>2
  <2> QED BY <2>3, <2>4, <2>5, <2>6, OneLoginKeeps
<1>3. CASE PatchMe(a, e)
  <2> DEFINE d == [login[a] EXCEPT !.email = e]
  <2>1. d \in LoginDocs /\ d.state = login[a].state /\ d.email = e
        /\ d.specialist = login[a].specialist
    BY <1>0 DEF LoginDocs
  <2>2. /\ login' = [login EXCEPT ![a] = d] /\ UNCHANGED <<person, editor, byHand>>
        /\ login[a].state = "there"
        /\ excused' = excused \cup {t \in Specialists : login[a].specialist = t
                                                        /\ person[t].login = NoLogin}
        /\ \A b \in Logins : ~(login[b].state = "there" /\ login[b].email = e)
    BY <1>3 DEF PatchMe, WithEmail
  <2> HIDE DEF d
  <2>3. \A t \in Specialists : Own(a, t) /\ person[t].login = NoLogin => t \in excused'
    BY <2>2 DEF Own
  <2>4. \A b \in Logins : login[b].state = "there" /\ login[b].email = d.email => b = a
    BY <2>1, <2>2
  <2>5. excused \subseteq excused' /\ excused' \in SUBSET Specialists /\ d.email # NoEmail
    BY <1>0, <2>1, <2>2
  <2>6. /\ byHand \subseteq byHand' /\ byHand' \in SUBSET Logins /\ d.state = "there"
        /\ UNCHANGED <<person, editor>>
    BY <1>0, <2>1, <2>2
  <2>7. a \in byHand' \/ /\ login[a].state = "there" /\ d.specialist = login[a].specialist
                         /\ \A t \in Specialists : Own(a, t) /\ person[t].login = NoLogin => t \in excused'
    BY <2>1, <2>2, <2>3
  <2>8. login' = [login EXCEPT ![a] = d] /\ login[a].state \in {"none", "there"} /\ d \in LoginDocs
    BY <2>1, <2>2
  <2> QED BY <2>4, <2>5, <2>6, <2>7, <2>8, OneLoginKeeps
<1> QED BY <1>1, <1>2, <1>3

LEMMA DeletePersonKeeps ==
  ASSUME StaffInv, NEW h \in Editors, NEW s \in Specialists, DeletePerson(h, s)
  PROVE  StaffInv'
<1> DEFINE p == person[s]
           d == [p EXCEPT !.state = "gone", !.email = NoEmail]
           r == IF p.login = NoLogin /\ p.email = NoEmail THEN IdleEditor
                ELSE IF p.login # NoLogin
                  THEN [IdleEditor EXCEPT !.step = "unlink", !.person = s, !.login = p.login]
                  ELSE [IdleEditor EXCEPT !.step = "find", !.person = s, !.email = p.email]
<1>1. p \in PersonDocs
  BY DEF StaffInv, StaffTypeOK
<1>2. editor[h].step = "idle" /\ p.state = "there" /\ person' = [person EXCEPT ![s] = d]
      /\ editor' = [editor EXCEPT ![h] = r] /\ UNCHANGED <<login, byHand>>
      /\ excused' = IF WorkOn(s) # {} THEN excused \cup {s} ELSE excused
  BY <1>1 DEF DeletePerson, StaffInv, StaffTypeOK, PersonDocs
<1>3. d \in PersonDocs /\ d.state = "gone" /\ d.login = p.login
  BY <1>1 DEF PersonDocs, Lives
<1>4. p.email \in Addresses \cup {NoEmail} /\ p.login \in Logins \cup {NoLogin}
  BY <1>1 DEF PersonDocs
<1>5. r \in EditorStates /\ (r.login # NoLogin => r.login = p.login)
      /\ (r.step # "idle" => r.step \in {"unlink", "find"} /\ r.person = s)
      /\ (p.login # NoLogin => r.step = "unlink" /\ r.login = p.login)
      /\ (p.login = NoLogin /\ p.email # NoEmail => r.step = "find" /\ r.email = p.email)
  BY <1>4, EditorTyped DEF EditorStates, EditorSteps, IdleEditor
<1> HIDE DEF d, r
<1>6. /\ editor'[h] = r /\ \A g \in Editors : g # h => editor'[g] = editor[g]
      /\ person'[s] = d /\ \A t \in Specialists : t # s => person'[t] = person[t]
  BY <1>2 DEF StaffInv, StaffTypeOK
<1>7. StaffTypeOK'
  BY <1>2, <1>3, <1>5 DEF StaffInv, StaffTypeOK
<1>8. EmailsDiffer'
  BY <1>2 DEF StaffInv, EmailsDiffer
<1>9. Named'
  BY <1>2, <1>3, <1>5, <1>6 DEF StaffInv, Named
<1>10. \A g \in Editors : Creating(g)' => Creating(g) /\ editor'[g] = editor[g] /\ g # h
  BY <1>5, <1>6 DEF Creating
<1>11. \A g \in Editors : s \notin excused' => editor[g].step = "idle" \/ editor[g].person # s
  BY <1>2 DEF WorkOn
<1>12. \A t, a : Own(a, t)' <=> Own(a, t)
  BY <1>2 DEF Own
<1>13. Creators'
  <2>1. ASSUME NEW g \in Editors, editor'[g].step # "idle"
        PROVE  editor'[g].person \in Specialists /\ person'[editor'[g].person].state # "none"
    BY <1>3, <1>5, <1>6, <2>1 DEF StaffInv, Creators
  <2>2. ASSUME NEW g \in Editors, Creating(g)'
        PROVE  /\ editor'[g].email \in Addresses
               /\ editor'[g].person \notin excused' =>
                    /\ person'[editor'[g].person].state = "there"
                    /\ person'[editor'[g].person].login = NoLogin
                    /\ person'[editor'[g].person].email = editor'[g].email
                    /\ \A a \in Logins : OwnOf(g, a)' =>
                         editor'[g].step = "link" /\ editor'[g].login = a
    <3>1. Creating(g) /\ editor'[g] = editor[g] /\ editor[g].person \in Specialists
      BY <1>10, <2>2 DEF StaffInv, Creators, Creating
    <3>2. editor'[g].person \notin excused' => editor[g].person \notin excused
                                               /\ editor[g].person # s
      BY <1>2, <1>11, <3>1 DEF Creating
    <3>3. \A a \in Logins : OwnOf(g, a)' => OwnOf(g, a)
      BY <1>2, <3>1 DEF OwnOf
    <3> QED BY <1>6, <3>1, <3>2, <3>3 DEF StaffInv, Creators
  <2>3. ASSUME NEW g \in Editors, NEW k \in Editors, Creating(g)', Creating(k)',
               editor'[g].person = editor'[k].person
        PROVE  g = k
    BY <1>10, <2>3 DEF StaffInv, Creators
  <2> QED BY <2>1, <2>2, <2>3 DEF Creators
<1>14. \A g \in Editors, t \in Specialists, a \in Logins :
         (Unlinks(g, t, a) => Unlinks(g, t, a)') /\ (Finds(g, t, a) => Finds(g, t, a)')
  BY <1>2, <1>6 DEF Unlinks, Finds
<1>15. s \notin excused' => \A a \in Logins, g \in Editors : ~Unlinks(g, s, a) /\ ~Finds(g, s, a)
  BY <1>11 DEF Unlinks, Finds
<1>16. LinkHolds'
  <2> SUFFICES ASSUME NEW t \in Specialists \ excused', NEW a \in Logins, person'[t].login = a,
                      login[a].state = "there"
               PROVE  person'[t].state = "there" \/ \E g \in Editors : Unlinks(g, t, a)'
    BY <1>2 DEF LinkHolds
  <2>1. CASE t = s
    <3>1. p.login = a /\ a # NoLogin
      BY <1>3, <1>6, <2>1, StaffAssumption
    <3>2. Unlinks(h, s, a)'
      BY <1>5, <1>6, <3>1 DEF Unlinks
    <3> QED BY <2>1, <3>2
  <2>2. CASE t # s
    BY <1>2, <1>6, <1>14, <2>2 DEF StaffInv, LinkHolds
  <2> QED BY <2>1, <2>2
<1>17. MailHolds'
  <2> SUFFICES ASSUME NEW t \in Specialists \ excused', NEW a \in Logins, Own(a, t),
                      person'[t].login # a
               PROVE  /\ person'[t].login = NoLogin
                      /\ \/ person'[t].state = "there" /\ person'[t].email = login[a].email
                         \/ \E g \in Editors : Finds(g, t, a)'
    BY <1>2, <1>12 DEF MailHolds
  <2>0. t \notin excused
    BY <1>2
  <2>1. CASE t = s
    <3>1. p.login = NoLogin /\ p.email = login[a].email
      BY <1>3, <1>6, <1>15, <2>0, <2>1 DEF StaffInv, MailHolds
    <3>2. p.email # NoEmail
      BY <3>1 DEF StaffInv, EmailsDiffer, Own
    <3>3. Finds(h, s, a)'
      BY <1>2, <1>5, <1>6, <3>1, <3>2 DEF Finds
    <3> QED BY <1>3, <1>6, <2>1, <3>1, <3>3
  <2>2. CASE t # s
    BY <1>6, <1>14, <2>0, <2>2 DEF StaffInv, MailHolds
  <2> QED BY <2>1, <2>2
<1> QED BY <1>7, <1>8, <1>9, <1>13, <1>16, <1>17 DEF StaffInv

LEMMA StaffSteps == StaffInv /\ [StaffNext]_staffVars => StaffInv'
<1> SUFFICES ASSUME StaffInv, [StaffNext]_staffVars PROVE StaffInv'
  OBVIOUS
<1>0. /\ excused \in SUBSET Specialists /\ editor \in [Editors -> EditorStates]
      /\ login \in [Logins -> LoginDocs]
  BY DEF StaffInv, StaffTypeOK
<1>1. ASSUME NEW h \in Editors, NEW s \in Specialists, NEW e \in Addresses \cup {NoEmail},
             CreatePerson(h, s, e)
      PROVE  StaffInv'
  BY <1>1, CreatePersonKeeps
<1>2. ASSUME NEW h \in Editors, NEW s \in Specialists, DeletePerson(h, s) PROVE StaffInv'
  BY <1>2, DeletePersonKeeps
<1>3. ASSUME NEW h \in Editors, FindExistingAdmin(h) PROVE StaffInv'
  <2>1. editor[h].step = "account" /\ UNCHANGED <<person, login, excused, byHand>>
    BY <1>3 DEF FindExistingAdmin
  <2>2. CASE EditorGoes(h, "make")
    BY <2>1, <2>2, GoesKeeps
  <2>3. CASE EditorEnds(h)
    BY <1>0, <2>1, <2>3, EndsKeeps DEF Unlinks, Finds
  <2> QED BY <1>3, <2>2, <2>3 DEF FindExistingAdmin
<1>4. ASSUME NEW h \in Editors, NEW a \in Logins, CreateLogin(h, a) PROVE StaffInv'
  BY <1>4, CreateOneLoginKeeps
<1>5. ASSUME NEW h \in Editors, LinkLogin(h) PROVE StaffInv'
  BY <1>5, LinkKeeps
<1>6. ASSUME NEW h \in Editors, DeleteLinked(h) \/ DeleteFound(h) PROVE StaffInv'
  <2>1. /\ editor[h].step \in {"unlink", "remove"} /\ EditorEnds(h)
        /\ UNCHANGED <<person, excused, byHand>> /\ AccountGoes(editor[h].login)
    BY <1>6 DEF DeleteLinked, DeleteFound
  <2>2. editor' \in [Editors -> EditorStates] /\ editor'[h] = IdleEditor
        /\ \A g \in Editors : g # h => editor'[g] = editor[g]
    BY <1>0, <2>1, EditorTyped DEF EditorEnds
  <2>3. CASE editor[h].login \in Logins
    BY <2>1, <2>2, <2>3, RemoveKeeps
  <2>4. CASE editor[h].login \notin Logins
    <3>1. login' = login
      BY <1>0, <2>1, <2>4 DEF AccountGoes
    <3>2. \A s, a : a \in Logins => ~Unlinks(h, s, a) /\ ~Finds(h, s, a)
      BY <2>1, <2>4 DEF Unlinks, Finds
    <3> QED BY <1>0, <2>1, <3>1, <3>2, EndsKeeps DEF Unlinks, Finds
  <2> QED BY <2>3, <2>4
<1>7. ASSUME NEW h \in Editors, FindByEmail(h) PROVE StaffInv'
  <2>1. editor[h].step = "find" /\ UNCHANGED <<person, login, excused, byHand>>
    BY <1>7 DEF FindByEmail
  <2>2. ASSUME NEW a \in WithEmail(editor[h].email),
               editor' = [editor EXCEPT ![h].step = "remove", ![h].login = a]
        PROVE  StaffInv'
    <3> DEFINE r == [editor[h] EXCEPT !.step = "remove", !.login = a]
    <3>1. editor' = [editor EXCEPT ![h] = r]
      BY <1>0, <2>2
    <3>2. r \in EditorStates /\ r.step = "remove" /\ r.person = editor[h].person
          /\ r.email = editor[h].email /\ r.login = a
      BY <1>0 DEF EditorStates, EditorSteps, WithEmail
    <3> HIDE DEF r
    <3>3. editor'[h] = r
      BY <1>0, <3>1
    <3>4. a \in Logins /\ login[a].state = "there" /\ login[a].email = editor[h].email
      BY DEF WithEmail
    <3>5. \A s \in Specialists, b \in Logins :
            /\ ~Unlinks(h, s, b)
            /\ Finds(h, s, b) /\ Own(b, s) => Finds(h, s, b)'
      BY <2>1, <3>2, <3>3, <3>4 DEF Unlinks, Finds, Own, StaffInv, EmailsDiffer
    <3> QED BY <1>0, <2>1, <3>1, <3>2, <3>4, <3>5, EditorKeeps
  <2>3. CASE WithEmail(editor[h].email) = {} /\ EditorEnds(h)
    <3>1. \A s \in Specialists, a \in Logins : ~Unlinks(h, s, a) /\ ~(Finds(h, s, a) /\ Own(a, s))
      BY <2>1, <2>3 DEF Unlinks, Finds, Own, WithEmail
    <3> QED BY <1>0, <2>1, <2>3, <3>1, EndsKeeps
  <2> QED BY <1>7, <2>2, <2>3 DEF FindByEmail
<1>8. ASSUME NEW h \in Editors, EditorFails(h) PROVE StaffInv'
  <2>1. editor[h].person \in Specialists
    BY <1>8 DEF EditorFails, StaffInv, Creators
  <2>2. /\ EditorEnds(h) /\ UNCHANGED <<person, login, byHand>> /\ excused \subseteq excused'
        /\ excused' \in SUBSET Specialists
        /\ editor[h].step \in {"unlink", "find", "remove"} => editor[h].person \in excused'
    BY <1>0, <1>8, <2>1 DEF EditorFails
  <2> QED BY <2>2, EndsKeeps DEF Unlinks, Finds
<1>9. ASSUME NEW s \in Specialists, NEW e \in Addresses, PatchEmail(s, e) PROVE StaffInv'
  BY <1>9, PatchKeeps
<1>10. ASSUME NEW a \in Logins, RemoveLogin(a) PROVE StaffInv'
  BY <1>0, <1>10, RemoveKeeps DEF RemoveLogin
<1>11. ASSUME NEW a \in Logins, NEW e \in Addresses, NEW s \in Specialists \cup {NoSpecialist},
              AddLogin(a, e, s) \/ RelinkLogin(a, s) \/ PatchMe(a, e)
       PROVE  StaffInv'
  BY <1>11, AccountsKeep
<1>12. CASE UNCHANGED staffVars
  BY <1>12 DEF staffVars, StaffInv, StaffTypeOK, EmailsDiffer, Named, Creators, Creating,
     LinkHolds, MailHolds, Own, OwnOf, Unlinks, Finds
<1>13. NoSpecialist \in Specialists \cup {NoSpecialist} /\ OwnerEmail \in Addresses
  BY StaffAssumption
<1> QED
  BY <1>1, <1>2, <1>3, <1>4, <1>5, <1>6, <1>7, <1>8, <1>9, <1>10, <1>11, <1>12, <1>13 DEF StaffNext

(***************************************************************************)
(* The account of a deleted specialist is deleted too (routes/             *)
(* specialists.js DELETE /:id), or one of the reasons that are named       *)
(* holds, among them the accounts that admins link and the e-mails that    *)
(* either of the two changes; for any number of requests, specialists,     *)
(* accounts and e-mails.                                                   *)
(***************************************************************************)
THEOREM DeletedIsLockedOut == StaffSpec => []DeletedCannotSignIn
<1>1. StaffInv => DeletedCannotSignIn
  <2> SUFFICES ASSUME StaffInv, NEW a \in Logins, NEW s \in Specialists,
                      login[a].state = "there", login[a].specialist = s,
                      person[s].state = "gone", s \notin excused,
                      ~(a \in byHand /\ person[s].login # a)
               PROVE  WorkOn(s) # {}
    BY DEF DeletedCannotSignIn
  <2>1. CASE person[s].login = a
    BY <2>1 DEF StaffInv, LinkHolds, Unlinks, WorkOn
  <2>2. CASE person[s].login # a
    BY <2>2 DEF StaffInv, MailHolds, Own, Finds, WorkOn
  <2> QED BY <2>1, <2>2
<1> QED BY <1>1, StaffStarts, StaffSteps, PTL DEF StaffSpec

-----------------------------------------------------------------------------
(* The lock of an account.                                                 *)

\* Nothing is left of an account that was deleted.
SessionInv ==
  /\ account \in Accounts
  /\ sign \in [Signers -> SignStates]
  /\ raced \in BOOLEAN
  /\ ~account.alive => account.attempts = 0 /\ account.lock = "none"
  /\ ~raced => (account.attempts >= MaxAttempts <=> account.lock # "none")

LEMMA NewAccountTyped == NewAccount \in Accounts /\ IdleSigner \in SignStates
BY SessionAssumption DEF NewAccount, IdleSigner, Accounts, SignStates, SignSteps, Passwords, Locks

LEMMA SessionStarts == SessionInit => SessionInv
<1> SUFFICES ASSUME SessionInit PROVE SessionInv
  OBVIOUS
<1>1. account \in Accounts /\ sign \in [Signers -> SignStates] /\ raced \in BOOLEAN
  BY NewAccountTyped DEF SessionInit
<1>2. account.attempts = 0 /\ account.lock = "none" /\ ~(account.attempts >= MaxAttempts)
  BY SessionAssumption DEF SessionInit, NewAccount
<1> QED BY <1>1, <1>2 DEF SessionInv

\* A step that leaves the account alone, or ends requests only.
LEMMA AccountStays ==
  ASSUME SessionInv, UNCHANGED <<account, raced>>, sign' \in [Signers -> SignStates]
  PROVE  SessionInv'
BY DEF SessionInv

LEMMA SignTyped ==
  ASSUME SessionInv, NEW h \in Signers, NEW s \in SignStates, sign' = [sign EXCEPT ![h] = s]
  PROVE  sign' \in [Signers -> SignStates]
BY DEF SessionInv

LEMMA UsedTyped ==
  ASSUME SessionInv, NEW step PROVE Used(step) \in Accounts
<1>1. [NewAccount EXCEPT !.attempts = account.attempts, !.password = account.password] \in Accounts
  BY NewAccountTyped DEF SessionInv, Accounts
<1>2. [NewAccount EXCEPT !.attempts = account.attempts, !.lock = account.lock] \in Accounts
  BY NewAccountTyped DEF SessionInv, Accounts
<1>3. account \in Accounts
  BY DEF SessionInv
<1> QED BY <1>1, <1>2, <1>3, NewAccountTyped DEF Used

LEMMA SignStartsTyped ==
  ASSUME SessionInv, NEW h \in Signers, NEW step \in SignSteps, NEW tried \in Passwords,
         SignStarts(h, step, tried)
  PROVE  sign' \in [Signers -> SignStates] /\ account.alive
<1> DEFINE g == IF step \in {"unlock", "failed"} THEN tried ELSE 1
           s == [IdleSigner EXCEPT !.step = step, !.copy = Used(step), !.given = g]
<1>1. Used(step) \in Accounts /\ g \in Passwords
  BY UsedTyped, SessionAssumption DEF Passwords
<1>2. s \in SignStates
  <2> HIDE DEF g
  <2> QED BY <1>1 DEF IdleSigner, SignStates
<1>3. sign' = [sign EXCEPT ![h] = s] /\ account.alive
  BY DEF SignStarts
<1> HIDE DEF s
<1> QED BY <1>2, <1>3, SignTyped

LEMMA SignEndsTyped ==
  ASSUME SessionInv, NEW h \in Signers, SignEnds(h) PROVE sign' \in [Signers -> SignStates]
BY NewAccountTyped, SignTyped DEF SignEnds

\* A step that writes the account, with what it must do to attempts and lock.
LEMMA AccountKeeps ==
  ASSUME SessionInv, sign' \in [Signers -> SignStates], raced' \in BOOLEAN,
         account' \in Accounts,
         ~account'.alive => account'.attempts = 0 /\ account'.lock = "none",
         \/ account'.attempts = 0 /\ account'.lock = "none"
         \/ /\ ~raced' => ~raced /\ account'.attempts = account.attempts
            /\ account'.lock = "none" <=> account.lock = "none"
  PROVE  SessionInv'
<1>1. ASSUME ~raced' PROVE account'.attempts >= MaxAttempts <=> account'.lock # "none"
  <2>1. CASE account'.attempts = 0 /\ account'.lock = "none"
    BY <2>1, SessionAssumption
  <2>2. CASE /\ ~raced' => ~raced /\ account'.attempts = account.attempts
             /\ account'.lock = "none" <=> account.lock = "none"
    BY <1>1, <2>2 DEF SessionInv
  <2> QED BY <2>1, <2>2
<1> QED BY <1>1 DEF SessionInv

\* What an assignment to some fields of an account leaves of the others.
LEMMA LockFields ==
  ASSUME NEW d \in Accounts, NEW l \in Locks
  PROVE  LET e == [d EXCEPT !.lock = l] IN
         e \in Accounts /\ e.attempts = d.attempts /\ e.lock = l /\ e.alive = d.alive
BY DEF Accounts

LEMMA ResetFields ==
  ASSUME NEW d \in Accounts, NEW b \in BOOLEAN
  PROVE  LET e == [d EXCEPT !.reset = b] IN
         e \in Accounts /\ e.attempts = d.attempts /\ e.lock = d.lock /\ e.alive = d.alive
BY DEF Accounts

LEMMA PasswordFields ==
  ASSUME NEW d \in Accounts, NEW p \in Passwords
  PROVE  LET e == [d EXCEPT !.password = p, !.hashed = TRUE] IN
         e \in Accounts /\ e.attempts = d.attempts /\ e.lock = d.lock /\ e.alive = d.alive
BY DEF Accounts

LEMMA LoginKeeps ==
  ASSUME SessionInv, NEW h \in Signers, NEW tried \in Passwords,
         Login(h, tried) \/ ChangePassword(h, tried)
  PROVE  SessionInv'
<1>1. PICK step \in SignSteps : SignStarts(h, step, tried)
  BY DEF Login, ChangePassword, SignSteps, Compared
<1> QED BY <1>1, SignStartsTyped, AccountStays DEF Login, ChangePassword

\* The whole copy is written: no failed attempts and no lock in it.
LEMMA SaveUnlockedKeeps ==
  ASSUME SessionInv, NEW h \in Signers, SaveUnlocked(h) PROVE SessionInv'
<1> DEFINE r == sign[h]
           p == [IdleSigner EXCEPT !.step = "passed"]
           c == [NewAccount EXCEPT !.password = r.copy.password]
           f == [r EXCEPT !.step = "failed", !.copy = c]
           d == [r.copy EXCEPT !.attempts = 0, !.lock = "none", !.hashed = FALSE]
<1>1. r \in SignStates /\ r.copy \in Accounts /\ raced' \in BOOLEAN
  BY DEF SessionInv, SignStates, SaveUnlocked
<1>2. c \in Accounts
  BY <1>1, NewAccountTyped DEF Accounts
<1>3. p \in SignStates /\ f \in SignStates
  <2> HIDE DEF c, r
  <2> QED BY <1>1, <1>2, NewAccountTyped DEF SignStates, SignSteps
<1>4. d \in Accounts /\ d.attempts = 0 /\ d.lock = "none"
  <2>1. r.copy \in Accounts /\ 0 \in Nat /\ "none" \in Locks /\ FALSE \in BOOLEAN
    BY <1>1 DEF Locks
  <2> HIDE DEF r
  <2> QED BY <2>1 DEF Accounts
<1>5. CASE account.alive
  <2>1. account' = d /\ (sign' = [sign EXCEPT ![h] = p] \/ sign' = [sign EXCEPT ![h] = f])
    BY <1>5 DEF SaveUnlocked
  <2> HIDE DEF p, f, d
  <2>2. sign' \in [Signers -> SignStates]
    BY <1>3, <2>1, SignTyped
  <2> QED BY <1>1, <1>4, <2>1, <2>2, AccountKeeps
<1>6. CASE ~account.alive
  <2>1. account' = account /\ sign' \in [Signers -> SignStates]
    BY <1>6, SignEndsTyped DEF SaveUnlocked
  <2>2. account \in Accounts /\ account.attempts = 0 /\ account.lock = "none"
    BY <1>6 DEF SessionInv
  <2> QED BY <1>1, <2>1, <2>2, AccountKeeps
<1> QED BY <1>5, <1>6

\* The count that decides is the stored one, unless another request raced.
LEMMA IncLoginAttemptsKeeps ==
  ASSUME SessionInv, NEW h \in Signers, IncLoginAttempts(h) PROVE SessionInv'
<1> DEFINE c == sign[h].copy
           l == IF LocksNow(c) THEN "held" ELSE account.lock
           d == [account EXCEPT !.attempts = account.attempts + 1, !.lock = l]
<1>1. /\ account \in Accounts /\ c \in Accounts
      /\ account.attempts \in Nat /\ account.lock \in Locks /\ c.attempts \in Nat
  BY DEF SessionInv, SignStates, Accounts
<1>2. sign' \in [Signers -> SignStates] /\ raced' \in BOOLEAN
  BY SignEndsTyped DEF IncLoginAttempts
<1>3. CASE account.alive
  <2>1. account' = d
    BY <1>3 DEF IncLoginAttempts
  <2>2. l \in Locks
    BY <1>1 DEF Locks
  <2>3. account' \in Accounts /\ account'.attempts = account.attempts + 1 /\ account'.lock = l
    <3> HIDE DEF l
    <3>1. account.attempts + 1 \in Nat
      BY <1>1
    <3> QED BY <1>1, <2>1, <2>2, <3>1 DEF Accounts
  <2>4. account'.alive
    <3> HIDE DEF l
    <3> QED BY <1>1, <1>3, <2>1 DEF Accounts
  <2>5. ASSUME ~raced' PROVE account'.attempts >= MaxAttempts <=> account'.lock # "none"
    <3>1. ~raced /\ c.attempts = account.attempts /\ account.lock = "none"
      BY <2>5 DEF IncLoginAttempts
    <3>2. ~(account.attempts >= MaxAttempts)
      BY <3>1 DEF SessionInv
    <3> QED BY <1>1, <2>3, <3>1, <3>2, SessionAssumption DEF LocksNow
  <2> QED BY <1>2, <2>3, <2>4, <2>5 DEF SessionInv
<1>4. CASE ~account.alive
  <2>1. account' = account
    BY <1>4 DEF IncLoginAttempts
  <2>2. account.attempts = 0 /\ account.lock = "none"
    BY <1>4 DEF SessionInv
  <2> QED BY <1>1, <1>2, <2>1, <2>2, AccountKeeps
<1> QED BY <1>3, <1>4

LEMMA ReleaseKeeps ==
  ASSUME SessionInv, NEW h \in Signers, ResetLoginAttempts(h) \/ SaveReleased(h)
  PROVE  SessionInv'
<1> DEFINE d == [account EXCEPT !.attempts = 0, !.lock = "none"]
<1>1. account \in Accounts /\ d \in Accounts /\ d.attempts = 0 /\ d.lock = "none"
  <2>1. account \in Accounts /\ 0 \in Nat /\ "none" \in Locks
    BY DEF SessionInv, Locks
  <2> QED BY <2>1 DEF Accounts
<1>2. sign' \in [Signers -> SignStates] /\ raced' \in BOOLEAN
  BY SignEndsTyped DEF ResetLoginAttempts, SaveReleased
<1>3. account' = IF account.alive THEN d ELSE account
  BY DEF ResetLoginAttempts, SaveReleased
<1>4. ~account.alive => account.attempts = 0 /\ account.lock = "none"
  BY DEF SessionInv
<1> HIDE DEF d
<1>5. account' \in Accounts /\ account'.attempts = 0 /\ account'.lock = "none"
  BY <1>1, <1>3, <1>4
<1> QED BY <1>2, <1>5, AccountKeeps

LEMMA SaveChangedKeeps ==
  ASSUME SessionInv, NEW h \in Signers, SaveChanged(h) PROVE SessionInv'
<1> DEFINE d == [account EXCEPT !.password = account.password + 1, !.hashed = TRUE]
<1>1. account \in Accounts /\ account.password + 1 \in Passwords
  BY SessionAssumption DEF SaveChanged, SessionInv, Accounts, Passwords
<1>2. /\ d \in Accounts /\ d.attempts = account.attempts /\ d.lock = account.lock
      /\ d.alive = account.alive
  BY <1>1, PasswordFields
<1>3. /\ account' = IF account.alive THEN d ELSE account
      /\ SignEnds(h) /\ raced' = raced
  BY DEF SaveChanged, Saved
<1> HIDE DEF d
<1>4. sign' \in [Signers -> SignStates] /\ raced' \in BOOLEAN
  BY <1>3, SignEndsTyped DEF SessionInv
<1> QED BY <1>1, <1>2, <1>3, <1>4, AccountKeeps DEF SessionInv

LEMMA ForgotKeeps ==
  ASSUME SessionInv, NEW h \in Signers, ForgotPassword(h) \/ MailResetToken(h) \/ ResetTokenExpires
  PROVE  SessionInv'
<1> DEFINE d(b) == [account EXCEPT !.reset = b]
<1>1. account \in Accounts
  BY DEF SessionInv
<1>2. \A b \in BOOLEAN : /\ d(b) \in Accounts /\ d(b).attempts = account.attempts
                         /\ d(b).lock = account.lock /\ d(b).alive = account.alive
  BY <1>1, ResetFields
<1>3. account' \in {account, d(TRUE), d(FALSE)} /\ raced' = raced
  BY DEF ForgotPassword, MailResetToken, ResetTokenExpires
<1>4. sign' \in [Signers -> SignStates]
  <2>1. CASE ForgotPassword(h)
    BY <2>1, SignStartsTyped, SessionAssumption DEF ForgotPassword, SignSteps, Passwords
  <2>2. CASE MailResetToken(h)
    BY <2>2, SignEndsTyped DEF MailResetToken
  <2>3. CASE ResetTokenExpires
    BY <2>3 DEF ResetTokenExpires, SessionInv
  <2> QED BY <2>1, <2>2, <2>3
<1> HIDE DEF d
<1> QED BY <1>1, <1>2, <1>3, <1>4, AccountKeeps DEF SessionInv

LEMMA ResetStartsKeeps ==
  ASSUME SessionInv, NEW h \in Signers, ResetPassword(h) \/ UnlockAdmin(h) PROVE SessionInv'
<1>1. PICK step \in SignSteps : SignStarts(h, step, 1)
  BY DEF ResetPassword, UnlockAdmin, SignSteps
<1>2. 1 \in Passwords
  BY SessionAssumption DEF Passwords
<1> QED BY <1>1, <1>2, SignStartsTyped, AccountStays DEF ResetPassword, UnlockAdmin

\* Attempts and lock go together, or the copy was old.
LEMMA SaveResetKeeps ==
  ASSUME SessionInv, NEW h \in Signers, SaveReset(h) PROVE SessionInv'
<1> DEFINE c == sign[h].copy
           n == IF c.attempts = 0 THEN account.attempts ELSE 0
           l == IF c.lock = "none" THEN account.lock ELSE "none"
           d == [account EXCEPT !.password = account.password + 1, !.hashed = TRUE, !.reset = FALSE,
                                !.attempts = n, !.lock = l]
<1>1. /\ account \in Accounts /\ account.password + 1 \in Passwords
      /\ n \in Nat /\ l \in Locks
  BY SessionAssumption DEF SaveReset, SessionInv, Accounts, Passwords, Locks
<1>2. d \in Accounts /\ d.attempts = n /\ d.lock = l /\ d.alive = account.alive
  <2> HIDE DEF n, l
  <2> QED BY <1>1 DEF Accounts
<1>3. /\ account' = IF account.alive THEN d ELSE account
      /\ SignEnds(h)
      /\ raced' = (raced \/ c.attempts # account.attempts \/ c.lock # account.lock)
  BY DEF SaveReset, Saved
<1>4. sign' \in [Signers -> SignStates] /\ raced' \in BOOLEAN
  BY <1>3, SignEndsTyped
<1>5. CASE ~account.alive
  <2> HIDE DEF d
  <2> QED BY <1>3, <1>4, <1>5, <1>1, AccountKeeps DEF SessionInv
<1>6. CASE account.alive
  <2>1. account' = d
    BY <1>3, <1>6
  <2>2. ASSUME ~raced' PROVE account'.attempts >= MaxAttempts <=> account'.lock # "none"
    <3>1. c.attempts = account.attempts /\ c.lock = account.lock
      BY <1>3, <2>2
    <3>2. n = 0 /\ l = "none"
      BY <3>1
    <3>3. d.attempts = 0 /\ d.lock = "none"
      BY <1>2, <3>2
    <3> HIDE DEF d
    <3> QED BY <2>1, <3>3, SessionAssumption
  <2> HIDE DEF d
  <2> QED BY <1>2, <1>4, <1>6, <2>1, <2>2 DEF SessionInv
<1> QED BY <1>5, <1>6

LEMMA LockExpiresKeeps == ASSUME SessionInv, LockExpires PROVE SessionInv'
<1>1. account \in Accounts /\ account.lock = "held" /\ account.alive
  BY DEF LockExpires, SessionInv
<1> DEFINE d == [account EXCEPT !.lock = "over"]
<1>2. /\ d \in Accounts /\ d.attempts = account.attempts /\ d.lock = "over"
      /\ d.alive = account.alive
  <2>1. "over" \in Locks
    BY DEF Locks
  <2> QED BY <1>1, <2>1, LockFields
<1>3. account' = d /\ UNCHANGED <<sign, raced>>
  BY DEF LockExpires
<1> HIDE DEF d
<1> QED BY <1>1, <1>2, <1>3, AccountKeeps DEF SessionInv

LEMMA DeleteAdminKeeps == ASSUME SessionInv, DeleteAdmin PROVE SessionInv'
<1>1. /\ NoAccount \in Accounts /\ NoAccount.attempts = 0 /\ NoAccount.lock = "none"
  BY NewAccountTyped DEF NoAccount, NewAccount, Accounts
<1> QED BY <1>1, AccountKeeps DEF DeleteAdmin, SessionInv

LEMMA SessionSteps == SessionInv /\ [SessionNext]_sessionVars => SessionInv'
<1> SUFFICES ASSUME SessionInv, [SessionNext]_sessionVars PROVE SessionInv'
  OBVIOUS
<1>1. CASE UNCHANGED sessionVars
  BY <1>1 DEF sessionVars, SessionInv
<1>2. CASE LockExpires \/ DeleteAdmin
  BY <1>2, LockExpiresKeeps, DeleteAdminKeeps
<1>3. ASSUME ResetTokenExpires PROVE SessionInv'
  <2>1. CASE Signers = {}
    <3>1. /\ account' = [account EXCEPT !.reset = FALSE] /\ UNCHANGED <<sign, raced>>
      BY <1>3 DEF ResetTokenExpires
    <3>2. account \in Accounts /\ FALSE \in BOOLEAN
      BY DEF SessionInv
    <3> DEFINE e == [account EXCEPT !.reset = FALSE]
    <3>3. /\ e \in Accounts /\ e.attempts = account.attempts /\ e.lock = account.lock
          /\ e.alive = account.alive
      BY <3>2, ResetFields
    <3>4. account' = e
      BY <3>1
    <3> HIDE DEF e
    <3> QED BY <3>1, <3>3, <3>4, AccountKeeps DEF SessionInv
  <2>2. CASE Signers # {}
    BY <1>3, <2>2, ForgotKeeps
  <2> QED BY <2>1, <2>2
<1>4. ASSUME NEW h \in Signers, NEW tried \in Passwords,
             Login(h, tried) \/ ChangePassword(h, tried)
      PROVE  SessionInv'
  BY <1>4, LoginKeeps
<1>5. ASSUME NEW h \in Signers,
             \/ SaveUnlocked(h) \/ IncLoginAttempts(h) \/ ResetLoginAttempts(h)
             \/ SaveChanged(h) \/ ForgotPassword(h) \/ MailResetToken(h)
             \/ ResetPassword(h) \/ SaveReset(h) \/ UnlockAdmin(h) \/ SaveReleased(h)
      PROVE  SessionInv'
  BY <1>5, SaveUnlockedKeeps, IncLoginAttemptsKeeps, ReleaseKeeps, SaveChangedKeeps, ForgotKeeps,
     ResetStartsKeeps, SaveResetKeeps
<1>6. ASSUME NEW h \in Signers, SignFails(h) PROVE SessionInv'
  BY <1>6, SignEndsTyped, AccountStays DEF SignFails
<1> QED BY <1>1, <1>2, <1>3, <1>4, <1>5, <1>6 DEF SessionNext

LEMMA SessionInvariance == SessionSpec => []SessionInv
BY SessionStarts, SessionSteps, PTL DEF SessionSpec

-----------------------------------------------------------------------------
(* Refresh tokens.  A token that is being replaced is known, and only a    *)
(* request that has its successor already counts as rotated.  There may be *)
(* any number of tokens; those that live are finitely many.                *)

LiveTokens == {t \in Tokens : token[t] = "live"}

Rotated == {h \in Devices : device[h].rotated}

TokenInv ==
  /\ token \in [Tokens -> {"none", "live", "revoked", "expired"}]
  /\ device \in [Devices -> DeviceStates]
  /\ signIns \in Nat /\ forked \in BOOLEAN
  /\ IsFiniteSet(LiveTokens) /\ IsFiniteSet(Rotated)
  /\ \A h \in Devices :
       /\ device[h].rotated => device[h].step = "retire"
       /\ device[h].step \in {"rotate", "retire"} => device[h].old \in Tokens
  /\ ~forked => Cardinality(LiveTokens) <= signIns + Cardinality(Rotated)

LEMMA TokenStarts == TokenInit => TokenInv
<1> SUFFICES ASSUME TokenInit PROVE TokenInv
  OBVIOUS
<1>1. LiveTokens = {} /\ Rotated = {}
  BY DEF TokenInit, LiveTokens, Rotated, IdleDevice
<1>2. /\ token \in [Tokens -> {"none", "live", "revoked", "expired"}]
      /\ device \in [Devices -> DeviceStates]
  BY DEF TokenInit, DeviceStates, DeviceSteps, IdleDevice
<1>3. \A h \in Devices : ~device[h].rotated /\ device[h].step = "idle"
  BY DEF TokenInit, IdleDevice
<1>4. IsFiniteSet({}) /\ Cardinality({}) <= signIns + Cardinality({})
  BY FS_EmptySet DEF TokenInit
<1> QED BY <1>1, <1>2, <1>3, <1>4 DEF TokenInv, TokenInit

\* A request goes on without having replaced a token: the set of those that
\* have one to revoke shrinks at most by the request itself.
LEMMA DeviceGoes ==
  ASSUME TokenInv, NEW h \in Devices, NEW d \in DeviceStates, ~d.rotated,
         d.step \in {"rotate", "retire"} => d.old \in Tokens,
         device' = [device EXCEPT ![h] = d]
  PROVE  /\ device' \in [Devices -> DeviceStates]
         /\ \A k \in Devices :
              /\ device'[k].rotated => device'[k].step = "retire"
              /\ device'[k].step \in {"rotate", "retire"} => device'[k].old \in Tokens
         /\ Rotated' = Rotated \ {h} /\ IsFiniteSet(Rotated')
         /\ Cardinality(Rotated') \in Nat
         /\ Cardinality(Rotated') =
              IF device[h].rotated THEN Cardinality(Rotated) - 1 ELSE Cardinality(Rotated)
<1>1. /\ device' \in [Devices -> DeviceStates]
      /\ \A k \in Devices : device'[k] = IF k = h THEN d ELSE device[k]
  BY DEF TokenInv
<1>2. Rotated' = Rotated \ {h}
  BY <1>1 DEF Rotated
<1>3. h \in Rotated <=> device[h].rotated
  BY DEF Rotated
<1>4. \A k \in Devices :
        /\ device'[k].rotated => device'[k].step = "retire"
        /\ device'[k].step \in {"rotate", "retire"} => device'[k].old \in Tokens
  BY <1>1 DEF TokenInv
<1>5. IsFiniteSet(Rotated)
  BY DEF TokenInv
<1> QED BY <1>1, <1>2, <1>3, <1>4, <1>5, FS_RemoveElement, FS_CardinalityType

\* What requests are about to do.
LEMMA IdleTyped == IdleDevice \in DeviceStates /\ IdleDevice.step = "idle" /\ ~IdleDevice.rotated
BY DEF IdleDevice, DeviceStates, DeviceSteps

LEMMA StartTyped ==
  ASSUME NEW step \in DeviceSteps, NEW t \in Tokens \cup {NoToken}
  PROVE  LET d == [IdleDevice EXCEPT !.step = step, !.old = t] IN
         d \in DeviceStates /\ d.step = step /\ ~d.rotated /\ d.old = t
BY DEF IdleDevice, DeviceStates, DeviceSteps

LEMMA StepTyped ==
  ASSUME NEW d \in DeviceStates, NEW step \in DeviceSteps
  PROVE  LET e == [d EXCEPT !.step = step] IN
         e \in DeviceStates /\ e.step = step /\ e.rotated = d.rotated /\ e.old = d.old
BY DEF DeviceStates, DeviceSteps

LEMMA SuccessorTyped ==
  ASSUME NEW d \in DeviceStates
  PROVE  LET e == [d EXCEPT !.step = "retire", !.rotated = TRUE] IN
         e \in DeviceStates /\ e.step = "retire" /\ e.rotated /\ e.old = d.old
BY DEF DeviceStates, DeviceSteps

LEMMA LiveChange ==
  ASSUME TokenInv, NEW t \in Tokens, NEW s \in {"live", "revoked", "expired"},
         token' = [token EXCEPT ![t] = s]
  PROVE  /\ token' \in [Tokens -> {"none", "live", "revoked", "expired"}]
         /\ LiveTokens' = IF s = "live" THEN LiveTokens \cup {t} ELSE LiveTokens \ {t}
         /\ IsFiniteSet(LiveTokens') /\ Cardinality(LiveTokens') \in Nat
         /\ s = "live" => Cardinality(LiveTokens') <= Cardinality(LiveTokens) + 1
         /\ s # "live" => Cardinality(LiveTokens') =
              IF token[t] = "live" THEN Cardinality(LiveTokens) - 1 ELSE Cardinality(LiveTokens)
<1>1. token' \in [Tokens -> {"none", "live", "revoked", "expired"}]
  BY DEF TokenInv
<1>2. LiveTokens' = IF s = "live" THEN LiveTokens \cup {t} ELSE LiveTokens \ {t}
  BY DEF TokenInv, LiveTokens
<1>3. IsFiniteSet(LiveTokens) /\ Cardinality(LiveTokens) \in Nat
  BY FS_CardinalityType DEF TokenInv
<1>4. t \in LiveTokens <=> token[t] = "live"
  BY DEF LiveTokens
<1>5. IsFiniteSet(LiveTokens') /\ Cardinality(LiveTokens') \in Nat
  BY <1>2, <1>3, FS_AddElement, FS_RemoveElement, FS_CardinalityType
<1>6. s = "live" => Cardinality(LiveTokens') <= Cardinality(LiveTokens) + 1
  <2> SUFFICES ASSUME s = "live" PROVE Cardinality(LiveTokens') <= Cardinality(LiveTokens) + 1
    OBVIOUS
  <2>1. LiveTokens' = LiveTokens \cup {t}
    BY <1>2
  <2>2. Cardinality(LiveTokens \cup {t}) \in {Cardinality(LiveTokens), Cardinality(LiveTokens) + 1}
    BY <1>3, FS_AddElement
  <2> QED BY <1>3, <2>1, <2>2
<1>7. s # "live" => Cardinality(LiveTokens') =
              IF token[t] = "live" THEN Cardinality(LiveTokens) - 1 ELSE Cardinality(LiveTokens)
  BY <1>2, <1>3, <1>4, FS_RemoveElement
<1> QED BY <1>1, <1>2, <1>5, <1>6, <1>7

LEMMA CountsAre ==
  ASSUME TokenInv PROVE Cardinality(LiveTokens) \in Nat /\ Cardinality(Rotated) \in Nat
BY FS_CardinalityType DEF TokenInv

\* The request goes on and no token changes.
LEMMA TokensStay ==
  ASSUME TokenInv, NEW h \in Devices, NEW d \in DeviceStates, ~d.rotated,
         d.step \in {"rotate", "retire"} => d.old \in Tokens,
         device' = [device EXCEPT ![h] = d], ~device[h].rotated,
         UNCHANGED <<token, signIns, forked>>
  PROVE  TokenInv'
<1>1. LiveTokens' = LiveTokens
  BY DEF LiveTokens
<1> QED BY <1>1, DeviceGoes DEF TokenInv

LEMMA SignedInKeeps ==
  ASSUME TokenInv, NEW h \in Devices, SignedIn(h) PROVE TokenInv'
<1>1. PICK step \in {"token", "changed"} : DeviceStarts(h, step, NoToken)
  BY DEF SignedIn
<1> DEFINE d == [IdleDevice EXCEPT !.step = step, !.old = NoToken]
<1>2. d \in DeviceStates /\ d.step = step /\ ~d.rotated
  <2>1. step \in DeviceSteps
    BY DEF DeviceSteps
  <2> QED BY <2>1, StartTyped
<1>3. device' = [device EXCEPT ![h] = d] /\ device[h].step = "idle"
  BY <1>1 DEF DeviceStarts
<1> HIDE DEF d
<1>4. ~device[h].rotated
  BY <1>3 DEF TokenInv
<1> QED BY <1>2, <1>3, <1>4, TokensStay DEF SignedIn

LEMMA RefreshKeeps ==
  ASSUME TokenInv, NEW h \in Devices, NEW t \in Tokens, Refresh(h, t) \/ Logout(h, t)
  PROVE  TokenInv'
<1>1. PICK step \in {"revokeAll", "rotate", "retire"} : DeviceStarts(h, step, t)
  BY DEF Refresh, Logout
<1> DEFINE d == [IdleDevice EXCEPT !.step = step, !.old = t]
<1>2. d \in DeviceStates /\ d.step = step /\ ~d.rotated /\ d.old = t
  <2>1. step \in DeviceSteps
    BY DEF DeviceSteps
  <2> QED BY <2>1, StartTyped
<1>3. device' = [device EXCEPT ![h] = d] /\ device[h].step = "idle"
  BY <1>1 DEF DeviceStarts
<1> HIDE DEF d
<1>4. ~device[h].rotated
  BY <1>3 DEF TokenInv
<1> QED BY <1>2, <1>3, <1>4, TokensStay DEF Refresh, Logout

LEMMA SendTokenKeeps ==
  ASSUME TokenInv, NEW h \in Devices, NEW t \in Tokens, SendToken(h, t) PROVE TokenInv'
<1>1. /\ token' = [token EXCEPT ![t] = "live"] /\ signIns' = signIns + 1
      /\ device' = [device EXCEPT ![h] = IdleDevice] /\ device[h].step = "token"
      /\ forked' = forked
  BY DEF SendToken, DeviceEnds
<1>2. ~device[h].rotated
  BY <1>1 DEF TokenInv
<1>3. /\ token' \in [Tokens -> {"none", "live", "revoked", "expired"}]
      /\ IsFiniteSet(LiveTokens') /\ Cardinality(LiveTokens') \in Nat
      /\ Cardinality(LiveTokens') <= Cardinality(LiveTokens) + 1
  BY <1>1, LiveChange
<1>4. /\ device' \in [Devices -> DeviceStates] /\ IsFiniteSet(Rotated')
      /\ \A k \in Devices :
           /\ device'[k].rotated => device'[k].step = "retire"
           /\ device'[k].step \in {"rotate", "retire"} => device'[k].old \in Tokens
      /\ Cardinality(Rotated') = Cardinality(Rotated)
  BY <1>1, <1>2, IdleTyped, DeviceGoes
<1>5. ASSUME ~forked' PROVE Cardinality(LiveTokens') <= signIns' + Cardinality(Rotated')
  <2>1. Cardinality(LiveTokens) <= signIns + Cardinality(Rotated) /\ signIns \in Nat
    BY <1>1, <1>5 DEF TokenInv
  <2> QED BY <1>1, <1>3, <1>4, <2>1, CountsAre
<1> QED BY <1>1, <1>3, <1>4, <1>5 DEF TokenInv

LEMMA RevokeAllKeeps ==
  ASSUME TokenInv, NEW h \in Devices, RevokeAll(h) PROVE TokenInv'
<1>1. /\ token' \in [Tokens -> {"none", "live", "revoked", "expired"}]
      /\ LiveTokens' = {}
  BY DEF RevokeAll, LiveTokens, TokenInv
<1>2. PICK d \in DeviceStates : /\ device' = [device EXCEPT ![h] = d] /\ ~d.rotated
                                /\ d.step \in {"idle", "token"}
  <2> DEFINE e == [device[h] EXCEPT !.step = "token"]
  <2>1. CASE device[h].step = "changed"
    <3>1. device[h] \in DeviceStates /\ ~device[h].rotated
      BY <2>1 DEF TokenInv
    <3>2. e \in DeviceStates /\ e.step = "token" /\ ~e.rotated
      BY <3>1, StepTyped DEF DeviceSteps
    <3>3. device' = [device EXCEPT ![h] = e]
      BY <2>1 DEF RevokeAll
    <3> QED BY <3>2, <3>3
  <2>2. CASE device[h].step # "changed"
    BY <2>2, IdleTyped DEF RevokeAll, DeviceEnds
  <2> QED BY <2>1, <2>2
<1>3. signIns' = signIns /\ forked' = forked
  BY DEF RevokeAll
<1>4. IsFiniteSet(LiveTokens') /\ Cardinality(LiveTokens') = 0
  BY <1>1, FS_EmptySet
<1>5. /\ device' \in [Devices -> DeviceStates] /\ IsFiniteSet(Rotated')
      /\ \A k \in Devices :
           /\ device'[k].rotated => device'[k].step = "retire"
           /\ device'[k].step \in {"rotate", "retire"} => device'[k].old \in Tokens
      /\ Cardinality(Rotated') \in Nat
  <2>1. d.step \in {"rotate", "retire"} => d.old \in Tokens
    BY <1>2
  <2> QED BY <1>2, <2>1, DeviceGoes
<1>6. Cardinality(LiveTokens') <= signIns' + Cardinality(Rotated')
  BY <1>3, <1>4, <1>5 DEF TokenInv
<1> QED BY <1>1, <1>3, <1>4, <1>5, <1>6 DEF TokenInv

LEMMA CreateSuccessorKeeps ==
  ASSUME TokenInv, NEW h \in Devices, NEW t \in Tokens, CreateSuccessor(h, t) PROVE TokenInv'
<1> DEFINE d == [device[h] EXCEPT !.step = "retire", !.rotated = TRUE]
<1>1. /\ token' = [token EXCEPT ![t] = "live"] /\ device[h].step = "rotate"
      /\ device' = [device EXCEPT ![h] = d] /\ UNCHANGED <<signIns, forked>>
  BY DEF CreateSuccessor
<1>2. device[h] \in DeviceStates /\ ~device[h].rotated /\ device[h].old \in Tokens
  BY <1>1 DEF TokenInv
<1>3. d \in DeviceStates /\ d.step = "retire" /\ d.rotated /\ d.old \in Tokens
  BY <1>2, SuccessorTyped
<1> HIDE DEF d
<1>4. /\ device' \in [Devices -> DeviceStates]
      /\ \A k \in Devices : device'[k] = IF k = h THEN d ELSE device[k]
  BY <1>1, <1>3 DEF TokenInv
<1>5. Rotated' = Rotated \cup {h} /\ h \notin Rotated
  BY <1>2, <1>3, <1>4 DEF Rotated
<1>6. /\ IsFiniteSet(Rotated') /\ Cardinality(Rotated') = Cardinality(Rotated) + 1
  BY <1>5, FS_AddElement DEF TokenInv
<1>7. /\ token' \in [Tokens -> {"none", "live", "revoked", "expired"}]
      /\ IsFiniteSet(LiveTokens') /\ Cardinality(LiveTokens') \in Nat
      /\ Cardinality(LiveTokens') <= Cardinality(LiveTokens) + 1
  BY <1>1, LiveChange
<1>8. \A k \in Devices :
        /\ device'[k].rotated => device'[k].step = "retire"
        /\ device'[k].step \in {"rotate", "retire"} => device'[k].old \in Tokens
  BY <1>3, <1>4 DEF TokenInv
<1> QED BY <1>1, <1>4, <1>6, <1>7, <1>8, CountsAre DEF TokenInv

\* The old token is revoked as its successor is counted no more: the sums stay.
LEMMA RetireTokenKeeps ==
  ASSUME TokenInv, NEW h \in Devices, RetireToken(h) PROVE TokenInv'
<1> DEFINE old == device[h].old
           s == IF token[old] = "live" THEN "revoked" ELSE token[old]
<1>1. /\ device[h].step = "retire" /\ old \in Tokens
      /\ device' = [device EXCEPT ![h] = IdleDevice]
      /\ forked' = (forked \/ (device[h].rotated /\ token[old] # "live"))
      /\ signIns' = signIns
  BY DEF RetireToken, DeviceEnds, TokenInv
<1>2. /\ token' \in [Tokens -> {"none", "live", "revoked", "expired"}]
      /\ LiveTokens' = LiveTokens \ {old}
  <2>1. token' = [token EXCEPT ![old] = s]
    BY DEF RetireToken
  <2>2. s \in {"none", "revoked", "expired"}
    BY <1>1 DEF TokenInv
  <2> HIDE DEF s, old
  <2>3. \A t \in Tokens : token'[t] = IF t = old THEN s ELSE token[t]
    BY <1>1, <2>1 DEF TokenInv
  <2> QED BY <1>1, <2>1, <2>2, <2>3 DEF TokenInv, LiveTokens
<1>3. old \in LiveTokens <=> token[old] = "live"
  BY <1>1 DEF LiveTokens
<1> HIDE DEF old
<1>4. /\ IsFiniteSet(LiveTokens') /\ Cardinality(LiveTokens') \in Nat
      /\ Cardinality(LiveTokens') =
           IF token[old] = "live" THEN Cardinality(LiveTokens) - 1 ELSE Cardinality(LiveTokens)
  BY <1>2, <1>3, FS_RemoveElement, FS_CardinalityType DEF TokenInv
<1>5. /\ device' \in [Devices -> DeviceStates] /\ IsFiniteSet(Rotated')
      /\ \A k \in Devices :
           /\ device'[k].rotated => device'[k].step = "retire"
           /\ device'[k].step \in {"rotate", "retire"} => device'[k].old \in Tokens
      /\ Cardinality(Rotated') =
           IF device[h].rotated THEN Cardinality(Rotated) - 1 ELSE Cardinality(Rotated)
  BY <1>1, IdleTyped, DeviceGoes
<1>6. ASSUME ~forked' PROVE Cardinality(LiveTokens') <= signIns' + Cardinality(Rotated')
  <2>1. ~forked /\ (device[h].rotated => token[old] = "live")
    BY <1>1, <1>6
  <2>2. Cardinality(LiveTokens) <= signIns + Cardinality(Rotated) /\ signIns \in Nat
    BY <2>1 DEF TokenInv
  <2>3. CASE device[h].rotated
    <3>1. /\ Cardinality(LiveTokens') = Cardinality(LiveTokens) - 1
          /\ Cardinality(Rotated') = Cardinality(Rotated) - 1
      BY <1>4, <1>5, <2>1, <2>3
    <3> QED BY <1>1, <2>2, <3>1, CountsAre
  <2>4. CASE ~device[h].rotated
    <3>1. Cardinality(Rotated') = Cardinality(Rotated)
      BY <1>5, <2>4
    <3>2. Cardinality(LiveTokens') <= Cardinality(LiveTokens)
      BY <1>4, CountsAre
    <3> QED BY <1>1, <1>4, <2>2, <3>1, <3>2, CountsAre
  <2> QED BY <2>3, <2>4
<1>7. forked' \in BOOLEAN
  BY <1>1
<1> QED BY <1>1, <1>2, <1>4, <1>5, <1>6, <1>7 DEF TokenInv

LEMMA DeviceFailsKeeps ==
  ASSUME TokenInv, NEW h \in Devices, DeviceFails(h) PROVE TokenInv'
<1>1. /\ device' = [device EXCEPT ![h] = IdleDevice]
      /\ forked' = (forked \/ device[h].rotated) /\ UNCHANGED <<token, signIns>>
  BY DEF DeviceFails, DeviceEnds
<1>2. LiveTokens' = LiveTokens
  BY <1>1 DEF LiveTokens
<1>3. forked' \in BOOLEAN /\ (~forked' => ~forked /\ ~device[h].rotated)
  BY <1>1, Zenon DEF TokenInv
<1> QED BY <1>1, <1>2, <1>3, IdleTyped, DeviceGoes DEF TokenInv

LEMMA TokenExpiresKeeps ==
  ASSUME TokenInv, NEW t \in Tokens, TokenExpires(t) PROVE TokenInv'
<1>1. /\ token' = [token EXCEPT ![t] = "expired"] /\ token[t] = "live"
      /\ UNCHANGED <<device, signIns, forked>>
  BY DEF TokenExpires
<1>2. Rotated' = Rotated
  BY <1>1 DEF Rotated
<1>3. /\ token' \in [Tokens -> {"none", "live", "revoked", "expired"}]
      /\ IsFiniteSet(LiveTokens') /\ Cardinality(LiveTokens') \in Nat
      /\ Cardinality(LiveTokens') = Cardinality(LiveTokens) - 1
  BY <1>1, LiveChange
<1> QED BY <1>1, <1>2, <1>3, CountsAre DEF TokenInv

LEMMA TokenSteps == TokenInv /\ [TokenNext]_tokenVars => TokenInv'
<1> SUFFICES ASSUME TokenInv, [TokenNext]_tokenVars PROVE TokenInv'
  OBVIOUS
<1>1. CASE RemoveAdmin \/ UNCHANGED tokenVars
  <2>1. LiveTokens' = LiveTokens /\ Rotated' = Rotated
    BY <1>1 DEF RemoveAdmin, tokenVars, LiveTokens, Rotated
  <2> QED BY <1>1, <2>1 DEF RemoveAdmin, tokenVars, TokenInv
<1>2. CASE \E t \in Tokens : TokenExpires(t)
  BY <1>2, TokenExpiresKeeps
<1>3. ASSUME NEW h \in Devices, SignedIn(h) \/ RevokeAll(h) \/ RetireToken(h) \/ DeviceFails(h)
      PROVE  TokenInv'
  BY <1>3, SignedInKeeps, RevokeAllKeeps, RetireTokenKeeps, DeviceFailsKeeps
<1>4. ASSUME NEW h \in Devices, NEW t \in Tokens,
             SendToken(h, t) \/ Refresh(h, t) \/ CreateSuccessor(h, t) \/ Logout(h, t)
      PROVE  TokenInv'
  BY <1>4, SendTokenKeeps, RefreshKeeps, CreateSuccessorKeeps
<1> QED BY <1>1, <1>2, <1>3, <1>4 DEF TokenNext

LEMMA TokenInvariance == TokenSpec => []TokenInv
BY TokenStarts, TokenSteps, PTL DEF TokenSpec

-----------------------------------------------------------------------------
(* The parts together.  Whatever the behaviour is about, an account and    *)
(* its tokens do what they do on their own, or stand still.                *)

LEMMA AccountRuns == Spec => SessionSpec /\ TokenSpec
<1>1. Init => SessionInit /\ TokenInit
  BY DEF Init
<1>2. Next => [SessionNext]_sessionVars
  BY DEF Next
<1>3. Next => [TokenNext]_tokenVars
  BY DEF Next
<1>4. UNCHANGED <<focus, signUpVars, sessionVars, tokenVars, tenancyVars, staffVars, locationVars,
                  consentVars>> => UNCHANGED sessionVars /\ UNCHANGED tokenVars
  OBVIOUS
<1> QED BY <1>1, <1>2, <1>3, <1>4, PTL DEF Spec, SessionSpec, TokenSpec

\* Neither guessing nor refreshing gets more than the sign-in routes allow: a
\* lock is there exactly when the maximum of attempts has failed, and there are
\* no more live refresh tokens than sign-ins, but for the races that are named.
\* For any number of requests and tokens, attempts and passwords.
THEOREM GuessingIsBounded == Spec => []AccountIsGuarded
<1>1. SessionInv => LockedAfterMaxAttempts
  BY DEF SessionInv, LockedAfterMaxAttempts
<1>2. TokenInv => SessionsAreSignIns
  BY DEF TokenInv, SessionsAreSignIns, LiveTokens, Rotated
<1>3. SessionInv /\ TokenInv => AccountIsGuarded
  BY <1>1, <1>2 DEF AccountIsGuarded
<1> QED BY <1>3, AccountRuns, SessionInvariance, TokenInvariance, PTL

-----------------------------------------------------------------------------
(* The types of the parts.  Slugs and versions are bounded by the number   *)
(* of documents, for which the numbers that are taken are counted.         *)

\* A set of naturals has a first member.
LEMMA FirstOfSet ==
  ASSUME NEW U, U \subseteq Nat, U # {}
  PROVE  \E x \in U : \A y \in U : x <= y
<1> DEFINE R == OpToRel(<, Nat)
<1>1. \E x \in U : \A y \in U : ~(<<y, x>> \in R)
  <2> HIDE DEF R
  <2>1. IsWellFoundedOn(R, Nat)
    BY NatLessThanWellFounded DEF R
  <2> QED BY ONLY <2>1, U \subseteq Nat, U # {}, WFMin
<1>2. PICK x \in U : \A y \in U : ~(<<y, x>> \in R)
  BY <1>1
<1>3. \A y \in U : ~(y < x)
  BY <1>2 DEF OpToRel
<1> QED BY <1>3

\* Of more numbers than are taken the first that is not taken is there.
LEMMA FirstFree ==
  ASSUME NEW T, IsFiniteSet(T), NEW a \in Nat, NEW b \in Nat, Cardinality(T) < b - a + 1
  PROVE  \E n \in a..b : n \notin T /\ a..(n - 1) \subseteq T
<1>1. Cardinality(T) \in Nat
  BY FS_CardinalityType
<1>2. a <= b
  BY <1>1
<1>3. Cardinality(a..b) = b - a + 1
  BY <1>2, FS_Interval
<1>4. ~(a..b \subseteq T)
  <2> SUFFICES ASSUME a..b \subseteq T PROVE FALSE
    OBVIOUS
  <2>1. Cardinality(a..b) <= Cardinality(T)
    BY FS_Subset
  <2> QED BY <1>1, <1>3, <2>1
<1> DEFINE U == (a..b) \ T
<1>5. U # {} /\ U \subseteq Nat
  BY <1>4
<1>6. PICK n \in U : \A m \in U : n <= m
  <2> HIDE DEF U
  <2> QED BY <1>5, FirstOfSet
<1>7. a..(n - 1) \subseteq T
  BY <1>6
<1> QED BY <1>6, <1>7

\* The numbers that are taken are no more than the documents that have them.
LEMMA ImageCounts ==
  ASSUME NEW S, IsFiniteSet(S), NEW f, NEW T, T = {f[x] : x \in S}
  PROVE  IsFiniteSet(T) /\ Cardinality(T) <= Cardinality(S)
<1> DEFINE g == [x \in S |-> f[x]]
<1>1. g \in Surjection(S, T)
  BY DEF Surjection
<1> HIDE DEF g
<1> QED BY ONLY <1>1, IsFiniteSet(S), FS_Surjection

(* Sign-up: a free slug is found among as many numbers as there are salons *)
(* and one.                                                                *)

SlugRange == 0..Cardinality(Salons)

SalonSlugsFit ==
  /\ \A s \in Salons : salon[s].slug \in SlugRange
  /\ \A h \in Founders : founder[h].slug \in SlugRange

LEMMA FreeSlugIsThere == FreeSlug \in 1..(Cardinality(Salons) + 1)
<1>1. IsFiniteSet(Existing) /\ Cardinality(Existing) <= Cardinality(Salons)
  BY SignUpAssumption, FS_Subset DEF Existing
<1>2. IsFiniteSet(TakenSlugs) /\ Cardinality(TakenSlugs) <= Cardinality(Existing)
  <2> DEFINE f == [s \in Existing |-> salon[s].slug]
  <2>1. TakenSlugs = {f[s] : s \in Existing}
    BY DEF TakenSlugs
  <2> HIDE DEF f
  <2> QED BY ONLY <1>1, <2>1, ImageCounts
<1>3. Cardinality(TakenSlugs) \in Nat /\ Cardinality(Salons) \in Nat /\ Cardinality(Existing) \in Nat
  BY <1>1, <1>2, SignUpAssumption, FS_CardinalityType
<1> DEFINE b == Cardinality(Salons) + 1
<1>4. b \in Nat /\ Cardinality(TakenSlugs) < b - 1 + 1
  BY <1>1, <1>2, <1>3
<1>5. \E n \in 1..b : n \notin TakenSlugs /\ 1..(n - 1) \subseteq TakenSlugs
  <2> HIDE DEF b
  <2>1. 1 \in Nat
    OBVIOUS
  <2> QED BY ONLY <1>2, <1>4, <2>1, FirstFree
<1>6. \E n \in 1..(Cardinality(Salons) + 1) : n \notin TakenSlugs /\ \A m \in 1..(n - 1) : m \in TakenSlugs
  BY <1>5
<1> QED BY <1>6 DEF FreeSlug

LEMMA SignUpIsTyped == ASSUME SignUpInv, SalonSlugsFit PROVE SignUpTypeOK
<1>1. PICK S : SignUpShape(S)
  BY DEF SignUpInv
<1> DEFINE N == SlugRange
<1> HIDE DEF N
<1>2. \A s \in Salons : salon[s] \in SalonShape(N)
  <2> SUFFICES ASSUME NEW s \in Salons PROVE salon[s] \in SalonShape(N)
    OBVIOUS
  <2>1. salon[s] \in SalonShape(S) /\ salon[s].slug \in N
    BY <1>1 DEF SignUpShape, SalonSlugsFit, N
  <2> QED BY <2>1 DEF SalonShape
<1>3. \A h \in Founders : founder[h] \in FounderShape(N)
  <2> SUFFICES ASSUME NEW h \in Founders PROVE founder[h] \in FounderShape(N)
    OBVIOUS
  <2>1. founder[h] \in FounderShape(S) /\ founder[h].slug \in N
    BY <1>1 DEF SignUpShape, SalonSlugsFit, N
  <2> QED BY <2>1 DEF FounderShape
<1>4. SalonDocs = SalonShape(N) /\ FounderStates = FounderShape(N)
  BY DEF SalonDocs, FounderStates, SalonShape, FounderShape, N, SlugRange
<1> HIDE DEF SalonDocs, FounderStates, SalonShape, FounderShape
<1> QED BY <1>1, <1>2, <1>3, <1>4 DEF SignUpShape, SignUpTypeOK

LEMMA SlugsStart == SignUpInit => SalonSlugsFit
<1>1. Cardinality(Salons) \in Nat
  BY SignUpAssumption, FS_CardinalityType
<1>2. 0 \in SlugRange
  BY <1>1 DEF SlugRange
<1> QED BY <1>2 DEF SignUpInit, SalonSlugsFit, IdleFounder

LEMMA SalonSlugsKeep == SignUpInv /\ SalonSlugsFit /\ [SignUpNext]_signUpVars => SalonSlugsFit'
<1> SUFFICES ASSUME SignUpInv, SalonSlugsFit, [SignUpNext]_signUpVars PROVE SalonSlugsFit'
  OBVIOUS
<1>0. PICK S : 0 \in S /\ SignUpShape(S)
  BY DEF SignUpInv
<1> DEFINE N == SlugRange
<1>1. Cardinality(Salons) \in Nat
  BY SignUpAssumption, FS_CardinalityType
<1>2. 0 \in N
  BY <1>1 DEF SlugRange
<1>3. IdleFounder.slug \in N
  BY <1>2 DEF IdleFounder
<1>4. \A s \in Salons : salon[s].slug \in N
  BY DEF SalonSlugsFit
<1>5. \A h \in Founders : founder[h].slug \in N
  BY DEF SalonSlugsFit
<1>6. salon \in [Salons -> SalonShape(S)] /\ founder \in [Founders -> FounderShape(S)]
  BY <1>0 DEF SignUpShape
<1> DEFINE salonFits == \A s \in Salons : salon'[s].slug \in N
           founderFits == \A h \in Founders : founder'[h].slug \in N
<1>7. salonFits /\ founderFits => SalonSlugsFit'
  BY DEF SalonSlugsFit, SlugRange
<1>8. UNCHANGED salon => salonFits
  BY <1>4
<1>9. UNCHANGED founder => founderFits
  BY <1>5
<1>10. ASSUME NEW h \in Founders, FounderEnds(h) PROVE founderFits
  BY <1>3, <1>5, <1>6, <1>10 DEF FounderEnds
<1>11. ASSUME NEW h \in Founders, NEW step, FounderGoes(h, step) PROVE founderFits
  BY <1>5, <1>6, <1>11 DEF FounderGoes, FounderShape
<1>12. ASSUME NEW h \in Founders, NEW e, NEW a, SignsUp(h, e, a) PROVE SalonSlugsFit'
  <2>1. [IdleFounder EXCEPT !.step = "tenantEmail", !.email = e, !.adminEmail = a].slug \in N
    BY <1>2 DEF IdleFounder
  <2>2. founderFits
    <3> DEFINE r == [IdleFounder EXCEPT !.step = "tenantEmail", !.email = e, !.adminEmail = a]
    <3>1. founder' = [founder EXCEPT ![h] = r]
      BY <1>12 DEF SignsUp
    <3> HIDE DEF r
    <3> QED BY <1>5, <1>6, <2>1, <3>1 DEF r
  <2> QED BY <1>7, <1>8, <1>12, <2>2 DEF SignsUp
<1>13. ASSUME NEW h \in Founders, CheckTenantEmail(h) PROVE SalonSlugsFit'
  <2>1. ASSUME founder' = [founder EXCEPT ![h].step = "slug", ![h].met = Existing] PROVE founderFits
    BY <1>5, <1>6, <2>1 DEF FounderShape
  <2> QED BY <1>7, <1>8, <1>10, <1>13, <2>1 DEF CheckTenantEmail
<1>14. ASSUME NEW h \in Founders, SearchSlug(h) PROVE SalonSlugsFit'
  <2>1. FreeSlug \in N
    BY <1>1, <1>14, FreeSlugIsThere DEF SearchSlug, SlugRange
  <2>2. founder' = [founder EXCEPT ![h].step = "tenant", ![h].slug = FreeSlug]
    BY <1>14 DEF SearchSlug
  <2> HIDE DEF N
  <2>3. founderFits
    BY <1>5, <1>6, <2>1, <2>2 DEF FounderShape
  <2> QED BY <1>7, <1>8, <1>14, <2>3 DEF SearchSlug
<1>15. ASSUME NEW h \in Founders, NEW s \in Salons, SaveTenant(h, s) PROVE SalonSlugsFit'
  <2>1. CASE FounderEnds(h) /\ UNCHANGED <<salon, met>>
    BY <1>7, <1>8, <1>10, <2>1
  <2>2. ASSUME NEW r, r = founder[h],
               salon' = [salon EXCEPT ![s] = [state |-> "there", email |-> r.email, slug |-> r.slug,
                                              adminEmail |-> r.adminEmail, parts |-> {}]],
               founder' = [founder EXCEPT ![h].step = "admin", ![h].salon = s, ![h].met = {},
                                          ![h].email = AnEmail, ![h].slug = 0]
        PROVE  SalonSlugsFit'
    <3>1. salonFits
      BY <1>4, <1>5, <1>6, <2>2
    <3>2. founderFits
      BY <1>2, <1>5, <1>6, <2>2 DEF FounderShape
    <3> QED BY <1>7, <3>1, <3>2
  <2> QED BY <1>15, <2>1, <2>2 DEF SaveTenant
<1>16. ASSUME NEW h \in Founders, NEW part, NEW next, SavePart(h, part, next) PROVE SalonSlugsFit'
  <2>1. CASE FounderEnds(h) /\ UNCHANGED salon
    BY <1>7, <1>8, <1>10, <2>1
  <2>2. CASE salon' = [salon EXCEPT ![founder[h].salon].parts = @ \cup {part}] /\ FounderGoes(h, next)
    <3>1. salonFits
      BY <1>4, <1>6, <2>2 DEF SalonShape
    <3> QED BY <1>7, <1>11, <2>2, <3>1
  <2> QED BY <1>16, <2>1, <2>2 DEF SavePart
<1>17. ASSUME NEW h \in Founders, AnswerSignUp(h) PROVE SalonSlugsFit'
  <2>1. salonFits
    BY <1>4, <1>6, <1>17 DEF AnswerSignUp, SalonShape
  <2> QED BY <1>7, <1>10, <1>17, <2>1 DEF AnswerSignUp
<1>18. ASSUME NEW s \in Salons, NEW t \in Contexts, DeleteSalon(s, t) PROVE SalonSlugsFit'
  <2> DEFINE left(x) == salon[x].parts \ (IF x \in Within(t, {s}) THEN DeletedParts ELSE {})
  <2>1. ASSUME NEW x \in Salons, x # s PROVE [salon[x] EXCEPT !.parts = left(x)].slug = salon[x].slug
    BY <1>6 DEF SalonShape
  <2>2. \A x \in Salons : x # s => salon'[x].slug = salon[x].slug
    BY <1>18, <2>1 DEF DeleteSalon
  <2>3. salon'[s].slug = 0
    BY <1>18 DEF DeleteSalon
  <2>4. salonFits
    BY <1>2, <1>4, <2>2, <2>3
  <2> QED BY <1>7, <1>9, <1>18, <2>4 DEF DeleteSalon
<1>21. ASSUME NEW s \in Salons, NEW email, NEW part, UpdateEmail(s, email) \/ DeletePart(s, part)
       PROVE  SalonSlugsFit'
  <2>1. salonFits
    BY <1>4, <1>6, <1>21 DEF UpdateEmail, DeletePart, SalonShape
  <2> QED BY <1>7, <1>9, <1>21, <2>1 DEF UpdateEmail, DeletePart
<1>19. ASSUME NEW h \in Founders, FounderFails(h) PROVE SalonSlugsFit'
  BY <1>7, <1>8, <1>10, <1>19 DEF FounderFails
<1>20. CASE UNCHANGED signUpVars
  BY <1>7, <1>8, <1>9, <1>20 DEF signUpVars
<1> HIDE DEF N, salonFits, founderFits
<1> QED BY <1>12, <1>13, <1>14, <1>15, <1>16, <1>17, <1>18, <1>19, <1>20, <1>21 DEF SignUpNext

(* Locations: a free slug is found among as many numbers as there are      *)
(* locations and one, which is 0.                                          *)

SiteSlugs == 0..Cardinality(Sites)

SiteSlugsFit ==
  /\ \A l \in Sites : site[l].slug \in SiteSlugs
  /\ \A h \in Managers : manager[h].slug \in SiteSlugs

LEMMA SitesAreCounted == Cardinality(Sites) \in Nat /\ 0 \in SiteSlugs
BY LocationAssumption, FS_CardinalityType DEF SiteSlugs

LEMMA FreeSiteSlugIsThere ==
  (CHOOSE n \in 0..Cardinality(Sites) : n \notin Slugs /\ 0..n-1 \subseteq Slugs) \in SiteSlugs
<1>1. IsFiniteSet(ExistingSites) /\ Cardinality(ExistingSites) <= Cardinality(Sites)
  BY LocationAssumption, FS_Subset DEF ExistingSites
<1>2. IsFiniteSet(Slugs) /\ Cardinality(Slugs) <= Cardinality(ExistingSites)
  <2> DEFINE f == [l \in ExistingSites |-> site[l].slug]
  <2>1. Slugs = {f[l] : l \in ExistingSites}
    BY DEF Slugs
  <2> HIDE DEF f
  <2> QED BY ONLY <1>1, <2>1, ImageCounts
<1>3. Cardinality(Slugs) \in Nat /\ Cardinality(Sites) \in Nat /\ Cardinality(ExistingSites) \in Nat
  BY <1>1, <1>2, LocationAssumption, FS_CardinalityType
<1> DEFINE b == Cardinality(Sites)
<1>4. b \in Nat /\ Cardinality(Slugs) < b - 0 + 1
  BY <1>1, <1>2, <1>3
<1>5. \E n \in 0..b : n \notin Slugs /\ 0..(n - 1) \subseteq Slugs
  <2> HIDE DEF b
  <2>1. 0 \in Nat
    OBVIOUS
  <2> QED BY ONLY <1>2, <1>4, <2>1, FirstFree
<1> QED BY <1>5 DEF SiteSlugs

LEMMA LocationIsTyped == ASSUME LocationInv, SiteSlugsFit PROVE LocationTypeOK
<1>1. PICK S : Shaped(S)
  BY DEF LocationInv
<1> DEFINE N == SiteSlugs
<1> HIDE DEF N
<1>2. \A l \in Sites : site[l] \in SiteShape(N)
  <2> SUFFICES ASSUME NEW l \in Sites PROVE site[l] \in SiteShape(N)
    OBVIOUS
  <2>1. site[l] \in SiteShape(S) /\ site[l].slug \in N
    BY <1>1 DEF Shaped, SiteSlugsFit, N
  <2> QED BY <2>1 DEF SiteShape
<1>3. \A h \in Managers : manager[h] \in ManagerShape(N)
  <2> SUFFICES ASSUME NEW h \in Managers PROVE manager[h] \in ManagerShape(N)
    OBVIOUS
  <2>1. manager[h] \in ManagerShape(S) /\ manager[h].slug \in N
    BY <1>1 DEF Shaped, SiteSlugsFit, N
  <2> QED BY <2>1 DEF ManagerShape
<1>4. SiteDocs = SiteShape(N) /\ ManagerStates = ManagerShape(N)
  BY DEF SiteDocs, ManagerStates, SiteShape, ManagerShape, N, SiteSlugs
<1> HIDE DEF SiteDocs, ManagerStates, SiteShape, ManagerShape
<1>5. site \in [Sites -> SiteDocs] /\ manager \in [Managers -> ManagerStates]
  BY <1>1, <1>2, <1>3, <1>4 DEF Shaped
<1> QED BY <1>5 DEF LocationInv, LocationTypeOK

LEMMA SiteSlugsStart == LocationInit => SiteSlugsFit
BY SitesAreCounted DEF LocationInit, SiteSlugsFit, NoDoc, IdleManager

LEMMA SiteSlugsKeep == LocationInv /\ SiteSlugsFit /\ [LocationNext]_locationVars => SiteSlugsFit'
<1> SUFFICES ASSUME LocationInv, SiteSlugsFit, [LocationNext]_locationVars PROVE SiteSlugsFit'
  OBVIOUS
<1>0. PICK S : Shaped(S)
  BY DEF LocationInv
<1> DEFINE N == SiteSlugs
           sitesFit == \A l \in Sites : site'[l].slug \in N
           managersFit == \A h \in Managers : manager'[h].slug \in N
<1>1. 0 \in N /\ IdleManager.slug \in N
  BY SitesAreCounted DEF IdleManager
<1>2. (\A l \in Sites : site[l].slug \in N) /\ (\A h \in Managers : manager[h].slug \in N)
  BY DEF SiteSlugsFit
<1>3. site \in [Sites -> SiteShape(S)] /\ manager \in [Managers -> ManagerShape(S)]
  BY <1>0 DEF Shaped
<1>4. sitesFit /\ managersFit => SiteSlugsFit'
  BY DEF SiteSlugsFit, SiteSlugs
<1>5. (UNCHANGED site => sitesFit) /\ (UNCHANGED manager => managersFit)
  BY <1>2
<1>6. ASSUME NEW h \in Managers, ManagerEnds(h) PROVE managersFit
  BY <1>1, <1>2, <1>3, <1>6 DEF ManagerEnds
<1>7. ASSUME NEW h \in Managers, NEW step, ManagerGoes(h, step) PROVE managersFit
  BY <1>2, <1>3, <1>7 DEF ManagerGoes, ManagerShape
<1>8. ASSUME NEW h \in Managers, NEW r, r.slug \in N, manager' = [manager EXCEPT ![h] = r] PROVE managersFit
  BY <1>2, <1>3, <1>8
<1>9. ASSUME NEW h \in Managers, NEW p, AddSite(h, p) PROVE SiteSlugsFit'
  <2>1. [IdleManager EXCEPT !.step = "slug", !.primary = p].slug \in N
    BY <1>1 DEF IdleManager
  <2>2. managersFit
    BY <1>8, <1>9, <2>1 DEF AddSite
  <2> QED BY <1>4, <1>5, <1>9, <2>2 DEF AddSite
<1>10. ASSUME NEW h \in Managers, SearchSiteSlug(h) PROVE SiteSlugsFit'
  <2> DEFINE free == CHOOSE n \in 0..Cardinality(Sites) : n \notin Slugs /\ 0..n-1 \subseteq Slugs
  <2>1. free \in N
    BY FreeSiteSlugIsThere
  <2>2. manager' = [manager EXCEPT ![h].slug = free,
                                   ![h].step = IF manager[h].primary THEN "demote" ELSE "insert"]
    BY <1>10 DEF SearchSiteSlug
  <2> HIDE DEF free, N
  <2>3. managersFit
    BY <1>2, <1>3, <2>1, <2>2 DEF ManagerShape
  <2> QED BY <1>4, <1>5, <1>10, <2>3 DEF SearchSiteSlug
<1>11. ASSUME NEW h \in Managers, DemoteOthers(h) PROVE SiteSlugsFit'
  <2>1. sitesFit
    BY <1>2, <1>3, <1>11 DEF DemoteOthers, SiteShape
  <2> QED BY <1>4, <1>7, <1>11, <2>1 DEF DemoteOthers
<1>12. ASSUME NEW h \in Managers, NEW l \in Sites, InsertSite(h, l) PROVE SiteSlugsFit'
  <2>1. sitesFit
    BY <1>2, <1>3, <1>12 DEF InsertSite
  <2> QED BY <1>4, <1>6, <1>12, <2>1 DEF InsertSite
<1>13. ASSUME NEW l \in Sites, NEW p, PatchPrimary(l, p) PROVE SiteSlugsFit'
  <2>1. sitesFit
    BY <1>2, <1>3, <1>13 DEF PatchPrimary, SiteShape
  <2> QED BY <1>4, <1>5, <1>13, <2>1 DEF PatchPrimary
<1>14. ASSUME NEW l \in Sites, NEW a, PatchActive(l, a) PROVE SiteSlugsFit'
  <2>1. sitesFit
    BY <1>2, <1>3, <1>14 DEF PatchActive, SiteShape
  <2> QED BY <1>4, <1>5, <1>14, <2>1 DEF PatchActive
<1>15. ASSUME NEW h \in Managers, NEW l \in Sites, ReadToClose(h, l) PROVE SiteSlugsFit'
  <2>1. [IdleManager EXCEPT !.site = l, !.step = IF site[l].primary THEN "count" ELSE "close"].slug \in N
    BY <1>1 DEF IdleManager
  <2>2. managersFit
    BY <1>8, <1>15, <2>1 DEF ReadToClose
  <2> QED BY <1>4, <1>5, <1>15, <2>2 DEF ReadToClose
<1>16. ASSUME NEW h \in Managers, CountActive(h) PROVE SiteSlugsFit'
  BY <1>4, <1>5, <1>6, <1>7, <1>16 DEF CountActive
<1>17. ASSUME NEW h \in Managers, CloseSite(h) PROVE SiteSlugsFit'
  <2>1. sitesFit
    BY <1>2, <1>3, <1>17 DEF CloseSite, SiteShape
  <2> QED BY <1>4, <1>6, <1>17, <2>1 DEF CloseSite
<1>18. ASSUME NEW h \in Managers, ManagerFails(h) PROVE SiteSlugsFit'
  BY <1>4, <1>5, <1>6, <1>18 DEF ManagerFails
<1>19. CASE UNCHANGED locationVars
  BY <1>4, <1>5, <1>19 DEF locationVars
<1> HIDE DEF N, sitesFit, managersFit
<1> QED BY <1>9, <1>10, <1>11, <1>12, <1>13, <1>14, <1>15, <1>16, <1>17, <1>18, <1>19 DEF LocationNext

(* Consents: every version has a template of its own.                      *)

UsedForms == {f \in Forms : form[f].status # "none"}

VersionsFit ==
  /\ \A f \in Forms : form[f].version <= Cardinality(UsedForms)
  /\ \A h \in Clerics : cleric[h].copy.version <= Cardinality(UsedForms)

LEMMA FormsAreCounted ==
  ASSUME NEW U, U \subseteq Forms
  PROVE  IsFiniteSet(U) /\ Cardinality(U) \in Nat /\ Cardinality(Forms) \in Nat
         /\ Cardinality(U) <= Cardinality(Forms)
<1>1. IsFiniteSet(U) /\ Cardinality(U) <= Cardinality(Forms)
  BY ConsentAssumption, FS_Subset
<1>2. Cardinality(U) \in Nat
  BY <1>1, FS_CardinalityType
<1>3. Cardinality(Forms) \in Nat
  BY ConsentAssumption, FS_CardinalityType
<1> QED BY <1>1, <1>2, <1>3

LEMMA ConsentIsTyped == ASSUME ConsentInv, VersionsFit PROVE ConsentTypeOK
<1>1. ConsentShape
  BY DEF ConsentInv
<1>2. Cardinality(UsedForms) \in Nat /\ Cardinality(Forms) \in Nat /\ Cardinality(UsedForms) <= Cardinality(Forms)
  BY FormsAreCounted DEF UsedForms
<1>3. ASSUME NEW d \in FormShape, d.version <= Cardinality(UsedForms) PROVE d \in FormDocs
  <2>1. d.version \in 0..Cardinality(Forms)
    <3>1. d.version \in Nat
      BY DEF FormShape
    <3> QED BY <1>2, <1>3, <3>1
  <2> DEFINE N == 0..Cardinality(Forms)
  <2> HIDE DEF N
  <2>2. d.version \in N
    BY <2>1 DEF N
  <2>3. FormDocs = [ status : {"none", "draft", "published", "archived", "deleted"},
                     version : N, content : 0..MaxRevision, revision : 0..MaxRevision,
                     renamed : BOOLEAN ]
    BY DEF FormDocs, N
  <2> QED BY <2>2, <2>3 DEF FormShape
<1>4. \A f \in Forms : form[f] \in FormDocs
  BY <1>1, <1>3 DEF ConsentShape, VersionsFit
<1>5. \A h \in Clerics : cleric[h] \in ClericStates
  <2> SUFFICES ASSUME NEW h \in Clerics PROVE cleric[h] \in ClericStates
    OBVIOUS
  <2>1. cleric[h] \in ClericShape
    BY <1>1 DEF ConsentShape
  <2>2. cleric[h].copy \in FormShape
    BY <2>1 DEF ClericShape
  <2>3. cleric[h].copy \in FormDocs
    BY <1>3, <2>2 DEF VersionsFit
  <2> QED BY <2>1, <2>3 DEF ClericShape, ClericStates
<1> QED BY <1>1, <1>4, <1>5 DEF ConsentShape, ConsentTypeOK

LEMMA VersionsStart == ConsentInit => VersionsFit
<1> SUFFICES ASSUME ConsentInit PROVE VersionsFit
  OBVIOUS
<1>1. Cardinality(UsedForms) \in Nat
  BY FormsAreCounted DEF UsedForms
<1> QED BY <1>1 DEF ConsentInit, VersionsFit, EmptyForm, IdleCleric

\* No template that is used is unused later, and all that is written or read has a
\* version that is there, but for the next version of a new template.
LEMMA VersionsKeep ==
  ASSUME ConsentInv, ConsentInv', VersionsFit, NEW U, U \subseteq Forms, UsedForms \subseteq U, UsedForms' = U,
         \A f \in Forms : form'[f].version <= Cardinality(U) \/ form'[f].version = 0
                          \/ form'[f].version = form[f].version,
         \A h \in Clerics : cleric'[h].copy.version <= Cardinality(UsedForms)
  PROVE  VersionsFit'
<1>1. Cardinality(U) \in Nat /\ Cardinality(UsedForms) \in Nat /\ IsFiniteSet(U)
  BY FormsAreCounted DEF UsedForms
<1>2. Cardinality(UsedForms) <= Cardinality(U)
  BY <1>1, FS_Subset
<1>3. ASSUME NEW f \in Forms PROVE form'[f].version <= Cardinality(U)
  <2>1. form[f].version <= Cardinality(UsedForms) /\ form[f].version \in Nat
    BY DEF VersionsFit, ConsentInv, ConsentShape, FormShape
  <2> QED BY <1>1, <1>2, <2>1
<1>4. ASSUME NEW h \in Clerics PROVE cleric'[h].copy.version <= Cardinality(U)
  <2>1. cleric'[h].copy.version \in Nat
    <3>1. cleric' \in [Clerics -> ClericShape]
      BY DEF ConsentInv, ConsentShape
    <3>2. cleric'[h].copy \in FormShape
      BY <3>1 DEF ClericShape
    <3> QED BY <3>2 DEF FormShape
  <2> QED BY <1>1, <1>2, <2>1
<1> QED BY <1>3, <1>4 DEF VersionsFit

LEMMA VersionsStepKeep == ConsentInv /\ VersionsFit /\ [ConsentNext]_consentVars => VersionsFit'
<1> SUFFICES ASSUME ConsentInv, ConsentInv', VersionsFit, [ConsentNext]_consentVars PROVE VersionsFit'
  BY ConsentSteps
<1> DEFINE n == Cardinality(UsedForms)
           clericsFit == \A h \in Clerics : cleric'[h].copy.version <= n
<1>0. /\ form \in [Forms -> FormShape] /\ cleric \in [Clerics -> ClericShape]
      /\ \A f \in Forms : form[f].version <= n
      /\ \A h \in Clerics : cleric[h].copy.version <= n
  BY DEF ConsentInv, ConsentShape, VersionsFit
<1>1. n \in Nat /\ EmptyForm.version = 0 /\ IdleCleric.copy.version <= n
  <2>1. n \in Nat
    BY FormsAreCounted DEF UsedForms
  <2> QED BY <2>1 DEF EmptyForm, IdleCleric
<1>2. ASSUME UNCHANGED form, clericsFit PROVE VersionsFit'
  <2>1. UsedForms' = UsedForms /\ UsedForms \subseteq Forms
    BY <1>2 DEF UsedForms
  <2> QED BY <1>2, <2>1, VersionsKeep
<1>3. ASSUME NEW f \in Forms, NEW d, form' = [form EXCEPT ![f] = d], d.status # "none", clericsFit,
             d.version = 0 \/ d.version = form[f].version
               \/ (form[f].status = "none" /\ d.version <= n + 1)
      PROVE  VersionsFit'
  <2> DEFINE U == UsedForms \cup {f}
  <2>1. UsedForms' = U /\ U \subseteq Forms /\ UsedForms \subseteq U
    BY <1>0, <1>3 DEF UsedForms
  <2>2. form[f].status = "none" => Cardinality(U) = n + 1
    <3>1. IsFiniteSet(UsedForms)
      BY FormsAreCounted DEF UsedForms
    <3>2. form[f].status = "none" => f \notin UsedForms
      BY DEF UsedForms
    <3> QED BY <3>1, <3>2, FS_AddElement
  <2>3. \A g \in Forms : form'[g].version <= Cardinality(U) \/ form'[g].version = 0
                         \/ form'[g].version = form[g].version
    BY <1>0, <1>3, <2>2
  <2> HIDE DEF U
  <2> QED BY <1>3, <2>1, <2>3, VersionsKeep
<1> HIDE DEF n
<1>4. UNCHANGED cleric => clericsFit
  BY <1>0
<1>5. ASSUME NEW h \in Clerics, NEW r, r.copy.version <= n, cleric' = [cleric EXCEPT ![h] = r] PROVE clericsFit
  BY <1>0, <1>5
<1>6. ASSUME NEW h \in Clerics, ClericEnds(h) PROVE clericsFit
  BY <1>1, <1>5, <1>6 DEF ClericEnds
<1>7. ASSUME NEW h \in Clerics, NEW f \in Forms, NEW statuses, NEW step, Loads(h, f, statuses, step)
      PROVE  VersionsFit'
  <2> DEFINE r == [IdleCleric EXCEPT !.step = step, !.form = f, !.copy = form[f]]
  <2>1. r.copy.version <= n
    BY <1>0 DEF IdleCleric
  <2>2. cleric' = [cleric EXCEPT ![h] = r] /\ UNCHANGED form
    BY <1>7 DEF Loads
  <2> HIDE DEF r, clericsFit
  <2> QED BY <1>2, <1>5, <2>1, <2>2
<1>8. ASSUME NEW f \in Forms, CreateTemplate(f) PROVE VersionsFit'
  <2> DEFINE d == [EmptyForm EXCEPT !.status = "draft", !.version = 1]
  <2>1. d.status # "none" /\ d.version <= n + 1
    BY <1>1 DEF EmptyForm
  <2>2. form' = [form EXCEPT ![f] = d] /\ form[f].status = "none" /\ UNCHANGED cleric
    BY <1>8 DEF CreateTemplate
  <2> HIDE DEF d, clericsFit
  <2> QED BY <1>3, <1>4, <2>1, <2>2
<1>9. ASSUME NEW h \in Clerics PROVE cleric[h].step \in {"edit", "rename", "publish", "copy", "archive", "count", "delete"} =>
                                        cleric[h].form \in Forms /\ form[cleric[h].form].status # "none"
  BY DEF ConsentInv, Reads
<1>10. ASSUME NEW h \in Clerics, ClericEnds(h), cleric[h].form \in Forms,
              form[cleric[h].form].status # "none", NEW d, d.status # "none",
              d.version = 0 \/ d.version = form[cleric[h].form].version,
              form' = [form EXCEPT ![cleric[h].form] = d]
       PROVE  VersionsFit'
  BY <1>3, <1>6, <1>10
<1>11. ASSUME NEW h \in Clerics, ClericEnds(h), UNCHANGED form PROVE VersionsFit'
  BY <1>2, <1>6, <1>11
<1>12. ASSUME NEW h \in Clerics, SaveEdit(h) PROVE VersionsFit'
  <2> DEFINE f == cleric[h].form
             d == [form[f] EXCEPT !.content = form[f].revision + 1, !.revision = @ + 1]
  <2>1. f \in Forms /\ form[f].status # "none"
    BY <1>9, <1>12 DEF SaveEdit
  <2>2. d.status = form[f].status /\ d.version = form[f].version
    BY <1>0, <2>1 DEF FormShape
  <2>3. ClericEnds(h) /\ (UNCHANGED form \/ form' = [form EXCEPT ![f] = d])
    BY <1>0, <1>12, <2>1 DEF SaveEdit
  <2> HIDE DEF d
  <2> QED BY <1>10, <1>11, <2>1, <2>2, <2>3
<1>13. ASSUME NEW h \in Clerics, SavePublished(h) PROVE VersionsFit'
  <2> DEFINE f == cleric[h].form
             d == [form[f] EXCEPT !.status = "published", !.revision = @ + 1]
  <2>1. f \in Forms /\ form[f].status # "none"
    BY <1>9, <1>13 DEF SavePublished
  <2>2. d.status # "none" /\ d.version = form[f].version
    BY <1>0, <2>1 DEF FormShape
  <2>3. ClericEnds(h) /\ (UNCHANGED form \/ form' = [form EXCEPT ![f] = d])
    BY <1>0, <1>13, <2>1 DEF SavePublished
  <2> HIDE DEF d
  <2> QED BY <1>10, <1>11, <2>1, <2>2, <2>3
<1>14. ASSUME NEW h \in Clerics, NEW g \in Forms, CreateNewVersion(h, g) PROVE VersionsFit'
  <2> DEFINE d == [status |-> "draft", version |-> cleric[h].copy.version + 1,
                   content |-> cleric[h].copy.content, revision |-> 0, renamed |-> FALSE]
  <2>1. cleric[h].copy.version \in Nat
    BY <1>0 DEF ClericShape, FormShape
  <2>2. d.status # "none" /\ d.version <= n + 1
    BY <1>0, <1>1, <2>1
  <2>3. form' = [form EXCEPT ![g] = d] /\ form[g].status = "none" /\ ClericEnds(h)
    BY <1>14 DEF CreateNewVersion, NextVersion
  <2> HIDE DEF d, clericsFit
  <2> QED BY <1>3, <1>6, <2>2, <2>3
<1>15. ASSUME NEW h \in Clerics, SaveArchived(h) PROVE VersionsFit'
  <2> DEFINE f == cleric[h].form
             d == [form[f] EXCEPT !.status =
                     IF @ = "deleted" \/ cleric[h].copy.status = "archived" THEN @ ELSE "archived"]
  <2>1. f \in Forms /\ form[f].status # "none"
    BY <1>9, <1>15 DEF SaveArchived
  <2>2. d.status # "none" /\ d.version = form[f].version
    BY <1>0, <2>1 DEF FormShape
  <2>3. ClericEnds(h) /\ form' = [form EXCEPT ![f] = d]
    BY <1>0, <1>15, <2>1 DEF SaveArchived
  <2> HIDE DEF d
  <2> QED BY <1>10, <2>1, <2>2, <2>3
<1>16. ASSUME NEW h \in Clerics, CountRecords(h) PROVE VersionsFit'
  <2>1. CASE ClericEnds(h)
    BY <1>11, <1>16, <2>1 DEF CountRecords
  <2>2. CASE cleric' = [cleric EXCEPT ![h].step = "delete", ![h].copy = EmptyForm]
    <3>1. clericsFit
      BY <1>0, <1>1, <2>2 DEF ClericShape
    <3> HIDE DEF clericsFit
    <3> QED BY <1>2, <1>16, <3>1 DEF CountRecords
  <2> QED BY <1>16, <2>1, <2>2 DEF CountRecords
<1>17. ASSUME NEW h \in Clerics, DeleteOne(h) PROVE VersionsFit'
  <2> DEFINE f == cleric[h].form
             d == [EmptyForm EXCEPT !.status = "deleted"]
  <2>1. f \in Forms /\ form[f].status # "none"
    BY <1>9, <1>17 DEF DeleteOne
  <2>2. d.status # "none" /\ d.version = 0
    BY DEF EmptyForm
  <2>3. ClericEnds(h) /\ form' = [form EXCEPT ![f] = d]
    BY <1>17 DEF DeleteOne
  <2> HIDE DEF d
  <2> QED BY <1>10, <2>1, <2>2, <2>3
<1>18. ASSUME NEW h \in Clerics, NEW r \in Records, SaveRecord(h, r) PROVE VersionsFit'
  <2> DEFINE c == [IdleCleric EXCEPT !.step = "upload", !.record = r]
  <2>1. c.copy.version <= n
    BY <1>1 DEF IdleCleric
  <2>2. cleric' = [cleric EXCEPT ![h] = c] /\ UNCHANGED form
    BY <1>18 DEF SaveRecord
  <2> HIDE DEF c, clericsFit
  <2> QED BY <1>2, <1>5, <2>1, <2>2
<1>19. ASSUME NEW h \in Clerics, NEW r \in Records, Revoke(h, r) PROVE VersionsFit'
  <2> DEFINE c == [IdleCleric EXCEPT !.step = "revoke", !.record = r]
  <2>1. c.copy.version <= n
    BY <1>1 DEF IdleCleric
  <2>2. cleric' = [cleric EXCEPT ![h] = c] /\ UNCHANGED form
    BY <1>19 DEF Revoke
  <2> HIDE DEF c, clericsFit
  <2> QED BY <1>2, <1>5, <2>1, <2>2
<1>20. ASSUME NEW h \in Clerics, SetGcsPath(h) \/ SaveRevoked(h) \/ ClericFails(h) PROVE VersionsFit'
  BY <1>11, <1>20 DEF SetGcsPath, SaveRevoked, ClericFails
<1>21. CASE UNCHANGED consentVars
  BY <1>2, <1>4, <1>21 DEF consentVars
<1>22. ASSUME NEW h \in Clerics, NEW f \in Forms,
              \/ Edit(h, f) \/ Rename(h, f) \/ Publish(h, f) \/ NewVersion(h, f) \/ Archive(h, f)
              \/ Delete(h, f) \/ Sign(h, f)
       PROVE  VersionsFit'
  BY <1>7, <1>22 DEF Edit, Rename, Publish, NewVersion, Archive, Delete, Sign
<1>23. ASSUME NEW h \in Clerics, SaveRenamed(h) PROVE VersionsFit'
  <2> DEFINE f == cleric[h].form
             name == form[f].renamed \/ form[f].status \in {"published", "archived"}
             d == [form[f] EXCEPT !.renamed = name]
  <2>1. f \in Forms /\ form[f].status # "none"
    BY <1>9, <1>23 DEF SaveRenamed
  <2>3. ClericEnds(h) /\ form' = [form EXCEPT ![f] = d]
    BY <1>0, <1>23, <2>1, Zenon DEF SaveRenamed, FormShape
  <2> HIDE DEF name
  <2>2. d.status # "none" /\ d.version = form[f].version
    BY <1>0, <2>1 DEF FormShape
  <2> HIDE DEF d
  <2> QED BY <1>10, <2>1, <2>2, <2>3
<1> HIDE DEF clericsFit
<1> QED BY <1>8, <1>12, <1>13, <1>14, <1>15, <1>16, <1>17, <1>18, <1>19, <1>20, <1>21, <1>22, <1>23
        DEF ConsentNext

(* Sign-ins: every one has a token of its own.                             *)

Spent == {t \in Tokens : token[t] # "none"}

SignInsFit == admin \in BOOLEAN /\ signIns <= Cardinality(Spent)

LEMMA TokenIsTyped == ASSUME TokenInv, SignInsFit PROVE TokenTypeOK
<1>1. Spent \subseteq Tokens
  BY DEF Spent
<1>2. Cardinality(Spent) <= Cardinality(Tokens) /\ IsFiniteSet(Spent)
  BY <1>1, TokenAssumption, FS_Subset
<1>3. Cardinality(Spent) \in Nat /\ Cardinality(Tokens) \in Nat
  BY <1>2, TokenAssumption, FS_CardinalityType
<1>4. signIns \in 0..Cardinality(Tokens)
  BY <1>2, <1>3 DEF TokenInv, SignInsFit
<1> QED BY <1>4 DEF TokenInv, SignInsFit, TokenTypeOK

LEMMA SignInsStart == TokenInit => SignInsFit
<1> SUFFICES ASSUME TokenInit PROVE SignInsFit
  OBVIOUS
<1>1. IsFiniteSet(Spent)
  BY TokenAssumption, FS_Subset DEF Spent
<1>2. Cardinality(Spent) \in Nat
  BY <1>1, FS_CardinalityType
<1> QED BY <1>2 DEF TokenInit, SignInsFit

LEMMA SignInsKeep == TokenInv /\ SignInsFit /\ [TokenNext]_tokenVars => SignInsFit'
<1> SUFFICES ASSUME TokenInv, SignInsFit, [TokenNext]_tokenVars PROVE SignInsFit'
  OBVIOUS
<1>0. token \in [Tokens -> {"none", "live", "revoked", "expired"}] /\ signIns \in Nat
      /\ admin \in BOOLEAN /\ signIns <= Cardinality(Spent)
  BY DEF TokenInv, SignInsFit
<1>1. Spent \subseteq Tokens /\ IsFiniteSet(Spent) /\ Cardinality(Spent) \in Nat
  <2>1. Spent \subseteq Tokens
    BY DEF Spent
  <2>2. IsFiniteSet(Spent)
    BY <2>1, TokenAssumption, FS_Subset
  <2> QED BY <2>1, <2>2, FS_CardinalityType
<1>2. ASSUME Spent \subseteq Spent', signIns' = signIns, admin' \in BOOLEAN PROVE SignInsFit'
  <2>1. Spent' \subseteq Tokens
    BY DEF Spent
  <2>2. IsFiniteSet(Spent')
    BY <2>1, TokenAssumption, FS_Subset
  <2>3. Cardinality(Spent) <= Cardinality(Spent') /\ Cardinality(Spent') \in Nat
    BY <1>2, <2>2, FS_Subset, FS_CardinalityType
  <2> QED BY <1>0, <1>1, <1>2, <2>3 DEF SignInsFit
<1>3. ASSUME NEW h \in Devices, NEW t \in Tokens, SendToken(h, t) PROVE SignInsFit'
  <2>1. Spent' = Spent \cup {t} /\ t \notin Spent
    BY <1>0, <1>3 DEF SendToken, Spent
  <2>2. Cardinality(Spent') = Cardinality(Spent) + 1
    BY <1>1, <2>1, FS_AddElement
  <2> QED BY <1>0, <1>1, <1>3, <2>2 DEF SendToken, SignInsFit
<1>4. CASE RemoveAdmin
  BY <1>0, <1>2, <1>4 DEF RemoveAdmin, Spent
<1>5. ASSUME NEW t \in Tokens, TokenExpires(t) PROVE SignInsFit'
  BY <1>0, <1>2, <1>5 DEF TokenExpires, Spent
<1>6. ASSUME NEW h \in Devices, SignedIn(h) \/ RevokeAll(h) \/ DeviceFails(h) PROVE SignInsFit'
  BY <1>0, <1>2, <1>6 DEF SignedIn, RevokeAll, DeviceFails, Spent
<1>7. ASSUME NEW h \in Devices, RetireToken(h) PROVE SignInsFit'
  BY <1>0, <1>2, <1>7 DEF RetireToken, Spent
<1>8. ASSUME NEW h \in Devices, NEW t \in Tokens, Refresh(h, t) \/ CreateSuccessor(h, t) \/ Logout(h, t)
      PROVE  SignInsFit'
  BY <1>0, <1>2, <1>8 DEF Refresh, CreateSuccessor, Logout, Spent
<1>9. CASE UNCHANGED tokenVars
  BY <1>0, <1>2, <1>9 DEF tokenVars, Spent
<1> QED BY <1>3, <1>4, <1>5, <1>6, <1>7, <1>8, <1>9 DEF TokenNext

(* The parts together.                                                     *)

AccessTyped ==
  /\ SignUpInv /\ SalonSlugsFit
  /\ SessionInv
  /\ TokenInv /\ SignInsFit
  /\ TenancyInv
  /\ StaffInv
  /\ LocationInv /\ SiteSlugsFit
  /\ ConsentInv /\ VersionsFit

\* A step is one of one part; the others stand still.
LEMMA AccessSteps ==
  [Next]_<<focus, signUpVars, sessionVars, tokenVars, tenancyVars, staffVars, locationVars, consentVars>> =>
    /\ [SignUpNext]_signUpVars
    /\ [SessionNext]_sessionVars
    /\ [TokenNext]_tokenVars
    /\ [TenancyNext]_tenancyVars
    /\ [StaffNext]_staffVars
    /\ [LocationNext]_locationVars
    /\ [ConsentNext]_consentVars
BY DEF Next

\* Every field of every document, copy and request of the salon's people, places and
\* papers holds one of the values its type admits; slugs and versions are no larger
\* than the number of documents that can have one, so that the search for a free slug
\* ends (models/Tenant.js, models/Location.js).  For any number of requests and
\* documents.
THEOREM AccessTypes == Spec => []TypeOK
<1>1. Init => AccessTyped
  BY SignUpStarts, SlugsStart, SessionStarts, TokenStarts, SignInsStart, TenancyStarts, StaffStarts,
     LocationStarts, SiteSlugsStart, ConsentStarts, VersionsStart
     DEF Init, AccessTyped
<1>2. AccessTyped /\ [Next]_<<focus, signUpVars, sessionVars, tokenVars, tenancyVars, staffVars,
                              locationVars, consentVars>> => AccessTyped'
  BY AccessSteps, SignUpStepKeeps, SalonSlugsKeep, SessionSteps, TokenSteps, SignInsKeep, TenancyStepKeeps,
     StaffSteps, LocationSteps, SiteSlugsKeep, ConsentSteps, VersionsStepKeep
     DEF AccessTyped
<1>3. AccessTyped => TypeOK
  BY SignUpIsTyped, TokenIsTyped, LocationIsTyped, ConsentIsTyped
     DEF AccessTyped, TypeOK, SessionInv, SessionTypeOK, TenancyInv, StaffInv
<1> QED BY <1>1, <1>2, <1>3, PTL DEF Spec
=============================================================================
