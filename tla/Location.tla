------------------------------ MODULE Location ------------------------------
(***************************************************************************)
(* The locations of one salon: models/Location.js and routes/locations.js. *)
(* The hooks of save() look for a free slug and take the primary flag from *)
(* the other locations before the document itself is written; an update by *)
(* PATCH runs no hook.  All locations of the model have the same name, the *)
(* case in which slugs clash.                                              *)
(***************************************************************************)
EXTENDS Naturals, FiniteSets

CONSTANTS Managers, Sites, NoSite

ASSUME LocationAssumption == NoSite \notin Sites /\ IsFiniteSet(Sites)

VARIABLES
  site,     \* location -> its document
  manager,  \* request -> where it waits
  forced,   \* history: PATCH made a second primary, or two creations overlapped
  dropped   \* history: a creation took the flag and failed, or PATCH took it

locationVars == <<site, manager, forced, dropped>>

SiteDocs == [there : BOOLEAN, active : BOOLEAN, primary : BOOLEAN, slug : 0..Cardinality(Sites)]

ManagerSteps == {"idle", "slug", "demote", "insert", "count", "close"}

ManagerStates == [step : ManagerSteps, site : Sites \cup {NoSite}, primary : BOOLEAN,
                  slug : 0..Cardinality(Sites)]

LocationTypeOK ==
  /\ site \in [Sites -> SiteDocs]
  /\ manager \in [Managers -> ManagerStates]
  /\ forced \in BOOLEAN /\ dropped \in BOOLEAN

NoDoc == [there |-> FALSE, active |-> FALSE, primary |-> FALSE, slug |-> 0]

IdleManager == [step |-> "idle", site |-> NoSite, primary |-> FALSE, slug |-> 0]

LocationInit ==
  /\ \E first \in Sites :
       site = [l \in Sites |-> IF l = first
                 THEN [NoDoc EXCEPT !.there = TRUE, !.active = TRUE, !.primary = TRUE] ELSE NoDoc]
  /\ manager = [h \in Managers |-> IdleManager]
  /\ forced = FALSE /\ dropped = FALSE

ExistingSites == {l \in Sites : site[l].there}

Primary == {l \in ExistingSites : site[l].primary}

Slugs == {site[l].slug : l \in ExistingSites}

\* Creations that have taken the flag from the others and not yet been written.
Taking == {h \in Managers : manager[h].step = "insert" /\ manager[h].primary}

ManagerEnds(h) == manager' = [manager EXCEPT ![h] = IdleManager]

ManagerGoes(h, step) == manager' = [manager EXCEPT ![h].step = step]

-----------------------------------------------------------------------------
(* POST /locations                                                         *)

AddSite(h, primary) ==
  /\ manager[h].step = "idle"
  /\ Cardinality(ExistingSites) < Cardinality(Sites)
  /\ manager' = [manager EXCEPT ![h] = [IdleManager EXCEPT !.step = "slug", !.primary = primary]]
  /\ UNCHANGED <<site, forced, dropped>>

\* The first free one of name, name-1, name-2 ...
SearchSiteSlug(h) ==
  LET free == CHOOSE n \in 0..Cardinality(Sites) : n \notin Slugs /\ 0..n-1 \subseteq Slugs IN
  /\ manager[h].step = "slug"
  /\ manager' = [manager EXCEPT ![h].slug = free,
                            ![h].step = IF manager[h].primary THEN "demote" ELSE "insert"]
  /\ UNCHANGED <<site, forced, dropped>>

\* Mutant: the others keep the flag.
KeepOthers(h) ==
  /\ manager[h].step = "demote"
  /\ forced' = (forced \/ Taking # {})
  /\ ManagerGoes(h, "insert")
  /\ UNCHANGED <<site, dropped>>

DemoteOthers(h) ==
  /\ manager[h].step = "demote"
  /\ site' = [l \in Sites |-> [site[l] EXCEPT !.primary = FALSE]]
  /\ forced' = (forced \/ Taking # {})
  /\ ManagerGoes(h, "insert")
  /\ UNCHANGED dropped

\* tenantId and slug together are unique.
InsertSite(h, l) ==
  /\ manager[h].step = "insert"
  /\ ~site[l].there
  /\ IF manager[h].slug \in Slugs
       THEN /\ dropped' = (dropped \/ manager[h].primary)
            /\ UNCHANGED site
       ELSE /\ site' = [site EXCEPT ![l] = [there |-> TRUE, active |-> TRUE,
                                            primary |-> manager[h].primary, slug |-> manager[h].slug]]
            /\ UNCHANGED dropped
  /\ ManagerEnds(h)
  /\ UNCHANGED forced

-----------------------------------------------------------------------------
(* PATCH and DELETE /locations/:id                                         *)

PatchPrimary(l, primary) ==
  /\ l \in ExistingSites /\ site[l].primary # primary
  /\ site' = [site EXCEPT ![l].primary = primary]
  /\ forced' = (forced \/ (primary /\ (Primary # {} \/ Taking # {})))
  /\ dropped' = (dropped \/ ~primary)
  /\ UNCHANGED manager

PatchActive(l, active) ==
  /\ l \in ExistingSites /\ site[l].active # active
  /\ site' = [site EXCEPT ![l].active = active]
  /\ UNCHANGED <<manager, forced, dropped>>

ReadToClose(h, l) ==
  /\ manager[h].step = "idle"
  /\ l \in ExistingSites
  /\ manager' = [manager EXCEPT ![h] = [IdleManager EXCEPT !.site = l,
                 !.step = IF site[l].primary THEN "count" ELSE "close"]]
  /\ UNCHANGED <<site, forced, dropped>>

\* The primary location goes only when it is the last one.
CountActive(h) ==
  /\ manager[h].step = "count"
  /\ IF Cardinality({l \in ExistingSites : site[l].active}) > 1 THEN ManagerEnds(h)
     ELSE ManagerGoes(h, "close")
  /\ UNCHANGED <<site, forced, dropped>>

CloseSite(h) ==
  /\ manager[h].step = "close"
  /\ site' = [site EXCEPT ![manager[h].site].active = FALSE]
  /\ ManagerEnds(h)
  /\ UNCHANGED <<forced, dropped>>

ManagerFails(h) ==
  /\ manager[h].step # "idle"
  /\ dropped' = (dropped \/ h \in Taking)
  /\ ManagerEnds(h)
  /\ UNCHANGED <<site, forced>>

LocationNext ==
  \/ \E h \in Managers :
       \/ \E primary \in BOOLEAN : AddSite(h, primary)
       \/ SearchSiteSlug(h) \/ DemoteOthers(h)
       \/ \E l \in Sites : InsertSite(h, l) \/ ReadToClose(h, l)
       \/ CountActive(h) \/ CloseSite(h) \/ ManagerFails(h)
  \/ \E l \in Sites : \/ \E primary \in BOOLEAN : PatchPrimary(l, primary)
                      \/ \E active \in BOOLEAN : PatchActive(l, active)

LocationSpec == LocationInit /\ [][LocationNext]_locationVars

-----------------------------------------------------------------------------
(* Properties                                                              *)

\* Two locations are primary only if PATCH or overlapping creations made them so;
\* none is, only while a creation has taken the flag from the others, or after
\* one has failed or PATCH has taken it away.
PrimaryIsExplained ==
  /\ Cardinality(Primary) > 1 => forced
  /\ Primary = {} => dropped \/ Taking # {}

=============================================================================
