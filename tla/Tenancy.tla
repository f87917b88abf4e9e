------------------------------ MODULE Tenancy -------------------------------
(***************************************************************************)
(* Which salon a request belongs to: middleware/resolveTenant.js with its  *)
(* cache, attachTenantToModels of multiTenantPlugin.js, optionalAuth.js    *)
(* and requireAdmin.js, and what changes a salon: routes/tenants.js and    *)
(* the webhook that sets the flags for SMS.                                *)
(*                                                                         *)
(* A request names a tenant by a slug (header, host or path) and, by its   *)
(* token, an admin's tenant.  The cache has an entry for every query, that *)
(* is for a tenant by slug and by id; both ask for active tenants only.    *)
(***************************************************************************)
EXTENDS Integers, FiniteSets

CONSTANTS
  Visitors,  \* requests the server works on
  Tenants,
  NoTenant

ASSUME TenancyAssumption == NoTenant \notin Tenants

VARIABLES
  tenant,   \* the documents
  cache,    \* query -> entry
  visitor   \* request -> where it waits and what it knows

tenancyVars == <<tenant, cache, visitor>>

\* The tenant's features, which an admin or the webhook changes, are one value.
TenantDocs == [alive : BOOLEAN, active : BOOLEAN, features : BOOLEAN]

Keys == Tenants \X {"slug", "id"}

MaybeTenant == Tenants \cup {NoTenant}

VisitorSteps == {"idle", "slug", "slugRead", "id", "idRead", "auth", "running",
                 "merge", "clear"}

\* context is what the tenant plugin filters by, tenantId what the request has.
VisitorStates ==
  [ step : VisitorSteps, slug : MaybeTenant, token : MaybeTenant,
    tenantId : MaybeTenant, context : MaybeTenant,
    target : MaybeTenant, copy : TenantDocs ]

\* late: the entry was filled by a read that a write has overtaken, or the
\* webhook has written since.
CacheEntries == [full : BOOLEAN, doc : TenantDocs, late : BOOLEAN]

TenancyTypeOK ==
  /\ tenant \in [Tenants -> TenantDocs]
  /\ cache \in [Keys -> CacheEntries]
  /\ visitor \in [Visitors -> VisitorStates]

NewTenant == [alive |-> TRUE, active |-> TRUE, features |-> FALSE]

NoEntry == [full |-> FALSE, doc |-> NewTenant, late |-> FALSE]

\* What a late entry holds is left out.
LateEntry == [full |-> TRUE, doc |-> NewTenant, late |-> TRUE]

IdleVisitor == [step |-> "idle", slug |-> NoTenant, token |-> NoTenant, tenantId |-> NoTenant,
                context |-> NoTenant, target |-> NoTenant, copy |-> NewTenant]

TenancyInit ==
  /\ tenant = [t \in Tenants |-> NewTenant]
  /\ cache = [k \in Keys |-> NoEntry]
  /\ visitor = [h \in Visitors |-> IdleVisitor]

-----------------------------------------------------------------------------
(* resolveTenant and getTenant                                             *)

Found(t) == tenant[t].alive /\ tenant[t].active

\* Where a request goes that the slug, or the token, has not resolved.
AfterSlug(token) == IF token = NoTenant THEN "auth" ELSE "id"

\* A request arrives: it is one for a salon's pages or one of an admin.
Arrives(h, slug, token) ==
  /\ visitor[h].step = "idle"
  /\ <<slug, token>> # <<NoTenant, NoTenant>>
  /\ visitor' = [visitor EXCEPT ![h] =
       [IdleVisitor EXCEPT !.slug = slug, !.token = token,
                           !.step = IF slug = NoTenant THEN "id" ELSE "slug"]]
  /\ UNCHANGED <<tenant, cache>>

\* req.tenantId is set, and attachTenantToModels enters the context.
Resolved(h, t) ==
  visitor' = [visitor EXCEPT ![h] = [IdleVisitor EXCEPT !.step = "auth", !.tenantId = t,
                                       !.context = t, !.token = visitor[h].token]]

Key(h) == IF visitor[h].step \in {"slug", "slugRead"} THEN <<visitor[h].slug, "slug">>
                                                      ELSE <<visitor[h].token, "id">>

CacheHit(h) ==
  /\ visitor[h].step \in {"slug", "id"}
  /\ cache[Key(h)].full
  /\ Resolved(h, Key(h)[1])
  /\ UNCHANGED <<tenant, cache>>

\* findOne; what is not found is not stored.
ReadTenant(h) ==
  LET t == Key(h)[1]
      r == visitor[h]
  IN
  /\ r.step \in {"slug", "id"}
  /\ ~cache[Key(h)].full
  /\ visitor' = [visitor EXCEPT ![h] =
       IF Found(t)
         THEN [r EXCEPT !.step = IF r.step = "slug" THEN "slugRead" ELSE "idRead",
                        !.copy = tenant[t]]
         ELSE [r EXCEPT !.step = IF r.step = "slug" THEN AfterSlug(r.token) ELSE "auth",
                        !.slug = NoTenant]]
  /\ UNCHANGED <<tenant, cache>>

FillCache(h) ==
  LET k == Key(h) IN
  /\ visitor[h].step \in {"slugRead", "idRead"}
  /\ cache' = [cache EXCEPT ![k] = IF visitor[h].copy # tenant[k[1]] THEN LateEntry
                                     ELSE [NoEntry EXCEPT !.full = TRUE, !.doc = visitor[h].copy]]
  /\ Resolved(h, k[1])
  /\ UNCHANGED tenant

\* After five minutes, or when there are too many entries.
CacheExpires(k) ==
  /\ cache[k].full
  /\ cache' = [cache EXCEPT ![k] = NoEntry]
  /\ UNCHANGED <<tenant, visitor>>

\* Mutant: the token's tenant replaces the one that was resolved.
TokenWins(r) == IF r.token = NoTenant THEN r.tenantId ELSE r.token

\* optionalAuth and requireAdmin: the admin's tenant, if none was resolved,
\* whether it is active or not.  The context stays as it is, but for the
\* routes that call attachTenantToModels again.
TenantFromAdmin(r) == IF r.tenantId = NoTenant THEN r.token ELSE r.tenantId

Authenticate(h) ==
  /\ visitor[h].step = "auth"
  /\ \E context \in {visitor[h].context, TenantFromAdmin(visitor[h])} :
       visitor' = [visitor EXCEPT ![h].step = "running", ![h].context = context,
                                  ![h].tenantId = TenantFromAdmin(visitor[h])]
  /\ UNCHANGED <<tenant, cache>>

VisitorEnds(h) == visitor' = [visitor EXCEPT ![h] = IdleVisitor]

Answer(h) ==
  /\ visitor[h].step = "running"
  /\ VisitorEnds(h)
  /\ UNCHANGED <<tenant, cache>>

-----------------------------------------------------------------------------
(* tenants.js.  A super admin may change any tenant, an admin the own one. *)

Works(h, t, step) ==
  /\ visitor[h].step = "running"
  /\ visitor[h].token # NoTenant
  /\ visitor' = [visitor EXCEPT ![h] =
       [IdleVisitor EXCEPT !.step = step, !.target = t]]

\* Mutant: the entry by id is forgotten.
ClearBySlug(t) == [cache EXCEPT ![<<t, "slug">>] = NoEntry]

\* clearTenantCache
Cleared(t) == [k \in Keys |-> IF k[1] = t THEN NoEntry ELSE cache[k]]

\* PUT /:id reads the features to merge them with those of the request.
PutFeatures(h, t) ==
  /\ tenant[t].alive
  /\ Works(h, t, "merge")
  /\ UNCHANGED <<tenant, cache>>

\* What was read is written with what the request changes.
SaveFeatures(h) ==
  LET t == visitor[h].target IN
  /\ visitor[h].step = "merge"
  /\ IF tenant[t].alive
       THEN /\ \E features \in BOOLEAN : tenant' = [tenant EXCEPT ![t].features = features]
            /\ visitor' = [visitor EXCEPT ![h].step = "clear"]
       ELSE VisitorEnds(h) /\ UNCHANGED tenant
  /\ UNCHANGED cache

\* POST /:id/suspend, POST /:id/activate
SetActive(h, t, active) ==
  /\ tenant[t].alive
  /\ Works(h, t, "clear")
  /\ tenant' = [tenant EXCEPT ![t].active = active]
  /\ UNCHANGED cache

\* DELETE /:id: all of it in one transaction, or nothing.
DeleteTenant(h, t) ==
  /\ tenant[t].alive
  /\ \/ tenant' = [tenant EXCEPT ![t] = [NewTenant EXCEPT !.alive = FALSE]] /\ Works(h, t, "clear")
     \/ UNCHANGED tenant /\ visitor[h].step = "running" /\ VisitorEnds(h)
  /\ UNCHANGED cache

ClearCache(h) ==
  /\ visitor[h].step = "clear"
  /\ cache' = Cleared(visitor[h].target)
  /\ VisitorEnds(h)
  /\ UNCHANGED tenant

\* webhooks.js sets or resets the flags for SMS and leaves the cache.
WebhookFlags(t, features) ==
  /\ tenant[t].alive /\ tenant[t].features # features
  /\ tenant' = [tenant EXCEPT ![t].features = features]
  /\ cache' = [k \in Keys |-> IF k[1] = t /\ cache[k].full THEN LateEntry
                                                          ELSE cache[k]]
  /\ UNCHANGED visitor

TenancyNext ==
  \/ \E k \in Keys : CacheExpires(k)
  \/ \E t \in Tenants, features \in BOOLEAN : WebhookFlags(t, features)
  \/ \E h \in Visitors :
       \/ \E slug \in MaybeTenant, token \in MaybeTenant : Arrives(h, slug, token)
       \/ CacheHit(h) \/ ReadTenant(h) \/ FillCache(h) \/ Authenticate(h) \/ Answer(h)
       \/ \E t \in Tenants :
            \/ PutFeatures(h, t) \/ DeleteTenant(h, t)
            \/ \E active \in BOOLEAN : SetActive(h, t, active)
       \/ SaveFeatures(h) \/ ClearCache(h)

TenancySpec == TenancyInit /\ [][TenancyNext]_tenancyVars

-----------------------------------------------------------------------------
(* Properties                                                              *)

\* What the cache holds of a tenant is its document: an entry differs only
\* while the request that wrote is about to clear it, if its own read was
\* overtaken by a write, or if the webhook, which clears nothing, has written
\* since the entry was filled.
CacheIsCurrent ==
  \A k \in Keys :
    (cache[k].full /\ ~cache[k].late /\ cache[k].doc # tenant[k[1]])
      => \E h \in Visitors : visitor[h].step = "clear" /\ visitor[h].target = k[1]

\* The models are never filtered by another tenant than the request's: the
\* context is its tenant, or there is none.
ContextIsTheRequests ==
  \A h \in Visitors :
    visitor[h].step = "running" => visitor[h].context \in {NoTenant, visitor[h].tenantId}

\* Both: a request works on the tenant it names, as the database has it.
TenantIsRight == CacheIsCurrent /\ ContextIsTheRequests
=============================================================================
