----------------------------- MODULE ClientBook -----------------------------
(***************************************************************************)
(* The clients of the platform and of one salon: services/clientService.js *)
(* as routes/checkout.js, routes/client.js and the Google strategy of      *)
(* config/passport.js call it.  A client is global and has one e-mail, a   *)
(* relation joins it to the salon and carries the salon's figures, and     *)
(* appointments name it.                                                   *)
(*                                                                         *)
(* All requests of the model concern one e-mail: a client that is deleted  *)
(* may come back under a new id.  None of the methods uses a transaction.  *)
(***************************************************************************)
EXTENDS Naturals, FiniteSets

CONSTANTS Desks, Clients, NoClient, Visits, Secrets

ASSUME ClientAssumption ==
  NoClient \notin Clients /\ IsFiniteSet(Visits) /\ Secrets \subseteq Nat \ {0}

VARIABLES
  client,     \* global clients
  relation,   \* relations with the salon
  visit,      \* appointments
  desk,       \* request -> where it waits
  crossed,    \* history: clients deleted while a booking had found them
  outdated    \* history: clients one of whose visits changed behind a count

clientVars == <<client, relation, visit, desk, crossed, outdated>>

NoPassword == 0

ClientDocs == [state : {"none", "there", "gone"}, password : Secrets \cup {NoPassword}]

RelationDocs == [there : BOOLEAN, visits : 0..Cardinality(Visits)]

VisitDocs == [state : {"none", "booked", "confirmed", "cancelled"}, client : Clients \cup {NoClient}]

DeskSteps == {"idle", "create", "touch", "find", "relate", "visit", "tally", "figures",
              "password", "register", "token", "google", "anonymise", "erase"}

DeskStates == [step : DeskSteps, client : Clients \cup {NoClient},
               given : Secrets \cup {NoPassword}, count : 0..Cardinality(Visits)]

ClientTypeOK ==
  /\ client \in [Clients -> ClientDocs]
  /\ relation \in [Clients -> RelationDocs]
  /\ visit \in [Visits -> VisitDocs]
  /\ desk \in [Desks -> DeskStates]
  /\ {crossed, outdated} \subseteq SUBSET Clients

IdleDesk == [step |-> "idle", client |-> NoClient, given |-> NoPassword, count |-> 0]

ClientInit ==
  /\ client = [c \in Clients |-> [state |-> "none", password |-> NoPassword]]
  /\ relation = [c \in Clients |-> [there |-> FALSE, visits |-> 0]]
  /\ visit = [v \in Visits |-> [state |-> "none", client |-> NoClient]]
  /\ desk = [h \in Desks |-> IdleDesk]
  /\ crossed = {} /\ outdated = {}

Present == {c \in Clients : client[c].state = "there"}

DeskEnds(h) == desk' = [desk EXCEPT ![h] = IdleDesk]

DeskGoes(h, step) == desk' = [desk EXCEPT ![h].step = step]

\* Client.findOne({ email }): at most one client has it.
LooksUp(h, given, found, absent) ==
  /\ desk[h].step = "idle"
  /\ \/ \E c \in Present :
          desk' = [desk EXCEPT ![h] = [IdleDesk EXCEPT !.step = found, !.client = c, !.given = given]]
     \/ /\ Present = {}
        /\ desk' = [desk EXCEPT ![h] = [IdleDesk EXCEPT !.step = absent, !.given = given]]

\* Client.create: the e-mail is unique.
Creates(h, c, step) ==
  IF Present = {}
    THEN /\ client[c].state = "none"
         /\ client' = [client EXCEPT ![c] = [state |-> "there", password |-> desk[h].given]]
         /\ desk' = [desk EXCEPT ![h].step = step, ![h].client = c]
    ELSE DeskEnds(h) /\ UNCHANGED client

\* save() of a client that has been deleted throws.
Saves(h, step) == IF desk[h].client \in Present THEN DeskGoes(h, step) ELSE DeskEnds(h)

ConfirmedVisit(c) == {v \in Visits : visit[v].client = c /\ visit[v].state = "confirmed"}

UsedBy(c) == {h \in Desks : desk[h].client = c /\ desk[h].step # "idle"}

Booking(c) == {h \in UsedBy(c) : desk[h].step \in {"touch", "find", "relate", "visit"}}

Deleting(c) == {h \in UsedBy(c) : desk[h].step \in {"anonymise", "erase"}}

-----------------------------------------------------------------------------
(* A booking in routes/checkout.js                                         *)

Book(h) ==
  /\ LooksUp(h, NoPassword, "touch", "create")
  /\ crossed' = crossed \cup {c \in Present : Deleting(c) # {}}
  /\ UNCHANGED <<client, relation, visit, outdated>>

CreateClient(h, c) ==
  /\ desk[h].step = "create"
  /\ Creates(h, c, "find")
  /\ UNCHANGED <<relation, visit, crossed, outdated>>

TouchClient(h) ==
  /\ desk[h].step = "touch"
  /\ Saves(h, "find")
  /\ UNCHANGED <<client, relation, visit, crossed, outdated>>

FindTenantClient(h) ==
  /\ desk[h].step = "find"
  /\ DeskGoes(h, IF relation[desk[h].client].there THEN "visit" ELSE "relate")
  /\ UNCHANGED <<client, relation, visit, crossed, outdated>>

\* tenantId and clientId together are unique.
CreateTenantClient(h) ==
  LET c == desk[h].client IN
  /\ desk[h].step = "relate"
  /\ \/ relation[c].there /\ DeskEnds(h) /\ UNCHANGED <<relation, outdated>>
     \/ /\ ~relation[c].there
        /\ relation' = [relation EXCEPT ![c] = [there |-> TRUE, visits |-> 0]]
        /\ outdated' = IF ConfirmedVisit(c) # {} THEN outdated \cup {c} ELSE outdated
        /\ DeskGoes(h, "visit")
  /\ UNCHANGED <<client, visit, crossed>>

CreateVisit(h, v) ==
  /\ desk[h].step = "visit"
  /\ visit[v].state = "none"
  /\ visit' = [visit EXCEPT ![v] = [state |-> "booked", client |-> desk[h].client]]
  /\ DeskEnds(h)
  /\ UNCHANGED <<client, relation, crossed, outdated>>

-----------------------------------------------------------------------------
(* The figures of the salon                                                *)

\* GET /confirm confirms a visit and goes on to the figures ...
ConfirmVisit(h, v) ==
  LET c == visit[v].client IN
  /\ desk[h].step = "idle"
  /\ visit[v].state = "booked" /\ c # NoClient
  /\ visit' = [visit EXCEPT ![v].state = "confirmed"]
  /\ desk' = [desk EXCEPT ![h] = [IdleDesk EXCEPT !.step = "tally", !.client = c]]
  /\ outdated' = IF \E g \in Desks : desk[g].step = "figures" /\ desk[g].client = c
                   THEN outdated \cup {c} ELSE outdated
  /\ UNCHANGED <<client, relation, crossed>>

\* ... and nothing else does: the webhook's confirmation and a cancellation leave
\* them as they are.
ChangeVisit(v, state) ==
  LET c == visit[v].client IN
  /\ visit[v].state \in {"booked", "confirmed"} /\ visit[v].state # state
  /\ visit' = [visit EXCEPT ![v].state = state]
  /\ outdated' = IF c # NoClient /\ "confirmed" \in {state, visit[v].state}
                   THEN outdated \cup {c} ELSE outdated
  /\ UNCHANGED <<client, relation, desk, crossed>>

\* Mutant: visits that are only booked count too.
AllOf(c) == {v \in Visits : visit[v].client = c}

\* updateTenantClientMetrics: the visits that count.
CountedVisits(c) == ConfirmedVisit(c)

Tally(h) ==
  /\ desk[h].step = "tally"
  /\ desk' = [desk EXCEPT ![h].step = "figures", ![h].count = Cardinality(CountedVisits(desk[h].client))]
  /\ UNCHANGED <<client, relation, visit, crossed, outdated>>

SaveFigures(h) ==
  LET c == desk[h].client IN
  /\ desk[h].step = "figures"
  /\ relation' = IF relation[c].there THEN [relation EXCEPT ![c].visits = desk[h].count] ELSE relation
  /\ DeskEnds(h)
  /\ UNCHANGED <<client, visit, crossed, outdated>>

-----------------------------------------------------------------------------
(* Registration, sign-in by Google, deletion                               *)

\* registerClient: a client without a password is one that has only booked.
Register(h, p) ==
  /\ \A c \in Present : client[c].password = NoPassword
  /\ LooksUp(h, p, "register", "password")
  /\ UNCHANGED <<client, relation, visit, crossed, outdated>>

CreateRegistered(h, c) ==
  /\ desk[h].step = "password"
  /\ Creates(h, c, "token")
  /\ UNCHANGED <<relation, visit, crossed, outdated>>

\* save() writes the password of this request, whatever there is by now.
SavePassword(h) ==
  LET c == desk[h].client IN
  /\ desk[h].step = "register"
  /\ client' = IF c \in Present THEN [client EXCEPT ![c].password = desk[h].given] ELSE client
  /\ Saves(h, "token")
  /\ UNCHANGED <<relation, visit, crossed, outdated>>

SaveVerification(h) ==
  /\ desk[h].step = "token"
  /\ DeskEnds(h)
  /\ UNCHANGED <<client, relation, visit, crossed, outdated>>

\* GoogleStrategy: the client with this e-mail is linked, or one is made.
GoogleSignIn(h) ==
  /\ LooksUp(h, NoPassword, "token", "google")
  /\ UNCHANGED <<client, relation, visit, crossed, outdated>>

CreateByGoogle(h, c) ==
  /\ desk[h].step = "google"
  /\ Creates(h, c, "token")
  /\ UNCHANGED <<relation, visit, crossed, outdated>>

\* deleteClientData: relations, appointments, client, one after the other.
DeleteRelations(h, c) ==
  /\ desk[h].step = "idle"
  /\ c \in Present
  /\ relation' = [relation EXCEPT ![c] = [there |-> FALSE, visits |-> 0]]
  /\ desk' = [desk EXCEPT ![h] = [IdleDesk EXCEPT !.step = "anonymise", !.client = c]]
  /\ crossed' = IF Booking(c) # {} THEN crossed \cup {c} ELSE crossed
  /\ UNCHANGED <<client, visit, outdated>>

\* Mutant: appointments that are confirmed keep their client.
AnonymiseOpen(h) ==
  LET c == desk[h].client IN
  /\ desk[h].step = "anonymise"
  /\ visit' = [v \in Visits |-> IF visit[v].client = c /\ visit[v].state # "confirmed"
                                  THEN [visit[v] EXCEPT !.client = NoClient] ELSE visit[v]]
  /\ DeskGoes(h, "erase")
  /\ UNCHANGED <<client, relation, crossed, outdated>>

Anonymise(h) ==
  LET c == desk[h].client IN
  /\ desk[h].step = "anonymise"
  /\ visit' = [v \in Visits |-> IF visit[v].client = c
                                  THEN [visit[v] EXCEPT !.client = NoClient] ELSE visit[v]]
  /\ outdated' = outdated \cup {c}
  /\ DeskGoes(h, "erase")
  /\ UNCHANGED <<client, relation, crossed>>

EraseClient(h) ==
  LET c == desk[h].client IN
  /\ desk[h].step = "erase"
  /\ client' = IF c \in Present THEN [client EXCEPT ![c].state = "gone"] ELSE client
  /\ DeskEnds(h)
  /\ UNCHANGED <<relation, visit, crossed, outdated>>

\* The process dies, or a query fails.
DeskFails(h) ==
  /\ desk[h].step # "idle"
  /\ outdated' = IF desk[h].step \in {"tally", "figures"}
                   THEN outdated \cup {desk[h].client} ELSE outdated
  /\ DeskEnds(h)
  /\ UNCHANGED <<client, relation, visit, crossed>>

ClientNext ==
  \/ \E h \in Desks :
       \/ Book(h) \/ TouchClient(h) \/ FindTenantClient(h) \/ CreateTenantClient(h)
       \/ Tally(h) \/ SaveFigures(h) \/ SavePassword(h) \/ SaveVerification(h)
       \/ GoogleSignIn(h) \/ Anonymise(h) \/ EraseClient(h) \/ DeskFails(h)
       \/ \E p \in Secrets : Register(h, p)
       \/ \E c \in Clients : \/ CreateClient(h, c) \/ CreateRegistered(h, c)
                             \/ CreateByGoogle(h, c) \/ DeleteRelations(h, c)
       \/ \E v \in Visits : CreateVisit(h, v) \/ ConfirmVisit(h, v)
  \/ \E v \in Visits, state \in {"confirmed", "cancelled"} : ChangeVisit(v, state)

ClientSpec == ClientInit /\ [][ClientNext]_clientVars

-----------------------------------------------------------------------------
(* Properties                                                              *)

\* A client that has been deleted is forgotten: no relation and no appointment
\* of it is left, unless a booking ran while it was deleted.
DeletedIsForgotten ==
  \A c \in Clients : client[c].state = "gone" =>
    \/ c \in crossed
    \/ ~relation[c].there /\ \A v \in Visits : visit[v].client # c

\* The salon's figure is the number of confirmed visits once every request about
\* the client has ended.  A figure may be wrong for good if another request
\* confirmed a visit between its count and its write, if a visit was confirmed
\* or cancelled where nothing is counted, if the request that counted failed, or
\* if the client's visits were anonymised or its relation made anew.
FiguresAreCurrent ==
  \A c \in Clients :
    relation[c].there /\ UsedBy(c) = {} /\ c \notin outdated =>
      relation[c].visits = Cardinality(ConfirmedVisit(c))

\* Both: what a salon keeps of a client is current, and gone with the client.
RelationsAreTrue == DeletedIsForgotten /\ FiguresAreCurrent
=============================================================================
