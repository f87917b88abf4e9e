----------------------------- MODULE Catalogue -----------------------------
(***************************************************************************)
(* The list of a salon's services, read page by page: GET /services with a *)
(* page number (routes/services.js) and utils/queryHelpers.js.             *)
(*                                                                         *)
(* A page is a query sorted by name with skip and limit.  Names need not   *)
(* be unique, and nothing else is sorted by: each query puts the services  *)
(* of one name in an order of its own.  The number of                      *)
(* pages comes from a count that is kept for a minute under the filter's   *)
(* key, whatever is written meanwhile; it is looked up before the query    *)
(* for the page runs, and a count that is not there runs next to it.       *)
(***************************************************************************)
EXTENDS Integers, FiniteSets

CONSTANTS
  Readers,    \* visitors that walk through the pages
  Items,      \* the services
  Name,       \* service -> the number its name sorts by
  Limit,      \* services on a page
  NoCount     \* no count

ASSUME LimitAssumption ==
  Limit \in Nat \ {0} /\ IsFiniteSet(Items) /\ Name \in [Items -> Nat]

VARIABLES
  listed,     \* the services the query selects
  count,      \* the count that is cached, and (history) whether it is older than a change
  reader      \* visitor -> its walk

catalogueVars == <<listed, count, reader>>

ReaderSteps == {"idle", "ask", "wait", "done"}

\* total is the answer to the count, `filled` whether it needs no caching (any
\* more), `has` whether the page has come; seen: all the pages so far.
\* history: disturbed, by a change or by a count older than one; old: the count
\* the reader is about to cache is older than a change.
ReaderStates == [
  step : ReaderSteps, page : Nat, total : Nat \cup {NoCount}, filled : BOOLEAN,
  has : BOOLEAN, got : SUBSET Items, seen : SUBSET Items, disturbed : BOOLEAN, old : BOOLEAN]

\* Type invariant.
CatalogueTypeOK ==
  /\ listed \in SUBSET Items
  /\ count \in [value : 0..Cardinality(Items) \cup {NoCount}, old : BOOLEAN]
  /\ reader \in [Readers -> ReaderStates]

NothingCached == [value |-> NoCount, old |-> FALSE]

IdleReader == [step |-> "idle", page |-> 1, total |-> NoCount, filled |-> FALSE, has |-> FALSE,
               got |-> {}, seen |-> {}, disturbed |-> FALSE, old |-> FALSE]

CatalogueInit ==
  /\ listed \in SUBSET Items
  /\ count = NothingCached
  /\ reader = [h \in Readers |-> IdleReader]

-----------------------------------------------------------------------------

\* How a query may order the services of one name.
Orders == {order \in [Items -> 1..Cardinality(Items)] :
             \A i, j \in Items : order[i] = order[j] => i = j}

Before(i, order) ==
  {j \in listed : Name[j] < Name[i] \/ (Name[j] = Name[i] /\ order[j] < order[i])}

\* sort("name").skip((page - 1) * limit).limit(limit)
PageOf(page, order) ==
  {i \in listed : LET before == Cardinality(Before(i, order)) IN
                 before >= (page - 1) * Limit /\ before < page * Limit}

\* Mutant: the last page that is not full is forgotten.
FullPages(total) == total \div Limit

\* createPaginationMeta: Math.ceil(total / limit).
TotalPages(total) == (total + Limit - 1) \div Limit

\* The first page is asked for, or the walk begins anew.
StartWalk(h) ==
  /\ reader[h].step \in {"idle", "done"}
  /\ reader' = [reader EXCEPT ![h] = [IdleReader EXCEPT !.step = "ask"]]
  /\ UNCHANGED <<listed, count>>

\* executePaginatedQuery: the cached count, if there is one.
AskPage(h) ==
  /\ reader[h].step = "ask"
  /\ reader' = [reader EXCEPT ![h].step = "wait", ![h].total = count.value,
                              ![h].filled = count.value # NoCount,
                              ![h].disturbed = @ \/ count.old]
  /\ UNCHANGED <<listed, count>>

\* The query for the page is answered.
ReadPage(h) ==
  /\ reader[h].step = "wait" /\ ~reader[h].has
  /\ \E order \in Orders :
       reader' = [reader EXCEPT ![h].has = TRUE, ![h].got = PageOf(reader[h].page, order)]
  /\ UNCHANGED <<listed, count>>

\* countDocuments is answered.
CountItems(h) ==
  /\ reader[h].step = "wait" /\ reader[h].total = NoCount
  /\ reader' = [reader EXCEPT ![h].total = Cardinality(listed), ![h].old = FALSE]
  /\ UNCHANGED <<listed, count>>

\* getCachedCount: the answer is cached, over a younger one if there is one.
FillCount(h) ==
  /\ reader[h].step = "wait" /\ reader[h].total # NoCount /\ ~reader[h].filled
  /\ count' = [value |-> reader[h].total, old |-> reader[h].old]
  /\ reader' = [reader EXCEPT ![h].filled = TRUE]
  /\ UNCHANGED listed

\* Both are there: the visitor reads the page and goes on while hasNextPage.
TurnPage(h) ==
  /\ reader[h].step = "wait" /\ reader[h].has /\ reader[h].filled
  /\ LET r == reader[h]
         next == [IdleReader EXCEPT !.seen = r.seen \cup r.got, !.disturbed = r.disturbed] IN
     reader' = [reader EXCEPT ![h] =
       IF r.page < TotalPages(r.total) THEN [next EXCEPT !.step = "ask", !.page = r.page + 1]
       ELSE [next EXCEPT !.step = "done"]]
  /\ UNCHANGED <<listed, count>>

\* The minute is over.
CountExpires ==
  /\ count.value # NoCount
  /\ count' = NothingCached
  /\ UNCHANGED <<listed, reader>>

\* A write: counts and walks from before it are told apart from then on.
ChangeItems(items) ==
  /\ listed' = items
  /\ count' = [count EXCEPT !.old = count.value # NoCount]
  /\ reader' = [h \in Readers |->
                  IF reader[h].step \in {"ask", "wait", "done"}
                  THEN [reader[h] EXCEPT !.disturbed = TRUE,
                                         !.old = reader[h].total # NoCount /\ ~reader[h].filled]
                  ELSE reader[h]]

\* POST / and PATCH /:id with active: true.
AddService == \E i \in Items \ listed : ChangeItems(listed \cup {i})

\* DELETE /:id and PATCH /:id with active: false.
RemoveService == \E i \in listed : ChangeItems(listed \ {i})

-----------------------------------------------------------------------------

CatalogueNext ==
  \/ CountExpires \/ AddService \/ RemoveService
  \/ \E h \in Readers :
       StartWalk(h) \/ AskPage(h) \/ ReadPage(h) \/ CountItems(h) \/ FillCount(h) \/ TurnPage(h)

CatalogueSpec == CatalogueInit /\ [][CatalogueNext]_catalogueVars

-----------------------------------------------------------------------------
(* Properties                                                              *)

\* The positions of the services of i's name, as a sort by name has them, from
\* the first one to behind the last one.
First(i) == Cardinality({j \in listed : Name[j] < Name[i]})
BehindLast(i) == Cardinality({j \in listed : Name[j] <= Name[i]})

\* A visitor who follows hasNextPage to the end has seen every service, unless
\* the list changed during the walk, the count was older than a change, or the
\* service has the name of another one and a page ends between the two: then
\* the queries for both pages may leave it to each other.
WalkIsComplete ==
  \A h \in Readers :
    reader[h].step = "done" /\ ~reader[h].disturbed =>
      /\ reader[h].seen \subseteq listed
      /\ \A i \in listed \ reader[h].seen :
           \E page \in 1..TotalPages(Cardinality(listed)) :
             First(i) < page * Limit /\ page * Limit < BehindLast(i)
=============================================================================
