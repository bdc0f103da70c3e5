----------------------------- MODULE Pagination -----------------------------
(***************************************************************************)
(* Keyset pages over a table that changes while a client walks it:         *)
(* ProductsService.paginate (the catalog in three orders, the sellers'     *)
(* dashboard), OrdersService.findForCustomer, UsersService.findPaginated.  *)
(*                                                                         *)
(* A row is what the list orders and filters by: its key (createdAt in     *)
(* microseconds, or the price) and whether it passes the filters.  The     *)
(* cursor is what JSON makes of the last row: a createdAt goes through a   *)
(* JavaScript Date and loses its microseconds.  Pages come from the        *)
(* database here; cached ones are the subject of CatalogCache.             *)
(***************************************************************************)
EXTENDS Integers, FiniteSets

CONSTANTS
  Ids,     \* ids of rows; their order is unrelated to that of the keys
  Keys,    \* createdAt or price
  Limits,  \* page sizes
  Unborn,  \* no row with this id yet
  Deleted  \* no row with this id any more

Row == [key : Keys, listed : BOOLEAN]
Missing == {Unborn, Deleted}

ASSUME PaginationAssumption ==
  /\ IsFiniteSet(Ids) /\ Ids \subseteq Nat
  /\ Keys \subseteq Nat
  /\ Limits \subseteq Nat \ {0}
  /\ Unborn # Deleted /\ Row \cap Missing = {}

VARIABLES
  list,    \* which list is walked
  limit,   \* its page size
  table,   \* the rows
  stage,   \* where the client and its request are
  cursor,  \* the client's cursor
  ids,     \* the result of the first of two queries
  \* History of the walk, for the properties only.
  seen,    \* the rows it has shown at the place they are in
  again,   \* the rows it has shown there more than once
  owed,    \* the rows it has yet to show: there and unmoved since it began
  cuts,    \* the milliseconds that the cursors have cut microseconds off
  torn     \* a page has changed between its two queries

request == <<stage, cursor, ids>>
walk == <<seen, again, owed, cuts, torn>>
vars == <<list, limit, table, request, walk>>

CatalogSort == {"newest", "price_asc", "price_desc"}
Lists == CatalogSort \cup {"dashboard", "orders", "users"}
Stages == {"done", "asking", "reading"}

ByPrice == list \in {"price_asc", "price_desc"}
\* With `take' and a joined to-many relation TypeORM asks for the ids first.
TwoQueries == list \in CatalogSort \cup {"orders"}
\* Only the catalog filters by what a seller may change.
Filtered == list \in CatalogSort
\* Orders and users are never deleted.
Removable == list \in CatalogSort \cup {"dashboard"}

Present(i) == table[i] \notin Missing

\* One millisecond is a thousand microseconds.
Trunc(t) == t - (t % 1000)

\* The position of a row, and the position that its cursor names.
Place == [key : Nat, id : Nat]
PlaceOf(i) == [key |-> table[i].key, id |-> i]
CursorOf(i) ==
  [key |-> IF ByPrice THEN table[i].key ELSE Trunc(table[i].key), id |-> i]
Start == [key |-> 0, id |-> -1]  \* no cursor: the first page

Less(a, b) == a.key < b.key \/ (a.key = b.key /\ a.id < b.id)
Before(a, b) == IF list = "price_asc" THEN Less(a, b) ELSE Less(b, a)

Listed(i) == Present(i) /\ (Filtered => table[i].listed)
\* Fault: <= for <.
PastOrAt(c, i) == c = Start \/ ~Before(PlaceOf(i), c)

Past(c, i) == c = Start \/ Before(c, PlaceOf(i))
Candidates == {i \in Ids : Listed(i) /\ Past(cursor, i)}

\* The first n of the rows S in the order of the list.
IsFirst(P, n, S) ==
  /\ P \subseteq S
  /\ Cardinality(P) <= n
  /\ Cardinality(P) < n => P = S
  /\ \A i \in P, j \in S \ P : Before(PlaceOf(i), PlaceOf(j))

IsLast(i, S) == i \in S /\ \A j \in S \ {i} : Before(PlaceOf(j), PlaceOf(i))

-----------------------------------------------------------------------------
Init ==
  /\ list \in Lists /\ limit \in Limits
  /\ table \in [Ids -> Row \cup {Unborn}]
  /\ ~Filtered => \A i \in Ids : Present(i) => table[i].listed
  /\ stage = "done" /\ cursor = Start /\ ids = {}
  /\ seen = {} /\ again = {} /\ owed = {}
  /\ cuts = {} /\ torn = FALSE

\* The client asks for the first page.
Open ==
  /\ stage = "done"
  /\ stage' = "asking" /\ cursor' = Start
  /\ seen' = {} /\ again' = {} /\ cuts' = {} /\ torn' = FALSE
  /\ owed' = {i \in Ids : Listed(i)}
  /\ UNCHANGED <<list, limit, table, ids>>

\* The first of two queries: the ids of the page and of one row more.
ReadIds ==
  /\ stage = "asking" /\ TwoQueries
  /\ ids' \in SUBSET Candidates
  /\ IsFirst(ids', limit + 1, Candidates)
  /\ stage' = "reading"
  /\ UNCHANGED <<list, limit, table, cursor, walk>>

\* Fault: a full page is taken for the last one.
HasMoreThanOne(rows) == Cardinality(rows) > limit + 1

HasMore(rows) == Cardinality(rows) > limit

\* The rows are cut to a page, and the page is answered.
Answer(rows) ==
  \E items \in SUBSET rows :
    /\ IsFirst(items, limit, rows)
    /\ seen' = seen \cup items
    /\ again' = again \cup (seen \cap items)
    /\ ids' = {}
    /\ \/ /\ HasMore(rows)
          /\ stage' = "asking"
          /\ \E last \in items :
               /\ IsLast(last, items)
               /\ cursor' = CursorOf(last)
               /\ cuts' = cuts \cup ({cursor'.key} \ {table[last].key})
       \/ /\ ~HasMore(rows)
          /\ stage' = "done" /\ cursor' = Start
          /\ UNCHANGED cuts
    /\ owed' = owed \ items
    /\ UNCHANGED <<list, limit, table, torn>>

\* The second query: the rows of those ids that are still to be listed.
ReadRows ==
  /\ stage = "reading"
  /\ Answer(ids \cap Candidates)

\* The lists without a joined relation.
ReadPage ==
  /\ stage = "asking" /\ ~TwoQueries
  /\ \E rows \in SUBSET Candidates :
       /\ IsFirst(rows, limit + 1, Candidates)
       /\ Answer(rows)

-----------------------------------------------------------------------------
(* The table changes.  A row gets its createdAt when its transaction       *)
(* begins, so it may appear with an older one than rows already there.     *)
Put(i, row) == table' = [table EXCEPT ![i] = row]

Displaced(i) ==
  /\ owed' = owed \ {i}
  /\ torn' = (torn \/ i \in ids)
  /\ UNCHANGED <<list, limit, request, again, cuts>>

Create(i) ==
  /\ table[i] = Unborn
  /\ \E row \in Row : (~Filtered => row.listed) /\ Put(i, row)
  /\ UNCHANGED <<list, limit, request, walk>>

\* publish, unpublish, and updates of what the catalog filters by
Relist(i) ==
  /\ Filtered /\ Present(i)
  /\ Put(i, [table[i] EXCEPT !.listed = ~@])
  /\ Displaced(i)
  /\ UNCHANGED seen

\* Fault: the price is not validated.
RepriceUnchecked(i) ==
  /\ ByPrice /\ Present(i)
  /\ Put(i, [table[i] EXCEPT !.key = -1])
  /\ seen' = seen \ {i}
  /\ Displaced(i)

\* update with a price
Reprice(i) ==
  /\ ByPrice /\ Present(i)
  /\ \E price \in Keys \ {table[i].key} : Put(i, [table[i] EXCEPT !.key = price])
  /\ seen' = seen \ {i}
  /\ Displaced(i)

Remove(i) ==
  /\ Removable /\ Present(i)
  /\ Put(i, Deleted)
  /\ Displaced(i)
  /\ UNCHANGED seen

Read == ReadIds \/ ReadRows \/ ReadPage
Next ==
  \/ Open \/ Read
  \/ \E i \in Ids : Create(i) \/ Relist(i) \/ Reprice(i) \/ Remove(i)

Spec == Init /\ [][Next]_vars

\* The server answers, and the client asks for the page after.
FairSpec == Spec /\ WF_vars(Read)

-----------------------------------------------------------------------------
TypeOK ==
  /\ list \in Lists /\ limit \in Limits
  /\ table \in [Ids -> Row \cup Missing]
  /\ stage \in Stages
  /\ cursor \in Place \cup {Start}
  /\ ids \subseteq Ids /\ (stage # "reading" => ids = {})
  /\ seen \subseteq Ids /\ again \subseteq Ids /\ owed \subseteq Ids
  /\ cuts \subseteq Nat /\ torn \in BOOLEAN

\* "No dupes" (paginate): whatever happens to the table during the walk, no row
\* is shown twice, unless its price was changed in between in a list that goes by
\* price.
NoRepeats == again = {}

\* A row that was there to be shown all along, and that the walk has passed, has
\* been shown, unless a cursor has lost the microseconds of its millisecond, or
\* the page changed between its two queries.
Passed(i) == stage = "done" \/ ~Past(cursor, i)
Excused(i) == torn \/ (~ByPrice /\ Trunc(table[i].key) \in cuts)
SkipsHaveAReason == \A i \in owed : Passed(i) => Excused(i)

\* "No skips" (paginate): it has been shown, whatever else.
NoSkips == \A i \in owed : ~Passed(i)

\* A client that goes on asking comes to the last page of a list by age,
\* although the table keeps changing under it.
WalksEnd == (~ByPrice /\ stage # "done") ~> (stage = "done")
=============================================================================
