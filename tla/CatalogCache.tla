----------------------------- MODULE CatalogCache -----------------------------
(***************************************************************************)
(* The Redis cache of the public catalog (cache/catalog-cache.service.ts), *)
(* the reads that fill it (products/products.service.ts) and the mutations *)
(* that invalidate it.                                                     *)
(*                                                                         *)
(* A list page is cached under a key that holds the list version read      *)
(* before the page was queried; invalidating increments the version and so *)
(* orphans the pages of all older versions.  A product detail is cached    *)
(* under its id and invalidated by deleting that key.  Both take the id as *)
(* the request writes it: ParseUUIDPipe lets upper and lower case pass,    *)
(* PostgreSQL takes both for one uuid, and Redis does not.  Every Redis    *)
(* command may fail without the request noticing, and every request may    *)
(* die between its steps.                                                  *)
(*                                                                         *)
(* Abstractions.  What the public may see of a product, and of the         *)
(* category tree a filter is rolled up through, is a revision that each    *)
(* mutation increments.  One combination of filters, sort and cursor       *)
(* stands for all: pages of different combinations share nothing but the   *)
(* version.  Expiry is an action that may take any entry at any time: a    *)
(* property that needs the length of the TTL is not stated here.           *)
(*                                                                         *)
(* Operators introduced by "Fault" are not part of the model: each is the  *)
(* definition after it with a mistake in it, kept to show that some        *)
(* property notices that mistake.                                          *)
(***************************************************************************)
EXTENDS Naturals, FiniteSets

CONSTANTS
  Products,  \* product ids
  Writers,   \* requests that change the catalog
  Lists,     \* requests for a page of it
  Details,   \* requests for one product
  MaxRev,    \* bound: revisions of a product
  MaxTree,   \* bound: revisions of the category tree
  NoEntry,   \* the key is not in Redis
  Spellings, \* the ways to write an id
  Canonical  \* the one of them that the database answers in

\* A product as of one revision; a removed one keeps its last number.
Status == {"draft", "active", "removed"}
Row == [rev : Nat, status : Status]

\* The catalog as one list read has put it together, or as of one moment.
Catalog == [tree : Nat, rows : [Products -> Row]]

\* A key catalog:product:<id>: a product, and how its id is written.
Key == [product : Products, spelt : Spellings]

\* A Redis command of an invalidation, on behalf of a product or of the list.
Command == [name : {"del"}, key : Key] \cup [name : {"incr"}, product : Products]
           \cup [name : {"incr list"}]

ASSUME CatalogCacheAssumption ==
  /\ MaxRev \in Nat /\ MaxTree \in Nat
  /\ Products # {}
  /\ NoEntry \notin Row \cup Catalog
  /\ Canonical \in Spellings

VARIABLES
  \* PostgreSQL.
  row,      \* each product
  tree,     \* the revision of the category tree
  \* Redis.
  listVer,  \* catalog:list:ver
  page,     \* catalog:list:v<n>:..., for each n up to listVer
  detail,   \* catalog:product:<id>
  \* The requests.
  todo,     \* the commands a writer's invalidation has still to do
  pc,       \* where a list request is
  version,  \* the list version it reads and writes under
  seen,     \* the page it has
  at,       \* where a detail request is
  target,   \* the key of the product it wants
  found,    \* the product it has loaded
  \* History, for the properties only.
  asOf,     \* the catalog of the moment the version was last incremented
  owed,     \* what the answer to a list request must not be older than
  excused   \* keys whose detail may be stale, and why that is so is known

database == <<row, tree>>
redis == <<listVer, page, detail>>
list == <<pc, version, seen, owed>>
one == <<at, target, found>>
vars == <<database, redis, todo, list, one, asOf, excused>>

Now == [tree |-> tree, rows |-> row]

\* What a request's variables hold before it has set them.
AnyKey == [product |-> CHOOSE p \in Products : TRUE, spelt |-> Canonical]
NoRow == [rev |-> 0, status |-> "removed"]
NoRows == [tree |-> 0, rows |-> [p \in Products |-> NoRow]]

Init ==
  /\ row \in [Products -> {[rev |-> 0, status |-> s] : s \in {"draft", "active"}}]
  /\ tree = 0
  /\ listVer = 0
  /\ page = [v \in {0} |-> NoEntry]
  /\ detail = [k \in Key |-> NoEntry]
  /\ todo = [w \in Writers |-> {}]
  /\ pc = [r \in Lists |-> "idle"]
  /\ version = [r \in Lists |-> 0]
  /\ seen = [r \in Lists |-> NoRows]
  /\ at = [r \in Details |-> "idle"]
  /\ target = [r \in Details |-> AnyKey]
  /\ found = [r \in Details |-> NoRow]
  /\ asOf = Now
  /\ owed = [r \in Lists |-> NoRows]
  /\ excused = {}

(***************************************************************************)
(* Mutations: a committed statement, then the commands of the invalidation *)
(***************************************************************************)

\* invalidateProduct for each of the ids K; Promise.all sends the commands
\* together.
InvalidateProduct(K) ==
  [name : {"del"}, key : K] \cup [name : {"incr"}, product : {k.product : k \in K}]

\* invalidateList.
InvalidateList == [name : {"incr list"}]

Existing(p) == row[p].status # "removed" /\ row[p].rev < MaxRev

Revised(p, status) == [rev |-> row[p].rev + 1, status |-> status]

\* The rows of P change, and w has the commands of "invalidation" to do.
Commit(w, P, status, invalidation) ==
  /\ todo[w] = {}
  /\ \A p \in P : Existing(p)
  /\ row' = [p \in Products |->
               IF p \in P
               THEN Revised(p, IF status = "same" THEN row[p].status ELSE status)
               ELSE row[p]]
  /\ todo' = [todo EXCEPT ![w] = invalidation]
  /\ UNCHANGED <<redis, list, one, asOf>>

\* Those of the keys K that are in Redis.
Cached(K) == {k \in K : detail[k] # NoEntry}

\* The other spellings of the ids K, whose keys the DELs leave alone.
OtherSpellings(K) == {k \in Key \ K : \E j \in K : k.product = j.product}

\* A change of one product, by the id k of its URL.
ChangeProduct(w, k, status) ==
  /\ Commit(w, {k.product}, status, InvalidateProduct({k}))
  /\ excused' = excused \cup Cached(OtherSpellings({k}))
  /\ UNCHANGED tree

\* ProductsService.update; ProductImagesService.confirm and remove.
EditProduct(w, k) == ChangeProduct(w, k, "same")

\* OrdersService.place takes stock of the products of a cart; it knows an id
\* again only as the rows have it, and refuses the cart otherwise.
Place(w, P) ==
  LET K == [product : P, spelt : {Canonical}] IN
    /\ P # {}
    /\ \A p \in P : row[p].status = "active"
    /\ Commit(w, P, "same", InvalidateProduct(K))
    /\ excused' = excused \cup Cached(OtherSpellings(K))
    /\ UNCHANGED tree

\* Fault: a product is taken to be in list pages only.
SetStatusLeavingDetail(w, k, status) ==
  /\ status \in {"draft", "active"}
  /\ Commit(w, {k.product}, status, InvalidateList)
  /\ excused' = excused \cup Cached(OtherSpellings({k}))
  /\ UNCHANGED tree

\* ProductsService.publish and unpublish.
SetStatus(w, k, status) ==
  /\ status \in {"draft", "active"}
  /\ ChangeProduct(w, k, status)

\* ProductsService.remove.
RemoveProduct(w, k) == ChangeProduct(w, k, "removed")

\* CategoriesService.remove: the foreign key sets categoryId of its products P
\* to NULL, which is part of their rows; their details are not invalidated.
RemoveCategory(w, P) ==
  /\ tree < MaxTree
  /\ Commit(w, P, "same", InvalidateList)
  /\ tree' = tree + 1
  /\ excused' = excused \cup Cached([product : P, spelt : Spellings])

\* CategoriesService.update with a parentId.
ReparentCategory(w) ==
  /\ tree < MaxTree
  /\ Commit(w, {}, "same", InvalidateList)
  /\ tree' = tree + 1
  /\ UNCHANGED excused

\* DEL catalog:product:<id>
DeleteDetail(k) ==
  /\ detail' = [detail EXCEPT ![k] = NoEntry]
  /\ excused' = excused \ {k}
  /\ UNCHANGED <<listVer, page, asOf>>

\* INCR catalog:list:ver.  A page under a version that no read holds, and that
\* none will be given again, is forgotten here and not when it expires.
NextVersion ==
  /\ listVer' = listVer + 1
  /\ page' = [v \in 0 .. listVer + 1 |->
       IF v = 0 \/ \E r \in Lists : version[r] = v THEN page[v] ELSE NoEntry]
  /\ asOf' = Now
  /\ UNCHANGED <<detail, excused>>

Perform(w, command) ==
  /\ command \in todo[w]
  /\ todo' = [todo EXCEPT ![w] = @ \ {command}]
  /\ IF command.name = "del" THEN DeleteDetail(command.key) ELSE NextVersion
  /\ UNCHANGED <<database, list, one>>

\* The keys whose DEL is among the commands.
Deletes(commands) == {k \in Key : [name |-> "del", key |-> k] \in commands}

\* Redis fails on some of the commands, which is logged and forgotten, or the
\* process dies before them.
Lose(w, commands) ==
  /\ commands # {}
  /\ todo' = [todo EXCEPT ![w] = @ \ commands]
  /\ excused' = excused \cup Cached(Deletes(commands))
  /\ UNCHANGED <<database, redis, list, one, asOf>>

(***************************************************************************)
(* findAllForCustomers                                                     *)
(***************************************************************************)

Goto(r, stage) == pc' = [pc EXCEPT ![r] = stage]

\* listVersion, which is 0 if Redis fails; such a request is owed nothing.
ReadVersion(r) ==
  /\ pc[r] = "idle"
  /\ \/ /\ version' = [version EXCEPT ![r] = listVer]
        /\ owed' = [owed EXCEPT ![r] = asOf]
     \/ /\ version' = [version EXCEPT ![r] = 0]
        /\ owed' = [owed EXCEPT ![r] = NoRows]
  /\ Goto(r, "look up")
  /\ UNCHANGED <<database, redis, todo, seen, one, asOf, excused>>

\* get: a hit is the answer; a failure is a miss.
LookUpPage(r) ==
  /\ pc[r] = "look up"
  /\ \/ /\ page[version[r]] # NoEntry
        /\ seen' = [seen EXCEPT ![r] = page[version[r]]]
        /\ Goto(r, "answered")
     \/ /\ Goto(r, "tree")
        /\ UNCHANGED seen
  /\ UNCHANGED <<database, redis, todo, version, owed, one, asOf, excused>>

\* getSubtreeIds
ReadTree(r) ==
  /\ pc[r] = "tree"
  /\ seen' = [seen EXCEPT ![r] = [tree |-> tree, rows |-> @.rows]]
  /\ Goto(r, "ids")
  /\ UNCHANGED <<database, redis, todo, version, owed, one, asOf, excused>>

\* paginate, the first query: which products are on the page.
ReadIds(r) ==
  /\ pc[r] = "ids"
  /\ seen' = [seen EXCEPT ![r] = [tree |-> @.tree, rows |-> row]]
  /\ Goto(r, "rows")
  /\ UNCHANGED <<database, redis, todo, version, owed, one, asOf, excused>>

\* The page with the products on it as they are now.
Refreshed(c) ==
  [tree |-> c.tree,
   rows |-> [p \in Products |->
               IF c.rows[p].status = "active" THEN row[p] ELSE c.rows[p]]]

\* paginate, the second query: those products with their images.
ReadRows(r) ==
  /\ pc[r] = "rows"
  /\ seen' = [seen EXCEPT ![r] = Refreshed(@)]
  /\ Goto(r, "store")
  /\ UNCHANGED <<database, redis, todo, version, owed, one, asOf, excused>>

\* Fault: the key is made again, from the version of the moment.
StorePageUnderCurrent(r) ==
  /\ pc[r] = "store"
  /\ page' \in {page, [page EXCEPT ![listVer] = seen[r]]}
  /\ Goto(r, "answered")
  /\ UNCHANGED <<database, listVer, detail, todo, version, seen, owed, one,
                 asOf, excused>>

\* set, or a failure that goes unnoticed.
StorePage(r) ==
  /\ pc[r] = "store"
  /\ page' \in {page, [page EXCEPT ![version[r]] = seen[r]]}
  /\ Goto(r, "answered")
  /\ UNCHANGED <<database, listVer, detail, todo, version, seen, owed, one,
                 asOf, excused>>

\* The answer is sent, or the request fails or dies on its way.
LeaveList(r) ==
  /\ pc[r] # "idle"
  /\ Goto(r, "idle")
  /\ version' = [version EXCEPT ![r] = 0]
  /\ seen' = [seen EXCEPT ![r] = NoRows]
  /\ owed' = [owed EXCEPT ![r] = NoRows]
  /\ UNCHANGED <<database, redis, todo, one, asOf, excused>>

(***************************************************************************)
(* findOneForCustomers, findOneBySlugForCustomers                          *)
(***************************************************************************)

\* By slug, the cache is not looked at, and the id is the row's.
AskDetail(r, k) ==
  /\ at[r] = "idle"
  /\ target' = [target EXCEPT ![r] = k]
  /\ \/ at' = [at EXCEPT ![r] = "look up"]
     \/ k.spelt = Canonical /\ at' = [at EXCEPT ![r] = "load"]
  /\ UNCHANGED <<database, redis, todo, list, found, asOf, excused>>

\* The request is over.
FinishDetail(r) ==
  /\ at' = [at EXCEPT ![r] = "idle"]
  /\ target' = [target EXCEPT ![r] = AnyKey]
  /\ found' = [found EXCEPT ![r] = NoRow]

LookUpDetail(r) ==
  /\ at[r] = "look up"
  /\ \/ /\ detail[target[r]] # NoEntry
        /\ FinishDetail(r)
     \/ /\ at' = [at EXCEPT ![r] = "load"]
        /\ UNCHANGED <<target, found>>
  /\ UNCHANGED <<database, redis, todo, list, asOf, excused>>

\* Fault: activeOnly is not passed on.
LoadAnyStatus(r) ==
  /\ at[r] = "load"
  /\ found' = [found EXCEPT ![r] = row[target[r].product]]
  /\ at' = [at EXCEPT ![r] = "fill"]
  /\ UNCHANGED <<database, redis, todo, list, target, asOf, excused>>

\* The product if it is active, with its images; others are answered 404.
Load(r) ==
  /\ at[r] = "load"
  /\ \/ /\ row[target[r].product].status = "active"
        /\ found' = [found EXCEPT ![r] = row[target[r].product]]
        /\ at' = [at EXCEPT ![r] = "fill"]
        /\ UNCHANGED target
     \/ /\ row[target[r].product].status # "active"
        /\ FinishDetail(r)
  /\ UNCHANGED <<database, redis, todo, list, asOf, excused>>

\* set, or a failure that goes unnoticed.  What was loaded may be stale by now.
Fill(r) ==
  LET k == target[r] IN
    /\ at[r] = "fill"
    /\ \/ /\ detail' = [detail EXCEPT ![k] = found[r]]
          /\ excused' = IF found[r] = row[k.product] THEN excused \ {k}
                        ELSE excused \cup {k}
       \/ UNCHANGED <<detail, excused>>
    /\ FinishDetail(r)
    /\ UNCHANGED <<database, listVer, page, todo, list, asOf>>

\* The request fails or dies on its way.
LeaveDetail(r) ==
  /\ at[r] # "idle"
  /\ FinishDetail(r)
  /\ UNCHANGED <<database, redis, todo, list, asOf, excused>>

(***************************************************************************)
(* Expiry                                                                  *)
(***************************************************************************)

\* Fault: set without EX.
ExpireDetailNever(k) == FALSE /\ UNCHANGED vars

\* The 'EX' of set runs out.
ExpireDetail(k) ==
  /\ detail[k] # NoEntry
  /\ detail' = [detail EXCEPT ![k] = NoEntry]
  /\ excused' = excused \ {k}
  /\ UNCHANGED <<database, listVer, page, todo, list, one, asOf>>

ExpirePage(v) ==
  /\ page[v] # NoEntry
  /\ page' = [page EXCEPT ![v] = NoEntry]
  /\ UNCHANGED <<database, listVer, detail, todo, list, one, asOf, excused>>

ServeList(r) ==
  \/ LookUpPage(r) \/ ReadTree(r) \/ ReadIds(r) \/ ReadRows(r) \/ StorePage(r)
  \/ LeaveList(r)

ServeDetail(r) == LookUpDetail(r) \/ Load(r) \/ Fill(r) \/ LeaveDetail(r)

Next ==
  \/ \E w \in Writers :
       \/ \E k \in Key :
            \/ EditProduct(w, k) \/ RemoveProduct(w, k)
            \/ \E status \in Status : SetStatus(w, k, status)
       \/ \E P \in SUBSET Products : Place(w, P) \/ RemoveCategory(w, P)
       \/ ReparentCategory(w)
       \/ \E command \in todo[w] : Perform(w, command)
       \/ \E commands \in SUBSET todo[w] : Lose(w, commands)
  \/ \E r \in Lists : ReadVersion(r) \/ ServeList(r)
  \/ \E r \in Details :
       \/ \E k \in Key : AskDetail(r, k)
       \/ ServeDetail(r)
  \/ \E k \in Key : ExpireDetail(k)
  \/ \E v \in 0 .. listVer : ExpirePage(v)

Spec == Init /\ [][Next]_vars

\* What is in Redis expires.  Requests may stop where they are.
Fairness ==
  /\ \A k \in Key : WF_vars(ExpireDetail(k))
  /\ WF_vars(ExpirePage(listVer))

FairSpec == Spec /\ Fairness

(***************************************************************************)
(* Properties                                                              *)
(***************************************************************************)

\* Every variable holds values of its kind; in particular only active products
\* are cached as details.
TypeOK ==
  /\ row \in [Products -> Row]
  /\ tree \in Nat
  /\ listVer \in Nat
  /\ page \in [0 .. listVer -> Catalog \cup {NoEntry}]
  /\ detail \in [Key -> [rev : Nat, status : {"active"}] \cup {NoEntry}]
  /\ todo \in [Writers -> SUBSET Command]
  /\ pc \in [Lists -> {"idle", "look up", "tree", "ids", "rows", "store",
                       "answered"}]
  /\ version \in [Lists -> 0 .. listVer]
  /\ seen \in [Lists -> Catalog]
  /\ at \in [Details -> {"idle", "look up", "load", "fill"}]
  /\ target \in [Details -> Key]
  /\ found \in [Details -> Row]
  /\ asOf \in Catalog
  /\ owed \in [Lists -> Catalog]
  /\ excused \subseteq Key

\* Catalog c has, of everything, at least the revision d has.
AtLeast(c, d) ==
  /\ c.tree >= d.tree
  /\ \A p \in Products : c.rows[p].rev >= d.rows[p].rev

\* "Mutating a product increments a version counter so stale list pages are
\* instantly invalidated": a list read is never answered with anything older
\* than the last increment before the read, however fills, mutations, failures
\* and expiry interleave; provided Redis told it the version.
ListReadsAreFresh ==
  \A r \in Lists : pc[r] = "answered" => AtLeast(seen[r], owed[r])

\* These are all the ways a cached detail can be stale: its DEL is still to
\* come, was lost, or was overtaken by a read that had loaded before it; or what
\* changed the product deleted no key, being the removal of a category, or only
\* that of another spelling of its id.
StaleForAReason ==
  \A k \in Key :
    detail[k] \notin {NoEntry, row[k.product]} =>
      \/ k \in excused
      \/ \E w \in Writers : k \in Deletes(todo[w])

\* The caches agree with the catalog.
Coherent ==
  /\ \A k \in Key : detail[k] \in {NoEntry, row[k.product]}
  /\ page[listVer] # NoEntry =>
       /\ page[listVer].tree = tree
       /\ \A p \in Products :
            LET shown == page[listVer].rows[p] IN
              IF row[p].status = "active" THEN shown = row[p]
              ELSE shown.status # "active"

\* Once the catalog stops changing, as MaxRev and MaxTree make it do, the caches
\* come to agree with it for good, whatever was lost, overtaken or overlooked.
StalenessEnds == <>[]Coherent

\* "A change [that] affects list membership/filtering but not any single
\* product's detail payload - e.g. deleting a category": removing a category
\* leaves no cached detail stale that was current.
CategoryRemovalSparesDetails ==
  [][\A w \in Writers, P \in SUBSET Products :
       RemoveCategory(w, P) =>
         \A k \in Key :
           detail[k] = row[k.product] => detail'[k] = row'[k.product]]_vars
=============================================================================
