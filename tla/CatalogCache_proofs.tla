------------------------- MODULE CatalogCache_proofs -------------------------
(***************************************************************************)
(* Proofs about CatalogCache, for any products and any number of requests: *)
(* list reads are never older than the last increment of the version, and  *)
(* cached details are stale only for the reasons StaleForAReason names.    *)
(***************************************************************************)
EXTENDS CatalogCache, TLAPS

\* c is what something under list version v must not be older than.
Owed(v, c) ==
  \/ \E r \in Lists : version[r] = v /\ c = owed[r]
  \/ v = listVer /\ c = asOf

\* Nothing is owed that the database has not reached.
Reached == \A v \in 0 .. listVer : \A c \in Catalog : Owed(v, c) => AtLeast(Now, c)

\* A cached page is as new as whatever may be read from its key is owed.
PagesAreFresh ==
  \A v \in 0 .. listVer : \A c \in Catalog :
    page[v] # NoEntry /\ Owed(v, c) => AtLeast(page[v], c)

\* So is the page a list request is putting together, as far as it has come.
Due(r, c) == Owed(version[r], c)

PartFresh(r, c) ==
  /\ pc[r] \in {"ids", "rows", "store"} => seen[r].tree >= c.tree
  /\ pc[r] \in {"rows", "store"} =>
       \A p \in Products : seen[r].rows[p].rev >= c.rows[p].rev

PartsAreFresh ==
  \A r \in Lists : \A c \in Catalog : Due(r, c) => PartFresh(r, c)

\* Only an active product gets as far as the cache.
Loaded ==
  \A r \in Details :
    at[r] = "fill" => found[r] \in [rev : Nat, status : {"active"}]

Inv ==
  /\ TypeOK
  /\ Loaded
  /\ Reached
  /\ PagesAreFresh
  /\ PartsAreFresh
  /\ ListReadsAreFresh

-----------------------------------------------------------------------------
(***************************************************************************)
(* Type correctness.                                                       *)
(***************************************************************************)

LEMMA Defaults ==
  /\ AnyKey \in Key
  /\ NoRow \in Row
  /\ NoRows \in Catalog
<1>1. AnyKey \in Key
  <2>1. (CHOOSE p \in Products : TRUE) \in Products
    BY CatalogCacheAssumption
  <2>2. QED
    BY <2>1, CatalogCacheAssumption DEF AnyKey, Key
<1>2. NoRow \in Row
  BY SMT DEF NoRow, Row, Status
<1>3. NoRows \in Catalog
  BY <1>2, SMT DEF NoRows, Catalog
<1>4. QED
  BY <1>1, <1>2, <1>3

\* What a key is made of.
LEMMA KeyParts ==
  ASSUME NEW k \in Key
  PROVE  k.product \in Products /\ k.spelt \in Spellings
BY SMT DEF Key

LEMMA NowType == TypeOK => Now \in Catalog
<1>1. TypeOK => row \in [Products -> Row] /\ tree \in Nat
  BY DEF TypeOK
<1>2. QED
  BY <1>1, SMT DEF Now, Catalog

\* The parts of a row, and of a catalog.
LEMMA RowParts ==
  ASSUME NEW x \in Row
  PROVE  x.rev \in Nat /\ x.status \in Status
  BY SMT DEF Row

LEMMA CatalogParts ==
  ASSUME NEW c \in Catalog
  PROVE  /\ c.tree \in Nat
         /\ c.rows \in [Products -> Row]
         /\ \A p \in Products : c.rows[p] \in Row /\ c.rows[p].rev \in Nat
<1>1. c.tree \in Nat /\ c.rows \in [Products -> Row]
  BY SMT DEF Catalog
<1>2. QED
  BY <1>1, RowParts

LEMMA TypeInit == Init => TypeOK
<1> SUFFICES ASSUME Init PROVE TypeOK
  OBVIOUS
<1>1. row \in [Products -> Row]
  <2>1. \A s \in {"draft", "active"} : [rev |-> 0, status |-> s] \in Row
    BY SMT DEF Row, Status
  <2>2. QED
    BY <2>1, SMT DEF Init
<1>2. tree = 0 /\ listVer = 0 /\ Now \in Catalog
  BY <1>1, SMT DEF Init, Now, Catalog
<1>3. page \in [0 .. listVer -> Catalog \cup {NoEntry}]
  <2>1. 0 .. listVer = {0}
    BY <1>2, SMT
  <2>2. page = [v \in {0} |-> NoEntry]
    BY DEF Init
  <2>3. QED
    BY <2>1, <2>2
<1>4. /\ pc \in [Lists -> {"idle", "look up", "tree", "ids", "rows", "store",
                          "answered"}]
      /\ version \in [Lists -> 0 .. listVer]
      /\ at \in [Details -> {"idle", "look up", "load", "fill"}]
  BY SMT DEF Init
<1>5. /\ seen \in [Lists -> Catalog] /\ owed \in [Lists -> Catalog]
      /\ target \in [Details -> Key] /\ found \in [Details -> Row]
  BY Defaults DEF Init
<1>6. /\ detail \in [Key -> [rev : Nat, status : {"active"}] \cup {NoEntry}]
      /\ todo \in [Writers -> SUBSET Command]
      /\ asOf \in Catalog
      /\ excused \subseteq Key
  BY <1>2 DEF Init
<1>7. QED
  BY <1>1, <1>2, <1>3, <1>4, <1>5, <1>6 DEF TypeOK

\* A mutation changes some rows, and gives the writer commands to do.
LEMMA CommitType ==
  ASSUME TypeOK, NEW w \in Writers, NEW P \in SUBSET Products,
         NEW status \in Status \cup {"same"}, NEW invalidation \in SUBSET Command,
         Commit(w, P, status, invalidation)
  PROVE  /\ row' \in [Products -> Row]
         /\ \A p \in Products : row'[p].rev >= row[p].rev
         /\ todo' \in [Writers -> SUBSET Command]
         /\ UNCHANGED <<listVer, page, detail, list, one, asOf>>
<1>1. ASSUME NEW p \in Products
      PROVE  /\ row[p].rev \in Nat /\ row[p].status \in Status
             /\ row[p] \in Row
  BY RowParts DEF TypeOK
<1>2. ASSUME NEW p \in Products, NEW s \in Status
      PROVE  /\ Revised(p, s) \in Row
             /\ Revised(p, s).rev = row[p].rev + 1
  <2>1. row[p].rev + 1 \in Nat
    BY <1>1, SMT
  <2>2. QED
    BY <2>1, SMT DEF Revised, Row
<1> DEFINE next(p) == IF status = "same" THEN row[p].status ELSE status
<1>3. ASSUME NEW p \in Products PROVE next(p) \in Status
  BY <1>1, <1>3
<1> HIDE DEF next
<1>4. row' = [p \in Products |-> IF p \in P THEN Revised(p, next(p)) ELSE row[p]]
  BY DEF Commit, next
<1>5. row' \in [Products -> Row]
  BY <1>1, <1>2, <1>3, <1>4
<1>6. ASSUME NEW p \in Products PROVE row'[p].rev >= row[p].rev
  <2>1. CASE p \in P
    <3>1. row'[p] = Revised(p, next(p))
      BY <1>4, <2>1
    <3>2. row'[p].rev = row[p].rev + 1
      BY <1>2, <1>3, <3>1
    <3>3. QED
      BY <1>1, <3>2, SMT
  <2>2. CASE p \notin P
    <3>1. row'[p] = row[p]
      BY <1>4, <2>2
    <3>2. QED
      BY <1>1, <3>1, SMT
  <2>3. QED
    BY <2>1, <2>2
<1>7. /\ todo' \in [Writers -> SUBSET Command]
      /\ UNCHANGED <<listVer, page, detail, list, one, asOf>>
  BY DEF Commit, TypeOK, redis
<1>8. QED
  BY <1>5, <1>6, <1>7

LEMMA InvalidationTypes ==
  /\ InvalidateList \in SUBSET Command
  /\ \A K \in SUBSET Key : InvalidateProduct(K) \in SUBSET Command
<1>1. InvalidateList \in SUBSET Command
  BY DEF InvalidateList, Command
<1>2. ASSUME NEW K \in SUBSET Key, NEW x \in InvalidateProduct(K)
      PROVE  x \in Command
  <2>1. CASE x \in [name : {"del"}, key : K]
    BY <2>1 DEF Command
  <2>2. CASE x \in [name : {"incr"}, product : {k.product : k \in K}]
    <3>1. {k.product : k \in K} \subseteq Products
      BY KeyParts
    <3>2. QED
      BY <2>2, <3>1 DEF Command
  <2>3. QED
    BY <1>2, <2>1, <2>2 DEF InvalidateProduct
<1>3. QED
  BY <1>1, <1>2

\* The ids by which place invalidates.
LEMMA CartKeys ==
  ASSUME NEW P \in SUBSET Products
  PROVE  [product : P, spelt : {Canonical}] \in SUBSET Key
BY CatalogCacheAssumption DEF Key

Mutation ==
  \E w \in Writers :
    \/ \E k \in Key :
         \/ EditProduct(w, k) \/ RemoveProduct(w, k)
         \/ \E status \in Status : SetStatus(w, k, status)
    \/ \E P \in SUBSET Products : Place(w, P) \/ RemoveCategory(w, P)
    \/ ReparentCategory(w)

\* What all mutations have in common.
LEMMA MutationType ==
  ASSUME TypeOK, Mutation
  PROVE  /\ row' \in [Products -> Row]
         /\ \A p \in Products : row'[p].rev >= row[p].rev
         /\ tree' \in Nat /\ tree' >= tree
         /\ todo' \in [Writers -> SUBSET Command]
         /\ excused' \subseteq Key
         /\ UNCHANGED <<listVer, page, detail, list, one, asOf>>
<1> USE InvalidationTypes
<1>t. tree \in Nat /\ excused \subseteq Key
  BY DEF TypeOK
<1>1. PICK w \in Writers :
        \/ \E k \in Key :
             \/ EditProduct(w, k) \/ RemoveProduct(w, k)
             \/ \E status \in Status : SetStatus(w, k, status)
        \/ \E P \in SUBSET Products : Place(w, P) \/ RemoveCategory(w, P)
        \/ ReparentCategory(w)
  BY DEF Mutation
<1> DEFINE Committed ==
      \E P \in SUBSET Products : \E status \in Status \cup {"same"} :
        \E invalidation \in SUBSET Command : Commit(w, P, status, invalidation)
<1>2. Committed
  <2>0. ASSUME NEW k \in Key, NEW status \in Status \cup {"same"},
               ChangeProduct(w, k, status)
        PROVE  Committed
    <3>1. {k.product} \in SUBSET Products /\ {k} \in SUBSET Key
      BY KeyParts
    <3>2. QED
      BY <2>0, <3>1 DEF ChangeProduct
  <2> HIDE DEF Committed
  <2>1. ASSUME NEW k \in Key, EditProduct(w, k) PROVE  Committed
    BY <2>0, <2>1 DEF EditProduct
  <2>2. ASSUME NEW k \in Key, RemoveProduct(w, k) PROVE  Committed
    BY <2>0, <2>2 DEF RemoveProduct, Status
  <2>3. ASSUME NEW k \in Key, NEW status \in Status, SetStatus(w, k, status)
        PROVE  Committed
    BY <2>0, <2>3 DEF SetStatus
  <2>4. ASSUME NEW P \in SUBSET Products, Place(w, P) \/ RemoveCategory(w, P)
        PROVE  Committed
    BY <2>4, CartKeys DEF Place, RemoveCategory, Committed
  <2>5. CASE ReparentCategory(w)
    BY <2>5 DEF ReparentCategory, Committed
  <2>6. QED
    BY <1>1, <2>1, <2>2, <2>3, <2>4, <2>5
<1>3. tree' \in {tree, tree + 1}
  BY <1>1 DEF EditProduct, RemoveProduct, SetStatus, ChangeProduct, Place,
     RemoveCategory, ReparentCategory
<1>4. tree' \in Nat /\ tree' >= tree
  BY <1>t, <1>3, SMT
<1>5. excused' \subseteq Key
  <2>1. \A K : OtherSpellings(K) \subseteq Key
    BY DEF OtherSpellings
  <2>2. \A P \in SUBSET Products : [product : P, spelt : Spellings] \subseteq Key
    BY DEF Key
  <2>3. \A K \in SUBSET Key : Cached(K) \subseteq Key
    BY DEF Cached
  <2>4. QED
    BY <1>1, <1>t, <2>1, <2>2, <2>3 DEF EditProduct, RemoveProduct, SetStatus,
       ChangeProduct, Place, RemoveCategory, ReparentCategory
<1>6. QED
  BY <1>2, <1>4, <1>5, CommitType

\* Redis commands, lost commands, expiry and details leave the database and
\* the list requests alone, and all but NextVersion and ExpirePage the pages.
LEMMA DeleteType ==
  ASSUME TypeOK, NEW w \in Writers, NEW command \in todo[w],
         command.name = "del", Perform(w, command)
  PROVE  TypeOK' /\ UNCHANGED <<row, tree, listVer, page, list, asOf>>
<1>1. command \in Command
  BY DEF TypeOK
<1>2. DeleteDetail(command.key)
  BY DEF Perform
<1>3. UNCHANGED <<row, tree, listVer, page, list, one, asOf>>
  BY <1>2 DEF Perform, DeleteDetail, database
<1>4. /\ detail' = [detail EXCEPT ![command.key] = NoEntry]
      /\ excused' \subseteq Key
  BY <1>2 DEF DeleteDetail, TypeOK
<1>5. detail' \in [Key -> [rev : Nat, status : {"active"}] \cup {NoEntry}]
  BY <1>4 DEF TypeOK
<1>6. todo' \in [Writers -> SUBSET Command]
  BY DEF Perform, TypeOK
<1>7. QED
  BY <1>3, <1>4, <1>5, <1>6 DEF TypeOK, list, one

LEMMA NextVersionType ==
  ASSUME TypeOK, NEW w \in Writers, NEW command \in todo[w],
         NextVersion, Perform(w, command)
  PROVE  /\ TypeOK'
         /\ listVer' = listVer + 1 /\ asOf' = Now
         /\ page'[listVer'] = NoEntry
         /\ \A v \in 0 .. listVer : page'[v] \in {page[v], NoEntry}
         /\ UNCHANGED <<row, tree, list>>
<1>1. UNCHANGED <<row, tree, list, one, detail, excused>>
  BY DEF Perform, NextVersion, database
<1>2. /\ listVer \in Nat /\ listVer' = listVer + 1 /\ asOf' = Now
      /\ version \in [Lists -> 0 .. listVer]
      /\ page \in [0 .. listVer -> Catalog \cup {NoEntry}]
  BY DEF TypeOK, NextVersion
<1>3. page' = [v \in 0 .. listVer + 1 |->
                IF v = 0 \/ \E r \in Lists : version[r] = v THEN page[v]
                ELSE NoEntry]
  BY DEF NextVersion
<1>4. ASSUME NEW v \in 0 .. listVer + 1
      PROVE  /\ page'[v] \in Catalog \cup {NoEntry}
             /\ v \in 0 .. listVer => page'[v] \in {page[v], NoEntry}
             /\ v = listVer + 1 => page'[v] = NoEntry
  <2>1. CASE v = 0 \/ \E r \in Lists : version[r] = v
    <3>1. v \in 0 .. listVer /\ v # listVer + 1
      BY <1>2, <2>1, SMT
    <3>2. page'[v] = page[v]
      BY <1>3, <1>4, <2>1
    <3>3. QED
      BY <1>2, <3>1, <3>2
  <2>2. CASE ~(v = 0 \/ \E r \in Lists : version[r] = v)
    BY <1>3, <1>4, <2>2
  <2>3. QED
    BY <2>1, <2>2
<1>5. /\ 0 .. listVer' = 0 .. listVer + 1
      /\ 0 .. listVer \subseteq 0 .. listVer + 1
      /\ listVer' \in 0 .. listVer + 1
      /\ listVer' \in Nat
  BY <1>2, SMT
<1>6. page' \in [0 .. listVer' -> Catalog \cup {NoEntry}]
  BY <1>3, <1>4, <1>5
<1>7. version' \in [Lists -> 0 .. listVer']
  <2>1. version' = version
    BY <1>1 DEF list
  <2>2. QED
    BY <1>2, <1>5, <2>1
<1>8. asOf' \in Catalog
  BY <1>2, NowType
<1>9. todo' \in [Writers -> SUBSET Command]
  BY DEF Perform, TypeOK
<1>10. TypeOK'
  BY <1>1, <1>5, <1>6, <1>7, <1>8, <1>9 DEF TypeOK, list, one
<1>11. QED
  BY <1>1, <1>2, <1>4, <1>5, <1>10

LEMMA LoseType ==
  ASSUME TypeOK, NEW w \in Writers, NEW commands \in SUBSET todo[w],
         Lose(w, commands)
  PROVE  TypeOK' /\ UNCHANGED <<row, tree, listVer, page, list, asOf>>
<1>1. UNCHANGED <<row, tree, listVer, page, detail, list, one, asOf>>
  BY DEF Lose, database, redis
<1>2. todo' \in [Writers -> SUBSET Command] /\ excused' \subseteq Key
  BY DEF Lose, TypeOK, Deletes, Cached
<1>3. QED
  BY <1>1, <1>2 DEF TypeOK, list, one

LEMMA ExpiryType ==
  ASSUME TypeOK,
         \/ \E k \in Key : ExpireDetail(k)
         \/ \E v \in 0 .. listVer : ExpirePage(v)
  PROVE  /\ TypeOK'
         /\ \A v \in 0 .. listVer : page'[v] \in {page[v], NoEntry}
         /\ UNCHANGED <<row, tree, listVer, list, asOf>>
<1>1. ASSUME NEW k \in Key, ExpireDetail(k)
      PROVE  /\ detail' \in [Key -> [rev : Nat, status : {"active"}]
                                         \cup {NoEntry}]
             /\ excused' \subseteq Key
             /\ UNCHANGED <<row, tree, listVer, page, todo, list, one, asOf>>
  BY <1>1 DEF ExpireDetail, TypeOK, database
<1>2. ASSUME NEW v \in 0 .. listVer, ExpirePage(v)
      PROVE  /\ page' \in [0 .. listVer -> Catalog \cup {NoEntry}]
             /\ \A u \in 0 .. listVer : page'[u] \in {page[u], NoEntry}
             /\ UNCHANGED <<row, tree, listVer, detail, todo, list, one, asOf,
                            excused>>
  BY <1>2 DEF ExpirePage, TypeOK, database
<1>3. QED
  BY <1>1, <1>2 DEF TypeOK, list, one

LEMMA DetailType ==
  ASSUME TypeOK, Loaded, NEW r \in Details,
         (\E k \in Key : AskDetail(r, k)) \/ ServeDetail(r)
  PROVE  /\ TypeOK' /\ Loaded'
         /\ UNCHANGED <<row, tree, listVer, page, list, asOf>>
<1> DEFINE Places == {"idle", "look up", "load", "fill"}
           Active == [rev : Nat, status : {"active"}]
           Typed == /\ at' \in [Details -> Places]
                    /\ target' \in [Details -> Key]
                    /\ found' \in [Details -> Row]
<1>t. /\ row \in [Products -> Row]
      /\ at \in [Details -> Places] /\ target \in [Details -> Key]
      /\ found \in [Details -> Row]
      /\ detail \in [Key -> Active \cup {NoEntry}]
  BY DEF TypeOK
<1>1. ASSUME NEW k \in Key, AskDetail(r, k)
      PROVE  /\ Typed /\ Loaded'
             /\ UNCHANGED <<database, redis, todo, list, asOf, excused>>
  <2>1. /\ Typed
        /\ UNCHANGED <<database, redis, todo, list, found, asOf, excused>>
    BY <1>1, <1>t DEF AskDetail
  <2>2. PICK stage \in {"look up", "load"} : at' = [at EXCEPT ![r] = stage]
    BY <1>1 DEF AskDetail
  <2>3. found' = found
    BY <2>1
  <2>4. ASSUME NEW q \in Details, at'[q] = "fill"
        PROVE  found'[q] \in Active
    <3>1. q # r
      BY <2>2, <2>4, <1>t
    <3>2. at[q] = "fill"
      BY <2>2, <2>4, <3>1, <1>t
    <3>3. QED
      BY <2>3, <3>2 DEF Loaded
  <2>5. QED
    BY <2>1, <2>4 DEF Loaded
<1>2. ASSUME FinishDetail(r)
      PROVE  Typed /\ Loaded'
  <2>1. Typed
    BY <1>2, <1>t, Defaults DEF FinishDetail
  <2>2. ASSUME NEW q \in Details, at'[q] = "fill"
        PROVE  found'[q] \in Active
    <3>1. q # r
      BY <1>2, <2>2, <1>t DEF FinishDetail
    <3>2. at[q] = "fill" /\ found'[q] = found[q]
      BY <1>2, <2>2, <3>1, <1>t DEF FinishDetail
    <3>3. QED
      BY <3>2 DEF Loaded
  <2>3. QED
    BY <2>1, <2>2 DEF Loaded
<1>3. CASE LookUpDetail(r)
  <2>1. UNCHANGED <<database, redis, todo, list, asOf, excused>>
    BY <1>3 DEF LookUpDetail
  <2>2. ASSUME at' = [at EXCEPT ![r] = "load"], UNCHANGED <<target, found>>
        PROVE  Typed /\ Loaded'
    <3>1. Typed
      BY <2>2, <1>t
    <3>2. ASSUME NEW q \in Details, at'[q] = "fill"
          PROVE  found'[q] \in Active
      <4>1. q # r
        BY <2>2, <3>2, <1>t
      <4>2. at[q] = "fill" /\ found'[q] = found[q]
        BY <2>2, <3>2, <4>1, <1>t
      <4>3. QED
        BY <4>2 DEF Loaded
    <3>3. QED
      BY <3>1, <3>2 DEF Loaded
  <2>3. Typed /\ Loaded'
    BY <1>2, <1>3, <2>2, <1>t DEF LookUpDetail
  <2>4. QED
    BY <2>1, <2>3, <1>t DEF TypeOK, database, redis, list
<1>4. CASE Load(r)
  <2>1. UNCHANGED <<database, redis, todo, list, asOf, excused>>
    BY <1>4 DEF Load
  <2>2. ASSUME row[target[r].product].status = "active",
               found' = [found EXCEPT ![r] = row[target[r].product]],
               at' = [at EXCEPT ![r] = "fill"],
               UNCHANGED target
        PROVE  Typed /\ Loaded'
    <3>1. row[target[r].product] \in Row
      BY <1>t, KeyParts
    <3>2. row[target[r].product] \in Active
      BY <2>2, <3>1, SMT DEF Row
    <3>3. Typed
      BY <2>2, <3>1, <1>t
    <3>4. ASSUME NEW q \in Details, at'[q] = "fill"
          PROVE  found'[q] \in Active
      <4>1. CASE q = r
        BY <2>2, <3>2, <4>1, <1>t
      <4>2. CASE q # r
        <5>1. at[q] = "fill" /\ found'[q] = found[q]
          BY <2>2, <3>4, <4>2, <1>t
        <5>2. QED
          BY <5>1 DEF Loaded
      <4>3. QED
        BY <4>1, <4>2
    <3>5. QED
      BY <3>2, <3>3, <3>4 DEF Loaded
  <2>3. Typed /\ Loaded'
    BY <1>2, <1>4, <2>2 DEF Load
  <2>4. QED
    BY <2>1, <2>3, <1>t DEF TypeOK, database, redis, list
<1>5. CASE LeaveDetail(r)
  <2>1. FinishDetail(r) /\ UNCHANGED <<database, redis, todo, list, asOf, excused>>
    BY <1>5 DEF LeaveDetail
  <2>2. QED
    BY <1>2, <2>1, <1>t DEF TypeOK, database, redis, list
<1>6. CASE Fill(r)
  <2>1. /\ FinishDetail(r)
        /\ at[r] = "fill"
        /\ UNCHANGED <<database, listVer, page, todo, list, asOf>>
    BY <1>6 DEF Fill
  <2>2. found[r] \in Active
    BY <2>1 DEF Loaded
  <2>3. /\ detail' \in [Key -> Active \cup {NoEntry}]
        /\ excused' \subseteq Key
    <3>1. CASE UNCHANGED <<detail, excused>>
      BY <3>1, <1>t DEF TypeOK
    <3>2. CASE /\ detail' = [detail EXCEPT ![target[r]] = found[r]]
               /\ excused' \in {excused \ {target[r]}, excused \cup {target[r]}}
      BY <3>2, <2>2, <1>t DEF TypeOK
    <3>3. QED
      BY <1>6, <3>1, <3>2 DEF Fill
  <2>4. QED
    BY <1>2, <2>1, <2>3, <1>t DEF TypeOK, database, list
<1>7. QED
  <2>1. ServeDetail(r) => LookUpDetail(r) \/ Load(r) \/ Fill(r) \/ LeaveDetail(r)
    BY DEF ServeDetail
  <2>2. CASE \E k \in Key : AskDetail(r, k)
    BY <1>1, <2>2, <1>t DEF TypeOK, database, redis, list
  <2>3. TypeOK' /\ Loaded'
    BY <1>3, <1>4, <1>5, <1>6, <2>1, <2>2
  <2>4. UNCHANGED <<row, tree, listVer, page, list, asOf>>
    BY <1>1, <1>3, <1>4, <1>5, <1>6, <2>1, <2>2 DEF database, redis
  <2>5. QED
    BY <2>3, <2>4

-----------------------------------------------------------------------------
(***************************************************************************)
(* Freshness.  AtLeast is a preorder with NoRows below everything.         *)
(***************************************************************************)

LEMMA AtLeastPreorder ==
  /\ \A c \in Catalog : AtLeast(c, c)
  /\ \A c \in Catalog : AtLeast(c, NoRows)
  /\ \A c, d, e \in Catalog : AtLeast(c, d) /\ AtLeast(d, e) => AtLeast(c, e)
<1>1. ASSUME NEW c \in Catalog PROVE AtLeast(c, c)
  BY CatalogParts, SMT DEF AtLeast
<1>2. ASSUME NEW c \in Catalog PROVE AtLeast(c, NoRows)
  <2>1. NoRows.tree = 0 /\ \A p \in Products : NoRows.rows[p].rev = 0
    BY SMT DEF NoRows, NoRow
  <2>2. QED
    BY <2>1, CatalogParts, SMT DEF AtLeast
<1>3. ASSUME NEW c \in Catalog, NEW d \in Catalog, NEW e \in Catalog,
             AtLeast(c, d), AtLeast(d, e)
      PROVE  AtLeast(c, e)
  <2>1. c.tree >= e.tree
    BY <1>3, CatalogParts, SMT DEF AtLeast
  <2>2. ASSUME NEW p \in Products PROVE c.rows[p].rev >= e.rows[p].rev
    <3>1. /\ c.rows[p].rev >= d.rows[p].rev /\ d.rows[p].rev >= e.rows[p].rev
          /\ c.rows[p].rev \in Nat /\ d.rows[p].rev \in Nat
          /\ e.rows[p].rev \in Nat
      BY <1>3, CatalogParts DEF AtLeast
    <3>2. QED
      BY <3>1, SMT
  <2>3. QED
    BY <2>1, <2>2 DEF AtLeast
<1>4. QED
  BY <1>1, <1>2, <1>3

LEMMA NowParts == Now.tree = tree /\ Now.rows = row
  BY SMT DEF Now

\* What the freshness of the list reads consists of.
Fresh == Reached /\ PagesAreFresh /\ PartsAreFresh /\ ListReadsAreFresh

\* A step that leaves list requests alone, and may forget pages and change the
\* catalog, keeps everything fresh: the catalog only moves on.
LEMMA OtherStep ==
  ASSUME TypeOK, TypeOK', Fresh,
         UNCHANGED <<listVer, list, asOf>>,
         tree' >= tree, \A p \in Products : row'[p].rev >= row[p].rev,
         \A v \in 0 .. listVer : page'[v] \in {page[v], NoEntry}
  PROVE  Fresh'
<1>1. UNCHANGED <<listVer, pc, version, seen, owed, asOf>>
  BY DEF list
<1>2. \A v, c : Owed(v, c)' <=> Owed(v, c)
  BY <1>1 DEF Owed
<1>3. Reached'
  <2>1. Now \in Catalog /\ Now' \in Catalog
    <3>1. row' \in [Products -> Row] /\ tree' \in Nat
      BY DEF TypeOK
    <3>2. QED
      BY <3>1, NowType, SMT DEF Now, Catalog
  <2>2. AtLeast(Now', Now)
    <3>1. Now'.tree = tree' /\ Now'.rows = row' /\ Now.tree = tree /\ Now.rows = row
      BY NowParts, SMT DEF Now
    <3>2. QED
      BY <3>1 DEF AtLeast
  <2>3. ASSUME NEW v \in 0 .. listVer', NEW c \in Catalog, Owed(v, c)'
        PROVE  AtLeast(Now', c)
    <3>1. AtLeast(Now, c)
      BY <1>1, <1>2, <2>3 DEF Fresh, Reached
    <3>2. QED
      BY <2>1, <2>2, <3>1, AtLeastPreorder
  <2>4. QED
    BY <2>3 DEF Reached, AtLeast
<1>4. PagesAreFresh'
  <2>1. ASSUME NEW v \in 0 .. listVer', NEW c \in Catalog,
               page'[v] # NoEntry, Owed(v, c)'
        PROVE  AtLeast(page'[v], c)
    <3>1. v \in 0 .. listVer /\ Owed(v, c) /\ page'[v] = page[v]
      BY <1>1, <1>2, <2>1
    <3>2. QED
      BY <2>1, <3>1 DEF Fresh, PagesAreFresh
  <2>2. QED
    BY <2>1 DEF PagesAreFresh, AtLeast
<1>5. PartsAreFresh'
  <2>1. \A r \in Lists, c \in Catalog :
          (Due(r, c)' <=> Due(r, c)) /\ (PartFresh(r, c)' <=> PartFresh(r, c))
    BY <1>1 DEF Due, Owed, PartFresh
  <2>2. QED
    BY <2>1 DEF Fresh, PartsAreFresh
<1>6. ListReadsAreFresh'
  BY <1>1 DEF Fresh, ListReadsAreFresh, AtLeast
<1>7. QED
  BY <1>3, <1>4, <1>5, <1>6 DEF Fresh

\* Incrementing the version: what is owed under the new one is the catalog of
\* this moment, and there is no page under it.
LEMMA NextVersionStep ==
  ASSUME TypeOK, Fresh,
         listVer' = listVer + 1, asOf' = Now,
         page'[listVer'] = NoEntry,
         \A v \in 0 .. listVer : page'[v] \in {page[v], NoEntry},
         UNCHANGED <<row, tree, list>>
  PROVE  Fresh'
<1>1. UNCHANGED <<row, tree, pc, version, seen, owed>>
  BY DEF list
<1>2. /\ listVer \in Nat /\ version \in [Lists -> 0 .. listVer]
      /\ Now \in Catalog
  BY NowType DEF TypeOK
<1>3. \A v \in 0 .. listVer' : v \in 0 .. listVer \/ v = listVer'
  BY <1>2, SMT
<1>4. ASSUME NEW v \in 0 .. listVer PROVE v # listVer'
  BY <1>2, SMT
<1>5. ASSUME NEW v \in 0 .. listVer, NEW c, Owed(v, c)' PROVE Owed(v, c)
  BY <1>1, <1>4, <1>5 DEF Owed
<1>6. ASSUME NEW v, v = listVer', NEW c, Owed(v, c)' PROVE c = Now
  <2>1. v \notin 0 .. listVer
    BY <1>4, <1>6
  <2>2. \A r \in Lists : version[r] # v
    BY <1>2, <2>1
  <2>3. QED
    BY <1>1, <1>6, <2>2 DEF Owed
<1>7. Reached'
  <2>1. Now' = Now
    BY <1>1 DEF Now
  <2>2. ASSUME NEW v \in 0 .. listVer', NEW c \in Catalog, Owed(v, c)'
        PROVE  AtLeast(Now, c)
    <3>1. CASE v \in 0 .. listVer
      BY <1>5, <2>2, <3>1 DEF Fresh, Reached
    <3>2. CASE v = listVer'
      BY <1>2, <1>6, <2>2, <3>2, AtLeastPreorder
    <3>3. QED
      BY <1>3, <3>1, <3>2
  <2>3. QED
    BY <2>1, <2>2 DEF Reached, AtLeast
<1>8. PagesAreFresh'
  <2>1. ASSUME NEW v \in 0 .. listVer', NEW c \in Catalog,
               page'[v] # NoEntry, Owed(v, c)'
        PROVE  AtLeast(page'[v], c)
    <3>1. v \in 0 .. listVer
      BY <1>3, <2>1
    <3>2. page'[v] = page[v] /\ Owed(v, c)
      BY <1>5, <2>1, <3>1
    <3>3. QED
      BY <2>1, <3>1, <3>2 DEF Fresh, PagesAreFresh
  <2>2. QED
    BY <2>1 DEF PagesAreFresh, AtLeast
<1>9. PartsAreFresh'
  <2>1. ASSUME NEW r \in Lists, NEW c \in Catalog, Due(r, c)'
        PROVE  Due(r, c)
    <3>1. version[r] \in 0 .. listVer /\ version'[r] = version[r]
      BY <1>1, <1>2
    <3>2. (\E q \in Lists : version[q] = version[r] /\ c = owed[q])
          \/ (version[r] = listVer' /\ c = asOf')
      BY <1>1, <2>1 DEF Due, Owed
    <3>3. QED
      BY <1>4, <3>1, <3>2 DEF Due, Owed
  <2>2. \A r \in Lists, c \in Catalog : PartFresh(r, c)' <=> PartFresh(r, c)
    BY <1>1 DEF PartFresh
  <2>3. QED
    BY <2>1, <2>2 DEF Fresh, PartsAreFresh
<1>10. ListReadsAreFresh'
  BY <1>1 DEF Fresh, ListReadsAreFresh, AtLeast
<1>11. QED
  BY <1>7, <1>8, <1>9, <1>10 DEF Fresh

\* A step of list request r keeps everything fresh if it reads under the version
\* it had, the latest or the default, and what it stores, holds and answers
\* is as new as it has to be.
LEMMA ListStep ==
  ASSUME TypeOK, Fresh, NEW r \in Lists, seen' \in [Lists -> Catalog],
         UNCHANGED <<row, tree, listVer, asOf>>,
         \A q \in Lists \ {r} : /\ pc'[q] = pc[q] /\ version'[q] = version[q]
                                /\ seen'[q] = seen[q] /\ owed'[q] = owed[q],
         \/ version'[r] = version[r] /\ owed'[r] = owed[r]
         \/ version'[r] = listVer /\ owed'[r] = asOf
         \/ version'[r] = 0 /\ owed'[r] = NoRows,
         \A v \in 0 .. listVer, c \in Catalog :
           page'[v] # NoEntry /\ Owed(v, c) => AtLeast(page'[v], c),
         \A v \in 0 .. listVer : page'[v] \in Catalog \cup {NoEntry},
         \A c \in Catalog : Owed(version'[r], c) =>
           /\ pc'[r] \in {"ids", "rows", "store"} => seen'[r].tree >= c.tree
           /\ pc'[r] \in {"rows", "store"} =>
                \A p \in Products : seen'[r].rows[p].rev >= c.rows[p].rev,
         pc'[r] = "answered" => AtLeast(seen'[r], owed'[r])
  PROVE  Fresh'
<1>1. NoRows \in Catalog /\ Now \in Catalog
  BY Defaults, NowType
<1>2. ASSUME NEW v, NEW c, Owed(v, c)' PROVE Owed(v, c) \/ c = NoRows
  <2>1. CASE v = listVer' /\ c = asOf'
    BY <2>1 DEF Owed
  <2>2. ASSUME NEW q \in Lists, version'[q] = v, c = owed'[q]
        PROVE  Owed(v, c) \/ c = NoRows
    BY <2>2 DEF Owed
  <2>3. QED
    BY <1>2, <2>1, <2>2 DEF Owed
<1>3. Reached'
  <2>1. Now' = Now
    BY DEF Now
  <2>2. ASSUME NEW v \in 0 .. listVer, NEW c \in Catalog, Owed(v, c)'
        PROVE  AtLeast(Now, c)
    BY <1>1, <1>2, <2>2, AtLeastPreorder DEF Fresh, Reached
  <2>3. QED
    BY <2>1, <2>2 DEF Reached, AtLeast
<1>4. PagesAreFresh'
  <2>1. ASSUME NEW v \in 0 .. listVer, NEW c \in Catalog,
               page'[v] # NoEntry, Owed(v, c)'
        PROVE  AtLeast(page'[v], c)
    BY <1>1, <1>2, <2>1, AtLeastPreorder
  <2>2. QED
    BY <2>1 DEF PagesAreFresh, AtLeast
<1>5. PartsAreFresh'
  <2>1. ASSUME NEW q \in Lists, NEW c \in Catalog, Due(q, c)'
        PROVE  PartFresh(q, c)'
    <3>1. Owed(version'[q], c) \/ c = NoRows
      <4>1. (\E s \in Lists : version'[s] = version'[q] /\ c = owed'[s])
            \/ (version'[q] = listVer' /\ c = asOf')
        BY <2>1 DEF Due, Owed
      <4>2. QED
        BY <4>1 DEF Owed
    <3>2. CASE c = NoRows
      <4>1. AtLeast(seen'[q], c)
        BY <3>2, AtLeastPreorder
      <4>2. QED
        BY <4>1 DEF PartFresh, AtLeast
    <3>3. CASE Owed(version'[q], c) /\ q = r
      BY <3>3 DEF PartFresh
    <3>4. CASE Owed(version'[q], c) /\ q # r
      <4>1. Due(q, c)
        BY <3>4 DEF Due
      <4>2. PartFresh(q, c)
        BY <4>1 DEF Fresh, PartsAreFresh
      <4>3. QED
        BY <3>4, <4>2 DEF PartFresh
    <3>5. QED
      BY <3>1, <3>2, <3>3, <3>4
  <2>2. QED
    BY <2>1 DEF PartsAreFresh
<1>6. ListReadsAreFresh'
  <2>1. ASSUME NEW q \in Lists, pc'[q] = "answered"
        PROVE  AtLeast(seen'[q], owed'[q])
    BY <2>1 DEF Fresh, ListReadsAreFresh
  <2>2. QED
    BY <2>1 DEF ListReadsAreFresh, AtLeast
<1>7. QED
  BY <1>3, <1>4, <1>5, <1>6 DEF Fresh

\* The lemmas on the list actions, each by ListStep.
Stages == {"idle", "look up", "tree", "ids", "rows", "store", "answered"}

LEMMA ListTypes ==
  ASSUME TypeOK
  PROVE  /\ pc \in [Lists -> Stages] /\ version \in [Lists -> 0 .. listVer]
         /\ seen \in [Lists -> Catalog] /\ owed \in [Lists -> Catalog]
         /\ page \in [0 .. listVer -> Catalog \cup {NoEntry}]
         /\ asOf \in Catalog /\ listVer \in Nat
         /\ row \in [Products -> Row] /\ tree \in Nat
BY DEF TypeOK, Stages

LEMMA OldPages ==
  ASSUME Fresh
  PROVE  \A v \in 0 .. listVer, c \in Catalog :
           page[v] # NoEntry /\ Owed(v, c) => AtLeast(page[v], c)
BY DEF Fresh, PagesAreFresh

LEMMA ListFrame ==
  ASSUME TypeOK,
         pc' \in [Lists -> Stages], version' \in [Lists -> 0 .. listVer],
         seen' \in [Lists -> Catalog], owed' \in [Lists -> Catalog],
         page' \in [0 .. listVer -> Catalog \cup {NoEntry}],
         UNCHANGED <<database, listVer, detail, todo, one, asOf, excused>>
  PROVE  TypeOK' /\ UNCHANGED <<row, tree, listVer, one, asOf>>
<1>1. UNCHANGED <<row, tree, listVer, detail, todo, at, target, found, one, asOf,
                  excused>>
  BY DEF database, one
<1>2. QED
  BY <1>1 DEF TypeOK, Stages

LEMMA ReadVersionStep ==
  ASSUME TypeOK, Fresh, NEW r \in Lists, ReadVersion(r)
  PROVE  TypeOK' /\ Fresh' /\ UNCHANGED one
<1> USE ListTypes
<1>1. /\ pc' = [pc EXCEPT ![r] = "look up"]
      /\ UNCHANGED <<database, redis, todo, seen, one, asOf, excused>>
  BY DEF ReadVersion, Goto
<1>2. \/ /\ version' = [version EXCEPT ![r] = listVer]
         /\ owed' = [owed EXCEPT ![r] = asOf]
      \/ /\ version' = [version EXCEPT ![r] = 0]
         /\ owed' = [owed EXCEPT ![r] = NoRows]
  BY DEF ReadVersion
<1>3. 0 \in 0 .. listVer /\ listVer \in 0 .. listVer
  BY SMT
<1>4. TypeOK' /\ UNCHANGED <<row, tree, listVer, one, asOf>>
  <2>1. UNCHANGED <<database, listVer, page, detail, todo, seen, one, asOf,
                    excused>>
    BY <1>1 DEF redis
  <2>2. /\ pc' \in [Lists -> Stages] /\ version' \in [Lists -> 0 .. listVer]
        /\ owed' \in [Lists -> Catalog]
    BY <1>1, <1>2, <1>3, Defaults DEF Stages
  <2>3. QED
    BY <2>1, <2>2, ListFrame
<1>5. page' = page /\ seen' = seen
  BY <1>1 DEF redis
<1>6. pc'[r] = "look up"
  BY <1>1
<1>7. pc'[r] \notin {"ids", "rows", "store", "answered"}
  BY <1>6
<1>8. Fresh'
  <2>1. \A q \in Lists \ {r} : /\ pc'[q] = pc[q] /\ version'[q] = version[q]
                               /\ seen'[q] = seen[q] /\ owed'[q] = owed[q]
    BY <1>1, <1>2, <1>5
  <2>2. \/ version'[r] = listVer /\ owed'[r] = asOf
        \/ version'[r] = 0 /\ owed'[r] = NoRows
    BY <1>2
  <2>3. QED
    BY <1>4, <1>5, <1>7, <2>1, <2>2, ListStep, OldPages
<1>9. QED
  BY <1>4, <1>8

LEMMA LookUpPageStep ==
  ASSUME TypeOK, Fresh, NEW r \in Lists, LookUpPage(r)
  PROVE  TypeOK' /\ Fresh' /\ UNCHANGED one
<1> USE ListTypes
<1>1. UNCHANGED <<database, redis, todo, version, owed, one, asOf, excused>>
  BY DEF LookUpPage
<1>2. UNCHANGED <<listVer, page, detail>>
  BY <1>1 DEF redis
<1>3. \/ /\ page[version[r]] # NoEntry
         /\ seen' = [seen EXCEPT ![r] = page[version[r]]]
         /\ pc' = [pc EXCEPT ![r] = "answered"]
      \/ /\ pc' = [pc EXCEPT ![r] = "tree"]
         /\ seen' = seen
  BY DEF LookUpPage, Goto
<1>4. /\ pc' \in [Lists -> Stages] /\ seen' \in [Lists -> Catalog]
  BY <1>3 DEF Stages
<1>5. TypeOK' /\ UNCHANGED <<row, tree, listVer, one, asOf>>
  BY <1>1, <1>2, <1>4, ListFrame
<1>6. \A q \in Lists \ {r} : /\ pc'[q] = pc[q] /\ version'[q] = version[q]
                             /\ seen'[q] = seen[q] /\ owed'[q] = owed[q]
  BY <1>1, <1>3
<1>7. pc'[r] \in {"answered", "tree"}
  BY <1>3
<1>8. pc'[r] \notin {"ids", "rows", "store"}
  BY <1>7
<1>9. pc'[r] = "answered" => AtLeast(seen'[r], owed'[r])
  <2>1. ASSUME pc'[r] = "answered"
        PROVE  page[version[r]] # NoEntry /\ seen'[r] = page[version[r]]
    BY <1>3, <2>1
  <2>2. Owed(version[r], owed[r]) /\ owed[r] \in Catalog
    BY DEF Owed
  <2>3. QED
    BY <1>1, <2>1, <2>2 DEF Fresh, PagesAreFresh
<1>10. Fresh'
  BY <1>1, <1>2, <1>4, <1>5, <1>6, <1>8, <1>9, ListStep, OldPages
<1>11. QED
  BY <1>5, <1>10

\* The steps that put the page together: what is read is what the database has
\* reached, and what was read before stays.
LEMMA ReadStep ==
  ASSUME TypeOK, Fresh, NEW r \in Lists, ReadTree(r) \/ ReadIds(r) \/ ReadRows(r)
  PROVE  TypeOK' /\ Fresh' /\ UNCHANGED one
<1> USE ListTypes
<1>1. /\ UNCHANGED <<database, redis, todo, version, owed, one, asOf, excused>>
      /\ UNCHANGED <<row, tree, listVer, page, detail>>
  BY DEF ReadTree, ReadIds, ReadRows, redis, database
<1>2. /\ seen[r] \in Catalog
      /\ seen[r].tree \in Nat /\ seen[r].rows \in [Products -> Row]
  BY CatalogParts
<1>3. ASSUME NEW c \in Catalog, Owed(version[r], c)
      PROVE  /\ tree >= c.tree
             /\ \A p \in Products : row[p].rev >= c.rows[p].rev
             /\ PartFresh(r, c)
  <2>1. AtLeast(Now, c)
    BY <1>3 DEF Fresh, Reached
  <2>2. PartFresh(r, c)
    BY <1>3 DEF Fresh, PartsAreFresh, Due
  <2>3. QED
    BY <2>1, <2>2, NowParts DEF AtLeast
\* What the three have in common.
<1>4. ASSUME NEW x \in Catalog, NEW stage \in {"ids", "rows", "store"},
             seen' = [seen EXCEPT ![r] = x], pc' = [pc EXCEPT ![r] = stage],
             \A c \in Catalog : Owed(version[r], c) =>
               /\ x.tree >= c.tree
               /\ stage \in {"rows", "store"} =>
                    \A p \in Products : x.rows[p].rev >= c.rows[p].rev
      PROVE  TypeOK' /\ Fresh' /\ UNCHANGED one
  <2>1. /\ pc' \in [Lists -> Stages] /\ seen' \in [Lists -> Catalog]
        /\ pc'[r] = stage /\ seen'[r] = x
    BY <1>4 DEF Stages
  <2>2. TypeOK' /\ UNCHANGED <<row, tree, listVer, one, asOf>>
    BY <1>1, <2>1, ListFrame
  <2>3. \A q \in Lists \ {r} : /\ pc'[q] = pc[q] /\ version'[q] = version[q]
                               /\ seen'[q] = seen[q] /\ owed'[q] = owed[q]
    BY <1>1, <1>4
  <2>4. pc'[r] # "answered"
    BY <2>1
  <2>5. Fresh'
    BY <1>1, <1>4, <2>1, <2>2, <2>3, <2>4, ListStep, OldPages
  <2>6. QED
    BY <2>2, <2>5
<1>5. CASE ReadTree(r)
  <2> DEFINE x == [tree |-> tree, rows |-> seen[r].rows]
  <2>1. x \in Catalog /\ x.tree = tree
    BY <1>2, SMT DEF Catalog
  <2>2. seen' = [seen EXCEPT ![r] = x] /\ pc' = [pc EXCEPT ![r] = "ids"]
    BY <1>5 DEF ReadTree, Goto
  <2> HIDE DEF x
  <2>3. QED
    BY <1>3, <1>4, <2>1, <2>2
<1>6. CASE ReadIds(r)
  <2> DEFINE x == [tree |-> seen[r].tree, rows |-> row]
  <2>1. x \in Catalog /\ x.tree = seen[r].tree /\ x.rows = row
    BY <1>2, SMT DEF Catalog
  <2>2. /\ seen' = [seen EXCEPT ![r] = x] /\ pc' = [pc EXCEPT ![r] = "rows"]
        /\ pc[r] = "ids"
    BY <1>6 DEF ReadIds, Goto
  <2> HIDE DEF x
  <2>3. QED
    BY <1>3, <1>4, <2>1, <2>2 DEF PartFresh
<1>7. CASE ReadRows(r)
  <2> DEFINE x == Refreshed(seen[r])
  <2>1. [p \in Products |-> IF seen[r].rows[p].status = "active" THEN row[p]
                            ELSE seen[r].rows[p]] \in [Products -> Row]
    BY <1>2
  <2>2. x \in Catalog /\ x.tree = seen[r].tree
    BY <1>2, <2>1, SMT DEF Catalog, Refreshed
  <2>3. \A p \in Products : x.rows[p] \in {row[p], seen[r].rows[p]}
    BY <2>1, SMT DEF Refreshed
  <2>4. /\ seen' = [seen EXCEPT ![r] = x] /\ pc' = [pc EXCEPT ![r] = "store"]
        /\ pc[r] = "rows"
    BY <1>7 DEF ReadRows, Goto
  <2> HIDE DEF x
  <2>5. ASSUME NEW c \in Catalog, Owed(version[r], c)
        PROVE  /\ x.tree >= c.tree
               /\ \A p \in Products : x.rows[p].rev >= c.rows[p].rev
    BY <1>3, <2>2, <2>3, <2>4, <2>5 DEF PartFresh
  <2>6. QED
    BY <1>4, <2>2, <2>4, <2>5
<1>8. QED
  BY <1>5, <1>6, <1>7

\* Only the key read before the queries is written, with what they found.
LEMMA StorePageStep ==
  ASSUME TypeOK, Fresh, NEW r \in Lists, StorePage(r)
  PROVE  TypeOK' /\ Fresh' /\ UNCHANGED one
<1> USE ListTypes
<1>1. /\ UNCHANGED <<database, listVer, detail, todo, version, seen, owed, one,
                     asOf, excused>>
      /\ page' \in {page, [page EXCEPT ![version[r]] = seen[r]]}
      /\ pc[r] = "store"
      /\ pc' = [pc EXCEPT ![r] = "answered"]
  BY DEF StorePage, Goto
<1>2. ASSUME NEW c \in Catalog, Owed(version[r], c)
      PROVE  AtLeast(seen[r], c)
  <2>1. PartFresh(r, c)
    BY <1>2 DEF Fresh, PartsAreFresh, Due
  <2>2. QED
    BY <1>1, <2>1 DEF PartFresh, AtLeast
<1>3. /\ pc' \in [Lists -> Stages]
      /\ page' \in [0 .. listVer -> Catalog \cup {NoEntry}]
      /\ \A v \in 0 .. listVer :
           page'[v] = page[v] \/ (v = version[r] /\ page'[v] = seen[r])
  <2>1. pc' \in [Lists -> Stages]
    BY <1>1 DEF Stages
  <2>2. CASE page' = page
    BY <2>1, <2>2
  <2>3. CASE page' = [page EXCEPT ![version[r]] = seen[r]]
    <3>1. version[r] \in 0 .. listVer /\ seen[r] \in Catalog
      OBVIOUS
    <3>2. page' \in [0 .. listVer -> Catalog \cup {NoEntry}]
      BY <2>3, <3>1
    <3>3. ASSUME NEW v \in 0 .. listVer
          PROVE  page'[v] = page[v] \/ (v = version[r] /\ page'[v] = seen[r])
      BY <2>3, <3>1
    <3>4. QED
      BY <2>1, <3>2, <3>3
  <2>4. QED
    BY <1>1, <2>2, <2>3
<1>4. TypeOK' /\ UNCHANGED <<row, tree, listVer, one, asOf>>
  BY <1>1, <1>3, ListFrame
<1>5. \A v \in 0 .. listVer, c \in Catalog :
        page'[v] # NoEntry /\ Owed(v, c) => AtLeast(page'[v], c)
  <2> SUFFICES ASSUME NEW v \in 0 .. listVer, NEW c \in Catalog,
                      page'[v] # NoEntry, Owed(v, c)
               PROVE  AtLeast(page'[v], c)
    OBVIOUS
  <2>1. CASE page'[v] = page[v]
    <3>1. page[v] # NoEntry
      BY <2>1
    <3>2. AtLeast(page[v], c)
      BY <3>1, OldPages
    <3>3. QED
      BY <2>1, <3>2
  <2>2. CASE v = version[r] /\ page'[v] = seen[r]
    BY <1>2, <2>2
  <2>3. QED
    BY <1>3, <2>1, <2>2
<1>6. AtLeast(seen'[r], owed'[r])
  <2>1. Owed(version[r], owed[r]) /\ owed[r] \in Catalog
    BY DEF Owed
  <2>2. QED
    BY <1>1, <1>2, <2>1
<1>7. pc'[r] \notin {"ids", "rows", "store"}
  <2>1. pc'[r] = "answered"
    BY <1>1
  <2>2. QED
    BY <2>1
<1>8. \A q \in Lists \ {r} : /\ pc'[q] = pc[q] /\ version'[q] = version[q]
                             /\ seen'[q] = seen[q] /\ owed'[q] = owed[q]
  BY <1>1
<1>9. Fresh'
  BY <1>1, <1>3, <1>4, <1>5, <1>6, <1>7, <1>8, ListStep
<1>10. QED
  BY <1>4, <1>9

LEMMA LeaveListStep ==
  ASSUME TypeOK, Fresh, NEW r \in Lists, LeaveList(r)
  PROVE  TypeOK' /\ Fresh' /\ UNCHANGED one
<1> USE ListTypes
<1>1. /\ UNCHANGED <<database, redis, todo, one, asOf, excused>>
      /\ UNCHANGED <<listVer, page, detail>>
      /\ pc' = [pc EXCEPT ![r] = "idle"]
      /\ version' = [version EXCEPT ![r] = 0]
      /\ seen' = [seen EXCEPT ![r] = NoRows]
      /\ owed' = [owed EXCEPT ![r] = NoRows]
  BY DEF LeaveList, Goto, redis
<1>2. 0 \in 0 .. listVer
  BY SMT
<1>3. /\ pc' \in [Lists -> Stages] /\ version' \in [Lists -> 0 .. listVer]
      /\ seen' \in [Lists -> Catalog] /\ owed' \in [Lists -> Catalog]
  BY <1>1, <1>2, Defaults DEF Stages
<1>4. TypeOK' /\ UNCHANGED <<row, tree, listVer, one, asOf>>
  BY <1>1, <1>3, ListFrame
<1>5. /\ version'[r] = 0 /\ owed'[r] = NoRows
      /\ pc'[r] \notin {"ids", "rows", "store", "answered"}
  <2>1. pc'[r] = "idle" /\ version'[r] = 0 /\ owed'[r] = NoRows
    BY <1>1
  <2>2. QED
    BY <2>1
<1>6. \A q \in Lists \ {r} : /\ pc'[q] = pc[q] /\ version'[q] = version[q]
                             /\ seen'[q] = seen[q] /\ owed'[q] = owed[q]
  BY <1>1
<1>7. Fresh'
  BY <1>1, <1>3, <1>4, <1>5, <1>6, ListStep, OldPages
<1>8. QED
  BY <1>4, <1>7

-----------------------------------------------------------------------------
(***************************************************************************)
(* Stale details.  StaleForAReason is inductive, given the types.          *)
(***************************************************************************)

Stale(k) == detail[k] \notin {NoEntry, row[k.product]}
Pending(k) == \E w \in Writers : k \in Deletes(todo[w])

LEMMA StaleForAReasonIs ==
  StaleForAReason <=> \A k \in Key : Stale(k) => k \in excused \/ Pending(k)
BY DEF StaleForAReason, Stale, Pending

\* Nothing has to be shown of a key whose row and detail stay, if what excuses it
\* stays too.
LEMMA StaleKept ==
  ASSUME StaleForAReason, NEW k \in Key,
         detail'[k] = detail[k], row'[k.product] = row[k.product],
         k \in excused => k \in excused' \/ Pending(k)',
         Pending(k) => k \in excused' \/ Pending(k)'
  PROVE  Stale(k)' => k \in excused' \/ Pending(k)'
BY StaleForAReasonIs DEF Stale

\* A commit adds commands to a writer that had none left.
LEMMA CommitPending ==
  ASSUME TypeOK, NEW w \in Writers, NEW P, NEW status, NEW invalidation,
         Commit(w, P, status, invalidation), NEW k \in Key
  PROVE  /\ Pending(k) => Pending(k)'
         /\ k \in Deletes(invalidation) => Pending(k)'
         /\ detail' = detail
         /\ k.product \notin P => row'[k.product] = row[k.product]
<1>1. /\ todo[w] = {} /\ todo' = [todo EXCEPT ![w] = invalidation]
      /\ detail' = detail
      /\ row' = [q \in Products |->
                   IF q \in P
                   THEN Revised(q, IF status = "same" THEN row[q].status ELSE status)
                   ELSE row[q]]
  BY DEF Commit, redis
<1>2. todo \in [Writers -> SUBSET Command]
  BY DEF TypeOK
<1>3. todo'[w] = invalidation /\ \A u \in Writers \ {w} : todo'[u] = todo[u]
  BY <1>1, <1>2
<1>4. Pending(k) => Pending(k)'
  BY <1>1, <1>3 DEF Pending, Deletes
<1>5. k \in Deletes(invalidation) => Pending(k)'
  BY <1>3 DEF Pending, Deletes
<1>6. k.product \notin P => row'[k.product] = row[k.product]
  BY <1>1, KeyParts
<1>7. QED
  BY <1>1, <1>4, <1>5, <1>6

\* An invalidation by the ids K deletes their keys, and excuses what is cached of
\* the same products under others.
LEMMA KeysAccounted ==
  ASSUME NEW K \in SUBSET Key, NEW k \in Key, \E j \in K : k.product = j.product
  PROVE  \/ k \in Deletes(InvalidateProduct(K))
         \/ k \in Cached(OtherSpellings(K))
         \/ detail[k] = NoEntry
<1>1. CASE k \in K
  <2>1. [name |-> "del", key |-> k] \in InvalidateProduct(K)
    BY <1>1 DEF InvalidateProduct
  <2>2. QED
    BY <2>1 DEF Deletes
<1>2. CASE k \notin K
  BY <1>2 DEF OtherSpellings, Cached
<1>3. QED
  BY <1>1, <1>2

LEMMA MutationStale ==
  ASSUME TypeOK, StaleForAReason, Mutation
  PROVE  StaleForAReason'
<1>1. PICK w \in Writers :
        \/ \E k \in Key :
             \/ EditProduct(w, k) \/ RemoveProduct(w, k)
             \/ \E status \in Status : SetStatus(w, k, status)
        \/ \E P \in SUBSET Products : Place(w, P) \/ RemoveCategory(w, P)
        \/ ReparentCategory(w)
  BY DEF Mutation
<1> DEFINE Accounted(P, status, invalidation) ==
      /\ Commit(w, P, status, invalidation)
      /\ excused \subseteq excused'
      /\ \A k \in Key : k.product \in P =>
           k \in excused' \/ k \in Deletes(invalidation) \/ detail[k] = NoEntry
<1>2. \E P \in SUBSET Products : \E status, invalidation :
        Accounted(P, status, invalidation)
  <2>1. ASSUME NEW j \in Key, NEW status, ChangeProduct(w, j, status)
        PROVE  Accounted({j.product}, status, InvalidateProduct({j}))
    <3>1. /\ Commit(w, {j.product}, status, InvalidateProduct({j}))
          /\ excused' = excused \cup Cached(OtherSpellings({j}))
      BY <2>1 DEF ChangeProduct
    <3>2. ASSUME NEW k \in Key, k.product \in {j.product}
          PROVE  \/ k \in excused' \/ k \in Deletes(InvalidateProduct({j}))
                 \/ detail[k] = NoEntry
      <4>1. {j} \in SUBSET Key /\ \E i \in {j} : k.product = i.product
        BY <3>2
      <4>2. QED
        BY <3>1, <4>1, KeysAccounted
    <3>3. QED
      BY <3>1, <3>2
  <2>2. ASSUME NEW P \in SUBSET Products, Place(w, P)
        PROVE  \E invalidation : Accounted(P, "same", invalidation)
    <3> DEFINE K == [product : P, spelt : {Canonical}]
    <3>1. /\ Commit(w, P, "same", InvalidateProduct(K))
          /\ excused' = excused \cup Cached(OtherSpellings(K))
      BY <2>2 DEF Place
    <3>2. ASSUME NEW k \in Key, k.product \in P
          PROVE  \/ k \in excused' \/ k \in Deletes(InvalidateProduct(K))
                 \/ detail[k] = NoEntry
      <4>1. \E j \in K : k.product = j.product
        <5>1. [product |-> k.product, spelt |-> Canonical] \in K
          BY <3>2
        <5>2. QED
          BY <5>1
      <4>2. K \in SUBSET Key
        BY CartKeys
      <4> HIDE DEF K
      <4>3. QED
        BY <3>1, <4>1, <4>2, KeysAccounted
    <3> HIDE DEF K
    <3>3. QED
      BY <3>1, <3>2
  <2>3. ASSUME NEW P \in SUBSET Products, RemoveCategory(w, P)
        PROVE  Accounted(P, "same", InvalidateList)
    <3>1. /\ Commit(w, P, "same", InvalidateList)
          /\ excused' = excused \cup Cached([product : P, spelt : Spellings])
      BY <2>3 DEF RemoveCategory
    <3>2. ASSUME NEW k \in Key, k.product \in P, detail[k] # NoEntry
          PROVE  k \in Cached([product : P, spelt : Spellings])
      <4>1. k = [product |-> k.product, spelt |-> k.spelt]
        BY SMT DEF Key
      <4>2. k \in [product : P, spelt : Spellings]
        BY <3>2, <4>1, KeyParts
      <4>3. QED
        BY <3>2, <4>2 DEF Cached
    <3>3. QED
      BY <3>1, <3>2
  <2>4. ASSUME ReparentCategory(w)
        PROVE  Accounted({}, "same", InvalidateList)
    BY <2>4 DEF ReparentCategory
  <2> HIDE DEF Accounted
  <2>5. ASSUME NEW k \in Key,
               \/ EditProduct(w, k) \/ RemoveProduct(w, k)
               \/ \E status \in Status : SetStatus(w, k, status)
        PROVE  \E status : Accounted({k.product}, status, InvalidateProduct({k}))
    <3>1. \E status : ChangeProduct(w, k, status)
      BY <2>5 DEF EditProduct, RemoveProduct, SetStatus
    <3>2. QED
      BY <2>1, <3>1
  <2>6. \A k \in Key : {k.product} \in SUBSET Products
    BY KeyParts
  <2>7. QED
    BY <1>1, <2>2, <2>3, <2>4, <2>5, <2>6
<1>p. PICK P \in SUBSET Products :
        \E status, invalidation : Accounted(P, status, invalidation)
  BY <1>2
<1>3. PICK status, invalidation : Accounted(P, status, invalidation)
  BY <1>p
<1>4. ASSUME NEW k \in Key
      PROVE  Stale(k)' => k \in excused' \/ Pending(k)'
  <2>1. CASE k.product \in P
    <3>1. \/ k \in excused' \/ k \in Deletes(invalidation)
          \/ detail[k] = NoEntry
      BY <1>3, <2>1
    <3>2. (k \in Deletes(invalidation) => Pending(k)') /\ detail' = detail
      BY <1>3, CommitPending
    <3>3. QED
      BY <3>1, <3>2 DEF Stale
  <2>2. CASE k.product \notin P
    BY <1>3, <2>2, CommitPending, StaleKept
  <2>3. QED
    BY <2>1, <2>2
<1>5. QED
  BY <1>4 DEF StaleForAReason, Stale, Pending

LEMMA StaleStep == TypeOK /\ StaleForAReason /\ [Next]_vars => StaleForAReason'
<1> SUFFICES ASSUME TypeOK, StaleForAReason, [Next]_vars
             PROVE  StaleForAReason'
  OBVIOUS
<1>t. /\ todo \in [Writers -> SUBSET Command]
      /\ detail \in [Key -> [rev : Nat, status : {"active"}] \cup {NoEntry}]
      /\ target \in [Details -> Key]
  BY DEF TypeOK
\* A step that changes no row, and leaves each key current, excused or with
\* the detail and the causes of staleness it had.
<1>s. ASSUME row' = row,
             \A k \in Key :
               \/ detail'[k] \in {NoEntry, row[k.product]}
               \/ k \in excused'
               \/ /\ detail'[k] = detail[k]
                  /\ k \in excused \/ Pending(k) => k \in excused' \/ Pending(k)'
      PROVE  StaleForAReason'
  <2>1. ASSUME NEW k \in Key
        PROVE  Stale(k)' => k \in excused' \/ Pending(k)'
    <3>1. CASE detail'[k] \in {NoEntry, row[k.product]}
      BY <1>s, <3>1 DEF Stale
    <3>2. CASE /\ detail'[k] = detail[k]
               /\ k \in excused \/ Pending(k) => k \in excused' \/ Pending(k)'
      BY <1>s, <3>2, StaleKept
    <3>3. QED
      BY <1>s, <3>1, <3>2
  <2>2. QED
    BY <2>1 DEF StaleForAReason, Stale, Pending
\* A step that leaves all this alone.
<1>u. ASSUME UNCHANGED <<row, detail, todo, excused>> PROVE StaleForAReason'
  BY <1>u DEF StaleForAReason, Deletes
<1>1. CASE Mutation
  BY <1>1, MutationStale
<1>2. ASSUME NEW w \in Writers, NEW command \in todo[w], Perform(w, command)
      PROVE  StaleForAReason'
  <2>1. /\ row' = row
        /\ todo' = [todo EXCEPT ![w] = @ \ {command}]
    BY <1>2 DEF Perform, database
  <2>2. ASSUME NEW k \in Key, command # [name |-> "del", key |-> k]
        PROVE  Pending(k) => Pending(k)'
    BY <1>t, <2>1, <2>2 DEF Pending, Deletes
  <2>3. CASE command.name = "del"
    <3>1. /\ detail' = [detail EXCEPT ![command.key] = NoEntry]
          /\ excused' = excused \ {command.key}
      BY <1>2, <2>3 DEF Perform, DeleteDetail
    <3>2. ASSUME NEW k \in Key, k # command.key
          PROVE  /\ detail'[k] = detail[k]
                 /\ k \in excused \/ Pending(k) => k \in excused' \/ Pending(k)'
      <4>1. command # [name |-> "del", key |-> k]
        BY <3>2, SMT
      <4>2. QED
        BY <1>t, <2>2, <3>1, <3>2, <4>1
    <3>3. ASSUME NEW k \in Key, k = command.key
          PROVE  detail'[k] = NoEntry
      BY <1>t, <3>1, <3>3
    <3>4. QED
      BY <1>s, <2>1, <3>2, <3>3
  <2>4. CASE command.name # "del"
    <3>1. UNCHANGED <<detail, excused>>
      BY <1>2, <2>4 DEF Perform, NextVersion
    <3>2. \A k \in Key : command # [name |-> "del", key |-> k]
      BY <2>4, SMT
    <3>3. QED
      BY <1>s, <2>1, <2>2, <3>1, <3>2
  <2>5. QED
    BY <2>3, <2>4
<1>3. ASSUME NEW w \in Writers, NEW commands \in SUBSET todo[w],
             Lose(w, commands)
      PROVE  StaleForAReason'
  <2>1. /\ row' = row /\ detail' = detail
        /\ todo' = [todo EXCEPT ![w] = @ \ commands]
        /\ excused' = excused \cup Cached(Deletes(commands))
    BY <1>3 DEF Lose, database, redis
  <2>2. ASSUME NEW k \in Key, Pending(k), k \notin Deletes(commands)
        PROVE  Pending(k)'
    BY <1>t, <2>1, <2>2 DEF Pending, Deletes
  <2>3. ASSUME NEW k \in Deletes(commands)
        PROVE  k \in excused' \/ detail'[k] = NoEntry
    BY <2>1 DEF Cached
  <2>4. QED
    BY <1>s, <2>1, <2>2, <2>3
<1>4. ASSUME NEW r \in Lists, ReadVersion(r) \/ ServeList(r)
      PROVE  StaleForAReason'
  BY <1>4, <1>u DEF ReadVersion, ServeList, LookUpPage, ReadTree, ReadIds,
     ReadRows, StorePage, LeaveList, database, redis
<1>5. ASSUME NEW r \in Details,
             (\E k \in Key : AskDetail(r, k)) \/ ServeDetail(r)
      PROVE  StaleForAReason'
  <2>1. CASE Fill(r)
    <3>1. row' = row /\ todo' = todo
      BY <2>1 DEF Fill, database
    <3>2. CASE UNCHANGED <<detail, excused>>
      BY <1>u, <3>1, <3>2
    <3>3. CASE /\ detail' = [detail EXCEPT ![target[r]] = found[r]]
               /\ excused' = IF found[r] = row[target[r].product]
                             THEN excused \ {target[r]}
                             ELSE excused \cup {target[r]}
      <4>1. detail'[target[r]] = row[target[r].product] \/ target[r] \in excused'
        BY <1>t, <3>3
      <4>2. ASSUME NEW k \in Key, k # target[r]
            PROVE  /\ detail'[k] = detail[k]
                   /\ k \in excused <=> k \in excused'
                   /\ Pending(k)' <=> Pending(k)
        BY <1>t, <3>1, <3>3, <4>2 DEF Pending, Deletes
      <4>3. QED
        BY <1>s, <3>1, <4>1, <4>2
    <3>4. QED
      BY <2>1, <3>2, <3>3 DEF Fill
  <2>2. CASE \/ \E k \in Key : AskDetail(r, k)
             \/ LookUpDetail(r) \/ Load(r) \/ LeaveDetail(r)
    BY <1>u, <2>2 DEF AskDetail, LookUpDetail, Load, LeaveDetail, database, redis
  <2>3. QED
    BY <1>5, <2>1, <2>2 DEF ServeDetail
<1>6. ASSUME NEW q \in Key, ExpireDetail(q)
      PROVE  StaleForAReason'
  <2>1. /\ row' = row /\ todo' = todo
        /\ detail' = [detail EXCEPT ![q] = NoEntry]
        /\ excused' = excused \ {q}
    BY <1>6 DEF ExpireDetail, database
  <2>2. detail'[q] = NoEntry
    BY <1>t, <2>1
  <2>3. ASSUME NEW k \in Key, k # q
        PROVE  /\ detail'[k] = detail[k]
               /\ k \in excused <=> k \in excused'
               /\ Pending(k)' <=> Pending(k)
    BY <1>t, <2>1, <2>3 DEF Pending, Deletes
  <2>4. QED
    BY <1>s, <2>1, <2>2, <2>3
<1>7. ASSUME NEW v \in 0 .. listVer, ExpirePage(v)
      PROVE  StaleForAReason'
  BY <1>7, <1>u DEF ExpirePage, database
<1>8. CASE UNCHANGED vars
  BY <1>8, <1>u DEF vars, database, redis
<1>9. QED
  BY <1>1, <1>2, <1>3, <1>4, <1>5, <1>6, <1>7, <1>8 DEF Next, Mutation

-----------------------------------------------------------------------------
(***************************************************************************)
(* The invariant, and the theorems.                                        *)
(***************************************************************************)

LEMMA InvInit == Init => Inv
<1> SUFFICES ASSUME Init PROVE Inv
  OBVIOUS
<1>1. TypeOK
  BY TypeInit
<1>2. /\ listVer = 0 /\ page = [v \in {0} |-> NoEntry] /\ asOf = Now
      /\ \A r \in Lists : pc[r] = "idle" /\ owed[r] = NoRows
      /\ \A r \in Details : at[r] = "idle"
  BY DEF Init
<1>3. \A v, c : Owed(v, c) => c = NoRows \/ c = Now
  BY <1>2 DEF Owed
<1>4. Reached
  BY <1>1, <1>3, NowType, AtLeastPreorder DEF Reached
<1>5. PagesAreFresh
  <2>1. 0 .. listVer = {0}
    BY <1>2, SMT
  <2>2. QED
    BY <1>2, <2>1 DEF PagesAreFresh
<1>6. PartsAreFresh /\ ListReadsAreFresh /\ Loaded
  BY <1>2 DEF PartsAreFresh, PartFresh, ListReadsAreFresh, Loaded
<1>7. QED
  BY <1>1, <1>4, <1>5, <1>6 DEF Inv

LEMMA InvStep == Inv /\ [Next]_vars => Inv'
<1> SUFFICES ASSUME Inv, [Next]_vars PROVE Inv'
  OBVIOUS
<1>0. TypeOK /\ Loaded /\ Fresh
  BY DEF Inv, Fresh
<1>a. /\ tree \in Nat /\ listVer \in Nat
      /\ \A p \in Products : row[p].rev \in Nat
  BY <1>0, RowParts DEF TypeOK
<1>b. tree >= tree /\ \A p \in Products : row[p].rev >= row[p].rev
  BY <1>a, SMT
<1>c. ASSUME TypeOK', Fresh', UNCHANGED one \/ Loaded' PROVE Inv'
  <2>1. Loaded'
    BY <1>0, <1>c DEF Loaded, one
  <2>2. QED
    BY <1>c, <2>1 DEF Inv, Fresh
<1>1. CASE Mutation
  <2>1. /\ row' \in [Products -> Row]
        /\ \A p \in Products : row'[p].rev >= row[p].rev
        /\ tree' \in Nat /\ tree' >= tree
        /\ todo' \in [Writers -> SUBSET Command]
        /\ excused' \subseteq Key
        /\ UNCHANGED <<listVer, page, detail, list, one, asOf>>
    BY <1>0, <1>1, MutationType
  <2>2. TypeOK'
    BY <1>0, <2>1 DEF TypeOK, list, one
  <2>3. QED
    BY <1>0, <1>c, <2>1, <2>2, OtherStep
<1>2. ASSUME NEW w \in Writers, NEW command \in todo[w], Perform(w, command)
      PROVE  Inv'
  <2>1. UNCHANGED one
    BY <1>2 DEF Perform
  <2>2. CASE command.name = "del"
    <3>1. TypeOK' /\ UNCHANGED <<row, tree, listVer, page, list, asOf>>
      BY <1>0, <1>2, <2>2, DeleteType
    <3>2. QED
      BY <1>0, <1>b, <1>c, <2>1, <3>1, OtherStep
  <2>3. CASE command.name # "del"
    <3>1. NextVersion
      BY <1>2, <2>3 DEF Perform
    <3>2. /\ TypeOK'
          /\ listVer' = listVer + 1 /\ asOf' = Now
          /\ page'[listVer'] = NoEntry
          /\ \A v \in 0 .. listVer : page'[v] \in {page[v], NoEntry}
          /\ UNCHANGED <<row, tree, list>>
      BY <1>0, <1>2, <3>1, NextVersionType
    <3>3. QED
      BY <1>0, <1>c, <2>1, <3>2, NextVersionStep
  <2>4. QED
    BY <2>2, <2>3
<1>3. ASSUME NEW w \in Writers, NEW commands \in SUBSET todo[w],
             Lose(w, commands)
      PROVE  Inv'
  <2>1. TypeOK' /\ UNCHANGED <<row, tree, listVer, page, list, asOf, one>>
    BY <1>0, <1>3, LoseType DEF Lose
  <2>2. QED
    BY <1>0, <1>b, <1>c, <2>1, OtherStep
<1>4. ASSUME NEW r \in Lists, ReadVersion(r) \/ ServeList(r)
      PROVE  Inv'
  BY <1>0, <1>4, <1>c, ReadVersionStep, LookUpPageStep, ReadStep, StorePageStep,
     LeaveListStep DEF ServeList
<1>5. ASSUME NEW r \in Details,
             (\E k \in Key : AskDetail(r, k)) \/ ServeDetail(r)
      PROVE  Inv'
  <2>1. /\ TypeOK' /\ Loaded'
        /\ UNCHANGED <<row, tree, listVer, page, list, asOf>>
    BY <1>0, <1>5, DetailType
  <2>2. QED
    BY <1>0, <1>b, <1>c, <2>1, OtherStep
<1>6. CASE \/ \E k \in Key : ExpireDetail(k)
           \/ \E v \in 0 .. listVer : ExpirePage(v)
  <2>1. /\ TypeOK'
        /\ \A v \in 0 .. listVer : page'[v] \in {page[v], NoEntry}
        /\ UNCHANGED <<row, tree, listVer, list, asOf>>
    BY <1>0, <1>6, ExpiryType
  <2>2. UNCHANGED one
    BY <1>6 DEF ExpireDetail, ExpirePage
  <2>3. QED
    BY <1>0, <1>b, <1>c, <2>1, <2>2, OtherStep
<1>7. CASE UNCHANGED vars
  <2>1. UNCHANGED <<row, tree, listVer, page, detail, todo, list, one, asOf,
                    excused>>
    BY <1>7 DEF vars, database, redis
  <2>2. TypeOK'
    BY <1>0, <2>1 DEF TypeOK, list, one
  <2>3. QED
    BY <1>0, <1>b, <1>c, <2>1, <2>2, OtherStep
<1>8. QED
  <2>1. Next =>
          \/ Mutation
          \/ \E w \in Writers : \E command \in todo[w] : Perform(w, command)
          \/ \E w \in Writers : \E commands \in SUBSET todo[w] : Lose(w, commands)
          \/ \E r \in Lists : ReadVersion(r) \/ ServeList(r)
          \/ \E r \in Details :
               (\E k \in Key : AskDetail(r, k)) \/ ServeDetail(r)
          \/ \E k \in Key : ExpireDetail(k)
          \/ \E v \in 0 .. listVer : ExpirePage(v)
    BY DEF Next, Mutation
  <2>2. QED
    BY <1>1, <1>2, <1>3, <1>4, <1>5, <1>6, <1>7, <2>1

\* Whatever mutations, reads, fills, lost commands and expiry do, cached pages
\* and pages being put together are as new as their version promises
\* (cache/catalog-cache.service.ts:78-106).
THEOREM Invariance == Spec => []Inv
<1>1. Init => Inv
  BY InvInit
<1>2. Inv /\ [Next]_vars => Inv'
  BY InvStep
<1>3. QED
  BY <1>1, <1>2, PTL DEF Spec

\* Every variable keeps to its kind; only active products are cached as details
\* (products/products.service.ts:106-119).
THEOREM TypeCorrect == Spec => []TypeOK
<1>1. Inv => TypeOK
  BY DEF Inv
<1>2. QED
  BY <1>1, Invariance, PTL

\* "Mutating a product increments a version counter so stale list pages are
\* instantly invalidated" (README): no list read is answered with anything older
\* than the last increment before it, whatever interleaves.
THEOREM ListReadsStayFresh == Spec => []ListReadsAreFresh
<1>1. Inv => ListReadsAreFresh
  BY DEF Inv
<1>2. QED
  BY <1>1, Invariance, PTL

\* These are all the ways a cached detail can be stale: its DEL is still to come,
\* was lost, or was overtaken by a read that had loaded before it; or what changed
\* the product was the removal of a category, or named it by another spelling of
\* its id (cache/catalog-cache.service.ts:92-123, products/products.service.ts:
\* 107-119, 226, 255, 265).
THEOREM StalenessHasAReason == Spec => []StaleForAReason
<1>1. Init => StaleForAReason
  BY DEF Init, StaleForAReason
<1>2. Inv /\ StaleForAReason /\ [Next]_vars => StaleForAReason'
  BY StaleStep DEF Inv
<1>3. QED
  BY <1>1, <1>2, Invariance, PTL DEF Spec

-----------------------------------------------------------------------------
(***************************************************************************)
(* Exact pages.  A revision says which row it is of; so a page that is not *)
(* older than the catalog, and has been read from it, is the catalog.      *)
(***************************************************************************)

\* Rows that the catalog has, or had before it changed them.
Had(rows) == \A p \in Products : rows[p].rev < row[p].rev \/ rows[p] = row[p]

Taken(c) == c.tree <= tree /\ Had(c.rows)

\* Pages, and what requests have of them so far, were read from the catalog.
PagesWereTaken == \A v \in 0 .. listVer : page[v] # NoEntry => Taken(page[v])

PartsWereTaken ==
  \A r \in Lists :
    /\ pc[r] \in {"ids", "rows", "store"} => seen[r].tree <= tree
    /\ pc[r] \in {"rows", "store"} => Had(seen[r].rows)

\* Once the version was incremented after the last change, a cached page under
\* it, if there is one, is the catalog of now.
PagesAreExact == asOf = Now /\ page[listVer] # NoEntry => page[listVer] = Now

\* A mutation gives what it changes a new revision.
LEMMA CommitRevises ==
  ASSUME TypeOK, NEW w \in Writers, NEW P \in SUBSET Products, NEW status,
         NEW invalidation, Commit(w, P, status, invalidation)
  PROVE  \A p \in Products : row'[p] = row[p] \/ row'[p].rev = row[p].rev + 1
<1> SUFFICES ASSUME NEW p \in Products
             PROVE  row'[p] = row[p] \/ row'[p].rev = row[p].rev + 1
  OBVIOUS
<1>1. CASE p \notin P
  BY <1>1 DEF Commit
<1>2. CASE p \in P
  <2>1. \E s : row'[p] = Revised(p, s)
    BY <1>2 DEF Commit
  <2>2. \A s : Revised(p, s).rev = row[p].rev + 1
    BY SMT DEF Revised
  <2>3. QED
    BY <2>1, <2>2
<1>3. QED
  BY <1>1, <1>2

LEMMA MutationRevises ==
  ASSUME TypeOK, Mutation
  PROVE  \A p \in Products : row'[p] = row[p] \/ row'[p].rev = row[p].rev + 1
<1>1. ASSUME NEW k \in Key, NEW w \in Writers, NEW status,
             ChangeProduct(w, k, status)
      PROVE  \A p \in Products : row'[p] = row[p] \/ row'[p].rev = row[p].rev + 1
  <2>1. {k.product} \in SUBSET Products
    BY KeyParts
  <2>2. QED
    BY <1>1, <2>1, CommitRevises DEF ChangeProduct
<1>2. QED
  BY <1>1, CommitRevises DEF Mutation, EditProduct, RemoveProduct, SetStatus, Place,
     RemoveCategory, ReparentCategory

\* What was taken from the catalog before a change was taken from it.
LEMMA TakenStays ==
  ASSUME TypeOK, tree' \in Nat, tree' >= tree,
         \A p \in Products : row'[p] = row[p] \/ row'[p].rev = row[p].rev + 1,
         NEW c \in Catalog
  PROVE  /\ c.tree <= tree => c.tree <= tree'
         /\ Had(c.rows) =>
              \A p \in Products : c.rows[p].rev < row'[p].rev \/ c.rows[p] = row'[p]
<1>1. c.tree \in Nat /\ tree \in Nat
      /\ \A p \in Products : c.rows[p].rev \in Nat /\ row[p].rev \in Nat
  BY CatalogParts, RowParts DEF TypeOK
<1>2. c.tree <= tree => c.tree <= tree'
  BY <1>1, SMT
<1>3. ASSUME Had(c.rows), NEW p \in Products
      PROVE  c.rows[p].rev < row'[p].rev \/ c.rows[p] = row'[p]
  <2>1. c.rows[p].rev < row[p].rev \/ c.rows[p] = row[p]
    BY <1>3 DEF Had
  <2>2. CASE row'[p] = row[p]
    BY <2>1, <2>2
  <2>3. CASE row'[p].rev = row[p].rev + 1
    BY <1>1, <2>1, <2>3, SMT
  <2>4. QED
    BY <2>2, <2>3
<1>4. QED
  BY <1>2, <1>3

\* A step that leaves list requests alone, and may forget pages, or take away
\* nothing but add a version.
LEMMA TakenElsewhere ==
  ASSUME TypeOK, PagesWereTaken, PartsWereTaken, UNCHANGED list,
         tree' \in Nat, tree' >= tree,
         \A p \in Products : row'[p] = row[p] \/ row'[p].rev = row[p].rev + 1,
         \A v \in 0 .. listVer' :
           page'[v] = NoEntry \/ (v \in 0 .. listVer /\ page'[v] = page[v])
  PROVE  PagesWereTaken' /\ PartsWereTaken'
<1> USE ListTypes
<1>1. ASSUME NEW c \in Catalog, Taken(c)
      PROVE  c.tree <= tree'
             /\ \A p \in Products : c.rows[p].rev < row'[p].rev \/ c.rows[p] = row'[p]
  BY <1>1, TakenStays DEF Taken
<1>2. ASSUME NEW v \in 0 .. listVer', page'[v] # NoEntry
      PROVE  page'[v].tree <= tree'
             /\ \A p \in Products :
                  page'[v].rows[p].rev < row'[p].rev \/ page'[v].rows[p] = row'[p]
  <2>1. v \in 0 .. listVer /\ page'[v] = page[v] /\ page[v] # NoEntry
    BY <1>2
  <2>2. page[v] \in Catalog /\ Taken(page[v])
    BY <2>1 DEF PagesWereTaken
  <2>3. QED
    BY <1>1, <2>1, <2>2
<1>3. PagesWereTaken'
  BY <1>2 DEF PagesWereTaken, Taken, Had
<1>4. pc' = pc /\ seen' = seen
  BY DEF list
<1>5. ASSUME NEW r \in Lists
      PROVE  /\ pc[r] \in {"ids", "rows", "store"} => seen[r].tree <= tree'
             /\ pc[r] \in {"rows", "store"} =>
                  \A p \in Products :
                    seen[r].rows[p].rev < row'[p].rev \/ seen[r].rows[p] = row'[p]
  BY TakenStays DEF PartsWereTaken
<1>6. PartsWereTaken'
  BY <1>4, <1>5 DEF PartsWereTaken, Had
<1>7. QED
  BY <1>3, <1>6

\* A step of list request r.
LEMMA TakenByRequest ==
  ASSUME TypeOK, PagesWereTaken, PartsWereTaken, NEW r \in Lists,
         UNCHANGED <<row, tree, listVer>>,
         \A q \in Lists \ {r} : pc'[q] = pc[q] /\ seen'[q] = seen[q],
         \A v \in 0 .. listVer :
           page'[v] = page[v] \/ (pc[r] = "store" /\ page'[v] = seen[r]),
         pc'[r] \in {"ids", "rows", "store"} => seen'[r].tree <= tree,
         pc'[r] \in {"rows", "store"} => Had(seen'[r].rows)
  PROVE  PagesWereTaken' /\ PartsWereTaken'
<1>1. PartsWereTaken'
  <2>1. ASSUME NEW q \in Lists
        PROVE  /\ pc'[q] \in {"ids", "rows", "store"} => seen'[q].tree <= tree
               /\ pc'[q] \in {"rows", "store"} => Had(seen'[q].rows)
    BY DEF PartsWereTaken
  <2>2. QED
    BY <2>1 DEF PartsWereTaken, Had
<1>2. PagesWereTaken'
  <2>1. ASSUME NEW v \in 0 .. listVer, page'[v] # NoEntry PROVE Taken(page'[v])
    <3>1. pc[r] = "store" => Taken(seen[r])
      BY DEF PartsWereTaken, Taken
    <3>2. QED
      BY <2>1, <3>1 DEF PagesWereTaken
  <2>2. QED
    BY <2>1 DEF PagesWereTaken, Taken, Had
<1>3. QED
  BY <1>1, <1>2

LEMMA TakenByList ==
  ASSUME TypeOK, PagesWereTaken, PartsWereTaken, NEW r \in Lists,
         ReadVersion(r) \/ ServeList(r)
  PROVE  PagesWereTaken' /\ PartsWereTaken'
<1> USE ListTypes
<1>1. /\ UNCHANGED <<row, tree, listVer>>
      /\ \A q \in Lists \ {r} : pc'[q] = pc[q] /\ seen'[q] = seen[q]
  BY DEF ReadVersion, ServeList, LookUpPage, ReadTree, ReadIds, ReadRows, StorePage,
     LeaveList, Goto, database, redis
<1>2. CASE ReadVersion(r) \/ LookUpPage(r) \/ LeaveList(r)
  <2>1. page' = page /\ pc'[r] \in {"look up", "answered", "tree", "idle"}
    BY <1>2 DEF ReadVersion, LookUpPage, LeaveList, Goto, redis
  <2>2. pc'[r] \notin {"ids", "rows", "store"}
    BY <2>1
  <2>3. QED
    BY <1>1, <2>1, <2>2, TakenByRequest
<1>3. CASE ReadTree(r)
  <2>1. /\ page' = page /\ pc'[r] = "ids"
        /\ seen'[r] = [tree |-> tree, rows |-> seen[r].rows]
    BY <1>3 DEF ReadTree, Goto, redis
  <2>2. seen'[r].tree = tree /\ pc'[r] \notin {"rows", "store"}
    BY <2>1
  <2>3. tree <= tree
    BY SMT
  <2>4. QED
    BY <1>1, <2>1, <2>2, <2>3, TakenByRequest
<1>4. CASE ReadIds(r)
  <2>1. /\ page' = page /\ pc[r] = "ids"
        /\ seen'[r] = [tree |-> seen[r].tree, rows |-> row]
    BY <1>4 DEF ReadIds, Goto, redis
  <2>2. seen'[r].tree = seen[r].tree /\ seen'[r].rows = row
    BY <2>1
  <2>3. seen[r].tree <= tree /\ Had(row)
    BY <2>1 DEF PartsWereTaken, Had
  <2>4. QED
    BY <1>1, <2>1, <2>2, <2>3, TakenByRequest
<1>5. CASE ReadRows(r)
  <2>1. page' = page /\ pc[r] = "rows" /\ seen'[r] = Refreshed(seen[r])
    BY <1>5 DEF ReadRows, Goto, redis
  <2>2. seen'[r].tree = seen[r].tree
    BY <2>1 DEF Refreshed
  <2>3. \A p \in Products : seen'[r].rows[p] \in {row[p], seen[r].rows[p]}
    BY <2>1 DEF Refreshed
  <2>4. seen[r].tree <= tree /\ Had(seen[r].rows)
    BY <2>1 DEF PartsWereTaken
  <2>5. Had(seen'[r].rows)
    BY <2>3, <2>4 DEF Had
  <2>6. QED
    BY <1>1, <2>1, <2>2, <2>4, <2>5, TakenByRequest
<1>6. CASE StorePage(r)
  <2>1. /\ page' \in {page, [page EXCEPT ![version[r]] = seen[r]]}
        /\ pc[r] = "store" /\ pc'[r] = "answered"
    BY <1>6 DEF StorePage, Goto
  <2>2. \A v \in 0 .. listVer : page'[v] = page[v] \/ page'[v] = seen[r]
    BY <2>1
  <2>3. pc'[r] \notin {"ids", "rows", "store"}
    BY <2>1
  <2>4. QED
    BY <1>1, <2>1, <2>2, <2>3, TakenByRequest
<1>7. QED
  BY <1>2, <1>3, <1>4, <1>5, <1>6 DEF ServeList

LEMMA TakenStep ==
  ASSUME TypeOK, PagesWereTaken, PartsWereTaken, [Next]_vars
  PROVE  PagesWereTaken' /\ PartsWereTaken'
<1>1. tree \in Nat /\ tree >= tree /\ listVer \in Nat
  <2>1. tree \in Nat /\ listVer \in Nat
    BY DEF TypeOK
  <2>2. QED
    BY <2>1, SMT
\* Steps that leave the database and the requests alone, and at most forget pages.
<1>2. ASSUME UNCHANGED <<row, tree, listVer, list>>,
             \A v \in 0 .. listVer : page'[v] \in {page[v], NoEntry}
      PROVE  PagesWereTaken' /\ PartsWereTaken'
  <2>1. /\ tree' \in Nat /\ tree' >= tree /\ UNCHANGED list
        /\ \A p \in Products : row'[p] = row[p]
    BY <1>1, <1>2
  <2>2. \A v \in 0 .. listVer' :
          page'[v] = NoEntry \/ (v \in 0 .. listVer /\ page'[v] = page[v])
    BY <1>2
  <2>3. QED
    BY <2>1, <2>2, TakenElsewhere
<1>3. CASE Mutation
  <2>1. /\ tree' \in Nat /\ tree' >= tree
        /\ UNCHANGED <<listVer, page, list>>
    BY <1>3, MutationType
  <2>2. QED
    BY <1>3, <2>1, MutationRevises, TakenElsewhere
<1>4. ASSUME NEW w \in Writers, NEW command \in todo[w], Perform(w, command)
      PROVE  PagesWereTaken' /\ PartsWereTaken'
  <2>1. CASE command.name = "del"
    BY <1>2, <1>4, <2>1, DeleteType
  <2>2. CASE command.name # "del"
    <3>1. NextVersion
      BY <1>4, <2>2 DEF Perform
    <3>2. /\ listVer' = listVer + 1
          /\ page'[listVer'] = NoEntry
          /\ \A v \in 0 .. listVer : page'[v] \in {page[v], NoEntry}
          /\ UNCHANGED <<row, tree, list>>
      BY <1>4, <3>1, NextVersionType
    <3>3. \A v \in 0 .. listVer' : v \in 0 .. listVer \/ v = listVer'
      BY <1>1, <3>2, SMT
    <3>4. \A v \in 0 .. listVer' :
            page'[v] = NoEntry \/ (v \in 0 .. listVer /\ page'[v] = page[v])
      BY <3>2, <3>3
    <3>5. /\ tree' \in Nat /\ tree' >= tree /\ UNCHANGED list
          /\ \A p \in Products : row'[p] = row[p]
      BY <1>1, <3>2
    <3>6. QED
      BY <3>4, <3>5, TakenElsewhere
  <2>3. QED
    BY <2>1, <2>2
<1>5. ASSUME NEW w \in Writers, NEW commands \in SUBSET todo[w], Lose(w, commands)
      PROVE  PagesWereTaken' /\ PartsWereTaken'
  BY <1>2, <1>5, LoseType
<1>6. ASSUME NEW r \in Lists, ReadVersion(r) \/ ServeList(r)
      PROVE  PagesWereTaken' /\ PartsWereTaken'
  BY <1>6, TakenByList
<1>7. ASSUME NEW r \in Details,
             (\E k \in Key : AskDetail(r, k)) \/ ServeDetail(r)
      PROVE  PagesWereTaken' /\ PartsWereTaken'
  <2>1. UNCHANGED <<row, tree, listVer, page, list>>
    BY <1>7 DEF AskDetail, ServeDetail, LookUpDetail, Load, Fill, LeaveDetail,
       database, redis
  <2>2. QED
    BY <1>2, <2>1
<1>8. CASE \/ \E k \in Key : ExpireDetail(k)
           \/ \E v \in 0 .. listVer : ExpirePage(v)
  BY <1>2, <1>8, ExpiryType
<1>9. CASE UNCHANGED vars
  <2>1. UNCHANGED <<row, tree, listVer, page, list>>
    BY <1>9 DEF vars, database, redis
  <2>2. QED
    BY <1>2, <2>1
<1>10. QED
  BY <1>3, <1>4, <1>5, <1>6, <1>7, <1>8, <1>9 DEF Next, Mutation

\* "Stale list pages are instantly invalidated" (README), from the side of the
\* cache: when the increment for the last change has been made, what is cached
\* under the current version is exactly the catalog, however late its fill came
\* and whatever was read and lost meanwhile. Pages of older versions may differ;
\* of those only version 0 is still given out, to who cannot read the version.
THEOREM CachedPagesAreExact == Spec => []PagesAreExact
<1>1. Init => PagesWereTaken /\ PartsWereTaken
  <2> SUFFICES ASSUME Init PROVE PagesWereTaken /\ PartsWereTaken
    OBVIOUS
  <2>1. listVer = 0 /\ page = [v \in {0} |-> NoEntry] /\ \A r \in Lists : pc[r] = "idle"
    BY DEF Init
  <2>2. 0 .. listVer = {0}
    BY <2>1, SMT
  <2>3. QED
    BY <2>1, <2>2 DEF PagesWereTaken, PartsWereTaken
<1>2. Inv /\ PagesWereTaken /\ PartsWereTaken /\ [Next]_vars =>
        PagesWereTaken' /\ PartsWereTaken'
  BY TakenStep DEF Inv
<1>3. Inv /\ PagesWereTaken => PagesAreExact
  <2> SUFFICES ASSUME Inv, PagesWereTaken, asOf = Now, page[listVer] # NoEntry
               PROVE  page[listVer] = Now
    BY DEF PagesAreExact
  <2> DEFINE c == page[listVer]
  <2>1. listVer \in 0 .. listVer /\ c \in Catalog /\ Now \in Catalog
    <3>1. listVer \in Nat /\ page \in [0 .. listVer -> Catalog \cup {NoEntry}]
      BY DEF Inv, TypeOK
    <3>2. listVer \in 0 .. listVer
      BY <3>1, SMT
    <3>3. QED
      BY <3>1, <3>2, NowType DEF Inv
  <2>2. Owed(listVer, Now)
    BY DEF Owed
  <2>3. AtLeast(c, Now)
    BY <2>1, <2>2 DEF Inv, PagesAreFresh
  <2>4. Taken(c)
    BY <2>1 DEF PagesWereTaken
  <2> HIDE DEF c
  <2>5. c.tree = tree
    <3>1. c.tree >= tree /\ c.tree <= tree
      BY <2>3, <2>4, NowParts DEF AtLeast, Taken
    <3>2. c.tree \in Nat /\ tree \in Nat
      BY <2>1, CatalogParts DEF Inv, TypeOK
    <3>3. QED
      BY <3>1, <3>2, SMT
  <2>6. ASSUME NEW p \in Products PROVE c.rows[p] = row[p]
    <3>1. c.rows[p].rev >= row[p].rev
      BY <2>3, NowParts DEF AtLeast
    <3>2. c.rows[p].rev < row[p].rev \/ c.rows[p] = row[p]
      BY <2>4 DEF Taken, Had
    <3>3. c.rows[p].rev \in Nat /\ row[p].rev \in Nat
      BY <2>1, CatalogParts, RowParts DEF Inv, TypeOK
    <3>4. QED
      BY <3>1, <3>2, <3>3, SMT
  <2>7. c.rows = row
    <3>1. c.rows \in [Products -> Row] /\ row \in [Products -> Row]
      BY <2>1, CatalogParts DEF Inv, TypeOK
    <3>2. c.rows = [p \in Products |-> c.rows[p]] /\ row = [p \in Products |-> row[p]]
      BY <3>1
    <3>3. QED
      BY <2>6, <3>2
  <2>8. c = [tree |-> c.tree, rows |-> c.rows]
    BY <2>1, SMT DEF Catalog
  <2>9. c = Now
    BY <2>5, <2>7, <2>8 DEF Now
  <2>10. QED
    BY <2>9 DEF c
<1>4. QED
  BY <1>1, <1>2, <1>3, Invariance, PTL DEF Spec

=============================================================================
