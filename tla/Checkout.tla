------------------------------- MODULE Checkout -------------------------------
(***************************************************************************)
(* OrdersService.place (orders/orders.service.ts) running many times at    *)
(* once, against the sellers' product endpoints                            *)
(* (products/products.service.ts), over one PostgreSQL database.           *)
(*                                                                         *)
(* One checkout merges the posted lines, then in one READ COMMITTED        *)
(* transaction locks the rows of its products with SELECT ... FOR UPDATE,  *)
(* checks and decrements them line by line on its own copies, writes the   *)
(* order and commits; afterwards it invalidates the caches and opens the   *)
(* payment.  Each of these is a step that others may interleave with.      *)
(*                                                                         *)
(* PostgreSQL is modelled from how the code uses it: FOR UPDATE takes row  *)
(* locks one row at a time in the order of the plan (there is no ORDER     *)
(* BY), a statement that meets a locked row waits and then sees the row's  *)
(* latest committed version, a wait cycle costs one of its members its     *)
(* transaction, rollback restores everything and both ends of a            *)
(* transaction free its locks.  A seller's UPDATE or DELETE is a           *)
(* transaction of one statement on one row, so it is one step that needs   *)
(* the row unlocked.                                                       *)
(*                                                                         *)
(* What invalidation does to Redis is not modelled here; it only has its   *)
(* place in the order of steps.                                            *)
(*                                                                         *)
(* Operators introduced by "Fault" are not part of the model: each is the  *)
(* definition after it with a mistake in it, kept to show that some        *)
(* property notices that mistake.                                          *)
(***************************************************************************)
EXTENDS Shop

VARIABLES
  \* The database.
  product,    \* table product (committed rows)
  orderItem,  \* table order_item (committed rows)
  order,      \* table "order": the checkouts whose order row is committed
  payment,    \* table payment: the checkouts whose payment row is saved
  locked,     \* the rows each transaction has locked FOR UPDATE
  \* The local variables of each call of place.
  pc,         \* where the call is
  items,      \* dto.items
  merged,     \* how many of them are in "wanted"
  wanted,     \* the Map of merged quantities (0: no entry)
  waiting,    \* the row the scan has reached, at most one
  scanned,    \* the rows the scan is past
  byId,       \* the entities read under lock, as this call has changed them
  reserved,   \* the lines of "wanted" already saved
  \* History, for the properties only.
  offered,    \* the stock figure the seller set last
  sold        \* units of committed orders since then

table == <<product, orderItem, order, payment>>
local == <<items, merged, wanted, waiting, scanned, byId, reserved>>
history == <<offered, sold>>
vars == <<table, locked, pc, local, history>>

InTransaction == {"locking", "reserving"}
AfterCommit == {"invalidating", "paying"}
Ended == {"replied", "rejected", "failed", "crashed"}
Stages == {"idle", "merging"} \cup InTransaction \cup AfterCommit \cup Ended

EmptyCart == [p \in Products |-> 0]
NoRows == [p \in Products |-> NoRow]

InCart(c) == {p \in Products : wanted[c][p] > 0}

Init ==
  /\ product \in [Products -> [status : ProductStatus, stock : StockLevels,
                               terms : Terms]]
  /\ orderItem = {}
  /\ order = {}
  /\ payment = {}
  /\ locked = [c \in Checkouts |-> {}]
  /\ pc = [c \in Checkouts |-> "idle"]
  /\ items = [c \in Checkouts |-> <<>>]
  /\ merged = [c \in Checkouts |-> 0]
  /\ wanted = [c \in Checkouts |-> EmptyCart]
  /\ waiting = [c \in Checkouts |-> {}]
  /\ scanned = [c \in Checkouts |-> {}]
  /\ byId = [c \in Checkouts |-> NoRows]
  /\ reserved = [c \in Checkouts |-> {}]
  /\ offered = [p \in Products |-> product[p].stock]
  /\ sold = [p \in Products |-> 0]

(***************************************************************************)
(* A call of place                                                         *)
(***************************************************************************)

Goto(c, stage) == pc' = [pc EXCEPT ![c] = stage]

\* The request arrives, with at least one line (ArrayMinSize(1)).
Receive(c) ==
  /\ pc[c] = "idle"
  /\ \E dto \in Carts : dto # <<>> /\ items' = [items EXCEPT ![c] = dto]
  /\ Goto(c, "merging")
  /\ UNCHANGED <<table, locked, merged, wanted, waiting, scanned, byId,
                 reserved, history>>

\* Fault: wanted.set(id, quantity), a second line replacing the first.
MergeLineReplacing(c) ==
  /\ pc[c] = "merging"
  /\ merged[c] < Len(items[c])
  /\ merged' = [merged EXCEPT ![c] = @ + 1]
  /\ LET line == items[c][merged[c] + 1] IN
       wanted' = [wanted EXCEPT ![c][line.product] = line.quantity]
  /\ UNCHANGED <<table, locked, pc, items, waiting, scanned, byId, reserved,
                 history>>

\* wanted.set(id, (wanted.get(id) ?? 0) + quantity)
MergeLine(c) ==
  /\ pc[c] = "merging"
  /\ merged[c] < Len(items[c])
  /\ merged' = [merged EXCEPT ![c] = @ + 1]
  /\ LET line == items[c][merged[c] + 1] IN
       wanted' = [wanted EXCEPT ![c][line.product] = @ + line.quantity]
  /\ UNCHANGED <<table, locked, pc, items, waiting, scanned, byId, reserved,
                 history>>

BeginTransaction(c) ==
  /\ pc[c] = "merging"
  /\ merged[c] = Len(items[c])
  /\ Goto(c, "locking")
  /\ UNCHANGED <<table, locked, local, history>>

\* SELECT ... WHERE id IN (...) FOR UPDATE reaches its next row.
ScanRow(c, p) ==
  /\ pc[c] = "locking"
  /\ waiting[c] = {}
  /\ p \in InCart(c) \ scanned[c]
  /\ waiting' = [waiting EXCEPT ![c] = {p}]
  /\ UNCHANGED <<table, locked, pc, items, merged, wanted, scanned, byId,
                 reserved, history>>

Unlocked(p) == \A c \in Checkouts : p \notin locked[c]

\* Fault: no setLock('pessimistic_write'): rows are read without locking them.
LockRowUnlocked(c, p) ==
  /\ pc[c] = "locking"
  /\ p \in waiting[c]
  /\ byId' = [byId EXCEPT ![c][p] = product[p]]
  /\ waiting' = [waiting EXCEPT ![c] = {}]
  /\ scanned' = [scanned EXCEPT ![c] = @ \cup {p}]
  /\ Goto(c, IF InCart(c) \subseteq scanned[c] \cup {p} THEN "reserving"
             ELSE "locking")
  /\ UNCHANGED <<table, locked, items, merged, wanted, reserved, history>>

\* The row it waited for is free: it is locked and returned in its latest
\* version, or skipped if it is gone.  After the last row the loop starts.
LockRow(c, p) ==
  /\ pc[c] = "locking"
  /\ p \in waiting[c]
  /\ Unlocked(p)
  /\ locked' = [locked EXCEPT ![c] = IF product[p] = NoRow THEN @
                                     ELSE @ \cup {p}]
  /\ byId' = [byId EXCEPT ![c][p] = product[p]]
  /\ waiting' = [waiting EXCEPT ![c] = {}]
  /\ scanned' = [scanned EXCEPT ![c] = @ \cup {p}]
  /\ Goto(c, IF InCart(c) \subseteq scanned[c] \cup {p} THEN "reserving"
             ELSE "locking")
  /\ UNCHANGED <<table, items, merged, wanted, reserved, history>>

\* Fault: the stock check is missing.
AvailableOutOfStock(c, p) ==
  /\ byId[c][p] # NoRow
  /\ byId[c][p].status = "active"
  /\ \A q \in reserved[c] :
       Currency[byId[c][p].terms] = Currency[byId[c][q].terms]

\* Fault: the currency check is missing.
AvailableInAnyCurrency(c, p) ==
  /\ byId[c][p] # NoRow
  /\ byId[c][p].status = "active"
  /\ wanted[c][p] <= byId[c][p].stock

\* The three checks on one line of the loop: the product is there and active,
\* has the stock, and is priced in the currency of the lines before it.
Available(c, p) ==
  /\ byId[c][p] # NoRow
  /\ byId[c][p].status = "active"
  /\ wanted[c][p] <= byId[c][p].stock
  /\ \A q \in reserved[c] :
       Currency[byId[c][p].terms] = Currency[byId[c][q].terms]

\* Fault: the product is saved through its repository, not through "manager",
\* so at once and outside the transaction.
ReserveLineAtOnce(c, p) ==
  /\ pc[c] = "reserving"
  /\ p \in InCart(c) \ reserved[c]
  /\ Available(c, p)
  /\ byId' = [byId EXCEPT ![c][p] = WithStock(@, @.stock - wanted[c][p])]
  /\ product' = [product EXCEPT ![p] = byId'[c][p]]
  /\ reserved' = [reserved EXCEPT ![c] = @ \cup {p}]
  /\ UNCHANGED <<orderItem, order, payment, locked, pc, items, merged, wanted,
                 waiting, scanned, history>>

\* product.stock -= quantity; manager.save(Product, product).  The loop follows
\* the insertion order of the Map; here the lines come in any order, which
\* only decides which of several errors a bad cart is answered with.
ReserveLine(c, p) ==
  /\ pc[c] = "reserving"
  /\ p \in InCart(c) \ reserved[c]
  /\ Available(c, p)
  /\ byId' = [byId EXCEPT ![c][p] = WithStock(@, @.stock - wanted[c][p])]
  /\ reserved' = [reserved EXCEPT ![c] = @ \cup {p}]
  /\ UNCHANGED <<table, locked, pc, items, merged, wanted, waiting, scanned,
                 history>>

\* Fault: the transaction is never released, and keeps its locks.
EndTransactionKeepingLocks(c, stage) ==
  /\ Goto(c, stage)
  /\ waiting' = [waiting EXCEPT ![c] = {}]
  /\ scanned' = [scanned EXCEPT ![c] = {}]
  /\ byId' = [byId EXCEPT ![c] = NoRows]
  /\ reserved' = [reserved EXCEPT ![c] = {}]
  /\ UNCHANGED <<locked, items, merged, wanted>>

\* The transaction ends: its locks and its private copies are gone.
EndTransaction(c, stage) ==
  /\ Goto(c, stage)
  /\ locked' = [locked EXCEPT ![c] = {}]
  /\ waiting' = [waiting EXCEPT ![c] = {}]
  /\ scanned' = [scanned EXCEPT ![c] = {}]
  /\ byId' = [byId EXCEPT ![c] = NoRows]
  /\ reserved' = [reserved EXCEPT ![c] = {}]
  /\ UNCHANGED <<items, merged, wanted>>

\* A check fails: BadRequest or Conflict, and the transaction rolls back.
RejectLine(c, p) ==
  /\ pc[c] = "reserving"
  /\ p \in InCart(c) \ reserved[c]
  /\ ~Available(c, p)
  /\ EndTransaction(c, "rejected")
  /\ UNCHANGED <<table, history>>

OrderItems(c) ==
  {[order |-> c, product |-> p, quantity |-> wanted[c][p],
    terms |-> byId[c][p].terms, linked |-> TRUE] : p \in InCart(c)}

\* manager.save(newOrder) with its items, and COMMIT.
Commit(c) ==
  /\ pc[c] = "reserving"
  /\ reserved[c] = InCart(c)
  /\ product' = [p \in Products |->
                   IF p \in reserved[c]
                   THEN WithStock(product[p], byId[c][p].stock)
                   ELSE product[p]]
  /\ order' = order \cup {c}
  /\ orderItem' = orderItem \cup OrderItems(c)
  /\ sold' = [p \in Products |-> sold[p] + wanted[c][p]]
  /\ EndTransaction(c, "invalidating")
  /\ UNCHANGED <<payment, offered>>

\* Promise.all(productIds.map(invalidateProduct)).
InvalidateProducts(c) ==
  /\ pc[c] = "invalidating"
  /\ Goto(c, "paying")
  /\ UNCHANGED <<table, locked, local, history>>

\* paymentService.createForOrder: the row is saved, or the provider (or the
\* save) failed and the order stays without one.  Either way the call replies.
OpenPayment(c) ==
  /\ pc[c] = "paying"
  /\ payment' \in {payment, payment \cup {c}}
  /\ Goto(c, "replied")
  /\ UNCHANGED <<product, orderItem, order, locked, local, history>>

(***************************************************************************)
(* What goes wrong                                                         *)
(***************************************************************************)

\* Every member of D waits for a row that a member of D has locked, and every
\* member is waited for: D is made of wait cycles.
WaitCycle(D) ==
  /\ \A c \in D : \E d \in D : waiting[c] \cap locked[d] # {}
  /\ \A d \in D : \E c \in D : waiting[c] \cap locked[d] # {}

\* PostgreSQL's deadlock detector aborts a member of a cycle; place has no
\* retry, so the caller gets a 500.
DeadlockVictim(c) ==
  /\ \E D \in SUBSET Checkouts : c \in D /\ WaitCycle(D)
  /\ EndTransaction(c, "failed")
  /\ UNCHANGED <<table, history>>

\* A statement fails, the connection drops or the process dies before COMMIT.
Rollback(c) ==
  /\ pc[c] \in {"merging"} \cup InTransaction
  /\ EndTransaction(c, "failed")
  /\ UNCHANGED <<table, history>>

\* The process dies after COMMIT: the order stays, the rest is never done.
Crash(c) ==
  /\ pc[c] \in AfterCommit
  /\ Goto(c, "crashed")
  /\ UNCHANGED <<table, locked, local, history>>

(***************************************************************************)
(* The sellers                                                             *)
(***************************************************************************)

\* A statement on one row: the row exists and no transaction holds it.
CanWrite(p) == product[p] # NoRow /\ Unlocked(p)

\* ProductsService.update: UPDATE product SET <the fields of the body>.
UpdateProduct(p, dto) ==
  /\ CanWrite(p)
  /\ product' = [product EXCEPT ![p] =
       [status |-> @.status,
        stock |-> IF dto.stock = Unset THEN @.stock ELSE dto.stock,
        terms |-> IF dto.terms = Unset THEN @.terms ELSE dto.terms]]
  /\ offered' = IF dto.stock = Unset THEN offered
                ELSE [offered EXCEPT ![p] = dto.stock]
  /\ sold' = IF dto.stock = Unset THEN sold ELSE [sold EXCEPT ![p] = 0]
  /\ UNCHANGED <<orderItem, order, payment, locked, pc, local>>

\* ProductsService.publish and unpublish.
SetStatus(p, status) ==
  /\ CanWrite(p)
  /\ product' = [product EXCEPT ![p] =
       [status |-> status, stock |-> @.stock, terms |-> @.terms]]
  /\ UNCHANGED <<orderItem, order, payment, locked, pc, local, history>>

\* ProductsService.remove; the items of past orders lose their productId.
RemoveProduct(p) ==
  /\ CanWrite(p)
  /\ product' = [product EXCEPT ![p] = NoRow]
  /\ orderItem' = Unlink(orderItem, p)
  /\ UNCHANGED <<order, payment, locked, pc, local, history>>

Progress(c) ==
  \/ MergeLine(c)
  \/ BeginTransaction(c)
  \/ \E p \in Products :
       ScanRow(c, p) \/ LockRow(c, p) \/ ReserveLine(c, p) \/ RejectLine(c, p)
  \/ Commit(c)
  \/ InvalidateProducts(c)
  \/ OpenPayment(c)
  \/ DeadlockVictim(c)

Next ==
  \/ \E c \in Checkouts : Receive(c) \/ Progress(c) \/ Rollback(c) \/ Crash(c)
  \/ \E p \in Products :
       \/ \E dto \in UpdateProductDto : UpdateProduct(p, dto)
       \/ \E status \in ProductStatus : SetStatus(p, status)
       \/ RemoveProduct(p)

Spec == Init /\ [][Next]_vars

\* Node runs a call on as soon as its statement returns; PostgreSQL grants a
\* row once it is free and ends every wait cycle (deadlock_timeout); the
\* gateway client answers or fails.  Nothing makes a seller act.
Fairness == \A c \in Checkouts : WF_vars(Progress(c))

FairSpec == Spec /\ Fairness

(***************************************************************************)
(* Properties                                                              *)
(***************************************************************************)

\* Every variable holds values of its kind; in particular no stock figure,
\* committed or in a transaction's copy, is ever negative.
TypeOK ==
  /\ product \in [Products -> Row \cup {NoRow}]
  /\ orderItem \subseteq OrderItem
  /\ order \subseteq Checkouts
  /\ payment \subseteq order
  /\ locked \in [Checkouts -> SUBSET Products]
  /\ pc \in [Checkouts -> Stages]
  /\ items \in [Checkouts -> Seq(OrderItemInput)]
  /\ merged \in [Checkouts -> Nat]
  /\ wanted \in [Checkouts -> [Products -> Nat]]
  /\ waiting \in [Checkouts -> SUBSET Products]
  /\ scanned \in [Checkouts -> SUBSET Products]
  /\ byId \in [Checkouts -> [Products -> Row \cup {NoRow}]]
  /\ reserved \in [Checkouts -> SUBSET Products]
  /\ offered \in [Products -> Nat]
  /\ sold \in [Products -> Nat]

\* No overselling, as an account: whatever checkouts and sellers do at once, a
\* product's stock is the figure its seller set last less the units of the
\* orders committed since.  A rejected, failed or crashed checkout took
\* nothing, and no committed decrement is lost or applied twice.
StockLedger ==
  \A p \in Products :
    product[p] # NoRow => product[p].stock = offered[p] - sold[p]

\* A row is locked by one transaction at a time, and no lock outlives its
\* transaction: none is held while caches are invalidated or the gateway is
\* called.
LockDiscipline ==
  \A c \in Checkouts :
    /\ locked[c] # {} => pc[c] \in InTransaction
    /\ \A d \in Checkouts \ {c} : locked[c] \cap locked[d] = {}

\* Serialisable by locking: whatever a transaction has read FOR UPDATE is still
\* the committed row, apart from the units it has itself reserved, until it
\* ends; so its checks and its snapshot of the terms hold at commit.
CopiesAreCurrent ==
  \A c \in Checkouts : \A p \in scanned[c] :
    IF p \in locked[c]
    THEN /\ product[p] # NoRow
         /\ byId[c][p] = IF p \in reserved[c]
              THEN WithStock(product[p], product[p].stock - wanted[c][p])
              ELSE product[p]
    ELSE product[p] = NoRow /\ byId[c][p] = NoRow

\* The units of p in the lines that the buyer of c posted.
UnitsAsked(c, p) ==
  LET total[i \in 0..Len(items[c])] ==
        IF i = 0 THEN 0
        ELSE total[i - 1] +
               (IF items[c][i].product = p THEN items[c][i].quantity ELSE 0)
  IN total[Len(items[c])]

\* A committed order has exactly the lines its buyer posted, merged by product,
\* and a call that did not commit has none: orders are placed whole or not at
\* all, whatever was reserved before the failing line.
OrderIsWhatWasPosted ==
  \A c \in Checkouts, p \in Products :
    LET rows == {item \in orderItem : item.order = c /\ item.product = p} IN
      IF c \in order /\ UnitsAsked(c, p) > 0
      THEN {item.quantity : item \in rows} = {UnitsAsked(c, p)}
      ELSE rows = {}

\* Whoever waits for a row waits, in the end, for a call that can go on, or in
\* a cycle that the deadlock detector breaks: no set of unfinished calls waits
\* only for itself and for calls that have ended.
Unfinished == {c \in Checkouts : pc[c] \notin {"idle"} \cup Ended}

Blockers(c) == {d \in Checkouts : waiting[c] \cap locked[d] # {}}

Ready(c) ==
  \/ pc[c] = "merging" /\ merged[c] <= Len(items[c])
  \/ /\ pc[c] = "locking"
     /\ \/ waiting[c] = {} /\ InCart(c) \ scanned[c] # {}
        \/ \E p \in waiting[c] : Unlocked(p)
  \/ pc[c] = "reserving" /\ reserved[c] \subseteq InCart(c)
  \/ pc[c] \in {"invalidating", "paying"}
  \/ \E D \in SUBSET Checkouts : c \in D /\ WaitCycle(D)

NobodyWaitsInVain ==
  \A D \in (SUBSET Unfinished) \ {{}} :
    (\A c \in D : Blockers(c) \cap Unfinished \subseteq D)
      => \E c \in D : Ready(c)

\* Checkout implements Sales: the steps of all interleaved transactions amount
\* to carts sold whole, in one step, against the catalog of the moment of
\* commit, and a cart is refused only if the catalog of the moment of the
\* refusal cannot fill it.
Catalog ==
  [p \in Products |-> IF product[p] = NoRow THEN NoRow
                      ELSE [status |-> product[p].status,
                            terms |-> product[p].terms]]

Cart ==
  [c \in Checkouts |-> IF pc[c] \in {"idle", "merging", "failed"}
                       THEN EmptyCart ELSE wanted[c]]

Verdict ==
  [c \in Checkouts |-> IF pc[c] \in {"idle", "merging"} THEN "none"
                       ELSE IF pc[c] \in InTransaction THEN "open"
                       ELSE IF pc[c] = "rejected" THEN "refused"
                       ELSE IF pc[c] = "failed" THEN "given up"
                       ELSE "sold"]

Abstract == INSTANCE Sales
              WITH listing <- Catalog, cart <- Cart, verdict <- Verdict

ImplementsSales == Abstract!Spec

\* Every call of place ends, although checkouts lock rows in any order and may
\* wait for each other in a cycle.
EveryCallEnds ==
  \A c \in Checkouts : pc[c] = "merging" ~> pc[c] \in Ended
=============================================================================
