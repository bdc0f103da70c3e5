--------------------------- MODULE Checkout_proofs ---------------------------
(***************************************************************************)
(* Proofs about Checkout, for any number of checkouts, products, terms and *)
(* stock figures and any carts.                                            *)
(***************************************************************************)
EXTENDS Checkout, FiniteSetTheorems, TLAPS

\* What a call's local variables are at each of its stages.
Outside(c) ==
  pc[c] \notin InTransaction =>
    /\ locked[c] = {}
    /\ waiting[c] = {}
    /\ scanned[c] = {}
    /\ reserved[c] = {}

Merging(c) ==
  /\ pc[c] = "idle" => merged[c] = 0
  /\ pc[c] = "merging" => /\ items[c] # <<>>
                          /\ merged[c] > 0 => InCart(c) # {}
  /\ pc[c] \in InTransaction => InCart(c) # {}

Scanning(c) ==
  /\ locked[c] \subseteq scanned[c]
  /\ pc[c] = "locking" => reserved[c] = {}
  /\ pc[c] = "reserving" => InCart(c) \subseteq scanned[c]

Reserving(c) ==
  /\ reserved[c] \subseteq locked[c] \cap InCart(c)
  /\ \A p \in reserved[c] :
       byId[c][p].status = "active" /\ wanted[c][p] <= product[p].stock
  /\ \A p, q \in reserved[c] :
       Currency[byId[c][p].terms] = Currency[byId[c][q].terms]

Committed(c) == pc[c] \in AfterCommit => c \in order

Calls ==
  \A c \in Checkouts :
    Outside(c) /\ Merging(c) /\ Scanning(c) /\ Reserving(c) /\ Committed(c)

Inv == TypeOK /\ LockDiscipline /\ CopiesAreCurrent /\ StockLedger /\ Calls

-----------------------------------------------------------------------------
(***************************************************************************)
(* Type correctness.  It leans on two other parts of Inv: a line that is   *)
(* reserved was read as a row (so Commit writes a row), and a call that    *)
(* has committed has its order row (so a payment row has an order).        *)
(***************************************************************************)

\* To begin with every product has its row.
LEMMA InitialRows ==
  Init => product \in [Products -> Row] /\ offered \in [Products -> Nat]
<1>1. ASSUME NEW row \in [status : ProductStatus, stock : StockLevels,
                          terms : Terms]
      PROVE  row \in Row /\ row.stock \in Nat
  <2>1. row = [status |-> row.status, stock |-> row.stock, terms |-> row.terms]
    OBVIOUS
  <2>2. /\ row.status \in ProductStatus /\ row.stock \in StockLevels
        /\ row.terms \in Terms
    OBVIOUS
  <2>3. row.stock \in Nat
    BY <2>2, ShopAssumption
  <2>4. QED
    BY <2>1, <2>2, <2>3 DEF Row
<1>2. SUFFICES ASSUME Init
               PROVE  product \in [Products -> Row] /\ offered \in [Products -> Nat]
  OBVIOUS
<1>3. /\ product \in [Products -> [status : ProductStatus, stock : StockLevels,
                                   terms : Terms]]
      /\ offered = [p \in Products |-> product[p].stock]
  BY <1>2 DEF Init
<1>4. product \in [Products -> Row]
  BY <1>1, <1>3
<1>5. offered \in [Products -> Nat]
  BY <1>1, <1>3
<1>6. QED
  BY <1>4, <1>5

LEMMA TypeInit == Init => TypeOK
<1> SUFFICES ASSUME Init PROVE TypeOK
  OBVIOUS
<1>1. /\ product \in [Products -> Row]
      /\ offered \in [Products -> Nat]
  BY InitialRows
<1>2. pc \in [Checkouts -> Stages]
  BY SMT DEF Init, Stages
<1>3. /\ wanted \in [Checkouts -> [Products -> Nat]]
      /\ byId \in [Checkouts -> [Products -> Row \cup {NoRow}]]
  BY SMT DEF Init, EmptyCart, NoRows
<1>4. items \in [Checkouts -> Seq(OrderItemInput)]
  BY SMT DEF Init
<1>5. QED
  BY <1>1, <1>2, <1>3, <1>4, SMT DEF Init, TypeOK

\* What every way of ending a transaction does to the types.
LEMMA EndTransactionType ==
  ASSUME TypeOK, NEW c \in Checkouts, NEW stage \in Stages,
         EndTransaction(c, stage)
  PROVE  /\ locked' \in [Checkouts -> SUBSET Products]
         /\ pc' \in [Checkouts -> Stages]
         /\ items' \in [Checkouts -> Seq(OrderItemInput)]
         /\ merged' \in [Checkouts -> Nat]
         /\ wanted' \in [Checkouts -> [Products -> Nat]]
         /\ waiting' \in [Checkouts -> SUBSET Products]
         /\ scanned' \in [Checkouts -> SUBSET Products]
         /\ byId' \in [Checkouts -> [Products -> Row \cup {NoRow}]]
         /\ reserved' \in [Checkouts -> SUBSET Products]
  BY SMT DEF TypeOK, EndTransaction, Goto, NoRows

\* Unlinking leaves order items order items.
LEMMA UnlinkType ==
  ASSUME NEW rows \in SUBSET OrderItem, NEW p
  PROVE  Unlink(rows, p) \subseteq OrderItem
<1> SUFFICES ASSUME NEW item \in Unlink(rows, p) PROVE item \in OrderItem
  OBVIOUS
<1>1. PICK old \in rows :
        item = [order |-> old.order, product |-> old.product,
                quantity |-> old.quantity, terms |-> old.terms,
                linked |-> old.linked /\ old.product # p]
  BY DEF Unlink
<1>2. (old.linked /\ old.product # p) \in BOOLEAN
  OBVIOUS
<1>3. old \in OrderItem
  OBVIOUS
<1>4. QED
  BY <1>1, <1>2, <1>3, SMT DEF OrderItem

LEMMA TypeStep == Inv /\ [Next]_vars => TypeOK'
<1> SUFFICES ASSUME Inv, [Next]_vars PROVE TypeOK'
  OBVIOUS
<1> USE ShopAssumption DEF table, local, history, WithStock
<1>t. TypeOK
  BY DEF Inv
<1>s. {"idle", "merging", "locking", "reserving", "invalidating", "paying",
       "replied", "rejected", "failed", "crashed"} = Stages
  BY DEF Stages, InTransaction, AfterCommit, Ended
<1>1. ASSUME NEW c \in Checkouts, Receive(c) PROVE TypeOK'
  BY <1>1, <1>t, <1>s, SMT DEF TypeOK, Receive, Goto
<1>2. ASSUME NEW c \in Checkouts, MergeLine(c) PROVE TypeOK'
  <2>1. items[c][merged[c] + 1] \in OrderItemInput
    BY <1>2, <1>t, SMT DEF TypeOK, MergeLine
  <2>2. /\ items[c][merged[c] + 1].product \in Products
        /\ items[c][merged[c] + 1].quantity \in Nat
    BY <2>1, SMT DEF OrderItemInput
  <2>3. wanted' \in [Checkouts -> [Products -> Nat]]
    BY <1>2, <1>t, <2>2, SMT DEF TypeOK, MergeLine
  <2>4. merged' \in [Checkouts -> Nat]
    BY <1>2, <1>t, SMT DEF TypeOK, MergeLine
  <2>5. QED
    BY <1>2, <1>t, <2>3, <2>4, SMT DEF TypeOK, MergeLine
<1>3. ASSUME NEW c \in Checkouts, BeginTransaction(c) PROVE TypeOK'
  BY <1>3, <1>t, <1>s, SMT DEF TypeOK, BeginTransaction, Goto
<1>4. ASSUME NEW c \in Checkouts, NEW p \in Products, ScanRow(c, p)
      PROVE  TypeOK'
  BY <1>4, <1>t, SMT DEF TypeOK, ScanRow
<1>5. ASSUME NEW c \in Checkouts, NEW p \in Products, LockRow(c, p)
      PROVE  TypeOK'
  BY <1>5, <1>t, <1>s, SMT DEF TypeOK, LockRow, Goto
<1>6. ASSUME NEW c \in Checkouts, NEW p \in Products, ReserveLine(c, p)
      PROVE  TypeOK'
  <2>1. byId[c][p] \in Row
    BY <1>6, <1>t, SMT DEF TypeOK, ReserveLine, Available
  <2>2. WithStock(byId[c][p], byId[c][p].stock - wanted[c][p]) \in Row
    BY <1>6, <1>t, <2>1, SMT DEF TypeOK, ReserveLine, Available, Row
  <2>3. QED
    BY <1>6, <1>t, <2>2, SMT DEF TypeOK, ReserveLine
<1>7. ASSUME NEW c \in Checkouts, NEW p \in Products, RejectLine(c, p)
      PROVE  TypeOK'
  BY <1>7, <1>t, <1>s, EndTransactionType, SMT DEF TypeOK, RejectLine
<1>8. ASSUME NEW c \in Checkouts, Commit(c) PROVE TypeOK'
  <2>1. ASSUME NEW p \in InCart(c)
        PROVE  p \in Products /\ byId[c][p] \in Row /\ product[p] \in Row
    <3>1. /\ p \in Products
          /\ p \in reserved[c] /\ p \in locked[c] /\ p \in scanned[c]
      BY <1>8, <2>1, SMT DEF Inv, Commit, Calls, Reserving, Scanning, InCart
    <3>2. /\ product[p] # NoRow
          /\ byId[c][p]
               = WithStock(product[p], product[p].stock - wanted[c][p])
      BY <3>1 DEF Inv, CopiesAreCurrent
    <3>3. product[p] \in Row /\ wanted[c][p] \in Nat
      BY <3>1, <3>2, <1>t, SMT DEF TypeOK
    <3>4. wanted[c][p] <= product[p].stock
      BY <3>1, SMT DEF Inv, Calls, Reserving
    <3>5. QED
      BY <3>1, <3>2, <3>3, <3>4, SMT DEF Row
  <2>2. product' \in [Products -> Row \cup {NoRow}]
    BY <1>8, <1>t, <2>1, SMT DEF TypeOK, Commit, Row
  <2>3. orderItem' \subseteq OrderItem
    <3>1. ASSUME NEW item \in OrderItems(c) PROVE item \in OrderItem
      <4>1. PICK p \in InCart(c) :
              item = [order |-> c, product |-> p, quantity |-> wanted[c][p],
                      terms |-> byId[c][p].terms, linked |-> TRUE]
        BY <3>1 DEF OrderItems
      <4>2. wanted[c][p] \in Nat /\ byId[c][p].terms \in Terms
        BY <1>t, <2>1, SMT DEF TypeOK, Row
      <4>3. QED
        BY <4>1, <4>2, <2>1, SMT DEF OrderItem
    <3>2. QED
      BY <1>8, <1>t, <3>1 DEF TypeOK, Commit
  <2>4. sold' \in [Products -> Nat]
    BY <1>8, <1>t, SMT DEF TypeOK, Commit
  <2>5. QED
    BY <1>8, <1>t, <1>s, <2>2, <2>3, <2>4, EndTransactionType, SMT
       DEF TypeOK, Commit
<1>9. ASSUME NEW c \in Checkouts, InvalidateProducts(c) PROVE TypeOK'
  BY <1>9, <1>t, <1>s, SMT DEF TypeOK, InvalidateProducts, Goto
<1>10. ASSUME NEW c \in Checkouts, OpenPayment(c) PROVE TypeOK'
  BY <1>10, <1>t, <1>s, SMT
     DEF Inv, Calls, Committed, AfterCommit, TypeOK, OpenPayment, Goto
<1>11. ASSUME NEW c \in Checkouts, DeadlockVictim(c) PROVE TypeOK'
  BY <1>11, <1>t, <1>s, EndTransactionType, SMT DEF TypeOK, DeadlockVictim
<1>12. ASSUME NEW c \in Checkouts, Rollback(c) PROVE TypeOK'
  BY <1>12, <1>t, <1>s, EndTransactionType, SMT DEF TypeOK, Rollback
<1>13. ASSUME NEW c \in Checkouts, Crash(c) PROVE TypeOK'
  BY <1>13, <1>t, <1>s, SMT DEF TypeOK, Crash, Goto
<1>14. ASSUME NEW p \in Products, NEW dto \in UpdateProductDto,
              UpdateProduct(p, dto)
       PROVE  TypeOK'
  <2>1. product[p] \in Row
    BY <1>14, <1>t, SMT DEF TypeOK, UpdateProduct, CanWrite
  <2>2. /\ dto.stock = Unset \/ dto.stock \in Nat
        /\ dto.terms = Unset \/ dto.terms \in Terms
    <3>1. dto.stock \in StockLevels \cup {Unset}
      BY DEF UpdateProductDto
    <3>2. dto.terms \in Terms \cup {Unset}
      BY DEF UpdateProductDto
    <3>3. QED
      BY <3>1, <3>2
  <2>3. [status |-> product[p].status,
         stock |-> IF dto.stock = Unset THEN product[p].stock ELSE dto.stock,
         terms |-> IF dto.terms = Unset THEN product[p].terms ELSE dto.terms]
          \in Row
    BY <2>1, <2>2, SMT DEF Row
  <2>4. product' \in [Products -> Row \cup {NoRow}]
    BY <1>14, <1>t, <2>3, SMT DEF TypeOK, UpdateProduct
  <2>5. offered' \in [Products -> Nat] /\ sold' \in [Products -> Nat]
    BY <1>14, <1>t, <2>2, SMT DEF TypeOK, UpdateProduct
  <2>6. QED
    BY <1>14, <1>t, <2>4, <2>5, SMT DEF TypeOK, UpdateProduct
<1>15. ASSUME NEW p \in Products, NEW status \in ProductStatus,
              SetStatus(p, status)
       PROVE  TypeOK'
  BY <1>15, <1>t, SMT DEF TypeOK, SetStatus, CanWrite, Row
<1>16. ASSUME NEW p \in Products, RemoveProduct(p) PROVE TypeOK'
  <2>1. orderItem' \subseteq OrderItem
    BY <1>16, <1>t, UnlinkType DEF TypeOK, RemoveProduct
  <2>2. QED
    BY <1>16, <1>t, <2>1, SMT DEF TypeOK, RemoveProduct
<1>17. CASE UNCHANGED vars
  BY <1>17, <1>t, SMT DEF TypeOK, vars
<1>18. QED
  BY <1>1, <1>2, <1>3, <1>4, <1>5, <1>6, <1>7, <1>8, <1>9, <1>10, <1>11, <1>12,
     <1>13, <1>14, <1>15, <1>16, <1>17 DEF Next, Progress

-----------------------------------------------------------------------------
(***************************************************************************)
(* Locks.                                                                  *)
(***************************************************************************)

LEMMA LockInit == Init => LockDiscipline
  BY DEF Init, LockDiscipline

\* Ending a transaction frees its locks and touches nobody else's.
LEMMA EndTransactionLock ==
  ASSUME Inv, NEW c \in Checkouts, NEW stage, EndTransaction(c, stage)
  PROVE  LockDiscipline'
  BY SMT DEF Inv, TypeOK, LockDiscipline, EndTransaction, Goto

\* A step that leaves all locks alone and takes no call out of a transaction.
LEMMA SameLocks ==
  ASSUME Inv, UNCHANGED locked,
         \A c \in Checkouts :
           pc[c] \in InTransaction => pc'[c] \in InTransaction
  PROVE  LockDiscipline'
  BY SMT DEF Inv, LockDiscipline

LEMMA LockStep == Inv /\ [Next]_vars => LockDiscipline'
<1> SUFFICES ASSUME Inv, [Next]_vars PROVE LockDiscipline'
  OBVIOUS
<1> USE DEF table, local, history
<1>t. TypeOK
  BY DEF Inv
<1>1. ASSUME NEW c \in Checkouts,
             Receive(c) \/ MergeLine(c) \/ BeginTransaction(c)
      PROVE  LockDiscipline'
  BY <1>1, <1>t, SameLocks, SMT
     DEF TypeOK, Receive, MergeLine, BeginTransaction, Goto, InTransaction
<1>2. ASSUME NEW c \in Checkouts, NEW p \in Products,
             ScanRow(c, p) \/ ReserveLine(c, p)
      PROVE  LockDiscipline'
  BY <1>2, SameLocks, SMT DEF ScanRow, ReserveLine
<1>3. ASSUME NEW c \in Checkouts, NEW p \in Products, LockRow(c, p)
      PROVE  LockDiscipline'
  BY <1>3, <1>t, SMT
     DEF Inv, TypeOK, LockDiscipline, LockRow, Unlocked, Goto, InTransaction
<1>4. ASSUME NEW c \in Checkouts,
             \/ Commit(c) \/ DeadlockVictim(c) \/ Rollback(c)
             \/ \E p \in Products : RejectLine(c, p)
      PROVE  LockDiscipline'
  BY <1>4, EndTransactionLock DEF Commit, DeadlockVictim, Rollback, RejectLine
<1>5. ASSUME NEW c \in Checkouts,
             InvalidateProducts(c) \/ OpenPayment(c) \/ Crash(c)
      PROVE  LockDiscipline'
  BY <1>5, <1>t, SameLocks, SMT
     DEF TypeOK, InvalidateProducts, OpenPayment, Crash, Goto, InTransaction,
         AfterCommit
<1>6. ASSUME NEW p \in Products,
             \/ \E dto \in UpdateProductDto : UpdateProduct(p, dto)
             \/ \E status \in ProductStatus : SetStatus(p, status)
             \/ RemoveProduct(p)
      PROVE  LockDiscipline'
  BY <1>6, SameLocks DEF UpdateProduct, SetStatus, RemoveProduct
<1>7. CASE UNCHANGED vars
  BY <1>7, SameLocks DEF vars
<1>8. QED
  BY <1>1, <1>2, <1>3, <1>4, <1>5, <1>6, <1>7 DEF Next, Progress

-----------------------------------------------------------------------------
(***************************************************************************)
(* The copies a transaction works on.                                      *)
(***************************************************************************)

LEMMA CopiesInit == Init => CopiesAreCurrent
  BY SMT DEF Init, CopiesAreCurrent

\* A step of which no transaction's copies, locks or rows take notice.
LEMMA SameCopies ==
  ASSUME Inv, UNCHANGED <<product, locked, scanned, byId, reserved>>,
         \A c \in Checkouts : \A p \in reserved[c] :
           wanted'[c][p] = wanted[c][p]
  PROVE  CopiesAreCurrent'
  BY DEF Inv, CopiesAreCurrent

LEMMA CopiesStep == Inv /\ [Next]_vars => CopiesAreCurrent'
<1> SUFFICES ASSUME Inv, [Next]_vars PROVE CopiesAreCurrent'
  OBVIOUS
<1> USE DEF table, local, history
<1>t. TypeOK
  BY DEF Inv
<1>1. ASSUME NEW c \in Checkouts, Receive(c) \/ BeginTransaction(c)
      PROVE  CopiesAreCurrent'
  BY <1>1, SameCopies DEF Receive, BeginTransaction
<1>2. ASSUME NEW c \in Checkouts, MergeLine(c) PROVE CopiesAreCurrent'
  <2>1. reserved[c] = {}
    BY <1>2, SMT DEF Inv, Calls, Outside, MergeLine, InTransaction
  <2>2. ASSUME NEW d \in Checkouts, d # c PROVE wanted'[d] = wanted[d]
    BY <1>2, <1>t, <2>2 DEF MergeLine, TypeOK
  <2>3. QED
    BY <1>2, <2>1, <2>2, SameCopies DEF MergeLine
<1>3. ASSUME NEW c \in Checkouts, NEW p \in Products, ScanRow(c, p)
      PROVE  CopiesAreCurrent'
  BY <1>3, SameCopies DEF ScanRow
<1>4. ASSUME NEW c \in Checkouts, NEW p \in Products, LockRow(c, p)
      PROVE  CopiesAreCurrent'
  <2>1. reserved[c] = {}
    BY <1>4, SMT DEF Inv, Calls, Scanning, LockRow
  <2>2. ASSUME NEW d \in Checkouts, NEW q \in scanned'[d],
               d # c \/ q # p
        PROVE  /\ q \in scanned[d]
               /\ q \in locked'[d] <=> q \in locked[d]
               /\ byId'[d][q] = byId[d][q]
    BY <1>4, <1>t, <2>2, SMT DEF TypeOK, LockRow
  <2>3. /\ p \in locked'[c] <=> product[p] # NoRow
        /\ byId'[c][p] = product[p]
    BY <1>4, <1>t, SMT DEF TypeOK, LockRow, Unlocked
  <2>4. UNCHANGED <<product, wanted, reserved>>
    BY <1>4 DEF LockRow
  <2>5. QED
    BY <2>1, <2>2, <2>3, <2>4 DEF Inv, CopiesAreCurrent
<1>5. ASSUME NEW c \in Checkouts, NEW p \in Products, ReserveLine(c, p)
      PROVE  CopiesAreCurrent'
  <2>1. ASSUME NEW d \in Checkouts, NEW q \in Products, d # c \/ q # p
        PROVE  /\ q \in reserved'[d] <=> q \in reserved[d]
               /\ byId'[d][q] = byId[d][q]
    BY <1>5, <1>t, <2>1, SMT DEF TypeOK, ReserveLine
  <2>2. /\ p \notin reserved[c] /\ p \in reserved'[c]
        /\ byId[c][p] # NoRow
        /\ byId'[c][p] = WithStock(byId[c][p], byId[c][p].stock - wanted[c][p])
    BY <1>5, <1>t, SMT DEF TypeOK, ReserveLine, Available
  <2>3. UNCHANGED <<product, wanted, scanned, locked>>
    BY <1>5 DEF ReserveLine
  <2>4. p \in scanned[c] => p \in locked[c] /\ byId[c][p] = product[p]
    BY <2>2 DEF Inv, CopiesAreCurrent
  <2>5. \A d \in Checkouts : scanned[d] \subseteq Products
    BY <1>t, SMT DEF TypeOK
  <2>6. QED
    BY <2>1, <2>2, <2>3, <2>4, <2>5 DEF Inv, CopiesAreCurrent
<1>6. ASSUME NEW c \in Checkouts, NEW stage, EndTransaction(c, stage),
             \A d \in Checkouts \ {c} : \A p \in scanned[d] :
               product'[p] = product[p]
      PROVE  CopiesAreCurrent'
  <2>1. scanned'[c] = {} /\ UNCHANGED wanted
    BY <1>6, <1>t DEF EndTransaction, TypeOK
  <2>2. ASSUME NEW d \in Checkouts, d # c
        PROVE  /\ scanned'[d] = scanned[d] /\ locked'[d] = locked[d]
               /\ byId'[d] = byId[d] /\ reserved'[d] = reserved[d]
    BY <1>6, <1>t, <2>2 DEF EndTransaction, TypeOK
  <2>3. QED
    BY <1>6, <2>1, <2>2 DEF Inv, CopiesAreCurrent
<1>7. ASSUME NEW c \in Checkouts,
             \/ DeadlockVictim(c) \/ Rollback(c)
             \/ \E p \in Products : RejectLine(c, p)
      PROVE  CopiesAreCurrent'
  BY <1>6, <1>7 DEF DeadlockVictim, Rollback, RejectLine
<1>8. ASSUME NEW c \in Checkouts, Commit(c) PROVE CopiesAreCurrent'
  <2>1. ASSUME NEW d \in Checkouts \ {c}, NEW p \in scanned[d]
        PROVE  product'[p] = product[p]
    <3>1. p \in Products
      BY <1>t, SMT DEF TypeOK
    <3>2. p \notin reserved[c]
      <4>1. SUFFICES ASSUME p \in reserved[c] PROVE FALSE
        OBVIOUS
      <4>2. p \in locked[c] /\ p \in scanned[c]
        BY <4>1, SMT DEF Inv, Calls, Reserving, Scanning
      <4>3. p \in locked[d]
        BY <4>2 DEF Inv, CopiesAreCurrent
      <4>4. QED
        BY <4>2, <4>3, SMT DEF Inv, LockDiscipline
    <3>3. QED
      BY <1>8, <3>1, <3>2 DEF Commit
  <2>2. EndTransaction(c, "invalidating")
    BY <1>8 DEF Commit
  <2>3. QED
    BY <1>6, <2>1, <2>2
<1>9. ASSUME NEW c \in Checkouts,
             InvalidateProducts(c) \/ OpenPayment(c) \/ Crash(c)
      PROVE  CopiesAreCurrent'
  BY <1>9, SameCopies DEF InvalidateProducts, OpenPayment, Crash
<1>10. ASSUME NEW p \in Products, CanWrite(p),
              \A q \in Products \ {p} : product'[q] = product[q],
              UNCHANGED <<locked, pc, local>>
       PROVE  CopiesAreCurrent'
  <2>1. ASSUME NEW c \in Checkouts, NEW q \in scanned[c]
        PROVE  product'[q] = product[q]
    <3>1. q \in Products
      BY <1>t, SMT DEF TypeOK
    <3>2. p \notin scanned[c]
      BY <1>10 DEF CanWrite, Unlocked, Inv, CopiesAreCurrent
    <3>3. QED
      BY <1>10, <3>1, <3>2
  <2>2. QED
    BY <1>10, <2>1 DEF Inv, CopiesAreCurrent
<1>11. ASSUME NEW p \in Products, NEW dto \in UpdateProductDto,
              UpdateProduct(p, dto)
       PROVE  CopiesAreCurrent'
  BY <1>10, <1>11, <1>t DEF UpdateProduct, TypeOK
<1>12. ASSUME NEW p \in Products, NEW status \in ProductStatus,
              SetStatus(p, status)
       PROVE  CopiesAreCurrent'
  BY <1>10, <1>12, <1>t DEF SetStatus, TypeOK
<1>13. ASSUME NEW p \in Products, RemoveProduct(p) PROVE CopiesAreCurrent'
  BY <1>10, <1>13, <1>t DEF RemoveProduct, TypeOK
<1>14. CASE UNCHANGED vars
  BY <1>14, SameCopies DEF vars
<1>15. QED
  BY <1>1, <1>2, <1>3, <1>4, <1>5, <1>7, <1>8, <1>9, <1>11, <1>12, <1>13, <1>14
     DEF Next, Progress

-----------------------------------------------------------------------------
(***************************************************************************)
(* The account of stock.                                                   *)
(***************************************************************************)

LEMMA LedgerInit == Init => StockLedger
<1> SUFFICES ASSUME Init, NEW p \in Products
             PROVE  product[p].stock = offered[p] - sold[p]
  BY DEF StockLedger
<1>1. product[p].stock \in StockLevels
  BY DEF Init
<1>2. offered[p] = product[p].stock /\ sold[p] = 0
  BY DEF Init
<1>3. QED
  <2>1. product[p].stock \in Nat
    BY <1>1, ShopAssumption
  <2>2. QED
    BY <2>1, <1>2, SMT

LEMMA SameLedger ==
  ASSUME Inv, UNCHANGED <<product, offered, sold>>
  PROVE  StockLedger'
  BY DEF Inv, StockLedger

LEMMA LedgerStep == Inv /\ [Next]_vars => StockLedger'
<1> SUFFICES ASSUME Inv, [Next]_vars PROVE StockLedger'
  OBVIOUS
<1> USE DEF table, local, history
<1>t. TypeOK
  BY DEF Inv
<1>1. ASSUME NEW c \in Checkouts,
             \/ Receive(c) \/ MergeLine(c) \/ BeginTransaction(c)
             \/ \E p \in Products : \/ ScanRow(c, p) \/ LockRow(c, p)
                                    \/ ReserveLine(c, p) \/ RejectLine(c, p)
             \/ InvalidateProducts(c) \/ OpenPayment(c) \/ Crash(c)
             \/ DeadlockVictim(c) \/ Rollback(c)
      PROVE  StockLedger'
  BY <1>1, SameLedger
     DEF Receive, MergeLine, BeginTransaction, ScanRow, LockRow, ReserveLine,
         RejectLine, InvalidateProducts, OpenPayment, Crash, DeadlockVictim,
         Rollback
<1>2. ASSUME NEW c \in Checkouts, Commit(c) PROVE StockLedger'
  <2> SUFFICES ASSUME NEW p \in Products, product'[p] # NoRow
               PROVE  product'[p].stock = offered'[p] - sold'[p]
    BY DEF StockLedger
  <2>1. offered'[p] = offered[p] /\ sold'[p] = sold[p] + wanted[c][p]
    BY <1>2, <1>t DEF Commit, TypeOK
  <2>2. CASE p \in reserved[c]
    <3>1. product'[p] = WithStock(product[p], byId[c][p].stock)
      BY <1>2, <2>2 DEF Commit
    <3>2. /\ product[p] # NoRow
          /\ byId[c][p]
               = WithStock(product[p], product[p].stock - wanted[c][p])
      BY <2>2, SMT
         DEF Inv, Calls, Reserving, Scanning, CopiesAreCurrent
    <3>3. product[p].stock = offered[p] - sold[p]
      BY <3>2 DEF Inv, StockLedger
    <3>4. /\ offered[p] \in Nat /\ sold[p] \in Nat /\ wanted[c][p] \in Nat
      BY <1>t, SMT DEF TypeOK
    <3>5. QED
      BY <2>1, <3>1, <3>2, <3>3, <3>4, SMT DEF WithStock
  <2>3. CASE p \notin reserved[c]
    <3>1. product'[p] = product[p]
      BY <1>2, <2>3 DEF Commit
    <3>2. ~(wanted[c][p] > 0)
      BY <1>2, <2>3 DEF Commit, InCart
    <3>3. /\ offered[p] \in Nat /\ sold[p] \in Nat /\ wanted[c][p] \in Nat
      BY <1>t, SMT DEF TypeOK
    <3>4. QED
      BY <2>1, <3>1, <3>2, <3>3, SMT DEF Inv, StockLedger
  <2>4. QED
    BY <2>2, <2>3
<1>3. ASSUME NEW p \in Products, NEW dto \in UpdateProductDto,
             UpdateProduct(p, dto)
      PROVE  StockLedger'
  <2>1. dto.stock # Unset => dto.stock \in Nat
    <3>1. dto.stock \in StockLevels \cup {Unset}
      BY DEF UpdateProductDto
    <3>2. QED
      BY <3>1, ShopAssumption
  <2>2. product[p] # NoRow
    BY <1>3 DEF UpdateProduct, CanWrite
  <2>3. CASE dto.stock = Unset
    <3>1. /\ product'[p].stock = product[p].stock
          /\ offered' = offered /\ sold' = sold
      BY <1>3, <2>3, <1>t, SMT DEF UpdateProduct, TypeOK
    <3>2. \A q \in Products \ {p} : product'[q] = product[q]
      BY <1>3, <1>t DEF UpdateProduct, TypeOK
    <3>3. QED
      BY <3>1, <3>2, <2>2 DEF Inv, StockLedger
  <2>4. CASE dto.stock # Unset
    <3>1. /\ product'[p].stock = dto.stock
          /\ offered'[p] = dto.stock /\ sold'[p] = 0
      BY <1>3, <2>4, <1>t, SMT DEF UpdateProduct, TypeOK
    <3>2. \A q \in Products \ {p} : /\ product'[q] = product[q]
                                    /\ offered'[q] = offered[q]
                                    /\ sold'[q] = sold[q]
      BY <1>3, <2>4, <1>t, SMT DEF UpdateProduct, TypeOK
    <3>3. product'[p].stock = offered'[p] - sold'[p]
      BY <3>1, <2>1, <2>4, SMT
    <3>4. QED
      BY <3>2, <3>3 DEF Inv, StockLedger
  <2>5. QED
    BY <2>3, <2>4
<1>4. ASSUME NEW p \in Products, NEW status \in ProductStatus,
             SetStatus(p, status)
      PROVE  StockLedger'
  <2>1. /\ product[p] # NoRow
        /\ product'[p].stock = product[p].stock
        /\ UNCHANGED <<offered, sold>>
    BY <1>4, <1>t, SMT DEF SetStatus, CanWrite, TypeOK
  <2>2. \A q \in Products \ {p} : product'[q] = product[q]
    BY <1>4, <1>t DEF SetStatus, TypeOK
  <2>3. QED
    BY <2>1, <2>2 DEF Inv, StockLedger
<1>5. ASSUME NEW p \in Products, RemoveProduct(p) PROVE StockLedger'
  BY <1>5, <1>t DEF RemoveProduct, TypeOK, Inv, StockLedger
<1>6. CASE UNCHANGED vars
  BY <1>6, SameLedger DEF vars
<1>7. QED
  BY <1>1, <1>2, <1>3, <1>4, <1>5, <1>6 DEF Next, Progress

-----------------------------------------------------------------------------
(***************************************************************************)
(* The stages of a call.                                                   *)
(***************************************************************************)

LEMMA CallsInit == Init => Calls
<1> SUFFICES ASSUME Init, NEW c \in Checkouts
             PROVE  /\ Outside(c) /\ Merging(c) /\ Scanning(c) /\ Reserving(c)
                    /\ Committed(c)
  BY DEF Calls
<1>1. /\ pc[c] = "idle" /\ merged[c] = 0
      /\ locked[c] = {} /\ waiting[c] = {} /\ scanned[c] = {}
      /\ reserved[c] = {}
  BY DEF Init
<1>2. QED
  BY <1>1 DEF Outside, Merging, Scanning, Reserving, Committed, InTransaction,
     AfterCommit

\* What CallsStep has to show of one call.
Call(c) ==
  Outside(c) /\ Merging(c) /\ Scanning(c) /\ Reserving(c) /\ Committed(c)

\* A call keeps its conditions through any step of others: they change none of
\* its variables, and no row it has locked.
LEMMA Bystander ==
  ASSUME Inv, NEW c \in Checkouts,
         /\ pc'[c] = pc[c] /\ items'[c] = items[c] /\ merged'[c] = merged[c]
         /\ wanted'[c] = wanted[c] /\ waiting'[c] = waiting[c]
         /\ scanned'[c] = scanned[c] /\ byId'[c] = byId[c]
         /\ reserved'[c] = reserved[c] /\ locked'[c] = locked[c],
         order \subseteq order',
         \A p \in locked[c] : product'[p] = product[p]
  PROVE  Call(c)'
<1>1. Call(c)
  BY DEF Inv, Calls, Call
<1>2. reserved[c] \subseteq locked[c]
  BY <1>1 DEF Call, Reserving
<1>3. InCart(c)' = InCart(c)
  BY DEF InCart
<1>4. Outside(c)' /\ Scanning(c)' /\ Committed(c)'
  BY <1>1, <1>3 DEF Call, Outside, Scanning, Committed
<1>5. Merging(c)'
  BY <1>1, <1>3 DEF Call, Merging
<1>6. Reserving(c)'
  BY <1>1, <1>2, <1>3 DEF Call, Reserving
<1>7. QED
  BY <1>4, <1>5, <1>6 DEF Call

\* After a transaction has ended nothing of it is left.
LEMMA EndTransactionCall ==
  ASSUME Inv, NEW c \in Checkouts, NEW stage, EndTransaction(c, stage),
         stage \notin InTransaction, stage # "idle", stage # "merging",
         stage \in AfterCommit => c \in order'
  PROVE  Call(c)'
<1>1. /\ pc'[c] = stage
      /\ locked'[c] = {} /\ waiting'[c] = {} /\ scanned'[c] = {}
      /\ reserved'[c] = {}
  BY DEF Inv, TypeOK, EndTransaction, Goto
<1>2. QED
  BY <1>1 DEF Call, Outside, Merging, Scanning, Reserving, Committed,
     InTransaction, AfterCommit

LEMMA CallsStep == Inv /\ [Next]_vars => Calls'
<1> SUFFICES ASSUME Inv, [Next]_vars, NEW d \in Checkouts PROVE Call(d)'
  BY DEF Calls, Call
<1> USE DEF table, local, history
<1>t. TypeOK
  BY DEF Inv
<1>c. Call(d)
  BY DEF Inv, Calls, Call
<1>1. ASSUME NEW c \in Checkouts, Receive(c) PROVE Call(d)'
  <2>1. CASE d = c
    <3>1. /\ pc[c] = "idle" /\ pc'[c] = "merging"
          /\ items'[c] # <<>> /\ merged'[c] = 0
          /\ UNCHANGED <<locked, waiting, scanned, reserved, byId, product>>
      BY <1>1, <2>1, <1>t, <1>c DEF Receive, Goto, TypeOK, Call, Merging
    <3>2. /\ locked[c] = {} /\ waiting[c] = {} /\ scanned[c] = {}
          /\ reserved[c] = {}
      BY <1>c, <2>1, <3>1 DEF Call, Outside, InTransaction
    <3>3. Merging(c)'
      BY <3>1, SMT DEF Merging, InTransaction
    <3>4. QED
      BY <2>1, <3>1, <3>2, <3>3
         DEF Call, Outside, Scanning, Reserving, Committed, AfterCommit
  <2>2. CASE d # c
    BY <1>1, <2>2, <1>t, Bystander DEF Receive, Goto, TypeOK
  <2>3. QED
    BY <2>1, <2>2
<1>2. ASSUME NEW c \in Checkouts, MergeLine(c) PROVE Call(d)'
  <2>1. CASE d = c
    <3>1. /\ pc[c] = "merging" /\ pc'[c] = "merging"
          /\ UNCHANGED <<locked, items, waiting, scanned, reserved, byId,
                         product>>
      BY <1>2 DEF MergeLine
    <3>2. /\ locked[c] = {} /\ waiting[c] = {} /\ scanned[c] = {}
          /\ reserved[c] = {}
      BY <1>c, <2>1, <3>1 DEF Call, Outside, InTransaction
    <3>3. InCart(c)' # {}
      <4>1. items[c][merged[c] + 1] \in OrderItemInput
        BY <1>2, <1>t, SMT DEF TypeOK, MergeLine
      <4>2. PICK p \in Products : p = items[c][merged[c] + 1].product
        BY <4>1, SMT DEF OrderItemInput
      <4>3. /\ items[c][merged[c] + 1].quantity \in Nat
            /\ items[c][merged[c] + 1].quantity > 0
        BY <4>1, SMT DEF OrderItemInput
      <4>4. wanted'[c][p] = wanted[c][p] + items[c][merged[c] + 1].quantity
        BY <1>2, <1>t, <4>2, SMT DEF TypeOK, MergeLine
      <4>5. wanted[c][p] \in Nat
        BY <1>t, SMT DEF TypeOK
      <4>6. wanted'[c][p] > 0
        BY <4>3, <4>4, <4>5, SMT
      <4>7. QED
        BY <4>6 DEF InCart
    <3>4. Merging(c)'
      BY <1>c, <2>1, <3>1, <3>3, SMT DEF Call, Merging, InTransaction
    <3>5. QED
      BY <2>1, <3>1, <3>2, <3>4
         DEF Call, Outside, Scanning, Reserving, Committed, AfterCommit
  <2>2. CASE d # c
    BY <1>2, <2>2, <1>t, Bystander DEF MergeLine, TypeOK
  <2>3. QED
    BY <2>1, <2>2
<1>3. ASSUME NEW c \in Checkouts, BeginTransaction(c) PROVE Call(d)'
  <2>1. CASE d = c
    <3>1. /\ pc[c] = "merging" /\ pc'[c] = "locking"
          /\ merged[c] = Len(items[c])
          /\ UNCHANGED <<locked, local, product>>
      BY <1>3, <1>t DEF BeginTransaction, Goto, TypeOK
    <3>2. /\ locked[c] = {} /\ waiting[c] = {} /\ scanned[c] = {}
          /\ reserved[c] = {}
      BY <1>c, <2>1, <3>1 DEF Call, Outside, InTransaction
    <3>3. items[c] # <<>> /\ (merged[c] > 0 => InCart(c) # {})
      BY <1>c, <2>1, <3>1 DEF Call, Merging
    <3>4. merged[c] > 0
      BY <3>1, <3>3, <1>t, SMT DEF TypeOK
    <3>5. Merging(c)'
      BY <3>1, <3>3, <3>4, SMT DEF Merging, InCart, InTransaction
    <3>6. QED
      BY <2>1, <3>1, <3>2, <3>5
         DEF Call, Outside, Scanning, Reserving, Committed, AfterCommit,
             InTransaction
  <2>2. CASE d # c
    BY <1>3, <2>2, <1>t, Bystander DEF BeginTransaction, Goto, TypeOK
  <2>3. QED
    BY <2>1, <2>2
<1>4. ASSUME NEW c \in Checkouts, NEW p \in Products, ScanRow(c, p)
      PROVE  Call(d)'
  <2>1. CASE d = c
    <3>1. /\ pc[c] = "locking"
          /\ UNCHANGED <<locked, pc, items, merged, wanted, scanned, byId,
                         reserved, product, order>>
      BY <1>4 DEF ScanRow
    <3>2. Outside(c)'
      BY <3>1 DEF Outside, InTransaction
    <3>3. QED
      BY <1>c, <2>1, <3>1, <3>2
         DEF Call, Merging, Scanning, Reserving, Committed, InCart
  <2>2. CASE d # c
    BY <1>4, <2>2, <1>t, Bystander DEF ScanRow, TypeOK
  <2>3. QED
    BY <2>1, <2>2
<1>5. ASSUME NEW c \in Checkouts, NEW p \in Products, LockRow(c, p)
      PROVE  Call(d)'
  <2>1. CASE d = c
    <3>1. /\ pc[c] = "locking"
          /\ pc'[c] \in InTransaction
          /\ pc'[c] = "reserving" => InCart(c) \subseteq scanned[c] \cup {p}
          /\ scanned'[c] = scanned[c] \cup {p}
          /\ locked'[c] \subseteq locked[c] \cup {p}
          /\ UNCHANGED <<items, merged, wanted, reserved, product, order>>
      BY <1>5, <1>t, SMT DEF LockRow, TypeOK, Goto, InTransaction
    <3>2. reserved[c] = {}
      BY <1>c, <2>1, <3>1 DEF Call, Scanning
    <3>3. InCart(c)' = InCart(c) /\ InCart(c) # {}
      BY <1>c, <2>1, <3>1 DEF InCart, Call, Merging, InTransaction
    <3>4. Outside(c)' /\ Merging(c)' /\ Committed(c)'
      BY <3>1, <3>3 DEF Outside, Merging, Committed, InTransaction, AfterCommit
    <3>5. locked[c] \subseteq scanned[c]
      BY <1>c, <2>1 DEF Call, Scanning
    <3>6. Scanning(c)'
      BY <3>1, <3>2, <3>3, <3>5 DEF Scanning
    <3>7. Reserving(c)'
      BY <3>1, <3>2 DEF Reserving
    <3>8. QED
      BY <2>1, <3>4, <3>6, <3>7 DEF Call
  <2>2. CASE d # c
    BY <1>5, <2>2, <1>t, Bystander DEF LockRow, Goto, TypeOK
  <2>3. QED
    BY <2>1, <2>2
<1>6. ASSUME NEW c \in Checkouts, NEW p \in Products, ReserveLine(c, p)
      PROVE  Call(d)'
  <2>1. CASE d = c
    <3>1. /\ pc[c] = "reserving" /\ pc'[c] = "reserving"
          /\ p \in InCart(c) /\ p \notin reserved[c]
          /\ Available(c, p)
          /\ reserved'[c] = reserved[c] \cup {p}
          /\ UNCHANGED <<locked, items, merged, wanted, waiting, scanned,
                         product, order>>
      BY <1>6, <1>t DEF ReserveLine, TypeOK
    <3>2. \A q \in Products : q # p => byId'[c][q] = byId[c][q]
      BY <1>6, <1>t, SMT DEF ReserveLine, TypeOK
    <3>3. byId'[c][p] = WithStock(byId[c][p], byId[c][p].stock - wanted[c][p])
      BY <1>6, <1>t, SMT DEF ReserveLine, TypeOK
    <3>4. InCart(c)' = InCart(c)
      BY <3>1 DEF InCart
    <3>5. Outside(c)' /\ Merging(c)' /\ Scanning(c)' /\ Committed(c)'
      BY <1>c, <2>1, <3>1, <3>4
         DEF Call, Outside, Merging, Scanning, Committed, InTransaction,
             AfterCommit
    <3>6. p \in scanned[c]
      BY <1>c, <2>1, <3>1 DEF Call, Scanning
    <3>7. p \in locked[c] /\ byId[c][p] = product[p]
      BY <3>1, <3>6 DEF Inv, CopiesAreCurrent, Available
    <3>8. /\ byId'[c][p].status = "active"
          /\ byId'[c][p].terms = byId[c][p].terms
          /\ wanted[c][p] <= product[p].stock
      BY <3>1, <3>3, <3>7, SMT DEF Available, WithStock
    <3>9. reserved[c] \subseteq Products
      BY <1>t, SMT DEF TypeOK
    <3>10. Reserving(c)'
      <4>1. Reserving(c)
        BY <1>c, <2>1 DEF Call
      <4>2. reserved'[c] \subseteq locked'[c] \cap InCart(c)'
        BY <4>1, <3>1, <3>4, <3>7 DEF Reserving
      <4>3. \A q \in reserved'[c] : /\ byId'[c][q].status = "active"
                                    /\ wanted'[c][q] <= product'[q].stock
        BY <4>1, <3>1, <3>2, <3>8, <3>9 DEF Reserving
      <4>4. \A q \in reserved'[c] : byId'[c][q].terms = byId[c][q].terms
        BY <3>1, <3>2, <3>8, <3>9
      <4>5. \A q, r \in reserved'[c] :
              Currency[byId[c][q].terms] = Currency[byId[c][r].terms]
        BY <4>1, <3>1 DEF Reserving, Available
      <4>6. QED
        BY <4>2, <4>3, <4>4, <4>5 DEF Reserving
    <3>11. QED
      BY <2>1, <3>5, <3>10 DEF Call
  <2>2. CASE d # c
    BY <1>6, <2>2, <1>t, Bystander DEF ReserveLine, TypeOK
  <2>3. QED
    BY <2>1, <2>2
<1>7. ASSUME NEW c \in Checkouts, NEW stage, EndTransaction(c, stage),
             stage \in {"rejected", "failed"}, UNCHANGED <<product, order>>
      PROVE  Call(d)'
  <2>1. CASE d = c
    BY <1>7, <2>1, EndTransactionCall DEF InTransaction, AfterCommit
  <2>2. CASE d # c
    BY <1>7, <2>2, <1>t, Bystander DEF EndTransaction, Goto, TypeOK
  <2>3. QED
    BY <2>1, <2>2
<1>8. ASSUME NEW c \in Checkouts,
             \/ DeadlockVictim(c) \/ Rollback(c)
             \/ \E p \in Products : RejectLine(c, p)
      PROVE  Call(d)'
  BY <1>7, <1>8 DEF DeadlockVictim, Rollback, RejectLine
<1>9. ASSUME NEW c \in Checkouts, Commit(c) PROVE Call(d)'
  <2>1. EndTransaction(c, "invalidating") /\ order' = order \cup {c}
    BY <1>9 DEF Commit
  <2>2. CASE d = c
    BY <2>1, <2>2, EndTransactionCall DEF InTransaction
  <2>3. CASE d # c
    <3>1. \A p \in locked[d] : product'[p] = product[p]
      <4>1. reserved[c] \subseteq locked[c]
        BY SMT DEF Inv, Calls, Reserving
      <4>2. locked[c] \cap locked[d] = {}
        BY <2>3 DEF Inv, LockDiscipline
      <4>3. locked[d] \subseteq Products
        BY <1>t, SMT DEF TypeOK
      <4>4. QED
        BY <1>9, <4>1, <4>2, <4>3 DEF Commit
    <3>2. QED
      BY <2>1, <2>3, <3>1, <1>t, Bystander DEF EndTransaction, Goto, TypeOK
  <2>4. QED
    BY <2>2, <2>3
<1>10. ASSUME NEW c \in Checkouts,
              InvalidateProducts(c) \/ OpenPayment(c) \/ Crash(c)
       PROVE  Call(d)'
  <2>1. UNCHANGED <<locked, local, product, order>>
    BY <1>10 DEF InvalidateProducts, OpenPayment, Crash
  <2>2. CASE d = c
    <3>1. /\ pc[c] \in AfterCommit
          /\ pc'[c] \in {"paying", "replied", "crashed"}
      BY <1>10, <1>t
         DEF InvalidateProducts, OpenPayment, Crash, Goto, TypeOK, AfterCommit
    <3>2. /\ locked[c] = {} /\ waiting[c] = {} /\ scanned[c] = {}
          /\ reserved[c] = {} /\ c \in order
      BY <1>c, <2>2, <3>1
         DEF Call, Outside, Committed, InTransaction, AfterCommit
    <3>3. QED
      BY <2>1, <2>2, <3>1, <3>2
         DEF Call, Outside, Merging, Scanning, Reserving, Committed,
             InTransaction
  <2>3. CASE d # c
    BY <1>10, <2>1, <2>3, <1>t, Bystander
       DEF InvalidateProducts, OpenPayment, Crash, Goto, TypeOK
  <2>4. QED
    BY <2>2, <2>3
<1>11. ASSUME NEW p \in Products, CanWrite(p),
              \A q \in Products \ {p} : product'[q] = product[q],
              UNCHANGED <<locked, pc, local, order>>
       PROVE  Call(d)'
  <2>1. \A q \in locked[d] : q \in Products /\ q # p
    BY <1>11, <1>t, SMT DEF CanWrite, Unlocked, TypeOK
  <2>2. QED
    BY <1>11, <2>1, Bystander
<1>12. ASSUME NEW p \in Products, NEW dto \in UpdateProductDto,
              UpdateProduct(p, dto)
       PROVE  Call(d)'
  BY <1>11, <1>12, <1>t DEF UpdateProduct, TypeOK
<1>13. ASSUME NEW p \in Products, NEW status \in ProductStatus,
              SetStatus(p, status)
       PROVE  Call(d)'
  BY <1>11, <1>13, <1>t DEF SetStatus, TypeOK
<1>14. ASSUME NEW p \in Products, RemoveProduct(p) PROVE Call(d)'
  BY <1>11, <1>14, <1>t DEF RemoveProduct, TypeOK
<1>15. CASE UNCHANGED vars
  BY <1>15, Bystander DEF vars
<1>16. QED
  BY <1>1, <1>2, <1>3, <1>4, <1>5, <1>6, <1>8, <1>9, <1>10, <1>12, <1>13, <1>14,
     <1>15 DEF Next, Progress

-----------------------------------------------------------------------------
(***************************************************************************)
(* The invariant, and what follows from it.                                *)
(***************************************************************************)

\* Inv is inductive.
THEOREM Invariance == Spec => []Inv
<1>1. Init => Inv
  BY TypeInit, LockInit, CopiesInit, LedgerInit, CallsInit DEF Inv
<1>2. Inv /\ [Next]_vars => Inv'
  BY TypeStep, LockStep, CopiesStep, LedgerStep, CallsStep DEF Inv
<1>3. QED
  BY <1>1, <1>2, PTL DEF Spec

\* Every reachable state of place and the product endpoints is well typed: no
\* stock figure is negative, and no payment row lacks its order.
THEOREM TypeCorrect == Spec => []TypeOK
<1>1. Inv => TypeOK
  BY DEF Inv
<1>2. QED
  BY <1>1, Invariance, PTL

\* place never oversells: the stock of a product is what its seller offered
\* last less what committed orders have taken since.
THEOREM StockIsAccountedFor == Spec => []StockLedger
<1>1. Inv => StockLedger
  BY DEF Inv
<1>2. QED
  BY <1>1, Invariance, PTL

\* FOR UPDATE locks exclude one another and end with their transaction, before
\* place invalidates caches or calls the payment provider.
THEOREM LocksAreDisciplined == Spec => []LockDiscipline
<1>1. Inv => LockDiscipline
  BY DEF Inv
<1>2. QED
  BY <1>1, Invariance, PTL

\* What place read under its locks is the committed row until it ends.
THEOREM ReadsStayCurrent == Spec => []CopiesAreCurrent
<1>1. Inv => CopiesAreCurrent
  BY DEF Inv
<1>2. QED
  BY <1>1, Invariance, PTL


-----------------------------------------------------------------------------
(***************************************************************************)
(* Checkout implements Sales.                                              *)
(***************************************************************************)

\* A listing is never mistaken for a missing row.
LEMMA ListingIsARow ==
  ASSUME NEW row \in Row
  PROVE  [status |-> row.status, terms |-> row.terms] \in Abstract!Listing
                                                            \ {NoRow}
  BY ShopAssumption, SMT
     DEF Row, ProductStatus, Abstract!Listing, Abstract!ProductStatus

\* What the catalog shows of a product.
LEMMA CatalogShows ==
  ASSUME TypeOK, NEW p \in Products
  PROVE  /\ Catalog[p] = NoRow <=> product[p] = NoRow
         /\ product[p] # NoRow => /\ Catalog[p].status = product[p].status
                                  /\ Catalog[p].terms = product[p].terms
                                  /\ Catalog[p] \in Abstract!Listing
<1>1. CASE product[p] = NoRow
  BY <1>1 DEF Catalog
<1>2. CASE product[p] # NoRow
  <2>1. product[p] \in Row
    BY <1>2 DEF TypeOK
  <2>2. Catalog[p] = [status |-> product[p].status, terms |-> product[p].terms]
    BY <1>2 DEF Catalog
  <2>3. QED
    BY <1>2, <2>1, <2>2, ListingIsARow
<1>3. QED
  BY <1>1, <1>2

LEMMA SalesInit == Init => Abstract!Init
<1> SUFFICES ASSUME Init PROVE Abstract!Init
  OBVIOUS
<1>1. ASSUME NEW p \in Products
      PROVE  product[p] \in Row /\ product[p].stock \in StockLevels
  <2>1. product[p] \in Row
    BY InitialRows
  <2>2. product[p] \in [status : ProductStatus, stock : StockLevels,
                        terms : Terms]
    BY DEF Init
  <2>3. product[p].stock \in StockLevels
    BY <2>2
  <2>4. QED
    BY <2>1, <2>3
<1>2. \A p \in Products : product[p] # NoRow
  BY <1>1, ShopAssumption
<1>3. Catalog \in [Products -> Abstract!Listing]
  BY <1>1, <1>2, ListingIsARow DEF Catalog
<1>4. offered \in [Products -> StockLevels]
  BY <1>1 DEF Init
<1>5. /\ Cart = [c \in Checkouts |-> Abstract!EmptyCart]
      /\ Verdict = [c \in Checkouts |-> "none"]
  BY SMT
     DEF Init, Cart, Verdict, InTransaction, EmptyCart, Abstract!EmptyCart
<1>6. QED
  BY <1>3, <1>4, <1>5 DEF Init, Abstract!Init

\* A step of one call changes how that call stands, and nobody else's standing.
LEMMA OnlyItsOwn ==
  ASSUME NEW c \in Checkouts, NEW stage, TypeOK, Goto(c, stage),
         \A d \in Checkouts \ {c} : wanted'[d] = wanted[d]
  PROVE  /\ pc'[c] = stage
         /\ Cart' = [Cart EXCEPT ![c] = Cart'[c]]
         /\ Verdict' = [Verdict EXCEPT ![c] = Verdict'[c]]
<1>1. pc'[c] = stage /\ \A d \in Checkouts \ {c} : pc'[d] = pc[d]
  BY DEF TypeOK, Goto
<1>2. \A d \in Checkouts \ {c} : Cart'[d] = Cart[d] /\ Verdict'[d] = Verdict[d]
  <2>1. SUFFICES ASSUME NEW d \in Checkouts \ {c}
                 PROVE  Cart'[d] = Cart[d] /\ Verdict'[d] = Verdict[d]
    OBVIOUS
  <2>2. d \in Checkouts /\ pc'[d] = pc[d] /\ wanted'[d] = wanted[d]
    BY <1>1
  <2>3. Cart'[d] = Cart[d]
    BY <2>2, Zenon DEF Cart
  <2>4. Verdict'[d] = Verdict[d]
    BY <2>2, Zenon DEF Verdict
  <2>5. QED
    BY <2>3, <2>4
<1>3. /\ Cart = [d \in Checkouts |-> Cart[d]]
      /\ Cart' = [d \in Checkouts |-> Cart'[d]]
      /\ Verdict = [d \in Checkouts |-> Verdict[d]]
      /\ Verdict' = [d \in Checkouts |-> Verdict'[d]]
  BY DEF Cart, Verdict
<1>4. QED
  BY <1>1, <1>2, <1>3

\* A step that a buyer does not see.
LEMMA UnseenStep ==
  ASSUME NEW c \in Checkouts, NEW stage, TypeOK, Goto(c, stage),
         UNCHANGED <<product, orderItem, offered, sold>>,
         \A d \in Checkouts \ {c} : wanted'[d] = wanted[d],
         Cart'[c] = Cart[c], Verdict'[c] = Verdict[c]
  PROVE  UNCHANGED Abstract!vars
<1>1. Catalog' = Catalog
  BY DEF Catalog
<1>2. Cart' = Cart /\ Verdict' = Verdict
  <2>1. /\ Cart' = [Cart EXCEPT ![c] = Cart[c]]
        /\ Verdict' = [Verdict EXCEPT ![c] = Verdict[c]]
    BY OnlyItsOwn
  <2>2. Cart = [d \in Checkouts |-> Cart[d]]
    BY DEF Cart
  <2>3. Verdict = [d \in Checkouts |-> Verdict[d]]
    BY DEF Verdict
  <2>4. QED
    BY <2>1, <2>2, <2>3
<1>3. QED
  BY <1>1, <1>2 DEF Abstract!vars

\* What a line that is reserved, and one that is not yet, say of the catalog.
LEMMA LinesAreCurrent ==
  ASSUME Inv, NEW c \in Checkouts, pc[c] = "reserving", NEW p \in InCart(c)
  PROVE  /\ p \in Products
         /\ byId[c][p] = NoRow <=> product[p] = NoRow
         /\ byId[c][p] # NoRow =>
              /\ product[p] \in Row
              /\ byId[c][p].status = product[p].status
              /\ byId[c][p].terms = product[p].terms
              /\ product[p].stock = offered[p] - sold[p]
         /\ p \notin reserved[c] => byId[c][p] = product[p]
         /\ p \in reserved[c] =>
              /\ byId[c][p] # NoRow
              /\ byId[c][p].stock = product[p].stock - wanted[c][p]
              /\ wanted[c][p] <= product[p].stock
              /\ product[p].status = "active"
<1>1. p \in Products /\ p \in scanned[c]
  BY SMT DEF Inv, Calls, Scanning, InCart
<1>2. product[p] \in Row \cup {NoRow} /\ wanted[c][p] \in Nat
  BY <1>1, SMT DEF Inv, TypeOK
<1>3. /\ p \in locked[c] =>
           /\ product[p] # NoRow
           /\ byId[c][p] = IF p \in reserved[c]
                THEN WithStock(product[p], product[p].stock - wanted[c][p])
                ELSE product[p]
      /\ p \notin locked[c] => product[p] = NoRow /\ byId[c][p] = NoRow
  BY <1>1 DEF Inv, CopiesAreCurrent
<1>4. product[p] # NoRow => product[p].stock = offered[p] - sold[p]
  BY <1>1 DEF Inv, StockLedger
<1>5. p \in reserved[c] => /\ p \in locked[c]
                           /\ byId[c][p].status = "active"
                           /\ wanted[c][p] <= product[p].stock
  BY SMT DEF Inv, Calls, Reserving
<1>6. CASE p \in reserved[c]
  <2>1. /\ product[p] \in Row
        /\ byId[c][p]
             = WithStock(product[p], product[p].stock - wanted[c][p])
    BY <1>2, <1>3, <1>5, <1>6
  <2>2. byId[c][p] \in Row
    BY <1>2, <1>5, <1>6, <2>1, SMT DEF Row, WithStock
  <2>3. byId[c][p] # NoRow
    BY <2>2, ShopAssumption
  <2>4. /\ byId[c][p].status = product[p].status
        /\ byId[c][p].terms = product[p].terms
        /\ byId[c][p].stock = product[p].stock - wanted[c][p]
    BY <2>1 DEF WithStock
  <2>5. QED
    BY <1>1, <1>3, <1>4, <1>5, <1>6, <2>1, <2>3, <2>4
<1>7. CASE p \notin reserved[c]
  BY <1>1, <1>2, <1>3, <1>4, <1>7
<1>8. QED
  BY <1>6, <1>7

\* A committing transaction sells its cart against the catalog of that moment.
LEMMA CommitSells ==
  ASSUME Inv, NEW c \in Checkouts, Commit(c)
  PROVE  Abstract!Sell(c)
<1>t. TypeOK
  BY DEF Inv
<1>1. pc[c] = "reserving" /\ reserved[c] = InCart(c) /\ Cart[c] = wanted[c]
      /\ Abstract!InCart(c) = InCart(c)
  BY SMT DEF Commit, Cart, Abstract!InCart, InCart
<1>2. ASSUME NEW p \in InCart(c)
      PROVE  /\ p \in Products
             /\ product[p] \in Row
             /\ byId[c][p].terms = product[p].terms
             /\ product[p].status = "active"
             /\ wanted[c][p] <= product[p].stock
             /\ product[p].stock = offered[p] - sold[p]
             /\ byId[c][p].stock = product[p].stock - wanted[c][p]
             /\ Catalog[p] # NoRow
             /\ Catalog[p].status = product[p].status
             /\ Catalog[p].terms = product[p].terms
  <2>1. p \in reserved[c]
    BY <1>1
  <2>2. p \in Products /\ product[p] \in Row /\ product[p] # NoRow
    BY <1>1, <2>1, LinesAreCurrent, ShopAssumption
  <2>3. /\ byId[c][p].terms = product[p].terms
        /\ product[p].status = "active"
        /\ wanted[c][p] <= product[p].stock
        /\ product[p].stock = offered[p] - sold[p]
        /\ byId[c][p].stock = product[p].stock - wanted[c][p]
    BY <1>1, <2>1, LinesAreCurrent
  <2>4. QED
    BY <1>t, <2>2, <2>3, CatalogShows
<1>3. Abstract!Fillable(c)
  <2>1. ASSUME NEW p \in InCart(c)
        PROVE  /\ Catalog[p] # NoRow
               /\ Catalog[p].status = "active"
               /\ sold[p] + Cart[c][p] <= offered[p]
    <3>1. /\ sold[p] \in Nat /\ offered[p] \in Nat /\ wanted[c][p] \in Nat
      BY <1>t, <1>2, SMT DEF TypeOK
    <3>2. wanted[c][p] <= offered[p] - sold[p]
      BY <1>2
    <3>3. sold[p] + wanted[c][p] <= offered[p]
      BY <3>1, <3>2, SMT
    <3>4. QED
      BY <1>1, <1>2, <3>3
  <2>2. ASSUME NEW p \in InCart(c), NEW q \in InCart(c)
        PROVE  Currency[Catalog[p].terms] = Currency[Catalog[q].terms]
    <3>1. Currency[byId[c][p].terms] = Currency[byId[c][q].terms]
      BY <1>1 DEF Inv, Calls, Reserving
    <3>2. QED
      BY <3>1, <1>2
  <2>3. QED
    BY <1>1, <2>1, <2>2 DEF Abstract!Fillable
<1>4. Catalog' = Catalog
  <2>1. ASSUME NEW p \in Products PROVE Catalog'[p] = Catalog[p]
    <3>1. CASE p \in InCart(c)
      <4>1. product'[p] = WithStock(product[p], byId[c][p].stock)
        BY <1>1, <3>1 DEF Commit
      <4>2. byId[c][p].stock \in Nat
        <5>1. product[p].stock \in Nat /\ wanted[c][p] \in Nat
          BY <1>t, <1>2, <3>1, SMT DEF TypeOK, Row
        <5>2. QED
          BY <5>1, <1>2, <3>1, SMT
      <4>3. product'[p] \in Row
        BY <4>1, <4>2, <1>2, <3>1, SMT DEF Row, WithStock
      <4>4. product'[p] # NoRow /\ product[p] # NoRow
        BY <4>3, <1>2, <3>1, ShopAssumption
      <4>5. /\ product'[p].status = product[p].status
            /\ product'[p].terms = product[p].terms
        BY <4>1 DEF WithStock
      <4>6. QED
        BY <4>4, <4>5 DEF Catalog
    <3>2. CASE p \notin InCart(c)
      BY <1>1, <3>2 DEF Commit, Catalog
    <3>3. QED
      BY <3>1, <3>2
  <2>2. /\ Catalog = [p \in Products |-> Catalog[p]]
        /\ Catalog' = [p \in Products |-> Catalog'[p]]
    BY DEF Catalog
  <2>3. QED
    BY <2>1, <2>2
<1>5. Goto(c, "invalidating") /\ UNCHANGED wanted
  BY DEF Commit, EndTransaction
<1>6. /\ pc'[c] = "invalidating"
      /\ Cart' = [Cart EXCEPT ![c] = Cart'[c]]
      /\ Verdict' = [Verdict EXCEPT ![c] = Verdict'[c]]
  BY <1>t, <1>5, OnlyItsOwn
<1>7. Verdict[c] = "open" /\ Verdict'[c] = "sold" /\ Cart'[c] = Cart[c]
  <2>1. Verdict[c] = "open"
    BY <1>1, SMT DEF Verdict, InTransaction
  <2>2. Verdict'[c] = "sold"
    <3>1. /\ pc'[c] \notin {"idle", "merging"} /\ pc'[c] \notin InTransaction
          /\ pc'[c] # "rejected" /\ pc'[c] # "failed"
      BY <1>6, SMT DEF InTransaction
    <3>2. QED
      BY <3>1, Zenon DEF Verdict
  <2>3. Cart'[c] = Cart[c]
    BY <1>1, <1>5, <1>6, SMT DEF Cart
  <2>4. QED
    BY <2>1, <2>2, <2>3
<1>8. Cart' = Cart
  BY <1>6, <1>7 DEF Cart
<1>9. /\ sold' = [p \in Products |-> sold[p] + Cart[c][p]]
      /\ UNCHANGED offered
  BY <1>1 DEF Commit
<1>10. OrderItems(c) =
         {[order |-> c, product |-> p, quantity |-> Cart[c][p],
           terms |-> Catalog[p].terms, linked |-> TRUE] : p \in InCart(c)}
  BY <1>1, <1>2 DEF OrderItems
<1>11. QED
  BY <1>1, <1>3, <1>4, <1>6, <1>7, <1>8, <1>9, <1>10 DEF Commit, Abstract!Sell


\* A rejected line is one that the catalog of that moment cannot fill.
LEMMA RejectionRefuses ==
  ASSUME Inv, NEW c \in Checkouts, NEW p \in Products, RejectLine(c, p)
  PROVE  Abstract!Refuse(c)
<1>t. TypeOK
  BY DEF Inv
<1>1. /\ pc[c] = "reserving" /\ p \in InCart(c) /\ p \notin reserved[c]
      /\ ~Available(c, p)
      /\ Cart[c] = wanted[c] /\ Abstract!InCart(c) = InCart(c)
  BY SMT DEF RejectLine, Cart, Abstract!InCart, InCart
<1>2. SUFFICES ASSUME Abstract!Fillable(c) PROVE FALSE
  <2>1. ~Abstract!Fillable(c)
    BY <1>2
  <2>2. Goto(c, "rejected") /\ UNCHANGED <<wanted, table, history>>
    BY DEF RejectLine, EndTransaction
  <2>3. /\ pc'[c] = "rejected"
        /\ Cart' = [Cart EXCEPT ![c] = Cart'[c]]
        /\ Verdict' = [Verdict EXCEPT ![c] = Verdict'[c]]
    BY <1>t, <2>2, OnlyItsOwn
  <2>4. Verdict[c] = "open" /\ Verdict'[c] = "refused"
    <3>1. Verdict[c] = "open"
      BY <1>1, SMT DEF Verdict, InTransaction
    <3>2. pc'[c] \notin {"idle", "merging"} /\ pc'[c] \notin InTransaction
      BY <2>3, SMT DEF InTransaction
    <3>3. QED
      BY <2>3, <3>1, <3>2, Zenon DEF Verdict
  <2>5. Cart'[c] = Cart[c]
    BY <1>1, <2>2, <2>3, SMT DEF Cart
  <2>6. Cart' = Cart
    BY <2>3, <2>5 DEF Cart
  <2>7. Catalog' = Catalog
    BY <2>2 DEF Catalog, table
  <2>8. QED
    BY <2>1, <2>2, <2>3, <2>4, <2>6, <2>7 DEF Abstract!Refuse, table, history
<1>3. /\ Catalog[p] # NoRow
      /\ Catalog[p].status = "active"
      /\ sold[p] + wanted[c][p] <= offered[p]
      /\ \A q \in InCart(c) :
           Currency[Catalog[p].terms] = Currency[Catalog[q].terms]
  BY <1>1, <1>2 DEF Abstract!Fillable
<1>4. /\ product[p] # NoRow /\ byId[c][p] # NoRow /\ byId[c][p] = product[p]
      /\ product[p] \in Row /\ product[p].stock = offered[p] - sold[p]
  BY <1>t, <1>1, <1>3, CatalogShows, LinesAreCurrent
<1>5. byId[c][p].status = "active" /\ Catalog[p].terms = byId[c][p].terms
  BY <1>t, <1>3, <1>4, CatalogShows
<1>6. wanted[c][p] <= byId[c][p].stock
  <2>1. sold[p] \in Nat /\ offered[p] \in Nat /\ wanted[c][p] \in Nat
    BY <1>t, SMT DEF TypeOK
  <2>2. wanted[c][p] <= offered[p] - sold[p]
    BY <1>3, <2>1, SMT
  <2>3. QED
    BY <1>4, <2>2
<1>7. ASSUME NEW q \in reserved[c]
      PROVE  Currency[byId[c][p].terms] = Currency[byId[c][q].terms]
  <2>1. q \in InCart(c)
    BY SMT DEF Inv, Calls, Reserving
  <2>2. q \in Products /\ product[q] # NoRow
        /\ byId[c][q].terms = product[q].terms
    BY <1>1, <2>1, LinesAreCurrent
  <2>3. Catalog[q].terms = byId[c][q].terms
    BY <1>t, <2>2, CatalogShows
  <2>4. QED
    BY <1>3, <1>5, <2>1, <2>3
<1>8. QED
  BY <1>1, <1>4, <1>5, <1>6, <1>7 DEF Available

\* The transaction begins: the merged cart is asked for, and it is not empty.
LEMMA BeginAsks ==
  ASSUME Inv, NEW c \in Checkouts, BeginTransaction(c)
  PROVE  Abstract!Ask(c)
<1>t. TypeOK
  BY DEF Inv
<1>1. /\ pc[c] = "merging" /\ merged[c] = Len(items[c]) /\ Goto(c, "locking")
      /\ UNCHANGED <<table, local, history>>
  BY DEF BeginTransaction
<1>2. /\ pc'[c] = "locking"
      /\ Cart' = [Cart EXCEPT ![c] = Cart'[c]]
      /\ Verdict' = [Verdict EXCEPT ![c] = Verdict'[c]]
  BY <1>t, <1>1, OnlyItsOwn DEF local
<1>3. InCart(c) # {}
  <2>1. items[c] # <<>> /\ items[c] \in Seq(OrderItemInput)
    BY <1>t, <1>1, SMT DEF TypeOK, Inv, Calls, Merging
  <2>2. merged[c] > 0
    BY <1>1, <2>1, SMT
  <2>3. QED
    BY <1>1, <2>2, SMT DEF Inv, Calls, Merging
<1>4. Cart'[c] = wanted[c]
  BY <1>1, <1>2, SMT DEF Cart, local
<1>5. wanted[c] \in [Products -> Nat] /\ wanted[c] # Abstract!EmptyCart
  <2>1. wanted[c] \in [Products -> Nat]
    BY <1>t DEF TypeOK
  <2>2. PICK p \in Products : wanted[c][p] > 0
    BY <1>3 DEF InCart
  <2>3. QED
    BY <2>1, <2>2, SMT DEF Abstract!EmptyCart
<1>6. Verdict[c] = "none" /\ Verdict'[c] = "open"
  <2>1. Verdict[c] = "none"
    BY <1>1, Zenon DEF Verdict
  <2>2. pc'[c] \notin {"idle", "merging"} /\ pc'[c] \in InTransaction
    BY <1>2, SMT DEF InTransaction
  <2>3. QED
    BY <2>1, <2>2, Zenon DEF Verdict
<1>7. Catalog' = Catalog
  BY <1>1 DEF Catalog, table
<1>8. QED
  BY <1>1, <1>2, <1>4, <1>5, <1>6, <1>7 DEF Abstract!Ask, table, history

\* A transaction that is rolled back is a checkout the shop gave up.
LEMMA FailureGivesUp ==
  ASSUME Inv, NEW c \in Checkouts,
         pc[c] \in {"merging"} \cup InTransaction,
         EndTransaction(c, "failed"), UNCHANGED <<table, history>>
  PROVE  Abstract!GiveUp(c)
<1>t. TypeOK
  BY DEF Inv
<1>1. Goto(c, "failed") /\ UNCHANGED wanted
  BY DEF EndTransaction
<1>2. /\ pc'[c] = "failed"
      /\ Cart' = [Cart EXCEPT ![c] = Cart'[c]]
      /\ Verdict' = [Verdict EXCEPT ![c] = Verdict'[c]]
  BY <1>t, <1>1, OnlyItsOwn
<1>3. Verdict[c] \in {"none", "open"}
  BY SMT DEF Verdict, InTransaction
<1>4. Verdict'[c] = "given up" /\ Cart'[c] = Abstract!EmptyCart
  <2>1. pc'[c] \notin {"idle", "merging"} /\ pc'[c] \notin InTransaction
        /\ pc'[c] # "rejected"
    BY <1>2, SMT DEF InTransaction
  <2>2. Verdict'[c] = "given up"
    BY <1>2, <2>1, Zenon DEF Verdict
  <2>3. Cart'[c] = Abstract!EmptyCart
    BY <1>2, SMT DEF Cart, EmptyCart, Abstract!EmptyCart
  <2>4. QED
    BY <2>2, <2>3
<1>5. Catalog' = Catalog
  BY DEF Catalog, table
<1>6. QED
  BY <1>2, <1>3, <1>4, <1>5 DEF Abstract!GiveUp, table, history


\* What a seller does to a row is seen in the catalog, and by no checkout.
LEMMA SellerStep ==
  ASSUME Inv, NEW p \in Products, CanWrite(p), UNCHANGED <<pc, local>>,
         \A q \in Products \ {p} : product'[q] = product[q]
  PROVE  /\ Catalog[p] # NoRow
         /\ Catalog' = [Catalog EXCEPT ![p] = Catalog'[p]]
         /\ Cart' = Cart
         /\ Verdict' = Verdict
<1>1. Catalog[p] # NoRow
  BY CatalogShows DEF CanWrite, Inv
<1>2. \A q \in Products \ {p} : Catalog'[q] = Catalog[q]
  BY DEF Catalog
<1>3. /\ Catalog = [q \in Products |-> Catalog[q]]
      /\ Catalog' = [q \in Products |-> Catalog'[q]]
  BY DEF Catalog
<1>4. Catalog' = [Catalog EXCEPT ![p] = Catalog'[p]]
  BY <1>2, <1>3
<1>5. Cart' = Cart /\ Verdict' = Verdict
  BY DEF Cart, Verdict, local
<1>6. QED
  BY <1>1, <1>4, <1>5

\* A row that has just been written is listed.
LEMMA WrittenIsListed ==
  ASSUME Inv, Inv', NEW p \in Products, product'[p] # NoRow
  PROVE  Catalog'[p] \in Abstract!Listing
<1>1. product'[p] \in Row
  BY SMT DEF Inv, TypeOK
<1>2. Catalog'[p] = [status |-> product'[p].status, terms |-> product'[p].terms]
  BY DEF Catalog
<1>3. QED
  BY <1>1, <1>2, ListingIsARow

\* A step of Checkout is a step of Sales, or one that Sales does not see.
LEMMA SalesStep ==
  Inv /\ Inv' /\ [Next]_vars => [Abstract!Next]_(Abstract!vars)
<1> SUFFICES ASSUME Inv, Inv', [Next]_vars
             PROVE  Abstract!Next \/ UNCHANGED Abstract!vars
  OBVIOUS
<1> USE DEF table, local, history
<1>t. TypeOK
  BY DEF Inv
<1>1. ASSUME NEW c \in Checkouts, Receive(c) PROVE UNCHANGED Abstract!vars
  <2>1. pc[c] = "idle" /\ Goto(c, "merging") /\ pc'[c] = "merging"
    BY <1>1, <1>t DEF Receive, Goto, TypeOK
  <2>2. Cart'[c] = Cart[c] /\ Verdict'[c] = Verdict[c]
    BY <1>1, <2>1, Zenon DEF Receive, Cart, Verdict, EmptyCart
  <2>3. QED
    BY <1>1, <1>t, <2>1, <2>2, UnseenStep DEF Receive
<1>2. ASSUME NEW c \in Checkouts, MergeLine(c) PROVE UNCHANGED Abstract!vars
  <2>1. pc[c] = "merging" /\ Goto(c, "merging") /\ pc'[c] = "merging"
    BY <1>2, <1>t DEF MergeLine, Goto, TypeOK
  <2>2. Cart'[c] = Cart[c] /\ Verdict'[c] = Verdict[c]
    BY <2>1, Zenon DEF Cart, Verdict, EmptyCart
  <2>3. \A d \in Checkouts \ {c} : wanted'[d] = wanted[d]
    BY <1>2, <1>t DEF MergeLine, TypeOK
  <2>4. QED
    BY <1>2, <1>t, <2>1, <2>2, <2>3, UnseenStep DEF MergeLine
<1>3. ASSUME NEW c \in Checkouts, BeginTransaction(c) PROVE Abstract!Next
  BY <1>3, BeginAsks DEF Abstract!Next
<1>4. ASSUME NEW c \in Checkouts, NEW p \in Products,
             ScanRow(c, p) \/ LockRow(c, p) \/ ReserveLine(c, p)
      PROVE  UNCHANGED Abstract!vars
  <2>1. pc[c] \in InTransaction
    BY <1>4 DEF ScanRow, LockRow, ReserveLine, InTransaction
  <2>2. PICK stage \in InTransaction : Goto(c, stage)
    <3>1. Goto(c, pc[c]) \/ Goto(c, "locking") \/ Goto(c, "reserving")
      BY <1>4, <1>t, SMT DEF ScanRow, LockRow, ReserveLine, Goto, TypeOK
    <3>2. QED
      BY <2>1, <3>1 DEF InTransaction
  <2>3. UNCHANGED <<product, orderItem, offered, sold, wanted>>
    BY <1>4 DEF ScanRow, LockRow, ReserveLine
  <2>4. pc'[c] = stage
    BY <1>t, <2>2 DEF Goto, TypeOK
  <2>5. /\ pc[c] \notin {"idle", "merging", "failed"}
        /\ pc'[c] \notin {"idle", "merging", "failed"}
        /\ pc'[c] \in InTransaction
    BY <2>1, <2>2, <2>4, SMT DEF InTransaction
  <2>6. Cart'[c] = Cart[c]
    BY <2>3, <2>5, Zenon DEF Cart
  <2>7. Verdict'[c] = Verdict[c]
    <3>1. pc[c] \notin {"idle", "merging"} /\ pc'[c] \notin {"idle", "merging"}
      BY <2>5
    <3>2. QED
      BY <2>1, <2>5, <3>1, Zenon DEF Verdict
  <2>8. QED
    BY <1>t, <2>2, <2>3, <2>6, <2>7, UnseenStep
<1>5. ASSUME NEW c \in Checkouts, NEW p \in Products, RejectLine(c, p)
      PROVE  Abstract!Next
  BY <1>5, RejectionRefuses DEF Abstract!Next
<1>6. ASSUME NEW c \in Checkouts, Commit(c) PROVE Abstract!Next
  BY <1>6, CommitSells DEF Abstract!Next
<1>7. ASSUME NEW c \in Checkouts,
             InvalidateProducts(c) \/ OpenPayment(c) \/ Crash(c)
      PROVE  UNCHANGED Abstract!vars
  <2>1. pc[c] \in AfterCommit
    BY <1>7 DEF InvalidateProducts, OpenPayment, Crash, AfterCommit
  <2>2. PICK stage \in {"paying", "replied", "crashed"} : Goto(c, stage)
    BY <1>7 DEF InvalidateProducts, OpenPayment, Crash
  <2>3. UNCHANGED <<product, orderItem, offered, sold, wanted>>
    BY <1>7 DEF InvalidateProducts, OpenPayment, Crash
  <2>4. pc'[c] = stage
    BY <1>t, <2>2 DEF Goto, TypeOK
  <2>5. /\ pc[c] \notin {"idle", "merging", "failed"}
        /\ pc'[c] \notin {"idle", "merging", "failed"}
        /\ pc[c] \notin {"idle", "merging"} /\ pc'[c] \notin {"idle", "merging"}
        /\ pc[c] \notin InTransaction /\ pc'[c] \notin InTransaction
        /\ pc[c] # "rejected" /\ pc'[c] # "rejected"
        /\ pc[c] # "failed" /\ pc'[c] # "failed"
    BY <2>1, <2>2, <2>4, SMT DEF InTransaction, AfterCommit
  <2>6. Cart'[c] = Cart[c]
    BY <2>3, <2>5, Zenon DEF Cart
  <2>7. Verdict'[c] = Verdict[c]
    BY <2>5, Zenon DEF Verdict
  <2>8. QED
    BY <1>t, <2>2, <2>3, <2>6, <2>7, UnseenStep
<1>8. ASSUME NEW c \in Checkouts, DeadlockVictim(c) \/ Rollback(c)
      PROVE  Abstract!Next
  <2>1. pc[c] \in {"merging"} \cup InTransaction
    <3>1. CASE DeadlockVictim(c)
      <4>1. waiting[c] # {}
        BY <3>1 DEF DeadlockVictim, WaitCycle
      <4>2. QED
        BY <4>1 DEF Inv, Calls, Outside
    <3>2. QED
      BY <1>8, <3>1 DEF Rollback
  <2>2. EndTransaction(c, "failed") /\ UNCHANGED <<table, history>>
    BY <1>8 DEF DeadlockVictim, Rollback
  <2>3. QED
    BY <2>1, <2>2, FailureGivesUp DEF Abstract!Next
<1>9. ASSUME NEW p \in Products, NEW dto \in UpdateProductDto,
             UpdateProduct(p, dto)
      PROVE  Abstract!Next
  <2>1. /\ Catalog[p] # NoRow
        /\ Catalog' = [Catalog EXCEPT ![p] = Catalog'[p]]
        /\ UNCHANGED <<Cart, Verdict>>
    BY <1>9, <1>t, SellerStep DEF UpdateProduct, TypeOK
  <2>2. Catalog'[p] \in Abstract!Listing
    <3>1. product'[p] # NoRow
      <4>1. product'[p] \in Row \cup {NoRow}
        BY SMT DEF Inv, TypeOK
      <4>2. product[p] \in Row
        BY <1>9, <1>t DEF TypeOK, UpdateProduct, CanWrite
      <4>3. /\ dto.stock = Unset \/ dto.stock \in Nat
            /\ dto.terms = Unset \/ dto.terms \in Terms
        <5>1. dto.stock \in StockLevels \cup {Unset}
          BY DEF UpdateProductDto
        <5>2. dto.terms \in Terms \cup {Unset}
          BY DEF UpdateProductDto
        <5>3. QED
          BY <5>1, <5>2, ShopAssumption
      <4>4. product'[p] =
              [status |-> product[p].status,
               stock |-> IF dto.stock = Unset THEN product[p].stock
                         ELSE dto.stock,
               terms |-> IF dto.terms = Unset THEN product[p].terms
                         ELSE dto.terms]
        BY <1>9, <1>t DEF UpdateProduct, TypeOK
      <4>5. product'[p] \in Row
        BY <4>2, <4>3, <4>4, SMT DEF Row
      <4>6. QED
        BY <4>5, ShopAssumption
    <3>2. QED
      BY <3>1, WrittenIsListed
  <2>3. CASE dto.stock = Unset
    <3>1. Abstract!Relist(p, Catalog'[p])
      BY <1>9, <2>1, <2>3 DEF UpdateProduct, Abstract!Relist
    <3>2. QED
      BY <2>2, <3>1 DEF Abstract!Next
  <2>4. CASE dto.stock # Unset
    <3>1. dto.stock \in StockLevels
      BY <2>4 DEF UpdateProductDto
    <3>2. Abstract!Restock(p, Catalog'[p], dto.stock)
      BY <1>9, <2>1, <2>4 DEF UpdateProduct, Abstract!Restock
    <3>3. QED
      BY <2>2, <3>1, <3>2 DEF Abstract!Next
  <2>5. QED
    BY <2>3, <2>4
<1>10. ASSUME NEW p \in Products, NEW status \in ProductStatus,
              SetStatus(p, status)
       PROVE  Abstract!Next
  <2>1. /\ Catalog[p] # NoRow
        /\ Catalog' = [Catalog EXCEPT ![p] = Catalog'[p]]
        /\ UNCHANGED <<Cart, Verdict>>
    BY <1>10, <1>t, SellerStep DEF SetStatus, TypeOK
  <2>2. Catalog'[p] \in Abstract!Listing
    <3>1. product[p] \in Row
      BY <1>10, <1>t DEF TypeOK, SetStatus, CanWrite
    <3>2. product'[p] = [status |-> status, stock |-> product[p].stock,
                         terms |-> product[p].terms]
      BY <1>10, <1>t DEF SetStatus, TypeOK
    <3>3. product'[p] \in Row
      BY <3>1, <3>2, SMT DEF Row
    <3>4. QED
      BY <3>3, ShopAssumption, WrittenIsListed
  <2>3. Abstract!Relist(p, Catalog'[p])
    BY <1>10, <2>1 DEF SetStatus, Abstract!Relist
  <2>4. QED
    BY <2>2, <2>3 DEF Abstract!Next
<1>11. ASSUME NEW p \in Products, RemoveProduct(p) PROVE Abstract!Next
  <2>1. /\ Catalog[p] # NoRow
        /\ Catalog' = [Catalog EXCEPT ![p] = Catalog'[p]]
        /\ UNCHANGED <<Cart, Verdict>>
    BY <1>11, <1>t, SellerStep DEF RemoveProduct, TypeOK
  <2>2. Catalog'[p] = NoRow
    BY <1>11, <1>t DEF RemoveProduct, TypeOK, Catalog
  <2>3. Abstract!Withdraw(p)
    BY <1>11, <2>1, <2>2
       DEF RemoveProduct, Abstract!Withdraw, Unlink, Abstract!Unlink
  <2>4. QED
    BY <2>3 DEF Abstract!Next
<1>12. CASE UNCHANGED vars
  BY <1>12 DEF vars, Abstract!vars, Catalog, Cart, Verdict
<1>13. QED
  BY <1>1, <1>2, <1>3, <1>4, <1>5, <1>6, <1>7, <1>8, <1>9, <1>10, <1>11, <1>12
     DEF Next, Progress

\* The interleaved transactions of place and the sellers' endpoints implement
\* Sales: every cart is sold whole, in one step, against the catalog of the
\* moment of commit, and refused only if the catalog could not fill it.
THEOREM Refinement == Spec => ImplementsSales
<1>1. Inv /\ Inv' /\ [Next]_vars => [Abstract!Next]_(Abstract!vars)
  BY SalesStep
<1>2. QED
  BY <1>1, SalesInit, Invariance, PTL DEF Spec, ImplementsSales, Abstract!Spec

\* place never sells a unit more than the seller offered last, and this is also
\* true of what was sold of a product that is gone by now.
THEOREM NothingIsOversold == Spec => []Abstract!NeverOversold
<1>1. Init => Abstract!NeverOversold
  <2>1. SUFFICES ASSUME Init PROVE Abstract!NeverOversold
    OBVIOUS
  <2>2. offered \in [Products -> Nat] /\ sold = [p \in Products |-> 0]
    BY <2>1, TypeInit DEF Init, TypeOK
  <2>3. QED
    BY <2>2, SMT DEF Abstract!NeverOversold
<1>2. Inv /\ Inv' /\ [Next]_vars /\ Abstract!NeverOversold
        => Abstract!NeverOversold'
  <2>1. SUFFICES ASSUME Inv, Inv', [Next]_vars, Abstract!NeverOversold
                 PROVE  Abstract!NeverOversold'
    OBVIOUS
  <2>2. Abstract!Next \/ UNCHANGED Abstract!vars
    BY <2>1, SalesStep
  <2>3. sold \in [Products -> Nat] /\ offered \in [Products -> Nat]
    BY <2>1 DEF Inv, TypeOK
  <2>4. ASSUME NEW c \in Checkouts, Abstract!Sell(c)
        PROVE  Abstract!NeverOversold'
    <3>1. SUFFICES ASSUME NEW p \in Products PROVE sold'[p] <= offered'[p]
      BY DEF Abstract!NeverOversold
    <3>2. sold'[p] = sold[p] + Cart[c][p] /\ offered'[p] = offered[p]
      BY <2>4 DEF Abstract!Sell
    <3>3. Cart[c][p] \in Nat
      BY <2>1, SMT DEF Inv, TypeOK, Cart, EmptyCart
    <3>4. Cart[c][p] > 0 => sold[p] + Cart[c][p] <= offered[p]
      BY <2>4 DEF Abstract!Sell, Abstract!Fillable, Abstract!InCart
    <3>5. sold[p] <= offered[p]
      BY <2>1 DEF Abstract!NeverOversold
    <3>6. QED
      BY <2>3, <3>2, <3>3, <3>4, <3>5, SMT
  <2>5. ASSUME NEW p \in Products, NEW entry, NEW units \in StockLevels,
               Abstract!Restock(p, entry, units)
        PROVE  Abstract!NeverOversold'
    <3>1. units \in Nat
      BY ShopAssumption
    <3>2. /\ offered' = [offered EXCEPT ![p] = units]
          /\ sold' = [sold EXCEPT ![p] = 0]
      BY <2>5 DEF Abstract!Restock
    <3>3. QED
      BY <2>1, <2>3, <3>1, <3>2, SMT DEF Abstract!NeverOversold
  <2>6. UNCHANGED <<offered, sold>> => Abstract!NeverOversold'
    BY <2>1 DEF Abstract!NeverOversold
  <2>7. QED
    BY <2>2, <2>4, <2>5, <2>6
       DEF Abstract!Next, Abstract!vars, Abstract!Ask, Abstract!Refuse,
           Abstract!GiveUp, Abstract!Relist, Abstract!Withdraw
<1>3. QED
  BY <1>1, <1>2, Invariance, PTL DEF Spec


-----------------------------------------------------------------------------
(***************************************************************************)
(* An order is what was posted.  What the sum over the lines of a cart     *)
(* comes to is not proved by induction over the cart but along the states  *)
(* in which place adds it up: after each line "wanted" agrees with every   *)
(* sequence of running totals, and there is one up to that line.           *)
(***************************************************************************)

\* t is the sequence of running totals of product p over the first n lines.
RunningTotals(t, lines, p, n) ==
  t = [i \in 0..n |->
         IF i = 0 THEN 0
         ELSE t[i - 1] + (IF lines[i].product = p THEN lines[i].quantity
                          ELSE 0)]

Adding(c) ==
  /\ pc[c] = "idle" => wanted[c] = EmptyCart
  /\ merged[c] <= Len(items[c])
  /\ \A p \in Products :
       /\ \A t : RunningTotals(t, items[c], p, Len(items[c]))
                   => t[merged[c]] = wanted[c][p]
       /\ \E t : RunningTotals(t, items[c], p, merged[c])

\* A transaction is on whole carts, and so are the orders.
Whole(c) ==
  /\ pc[c] \in InTransaction \/ c \in order => merged[c] = Len(items[c])
  /\ c \in order => pc[c] \in AfterCommit \cup {"replied", "crashed"}

RowsOf(c, p) == {item \in orderItem : item.order = c /\ item.product = p}

\* The order items of a call are its merged lines.
Itemised(c) ==
  \A p \in Products :
    IF c \in order /\ wanted[c][p] > 0
    THEN {item.quantity : item \in RowsOf(c, p)} = {wanted[c][p]}
    ELSE RowsOf(c, p) = {}

Posted == \A c \in Checkouts : Adding(c) /\ Whole(c) /\ Itemised(c)

\* Running totals over n lines go on to the line after them.
LEMMA OneMoreLine ==
  ASSUME NEW t, NEW lines, NEW p, NEW n \in Nat, RunningTotals(t, lines, p, n)
  PROVE  \E u : RunningTotals(u, lines, p, n + 1)
<1> DEFINE Units(i) == IF lines[i].product = p THEN lines[i].quantity ELSE 0
           u == [i \in 0..(n + 1) |-> IF i = n + 1 THEN t[n] + Units(i)
                                      ELSE t[i]]
<1>1. \A i \in 0..n : t[i] = IF i = 0 THEN 0 ELSE t[i - 1] + Units(i)
  BY DEF RunningTotals
<1>2. ASSUME NEW i \in 0..(n + 1)
      PROVE  u[i] = IF i = 0 THEN 0 ELSE u[i - 1] + Units(i)
  <2> HIDE DEF Units
  <2>1. CASE i = n + 1
    <3>1. u[i] = t[n] + Units(i) /\ i # 0 /\ i - 1 = n /\ n \in 0..(n + 1)
          /\ n # n + 1
      BY <2>1
    <3>2. u[i - 1] = t[n]
      BY <3>1
    <3>3. QED
      BY <3>1, <3>2
  <2>2. CASE i = 0
    <3>1. i # n + 1 /\ i \in 0..n
      BY <2>2
    <3>2. u[i] = t[i] /\ t[i] = 0
      BY <1>1, <2>2, <3>1
    <3>3. QED
      BY <2>2, <3>2
  <2>3. CASE i # n + 1 /\ i # 0
    <3>1. i \in 0..n /\ i - 1 \in 0..(n + 1) /\ i - 1 # n + 1
      BY <2>3
    <3>2. u[i] = t[i] /\ u[i - 1] = t[i - 1]
      BY <2>3, <3>1
    <3>3. QED
      BY <1>1, <2>3, <3>1, <3>2
  <2>4. QED
    BY <2>1, <2>2, <2>3
<1>3. u = [i \in 0..(n + 1) |-> IF i = 0 THEN 0 ELSE u[i - 1] + Units(i)]
  <2>1. u = [i \in 0..(n + 1) |-> u[i]]
    OBVIOUS
  <2> HIDE DEF u
  <2>2. QED
    BY <1>2, <2>1
<1>4. RunningTotals(u, lines, p, n + 1)
  <2> HIDE DEF u
  <2>1. QED
    BY <1>3 DEF RunningTotals
<1>5. QED
  BY <1>4

\* Before its first line a call has added up nothing.
LEMMA NothingAdded ==
  ASSUME NEW lines \in Seq(OrderItemInput), NEW p \in Products
  PROVE  /\ \A t : RunningTotals(t, lines, p, Len(lines)) => t[0] = 0
         /\ \E t : RunningTotals(t, lines, p, 0)
<1>1. ASSUME NEW t, RunningTotals(t, lines, p, Len(lines)) PROVE t[0] = 0
  <2>1. 0 \in 0..Len(lines)
    OBVIOUS
  <2>2. QED
    BY <1>1, <2>1 DEF RunningTotals
<1>2. RunningTotals([i \in 0..0 |-> 0], lines, p, 0)
  <2>1. \A i \in 0..0 : i = 0
    OBVIOUS
  <2>2. QED
    BY <2>1 DEF RunningTotals
<1>3. QED
  BY <1>1, <1>2

\* One round of the loop that merges the lines.
LEMMA LineIsAdded ==
  ASSUME TypeOK, NEW c \in Checkouts, Adding(c), MergeLine(c)
  PROVE  Adding(c)'
<1> DEFINE n == merged[c]
           line == items[c][n + 1]
           Units(p) == IF line.product = p THEN line.quantity ELSE 0
<1>1. /\ n \in Nat /\ items[c] \in Seq(OrderItemInput) /\ n < Len(items[c])
      /\ wanted[c] \in [Products -> Nat]
      /\ items'[c] = items[c] /\ merged'[c] = n + 1
      /\ pc[c] = "merging" /\ pc' = pc
  BY DEF MergeLine, TypeOK, local
<1>2. line \in OrderItemInput
  BY <1>1
<1>3. line.product \in Products /\ line.quantity \in Nat
  BY <1>2 DEF OrderItemInput
<1>4. ASSUME NEW p \in Products
      PROVE  wanted'[c][p] = wanted[c][p] + Units(p)
  <2>1. wanted' = [wanted EXCEPT ![c][line.product] = @ + line.quantity]
    BY DEF MergeLine
  <2>2. QED
    BY <1>1, <1>3, <2>1 DEF TypeOK
<1>5. ASSUME NEW p \in Products, NEW t,
             RunningTotals(t, items[c], p, Len(items[c]))
      PROVE  t[n + 1] = wanted'[c][p]
  <2>1. n + 1 \in 0..Len(items[c]) /\ n + 1 # 0 /\ (n + 1) - 1 = n
    BY <1>1
  <2>2. t[n + 1] = t[n] + Units(p)
    BY <1>5, <2>1 DEF RunningTotals
  <2>3. t[n] = wanted[c][p]
    BY <1>5 DEF Adding
  <2>4. QED
    BY <1>4, <2>2, <2>3
<1>6. ASSUME NEW p \in Products
      PROVE  \E t : RunningTotals(t, items[c], p, n + 1)
  <2>1. PICK t : RunningTotals(t, items[c], p, n)
    BY DEF Adding
  <2>2. QED
    BY <1>1, <2>1, OneMoreLine
<1>7. merged'[c] <= Len(items'[c]) /\ pc'[c] # "idle"
  BY <1>1
<1> HIDE DEF n
<1>8. QED
  BY <1>1, <1>5, <1>6, <1>7 DEF Adding

LEMMA PostedInit == Init => Posted
<1> SUFFICES ASSUME Init, NEW c \in Checkouts
             PROVE  Adding(c) /\ Whole(c) /\ Itemised(c)
  BY DEF Posted
<1>1. /\ pc[c] = "idle" /\ items[c] = <<>> /\ merged[c] = 0
      /\ wanted[c] = EmptyCart /\ order = {} /\ orderItem = {}
  BY DEF Init
<1>2. <<>> \in Seq(OrderItemInput) /\ Len(<<>>) = 0
  OBVIOUS
<1>3. \A p \in Products : wanted[c][p] = 0
  BY <1>1 DEF EmptyCart
<1>4. Adding(c)
  <2>1. ASSUME NEW p \in Products
        PROVE  /\ \A t : RunningTotals(t, items[c], p, Len(items[c])) => t[0] = 0
               /\ \E t : RunningTotals(t, items[c], p, 0)
    <3>1. items[c] \in Seq(OrderItemInput)
      BY <1>1, <1>2
    <3>2. QED
      BY <3>1, NothingAdded
  <2>2. 0 <= Len(items[c])
    BY <1>1, <1>2
  <2>3. QED
    BY <1>1, <1>3, <2>1, <2>2 DEF Adding
<1>5. Whole(c)
  BY <1>1 DEF Whole, InTransaction
<1>6. Itemised(c)
  BY <1>1 DEF Itemised, RowsOf
<1>7. QED
  BY <1>4, <1>5, <1>6

\* Merging lines is the only step that adds to a cart, and Receive starts it.
LEMMA AddingStep ==
  ASSUME Inv, [Next]_vars, NEW d \in Checkouts, Adding(d)
  PROVE  Adding(d)'
<1> USE DEF table, local, history
<1>t. TypeOK
  BY DEF Inv
<1>k. ASSUME items'[d] = items[d], merged'[d] = merged[d],
             wanted'[d] = wanted[d], pc'[d] = "idle" => pc[d] = "idle"
      PROVE  Adding(d)'
  BY <1>k DEF Adding, EmptyCart
<1>1. ASSUME NEW c \in Checkouts, Receive(c) PROVE Adding(d)'
  <2>1. /\ items'[c] \in Carts /\ pc[c] = "idle"
        /\ \A e \in Checkouts \ {c} : items'[e] = items[e] /\ pc'[e] = pc[e]
        /\ pc'[c] = "merging" /\ merged' = merged /\ wanted' = wanted
    BY <1>1, <1>t DEF Receive, Goto, TypeOK
  <2>2. CASE d = c
    <3>1. merged[c] = 0
      BY <2>1 DEF Inv, Calls, Merging
    <3>2. \A p \in Products : wanted[c][p] = 0
      BY <2>1, <2>2 DEF Adding, EmptyCart
    <3>3. items'[c] \in Seq(OrderItemInput)
      BY <2>1, ShopAssumption
    <3>4. QED
      BY <2>1, <2>2, <3>1, <3>2, <3>3, NothingAdded DEF Adding
  <2>3. QED
    BY <2>1, <2>2, <1>k
<1>2. ASSUME NEW c \in Checkouts, MergeLine(c) PROVE Adding(d)'
  <2>1. CASE d = c
    BY <1>2, <1>t, <2>1, LineIsAdded
  <2>2. CASE d # c
    BY <1>2, <1>t, <1>k, <2>2 DEF MergeLine, TypeOK
  <2>3. QED
    BY <2>1, <2>2
<1>3. ASSUME NEW c \in Checkouts, NEW stage, Goto(c, stage), stage # "idle",
             UNCHANGED <<items, merged, wanted>>
      PROVE  Adding(d)'
  BY <1>3, <1>t, <1>k DEF Goto, TypeOK
<1>4. ASSUME NEW c \in Checkouts, NEW p \in Products, LockRow(c, p)
      PROVE  Adding(d)'
  BY <1>4, <1>3 DEF LockRow
<1>5. ASSUME NEW c \in Checkouts, NEW stage, EndTransaction(c, stage),
             stage # "idle"
      PROVE  Adding(d)'
  BY <1>5, <1>3 DEF EndTransaction
<1>6. UNCHANGED <<pc, items, merged, wanted>> => Adding(d)'
  BY <1>k
<1>7. ASSUME NEW c \in Checkouts, NEW p \in Products, RejectLine(c, p)
      PROVE  Adding(d)'
  BY <1>7, <1>5 DEF RejectLine
<1>8. ASSUME NEW c \in Checkouts, Commit(c) PROVE Adding(d)'
  BY <1>8, <1>5 DEF Commit
<1>9. ASSUME NEW c \in Checkouts, DeadlockVictim(c) \/ Rollback(c)
      PROVE  Adding(d)'
  BY <1>9, <1>5 DEF DeadlockVictim, Rollback
<1>10. ASSUME NEW c \in Checkouts,
              \/ BeginTransaction(c) \/ InvalidateProducts(c)
              \/ OpenPayment(c) \/ Crash(c)
       PROVE  Adding(d)'
  BY <1>10, <1>3
     DEF BeginTransaction, InvalidateProducts, OpenPayment, Crash
<1>11. QED
  BY <1>1, <1>2, <1>4, <1>6, <1>7, <1>8, <1>9, <1>10
     DEF Next, Progress, vars, ScanRow, ReserveLine, UpdateProduct, SetStatus,
         RemoveProduct

\* A call whose order exists is past COMMIT and never runs a transaction again.
LEMMA WholeStep ==
  ASSUME Inv, [Next]_vars, NEW d \in Checkouts, Adding(d), Whole(d)
  PROVE  Whole(d)'
<1> USE DEF table, local, history
<1>t. TypeOK
  BY DEF Inv
<1> USE DEF InTransaction, AfterCommit
<1>k. ASSUME items'[d] = items[d], merged'[d] = merged[d], pc'[d] = pc[d],
             d \in order' => d \in order
      PROVE  Whole(d)'
  BY <1>k DEF Whole
<1>1. ASSUME NEW c \in Checkouts, c # d, NEW stage, Goto(c, stage),
             items'[d] = items[d], merged'[d] = merged[d],
             d \in order' => d \in order
      PROVE  Whole(d)'
  <2>1. pc'[d] = pc[d]
    BY <1>1, <1>t DEF Goto, TypeOK
  <2>2. QED
    BY <1>1, <2>1, <1>k
<1>2. ASSUME NEW stage, Goto(d, stage), UNCHANGED <<items, merged, order>>,
             pc[d] \in InTransaction \/ stage \notin InTransaction,
             d \in order => stage \in AfterCommit \cup {"replied", "crashed"}
      PROVE  Whole(d)'
  <2>1. pc'[d] = stage
    BY <1>2, <1>t DEF Goto, TypeOK
  <2>2. QED
    BY <1>2, <2>1 DEF Whole
<1>3. ASSUME NEW c \in Checkouts, Receive(c) PROVE Whole(d)'
  <2>1. CASE c = d
    <3>1. d \notin order
      BY <1>3, <2>1 DEF Receive, Whole
    <3>2. pc'[d] = "merging"
      BY <1>3, <2>1, <1>t DEF Receive, Goto, TypeOK
    <3>3. QED
      BY <1>3, <3>1, <3>2 DEF Receive, Whole
  <2>2. CASE c # d
    BY <1>3, <2>2, <1>t, <1>1 DEF Receive, TypeOK
  <2>3. QED
    BY <2>1, <2>2
<1>4. ASSUME NEW c \in Checkouts, MergeLine(c) PROVE Whole(d)'
  <2>1. CASE c = d
    BY <1>4, <2>1 DEF MergeLine, Whole
  <2>2. CASE c # d
    BY <1>4, <2>2, <1>t, <1>k DEF MergeLine, TypeOK
  <2>3. QED
    BY <2>1, <2>2
<1>5. ASSUME NEW c \in Checkouts, BeginTransaction(c) PROVE Whole(d)'
  <2>1. CASE c = d
    <3>1. d \notin order /\ merged[d] = Len(items[d])
      BY <1>5, <2>1 DEF BeginTransaction, Whole
    <3>2. QED
      BY <1>5, <3>1 DEF BeginTransaction, Whole
  <2>2. CASE c # d
    BY <1>5, <2>2, <1>1 DEF BeginTransaction
  <2>3. QED
    BY <2>1, <2>2
<1>6. ASSUME NEW c \in Checkouts, NEW p \in Products, LockRow(c, p)
      PROVE  Whole(d)'
  <2>1. PICK stage \in InTransaction : Goto(c, stage)
    BY <1>6 DEF LockRow
  <2>2. pc[c] \in InTransaction /\ UNCHANGED <<items, merged, order>>
    BY <1>6 DEF LockRow
  <2>3. d = c => d \notin order
    BY <2>2 DEF Whole
  <2>4. QED
    BY <2>1, <2>2, <2>3, <1>1, <1>2
<1>7. ASSUME NEW c \in Checkouts, pc[c] \in {"merging"} \cup InTransaction,
             NEW stage \in {"rejected", "failed"}, EndTransaction(c, stage),
             UNCHANGED order
      PROVE  Whole(d)'
  <2>1. d = c => d \notin order
    BY <1>7 DEF Whole
  <2>2. QED
    BY <1>7, <2>1, <1>1, <1>2 DEF EndTransaction
<1>8. ASSUME NEW c \in Checkouts, NEW p \in Products, RejectLine(c, p)
      PROVE  Whole(d)'
  BY <1>8, <1>7 DEF RejectLine
<1>9. ASSUME NEW c \in Checkouts, DeadlockVictim(c) PROVE Whole(d)'
  <2>1. waiting[c] # {}
    BY <1>9 DEF DeadlockVictim, WaitCycle
  <2>2. pc[c] \in InTransaction
    BY <2>1 DEF Inv, Calls, Outside
  <2>3. QED
    BY <1>9, <2>2, <1>7 DEF DeadlockVictim
<1>10. ASSUME NEW c \in Checkouts, Rollback(c) PROVE Whole(d)'
  BY <1>10, <1>7 DEF Rollback
<1>11. ASSUME NEW c \in Checkouts, Commit(c) PROVE Whole(d)'
  <2>1. Goto(c, "invalidating") /\ UNCHANGED <<items, merged>>
        /\ order' = order \cup {c} /\ pc[c] = "reserving"
    BY <1>11 DEF Commit, EndTransaction
  <2>2. CASE c = d
    <3>1. pc'[d] = "invalidating"
      BY <2>1, <2>2, <1>t DEF Goto, TypeOK
    <3>2. QED
      BY <2>1, <2>2, <3>1 DEF Whole
  <2>3. CASE c # d
    BY <2>1, <2>3, <1>1
  <2>4. QED
    BY <2>2, <2>3
<1>12. ASSUME NEW c \in Checkouts, InvalidateProducts(c) \/ OpenPayment(c) \/ Crash(c)
       PROVE  Whole(d)'
  BY <1>12, <1>1, <1>2 DEF InvalidateProducts, OpenPayment, Crash
<1>13. UNCHANGED <<pc, items, merged, order>> => Whole(d)'
  BY <1>k
<1>14. QED
  BY <1>3, <1>4, <1>5, <1>6, <1>8, <1>9, <1>10, <1>11, <1>12, <1>13
     DEF Next, Progress, vars, ScanRow, ReserveLine, UpdateProduct, SetStatus,
         RemoveProduct

\* Deleting a product leaves the quantities of past orders as they are.
LEMMA UnlinkKeepsQuantities ==
  ASSUME NEW c, NEW p, NEW q, orderItem' = Unlink(orderItem, q)
  PROVE  {item.quantity : item \in RowsOf(c, p)'}
           = {item.quantity : item \in RowsOf(c, p)}
<1> DEFINE cut(item) ==
      [order |-> item.order, product |-> item.product,
       quantity |-> item.quantity, terms |-> item.terms,
       linked |-> item.linked /\ item.product # q]
<1>1. ASSUME NEW item \in RowsOf(c, p)'
      PROVE  \E old \in RowsOf(c, p) : item.quantity = old.quantity
  <2>1. PICK old \in orderItem : item = cut(old)
    BY DEF RowsOf, Unlink
  <2>2. item.order = old.order /\ item.product = old.product
        /\ item.quantity = old.quantity
    BY <2>1
  <2>3. old \in RowsOf(c, p)
    BY <2>2 DEF RowsOf
  <2>4. QED
    BY <2>2, <2>3
<1>2. ASSUME NEW old \in RowsOf(c, p)
      PROVE  \E item \in RowsOf(c, p)' : item.quantity = old.quantity
  <2>1. cut(old) \in orderItem'
    BY DEF RowsOf, Unlink
  <2>2. cut(old).order = old.order /\ cut(old).product = old.product
        /\ cut(old).quantity = old.quantity
    OBVIOUS
  <2>3. cut(old) \in RowsOf(c, p)'
    BY <2>1, <2>2 DEF RowsOf
  <2>4. QED
    BY <2>2, <2>3
<1>3. QED
  BY <1>1, <1>2

\* The rows that Commit writes are the merged lines of its own call.
LEMMA CommitItemises ==
  ASSUME Inv, NEW c \in Checkouts, Commit(c), NEW d \in Checkouts,
         Whole(d), Itemised(d)
  PROVE  Itemised(d)'
<1>t. TypeOK
  BY DEF Inv
<1>1. /\ wanted' = wanted /\ order' = order \cup {c}
      /\ orderItem' = orderItem \cup OrderItems(c) /\ pc[c] = "reserving"
  BY DEF Commit, EndTransaction
<1>2. CASE d # c
  <2>1. \A item \in OrderItems(c) : item.order # d
    BY <1>2 DEF OrderItems
  <2>2. \A p \in Products : RowsOf(d, p)' = RowsOf(d, p)
    BY <1>1, <2>1 DEF RowsOf
  <2>3. d \in order' <=> d \in order
    BY <1>1, <1>2
  <2>4. QED
    BY <1>1, <2>2, <2>3 DEF Itemised
<1>3. CASE d = c
  <2>1. c \notin order
    BY <1>1, <1>3 DEF Whole, AfterCommit
  <2>2. ASSUME NEW p \in Products
        PROVE  RowsOf(c, p)' = {item \in OrderItems(c) : item.product = p}
    <3>1. RowsOf(c, p) = {}
      BY <1>3, <2>1 DEF Itemised
    <3>2. \A item \in OrderItems(c) : item.order = c
      BY DEF OrderItems
    <3>3. QED
      BY <1>1, <3>1, <3>2 DEF RowsOf
  <2>3. ASSUME NEW p \in Products, wanted[c][p] > 0
        PROVE  {item.quantity : item \in RowsOf(c, p)'} = {wanted[c][p]}
    <3> DEFINE row == [order |-> c, product |-> p, quantity |-> wanted[c][p],
                       terms |-> byId[c][p].terms, linked |-> TRUE]
    <3>1. row \in OrderItems(c) /\ row.product = p
          /\ row.quantity = wanted[c][p]
      BY <2>3 DEF OrderItems, InCart
    <3>2. \A item \in OrderItems(c) :
            item.product = p => item.quantity = wanted[c][p]
      BY DEF OrderItems
    <3> HIDE DEF row
    <3>3. row \in RowsOf(c, p)'
      BY <2>2, <3>1
    <3>4. \A item \in RowsOf(c, p)' : item.quantity = wanted[c][p]
      BY <2>2, <3>2
    <3>5. QED
      BY <3>1, <3>3, <3>4
  <2>4. ASSUME NEW p \in Products, ~(wanted[c][p] > 0)
        PROVE  RowsOf(c, p)' = {}
    <3>1. \A item \in OrderItems(c) : item.product # p
      BY <2>4 DEF OrderItems, InCart
    <3>2. QED
      BY <2>2, <3>1
  <2>5. QED
    BY <1>1, <1>3, <2>3, <2>4 DEF Itemised
<1>4. QED
  BY <1>2, <1>3

\* Only COMMIT writes order items, and carts of orders are final.
LEMMA ItemisedStep ==
  ASSUME Inv, [Next]_vars, NEW d \in Checkouts, Whole(d), Itemised(d)
  PROVE  Itemised(d)'
<1> USE DEF table, local, history
<1>t. TypeOK
  BY DEF Inv
<1>k. ASSUME UNCHANGED <<order, orderItem>>,
             wanted'[d] = wanted[d] \/ d \notin order
      PROVE  Itemised(d)'
  BY <1>k DEF Itemised, RowsOf
<1>1. ASSUME NEW c \in Checkouts, MergeLine(c) PROVE Itemised(d)'
  <2>1. CASE c = d
    <3>1. d \notin order
      BY <1>1, <2>1 DEF MergeLine, Whole, AfterCommit
    <3>2. QED
      BY <1>1, <3>1, <1>k DEF MergeLine
  <2>2. CASE c # d
    BY <1>1, <2>2, <1>t, <1>k DEF MergeLine, TypeOK
  <2>3. QED
    BY <2>1, <2>2
<1>2. ASSUME NEW c \in Checkouts, Commit(c) PROVE Itemised(d)'
  BY <1>2, CommitItemises
<1>3. ASSUME NEW p \in Products, RemoveProduct(p) PROVE Itemised(d)'
  <2>1. orderItem' = Unlink(orderItem, p) /\ order' = order /\ wanted' = wanted
    BY <1>3 DEF RemoveProduct
  <2>2. \A q \in Products : {item.quantity : item \in RowsOf(d, q)'}
                              = {item.quantity : item \in RowsOf(d, q)}
    BY <2>1, UnlinkKeepsQuantities
  <2>3. ASSUME NEW q \in Products, RowsOf(d, q) = {} PROVE RowsOf(d, q)' = {}
    BY <2>2, <2>3
  <2>4. QED
    BY <2>1, <2>2, <2>3 DEF Itemised
<1>4. UNCHANGED <<order, orderItem, wanted>> => Itemised(d)'
  BY <1>k
<1>5. QED
  BY <1>1, <1>2, <1>3, <1>4
     DEF Next, Progress, vars, Receive, BeginTransaction, ScanRow, LockRow,
         ReserveLine, RejectLine, InvalidateProducts, OpenPayment,
         DeadlockVictim, Rollback, Crash, EndTransaction, UpdateProduct,
         SetStatus

LEMMA PostedStep == Inv /\ Posted /\ [Next]_vars => Posted'
<1> SUFFICES ASSUME Inv, Posted, [Next]_vars, NEW c \in Checkouts
             PROVE  Adding(c)' /\ Whole(c)' /\ Itemised(c)'
  BY DEF Posted
<1>1. Adding(c) /\ Whole(c) /\ Itemised(c)
  BY DEF Posted
<1>2. QED
  BY <1>1, AddingStep, WholeStep, ItemisedStep

\* Once all lines are merged, what place has added up is the sum.
LEMMA MergedIsAsked ==
  ASSUME Posted, NEW c \in Checkouts, NEW p \in Products,
         merged[c] = Len(items[c])
  PROVE  UnitsAsked(c, p) = wanted[c][p]
<1> DEFINE total == CHOOSE t : RunningTotals(t, items[c], p, Len(items[c]))
<1>1. \E t : RunningTotals(t, items[c], p, Len(items[c]))
  BY DEF Posted, Adding
<1>2. RunningTotals(total, items[c], p, Len(items[c]))
  BY <1>1
<1>3. UnitsAsked(c, p) = total[Len(items[c])]
  BY DEF UnitsAsked, RunningTotals
<1> HIDE DEF total
<1>4. QED
  BY <1>2, <1>3 DEF Posted, Adding

\* The order items of a call are exactly the lines of its request, merged by
\* product; a call without an order has none, whatever it had reserved.
THEOREM OrdersAreWhatWasPosted == Spec => []OrderIsWhatWasPosted
<1>1. Inv /\ Posted /\ [Next]_vars => Posted'
  BY PostedStep
<1>2. Posted => OrderIsWhatWasPosted
  <2> SUFFICES ASSUME Posted, NEW c \in Checkouts, NEW p \in Products
               PROVE  IF c \in order /\ UnitsAsked(c, p) > 0
                      THEN {item.quantity : item \in RowsOf(c, p)}
                             = {UnitsAsked(c, p)}
                      ELSE RowsOf(c, p) = {}
    BY DEF OrderIsWhatWasPosted, RowsOf
  <2>1. c \in order => UnitsAsked(c, p) = wanted[c][p]
    BY MergedIsAsked DEF Posted, Whole
  <2>2. QED
    BY <2>1 DEF Posted, Itemised
<1>3. QED
  BY <1>1, <1>2, PostedInit, Invariance, PTL DEF Spec


-----------------------------------------------------------------------------
(***************************************************************************)
(* Nobody waits in vain.  A finite set of calls each of which waits for    *)
(* another of them contains a wait cycle: take a smallest such subset.     *)
(***************************************************************************)

\* A transaction in its scan has a row left, and only a scan waits for rows.
Scans(c) ==
  /\ pc[c] = "locking" => ~ (InCart(c) \subseteq scanned[c])
  /\ waiting[c] # {} => pc[c] = "locking"

Arrived == {c \in Checkouts : pc[c] # "idle"}

Waits == IsFiniteSet(Arrived) /\ \A c \in Checkouts : Scans(c)

\* If every one of finitely many calls waits for one of them, some of them
\* wait in a circle.
LEMMA WaitsGoInCircles ==
  ASSUME NEW D \in SUBSET Checkouts, IsFiniteSet(D), D # {},
         \A c \in D : Blockers(c) \cap D # {}
  PROVE  \E M \in SUBSET D : M # {} /\ WaitCycle(M)
<1> DEFINE Stuck == {M \in SUBSET D : M # {} /\ \A c \in M :
                                        Blockers(c) \cap M # {}}
<1>1. D \in Stuck
  OBVIOUS
<1>2. Stuck \subseteq FiniteSubsetsOf(D)
  BY FS_FiniteSubsetsOfFinite
<1>3. PICK M \in Stuck : \A L \in Stuck : <<L, M>> \notin StrictSubsetOrdering(D)
  <2>1. IsWellFoundedOn(StrictSubsetOrdering(D), FiniteSubsetsOf(D))
    BY FS_StrictSubsetOrderingWellFounded
  <2> HIDE DEF Stuck
  <2>2. QED
    BY <1>1, <1>2, <2>1, WFMin
<1>4. M \in SUBSET D /\ M # {} /\ \A c \in M : Blockers(c) \cap M # {}
  BY <1>3
<1>5. ASSUME NEW m \in M, \A c \in M : m \notin Blockers(c) PROVE FALSE
  <2> DEFINE L == M \ {m}
  <2>1. \A c \in L : Blockers(c) \cap L # {}
    BY <1>4, <1>5
  <2>2. L # {}
    BY <1>4, <1>5
  <2>3. L \in Stuck
    BY <1>4, <2>1, <2>2
  <2>4. <<L, M>> \in StrictSubsetOrdering(D)
    BY <1>4 DEF StrictSubsetOrdering
  <2>5. QED
    BY <1>3, <2>3, <2>4
<1>6. WaitCycle(M)
  <2>1. \A c \in M : \E d \in M : waiting[c] \cap locked[d] # {}
    BY <1>4 DEF Blockers
  <2>2. ASSUME NEW d \in M PROVE \E c \in M : waiting[c] \cap locked[d] # {}
    <3>1. PICK c \in M : d \in Blockers(c)
      BY <1>5
    <3>2. QED
      BY <3>1 DEF Blockers
  <2>3. QED
    BY <2>1, <2>2 DEF WaitCycle
<1>7. QED
  BY <1>4, <1>6

LEMMA WaitsInit == Init => Waits
<1> SUFFICES ASSUME Init PROVE Waits
  OBVIOUS
<1>1. \A c \in Checkouts : pc[c] = "idle" /\ waiting[c] = {}
  BY DEF Init
<1>2. Arrived = {}
  BY <1>1 DEF Arrived
<1>3. QED
  BY <1>1, <1>2, FS_EmptySet DEF Waits, Scans

\* A call that is not the one that steps keeps what Scans says of it.
LEMMA ScansStep ==
  ASSUME Inv, Posted, [Next]_vars, NEW d \in Checkouts, Scans(d)
  PROVE  Scans(d)'
<1> USE DEF table, local, history
<1>t. TypeOK
  BY DEF Inv
<1>k. ASSUME pc'[d] = pc[d], waiting'[d] = waiting[d], scanned'[d] = scanned[d],
             wanted'[d] = wanted[d] \/ pc[d] # "locking"
      PROVE  Scans(d)'
  BY <1>k DEF Scans, InCart
<1>e. ASSUME pc'[d] # "locking", waiting'[d] = {} PROVE Scans(d)'
  BY <1>e DEF Scans
<1>1. ASSUME NEW c \in Checkouts, NEW stage, EndTransaction(c, stage),
             stage # "locking"
      PROVE  Scans(d)'
  <2>1. CASE c = d
    BY <1>1, <2>1, <1>t, <1>e DEF EndTransaction, Goto, TypeOK
  <2>2. CASE c # d
    BY <1>1, <2>2, <1>t, <1>k DEF EndTransaction, Goto, TypeOK
  <2>3. QED
    BY <2>1, <2>2
<1>2. ASSUME NEW c \in Checkouts, NEW stage, Goto(c, stage),
             stage # "locking", pc[c] # "locking",
             UNCHANGED <<waiting, scanned, wanted>>
      PROVE  Scans(d)'
  <2>1. CASE c = d
    <3>1. waiting[d] = {}
      BY <1>2, <2>1 DEF Scans
    <3>2. QED
      BY <1>2, <2>1, <3>1, <1>t, <1>e DEF Goto, TypeOK
  <2>2. CASE c # d
    BY <1>2, <2>2, <1>t, <1>k DEF Goto, TypeOK
  <2>3. QED
    BY <2>1, <2>2
<1>3. ASSUME NEW c \in Checkouts, Receive(c) \/ InvalidateProducts(c)
                                  \/ OpenPayment(c) \/ Crash(c)
      PROVE  Scans(d)'
  BY <1>3, <1>2
     DEF Receive, InvalidateProducts, OpenPayment, Crash, AfterCommit
<1>4. ASSUME NEW c \in Checkouts, MergeLine(c) PROVE Scans(d)'
  BY <1>4, <1>t, <1>k DEF MergeLine, TypeOK
<1>5. ASSUME NEW c \in Checkouts, BeginTransaction(c) PROVE Scans(d)'
  <2>1. CASE c = d
    <3>1. InCart(d) # {}
      <4>1. items[d] \in Seq(OrderItemInput) /\ items[d] # <<>>
            /\ merged[d] = Len(items[d])
        BY <1>5, <2>1, <1>t DEF BeginTransaction, Inv, Calls, Merging, TypeOK
      <4>2. Len(items[d]) > 0
        BY <4>1
      <4>3. QED
        BY <1>5, <2>1, <4>1, <4>2 DEF BeginTransaction, Inv, Calls, Merging
    <3>2. scanned[d] = {} /\ waiting[d] = {}
      BY <1>5, <2>1 DEF BeginTransaction, Inv, Calls, Outside, InTransaction
    <3>3. scanned' = scanned /\ waiting' = waiting /\ wanted' = wanted
      BY <1>5 DEF BeginTransaction
    <3>4. QED
      BY <3>1, <3>2, <3>3 DEF Scans, InCart
  <2>2. CASE c # d
    BY <1>5, <2>2, <1>t, <1>k DEF BeginTransaction, Goto, TypeOK
  <2>3. QED
    BY <2>1, <2>2
<1>6. ASSUME NEW c \in Checkouts, NEW p \in Products, ScanRow(c, p)
      PROVE  Scans(d)'
  <2>1. CASE c = d
    BY <1>6, <2>1 DEF ScanRow, Scans, InCart
  <2>2. CASE c # d
    BY <1>6, <2>2, <1>t, <1>k DEF ScanRow, TypeOK
  <2>3. QED
    BY <2>1, <2>2
<1>7. ASSUME NEW c \in Checkouts, NEW p \in Products, LockRow(c, p)
      PROVE  Scans(d)'
  <2>1. CASE c = d
    <3>1. /\ waiting'[d] = {} /\ scanned'[d] = scanned[d] \cup {p}
          /\ wanted' = wanted
          /\ pc'[d] = IF InCart(d) \subseteq scanned[d] \cup {p}
                      THEN "reserving" ELSE "locking"
      BY <1>7, <2>1, <1>t DEF LockRow, Goto, TypeOK
    <3>2. InCart(d)' = InCart(d)
      BY <3>1 DEF InCart
    <3>3. QED
      BY <3>1, <3>2 DEF Scans
  <2>2. CASE c # d
    BY <1>7, <2>2, <1>t, <1>k DEF LockRow, Goto, TypeOK
  <2>3. QED
    BY <2>1, <2>2
<1>8. ASSUME NEW c \in Checkouts,
             \/ \E p \in Products : RejectLine(c, p)
             \/ Commit(c) \/ DeadlockVictim(c) \/ Rollback(c)
      PROVE  Scans(d)'
  BY <1>8, <1>1 DEF RejectLine, Commit, DeadlockVictim, Rollback
<1>9. UNCHANGED <<pc, waiting, scanned, wanted>> => Scans(d)'
  BY <1>k
<1>10. QED
  BY <1>3, <1>4, <1>5, <1>6, <1>7, <1>8, <1>9
     DEF Next, Progress, vars, ReserveLine, UpdateProduct, SetStatus,
         RemoveProduct

\* A step moves one call at most, so only finitely many have ever arrived.
LEMMA ArrivedStep ==
  ASSUME TypeOK, IsFiniteSet(Arrived), [Next]_vars
  PROVE  IsFiniteSet(Arrived')
<1> USE DEF table, local, history
<1>1. ASSUME NEW c \in Checkouts,
             \A d \in Checkouts \ {c} : pc'[d] = pc[d]
      PROVE  IsFiniteSet(Arrived')
  <2>1. IsFiniteSet(Arrived \cup {c})
    BY FS_AddElement
  <2>2. Arrived' \in SUBSET (Arrived \cup {c})
    BY <1>1 DEF Arrived
  <2>3. QED
    BY <2>1, <2>2, FS_Subset
<1>2. ASSUME NEW c \in Checkouts, NEW stage, Goto(c, stage)
      PROVE  IsFiniteSet(Arrived')
  BY <1>1, <1>2 DEF Goto, TypeOK
<1>3. ASSUME NEW c \in Checkouts, NEW p \in Products, LockRow(c, p)
      PROVE  IsFiniteSet(Arrived')
  BY <1>2, <1>3 DEF LockRow
<1>4. pc' = pc => IsFiniteSet(Arrived')
  BY DEF Arrived
<1>5. QED
  BY <1>2, <1>3, <1>4
     DEF Next, Progress, vars, Receive, MergeLine, BeginTransaction, ScanRow,
         ReserveLine, RejectLine, Commit, EndTransaction, InvalidateProducts,
         OpenPayment, DeadlockVictim, Rollback, Crash, UpdateProduct,
         SetStatus, RemoveProduct

\* A call that cannot go on waits for a row that an unfinished call has locked.
LEMMA StuckWaits ==
  ASSUME Inv, Posted, Waits, NEW c \in Unfinished, ~Ready(c)
  PROVE  Blockers(c) \cap Unfinished # {}
<1>t. TypeOK
  BY DEF Inv
<1>1. c \in Checkouts /\ pc[c] \notin {"idle"} \cup Ended /\ pc[c] \in Stages
  BY <1>t DEF Unfinished, TypeOK
<1>2. pc[c] # "merging"
  BY <1>1 DEF Ready, Posted, Adding
<1>3. pc[c] # "reserving"
  BY <1>1 DEF Ready, Inv, Calls, Reserving
<1>4. pc[c] = "locking"
  BY <1>1, <1>2, <1>3 DEF Ready, Stages, InTransaction, AfterCommit
<1>5. waiting[c] # {}
  BY <1>1, <1>4 DEF Ready, Waits, Scans
<1>6. PICK p \in waiting[c], d \in Checkouts : p \in locked[d]
  BY <1>4, <1>5 DEF Ready, Unlocked
<1>7. d \in Unfinished
  BY <1>6 DEF Inv, LockDiscipline, Unfinished, InTransaction, Ended
<1>8. QED
  BY <1>6, <1>7 DEF Blockers

\* place never hangs on its row locks: whoever waits for a row waits for a call
\* that can go on, or in a cycle for the deadlock detector.
THEOREM NoneWaitsInVain == Spec => []NobodyWaitsInVain
<1>1. Inv /\ Posted /\ Waits /\ [Next]_vars => Waits'
  <2> SUFFICES ASSUME Inv, Posted, Waits, [Next]_vars PROVE Waits'
    OBVIOUS
  <2>1. IsFiniteSet(Arrived')
    BY ArrivedStep DEF Inv, Waits
  <2>2. ASSUME NEW c \in Checkouts PROVE Scans(c)'
    BY ScansStep DEF Waits
  <2>3. QED
    BY <2>1, <2>2 DEF Waits
<1>2. Inv /\ Posted /\ Waits => NobodyWaitsInVain
  <2> SUFFICES ASSUME Inv, Posted, Waits,
                      NEW D \in SUBSET Unfinished, D # {},
                      \A c \in D : Blockers(c) \cap Unfinished \subseteq D,
                      \A c \in D : ~Ready(c)
               PROVE  FALSE
    BY DEF NobodyWaitsInVain
  <2>1. D \in SUBSET Checkouts /\ D \in SUBSET Arrived
    BY DEF Unfinished, Arrived
  <2>2. IsFiniteSet(D)
    BY <2>1, FS_Subset DEF Waits
  <2>3. \A c \in D : Blockers(c) \cap D # {}
    BY StuckWaits
  <2>4. PICK M \in SUBSET D : M # {} /\ WaitCycle(M)
    BY <2>1, <2>2, <2>3, WaitsGoInCircles
  <2>5. PICK c \in M : c \in D
    BY <2>4
  <2>6. Ready(c)
    BY <2>1, <2>4, <2>5 DEF Ready
  <2>7. QED
    BY <2>5, <2>6
<1>3. Inv /\ Posted /\ [Next]_vars => Posted'
  BY PostedStep
<1>4. QED
  BY <1>1, <1>2, <1>3, PostedInit, WaitsInit, Invariance, PTL DEF Spec


-----------------------------------------------------------------------------
(***************************************************************************)
(* Calls get on.  No step takes a call back, and each stage has a measure  *)
(* that its steps use up: the lines still to be merged, the rows still to  *)
(* be reached, the lines still to be reserved.  So a call has finitely     *)
(* many steps left, which with NoneWaitsInVain is what EveryCallEnds needs *)
(* besides fairness.                                                       *)
(***************************************************************************)

StageNumber(stage) ==
  IF stage = "idle" THEN 0
  ELSE IF stage = "merging" THEN 1
  ELSE IF stage = "locking" THEN 2
  ELSE IF stage = "reserving" THEN 3
  ELSE IF stage = "invalidating" THEN 4
  ELSE IF stage = "paying" THEN 5
  ELSE 6

Stays(c) ==
  /\ pc'[c] = pc[c] /\ items'[c] = items[c] /\ merged'[c] = merged[c]
  /\ wanted'[c] = wanted[c] /\ waiting'[c] = waiting[c]
  /\ scanned'[c] = scanned[c] /\ reserved'[c] = reserved[c]

MergesOneMore(c) ==
  /\ pc[c] = "merging" /\ pc'[c] = "merging" /\ items'[c] = items[c]
  /\ merged'[c] = merged[c] + 1 /\ merged'[c] <= Len(items[c])

ReachesOneMore(c) ==
  /\ pc[c] = "locking" /\ pc'[c] = "locking" /\ wanted'[c] = wanted[c]
  /\ scanned'[c] = scanned[c]
  /\ waiting[c] = {}
  /\ \E p \in InCart(c) \ scanned[c] : waiting'[c] = {p}

PassesOneMore(c) ==
  /\ pc[c] = "locking" /\ pc'[c] = "locking" /\ wanted'[c] = wanted[c]
  /\ waiting'[c] = {}
  /\ \E p \in InCart(c) \ scanned[c] : scanned'[c] = scanned[c] \cup {p}

ReservesOneMore(c) ==
  /\ pc[c] = "reserving" /\ pc'[c] = "reserving" /\ wanted'[c] = wanted[c]
  /\ \E p \in InCart(c) \ reserved[c] : reserved'[c] = reserved[c] \cup {p}

GetsOn(c) ==
  \/ StageNumber(pc[c]) < StageNumber(pc'[c])
  \/ MergesOneMore(c)
  \/ ReachesOneMore(c)
  \/ PassesOneMore(c)
  \/ ReservesOneMore(c)

\* Every step of a call of place brings it nearer to its end, and nobody else's
\* step puts it back.
CallsGetOn == [][\A c \in Checkouts : Stays(c) \/ GetsOn(c)]_vars

\* A scan waits for rows of the cart that it has not passed yet.
WaitsAhead(c) == waiting[c] \subseteq InCart(c) \ scanned[c]

LEMMA WaitsAheadStep ==
  ASSUME Inv, [Next]_vars, NEW d \in Checkouts, WaitsAhead(d)
  PROVE  WaitsAhead(d)'
<1> USE DEF table, local, history
<1>t. TypeOK
  BY DEF Inv
<1>k. ASSUME waiting'[d] = waiting[d], scanned'[d] = scanned[d],
             wanted'[d] = wanted[d] \/ waiting[d] = {}
      PROVE  WaitsAhead(d)'
  BY <1>k DEF WaitsAhead, InCart
<1>e. ASSUME waiting'[d] = {} PROVE WaitsAhead(d)'
  BY <1>e DEF WaitsAhead
<1>1. ASSUME NEW c \in Checkouts, NEW stage, EndTransaction(c, stage)
      PROVE  WaitsAhead(d)'
  <2>1. CASE c = d
    BY <1>1, <2>1, <1>t, <1>e DEF EndTransaction, TypeOK
  <2>2. CASE c # d
    BY <1>1, <2>2, <1>t, <1>k DEF EndTransaction, TypeOK
  <2>3. QED
    BY <2>1, <2>2
<1>2. ASSUME NEW c \in Checkouts, MergeLine(c) PROVE WaitsAhead(d)'
  <2>1. CASE c = d
    <3>1. waiting[d] = {}
      BY <1>2, <2>1 DEF MergeLine, Inv, Calls, Outside, InTransaction
    <3>2. QED
      BY <1>2, <3>1, <1>k DEF MergeLine
  <2>2. CASE c # d
    BY <1>2, <2>2, <1>t, <1>k DEF MergeLine, TypeOK
  <2>3. QED
    BY <2>1, <2>2
<1>3. ASSUME NEW c \in Checkouts, NEW p \in Products, ScanRow(c, p)
      PROVE  WaitsAhead(d)'
  <2>1. CASE c = d
    <3>1. waiting'[d] = {p} /\ scanned' = scanned /\ wanted' = wanted
      BY <1>3, <2>1, <1>t DEF ScanRow, TypeOK
    <3>2. p \in InCart(d) \ scanned[d]
      BY <1>3, <2>1 DEF ScanRow
    <3>3. QED
      BY <3>1, <3>2 DEF WaitsAhead, InCart
  <2>2. CASE c # d
    BY <1>3, <2>2, <1>t, <1>k DEF ScanRow, TypeOK
  <2>3. QED
    BY <2>1, <2>2
<1>4. ASSUME NEW c \in Checkouts, NEW p \in Products, LockRow(c, p)
      PROVE  WaitsAhead(d)'
  <2>1. CASE c = d
    BY <1>4, <2>1, <1>t, <1>e DEF LockRow, TypeOK
  <2>2. CASE c # d
    BY <1>4, <2>2, <1>t, <1>k DEF LockRow, TypeOK
  <2>3. QED
    BY <2>1, <2>2
<1>5. ASSUME NEW c \in Checkouts,
             \/ \E p \in Products : RejectLine(c, p)
             \/ Commit(c) \/ DeadlockVictim(c) \/ Rollback(c)
      PROVE  WaitsAhead(d)'
  BY <1>5, <1>1 DEF RejectLine, Commit, DeadlockVictim, Rollback
<1>6. UNCHANGED <<waiting, scanned, wanted>> => WaitsAhead(d)'
  BY <1>k
<1>7. QED
  BY <1>2, <1>3, <1>4, <1>5, <1>6
     DEF Next, Progress, vars, Receive, BeginTransaction, ReserveLine,
         InvalidateProducts, OpenPayment, Crash, UpdateProduct, SetStatus,
         RemoveProduct

LEMMA GetsOnStep ==
  ASSUME Inv, [Next]_vars, NEW d \in Checkouts, WaitsAhead(d)
  PROVE  Stays(d) \/ GetsOn(d)
<1> USE DEF table, local, history
<1>t. TypeOK
  BY DEF Inv
<1>1. ASSUME NEW c \in Checkouts, NEW stage, EndTransaction(c, stage),
             StageNumber(pc[c]) < StageNumber(stage)
      PROVE  Stays(d) \/ GetsOn(d)
  <2>1. CASE c = d
    BY <1>1, <2>1, <1>t DEF EndTransaction, Goto, TypeOK, GetsOn
  <2>2. CASE c # d
    BY <1>1, <2>2, <1>t DEF EndTransaction, Goto, TypeOK, Stays
  <2>3. QED
    BY <2>1, <2>2
<1>2. ASSUME NEW c \in Checkouts, NEW stage, Goto(c, stage),
             StageNumber(pc[c]) < StageNumber(stage),
             \A e \in Checkouts \ {c} : items'[e] = items[e],
             UNCHANGED <<merged, wanted, waiting, scanned, reserved>>
      PROVE  Stays(d) \/ GetsOn(d)
  <2>1. CASE c = d
    BY <1>2, <2>1, <1>t DEF Goto, TypeOK, GetsOn
  <2>2. CASE c # d
    BY <1>2, <2>2, <1>t DEF Goto, TypeOK, Stays
  <2>3. QED
    BY <2>1, <2>2
<1>3. ASSUME NEW c \in Checkouts, Receive(c) PROVE Stays(d) \/ GetsOn(d)
  <2>1. Goto(c, "merging") /\ StageNumber(pc[c]) < StageNumber("merging")
    BY <1>3 DEF Receive, StageNumber
  <2>2. \A e \in Checkouts \ {c} : items'[e] = items[e]
    BY <1>3, <1>t DEF Receive, TypeOK
  <2>3. QED
    BY <1>2, <1>3, <2>1, <2>2 DEF Receive
<1>4. ASSUME NEW c \in Checkouts, MergeLine(c) PROVE Stays(d) \/ GetsOn(d)
  <2>1. CASE c = d
    <3>1. /\ pc[d] = "merging" /\ pc' = pc /\ items' = items
          /\ merged'[d] = merged[d] + 1 /\ merged[d] < Len(items[d])
      BY <1>4, <2>1, <1>t DEF MergeLine, TypeOK
    <3>2. merged[d] \in Nat /\ Len(items[d]) \in Nat
      BY <1>t DEF TypeOK
    <3>3. QED
      BY <3>1, <3>2 DEF GetsOn, MergesOneMore
  <2>2. CASE c # d
    BY <1>4, <2>2, <1>t DEF MergeLine, TypeOK, Stays
  <2>3. QED
    BY <2>1, <2>2
<1>5. ASSUME NEW c \in Checkouts,
             BeginTransaction(c) \/ InvalidateProducts(c) \/ OpenPayment(c)
               \/ Crash(c)
      PROVE  Stays(d) \/ GetsOn(d)
  <2>1. PICK stage : Goto(c, stage) /\ StageNumber(pc[c]) < StageNumber(stage)
    BY <1>5 DEF BeginTransaction, InvalidateProducts, OpenPayment, Crash,
                AfterCommit, StageNumber
  <2>2. UNCHANGED local
    BY <1>5 DEF BeginTransaction, InvalidateProducts, OpenPayment, Crash
  <2>3. QED
    BY <1>2, <2>1, <2>2
<1>6. ASSUME NEW c \in Checkouts, NEW p \in Products, ScanRow(c, p)
      PROVE  Stays(d) \/ GetsOn(d)
  <2>1. CASE c = d
    BY <1>6, <2>1, <1>t DEF ScanRow, TypeOK, GetsOn, ReachesOneMore
  <2>2. CASE c # d
    BY <1>6, <2>2, <1>t DEF ScanRow, TypeOK, Stays
  <2>3. QED
    BY <2>1, <2>2
<1>7. ASSUME NEW c \in Checkouts, NEW p \in Products, LockRow(c, p)
      PROVE  Stays(d) \/ GetsOn(d)
  <2>1. CASE c = d
    <3>1. /\ pc[d] = "locking" /\ p \in waiting[d]
          /\ waiting'[d] = {} /\ scanned'[d] = scanned[d] \cup {p}
          /\ wanted' = wanted
          /\ pc'[d] = IF InCart(d) \subseteq scanned[d] \cup {p}
                      THEN "reserving" ELSE "locking"
      BY <1>7, <2>1, <1>t DEF LockRow, Goto, TypeOK
    <3>2. p \in InCart(d) \ scanned[d]
      BY <3>1 DEF WaitsAhead
    <3>3. CASE InCart(d) \subseteq scanned[d] \cup {p}
      BY <3>1, <3>3 DEF GetsOn, StageNumber
    <3>4. CASE ~ (InCart(d) \subseteq scanned[d] \cup {p})
      BY <3>1, <3>2, <3>4 DEF GetsOn, PassesOneMore
    <3>5. QED
      BY <3>3, <3>4
  <2>2. CASE c # d
    BY <1>7, <2>2, <1>t DEF LockRow, Goto, TypeOK, Stays
  <2>3. QED
    BY <2>1, <2>2
<1>8. ASSUME NEW c \in Checkouts, NEW p \in Products, ReserveLine(c, p)
      PROVE  Stays(d) \/ GetsOn(d)
  <2>1. CASE c = d
    BY <1>8, <2>1, <1>t DEF ReserveLine, TypeOK, GetsOn, ReservesOneMore
  <2>2. CASE c # d
    BY <1>8, <2>2, <1>t DEF ReserveLine, TypeOK, Stays
  <2>3. QED
    BY <2>1, <2>2
<1>9. ASSUME NEW c \in Checkouts,
             \/ \E p \in Products : RejectLine(c, p)
             \/ Commit(c) \/ Rollback(c)
      PROVE  Stays(d) \/ GetsOn(d)
  <2>1. PICK stage : /\ EndTransaction(c, stage)
                     /\ StageNumber(pc[c]) < StageNumber(stage)
    BY <1>9 DEF RejectLine, Commit, Rollback, InTransaction, StageNumber
  <2>2. QED
    BY <1>1, <2>1
<1>10. ASSUME NEW c \in Checkouts, DeadlockVictim(c)
       PROVE  Stays(d) \/ GetsOn(d)
  <2>1. PICK D \in SUBSET Checkouts : c \in D /\ WaitCycle(D)
    BY <1>10 DEF DeadlockVictim
  <2>2. waiting[c] # {}
    BY <2>1 DEF WaitCycle
  <2>3. pc[c] \in InTransaction
    BY <2>2 DEF Inv, Calls, Outside
  <2>4. StageNumber(pc[c]) < StageNumber("failed")
    BY <2>3 DEF InTransaction, StageNumber
  <2>5. QED
    BY <1>1, <1>10, <2>4 DEF DeadlockVictim
<1>11. UNCHANGED <<pc, local>> => Stays(d)
  BY DEF Stays
<1>12. QED
  BY <1>3, <1>4, <1>5, <1>6, <1>7, <1>8, <1>9, <1>10, <1>11
     DEF Next, Progress, vars, UpdateProduct, SetStatus, RemoveProduct

\* However calls interleave, each has a bounded number of steps left: stages
\* are never repeated, and the lines and rows of a cart are used up one by one.
THEOREM CheckoutsGetOn == Spec => CallsGetOn
<1>1. Init => \A c \in Checkouts : WaitsAhead(c)
  BY DEF Init, WaitsAhead
<1>2. Inv /\ (\A c \in Checkouts : WaitsAhead(c)) /\ [Next]_vars
        => (\A c \in Checkouts : WaitsAhead(c))'
  <2> SUFFICES ASSUME Inv, \A c \in Checkouts : WaitsAhead(c), [Next]_vars,
                      NEW d \in Checkouts
               PROVE  WaitsAhead(d)'
    OBVIOUS
  <2>1. WaitsAhead(d)
    OBVIOUS
  <2>2. QED
    BY <2>1, WaitsAheadStep
<1>3. Inv /\ (\A c \in Checkouts : WaitsAhead(c)) /\ [Next]_vars
        => [\A c \in Checkouts : Stays(c) \/ GetsOn(c)]_vars
  <2> SUFFICES ASSUME Inv, \A c \in Checkouts : WaitsAhead(c), [Next]_vars,
                      NEW d \in Checkouts
               PROVE  Stays(d) \/ GetsOn(d)
    OBVIOUS
  <2>1. WaitsAhead(d)
    OBVIOUS
  <2>2. QED
    BY <2>1, GetsOnStep
<1>4. QED
  BY <1>1, <1>2, <1>3, Invariance, PTL DEF Spec, CallsGetOn

=============================================================================
