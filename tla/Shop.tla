-------------------------------- MODULE Shop --------------------------------
(***************************************************************************)
(* The data that buying is about, shared by the abstract specification     *)
(* (Sales) and by the transactional one (Checkout): product rows, the      *)
(* lines a buyer asks for and the order_item rows a placed order leaves.   *)
(*                                                                         *)
(* Abstractions.  Everything an order item copies from a product (title,   *)
(* price) together with the currency is one opaque element of Terms: no    *)
(* property depends on the amount, only on WHICH version of the terms was  *)
(* copied and on its currency.  The columns nothing here reads             *)
(* (description, images, seller, category, timestamps) are left out.       *)
(***************************************************************************)
EXTENDS Integers, Sequences

CONSTANTS
  Checkouts,    \* calls of OrdersService.place, each made once
  Products,     \* product ids
  Terms,        \* versions of (title, price, currency) a product may carry
  Currency,     \* the currency of each element of Terms
  StockLevels,  \* the stock figures a seller types in
  Carts,        \* the "items" arrays buyers post
  NoRow,        \* "no such row": SELECT returned nothing
  Unset         \* a field the seller's PATCH body does not carry

\* product.status.  The enum also has 'archived', which no code path sets and
\* which buying treats exactly like 'draft'.
ProductStatus == {"draft", "active"}

\* A row of table product.
Row == [status : ProductStatus, stock : Nat, terms : Terms]

\* One entry of CreateOrderDto.items; the DTO demands an integer of at least 1.
OrderItemInput == [product : Products, quantity : Nat \ {0}]

\* The body of PATCH /seller/products/:id.
UpdateProductDto ==
  [terms : Terms \cup {Unset}, stock : StockLevels \cup {Unset}]

\* A row of table order_item, the order being named by the checkout that made
\* it.  "linked" says whether productId is still set: deleting the product sets
\* it to NULL and leaves the rest of the row alone.
OrderItem ==
  [order : Checkouts, product : Products, quantity : Nat, terms : Terms,
   linked : BOOLEAN]

\* The row with another stock figure.
WithStock(row, units) ==
  [status |-> row.status, stock |-> units, terms |-> row.terms]

\* ON DELETE SET NULL of order_item.productId.
Unlink(items, p) ==
  {[order |-> item.order, product |-> item.product, quantity |-> item.quantity,
    terms |-> item.terms, linked |-> item.linked /\ item.product # p] :
     item \in items}

ASSUME ShopAssumption ==
  /\ Currency \in [Terms -> STRING]
  /\ StockLevels \subseteq Nat
  /\ Carts \subseteq Seq(OrderItemInput)
  /\ NoRow \notin Row \cup [status : ProductStatus, terms : Terms]
  /\ Unset \notin Terms \cup Nat
=============================================================================
