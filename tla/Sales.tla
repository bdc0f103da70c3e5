-------------------------------- MODULE Sales --------------------------------
(***************************************************************************)
(* What buying promises, with no transactions, locks or private copies: a  *)
(* cart is judged and, if it can be filled, sold in ONE step against the   *)
(* catalog of that moment.  There is no stock column: a product has the    *)
(* figure its seller offered last and the number of units sold since.      *)
(***************************************************************************)
EXTENDS Shop

VARIABLES
  listing,    \* what the catalog shows of each product, or NoRow
  offered,    \* the stock figure the seller set last
  sold,       \* units sold since the seller set it
  cart,       \* what each checkout asks for: units of each product
  verdict,    \* how each checkout stands
  orderItem   \* the order items sold

vars == <<listing, offered, sold, cart, verdict, orderItem>>

Listing == [status : ProductStatus, terms : Terms]

EmptyCart == [p \in Products |-> 0]

InCart(c) == {p \in Products : cart[c][p] > 0}

\* The whole cart can be sold, as one order in one currency.
Fillable(c) ==
  /\ \A p \in InCart(c) :
       /\ listing[p] # NoRow
       /\ listing[p].status = "active"
       /\ sold[p] + cart[c][p] <= offered[p]
  /\ \A p, q \in InCart(c) :
       Currency[listing[p].terms] = Currency[listing[q].terms]

Init ==
  /\ listing \in [Products -> Listing]
  /\ offered \in [Products -> StockLevels]
  /\ sold = [p \in Products |-> 0]
  /\ cart = [c \in Checkouts |-> EmptyCart]
  /\ verdict = [c \in Checkouts |-> "none"]
  /\ orderItem = {}

Ask(c) ==
  /\ verdict[c] = "none"
  /\ cart'[c] \in [Products -> Nat] \ {EmptyCart}
  /\ cart' = [cart EXCEPT ![c] = cart'[c]]
  /\ verdict' = [verdict EXCEPT ![c] = "open"]
  /\ UNCHANGED <<listing, offered, sold, orderItem>>

Sell(c) ==
  /\ verdict[c] = "open"
  /\ Fillable(c)
  /\ sold' = [p \in Products |-> sold[p] + cart[c][p]]
  /\ orderItem' = orderItem \cup
       {[order |-> c, product |-> p, quantity |-> cart[c][p],
         terms |-> listing[p].terms, linked |-> TRUE] : p \in InCart(c)}
  /\ verdict' = [verdict EXCEPT ![c] = "sold"]
  /\ UNCHANGED <<listing, offered, cart>>

\* A refusal is justified: the catalog of that moment could not fill the cart.
Refuse(c) ==
  /\ verdict[c] = "open"
  /\ ~Fillable(c)
  /\ verdict' = [verdict EXCEPT ![c] = "refused"]
  /\ UNCHANGED <<listing, offered, sold, cart, orderItem>>

\* The system may give up on a checkout, forgetting its cart.
GiveUp(c) ==
  /\ verdict[c] \in {"none", "open"}
  /\ verdict' = [verdict EXCEPT ![c] = "given up"]
  /\ cart' = [cart EXCEPT ![c] = EmptyCart]
  /\ UNCHANGED <<listing, offered, sold, orderItem>>

Relist(p, entry) ==
  /\ listing[p] # NoRow
  /\ listing' = [listing EXCEPT ![p] = entry]
  /\ UNCHANGED <<offered, sold, cart, verdict, orderItem>>

Restock(p, entry, units) ==
  /\ listing[p] # NoRow
  /\ listing' = [listing EXCEPT ![p] = entry]
  /\ offered' = [offered EXCEPT ![p] = units]
  /\ sold' = [sold EXCEPT ![p] = 0]
  /\ UNCHANGED <<cart, verdict, orderItem>>

Withdraw(p) ==
  /\ listing[p] # NoRow
  /\ listing' = [listing EXCEPT ![p] = NoRow]
  /\ orderItem' = Unlink(orderItem, p)
  /\ UNCHANGED <<offered, sold, cart, verdict>>

Next ==
  \/ \E c \in Checkouts : Ask(c) \/ Sell(c) \/ Refuse(c) \/ GiveUp(c)
  \/ \E p \in Products, entry \in Listing :
       \/ Relist(p, entry)
       \/ \E units \in StockLevels : Restock(p, entry, units)
  \/ \E p \in Products : Withdraw(p)

Spec == Init /\ [][Next]_vars

\* No product is ever sold beyond what its seller offered.
NeverOversold == \A p \in Products : sold[p] <= offered[p]
=============================================================================
