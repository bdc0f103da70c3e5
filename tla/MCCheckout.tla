------------------------------ MODULE MCCheckout ------------------------------
(***************************************************************************)
(* Small instances of Checkout for TLC.                                    *)
(***************************************************************************)
EXTENDS Checkout, TLC

CONSTANTS c1, c2, p1, p2, usd, eur

MCCurrency == usd :> "USD" @@ eur :> "EUR"

Line(p, n) == [product |-> p, quantity |-> n]

\* The same product twice, as two lines to merge, which is all there is of it;
\* and two products, locked in either order.
MCCarts == {<<Line(p1, 1), Line(p1, 1)>>, <<Line(p1, 1), Line(p2, 1)>>}
=============================================================================
