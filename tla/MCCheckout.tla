------------------------------ MODULE MCCheckout ------------------------------
(***************************************************************************)
(* Small instances of Checkout.  AddTapped takes any price, so one price   *)
(* per product is enough to tell totals apart.                             *)
(***************************************************************************)
EXTENDS Checkout

\* A hurried customer visits the checkout page once and orders two lines.
HurriedOnce == hurried => visits <= 1 /\ Len(itemsOrder) <= 2
=============================================================================
