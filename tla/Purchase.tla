------------------------------- MODULE Purchase -------------------------------
(***************************************************************************)
(* What the cart page, its notice, the checkout page and their statics     *)
(* promise together to a customer who waits for what is drawn: a purchase  *)
(* is one step.  The whole basket becomes an order that is new, the        *)
(* customer who is logged in gets a copy of it, the basket is empty        *)
(* afterwards, and what has been ordered never changes.                    *)
(***************************************************************************)
CONSTANT Dates          \* what orders are filed under

VARIABLES basket,       \* lines and total of what is in the cart
          orders,       \* the shop's orders
          copies,       \* the customer's copies of them
          known         \* is the customer logged in

vars == <<basket, orders, copies, known>>

EmptyBasket == [lines |-> << >>, total |-> 0]

Filed(docs, d) == [e \in DOMAIN docs \cup {d} |-> IF e = d THEN basket ELSE docs[e]]

Init ==
    /\ basket = EmptyBasket
    /\ orders = << >> /\ copies = << >>
    /\ known \in BOOLEAN

\* The customer changes the basket in any way; nothing is ordered.
Choose == UNCHANGED <<orders, copies, known>>

\* Order d is made.
Buy(d) ==
    /\ basket.lines # << >>
    /\ d \notin DOMAIN orders
    /\ orders' = Filed(orders, d)
    /\ copies' = IF known THEN Filed(copies, d) ELSE copies
    /\ basket' = EmptyBasket
    /\ UNCHANGED known

Next == Choose \/ \E d \in Dates : Buy(d)

Spec == Init /\ [][Next]_vars
=============================================================================
