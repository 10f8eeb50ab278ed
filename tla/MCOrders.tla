------------------------------- MODULE MCOrders -------------------------------
(***************************************************************************)
(* Small instances of Orders.  The larger one is explored in two parts:    *)
(* the life of orders, and administrators who compete about totals.        *)
(***************************************************************************)
EXTENDS Orders, TLC

\* Administrators' devices differ in nothing but their names, nor do phones.
Symmetry == Permutations(Admins) \cup Permutations(Phones)

OfLife(w) == w.op \in {"updateStatus", "delete"}

\* All orders have one phone and total, and customers have no account, for the
\* copies do not matter to the life of an order.
OneTotal ==
    /\ LET v == CHOOSE t \in Totals : TRUE
           OneOf(docs, p) == \A o \in DOMAIN docs : docs[o].phone = p /\ docs[o].total = v
       IN  /\ \A s \in said : s.total = v
           /\ \E p \in Phones :
                 /\ OneOf(orders, p) /\ \A a \in Admins : OneOf(synced[a], p)
                 /\ \A o \in OrderIds : \A k \in DOMAIN outbox[o] :
                       outbox[o][k] = SetOrder(o, p, v)
           /\ history = << >>

\* Administrators only change totals: no order is done.  The page was submitted
\* once.
TotalsOnly ==
    /\ \A a \in Admins :
          /\ dialog[a] = NoDialog \/ dialog[a].kind = "total"
          /\ \A k \in DOMAIN outbox[a] : ~ OfLife(outbox[a][k])
          /\ \A o \in DOMAIN synced[a] : synced[a][o].status = "new"
    /\ \A o \in DOMAIN orders : orders[o].status = "new"
    /\ \A o \in OrderIds : /\ Len(outbox[o]) <= 2
                           /\ <<"setOrder", o>> \in met => o \in DOMAIN orders

LivesOrTotals == TotalsOnly \/ OneTotal
=============================================================================
