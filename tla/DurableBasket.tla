---------------------------- MODULE DurableBasket ----------------------------
(***************************************************************************)
(* What the cart of one device promises, without lists, productIds or a    *)
(* cache: a basket of products with quantities that is saved behind the    *)
(* customer's back.  A crash loses the basket and the saves under way, and *)
(* the next run starts from the last basket that was saved.                *)
(***************************************************************************)
EXTENDS Naturals, Sequences, Functions

CONSTANTS Products, MaxQuantity

VARIABLES up, basket, backlog, saved

vars == <<up, basket, backlog, saved>>

Baskets == UNION {[S -> 1 .. MaxQuantity] : S \in SUBSET Products}

Empty == << >>

\* Every change of the basket is queued to be saved.
Become(b) ==
    /\ up
    /\ basket' = b
    /\ backlog' = Append(backlog, b)
    /\ UNCHANGED <<up, saved>>

Put(x, q) ==
    /\ x \notin DOMAIN basket
    /\ Become([y \in DOMAIN basket \cup {x} |-> IF y = x THEN q ELSE basket[y]])

SetQuantity(x, q) == Become([basket EXCEPT ![x] = q])

\* Taking products out takes at least one.
TakeOut(S) ==
    /\ S # {}
    /\ Become(Restrict(basket, DOMAIN basket \ S))

TakeOutAll == Become(Empty)

Save ==
    /\ up /\ backlog # << >>
    /\ saved' = Head(backlog)
    /\ backlog' = Tail(backlog)
    /\ UNCHANGED <<up, basket>>

Crash ==
    /\ up
    /\ up' = FALSE /\ basket' = Empty /\ backlog' = << >>
    /\ UNCHANGED saved

Recover ==
    /\ ~ up
    /\ up' = TRUE /\ basket' = saved
    /\ UNCHANGED <<backlog, saved>>

Init == ~ up /\ basket = Empty /\ backlog = << >> /\ saved = Empty

Next ==
    \/ \E x \in Products, q \in 1 .. MaxQuantity : Put(x, q)
    \/ \E x \in DOMAIN basket, q \in 1 .. MaxQuantity : SetQuantity(x, q)
    \/ \E S \in SUBSET DOMAIN basket : TakeOut(S)
    \/ TakeOutAll
    \/ Save \/ Crash \/ Recover

Spec == Init /\ [][Next]_vars
=============================================================================
