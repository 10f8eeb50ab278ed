----------------------------- MODULE FlutterCart -----------------------------
(***************************************************************************)
(* The cart of one device: the list in memory, the copy of it that         *)
(* shared_preferences keeps, and the process that may die at any moment.   *)
(*                                                                         *)
(* SharedPreferences has a cache in memory that set and remove change at   *)
(* once, and a file the platform writes later; lib/cart.dart never waits   *)
(* for those writes (unawaited).  The writes reach the file in the order   *)
(* they were issued.  The absent key and the empty list read back as the   *)
(* same empty cart, so both are << >>.                                     *)
(***************************************************************************)
EXTENDS CartOps

CONSTANT MaxWrites      \* bound: writes the platform has not finished

ASSUME MaxWritesAssumption == MaxWrites \in Nat \ {0}

VARIABLES phase,        \* "stopped", "starting" (in initializeCart), "running"
          cart,         \* _cartOrderItemsList
          cacheCart,    \* persistCart in the SharedPreferences cache
          writes,       \* values of persistCart on their way to the file
          diskCart      \* persistCart in the preferences file

vars == <<phase, cart, cacheCart, writes, diskCart>>

-----------------------------------------------------------------------------
\* initializeCart has set the flag in the cache before anything else can run.
PersistenceSupport == phase # "stopped"

\* Faulty variant, for the check of the properties: only the cache is changed.
PersistInCache(value) == cacheCart' = value /\ UNCHANGED writes

\* _updatePersistenceCart and _clearPersistenceCart: the cache at once, the
\* file later.
Persist(value) ==
    /\ cacheCart' = value
    /\ writes' = Append(writes, value)

\* What addToCart, updateQuantity and removeItem do with their result.
Commit(value) ==
    /\ cart' = value
    /\ IF PersistenceSupport
       THEN Persist(value)
       ELSE UNCHANGED <<cacheCart, writes>>
    /\ UNCHANGED <<phase, diskCart>>

\* A tap is handled while the application runs; the bound on the writes in
\* flight is the model's.
TapHandled == phase = "running" /\ Len(writes) < MaxWrites

-----------------------------------------------------------------------------
Init ==
    /\ phase = "stopped"
    /\ cart = << >>
    /\ cacheCart = << >>
    /\ writes = << >>
    /\ diskCart = << >>

\* main() calls initializeCart: an empty list, getInstance loads the file into
\* the cache, and the flag is being written.
Start ==
    /\ phase = "stopped"
    /\ phase' = "starting"
    /\ cart' = << >>
    /\ cacheCart' = diskCart
    /\ UNCHANGED <<writes, diskCart>>

\* Faulty variant, for the check of the properties: the stored cart is not read.
FinishWithEmptyCart ==
    /\ phase = "starting"
    /\ phase' = "running"
    /\ UNCHANGED <<cart, cacheCart, writes, diskCart>>

\* The flag has been written: the cart is what the preferences hold.
FinishInitializeCart ==
    /\ phase = "starting"
    /\ phase' = "running"
    /\ cart' = cacheCart
    /\ UNCHANGED <<cacheCart, writes, diskCart>>

\* Faulty variant, for the check of the properties: products already in the cart
\* are not looked for.
AddTappedUnchecked(t, q, p) ==
    TapHandled /\ Commit(AddToCart(cart, NewLine(cart, t, q, p)))

\* The "add" button of a product: a product already in the cart is refused.
AddTapped(t, q, p) ==
    /\ TapHandled
    /\ t \notin TitlesOf(cart)
    /\ Commit(AddToCart(cart, NewLine(cart, t, q, p)))

\* "+" of the i-th line: the quantity is that line's, the line that gets it is
\* the first one with the same productId.
IncrementTapped(i) ==
    /\ TapHandled
    /\ cart[i].quantity < MaxQuantity
    /\ Commit(UpdateQuantity(cart, cart[i].productId, cart[i].quantity + 1))

\* Faulty variant, for the check of the properties: a quantity of 1 goes down to 0.
DecrementTappedToZero(i) ==
    /\ TapHandled
    /\ Commit(UpdateQuantity(cart, cart[i].productId, cart[i].quantity - 1))

\* "-" of the i-th line; a quantity of 1 is written back as it is.
DecrementTapped(i) ==
    /\ TapHandled
    /\ LET q == IF cart[i].quantity > 1 THEN cart[i].quantity - 1
                                        ELSE cart[i].quantity
       IN  Commit(UpdateQuantity(cart, cart[i].productId, q))

\* The bin of the i-th line: removeItem of its productId.
DeleteTapped(i) ==
    /\ TapHandled
    /\ Commit(RemoveItem(cart, cart[i].productId))

\* Faulty variant, for the check of the properties: the stored cart is not cleared.
ClearCartInMemory ==
    /\ TapHandled
    /\ cart' = << >>
    /\ UNCHANGED <<phase, cacheCart, writes, diskCart>>

\* clearCart, called when an order is submitted; the key is removed whatever
\* the flag says.
ClearCart ==
    /\ TapHandled
    /\ cart' = << >>
    /\ Persist(<< >>)
    /\ UNCHANGED <<phase, diskCart>>

\* The platform finishes the oldest write.
FlushWrite ==
    /\ phase = "running"
    /\ writes # << >>
    /\ diskCart' = Head(writes)
    /\ writes' = Tail(writes)
    /\ UNCHANGED <<phase, cart, cacheCart>>

\* The process dies: memory and unfinished writes are lost.
Kill ==
    /\ phase # "stopped"
    /\ phase' = "stopped"
    /\ cart' = << >>
    /\ cacheCart' = << >>
    /\ writes' = << >>
    /\ UNCHANGED diskCart

Tap ==
    \/ \E t \in Titles, q \in 1 .. MaxQuantity, p \in Prices : AddTapped(t, q, p)
    \/ \E i \in DOMAIN cart : IncrementTapped(i)
    \/ \E i \in DOMAIN cart : DecrementTapped(i)
    \/ \E i \in DOMAIN cart : DeleteTapped(i)
    \/ ClearCart

Next == Start \/ FinishInitializeCart \/ Tap \/ FlushWrite \/ Kill

Spec == Init /\ [][Next]_vars

\* The platform finishes every write as long as the process lives, and
\* initializeCart, once called, returns.
Fairness == WF_vars(FlushWrite) /\ WF_vars(FinishInitializeCart)

FairSpec == Spec /\ Fairness

-----------------------------------------------------------------------------
\* The variables hold carts; quantities stay between 1 and the bound.
TypeOK ==
    /\ phase \in {"stopped", "starting", "running"}
    /\ cart \in Seq(Line)
    /\ cacheCart \in Seq(Line)
    /\ writes \in Seq(Seq(Line))
    /\ diskCart \in Seq(Line)

\* Whatever is deleted, added, killed and reloaded in whatever order, the cart
\* of a running application is well formed.
CartWellFormed == WellFormed(cart)

\* The preferences file is the cart or will be after the writes already
\* issued: no operation of the cart forgets to persist what it did.
LastIssued == IF writes = << >> THEN diskCart ELSE writes[Len(writes)]

WriteBehind ==
    /\ phase = "running" => cacheCart = cart
    /\ phase # "stopped" => LastIssued = cacheCart

\* removeItem is the loop that keeps, in order, the lines with another
\* productId, and the total is the sum, over the products, of price times
\* quantity.
OperationsMatchTheirMeaning ==
    /\ \A i \in DOMAIN cart :
          RemoveItem(cart, cart[i].productId) = RemoveWhere(cart, cart[i].productId)
    /\ Discount(cart) = SumOverProducts(cart)

\* A tap on "+" or "-" of a line changes one quantity: that of the first line
\* with the tapped line's productId, which is the tapped line or lies above it.
\* Order, products, prices and all other quantities stay.
ChangesOneQuantity(i) ==
    \E k \in DOMAIN cart : \E q \in 1 .. MaxQuantity :
        /\ k <= i
        /\ cart[k].productId = cart[i].productId
        /\ cart' = [cart EXCEPT ![k].quantity = q]

TapChangesOneQuantity ==
    [][\A i \in DOMAIN cart :
          IncrementTapped(i) \/ DecrementTapped(i) => ChangesOneQuantity(i)]_vars

\* removeItem "is used for removing the specific item from the cart",
\* updateQuantity "is used to increment/decrement the item quantity": a tap
\* concerns the line it was made on.
TapsConcernTheirLine ==
    [][\A i \in DOMAIN cart :
          /\ DeleteTapped(i) => Len(cart') = Len(cart) - 1
          /\ IncrementTapped(i) => cart'[i].quantity = cart[i].quantity + 1]_vars

-----------------------------------------------------------------------------
\* The cart as DurableBasket sees it: one quantity per product.
BasketOf(c) ==
    [t \in TitlesOf(c) |->
        c[CHOOSE i \in DOMAIN c : c[i].productTitle = t].quantity]

Basket == INSTANCE DurableBasket WITH
    Products <- Titles,
    up <- phase = "running",
    basket <- IF phase = "running" THEN BasketOf(cart) ELSE << >>,
    backlog <- [k \in DOMAIN writes |-> BasketOf(writes[k])],
    saved <- BasketOf(diskCart)

\* The list with its positional productIds, the cache and the file together
\* behave like one durable basket.
ImplementsDurableBasket == Basket!Spec
=============================================================================
