-------------------------- MODULE FlutterCartProofs --------------------------
(***************************************************************************)
(* Proofs about FlutterCart for every value of its constants: the list,    *)
(* its cache and its file stay well formed and follow each other, and      *)
(* together they implement DurableBasket.                                  *)
(***************************************************************************)
EXTENDS FlutterCart, CartOpsProofs

-----------------------------------------------------------------------------
(***************************************************************************)
(* The inductive invariant.  CartWellFormed alone is not inductive: a      *)
(* restart puts back what the file holds, and the file will hold what is   *)
(* on its way to it, so every one of these carts has to be well formed;    *)
(* and what a restart puts back is the cache, which WriteBehind ties to    *)
(* the file because no write of a dead process is left over.               *)
(***************************************************************************)
IInv ==
    /\ phase \in {"stopped", "starting", "running"}
    /\ cart \in WFCart
    /\ cacheCart \in WFCart
    /\ writes \in Seq(WFCart)
    /\ diskCart \in WFCart
    /\ WriteBehind
    /\ phase # "running" => writes = << >>

\* Every operation of the cart ends by storing a well-formed list and issuing
\* its write.
LEMMA StoreKeepsIInv ==
    ASSUME IInv, NEW v \in WFCart, phase = "running",
           cart' = v, Persist(v), UNCHANGED <<phase, diskCart>>
    PROVE  IInv'
<1>1. writes' = Append(writes, v) /\ cacheCart' = v
  BY DEF Persist
<1>2. writes' \in Seq(WFCart) /\ writes' # << >> /\ writes'[Len(writes')] = v
  BY <1>1 DEF IInv
<1>3. WriteBehind'
  BY <1>1, <1>2 DEF WriteBehind, LastIssued
<1> QED
  BY <1>1, <1>2, <1>3 DEF IInv

LEMMA CommitKeepsIInv ==
    ASSUME IInv, NEW v \in WFCart, phase = "running", Commit(v)
    PROVE  IInv'
  BY StoreKeepsIInv DEF Commit, PersistenceSupport

\* The quantity of a line that is shown is in range.
LEMMA LineOfCart ==
    ASSUME IInv, NEW i \in DOMAIN cart
    PROVE  cart[i].quantity \in 1 .. MaxQuantity
<1>1. cart \in Seq(Line)
  BY DEF IInv, WFCart
<1>2. cart[i] \in Line
  BY <1>1
<1> QED
  BY <1>2 DEF Line

LEMMA InitIInv == Init => IInv
  BY EmptyIsWF DEF Init, IInv, WriteBehind, LastIssued

LEMMA NextIInv == IInv /\ [Next]_vars => IInv'
<1> SUFFICES ASSUME IInv, [Next]_vars
             PROVE  IInv'
  OBVIOUS
<1>1. CASE Start
  BY <1>1, EmptyIsWF DEF Start, IInv, WriteBehind, LastIssued
<1>2. CASE FinishInitializeCart
  BY <1>2 DEF FinishInitializeCart, IInv, WriteBehind, LastIssued
<1>3. ASSUME NEW t \in Titles, NEW q \in 1 .. MaxQuantity, NEW p \in Prices,
             AddTapped(t, q, p)
      PROVE  IInv'
  <2>1. AddToCart(cart, NewLine(cart, t, q, p)) \in WFCart
    BY <1>3, AddKeepsWF DEF AddTapped, IInv
  <2> QED
    BY <1>3, <2>1, CommitKeepsIInv DEF AddTapped, TapHandled
<1>4. ASSUME NEW i \in DOMAIN cart, IncrementTapped(i)
      PROVE  IInv'
  <2>1. cart[i].quantity + 1 \in 1 .. MaxQuantity
    <3>1. cart[i].quantity \in 1 .. MaxQuantity
      BY LineOfCart
    <3> QED
      BY <1>4, <3>1, MaxQuantityAssumption DEF IncrementTapped
  <2>2. UpdateQuantity(cart, cart[i].productId, cart[i].quantity + 1) \in WFCart
    BY <2>1, UpdateKeepsWF DEF IInv
  <2> QED
    BY <1>4, <2>2, CommitKeepsIInv DEF IncrementTapped, TapHandled
<1>5. ASSUME NEW i \in DOMAIN cart, DecrementTapped(i)
      PROVE  IInv'
  <2> DEFINE q == IF cart[i].quantity > 1 THEN cart[i].quantity - 1
                                          ELSE cart[i].quantity
  <2>1. q \in 1 .. MaxQuantity
    <3>1. cart[i].quantity \in 1 .. MaxQuantity
      BY LineOfCart
    <3> QED
      BY <3>1, MaxQuantityAssumption
  <2> HIDE DEF q
  <2>2. UpdateQuantity(cart, cart[i].productId, q) \in WFCart
    BY <2>1, UpdateKeepsWF DEF IInv
  <2> QED
    BY <1>5, <2>2, CommitKeepsIInv DEF DecrementTapped, TapHandled, q
<1>6. ASSUME NEW i \in DOMAIN cart, DeleteTapped(i)
      PROVE  IInv'
  <2>1. RemoveItem(cart, cart[i].productId) \in WFCart
    BY RemoveKeepsWF DEF IInv
  <2> QED
    BY <1>6, <2>1, CommitKeepsIInv DEF DeleteTapped, TapHandled
<1>7. CASE ClearCart
  BY <1>7, EmptyIsWF, StoreKeepsIInv DEF ClearCart, TapHandled
<1>8. CASE FlushWrite
  <2>1. /\ Head(writes) \in WFCart
        /\ Tail(writes) \in Seq(WFCart)
        /\ Len(Tail(writes)) = Len(writes) - 1
        /\ Tail(writes) # << >> => Tail(writes)[Len(Tail(writes))] = writes[Len(writes)]
        /\ Tail(writes) = << >> => Head(writes) = writes[Len(writes)]
    <3>1. writes \in Seq(WFCart) /\ writes # << >> /\ Len(writes) \in Nat \ {0}
      BY <1>8 DEF FlushWrite, IInv
    <3> DEFINE w == Tail(writes)
    <3>2. /\ Head(writes) = writes[1] /\ Head(writes) \in WFCart
          /\ w \in Seq(WFCart) /\ Len(w) = Len(writes) - 1
          /\ \A k \in 1 .. Len(w) : w[k] = writes[k + 1]
      BY <3>1
    <3> HIDE DEF w
    <3>3. w # << >> => Len(w) \in 1 .. Len(w)
      BY <3>2
    <3>4. w = << >> => Len(writes) = 1
      BY <3>1, <3>2
    <3> QED
      BY <3>1, <3>2, <3>3, <3>4 DEF w
  <2>2. LastIssued' = LastIssued
    BY <1>8, <2>1 DEF FlushWrite, LastIssued
  <2>3. WriteBehind'
    BY <1>8, <2>2 DEF FlushWrite, WriteBehind, IInv
  <2> QED
    BY <1>8, <2>1, <2>3 DEF FlushWrite, IInv
<1>9. CASE Kill
  BY <1>9, EmptyIsWF DEF Kill, IInv, WriteBehind
<1>10. CASE UNCHANGED vars
  BY <1>10 DEF vars, IInv, WriteBehind, LastIssued
<1> QED
  BY <1>1, <1>2, <1>3, <1>4, <1>5, <1>6, <1>7, <1>8, <1>9, <1>10 DEF Next, Tap

THEOREM InvariantHolds == Spec => []IInv
  BY InitIInv, NextIInv, PTL DEF Spec

-----------------------------------------------------------------------------
\* Every variable keeps its type; quantities stay in their range.
THEOREM TypeCorrect == Spec => []TypeOK
<1>1. IInv => TypeOK
  <2>1. WFCart \subseteq Seq(Line)
    BY DEF WFCart
  <2>2. IInv => writes \in Seq(Seq(Line))
    BY <2>1 DEF IInv
  <2> QED
    BY <2>1, <2>2 DEF IInv, TypeOK
<1> QED
  BY <1>1, InvariantHolds, PTL

\* Whatever is added, deleted, killed and reloaded, no product has two lines
\* and no productId points to the left of its line.
THEOREM AlwaysWellFormed == Spec => []CartWellFormed
<1>1. IInv => CartWellFormed
  BY DEF IInv, WFCart, CartWellFormed
<1> QED
  BY <1>1, InvariantHolds, PTL

\* The file holds the cart, or will after the writes already issued.
THEOREM AlwaysWriteBehind == Spec => []WriteBehind
<1>1. IInv => WriteBehind
  BY DEF IInv
<1> QED
  BY <1>1, InvariantHolds, PTL

\* Of every cart the customer can reach, removeItem keeps exactly the lines with
\* another productId, in their order, and the total shown is the sum over its
\* products.
THEOREM OperationsAlwaysMeanThat == Spec => []OperationsMatchTheirMeaning
<1>1. ASSUME IInv
      PROVE  OperationsMatchTheirMeaning
  <2>1. cart \in WFCart /\ cart \in Seq(Line)
    BY <1>1 DEF IInv, WFCart
  <2>2. \A i \in DOMAIN cart :
           RemoveItem(cart, cart[i].productId) = RemoveWhere(cart, cart[i].productId)
    BY <2>1, RemoveIsTheLoop
  <2>3. Discount(cart) = SumOverProducts(cart)
    BY <2>1, DiscountIsTheTotal
  <2> QED
    BY <2>2, <2>3 DEF OperationsMatchTheirMeaning
<1> QED
  BY <1>1, InvariantHolds, PTL

-----------------------------------------------------------------------------
\* One update of the line that a tapped line's productId leads to.
LEMMA UpdateIsOneQuantity ==
    ASSUME IInv, NEW i \in DOMAIN cart, NEW q \in 1 .. MaxQuantity,
           cart' = UpdateQuantity(cart, cart[i].productId, q)
    PROVE  ChangesOneQuantity(i)
<1> DEFINE k == IndexOf(cart, cart[i].productId)
<1>1. cart \in Seq(Line)
  BY DEF IInv, WFCart
<1>2. k \in DOMAIN cart /\ k <= i /\ cart[k].productId = cart[i].productId
  BY <1>1, IndexOfIsFirst
<1>3. k # 0
  BY <1>1, <1>2
<1>4. cart' = [cart EXCEPT ![k].quantity = q]
  BY <1>3 DEF UpdateQuantity
<1> QED
  BY <1>2, <1>4, Zenon DEF ChangesOneQuantity

\* A tap on "+" or "-" changes one quantity, of the tapped line or of a line
\* above it that has the same productId, and nothing else in the cart.
THEOREM TapsChangeOneQuantity == Spec => TapChangesOneQuantity
<1> DEFINE A == \A i \in DOMAIN cart :
                   IncrementTapped(i) \/ DecrementTapped(i) => ChangesOneQuantity(i)
<1>1. IInv => A
  <2> SUFFICES ASSUME IInv, NEW i \in DOMAIN cart,
                      IncrementTapped(i) \/ DecrementTapped(i)
               PROVE  ChangesOneQuantity(i)
    OBVIOUS
  <2>1. cart[i].quantity \in 1 .. MaxQuantity
    BY LineOfCart
  <2>2. CASE IncrementTapped(i)
    <3>1. cart[i].quantity + 1 \in 1 .. MaxQuantity
      BY <2>1, <2>2, MaxQuantityAssumption DEF IncrementTapped
    <3>2. cart' = UpdateQuantity(cart, cart[i].productId, cart[i].quantity + 1)
      BY <2>2 DEF IncrementTapped, Commit
    <3> QED
      BY <3>1, <3>2, UpdateIsOneQuantity
  <2>3. CASE DecrementTapped(i)
    <3> DEFINE q == IF cart[i].quantity > 1 THEN cart[i].quantity - 1
                                            ELSE cart[i].quantity
    <3>1. q \in 1 .. MaxQuantity
      BY <2>1, MaxQuantityAssumption
    <3>2. cart' = UpdateQuantity(cart, cart[i].productId, q)
      BY <2>3 DEF DecrementTapped, Commit
    <3> HIDE DEF q
    <3> QED
      BY <3>1, <3>2, UpdateIsOneQuantity
  <2> QED
    BY <2>2, <2>3
<1> QED
  BY <1>1, InvariantHolds, PTL DEF TapChangesOneQuantity

-----------------------------------------------------------------------------
(***************************************************************************)
(* The refinement.  A well-formed cart has one line per product, so its    *)
(* basket is determined by the quantities of its lines.                    *)
(***************************************************************************)
LEMMA BasketAt ==
    ASSUME NEW c \in WFCart
    PROVE  /\ DOMAIN BasketOf(c) = TitlesOf(c)
           /\ BasketOf(c) = [t \in TitlesOf(c) |-> BasketOf(c)[t]]
           /\ \A i \in DOMAIN c : /\ c[i].productTitle \in TitlesOf(c)
                                 /\ BasketOf(c)[c[i].productTitle] = c[i].quantity
<1>1. \A i, j \in DOMAIN c : c[i].productTitle = c[j].productTitle => i = j
  BY DEF WFCart, WellFormed, UniqueTitlesIn
<1>2. ASSUME NEW i \in DOMAIN c
      PROVE  BasketOf(c)[c[i].productTitle] = c[i].quantity
  <2> DEFINE t == c[i].productTitle
             k == CHOOSE j \in DOMAIN c : c[j].productTitle = t
  <2>1. k \in DOMAIN c /\ c[k].productTitle = t
    OBVIOUS
  <2>2. BasketOf(c)[t] = c[k].quantity
    BY DEF BasketOf, TitlesOf
  <2> HIDE DEF k
  <2>3. k = i
    BY <1>1, <2>1
  <2> QED
    BY <2>2, <2>3
<1>3. DOMAIN BasketOf(c) = TitlesOf(c) /\ BasketOf(c) = [t \in TitlesOf(c) |-> BasketOf(c)[t]]
  BY DEF BasketOf
<1>4. \A i \in DOMAIN c : c[i].productTitle \in TitlesOf(c)
  BY DEF TitlesOf
<1> QED
  BY <1>2, <1>3, <1>4

LEMMA BasketIs ==
    ASSUME NEW c \in WFCart, NEW b, b = [t \in TitlesOf(c) |-> b[t]],
           \A i \in DOMAIN c : b[c[i].productTitle] = c[i].quantity
    PROVE  BasketOf(c) = b
<1>1. \A t \in TitlesOf(c) : BasketOf(c)[t] = b[t]
  <2> SUFFICES ASSUME NEW t \in TitlesOf(c)
               PROVE  BasketOf(c)[t] = b[t]
    OBVIOUS
  <2>1. PICK i \in DOMAIN c : c[i].productTitle = t
    BY DEF TitlesOf
  <2> QED
    BY <2>1, BasketAt
<1>2. BasketOf(c) = [t \in TitlesOf(c) |-> BasketOf(c)[t]]
  BY BasketAt
<1> QED
  BY <1>1, <1>2

LEMMA BasketOfNothing == BasketOf(<< >>) = << >>
<1>1. TitlesOf(<< >>) = {}
  BY DEF TitlesOf
<1>2. << >> = [t \in {} |-> << >>[t]]
  OBVIOUS
<1> QED
  BY <1>1, <1>2, EmptyIsWF, BasketIs

\* A basket with one product more.
WithProduct(b, t, q) == [y \in DOMAIN b \cup {t} |-> IF y = t THEN q ELSE b[y]]

\* Adding a product puts it into the basket.
LEMMA AddPuts ==
    ASSUME NEW c \in WFCart, NEW t \in Titles, NEW q \in 1 .. MaxQuantity,
           NEW p \in Prices, t \notin TitlesOf(c)
    PROVE  BasketOf(AddToCart(c, NewLine(c, t, q, p))) = WithProduct(BasketOf(c), t, q)
<1> DEFINE l == NewLine(c, t, q, p)
           d == AddToCart(c, l)
           b == [y \in TitlesOf(c) \cup {t} |-> IF y = t THEN q ELSE BasketOf(c)[y]]
<1>1. c \in Seq(Line) /\ Len(c) \in Nat /\ DOMAIN c = 1 .. Len(c)
  BY DEF WFCart
<1>2. l \in Line /\ l.productId = Len(c) /\ l.productTitle = t /\ l.quantity = q
  BY <1>1 DEF NewLine, Line
<1>3. d \in WFCart
  BY AddKeepsWF
<1> HIDE DEF l
<1>4. d = Append(c, l)
  <2>1. ~ (l.productId < Len(c))
    BY <1>1, <1>2
  <2> QED
    BY <2>1 DEF AddToCart
<1>5. /\ DOMAIN d = DOMAIN c \cup {Len(c) + 1}
      /\ \A i \in DOMAIN c : d[i] = c[i]
      /\ d[Len(c) + 1] = l
  BY <1>1, <1>2, <1>4
<1> HIDE DEF d
<1>6. TitlesOf(d) = TitlesOf(c) \cup {t}
  BY <1>2, <1>5 DEF TitlesOf
<1>7. \A i \in DOMAIN c : b[c[i].productTitle] = c[i].quantity
  BY BasketAt
<1>8. \A i \in DOMAIN d : b[d[i].productTitle] = d[i].quantity
  BY <1>2, <1>5, <1>7
<1>9. b = [y \in TitlesOf(d) |-> b[y]]
  BY <1>6
<1> HIDE DEF b
<1>10. BasketOf(d) = b
  BY <1>3, <1>8, <1>9, BasketIs
<1>11. b = WithProduct(BasketOf(c), t, q)
  BY BasketAt DEF b, WithProduct
<1> QED
  BY <1>10, <1>11 DEF d, l

\* Writing a quantity to the line a productId leads to sets that product's.
LEMMA UpdateSets ==
    ASSUME NEW c \in WFCart, NEW i \in DOMAIN c, NEW q \in 1 .. MaxQuantity
    PROVE  \E x \in TitlesOf(c) :
              BasketOf(UpdateQuantity(c, c[i].productId, q)) = [BasketOf(c) EXCEPT ![x] = q]
<1> DEFINE k == IndexOf(c, c[i].productId)
           x == c[k].productTitle
           d == UpdateQuantity(c, c[i].productId, q)
           b == [BasketOf(c) EXCEPT ![x] = q]
<1>1. c \in Seq(Line) /\ DOMAIN c = 1 .. Len(c) /\ Len(c) \in Nat
  BY DEF WFCart
<1>2. k \in DOMAIN c /\ k # 0
  BY <1>1, IndexOfIsFirst
<1>3. d = [c EXCEPT ![k].quantity = q]
  BY <1>2 DEF UpdateQuantity
<1>4. d \in WFCart
  BY UpdateKeepsWF
<1> HIDE DEF k
<1>5. /\ DOMAIN d = DOMAIN c
      /\ \A j \in DOMAIN c : /\ d[j].productTitle = c[j].productTitle
                             /\ d[j].quantity = IF j = k THEN q ELSE c[j].quantity
  BY <1>1, <1>2, <1>3 DEF Line
<1> HIDE DEF d
<1>6. TitlesOf(d) = TitlesOf(c)
  BY <1>5 DEF TitlesOf
<1>7. \A j \in DOMAIN c : c[j].productTitle = x <=> j = k
  BY <1>2 DEF WFCart, WellFormed, UniqueTitlesIn
<1>8. x \in TitlesOf(c)
  BY <1>2, BasketAt
<1>9. b = [y \in TitlesOf(c) |-> b[y]]
      /\ \A y \in TitlesOf(c) : b[y] = IF y = x THEN q ELSE BasketOf(c)[y]
  BY BasketAt
<1> HIDE DEF b, x
<1>10. \A j \in DOMAIN d : b[d[j].productTitle] = d[j].quantity
  BY <1>5, <1>7, <1>9, BasketAt
<1>11. BasketOf(d) = b
  BY <1>4, <1>6, <1>9, <1>10, BasketIs
<1> QED
  BY <1>8, <1>11 DEF b, d

\* Removing lines takes their products out.
LEMMA RemoveTakesOut ==
    ASSUME NEW c \in WFCart, NEW i \in DOMAIN c
    PROVE  \E S \in SUBSET TitlesOf(c) :
              /\ S # {}
              /\ BasketOf(RemoveItem(c, c[i].productId))
                    = [y \in TitlesOf(c) \ S |-> BasketOf(c)[y]]
<1> DEFINE id == c[i].productId
           S  == {c[j].productTitle : j \in {n \in DOMAIN c : c[n].productId = id}}
           d  == RemoveItem(c, id)
           b  == [y \in TitlesOf(c) \ S |-> BasketOf(c)[y]]
<1>1. S \in SUBSET TitlesOf(c) /\ c[i].productTitle \in S
  BY DEF TitlesOf
<1>2. \A j \in DOMAIN c : c[j].productTitle \in S <=> c[j].productId = id
  BY DEF WFCart, WellFormed, UniqueTitlesIn
<1>3. d \in WFCart
  BY RemoveKeepsWF
<1>4. /\ \A k \in DOMAIN d : \E j \in DOMAIN c : c[j].productId # id /\ d[k] = c[j]
      /\ \A j \in DOMAIN c : c[j].productId # id => \E k \in DOMAIN d : d[k] = c[j]
  BY RemoveKeepsLines
<1> HIDE DEF id, S, d
<1>5. TitlesOf(d) = TitlesOf(c) \ S
  <2>1. ASSUME NEW t \in TitlesOf(d)
        PROVE  t \in TitlesOf(c) \ S
    BY <1>2, <1>4 DEF TitlesOf
  <2>2. ASSUME NEW t \in TitlesOf(c) \ S
        PROVE  t \in TitlesOf(d)
    BY <1>2, <1>4 DEF TitlesOf
  <2> QED
    BY <2>1, <2>2
<1>6. \A k \in DOMAIN d : b[d[k].productTitle] = d[k].quantity
  BY <1>2, <1>4, BasketAt
<1>7. b = [y \in TitlesOf(d) |-> b[y]]
  BY <1>5
<1> HIDE DEF b
<1>8. BasketOf(d) = b
  BY <1>3, <1>6, <1>7, BasketIs
<1> QED
  BY <1>1, <1>8 DEF b, d, id

-----------------------------------------------------------------------------
\* The refinement mapping, named.
Up      == phase = "running"
Shown   == IF phase = "running" THEN BasketOf(cart) ELSE << >>
Backlog == [k \in DOMAIN writes |-> BasketOf(writes[k])]
Saved   == BasketOf(diskCart)

Baskets == {BasketOf(c) : c \in WFCart}

\* A queue of carts as a queue of baskets.
BasketsOf(ws) == [k \in DOMAIN ws |-> BasketOf(ws[k])]

LEMMA BacklogGrows ==
    ASSUME NEW ws \in Seq(WFCart), NEW c \in WFCart
    PROVE  BasketsOf(Append(ws, c)) = Append(BasketsOf(ws), BasketOf(c))
<1> DEFINE bs == BasketsOf(ws)
           us == Append(ws, c)
           n  == Len(ws)
<1>1. /\ n \in Nat /\ DOMAIN ws = 1 .. n
      /\ DOMAIN us = 1 .. (n + 1) /\ us[n + 1] = c
      /\ \A k \in 1 .. n : us[k] = ws[k]
  OBVIOUS
<1> HIDE DEF us, n
<1>2. bs = [k \in 1 .. n |-> BasketOf(ws[k])]
  BY <1>1 DEF BasketsOf
<1>3. \A k \in 1 .. n : BasketOf(ws[k]) \in Baskets
  BY <1>1 DEF Baskets, n
<1>4. bs \in Seq(Baskets) /\ Len(bs) = n
  BY <1>1, <1>2, <1>3
<1> DEFINE v == BasketOf(c)
<1>5. v \in Baskets
  BY DEF Baskets
<1> HIDE DEF bs, v
<1>6. /\ DOMAIN Append(bs, v) = 1 .. (n + 1)
      /\ Append(bs, v)[n + 1] = v
      /\ \A k \in 1 .. n : Append(bs, v)[k] = bs[k]
      /\ Append(bs, v) = [k \in 1 .. (n + 1) |-> Append(bs, v)[k]]
  <2> DEFINE more == Append(bs, v)
  <2>1. more \in Seq(Baskets) /\ Len(more) = n + 1
    BY <1>1, <1>4, <1>5
  <2>2. more[n + 1] = v /\ \A k \in 1 .. n : more[k] = bs[k]
    BY <1>1, <1>4, <1>5
  <2> HIDE DEF more
  <2>3. DOMAIN more = 1 .. (n + 1) /\ more = [k \in 1 .. (n + 1) |-> more[k]]
    BY <2>1
  <2> QED
    BY <2>2, <2>3 DEF more
<1>7. \A k \in 1 .. (n + 1) : BasketOf(us[k]) = Append(bs, v)[k]
  <2> SUFFICES ASSUME NEW k \in 1 .. (n + 1)
               PROVE  BasketOf(us[k]) = Append(bs, v)[k]
    OBVIOUS
  <2>1. CASE k = n + 1
    BY <1>1, <1>6, <2>1 DEF v
  <2>2. CASE k # n + 1
    <3>1. k \in 1 .. n
      BY <1>1, <2>2
    <3> QED
      BY <1>1, <1>2, <1>6, <3>1
  <2> QED
    BY <2>1, <2>2
<1>8. BasketsOf(us) = [k \in 1 .. (n + 1) |-> BasketOf(us[k])]
  BY <1>1 DEF BasketsOf
<1>9. BasketsOf(us) = Append(bs, v)
  BY <1>6, <1>7, <1>8
<1> QED
  BY <1>9 DEF us, bs, v

LEMMA BacklogShrinks ==
    ASSUME NEW ws \in Seq(WFCart), ws # << >>
    PROVE  /\ BasketsOf(ws) # << >>
           /\ Head(BasketsOf(ws)) = BasketOf(Head(ws))
           /\ Tail(BasketsOf(ws)) = BasketsOf(Tail(ws))
<1> DEFINE bs == BasketsOf(ws)
           us == Tail(ws)
           n  == Len(ws)
<1>1. /\ n \in Nat \ {0} /\ DOMAIN ws = 1 .. n /\ Head(ws) = ws[1]
      /\ DOMAIN us = 1 .. (n - 1)
      /\ \A k \in 1 .. (n - 1) : us[k] = ws[k + 1]
  OBVIOUS
<1> HIDE DEF us, n
<1>2. bs = [k \in 1 .. n |-> BasketOf(ws[k])]
  BY <1>1 DEF BasketsOf
<1>3. \A k \in 1 .. n : BasketOf(ws[k]) \in Baskets
  BY <1>1 DEF Baskets, n
<1>4. bs \in Seq(Baskets) /\ Len(bs) = n
  BY <1>1, <1>2, <1>3
<1> HIDE DEF bs
<1>5. /\ bs # << >> /\ Head(bs) = bs[1]
      /\ DOMAIN Tail(bs) = 1 .. (n - 1)
      /\ \A k \in 1 .. (n - 1) : Tail(bs)[k] = bs[k + 1]
      /\ Tail(bs) = [k \in 1 .. (n - 1) |-> Tail(bs)[k]]
  <2> DEFINE rest == Tail(bs)
  <2>1. bs # << >> /\ Head(bs) = bs[1]
    BY <1>1, <1>4
  <2>2. rest \in Seq(Baskets) /\ Len(rest) = n - 1
    BY <1>1, <1>4, <2>1
  <2>3. \A k \in 1 .. (n - 1) : rest[k] = bs[k + 1]
    BY <1>1, <1>4, <2>1
  <2> HIDE DEF rest
  <2>4. DOMAIN rest = 1 .. (n - 1) /\ rest = [k \in 1 .. (n - 1) |-> rest[k]]
    BY <2>2
  <2> QED
    BY <2>1, <2>3, <2>4 DEF rest
<1>6. bs[1] = BasketOf(Head(ws))
  BY <1>1, <1>2
<1>7. \A k \in 1 .. (n - 1) : Tail(bs)[k] = BasketOf(us[k])
  <2> SUFFICES ASSUME NEW k \in 1 .. (n - 1)
               PROVE  Tail(bs)[k] = BasketOf(us[k])
    OBVIOUS
  <2>1. k + 1 \in 1 .. n
    BY <1>1
  <2> QED
    BY <1>1, <1>2, <1>5, <2>1
<1>8. BasketsOf(us) = [k \in 1 .. (n - 1) |-> BasketOf(us[k])]
  BY <1>1 DEF BasketsOf
<1>9. Tail(bs) = BasketsOf(us)
  BY <1>5, <1>7, <1>8
<1> QED
  BY <1>5, <1>6, <1>9 DEF bs, us

-----------------------------------------------------------------------------
\* What every tap does to the basket: it becomes that of the new list.
LEMMA CommitBecomes ==
    ASSUME IInv, NEW v \in WFCart, phase = "running",
           cart' = v, Persist(v), UNCHANGED <<phase, diskCart>>
    PROVE  Basket!Become(BasketOf(v))
<1>1. writes \in Seq(WFCart) /\ writes' = Append(writes, v)
  BY DEF IInv, Persist
<1>2. BasketsOf(writes') = Append(BasketsOf(writes), BasketOf(v))
  BY <1>1, BacklogGrows
<1> QED
  BY <1>2, Zenon DEF Basket!Become, BasketsOf

LEMMA CommitIsPersist ==
    ASSUME NEW v, phase = "running", Commit(v)
    PROVE  cart' = v /\ Persist(v) /\ UNCHANGED <<phase, diskCart>>
  BY DEF Commit, PersistenceSupport

LEMMA BasketInit == Init => Basket!Init
  BY BasketOfNothing DEF Init, Basket!Init, Basket!Empty

LEMMA BasketStep == IInv /\ [Next]_vars => [Basket!Next]_<<Up, Shown, Backlog, Saved>>
<1> SUFFICES ASSUME IInv, [Next]_vars
             PROVE  [Basket!Next]_<<Up, Shown, Backlog, Saved>>
  OBVIOUS
<1> USE DEF Up, Shown, Backlog, Saved
<1>1. CASE Start
  BY <1>1 DEF Start
<1>2. CASE FinishInitializeCart
  <2>1. cacheCart = diskCart
    BY <1>2 DEF FinishInitializeCart, IInv, WriteBehind, LastIssued
  <2>2. Basket!Recover
    BY <1>2, <2>1 DEF FinishInitializeCart, Basket!Recover
  <2> QED
    BY <2>2 DEF Basket!Next
<1>3. ASSUME NEW t \in Titles, NEW q \in 1 .. MaxQuantity, NEW p \in Prices,
             AddTapped(t, q, p)
      PROVE  Basket!Next
  <2> DEFINE v == AddToCart(cart, NewLine(cart, t, q, p))
  <2>1. phase = "running" /\ t \notin TitlesOf(cart) /\ Commit(v)
    BY <1>3 DEF AddTapped, TapHandled
  <2>2. cart \in WFCart /\ v \in WFCart
    BY <2>1, AddKeepsWF DEF IInv
  <2>3. BasketOf(v) = WithProduct(BasketOf(cart), t, q)
    BY <2>1, <2>2, AddPuts
  <2> HIDE DEF v
  <2>4. Basket!Become(BasketOf(v))
    BY <2>1, <2>2, CommitIsPersist, CommitBecomes
  <2>5. Shown = BasketOf(cart) /\ DOMAIN BasketOf(cart) = TitlesOf(cart)
    BY <2>1, <2>2, BasketAt
  <2>6. Basket!Put(t, q)
    BY <2>1, <2>3, <2>4, <2>5 DEF Basket!Put, WithProduct
  <2> QED
    BY <2>6 DEF Basket!Next
<1>4. ASSUME NEW i \in DOMAIN cart, NEW q \in 1 .. MaxQuantity, phase = "running",
             Commit(UpdateQuantity(cart, cart[i].productId, q))
      PROVE  Basket!Next
  <2> DEFINE v == UpdateQuantity(cart, cart[i].productId, q)
  <2>1. cart \in WFCart /\ v \in WFCart
    BY UpdateKeepsWF DEF IInv
  <2>2. PICK x \in TitlesOf(cart) : BasketOf(v) = [BasketOf(cart) EXCEPT ![x] = q]
    BY <2>1, UpdateSets
  <2> HIDE DEF v
  <2>3. Basket!Become(BasketOf(v))
    BY <1>4, <2>1, CommitIsPersist, CommitBecomes DEF v
  <2>4. Shown = BasketOf(cart) /\ DOMAIN BasketOf(cart) = TitlesOf(cart)
    BY <1>4, <2>1, BasketAt
  <2>5. Basket!SetQuantity(x, q)
    BY <2>2, <2>3, <2>4 DEF Basket!SetQuantity
  <2> QED
    BY <2>4, <2>5 DEF Basket!Next
<1>5. ASSUME NEW i \in DOMAIN cart, IncrementTapped(i)
      PROVE  Basket!Next
  <2>1. cart[i].quantity + 1 \in 1 .. MaxQuantity
    BY <1>5, LineOfCart, MaxQuantityAssumption DEF IncrementTapped
  <2> QED
    BY <1>4, <1>5, <2>1 DEF IncrementTapped, TapHandled
<1>6. ASSUME NEW i \in DOMAIN cart, DecrementTapped(i)
      PROVE  Basket!Next
  <2> DEFINE q == IF cart[i].quantity > 1 THEN cart[i].quantity - 1
                                          ELSE cart[i].quantity
  <2>1. q \in 1 .. MaxQuantity
    BY LineOfCart, MaxQuantityAssumption
  <2>2. phase = "running" /\ Commit(UpdateQuantity(cart, cart[i].productId, q))
    BY <1>6 DEF DecrementTapped, TapHandled
  <2> HIDE DEF q
  <2> QED
    BY <1>4, <2>1, <2>2
<1>7. ASSUME NEW i \in DOMAIN cart, DeleteTapped(i)
      PROVE  Basket!Next
  <2> DEFINE v == RemoveItem(cart, cart[i].productId)
  <2>1. phase = "running" /\ Commit(v)
    BY <1>7 DEF DeleteTapped, TapHandled
  <2>2. cart \in WFCart /\ v \in WFCart
    BY RemoveKeepsWF DEF IInv
  <2>3. PICK S \in SUBSET TitlesOf(cart) :
           S # {} /\ BasketOf(v) = [y \in TitlesOf(cart) \ S |-> BasketOf(cart)[y]]
    BY <2>2, RemoveTakesOut
  <2> HIDE DEF v
  <2>4. Basket!Become(BasketOf(v))
    BY <2>1, <2>2, CommitIsPersist, CommitBecomes
  <2>5. Shown = BasketOf(cart) /\ DOMAIN BasketOf(cart) = TitlesOf(cart)
    BY <2>1, <2>2, BasketAt
  <2>6. Basket!TakeOut(S)
    BY <2>3, <2>4, <2>5 DEF Basket!TakeOut, Basket!Restrict
  <2> QED
    BY <2>5, <2>6 DEF Basket!Next
<1>8. CASE ClearCart
  <2>1. Basket!Become(BasketOf(<< >>))
    BY <1>8, EmptyIsWF, CommitBecomes DEF ClearCart, TapHandled
  <2>2. Basket!TakeOutAll
    BY <2>1, BasketOfNothing DEF Basket!TakeOutAll, Basket!Empty
  <2> QED
    BY <2>2 DEF Basket!Next
<1>9. CASE FlushWrite
  <2>1. /\ phase = "running" /\ writes \in Seq(WFCart) /\ writes # << >>
        /\ writes' = Tail(writes) /\ diskCart' = Head(writes)
        /\ UNCHANGED <<phase, cart>>
    BY <1>9 DEF FlushWrite, IInv
  <2>2. /\ BasketsOf(writes) # << >>
        /\ Head(BasketsOf(writes)) = BasketOf(diskCart')
        /\ Tail(BasketsOf(writes)) = BasketsOf(writes')
    BY <2>1, BacklogShrinks
  <2>3. Basket!Save
    BY <2>1, <2>2, Zenon DEF Basket!Save, BasketsOf
  <2> QED
    BY <2>3 DEF Basket!Next
<1>10. CASE Kill
  <2>1. CASE phase = "running"
    <3>1. Backlog' = << >>
      BY <1>10 DEF Kill
    <3>2. Basket!Crash
      BY <1>10, <2>1, <3>1 DEF Kill, Basket!Crash, Basket!Empty
    <3> QED
      BY <3>2 DEF Basket!Next
  <2>2. CASE phase # "running"
    <3>1. writes = << >> /\ writes' = << >> /\ diskCart' = diskCart /\ phase' = "stopped"
      BY <1>10, <2>2 DEF Kill, IInv
    <3> QED
      BY <2>2, <3>1
  <2> QED
    BY <2>1, <2>2
<1>11. CASE UNCHANGED vars
  BY <1>11 DEF vars
<1> QED
  BY <1>1, <1>2, <1>3, <1>5, <1>6, <1>7, <1>8, <1>9, <1>10, <1>11 DEF Next, Tap

\* The list with its positional productIds, the cache, the queue of writes and
\* the file behave like one durable basket, for any products and any quantities.
THEOREM DurableBasketImplemented == Spec => ImplementsDurableBasket
<1>1. Spec => Basket!Spec
  BY BasketInit, BasketStep, InvariantHolds, PTL
     DEF Spec, Basket!Spec, Basket!vars, Up, Shown, Backlog, Saved
<1> QED
  BY <1>1 DEF ImplementsDurableBasket
=============================================================================
