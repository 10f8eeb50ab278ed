------------------------------- MODULE CartOps -------------------------------
(***************************************************************************)
(* The operations of the shopping cart on its list of lines, translated    *)
(* from lib/cart.dart (class FlutterCart) and from the places that call it *)
(* (catalog/widgets/product_card.dart, cart/view/cart.dart).               *)
(*                                                                         *)
(* A Dart list is a sequence: the line at Dart index k is cart[k + 1].     *)
(* A line keeps the fields the operations look at; image, weight and the   *)
(* price text are carried along unread.  productId is a decimal string in  *)
(* the code, always written by '${n}' and read back by int.parse, so it is *)
(* the natural number n here.  A price is a natural number of kopecks.     *)
(***************************************************************************)
EXTENDS Naturals, FiniteSets, Sequences, SequencesExt

CONSTANTS Titles,       \* product titles, the document ids of 'products'
          Prices,       \* prices a line can be added with
          MaxQuantity   \* bound: quantity of a line

ASSUME PricesAssumption == Prices \subseteq Nat
ASSUME MaxQuantityAssumption == MaxQuantity \in Nat \ {0}

\* CartOrderModel
Line == [productId : Nat, productTitle : Titles,
         quantity : 1 .. MaxQuantity, price : Prices]

-----------------------------------------------------------------------------
\* The handler of the "add" button builds the new line with the current
\* length of the cart as its productId.
NewLine(cart, t, q, p) ==
    [productId |-> Len(cart), productTitle |-> t, quantity |-> q, price |-> p]

\* addToCart: the productId, read as an index, decides between merging into
\* the line at that index and appending.
AddToCart(cart, line) ==
    IF line.productId < Len(cart)
    THEN [cart EXCEPT ![line.productId + 1].quantity = @ + line.quantity]
    ELSE Append(cart, line)

\* indexWhere: the first line with this productId, 0 when there is none.
IndexOf(cart, id) == SelectInSeq(cart, LAMBDA line : line.productId = id)

\* Faulty variant, for the check of the properties: the productId is taken for an
\* index, as addToCart does.
UpdateQuantityAtId(cart, id, q) ==
    IF id < Len(cart) THEN [cart EXCEPT ![id + 1].quantity = q] ELSE cart

\* updateQuantity
UpdateQuantity(cart, id, q) ==
    IF IndexOf(cart, id) # 0
    THEN [cart EXCEPT ![IndexOf(cart, id)].quantity = q]
    ELSE cart

\* removeWhere: the lines that stay keep their order.  PlaceOf is the k-th of
\* the positions in K, counted from the left.
PlaceOf(K, k) == CHOOSE i \in K : Cardinality({j \in K : j <= i}) = k

RemoveItem(cart, id) ==
    LET K == {i \in DOMAIN cart : cart[i].productId # id}
    IN  [k \in 1 .. Cardinality(K) |-> cart[PlaceOf(K, k)]]

\* discount, which the screens show as the total
Discount(cart) ==
    FoldLeft(LAMBDA sum, line : sum + line.price * line.quantity, 0, cart)

-----------------------------------------------------------------------------
\* Views of a cart that the specifications speak about.
TitlesOf(cart) == {cart[i].productTitle : i \in DOMAIN cart}

LinesOf(cart) == {[title |-> cart[i].productTitle, quantity |-> cart[i].quantity,
                   price |-> cart[i].price] : i \in DOMAIN cart}

\* The loop of removeWhere, and the sum of the amounts of the products in no
\* particular order: what RemoveItem and Discount have to agree with.
RemoveWhere(c, id) ==
    FoldLeft(LAMBDA kept, line : IF line.productId # id THEN Append(kept, line) ELSE kept,
             << >>, c)

SumOverProducts(c) ==
    MapThenFoldSet(LAMBDA a, b : a + b, 0,
                   LAMBDA line : line.price * line.quantity,
                   LAMBDA S : CHOOSE line \in S : TRUE,
                   LinesOf(c))

\* Two lines of a cart are never about the same product.
UniqueTitlesIn(c) ==
    \A i, j \in DOMAIN c : c[i].productTitle = c[j].productTitle => i = j

\* The productId of a line, which later operations read as an index, never
\* points to the left of the line: deleting moves lines left, nothing moves
\* them right.
IdNotLeftIn(c) == \A i \in DOMAIN c : c[i].productId + 1 >= i

WellFormed(c) == UniqueTitlesIn(c) /\ IdNotLeftIn(c)
=============================================================================
