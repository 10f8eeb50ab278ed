---------------------------- MODULE CheckoutProofs ----------------------------
(***************************************************************************)
(* Proofs about Checkout for every value of its constants: an order is the *)
(* cart that was on the screen, with the sum that was confirmed, submitted *)
(* once and copied faithfully; what the pages carry keeps its type; and    *)
(* the pages and the statics between them implement Purchase.              *)
(***************************************************************************)
EXTENDS Checkout, CartOpsProofs

(***************************************************************************)
(* The inductive invariant, in four parts.  None of the properties says    *)
(* anything between the tap that orders and the frame that draws the       *)
(* checkout page, nor while the dialog is open; the parts do.              *)
(***************************************************************************)

\* The dialog and the checkout page exclude each other: the order button opens
\* the dialog only while the cart page has asked for no other page, because a
\* notice that was off when the checkout page was asked for stays off.
Screens ==
    /\ hurried \in BOOLEAN /\ dialog \in BOOLEAN /\ drawnDialog \in BOOLEAN
    /\ taps \in Nat /\ taps <= TapLimit
    /\ ~ (dialog <=> drawnDialog) => taps = TapLimit
    /\ page = "checkout" => ~ dialog
    /\ page = "checkout" /\ shown = "cart" /\ taps < TapLimit => notice = "off"
    /\ drawnDialog => shown # "checkout"

\* A copy in the customer's history agrees with the document of the shop.
CopyTells(d) ==
    /\ history[d] = [lines |-> history[d].lines, items |-> history[d].items,
                     total |-> history[d].total]
    /\ history[d].lines \in Seq(OrderLine)
    /\ history[d].items = Len(history[d].lines)
    /\ history[d].total = orders[d].total

Documents ==
    /\ cart \in WFCart
    /\ loggedIn \in BOOLEAN /\ form \in Form /\ visits \in Nat
    /\ DOMAIN orders \subseteq 1 .. visits
    /\ DOMAIN history \subseteq DOMAIN orders
    /\ \A d \in DOMAIN history : CopyTells(d)

\* What the submit button would write once more is what it wrote: after the
\* first submission the cart is empty and nothing the page shows can fill it.
SentAlready ==
    /\ shown = "checkout" => visits # 0
    /\ visits \notin DOMAIN history => form.items = 0
    /\ shown = "checkout" /\ visits \in DOMAIN orders =>
          /\ cart = << >>
          /\ orderModel.lines = orders[visits].lines
          /\ orderModel.total = orders[visits].total
    /\ shown = "checkout" /\ visits \in DOMAIN history =>
          form.items = history[visits].items

\* A customer who waits for every frame meets a cart page whose total is the
\* cart's and that has collected nothing, and leaves it with the whole cart.
Patient ==
    ~ hurried =>
        /\ taps = 0 => page = shown /\ (dialog <=> drawnDialog)
        /\ page = "checkout" => /\ cart # << >>
                                /\ orderModel.lines = OrderLines(cart)
                                /\ orderModel.total = Discount(cart)
        /\ shown = "cart" /\ page = "cart" =>
              itemsOrder = << >> /\ total = Discount(cart)
        /\ dialog => shown = "cart" /\ page = "cart" /\ cart # << >>
        /\ \A d \in DOMAIN history : history[d].items > 0

CheckoutInv == Screens /\ Documents /\ SentAlready /\ Patient

-----------------------------------------------------------------------------
\* How many taps a frame takes is settled by what kind of customer it is.
LEMMA LimitIsPositive ==
    ASSUME hurried \in BOOLEAN
    PROVE  TapLimit \in Nat /\ TapLimit > 0 /\ (~ hurried => TapLimit = 1)
  BY TapsPerFrameAssumption DEF TapLimit

LEMMA InitInv == Init => CheckoutInv
<1> SUFFICES ASSUME Init
             PROVE  CheckoutInv
  OBVIOUS
<1>1. hurried \in BOOLEAN /\ TapLimit \in Nat /\ TapLimit > 0
  BY LimitIsPositive DEF Init
<1>e. /\ dialog \in BOOLEAN /\ drawnDialog \in BOOLEAN /\ ~ dialog /\ ~ drawnDialog
      /\ page = "elsewhere" /\ shown = "elsewhere" /\ taps = 0
      /\ DOMAIN orders = {} /\ DOMAIN history = {}
  <2>1. dialog \in BOOLEAN /\ drawnDialog \in BOOLEAN /\ ~ dialog /\ ~ drawnDialog
    BY Zenon DEF Init
  <2>2. /\ page = "elsewhere" /\ shown = "elsewhere" /\ taps = 0
        /\ orders = << >> /\ history = << >>
    BY DEF Init
  <2> QED
    BY <2>1, <2>2
<1>2. Screens
  BY <1>1, <1>e DEF Screens
<1>3. Documents
  <2>1. form = FreshForm(FALSE) /\ visits = 0 /\ loggedIn \in BOOLEAN /\ cart = << >>
    BY DEF Init
  <2>2. form \in Form
    BY <2>1 DEF FreshForm, Form
  <2> QED
    BY <1>e, <2>1, <2>2, EmptyIsWF DEF Documents
<1>4. SentAlready
  <2>1. form.items = 0
    BY DEF Init, FreshForm
  <2> QED
    BY <1>e, <2>1 DEF SentAlready
<1>5. Patient
  BY <1>e DEF Patient
<1> QED
  BY <1>2, <1>3, <1>4, <1>5 DEF CheckoutInv

-----------------------------------------------------------------------------
(***************************************************************************)
(* Every step keeps Screens, whatever the cart and the documents hold.     *)
(***************************************************************************)
LEMMA ScreensStep == Screens /\ [Next]_vars => Screens'
<1> SUFFICES ASSUME Screens, [Next]_vars
             PROVE  Screens'
  OBVIOUS
<1>0. TapLimit \in Nat /\ TapLimit > 0
  BY LimitIsPositive DEF Screens
<1>a. hurried' = hurried => TapLimit' = TapLimit
  BY DEF TapLimit
\* A tap on what is drawn, which leaves the dialog alone.
<1>b. ASSUME NEW p, TapOn(p), UNCHANGED <<shown, dialog, drawnDialog, notice, hurried>>,
             \/ page' # "checkout"
             \/ page' = page
             \/ notice = "off"
      PROVE  Screens'
  BY <1>0, <1>a, <1>b DEF Screens, TapOn, CanTap
<1>c. ASSUME NEW f, ChangeForm(f)
      PROVE  Screens'
  BY <1>b, <1>c DEF ChangeForm, cartVars, customer, orderVars
<1>d. ASSUME NEW c, ChangeCart(c)
      PROVE  Screens'
  BY <1>b, <1>d DEF ChangeCart, customer
<1>1. CASE Frame
  BY <1>0, <1>1, <1>a DEF Frame, Screens, customer
<1>2. CASE NoticeRead
  BY <1>2, <1>a DEF NoticeRead, Screens, uiVars, customer
<1>3. ASSUME NEW p \in {"elsewhere", "cart"}, NavTapped(p)
      PROVE  Screens'
  BY <1>3, <1>b DEF NavTapped, customer
<1>4. ASSUME NEW t \in Titles, NEW q \in 1 .. MaxQuantity, NEW p \in Prices,
             AddTapped(t, q, p)
      PROVE  Screens'
  BY <1>4, <1>b DEF AddTapped, customer
<1>5. ASSUME NEW i \in DOMAIN cart, IncrementTapped(i)
      PROVE  Screens'
  BY <1>5, <1>d DEF IncrementTapped
<1>6. ASSUME NEW i \in DOMAIN cart, DecrementTapped(i)
      PROVE  Screens'
  BY <1>6, <1>d DEF DecrementTapped
<1>7. ASSUME NEW i \in DOMAIN cart, DeleteTapped(i)
      PROVE  Screens'
  BY <1>7, <1>d DEF DeleteTapped
<1>8. CASE CheckoutTapped
  <2>1. UNCHANGED <<shown, drawnDialog, notice, hurried>>
    BY <1>8 DEF CheckoutTapped, customer
  <2>2. CASE /\ notice # "off" /\ CanTap("cart") /\ Absorb
             /\ dialog' = TRUE /\ page' = page
    BY <1>0, <1>a, <2>1, <2>2 DEF Screens, CanTap, Absorb
  <2>3. CASE notice = "off" /\ TapOn("cart") /\ dialog' = dialog
    BY <1>b, <2>1, <2>3
  <2> QED
    BY <1>8, <2>2, <2>3 DEF CheckoutTapped
<1>9. ASSUME NEW never \in BOOLEAN, AgreeTapped(never)
      PROVE  Screens'
  <2>1. dialog /\ drawnDialog /\ ~ dialog' /\ dialog' \in BOOLEAN /\ taps' = TapLimit
    BY <1>9 DEF AgreeTapped, TapInDialog, Absorb
  <2>2. UNCHANGED <<shown, drawnDialog, hurried>>
    BY <1>9 DEF AgreeTapped, customer
  <2> QED
    BY <1>0, <1>a, <2>1, <2>2 DEF Screens
<1>10. CASE CancelTapped
  <2>1. dialog /\ drawnDialog /\ ~ dialog' /\ dialog' \in BOOLEAN /\ taps' = TapLimit
    BY <1>10 DEF CancelTapped, TapInDialog, Absorb
  <2>2. UNCHANGED <<page, shown, drawnDialog, hurried>>
    BY <1>10 DEF CancelTapped, customer
  <2> QED
    BY <1>0, <1>a, <2>1, <2>2 DEF Screens
<1>11. CASE EditFields
  BY <1>11, <1>c DEF EditFields
<1>12. CASE CardBoxTapped
  BY <1>12, <1>c DEF CardBoxTapped
<1>13. CASE CashBoxTapped
  BY <1>13, <1>c DEF CashBoxTapped
<1>14. CASE BackTapped
  BY <1>14, <1>b DEF BackTapped, customer
<1>15. CASE SubmitTapped
  BY <1>15, <1>b DEF SubmitTapped, customer
<1>16. CASE UNCHANGED vars
  BY <1>16, <1>a DEF vars, customer, Screens
<1> QED
  BY <1>1, <1>2, <1>3, <1>4, <1>5, <1>6, <1>7, <1>8, <1>9, <1>10, <1>11, <1>12,
     <1>13, <1>14, <1>15, <1>16 DEF Next

-----------------------------------------------------------------------------
(***************************************************************************)
(* What a submission writes, the first one of a visit and every other.     *)
(***************************************************************************)
LEMMA OrderLinesOfCart ==
    ASSUME NEW c \in Seq(Line)
    PROVE  /\ OrderLines(c) \in Seq(OrderLine)
           /\ Len(OrderLines(c)) = Len(c) /\ DOMAIN OrderLines(c) = DOMAIN c
<1>1. Len(c) \in Nat /\ DOMAIN c = 1 .. Len(c)
  OBVIOUS
<1>2. \A i \in 1 .. Len(c) :
         [index |-> i, title |-> c[i].productTitle,
          quantity |-> c[i].quantity, price |-> c[i].price] \in OrderLine
  <2> SUFFICES ASSUME NEW i \in 1 .. Len(c)
               PROVE  [index |-> i, title |-> c[i].productTitle,
                       quantity |-> c[i].quantity, price |-> c[i].price] \in OrderLine
    OBVIOUS
  <2>1. c[i] \in Line /\ i \in Nat \ {0}
    OBVIOUS
  <2> QED
    BY <2>1 DEF Line, OrderLine
<1> QED
  BY <1>1, <1>2 DEF OrderLines

\* The lines of the customer's copy and its counter.
LEMMA LinesOfCopy ==
    ASSUME Documents, SentAlready, shown = "checkout",
           NEW items,
           items = IF cart # << >> THEN Len(cart) ELSE form.items
    PROVE  LET copy == HistoryAfter(items)[visits]
           IN  /\ DOMAIN HistoryAfter(items) = DOMAIN history \cup {visits}
               /\ \A d \in DOMAIN history \ {visits} : HistoryAfter(items)[d] = history[d]
               /\ copy = [lines |-> copy.lines, items |-> items,
                          total |-> orderModel.total]
               /\ copy.lines \in Seq(OrderLine)
               /\ Len(copy.lines) = items
               /\ visits \in DOMAIN history => copy = history[visits]
<1> DEFINE old   == IF visits \in DOMAIN history THEN history[visits].lines ELSE << >>
           lines == [i \in DOMAIN old \cup DOMAIN cart |->
                       IF i \in DOMAIN cart THEN OrderLines(cart)[i] ELSE old[i]]
           copy  == [lines |-> lines, items |-> items, total |-> orderModel.total]
<1>1. HistoryAfter(items) = [e \in DOMAIN history \cup {visits} |->
                               IF e = visits THEN copy ELSE history[e]]
  BY DEF HistoryAfter, SetDoc
<1>2. cart \in Seq(Line)
  BY DEF Documents, WFCart
<1>3. lines \in Seq(OrderLine) /\ Len(lines) = items
      /\ (visits \in DOMAIN history => lines = history[visits].lines)
  <2>1. CASE visits \in DOMAIN history
    <3>1. cart = << >> /\ items = form.items
      <4>1. visits \in DOMAIN orders
        BY <2>1 DEF Documents
      <4>2. cart = << >>
        BY <4>1, Zenon DEF SentAlready
      <4> QED
        BY <4>2
    <3>2. /\ old = history[visits].lines /\ old \in Seq(OrderLine)
          /\ Len(old) = items
      <4>1. CopyTells(visits)
        BY <2>1 DEF Documents
      <4>2. form.items = history[visits].items
        BY <2>1, Zenon DEF SentAlready
      <4>3. /\ history[visits].lines \in Seq(OrderLine)
            /\ history[visits].items = Len(history[visits].lines)
        BY <4>1 DEF CopyTells
      <4>4. old = history[visits].lines
        BY <2>1
      <4> HIDE DEF old, lines
      <4> QED
        BY <3>1, <4>2, <4>3, <4>4
    <3>3. lines = [i \in DOMAIN old |-> old[i]]
      BY <3>1
    <3> HIDE DEF old, lines
    <3>4. lines = old
      <4>1. old = [i \in DOMAIN old |-> old[i]]
        BY <3>2
      <4> QED
        BY <3>3, <4>1, Zenon
    <3> QED
      BY <3>2, <3>4
  <2>2. CASE visits \notin DOMAIN history
    <3>1. old = << >>
      BY <2>2
    <3>2. DOMAIN cart = 1 .. Len(cart) /\ Len(cart) \in Nat
      BY <1>2
    <3>3. lines = [i \in 1 .. Len(cart) |-> OrderLines(cart)[i]]
      BY <3>1, <3>2
    <3>4. lines = OrderLines(cart)
      BY <3>2, <3>3 DEF OrderLines
    <3>5. Len(cart) = items
      BY <2>2, <3>2 DEF SentAlready
    <3> QED
      BY <1>2, <2>2, <3>4, <3>5, OrderLinesOfCart
  <2> QED
    BY <2>1, <2>2
<1>4. visits \in DOMAIN history => copy = history[visits]
  <2> SUFFICES ASSUME visits \in DOMAIN history
               PROVE  copy = history[visits]
    OBVIOUS
  <2>1. /\ history[visits] = [lines |-> history[visits].lines,
                              items |-> history[visits].items,
                              total |-> history[visits].total]
        /\ history[visits].items = Len(history[visits].lines)
        /\ history[visits].total = orders[visits].total
        /\ orderModel.total = orders[visits].total
    BY DEF Documents, CopyTells, SentAlready
  <2> HIDE DEF lines
  <2> QED
    BY <1>3, <2>1
<1> HIDE DEF lines
<1>5. /\ copy = [lines |-> copy.lines, items |-> items, total |-> orderModel.total]
      /\ copy.lines \in Seq(OrderLine) /\ Len(copy.lines) = items
  BY <1>3
<1> HIDE DEF copy
<1>6. /\ DOMAIN HistoryAfter(items) = DOMAIN history \cup {visits}
      /\ HistoryAfter(items)[visits] = copy
      /\ \A d \in DOMAIN history \ {visits} : HistoryAfter(items)[d] = history[d]
  BY <1>1
<1> QED
  BY <1>4, <1>5, <1>6

\* A submission: the same as before for whoever submits again.
LEMMA SubmissionWrites ==
    ASSUME Documents, SentAlready, SubmitTapped
    PROVE  /\ DOMAIN orders' = DOMAIN orders \cup {visits}
           /\ orders'[visits].lines = orderModel.lines
           /\ orders'[visits].total = orderModel.total
           /\ \A d \in DOMAIN orders : /\ orders'[d].lines = orders[d].lines
                                       /\ orders'[d].total = orders[d].total
           /\ \A d \in DOMAIN history : history'[d] = history[d]
           /\ form' \in Form
           /\ DOMAIN history' = IF loggedIn THEN DOMAIN history \cup {visits}
                                            ELSE DOMAIN history
           /\ loggedIn => /\ CopyTells(visits)'
                          /\ form'.items = history'[visits].items
                          /\ cart # << >> => history'[visits].items > 0
           /\ ~ loggedIn => form'.items = form.items
<1> DEFINE items == IF loggedIn /\ cart # << >> THEN Len(cart) ELSE form.items
<1>1. /\ shown = "checkout"
      /\ orders' = SetDoc(orders, visits, OrderDoc)
      /\ history' = IF loggedIn THEN HistoryAfter(items) ELSE history
      /\ form' = [form EXCEPT !.items = items]
      /\ orderModel' = orderModel /\ visits' = visits /\ loggedIn' = loggedIn
  BY DEF SubmitTapped, TapOn, CanTap, customer
<1>2. /\ DOMAIN orders' = DOMAIN orders \cup {visits}
      /\ orders'[visits] = OrderDoc
      /\ \A d \in DOMAIN orders \ {visits} : orders'[d] = orders[d]
  BY <1>1 DEF SetDoc
<1>3. OrderDoc.lines = orderModel.lines /\ OrderDoc.total = orderModel.total
  BY DEF OrderDoc
<1>4. visits \in DOMAIN orders => /\ orderModel.lines = orders[visits].lines
                                  /\ orderModel.total = orders[visits].total
  BY <1>1, Zenon DEF SentAlready
<1>5. \A d \in DOMAIN orders : /\ orders'[d].lines = orders[d].lines
                               /\ orders'[d].total = orders[d].total
  BY <1>2, <1>3, <1>4
<1>6. cart \in Seq(Line) /\ form \in Form /\ loggedIn \in BOOLEAN
  BY DEF Documents, WFCart
<1>7. items \in Nat /\ form' \in Form /\ form'.items = items
  <2>1. items \in Nat
    <3>1. form.items \in Nat
      BY <1>6 DEF Form
    <3>2. Len(cart) \in Nat
      BY <1>6
    <3> QED
      BY <3>1, <3>2, Zenon
  <2> HIDE DEF items
  <2> QED
    BY <1>1, <1>6, <2>1 DEF Form
<1>8. CASE ~ loggedIn
  <2>1. history' = history /\ items = form.items
    BY <1>1, <1>8
  <2> HIDE DEF items
  <2> QED
    BY <1>2, <1>3, <1>5, <1>7, <1>8, <2>1
<1>9. CASE loggedIn
  <2>1. items = IF cart # << >> THEN Len(cart) ELSE form.items
    BY <1>9
  <2>2. cart # << >> => items > 0
    BY <1>6, <1>9
  <2>3. history' = HistoryAfter(items)
    BY <1>1, <1>9
  <2> HIDE DEF items
  <2>4. /\ DOMAIN history' = DOMAIN history \cup {visits}
        /\ \A d \in DOMAIN history \ {visits} : history'[d] = history[d]
        /\ history'[visits] = [lines |-> history'[visits].lines, items |-> items,
                               total |-> orderModel.total]
        /\ history'[visits].lines \in Seq(OrderLine)
        /\ Len(history'[visits].lines) = items
        /\ visits \in DOMAIN history => history'[visits] = history[visits]
    BY <1>1, <2>1, <2>3, LinesOfCopy
  <2>5. /\ history'[visits].items = items
        /\ history'[visits].total = orderModel.total
    BY <2>4
  <2>6. CopyTells(visits)'
    BY <1>1, <1>2, <1>3, <2>4, <2>5 DEF CopyTells
  <2> QED
    BY <1>2, <1>3, <1>5, <1>7, <1>9, <2>2, <2>4, <2>5, <2>6
<1> QED
  BY <1>6, <1>8, <1>9

-----------------------------------------------------------------------------
(***************************************************************************)
(* The documents and what the page would send again.                       *)
(***************************************************************************)
\* The rows and the catalog keep the cart well formed.
LEMMA CartStep ==
    ASSUME Documents
    PROVE  /\ \A t \in Titles, q \in 1 .. MaxQuantity, p \in Prices :
                 AddTapped(t, q, p) => cart' \in WFCart
           /\ \A i \in DOMAIN cart :
                 IncrementTapped(i) \/ DecrementTapped(i) \/ DeleteTapped(i) =>
                     cart' \in WFCart /\ ChangeCart(cart')
<1>1. cart \in WFCart /\ cart \in Seq(Line)
  BY DEF Documents, WFCart
<1>2. ASSUME NEW t \in Titles, NEW q \in 1 .. MaxQuantity, NEW p \in Prices,
             AddTapped(t, q, p)
      PROVE  cart' \in WFCart
  BY <1>1, <1>2, AddKeepsWF DEF AddTapped
<1>3. ASSUME NEW i \in DOMAIN cart,
             IncrementTapped(i) \/ DecrementTapped(i) \/ DeleteTapped(i)
      PROVE  cart' \in WFCart /\ ChangeCart(cart')
  <2> DEFINE less == IF cart[i].quantity > 1 THEN cart[i].quantity - 1
                                             ELSE cart[i].quantity
  <2>1. cart[i].quantity \in 1 .. MaxQuantity
    <3>1. cart[i] \in Line
      BY <1>1
    <3> QED
      BY <3>1 DEF Line
  <2>2. less \in 1 .. MaxQuantity
    BY <2>1, MaxQuantityAssumption
  <2> HIDE DEF less
  <2>3. CASE IncrementTapped(i)
    <3>1. cart[i].quantity + 1 \in 1 .. MaxQuantity
      BY <2>1, <2>3, MaxQuantityAssumption DEF IncrementTapped
    <3> DEFINE c == UpdateQuantity(cart, cart[i].productId, cart[i].quantity + 1)
    <3>2. c \in WFCart
      BY <1>1, <3>1, UpdateKeepsWF
    <3>3. ChangeCart(c)
      BY <2>3 DEF IncrementTapped
    <3> HIDE DEF c
    <3> QED
      BY <3>2, <3>3 DEF ChangeCart
  <2>4. CASE DecrementTapped(i)
    <3> DEFINE c == UpdateQuantity(cart, cart[i].productId, less)
    <3>1. c \in WFCart
      BY <1>1, <2>2, UpdateKeepsWF
    <3>2. ChangeCart(c)
      BY <2>4 DEF DecrementTapped, less
    <3> HIDE DEF c
    <3> QED
      BY <3>1, <3>2 DEF ChangeCart
  <2>5. CASE DeleteTapped(i)
    <3> DEFINE c == RemoveItem(cart, cart[i].productId)
    <3>1. c \in WFCart
      BY <1>1, RemoveKeepsWF
    <3>2. ChangeCart(c)
      BY <2>5 DEF DeleteTapped
    <3> HIDE DEF c
    <3> QED
      BY <3>1, <3>2 DEF ChangeCart
  <2> QED
    BY <1>3, <2>3, <2>4, <2>5
<1> QED
  BY <1>2, <1>3

\* The fields the customer changes leave the counter of lines alone.
LEMMA FormStep ==
    ASSUME form \in Form, EditFields \/ CardBoxTapped \/ CashBoxTapped
    PROVE  form' \in Form /\ form'.items = form.items /\ ChangeForm(form')
<1>1. CASE EditFields
  <2> DEFINE f == [form EXCEPT !.filled = ~ @]
  <2>1. f \in Form /\ f.items = form.items /\ ChangeForm(f)
    BY <1>1 DEF EditFields, Form
  <2> HIDE DEF f
  <2> QED
    BY <2>1 DEF ChangeForm
<1>2. CASE CardBoxTapped
  <2> DEFINE v == ~ form.card
             f == [form EXCEPT !.card = v, !.cash = ~ v, !.payment = "card"]
  <2>1. f \in Form /\ f.items = form.items /\ ChangeForm(f)
    BY <1>2 DEF CardBoxTapped, Form
  <2> HIDE DEF f
  <2> QED
    BY <2>1 DEF ChangeForm
<1>3. CASE CashBoxTapped
  <2> DEFINE v == ~ form.cash
             f == [form EXCEPT !.cash = v, !.card = ~ v, !.payment = "cash"]
  <2>1. f \in Form /\ f.items = form.items /\ ChangeForm(f)
    BY <1>3 DEF CashBoxTapped, Form
  <2> HIDE DEF f
  <2> QED
    BY <2>1 DEF ChangeForm
<1> QED
  BY <1>1, <1>2, <1>3

\* A frame leaves the documents and the cart, and starts a visit with a form
\* that has counted no lines.
LEMMA FrameDraws ==
    ASSUME Documents, SentAlready, Frame
    PROVE  /\ form' \in Form
           /\ visits' \in Nat /\ visits <= visits'
           /\ UNCHANGED <<page, dialog, cart, loggedIn, hurried, orderModel, orders, history>>
           /\ shown' = page /\ taps' = 0
           /\ SentAlready'
<1>1. /\ form \in Form /\ visits \in Nat /\ loggedIn \in BOOLEAN
      /\ DOMAIN orders \subseteq 1 .. visits /\ DOMAIN history \subseteq DOMAIN orders
  BY DEF Documents
<1>2. \A b \in BOOLEAN : FreshForm(b) \in Form /\ FreshForm(b).items = 0
  BY DEF FreshForm, Form
<1>3. /\ UNCHANGED <<page, dialog, cart, loggedIn, hurried, orderModel, orders, history>>
      /\ shown' = page /\ taps' = 0
  BY DEF Frame, customer, orderVars
<1>4. CASE page = "checkout" /\ shown = "checkout"
  <2>1. UNCHANGED <<visits, form>>
    BY <1>4 DEF Frame, CheckoutPageAtFrame
  <2>2. SentAlready'
    BY <1>3, <1>4, <2>1 DEF SentAlready
  <2> QED
    BY <1>1, <1>3, <2>1, <2>2
<1>5. CASE page = "checkout" /\ shown # "checkout"
  <2>1. visits' = visits + 1 /\ form' \in Form /\ form'.items = 0
    BY <1>1, <1>2, <1>5 DEF Frame, CheckoutPageAtFrame
  <2>2. visits' \notin DOMAIN orders /\ visits' # 0
    BY <1>1, <2>1
  <2>3. SentAlready'
    BY <1>1, <1>3, <2>1, <2>2 DEF SentAlready
  <2> QED
    BY <1>1, <1>3, <2>1, <2>3
<1>6. CASE page # "checkout"
  <2>1. visits' = visits /\ form' \in Form /\ form'.items = 0
    BY <1>2, <1>6 DEF Frame, CheckoutPageAtFrame
  <2>2. SentAlready'
    BY <1>3, <1>6, <2>1 DEF SentAlready
  <2> QED
    BY <1>1, <1>3, <2>1, <2>2
<1> QED
  BY <1>4, <1>5, <1>6

\* Steps other than a frame and a submission do not touch the documents.
LEMMA DocumentsKept ==
    ASSUME Documents, cart' \in WFCart, form' \in Form,
           visits' \in Nat, visits <= visits',
           UNCHANGED <<loggedIn, orders, history>>
    PROVE  Documents'
<1>1. \A d \in DOMAIN history : CopyTells(d)'
  BY DEF Documents, CopyTells
<1>2. 1 .. visits \subseteq 1 .. visits'
  BY DEF Documents
<1> QED
  BY <1>1, <1>2 DEF Documents

LEMMA DocumentsStep == CheckoutInv /\ [Next]_vars => Documents' /\ SentAlready'
<1> SUFFICES ASSUME CheckoutInv, [Next]_vars
             PROVE  Documents' /\ SentAlready'
  OBVIOUS
<1>0. Screens /\ Documents /\ SentAlready
  BY DEF CheckoutInv
<1>a. cart \in WFCart /\ form \in Form /\ visits \in Nat /\ visits <= visits
  BY <1>0 DEF Documents
\* Steps that touch neither the cart nor the form.
<1>b. ASSUME UNCHANGED <<shown, cart, loggedIn, form, visits, orders, history>>,
             shown # "checkout" \/ orderModel' = orderModel
      PROVE  Documents' /\ SentAlready'
  BY <1>0, <1>a, <1>b, DocumentsKept DEF SentAlready
\* Steps that change the cart on another page.
<1>c. ASSUME shown # "checkout", cart' \in WFCart,
             UNCHANGED <<shown, loggedIn, form, visits, orders, history>>
      PROVE  Documents' /\ SentAlready'
  BY <1>0, <1>a, <1>c, DocumentsKept DEF SentAlready
<1>1. CASE Frame
  <2>1. SentAlready' /\ cart' \in WFCart
    BY <1>0, <1>1, <1>a, FrameDraws
  <2>2. Documents'
    BY <1>0, <1>1, <2>1, FrameDraws, DocumentsKept
  <2> QED
    BY <2>1, <2>2
<1>2. CASE NoticeRead
  BY <1>2, <1>b DEF NoticeRead, uiVars, cartVars, customer, orderVars
<1>3. ASSUME NEW p \in {"elsewhere", "cart"}, NavTapped(p)
      PROVE  Documents' /\ SentAlready'
  BY <1>3, <1>b DEF NavTapped, cartVars, customer, orderVars
<1>4. ASSUME NEW t \in Titles, NEW q \in 1 .. MaxQuantity, NEW p \in Prices,
             AddTapped(t, q, p)
      PROVE  Documents' /\ SentAlready'
  <2>1. cart' \in WFCart
    BY <1>0, <1>4, CartStep
  <2>2. shown # "checkout" /\ UNCHANGED <<shown, loggedIn, form, visits, orders, history>>
    BY <1>4 DEF AddTapped, TapOn, CanTap, customer, orderVars
  <2> QED
    BY <1>c, <2>1, <2>2
<1>5. ASSUME NEW i \in DOMAIN cart,
             IncrementTapped(i) \/ DecrementTapped(i) \/ DeleteTapped(i)
      PROVE  Documents' /\ SentAlready'
  <2>1. cart' \in WFCart /\ ChangeCart(cart')
    BY <1>0, <1>5, CartStep
  <2>2. shown # "checkout" /\ UNCHANGED <<shown, loggedIn, form, visits, orders, history>>
    BY <2>1 DEF ChangeCart, TapOn, CanTap, customer, orderVars
  <2> QED
    BY <1>c, <2>1, <2>2
<1>6. CASE CheckoutTapped
  <2>1. shown # "checkout"
    BY <1>6 DEF CheckoutTapped, TapOn, CanTap
  <2> QED
    BY <1>6, <1>b, <2>1 DEF CheckoutTapped, customer
<1>7. ASSUME NEW never \in BOOLEAN, AgreeTapped(never)
      PROVE  Documents' /\ SentAlready'
  <2>1. shown # "checkout"
    BY <1>0, <1>7 DEF AgreeTapped, TapInDialog, Screens
  <2> QED
    BY <1>7, <1>b, <2>1 DEF AgreeTapped, customer
<1>8. CASE CancelTapped
  BY <1>8, <1>b DEF CancelTapped, cartVars, customer, orderVars
<1>9. CASE EditFields \/ CardBoxTapped \/ CashBoxTapped
  <2>1. form' \in Form /\ form'.items = form.items /\ ChangeForm(form')
    BY <1>9, <1>a, FormStep
  <2>2. UNCHANGED <<shown, cart, loggedIn, orderModel, visits, orders, history>>
    BY <2>1 DEF ChangeForm, cartVars, customer, orderVars
  <2>3. Documents'
    BY <1>0, <1>a, <2>1, <2>2, DocumentsKept
  <2>4. SentAlready'
    BY <1>0, <2>1, <2>2 DEF SentAlready
  <2> QED
    BY <2>3, <2>4
<1>10. CASE BackTapped
  BY <1>10, <1>b DEF BackTapped, cartVars, customer, orderVars
<1>11. CASE SubmitTapped
  <2>1. /\ shown = "checkout"
        /\ UNCHANGED <<shown, loggedIn, orderModel, visits>> /\ cart' = << >>
        /\ loggedIn \in BOOLEAN /\ visits \in Nat /\ visits # 0
    BY <1>0, <1>11, <1>a DEF SubmitTapped, TapOn, CanTap, customer, Documents, SentAlready
  <2>2. /\ DOMAIN orders' = DOMAIN orders \cup {visits}
        /\ orders'[visits].lines = orderModel.lines
        /\ orders'[visits].total = orderModel.total
        /\ \A d \in DOMAIN orders : /\ orders'[d].lines = orders[d].lines
                                    /\ orders'[d].total = orders[d].total
        /\ \A d \in DOMAIN history : history'[d] = history[d]
        /\ form' \in Form
        /\ DOMAIN history' = IF loggedIn THEN DOMAIN history \cup {visits}
                                         ELSE DOMAIN history
        /\ loggedIn => /\ CopyTells(visits)'
                       /\ form'.items = history'[visits].items
        /\ ~ loggedIn => form'.items = form.items
    BY <1>0, <1>11, SubmissionWrites
  <2>3. \A d \in DOMAIN history' : CopyTells(d)'
    <3> SUFFICES ASSUME NEW d \in DOMAIN history'
                 PROVE  CopyTells(d)'
      OBVIOUS
    <3>1. d \in DOMAIN history \/ (loggedIn /\ d = visits)
      BY <2>2, Zenon
    <3>2. CASE d \in DOMAIN history
      <4>1. CopyTells(d) /\ d \in DOMAIN orders
        BY <1>0, <3>2 DEF Documents
      <4>2. history'[d] = history[d] /\ orders'[d].total = orders[d].total
        BY <2>2, <3>2, <4>1
      <4> QED
        BY <4>1, <4>2 DEF CopyTells
    <3>3. CASE loggedIn /\ d = visits
      BY <2>1, <2>2, <3>3 DEF CopyTells
    <3> QED
      BY <3>1, <3>2, <3>3
  <2>4. DOMAIN history' \subseteq DOMAIN orders' /\ DOMAIN orders' \subseteq 1 .. visits'
    <3>1. DOMAIN history' \subseteq DOMAIN history \cup {visits}
      BY <2>2, Zenon
    <3> QED
      BY <1>0, <2>1, <2>2, <3>1 DEF Documents
  <2>5. Documents'
    BY <2>1, <2>2, <2>3, <2>4, EmptyIsWF DEF Documents
  <2> DEFINE Counted ==
           /\ visits \notin DOMAIN history' => form'.items = 0
           /\ visits \in DOMAIN history' => form'.items = history'[visits].items
  <2>6. ASSUME loggedIn
        PROVE  Counted
    <3>1. visits \in DOMAIN history' /\ form'.items = history'[visits].items
      BY <2>2, <2>6
    <3> QED
      BY <3>1
  <2>7. ASSUME ~ loggedIn
        PROVE  Counted
    <3>1. /\ DOMAIN history' = DOMAIN history
          /\ visits \in DOMAIN history => history'[visits] = history[visits]
          /\ form'.items = form.items
      BY <2>2, <2>7, Zenon
    <3>2. /\ visits \notin DOMAIN history => form.items = 0
          /\ visits \in DOMAIN history => form.items = history[visits].items
      BY <1>0, <2>1, Zenon DEF SentAlready
    <3> QED
      BY <3>1, <3>2
  <2>8. Counted
    BY <2>6, <2>7
  <2>9. SentAlready'
    BY <2>1, <2>2, <2>8 DEF SentAlready
  <2> QED
    BY <2>5, <2>9
<1>12. CASE UNCHANGED vars
  BY <1>12, <1>b DEF vars, customer
<1> QED
  BY <1>1, <1>2, <1>3, <1>4, <1>5, <1>6, <1>7, <1>8, <1>9, <1>10, <1>11, <1>12 DEF Next

-----------------------------------------------------------------------------
(***************************************************************************)
(* A customer who waits for every frame.                                   *)
(***************************************************************************)

\* Whoever waits taps on the page last asked for, with no dialog over it.
LEMMA WaitingTap ==
    ASSUME Screens, Patient, ~ hurried, NEW p, CanTap(p)
    PROVE  taps = 0 /\ page = p /\ shown = p /\ ~ dialog /\ ~ drawnDialog
<1>1. TapLimit = 1
  BY LimitIsPositive DEF Screens
<1>2. taps = 0
  BY <1>1 DEF Screens, CanTap
<1>3. page = shown /\ (dialog <=> drawnDialog)
  BY <1>2 DEF Patient
<1> QED
  BY <1>2, <1>3 DEF CanTap

\* Handing the cart over.
LEMMA OrderIsTheCart ==
    ASSUME Documents, itemsOrder = << >>, total = Discount(cart), PlaceOrder
    PROVE  /\ page' = "checkout"
           /\ orderModel'.lines = OrderLines(cart)
           /\ orderModel'.total = Discount(cart)
<1>1. cart \in Seq(Line)
  BY DEF Documents, WFCart
<1>2. << >> \o OrderLines(cart) = OrderLines(cart)
  BY <1>1, OrderLinesOfCart
<1> QED
  BY <1>2 DEF PlaceOrder

LEMMA PatientStep == CheckoutInv /\ [Next]_vars => Patient'
<1> SUFFICES ASSUME CheckoutInv, [Next]_vars, ~ hurried'
             PROVE  Patient'
  BY DEF Patient
<1>0. Screens /\ Documents /\ SentAlready /\ Patient
  BY DEF CheckoutInv
<1>h. hurried' = hurried /\ ~ hurried
  <2>1. hurried' = hurried
    BY DEF Next, Frame, NoticeRead, NavTapped, AddTapped, IncrementTapped,
           DecrementTapped, DeleteTapped, ChangeCart, CheckoutTapped, AgreeTapped,
           CancelTapped, EditFields, CardBoxTapped, CashBoxTapped, ChangeForm,
           BackTapped, SubmitTapped, vars, customer
  <2> QED
    BY <2>1
<1>p. /\ taps = 0 => page = shown /\ (dialog <=> drawnDialog)
      /\ page = "checkout" => /\ cart # << >>
                              /\ orderModel.lines = OrderLines(cart)
                              /\ orderModel.total = Discount(cart)
      /\ shown = "cart" /\ page = "cart" => itemsOrder = << >> /\ total = Discount(cart)
      /\ dialog => shown = "cart" /\ page = "cart" /\ cart # << >>
      /\ \A d \in DOMAIN history : history[d].items > 0
  BY <1>0, <1>h DEF Patient
<1>t. \A p : CanTap(p) => taps = 0 /\ page = p /\ shown = p /\ ~ dialog /\ ~ drawnDialog
  BY <1>0, <1>h, WaitingTap
<1>n. taps \in Nat
  BY <1>0 DEF Screens
\* Steps that leave the screen and the carts.
<1>a. ASSUME UNCHANGED <<page, shown, dialog, drawnDialog, taps, cart, itemsOrder, total,
                         orderModel, history>>
      PROVE  Patient'
  BY <1>a, <1>p DEF Patient
\* A tap after which no page but the catalog is asked for, or that leaves the page.
<1>b. ASSUME NEW p, TapOn(p), UNCHANGED <<shown, dialog, drawnDialog, orderModel, history>>,
             \/ page' = "elsewhere"
             \/ page' = "cart" /\ p # "cart"
             \/ page' = page /\ UNCHANGED <<cart, itemsOrder, total>>
             \/ page' = page /\ p = "elsewhere"
             \/ page' = page /\ p = "cart" /\ itemsOrder' = itemsOrder /\ total' = Discount(cart')
      PROVE  Patient'
  <2>1. /\ taps = 0 /\ page = p /\ shown = p /\ ~ dialog /\ ~ drawnDialog /\ taps' = 1
    BY <1>b, <1>t DEF TapOn
  <2>2. ~ dialog' /\ shown' = p /\ taps' # 0
    BY <1>b, <2>1
  <2> QED
    BY <1>b, <1>p, <2>1, <2>2 DEF Patient
<1>1. CASE Frame
  <2>1. /\ UNCHANGED <<page, dialog, cart, orderModel, history>>
        /\ shown' = page /\ taps' = 0
    BY <1>0, <1>1, FrameDraws
  <2>2. (drawnDialog' <=> dialog) /\ CartPageAtFrame
    BY <1>1 DEF Frame
  <2>3. page = "cart" => itemsOrder' = << >> /\ total' = Discount(cart)
    BY <1>p, <2>2 DEF CartPageAtFrame
  <2>4. dialog' <=> dialog
    BY <2>1
  <2> QED
    BY <1>p, <2>1, <2>2, <2>3, <2>4 DEF Patient
<1>2. CASE NoticeRead
  BY <1>2, <1>a DEF NoticeRead, uiVars, cartVars, orderVars
<1>3. ASSUME NEW p \in {"elsewhere", "cart"}, NavTapped(p)
      PROVE  Patient'
  <2>1. TapOn(shown) /\ page' = p /\ UNCHANGED <<shown, dialog, drawnDialog, cart,
                                   itemsOrder, total, orderModel, history>>
    BY <1>3 DEF NavTapped, cartVars, orderVars
  <2>2. page = shown
    BY <1>t, <2>1 DEF TapOn
  <2> QED
    BY <1>3, <1>b, <2>1, <2>2
<1>4. ASSUME NEW t \in Titles, NEW q \in 1 .. MaxQuantity, NEW p \in Prices,
             AddTapped(t, q, p)
      PROVE  Patient'
  BY <1>4, <1>b DEF AddTapped, orderVars
<1>5. ASSUME NEW i \in DOMAIN cart,
             IncrementTapped(i) \/ DecrementTapped(i) \/ DeleteTapped(i)
      PROVE  Patient'
  <2>1. ChangeCart(cart')
    BY <1>0, <1>5, CartStep
  <2> QED
    BY <1>b, <2>1 DEF ChangeCart, orderVars
<1>6. CASE CheckoutTapped
  <2>1. /\ cart # << >> /\ CanTap("cart")
        /\ UNCHANGED <<shown, drawnDialog, cart, total, history>>
    BY <1>6 DEF CheckoutTapped, TapOn
  <2>2. /\ taps = 0 /\ page = "cart" /\ shown = "cart" /\ ~ dialog /\ ~ drawnDialog
        /\ itemsOrder = << >> /\ total = Discount(cart)
    BY <1>p, <1>t, <2>1
  <2>3. CASE Absorb /\ UNCHANGED <<page, itemsOrder, orderModel>>
    <3>1. taps' # 0
      BY <1>0, <2>3, LimitIsPositive DEF Absorb, Screens
    <3> QED
      BY <1>p, <2>1, <2>2, <2>3, <3>1 DEF Patient
  <2>4. CASE TapOn("cart") /\ PlaceOrder /\ UNCHANGED dialog
    <3>1. taps' # 0 /\ ~ dialog'
      BY <2>2, <2>4 DEF TapOn
    <3>2. /\ page' = "checkout" /\ orderModel'.lines = OrderLines(cart)
          /\ orderModel'.total = Discount(cart)
      BY <1>0, <2>2, <2>4, OrderIsTheCart
    <3> QED
      BY <1>p, <2>1, <3>1, <3>2 DEF Patient
  <2> QED
    BY <1>6, <2>3, <2>4 DEF CheckoutTapped
<1>7. ASSUME NEW never \in BOOLEAN, AgreeTapped(never)
      PROVE  Patient'
  <2>1. /\ dialog /\ PlaceOrder /\ Absorb /\ ~ dialog'
        /\ UNCHANGED <<shown, drawnDialog, cart, total, history>>
    BY <1>7 DEF AgreeTapped, TapInDialog
  <2>2. taps' # 0
    BY <1>0, <2>1, LimitIsPositive DEF Absorb, Screens
  <2>3. cart # << >> /\ itemsOrder = << >> /\ total = Discount(cart)
    BY <1>p, <2>1
  <2>4. /\ page' = "checkout" /\ orderModel'.lines = OrderLines(cart)
        /\ orderModel'.total = Discount(cart)
    BY <1>0, <2>1, <2>3, OrderIsTheCart
  <2> QED
    BY <1>p, <2>1, <2>2, <2>3, <2>4 DEF Patient
<1>8. CASE CancelTapped
  <2>1. /\ dialog /\ Absorb /\ ~ dialog'
        /\ UNCHANGED <<page, shown, drawnDialog, cart, itemsOrder, total, orderModel, history>>
    BY <1>8 DEF CancelTapped, TapInDialog, cartVars, orderVars
  <2>2. taps' # 0
    BY <1>0, <2>1, LimitIsPositive DEF Absorb, Screens
  <2> QED
    BY <1>p, <2>1, <2>2 DEF Patient
<1>9. CASE EditFields \/ CardBoxTapped \/ CashBoxTapped
  <2>1. ChangeForm(form')
    BY <1>0, <1>9, FormStep DEF Documents
  <2> QED
    BY <1>b, <2>1 DEF ChangeForm, cartVars, orderVars
<1>10. CASE BackTapped
  BY <1>10, <1>b DEF BackTapped, orderVars
<1>11. CASE SubmitTapped
  <2>1. /\ CanTap("checkout") /\ taps' = taps + 1 /\ page' = "elsewhere"
        /\ UNCHANGED <<shown, dialog>>
    BY <1>11 DEF SubmitTapped, TapOn
  <2>2. taps = 0 /\ ~ dialog /\ page = "checkout" /\ cart # << >>
    BY <1>p, <1>t, <2>1
  <2>3. taps' # 0 /\ ~ dialog'
    BY <2>1, <2>2
  <2>4. /\ \A d \in DOMAIN history : history'[d] = history[d]
        /\ DOMAIN history' = IF loggedIn THEN DOMAIN history \cup {visits}
                                         ELSE DOMAIN history
        /\ loggedIn => history'[visits].items > 0
    BY <1>0, <1>11, <2>2, SubmissionWrites
  <2>5. \A d \in DOMAIN history' : d \in DOMAIN history \/ (loggedIn /\ d = visits)
    BY <2>4, Zenon
  <2>6. \A d \in DOMAIN history' : history'[d].items > 0
    BY <1>p, <2>4, <2>5
  <2> QED
    BY <2>1, <2>3, <2>6 DEF Patient
<1>12. CASE UNCHANGED vars
  BY <1>12, <1>a DEF vars
<1> QED
  BY <1>1, <1>2, <1>3, <1>4, <1>5, <1>6, <1>7, <1>8, <1>9, <1>10, <1>11, <1>12 DEF Next

THEOREM CheckoutInvHolds == Spec => []CheckoutInv
<1>1. CheckoutInv /\ [Next]_vars => CheckoutInv'
  BY ScreensStep, DocumentsStep, PatientStep DEF CheckoutInv
<1> QED
  BY <1>1, InitInv, PTL DEF Spec

-----------------------------------------------------------------------------
\* The sum the checkout page shows is the one the order will carry.
THEOREM ConfirmedSumAlwaysSent == Spec => []ConfirmedSumIsSent
<1>1. CheckoutInv => ConfirmedSumIsSent
  BY DEF CheckoutInv, Patient, ConfirmedSumIsSent
<1> QED
  BY <1>1, CheckoutInvHolds, PTL

\* A logged-in customer's copy agrees with the shop's document in its total and
\* with its own lines in its counter.
THEOREM HistoryAlwaysTells == Spec => []HistoryTellsTheOrder
<1>1. CheckoutInv => HistoryTellsTheOrder
  BY DEF CheckoutInv, Patient, Documents, CopyTells, HistoryTellsTheOrder
<1> QED
  BY <1>1, CheckoutInvHolds, PTL

\* Only a submission writes a document.
LEMMA OnlySubmissionWrites ==
    ASSUME [Next]_vars, ~ SubmitTapped
    PROVE  orders' = orders /\ history' = history
  BY DEF Next, Frame, NoticeRead, NavTapped, AddTapped, IncrementTapped,
         DecrementTapped, DeleteTapped, ChangeCart, CheckoutTapped, AgreeTapped,
         CancelTapped, EditFields, CardBoxTapped, CashBoxTapped, ChangeForm,
         BackTapped, vars, orderVars

\* An order lists the cart that was on the screen, and carries its total.
THEOREM OrdersSayTheCart == Spec => OrderSaysWhatTheCartHeld
<1> DEFINE A == ~ hurried => \A d \in DOMAIN orders' \ DOMAIN orders :
                   /\ cart # << >>
                   /\ orders'[d].lines = OrderLines(cart)
                   /\ orders'[d].total = Discount(cart)
<1>1. CheckoutInv /\ [Next]_vars => A
  <2> SUFFICES ASSUME CheckoutInv, [Next]_vars, ~ hurried,
                      NEW d \in DOMAIN orders' \ DOMAIN orders
               PROVE  /\ cart # << >>
                      /\ orders'[d].lines = OrderLines(cart)
                      /\ orders'[d].total = Discount(cart)
    OBVIOUS
  <2>1. SubmitTapped
    BY OnlySubmissionWrites
  <2>2. Screens /\ Documents /\ SentAlready /\ Patient
    BY DEF CheckoutInv
  <2>3. CanTap("checkout")
    BY <2>1 DEF SubmitTapped, TapOn
  <2>4. page = "checkout"
    BY <2>2, <2>3, WaitingTap
  <2>5. /\ cart # << >>
        /\ orderModel.lines = OrderLines(cart) /\ orderModel.total = Discount(cart)
    BY <2>2, <2>4 DEF Patient
  <2>6. /\ d = visits
        /\ orders'[visits].lines = orderModel.lines
        /\ orders'[visits].total = orderModel.total
    BY <2>1, <2>2, SubmissionWrites
  <2> QED
    BY <2>5, <2>6
<1> QED
  BY <1>1, CheckoutInvHolds, PTL DEF Spec, OrderSaysWhatTheCartHeld

\* Submitting again writes what is already there.
THEOREM SubmittingAgainIsHarmless == Spec => ResubmissionChangesNothing
<1> DEFINE A == /\ \A d \in DOMAIN orders : /\ orders'[d].lines = orders[d].lines
                                            /\ orders'[d].total = orders[d].total
                /\ \A d \in DOMAIN history : history'[d] = history[d]
<1>1. CheckoutInv /\ [Next]_vars => A
  <2> SUFFICES ASSUME CheckoutInv, [Next]_vars
               PROVE  A
    OBVIOUS
  <2>1. CASE SubmitTapped
    BY <2>1, SubmissionWrites DEF CheckoutInv
  <2>2. CASE ~ SubmitTapped
    BY <2>2, OnlySubmissionWrites
  <2> QED
    BY <2>1, <2>2
<1> QED
  BY <1>1, CheckoutInvHolds, PTL DEF Spec, ResubmissionChangesNothing

-----------------------------------------------------------------------------
(***************************************************************************)
(* The types of what the pages carry: whatever was collected, taken and    *)
(* handed over comes from the cart, whose total is a natural number.  The  *)
(* bound on the visits is kept because a page that was asked for is drawn  *)
(* before it can be asked for again.                                       *)
(***************************************************************************)
PageTypes ==
    /\ page \in Pages /\ shown \in Pages
    /\ notice \in {"on", "turningOff", "off"}
    /\ itemsOrder \in Seq(OrderLine) /\ total \in Nat
    /\ orderModel \in OrderModel
    /\ visits <= MaxVisits
    /\ page = "checkout" /\ shown # "checkout" => visits < MaxVisits

\* Handing the cart over keeps the types.
LEMMA PlaceOrderTypes ==
    ASSUME PageTypes, cart \in Seq(Line), PlaceOrder
    PROVE  /\ page' \in Pages /\ visits < MaxVisits
           /\ itemsOrder' \in Seq(OrderLine)
           /\ orderModel' \in OrderModel
<1>1. OrderLines(cart) \in Seq(OrderLine)
  BY OrderLinesOfCart
<1>2. itemsOrder' \in Seq(OrderLine)
  BY <1>1 DEF PlaceOrder, PageTypes
<1>3. orderModel' \in OrderModel
  BY <1>2 DEF PlaceOrder, PageTypes, OrderModel
<1> QED
  BY <1>2, <1>3 DEF PlaceOrder, Pages

LEMMA PageTypesInit == Init => PageTypes
<1> SUFFICES ASSUME Init
             PROVE  PageTypes
  OBVIOUS
<1>1. /\ page = "elsewhere" /\ shown = "elsewhere" /\ notice \in {"on", "off"}
      /\ itemsOrder = << >> /\ total = 0 /\ visits = 0
      /\ orderModel = [lines |-> << >>, total |-> 0]
  BY DEF Init
<1>2. orderModel \in OrderModel /\ itemsOrder \in Seq(OrderLine)
  BY <1>1 DEF OrderModel
<1> QED
  BY <1>1, <1>2, MaxVisitsAssumption DEF PageTypes, Pages

LEMMA PageTypesStep == CheckoutInv /\ PageTypes /\ [Next]_vars => PageTypes'
<1> SUFFICES ASSUME CheckoutInv, PageTypes, [Next]_vars
             PROVE  PageTypes'
  OBVIOUS
<1>0. Screens /\ Documents /\ SentAlready
  BY DEF CheckoutInv
<1>c. cart \in WFCart /\ cart \in Seq(Line) /\ visits \in Nat
  BY <1>0 DEF Documents, WFCart
\* Steps that ask for no checkout page and leave what the pages carry.
<1>a. ASSUME UNCHANGED <<shown, itemsOrder, total, orderModel, visits>>,
             page' = page \/ page' \in {"elsewhere", "cart"},
             notice' \in {"on", "turningOff", "off"}
      PROVE  PageTypes'
  BY <1>a DEF PageTypes, Pages
<1>n. notice \in {"on", "turningOff", "off"}
  BY DEF PageTypes
<1>1. CASE Frame
  <2>1. UNCHANGED <<page, orderModel, notice>> /\ shown' = page
    BY <1>1 DEF Frame, orderVars
  <2>2. itemsOrder' \in Seq(OrderLine) /\ total' \in Nat
    <3>1. Discount(cart) \in Nat /\ 0 \in Nat /\ << >> \in Seq(OrderLine)
      BY <1>c, DiscountIsNat
    <3>2. \/ itemsOrder' = itemsOrder /\ total' = total
          \/ itemsOrder' = << >> /\ (total' = Discount(cart) \/ total' = 0)
      <4>1. \/ UNCHANGED <<itemsOrder, total>>
            \/ itemsOrder' = << >> /\ (total' = Discount(cart) \/ total' = 0)
        BY <1>1, Zenon DEF Frame, CartPageAtFrame
      <4> QED
        BY <4>1
    <3>3. itemsOrder \in Seq(OrderLine) /\ total \in Nat
      BY DEF PageTypes
    <3> QED
      BY <3>1, <3>2, <3>3, Zenon
  <2>3. visits' <= MaxVisits
    <3>1. CheckoutPageAtFrame
      BY <1>1 DEF Frame
    <3>2. \/ visits' = visits
          \/ page = "checkout" /\ shown # "checkout" /\ visits' = visits + 1
      BY <3>1 DEF CheckoutPageAtFrame
    <3> QED
      BY <1>c, <3>2, MaxVisitsAssumption DEF PageTypes
  <2> QED
    BY <2>1, <2>2, <2>3 DEF PageTypes
<1>2. CASE NoticeRead
  BY <1>2, <1>a DEF NoticeRead, uiVars, cartVars, orderVars
<1>3. ASSUME NEW p \in {"elsewhere", "cart"}, NavTapped(p)
      PROVE  PageTypes'
  BY <1>3, <1>a, <1>n DEF NavTapped, cartVars, orderVars
<1>4. ASSUME NEW t \in Titles, NEW q \in 1 .. MaxQuantity, NEW p \in Prices,
             AddTapped(t, q, p)
      PROVE  PageTypes'
  BY <1>4, <1>a, <1>n DEF AddTapped, orderVars
<1>5. ASSUME NEW i \in DOMAIN cart,
             IncrementTapped(i) \/ DecrementTapped(i) \/ DeleteTapped(i)
      PROVE  PageTypes'
  <2>1. cart' \in WFCart /\ ChangeCart(cart')
    BY <1>0, <1>5, CartStep
  <2>2. total' = Discount(cart')
        /\ UNCHANGED <<page, shown, itemsOrder, orderModel, notice, visits>>
    BY <2>1 DEF ChangeCart, orderVars
  <2>3. total' \in Nat
    <3> DEFINE c == cart'
    <3>1. c \in Seq(Line) /\ total' = Discount(c)
      BY <2>1, <2>2 DEF WFCart
    <3> HIDE DEF c
    <3> QED
      BY <3>1, DiscountIsNat
  <2> QED
    BY <2>2, <2>3 DEF PageTypes
<1>6. CASE CheckoutTapped
  <2>1. UNCHANGED <<shown, total, notice, visits>>
    BY <1>6 DEF CheckoutTapped
  <2>2. CASE UNCHANGED <<page, itemsOrder, orderModel>>
    BY <1>a, <1>n, <2>1, <2>2
  <2>3. CASE PlaceOrder
    BY <1>c, <2>1, <2>3, PlaceOrderTypes DEF PageTypes
  <2> QED
    BY <1>6, <2>2, <2>3 DEF CheckoutTapped
<1>7. ASSUME NEW never \in BOOLEAN, AgreeTapped(never)
      PROVE  PageTypes'
  <2>1. UNCHANGED <<shown, total, visits>> /\ PlaceOrder
        /\ notice' = IF never /\ notice = "on" THEN "turningOff" ELSE notice
    BY <1>7 DEF AgreeTapped
  <2>2. notice' \in {"on", "turningOff", "off"}
    BY <1>n, <2>1
  <2> QED
    BY <1>c, <2>1, <2>2, PlaceOrderTypes DEF PageTypes
<1>8. CASE CancelTapped
  BY <1>8, <1>a, <1>n DEF CancelTapped, cartVars, orderVars
<1>9. CASE EditFields \/ CardBoxTapped \/ CashBoxTapped
  <2>1. ChangeForm(form')
    BY <1>0, <1>9, FormStep DEF Documents
  <2> QED
    BY <1>a, <1>n, <2>1 DEF ChangeForm, cartVars, orderVars
<1>10. CASE BackTapped
  BY <1>10, <1>a, <1>n DEF BackTapped, cartVars, orderVars
<1>11. CASE SubmitTapped
  BY <1>11, <1>a, <1>n DEF SubmitTapped
<1>12. CASE UNCHANGED vars
  BY <1>12, <1>a, <1>n DEF vars
<1> QED
  BY <1>1, <1>2, <1>3, <1>4, <1>5, <1>6, <1>7, <1>8, <1>9, <1>10, <1>11, <1>12 DEF Next

\* Every variable keeps its type: the total of the page and of the order stay
\* natural numbers, the lines handed over are lines of an order, and documents
\* are written under dates of visits only.
THEOREM TypesAlwaysHold == Spec => []TypeOK
<1>1. CheckoutInv /\ PageTypes => TypeOK
  <2> SUFFICES ASSUME CheckoutInv, PageTypes
               PROVE  TypeOK
    OBVIOUS
  <2>1. Screens /\ Documents
    BY DEF CheckoutInv
  <2>2. dialog \in BOOLEAN /\ drawnDialog \in BOOLEAN /\ hurried \in BOOLEAN
    BY <2>1 DEF Screens
  <2>3. loggedIn \in BOOLEAN
    BY <2>1 DEF Documents
  <2>4. taps \in 0 .. TapLimit
    <3>1. taps \in Nat /\ taps <= TapLimit /\ TapLimit \in Nat
      BY <2>1, <2>2, LimitIsPositive DEF Screens
    <3> QED
      BY <3>1
  <2>5. cart \in Seq(Line) /\ form \in Form
    BY <2>1 DEF Documents, WFCart
  <2>6. visits \in 0 .. MaxVisits
    <3>1. visits \in Nat /\ visits <= MaxVisits
      BY <2>1 DEF Documents, PageTypes
    <3> QED
      BY <3>1, MaxVisitsAssumption
  <2>7. DOMAIN orders \subseteq 1 .. visits /\ DOMAIN history \subseteq DOMAIN orders
    BY <2>1 DEF Documents
  <2>8. /\ page \in Pages /\ shown \in Pages
        /\ itemsOrder \in Seq(OrderLine) /\ total \in Nat
        /\ notice \in {"on", "turningOff", "off"}
        /\ orderModel \in OrderModel
    BY DEF PageTypes
  <2> QED
    BY <2>2, <2>3, <2>4, <2>5, <2>6, <2>7, <2>8, Zenon DEF TypeOK
<1> QED
  BY <1>1, CheckoutInvHolds, PageTypesInit, PageTypesStep, PTL DEF Spec

-----------------------------------------------------------------------------
(***************************************************************************)
(* Checkout implements Purchase.  Only a submission makes an order; for a  *)
(* customer who waits it is the first one of its visit, over a cart that   *)
(* was handed over as it is.                                               *)
(***************************************************************************)
LEMMA CustomersStay ==
    ASSUME [Next]_vars
    PROVE  hurried' = hurried /\ loggedIn' = loggedIn
  BY DEF Next, Frame, NoticeRead, NavTapped, AddTapped, IncrementTapped,
         DecrementTapped, DeleteTapped, ChangeCart, CheckoutTapped, AgreeTapped,
         CancelTapped, EditFields, CardBoxTapped, CashBoxTapped, ChangeForm,
         BackTapped, SubmitTapped, vars, customer

\* Nothing costs nothing.
LEMMA EmptyTotal == OrderLines(<< >>) = << >> /\ Discount(<< >>) = 0
<1>1. << >> \in Seq(Line)
  OBVIOUS
<1>2. OrderLines(<< >>) = << >>
  BY DEF OrderLines
<1>3. PICK W : SumsAmounts(<< >>, W)
  BY <1>1, AmountsHaveASum
<1>4. Discount(<< >>) = W[DOMAIN << >>]
  BY <1>1, <1>3, DiscountIsSum
<1>5. DOMAIN << >> = {}
  OBVIOUS
<1>6. W[{}] = 0
  BY <1>3 DEF SumsAmounts
<1> QED
  BY <1>2, <1>4, <1>5, <1>6

\* The first copy of a visit has the lines of the cart and nothing else.
LEMMA FirstCopy ==
    ASSUME Documents, visits \notin DOMAIN history, NEW items
    PROVE  HistoryAfter(items)[visits].lines = OrderLines(cart)
<1> DEFINE old   == IF visits \in DOMAIN history THEN history[visits].lines ELSE << >>
           lines == [i \in DOMAIN old \cup DOMAIN cart |->
                       IF i \in DOMAIN cart THEN OrderLines(cart)[i] ELSE old[i]]
           copy  == [lines |-> lines, items |-> items, total |-> orderModel.total]
<1>1. HistoryAfter(items) = [e \in DOMAIN history \cup {visits} |->
                               IF e = visits THEN copy ELSE history[e]]
  BY DEF HistoryAfter, SetDoc
<1>2. cart \in Seq(Line)
  BY DEF Documents, WFCart
<1>3. DOMAIN old \cup DOMAIN cart = DOMAIN cart
  OBVIOUS
<1>4. lines = [i \in DOMAIN cart |-> OrderLines(cart)[i]]
  BY <1>3
<1>5. lines = OrderLines(cart)
  BY <1>4 DEF OrderLines
<1> HIDE DEF lines
<1>6. copy.lines = lines
  OBVIOUS
<1> HIDE DEF copy
<1>7. HistoryAfter(items)[visits] = copy
  BY <1>1
<1> QED
  BY <1>5, <1>6, <1>7

\* What a waiting customer's submission adds to the order's and the customer's
\* documents.
LEMMA SubmissionBuys ==
    ASSUME CheckoutInv, ~ hurried, SubmitTapped
    PROVE  /\ cart # << >> /\ visits \notin DOMAIN orders /\ visits \notin DOMAIN history
           /\ visits \in Nat /\ visits # 0
           /\ orders'[visits].lines = OrderLines(cart)
           /\ orders'[visits].total = Discount(cart)
           /\ loggedIn => /\ history'[visits].lines = OrderLines(cart)
                          /\ history'[visits].total = Discount(cart)
<1>1. Screens /\ Documents /\ SentAlready /\ Patient
  BY DEF CheckoutInv
<1>2. CanTap("checkout")
  BY DEF SubmitTapped, TapOn
<1>3. page = "checkout" /\ shown = "checkout"
  BY <1>1, <1>2, WaitingTap
<1>4. /\ cart # << >>
      /\ orderModel.lines = OrderLines(cart) /\ orderModel.total = Discount(cart)
  BY <1>1, <1>3 DEF Patient
<1>5. visits \notin DOMAIN orders /\ visits # 0 /\ visits \in Nat
  <2>1. visits \in DOMAIN orders => cart = << >>
    BY <1>1, <1>3, Zenon DEF SentAlready
  <2>2. visits # 0
    BY <1>1, <1>3, Zenon DEF SentAlready
  <2>3. visits \in Nat
    BY <1>1, Zenon DEF Documents
  <2> QED
    BY <1>4, <2>1, <2>2, <2>3
<1>6. visits \notin DOMAIN history
  <2>1. DOMAIN history \subseteq DOMAIN orders
    BY <1>1, Zenon DEF Documents
  <2> QED
    BY <1>5, <2>1
<1>7. orders'[visits].lines = orderModel.lines /\ orders'[visits].total = orderModel.total
  BY <1>1, SubmissionWrites
<1>8. ASSUME loggedIn
      PROVE  history'[visits].lines = OrderLines(cart) /\ history'[visits].total = Discount(cart)
  <2>1. PICK items : history' = HistoryAfter(items)
    BY <1>8 DEF SubmitTapped
  <2>2. history'[visits].lines = OrderLines(cart)
    BY <1>1, <1>6, <2>1, FirstCopy
  <2>3. CopyTells(visits)'
    BY <1>1, <1>8, SubmissionWrites
  <2>4. visits' = visits
    BY DEF SubmitTapped
  <2>5. history'[visits].total = orders'[visits].total
    BY <2>3, <2>4 DEF CopyTells
  <2> QED
    BY <1>4, <1>7, <2>2, <2>5
<1> QED
  BY <1>4, <1>5, <1>6, <1>7, <1>8

\* Filing one more document is filing its sale.
LEMMA FilingASale ==
    ASSUME NEW docs, NEW docs2, NEW d, ~ hurried,
           DOMAIN docs2 = DOMAIN docs \cup {d},
           \A e \in DOMAIN docs : Sale(docs2[e]) = Sale(docs[e]),
           d \notin DOMAIN docs, Sale(docs2[d]) = Basket
    PROVE  Sales(docs2) = Purchases!Filed(Sales(docs), d)
<1> DEFINE old == [e \in DOMAIN docs |-> Sale(docs[e])]
           new == [e \in DOMAIN docs2 |-> Sale(docs2[e])]
<1>1. Sales(docs) = old /\ Sales(docs2) = new
  BY DEF Sales
<1>2. \A e \in DOMAIN docs2 : new[e] = IF e = d THEN Basket ELSE old[e]
  OBVIOUS
<1>3. DOMAIN new = DOMAIN old \cup {d} /\ DOMAIN new = DOMAIN docs2
  OBVIOUS
<1>4. new = [e \in DOMAIN new |-> new[e]]
  OBVIOUS
<1> HIDE DEF old, new
<1>5. new = [e \in DOMAIN old \cup {d} |-> IF e = d THEN Basket ELSE old[e]]
  BY <1>2, <1>3, <1>4
<1> QED
  BY <1>1, <1>5, Zenon DEF Purchases!Filed

LEMMA PurchaseInit == Init => Purchases!Init
<1> SUFFICES ASSUME Init
             PROVE  Purchases!Init
  OBVIOUS
<1>1. cart = << >> /\ orders = << >> /\ history = << >>
  BY DEF Init
<1>2. loggedIn \in BOOLEAN
  BY Zenon DEF Init
<1>3. Basket = Purchases!EmptyBasket
  BY <1>1, EmptyTotal, Zenon DEF Basket, Purchases!EmptyBasket
<1>4. [d \in DOMAIN << >> |-> Sale(<< >>[d])] = << >>
  OBVIOUS
<1>5. Sales(<< >>) = << >>
  BY <1>4, Zenon DEF Sales
<1> QED
  BY <1>1, <1>2, <1>3, <1>5, Zenon DEF Purchases!Init

\* Every step of a waiting customer is a choice or a purchase; what a hurried
\* one does is not seen.
LEMMA PurchaseStep ==
    CheckoutInv /\ PageTypes /\ [Next]_vars => [Purchases!Next]_(Purchases!vars)
<1> SUFFICES ASSUME CheckoutInv, PageTypes, [Next]_vars
             PROVE  [Purchases!Next]_(Purchases!vars)
  OBVIOUS
<1>1. hurried' = hurried /\ loggedIn' = loggedIn
  BY CustomersStay
<1>2. CASE hurried
  <2>1. Basket' = Basket
    BY <1>1, <1>2, Zenon DEF Basket
  <2>2. Sales(orders)' = Sales(orders) /\ Sales(history)' = Sales(history)
    BY <1>1, <1>2, Zenon DEF Sales
  <2>3. UNCHANGED Purchases!vars
    BY <1>1, <2>1, <2>2 DEF Purchases!vars
  <2> QED
    BY <2>3
<1>3. CASE ~ SubmitTapped
  <2>1. orders' = orders /\ history' = history
    BY <1>3, OnlySubmissionWrites
  <2>2. Sales(orders)' = Sales(orders) /\ Sales(history)' = Sales(history)
    BY <1>1, <2>1, Zenon DEF Sales
  <2>3. Purchases!Choose
    BY <1>1, <2>2 DEF Purchases!Choose
  <2> QED
    BY <2>3 DEF Purchases!Next
<1>4. CASE ~ hurried /\ SubmitTapped
  <2>1. Documents /\ SentAlready
    BY DEF CheckoutInv
  <2>2. Basket = [lines |-> OrderLines(cart), total |-> Discount(cart)]
    BY <1>4, Zenon DEF Basket
  <2>3. /\ cart # << >> /\ visits \notin DOMAIN orders /\ visits \notin DOMAIN history
        /\ visits \in Nat /\ visits # 0
    BY <1>4, SubmissionBuys
  <2>4. Basket' = Purchases!EmptyBasket
    <3>1. cart' = << >> /\ ~ hurried'
      BY <1>1, <1>4 DEF SubmitTapped
    <3> QED
      BY <3>1, EmptyTotal, Zenon DEF Basket, Purchases!EmptyBasket
  <2>5. Sales(orders)' = Purchases!Filed(Sales(orders), visits)
    <3>1. Sales(orders)' = Sales(orders')
      BY <1>1, Zenon DEF Sales
    <3>2. Sale(orders'[visits]) = Basket
      <4>1. orders'[visits].lines = OrderLines(cart) /\ orders'[visits].total = Discount(cart)
        BY <1>4, SubmissionBuys
      <4> QED
        BY <2>2, <4>1, Zenon DEF Sale
    <3>3. /\ DOMAIN orders' = DOMAIN orders \cup {visits}
          /\ \A d \in DOMAIN orders : /\ orders'[d].lines = orders[d].lines
                                      /\ orders'[d].total = orders[d].total
      BY <1>4, <2>1, SubmissionWrites
    <3>4. \A d \in DOMAIN orders : Sale(orders'[d]) = Sale(orders[d])
      BY <3>3, Zenon DEF Sale
    <3> QED
      BY <1>4, <2>3, <3>1, <3>2, <3>3, <3>4, FilingASale
  <2>6. Sales(history)' = IF loggedIn THEN Purchases!Filed(Sales(history), visits)
                                      ELSE Sales(history)
    <3>1. Sales(history)' = Sales(history')
      BY <1>1, Zenon DEF Sales
    <3>2. CASE loggedIn
      <4>1. Sale(history'[visits]) = Basket
        <5>1. history'[visits].lines = OrderLines(cart) /\ history'[visits].total = Discount(cart)
          BY <1>4, <3>2, SubmissionBuys
        <5> QED
          BY <2>2, <5>1, Zenon DEF Sale
      <4>2. /\ DOMAIN history' = DOMAIN history \cup {visits}
            /\ \A d \in DOMAIN history : history'[d] = history[d]
        BY <1>4, <2>1, <3>2, SubmissionWrites
      <4>3. \A d \in DOMAIN history : Sale(history'[d]) = Sale(history[d])
        BY <4>2
      <4>4. Sales(history') = Purchases!Filed(Sales(history), visits)
        BY <1>4, <2>3, <4>1, <4>2, <4>3, FilingASale
      <4> QED
        BY <3>1, <3>2, <4>4, Zenon
    <3>3. CASE ~ loggedIn
      <4>1. history' = history
        BY <1>4, <3>3 DEF SubmitTapped
      <4> QED
        BY <3>1, <3>3, <4>1, Zenon
    <3> QED
      BY <3>2, <3>3
  <2>7. Basket.lines # << >>
    <3>1. DOMAIN OrderLines(cart) = DOMAIN cart /\ cart \in Seq(Line)
      BY <2>1 DEF OrderLines, Documents, WFCart
    <3>2. OrderLines(cart) # << >>
      BY <2>3, <3>1
    <3> QED
      BY <2>2, <3>2
  <2>8. visits \notin DOMAIN Sales(orders)
    <3>1. Sales(orders) = [d \in DOMAIN orders |-> Sale(orders[d])]
      BY <1>4, Zenon DEF Sales
    <3> QED
      BY <2>3, <3>1
  <2>9. Purchases!Buy(visits)
    BY <1>1, <2>4, <2>5, <2>6, <2>7, <2>8, Zenon DEF Purchases!Buy
  <2>10. visits \in 1 .. MaxVisits
    BY <2>3, MaxVisitsAssumption DEF PageTypes
  <2> QED
    BY <2>9, <2>10 DEF Purchases!Next
<1> QED
  BY <1>2, <1>3, <1>4

\* For a customer who waits for what is drawn, ordering is one step: the whole
\* cart becomes a new order, a logged-in customer gets a copy of it, the cart is
\* empty afterwards and no order changes any more, for any products, quantities
\* and prices and however often the pages are left and entered again.
THEOREM CheckoutIsAPurchase == Spec => ImplementsPurchase
<1>1. Spec => []PageTypes
  <2>1. CheckoutInv /\ PageTypes /\ [Next]_vars => PageTypes'
    BY PageTypesStep
  <2> QED
    BY <2>1, PageTypesInit, CheckoutInvHolds, PTL DEF Spec
<1>2. Spec => Purchases!Spec
  BY <1>1, PurchaseInit, PurchaseStep, CheckoutInvHolds, PTL
     DEF Spec, Purchases!Spec, Purchases!vars
<1> QED
  BY <1>2 DEF ImplementsPurchase
=============================================================================
