------------------------------- MODULE Checkout -------------------------------
(***************************************************************************)
(* From the cart to a submitted order, on the device of one customer: the  *)
(* cart page, the notice dialog it opens, the checkout page and the        *)
(* documents the submission writes.                                        *)
(*                                                                         *)
(* A page is not changed by the handler that asks for it: the handler adds *)
(* the page's number to streamController, the first page's listener turns  *)
(* that into currentPageIndex, and the page on the screen is replaced when *)
(* the next frame is built.  Until then taps reach the old page.  Frame is *)
(* that build; TapsPerFrame says how many taps of a hurried customer may   *)
(* be handled before it, others tap once.                                  *)
(*                                                                         *)
(* The pages that matter keep their names, every other page is "elsewhere" *)
(* and stands for the catalog too.  A page gets a new State each time it   *)
(* replaces another one, so each visit of the checkout page has its own    *)
(* date, which becomes the document id of its order.                       *)
(***************************************************************************)
EXTENDS CartOps

CONSTANTS TapsPerFrame,     \* taps of a hurried customer between two frames
          MaxVisits,        \* bound: visits of the checkout page
          MaxOrderLines     \* bound: lines a cart page collects

ASSUME TapsPerFrameAssumption == TapsPerFrame \in Nat \ {0}
ASSUME MaxVisitsAssumption == MaxVisits \in Nat \ {0}
ASSUME MaxOrderLinesAssumption == MaxOrderLines \in Nat

VARIABLES
    page,           \* currentPageIndex
    shown,          \* the page whose State is on the screen
    dialog,         \* is the notice dialog open
    drawnDialog,    \* is it on the screen since the last frame
    taps,           \* taps handled since the last frame
    cart,           \* FlutterCart's list
    itemsOrder,     \* _items_order of the cart page's State
    total,          \* total of the cart page's State
    notice,         \* "on", "turningOff" in the preferences, "off" in SharedData
    loggedIn,       \* SharedData.userName and userPhone are not empty
    hurried,        \* chosen once: does the customer tap faster than frames are built
    orderModel,     \* Cart.orderModel
    form,           \* the checkout page's State
    visits,         \* checkout States created so far; the last one is `date`
    orders,         \* documents of 'orders', by date
    history         \* documents of users/<phone>/orders, by date

uiVars    == <<page, shown, dialog, drawnDialog, taps>>
cartVars  == <<cart, itemsOrder, total>>
orderVars == <<orderModel, orders, history>>
customer  == <<loggedIn, hurried>>
vars == <<page, shown, dialog, drawnDialog, taps, cart, itemsOrder, total, notice,
          customer, orderModel, form, visits, orders, history>>

Pages == {"elsewhere", "cart", "checkout"}

\* ItemOrderModel
OrderLine == [index : Nat \ {0}, title : Titles, quantity : 1 .. MaxQuantity,
              price : Prices]

OrderModel == [lines : Seq(OrderLine), total : Nat]

\* _checkoutPageState: are name, phone and address filled in, the two boxes,
\* _payment and the counter of history lines.
Form == [filled : BOOLEAN, card : BOOLEAN, cash : BOOLEAN,
         payment : {"", "card", "cash"}, items : Nat]

FreshForm(filled) ==
    [filled |-> filled, card |-> FALSE, cash |-> FALSE, payment |-> "", items |-> 0]

-----------------------------------------------------------------------------
\* The lines the checkout handlers make of the cart.
OrderLines(c) ==
    [i \in DOMAIN c |-> [index |-> i, title |-> c[i].productTitle,
                         quantity |-> c[i].quantity, price |-> c[i].price]]

TapLimit == IF hurried THEN TapsPerFrame ELSE 1

\* What was drawn of page p can be tapped: no dialog is over it.
CanTap(p) == shown = p /\ ~ drawnDialog /\ taps < TapLimit

TapOn(p) == CanTap(p) /\ taps' = taps + 1

\* Opening and closing a dialog absorbs every tap until the next frame.
Absorb == taps' = TapLimit

\* A tap in the notice dialog, which it closes.
TapInDialog ==
    /\ dialog /\ drawnDialog
    /\ dialog' = FALSE
    /\ Absorb

-----------------------------------------------------------------------------
Init ==
    /\ page = "elsewhere" /\ shown = "elsewhere"
    /\ dialog = FALSE /\ drawnDialog = FALSE /\ taps = 0
    /\ cart = << >> /\ itemsOrder = << >> /\ total = 0
    /\ notice \in {"on", "off"}
    /\ loggedIn \in BOOLEAN /\ hurried \in BOOLEAN
    /\ orderModel = [lines |-> << >>, total |-> 0]
    /\ form = FreshForm(FALSE)
    /\ visits = 0
    /\ orders = << >> /\ history = << >>

\* Faulty variant, for the check of the properties: the cart page keeps its State while
\* other pages are shown.
CartPageKept ==
    IF page = "cart" /\ shown # "cart"
    THEN total' = Discount(cart) /\ UNCHANGED itemsOrder
    ELSE UNCHANGED <<itemsOrder, total>>

\* The State of the cart page: kept as long as the page stays, or a dialog that
\* its handler opened can still call into it; new when the page comes back.
CartPageAtFrame ==
    \/ page = "cart" /\ shown = "cart" /\ UNCHANGED <<itemsOrder, total>>
    \/ page = "cart" /\ shown # "cart" /\ itemsOrder' = << >> /\ total' = Discount(cart)
    \/ page # "cart" /\ dialog /\ UNCHANGED <<itemsOrder, total>>
    \/ page # "cart" /\ ~ dialog /\ itemsOrder' = << >> /\ total' = 0

\* The State of the checkout page.  The fields of a logged-in customer are
\* filled in from SharedData as far as they are known.
CheckoutPageAtFrame ==
    \/ page = "checkout" /\ shown = "checkout" /\ UNCHANGED <<visits, form>>
    \/ /\ page = "checkout" /\ shown # "checkout"
       /\ visits' = visits + 1
       /\ \E filled \in {FALSE, loggedIn} : form' = FreshForm(filled)
    \/ page # "checkout" /\ form' = FreshForm(FALSE) /\ UNCHANGED visits

\* The next frame: the dialog appears or disappears, a new page gets a new State.
Frame ==
    /\ taps > 0
    /\ taps' = 0
    /\ shown' = page
    /\ drawnDialog' = dialog
    /\ CartPageAtFrame
    /\ CheckoutPageAtFrame
    /\ UNCHANGED <<page, dialog, cart, notice, customer, orderVars>>

\* initName of some page has read the preference that setShowAD wrote.
NoticeRead ==
    /\ notice = "turningOff"
    /\ notice' = "off"
    /\ UNCHANGED <<uiVars, cartVars, customer, orderVars, form, visits>>

\* The bottom bar, on every page.
NavTapped(p) ==
    /\ TapOn(shown)
    /\ page' = p
    /\ UNCHANGED <<shown, dialog, drawnDialog, cartVars, notice, customer,
                   orderVars, form, visits>>

\* The catalog.
AddTapped(t, q, p) ==
    /\ TapOn("elsewhere")
    /\ t \notin TitlesOf(cart)
    /\ cart' = AddToCart(cart, NewLine(cart, t, q, p))
    /\ UNCHANGED <<page, shown, dialog, drawnDialog, itemsOrder, total, notice,
                   customer, orderVars, form, visits>>

-----------------------------------------------------------------------------
\* Faulty variant, for the check of the properties: the total is not taken anew.
ChangeCartOnly(c) ==
    /\ TapOn("cart")
    /\ cart' = c
    /\ UNCHANGED <<page, shown, dialog, drawnDialog, itemsOrder, total, notice,
                   customer, orderVars, form, visits>>

\* The rows of the cart page: change the cart, then take the total anew.
ChangeCart(c) ==
    /\ TapOn("cart")
    /\ cart' = c
    /\ total' = Discount(c)
    /\ UNCHANGED <<page, shown, dialog, drawnDialog, itemsOrder, notice, customer,
                   orderVars, form, visits>>

IncrementTapped(i) ==
    /\ cart[i].quantity < MaxQuantity
    /\ ChangeCart(UpdateQuantity(cart, cart[i].productId, cart[i].quantity + 1))

\* Faulty variant, for the check of the properties: a quantity of 1 goes down to 0.
DecrementTappedToZero(i) ==
    ChangeCart(UpdateQuantity(cart, cart[i].productId, cart[i].quantity - 1))

DecrementTapped(i) ==
    LET q == IF cart[i].quantity > 1 THEN cart[i].quantity - 1 ELSE cart[i].quantity
    IN  ChangeCart(UpdateQuantity(cart, cart[i].productId, q))

DeleteTapped(i) == ChangeCart(RemoveItem(cart, cart[i].productId))

\* The same lines in three handlers: collect the cart, hand it over, leave.
PlaceOrder ==
    /\ visits < MaxVisits
    /\ Len(itemsOrder) + Len(cart) <= MaxOrderLines
    /\ itemsOrder' = itemsOrder \o OrderLines(cart)
    /\ orderModel' = [lines |-> itemsOrder', total |-> total]
    /\ page' = "checkout"

\* The order button of the cart page.  An empty cart gets a toast.
CheckoutTapped ==
    /\ cart # << >>
    /\ \/ /\ notice # "off"
          /\ CanTap("cart") /\ Absorb
          /\ dialog' = TRUE
          /\ UNCHANGED <<page, itemsOrder, orderModel>>
       \/ /\ notice = "off"
          /\ TapOn("cart")
          /\ PlaceOrder
          /\ UNCHANGED dialog
    /\ UNCHANGED <<shown, drawnDialog, cart, total, notice, customer, form, visits,
                   orders, history>>

\* "I understand" and "do not show again".
AgreeTapped(never) ==
    /\ TapInDialog
    /\ PlaceOrder
    /\ notice' = IF never /\ notice = "on" THEN "turningOff" ELSE notice
    /\ UNCHANGED <<shown, drawnDialog, cart, total, customer, form, visits,
                   orders, history>>

\* "Cancel", the barrier and the back button close the dialog.
CancelTapped ==
    /\ TapInDialog
    /\ UNCHANGED <<page, shown, drawnDialog, cartVars, notice, customer, orderVars,
                   form, visits>>

-----------------------------------------------------------------------------
ChangeForm(f) ==
    /\ TapOn("checkout")
    /\ form' = f
    /\ UNCHANGED <<page, shown, dialog, drawnDialog, cartVars, notice, customer,
                   orderVars, visits>>

\* Typing into the fields.
EditFields == ChangeForm([form EXCEPT !.filled = ~ @])

\* A checkbox calls onChanged with the negation of what it shows.
CardBoxTapped ==
    LET value == ~ form.card
    IN  ChangeForm([form EXCEPT !.card = value, !.cash = ~ value, !.payment = "card"])

CashBoxTapped ==
    LET value == ~ form.cash
    IN  ChangeForm([form EXCEPT !.cash = value, !.card = ~ value, !.payment = "cash"])

\* The back button of the system.
BackTapped ==
    /\ TapOn("checkout")
    /\ page' = "cart"
    /\ UNCHANGED <<shown, dialog, drawnDialog, cartVars, notice, customer, orderVars,
                   form, visits>>

\* doc(d).set(doc): replaces the document or creates it.
SetDoc(docs, d, doc) ==
    [e \in DOMAIN docs \cup {d} |-> IF e = d THEN doc ELSE docs[e]]

\* The document of the order for the administrators.
OrderDoc == [lines |-> orderModel.lines, total |-> orderModel.total,
             payment |-> form.payment]

\* What the loop and the set after it write under the customer's own orders;
\* lines written before under the same date stay.
HistoryAfter(items) ==
    LET old   == IF visits \in DOMAIN history THEN history[visits].lines ELSE << >>
        lines == [i \in DOMAIN old \cup DOMAIN cart |->
                    IF i \in DOMAIN cart THEN OrderLines(cart)[i] ELSE old[i]]
    IN  SetDoc(history, visits,
               [lines |-> lines, items |-> items, total |-> orderModel.total])

\* Faulty variant, for the check of the properties: the cart is cleared before the
\* customer's own copy is written.
SubmitTappedClearFirst ==
    /\ TapOn("checkout")
    /\ form.filled
    /\ orders' = SetDoc(orders, visits, OrderDoc)
    /\ history' = IF loggedIn
                  THEN SetDoc(history, visits, [lines |-> << >>, items |-> form.items,
                                                total |-> orderModel.total])
                  ELSE history
    /\ page' = "elsewhere"
    /\ cart' = << >>
    /\ UNCHANGED <<shown, dialog, drawnDialog, itemsOrder, total, notice,
                   customer, orderModel, form, visits>>

\* Faulty variant, for the check of the properties: the counter of lines starts at 0 in
\* every call of the handler.
SubmitTappedCountingAnew ==
    /\ TapOn("checkout")
    /\ form.filled
    /\ orders' = SetDoc(orders, visits, OrderDoc)
    /\ history' = IF loggedIn THEN HistoryAfter(Len(cart)) ELSE history
    /\ page' = "elsewhere"
    /\ cart' = << >>
    /\ UNCHANGED <<shown, dialog, drawnDialog, itemsOrder, total, notice,
                   customer, orderModel, form, visits>>

\* The submit button; an empty field only marks itself.
SubmitTapped ==
    LET items == IF loggedIn /\ cart # << >> THEN Len(cart) ELSE form.items
    IN  /\ TapOn("checkout")
        /\ form.filled
        /\ orders' = SetDoc(orders, visits, OrderDoc)
        /\ history' = IF loggedIn THEN HistoryAfter(items) ELSE history
        /\ form' = [form EXCEPT !.items = items]
        /\ page' = "elsewhere"
        /\ cart' = << >>
        /\ UNCHANGED <<shown, dialog, drawnDialog, itemsOrder, total, notice,
                       customer, orderModel, visits>>

-----------------------------------------------------------------------------
Next ==
    \/ Frame
    \/ NoticeRead
    \/ \E p \in {"elsewhere", "cart"} : NavTapped(p)
    \/ \E t \in Titles, q \in 1 .. MaxQuantity, p \in Prices : AddTapped(t, q, p)
    \/ \E i \in DOMAIN cart : IncrementTapped(i)
    \/ \E i \in DOMAIN cart : DecrementTapped(i)
    \/ \E i \in DOMAIN cart : DeleteTapped(i)
    \/ CheckoutTapped
    \/ \E never \in BOOLEAN : AgreeTapped(never)
    \/ CancelTapped
    \/ EditFields
    \/ CardBoxTapped
    \/ CashBoxTapped
    \/ BackTapped
    \/ SubmitTapped

Spec == Init /\ [][Next]_vars

-----------------------------------------------------------------------------
\* The variables hold what their fields in the code can hold.
TypeOK ==
    /\ page \in Pages /\ shown \in Pages
    /\ dialog \in BOOLEAN /\ drawnDialog \in BOOLEAN
    /\ taps \in 0 .. TapLimit
    /\ cart \in Seq(Line)
    /\ itemsOrder \in Seq(OrderLine) /\ total \in Nat
    /\ notice \in {"on", "turningOff", "off"} /\ loggedIn \in BOOLEAN /\ hurried \in BOOLEAN
    /\ orderModel \in OrderModel
    /\ form \in Form
    /\ visits \in 0 .. MaxVisits
    /\ DOMAIN orders \subseteq 1 .. visits /\ DOMAIN history \subseteq DOMAIN orders

\* A submitted order lists the cart the customer submitted, line by line, and
\* its total is that cart's: nothing is doubled by earlier visits of the cart
\* page, nothing was changed after the total was taken, and no order is empty.
\* Hurried customers are left out: their taps reach the cart page after "order".
OrderSaysWhatTheCartHeld ==
    [][~ hurried => \A d \in DOMAIN orders' \ DOMAIN orders :
          /\ cart # << >>
          /\ orders'[d].lines = OrderLines(cart)
          /\ orders'[d].total = Discount(cart)]_vars

\* The sum that the checkout page asks the customer to confirm, computed from
\* the cart, is the one the order will carry, taken when the page was left;
\* hurried customers may still change the cart in between.
ConfirmedSumIsSent ==
    ~ hurried /\ shown = "checkout" /\ page = "checkout" =>
        orderModel.total = Discount(cart)

\* A logged-in customer's own copy of an order agrees with the shop's: same
\* total, and as many lines as its counter says, at least one unless a hurried
\* customer has emptied the cart after "order".
HistoryTellsTheOrder ==
    \A d \in DOMAIN history :
        /\ history[d].total = orders[d].total
        /\ history[d].items = Len(history[d].lines)
        /\ ~ hurried => history[d].items > 0

\* Submitting again before the page is gone repeats the same purchase: the second
\* handler runs on the emptied cart and still writes the lines and the total of
\* the first one, and the same copy.  The payment is what the boxes say then.
ResubmissionChangesNothing ==
    [][/\ \A d \in DOMAIN orders :
             /\ orders'[d].lines = orders[d].lines
             /\ orders'[d].total = orders[d].total
       /\ \A d \in DOMAIN history : history'[d] = history[d]]_vars

\* 'Наличными при получении' is ticked whenever the order says cash, and
\* 'Онлайн перевод' whenever it says card.
PaymentIsTheTickedBox ==
    /\ form.payment = "cash" => form.cash
    /\ form.payment = "card" => form.card

-----------------------------------------------------------------------------
\* The purchases of a customer who waits for what is drawn; the payment is not
\* part of them.  Hurried customers are mapped to one who never buys.
Sale(doc) == [lines |-> doc.lines, total |-> doc.total]

Sales(docs) == IF hurried THEN << >> ELSE [d \in DOMAIN docs |-> Sale(docs[d])]

Basket ==
    IF hurried THEN [lines |-> << >>, total |-> 0]
               ELSE [lines |-> OrderLines(cart), total |-> Discount(cart)]

Purchases == INSTANCE Purchase WITH
    Dates  <- 1 .. MaxVisits,
    basket <- Basket,
    orders <- Sales(orders),
    copies <- Sales(history),
    known  <- loggedIn

\* The cart page and its fields, the notice, the checkout page and the statics
\* between them make of a purchase one step: nothing of an earlier visit, no
\* change of the cart on the way and no second tap shows in the order or in the
\* customer's copy, and what was ordered never changes.
ImplementsPurchase == Purchases!Spec
=============================================================================
