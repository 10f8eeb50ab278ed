------------------------------- MODULE Notices -------------------------------
(***************************************************************************)
(* Push notices and the device tokens they are sent to (main.dart,         *)
(* profile.dart, admin_profile.dart, checkoutPageDelivery.dart,            *)
(* orders_for_admin.dart).  Every start of the application and every       *)
(* opening of a profile asks Firebase for the device's token and files it  *)
(* in 'userTokens' under the phone that the static holds when the token    *)
(* arrives.  The checkout page and the total dialog of the administrator   *)
(* read 'userTokens' without waiting and send to whatever they have.       *)
(*                                                                         *)
(* A device has one token for good and is named by it.  The user waits for *)
(* the next frame after a tap and knows every password: Accounts models    *)
(* the hasty user and the login.                                           *)
(***************************************************************************)
EXTENDS Naturals, FiniteSets, Sequences, SequencesExt

CONSTANTS Devices,          \* devices, and their tokens
          Phones,           \* telephone numbers
          AdminPhones,      \* the two numbers the checkout page notifies
          NoPhone,          \* the empty phone
          NoToken,          \* the token of nobody: '' and '222'
          MaxAsks,          \* bound: a device's open questions for its token
          MaxQueue,         \* bound: token writes a device holds back
          MaxReads,         \* bound: reads the administrator's page has open
          MaxRunning,       \* bound: devices that run at the same time
          MaxUses           \* bound: pairs of a device and an account it was logged in with

ASSUME PhonesAssumption == NoPhone \notin Phones /\ NoToken \notin Devices
ASSUME AdminPhonesAssumption == AdminPhones \in [{1, 2} -> Phones]
ASSUME BoundsAssumption == {MaxAsks, MaxQueue, MaxReads, MaxRunning, MaxUses} \subseteq Nat \ {0}

VARIABLES
    state,      \* per device, "off", "starting" or "running"
    prefs,      \* per device, the phone in the preferences
    userPhone,  \* per device, the static SharedData.userPhone
    page,       \* per device, the page asked for last
    shown,      \* per device, the page the last frame built
    asks,       \* per device, getToken calls that have not returned
    outbox,     \* per device, phones the token is to be filed under
    tokens,     \* server: 'userTokens'
    used,       \* which devices were logged in with which phone
    checkout,   \* a customer's checkout page
    desk,       \* an administrator's page of orders
    sent,       \* the notices the last step sent
    lost        \* the devices whose getToken failed in the last step; no
                \* action reads it

device == <<state, prefs, userPhone, page, shown, asks, outbox>>
vars   == <<device, tokens, used, checkout, desk, sent, lost>>

\* What a get of the token filed under a phone returns.
TokenOf(p) == IF p \in DOMAIN tokens THEN tokens[p] ELSE NoToken

\* A page without an order, and one whose State has just been made.
NoCheckout == [step |-> "closed", to |-> [i \in {1, 2} |-> NoToken], filed |-> {}]

NoDesk == [mtoken |-> NoToken, reads |-> << >>, dialog |-> NoPhone,
           alone |-> FALSE, found |-> FALSE]

Init ==
    /\ state = [d \in Devices |-> "off"]
    /\ prefs = [d \in Devices |-> NoPhone]
    /\ userPhone = [d \in Devices |-> NoPhone]
    /\ page = [d \in Devices |-> "elsewhere"]
    /\ shown = [d \in Devices |-> "elsewhere"]
    /\ asks = [d \in Devices |-> 0]
    /\ outbox = [d \in Devices |-> << >>]
    /\ tokens = << >> /\ used = {}
    /\ checkout = NoCheckout /\ desk = NoDesk
    /\ sent = {} /\ lost = {}

\* A step that sends no notice and in which no getToken fails.
Quiet == sent' = {} /\ lost' = {}

-----------------------------------------------------------------------------
\* main: initName and getToken are called and not awaited.
Start(d) ==
    /\ state[d] = "off" /\ Cardinality({e \in Devices : state[e] # "off"}) < MaxRunning
    /\ state' = [state EXCEPT ![d] = "starting"]
    /\ asks' = [asks EXCEPT ![d] = 1]
    /\ UNCHANGED <<prefs, userPhone, page, shown, outbox, tokens, used, checkout, desk>> /\ Quiet

\* The platform hands over the preferences: initName ends, the cart can be
\* read and the first page is built.
PrefsRead(d) ==
    /\ state[d] = "starting"
    /\ state' = [state EXCEPT ![d] = "running"]
    /\ userPhone' = [userPhone EXCEPT ![d] = prefs[d]]
    /\ UNCHANGED <<prefs, page, shown, asks, outbox, tokens, used, checkout, desk>> /\ Quiet

\* The process ends.  Firestore keeps the writes that were not sent.
Stop(d) ==
    /\ state[d] # "off"
    /\ state' = [state EXCEPT ![d] = "off"]
    /\ asks' = [asks EXCEPT ![d] = 0]
    /\ userPhone' = [userPhone EXCEPT ![d] = NoPhone]
    /\ page' = [page EXCEPT ![d] = "elsewhere"]
    /\ shown' = [shown EXCEPT ![d] = "elsewhere"]
    /\ UNCHANGED <<prefs, outbox, tokens, used, checkout, desk>> /\ Quiet

\* Faulty variant, for the check of the properties: the empty phone is a phone.
TokenArrivesForAnyone(d) ==
    /\ asks[d] > 0 /\ Len(outbox[d]) < MaxQueue
    /\ asks' = [asks EXCEPT ![d] = @ - 1]
    /\ outbox' = [outbox EXCEPT ![d] = Append(@, userPhone[d])]
    /\ UNCHANGED <<state, prefs, userPhone, page, shown, tokens, used, checkout, desk>> /\ Quiet

\* getToken returns and saveToken files the token under the static; with an
\* empty phone, doc throws.
TokenArrives(d) ==
    /\ asks[d] > 0 /\ Len(outbox[d]) < MaxQueue
    /\ asks' = [asks EXCEPT ![d] = @ - 1]
    /\ outbox' = IF userPhone[d] = NoPhone THEN outbox
                 ELSE [outbox EXCEPT ![d] = Append(@, userPhone[d])]
    /\ UNCHANGED <<state, prefs, userPhone, page, shown, tokens, used, checkout, desk>> /\ Quiet

\* getToken throws, or returns null, which token! does not survive: nobody
\* catches it and nobody asks again before the next start or profile page.
TokenFails(d) ==
    /\ asks[d] > 0
    /\ asks' = [asks EXCEPT ![d] = @ - 1]
    /\ UNCHANGED <<state, prefs, userPhone, page, shown, outbox, tokens, used, checkout, desk>>
    /\ sent' = {} /\ lost' = {d}

\* The server takes the oldest write of a device.
Deliver(d) ==
    /\ state[d] # "off" /\ outbox[d] # << >>
    /\ outbox' = [outbox EXCEPT ![d] = Tail(@)]
    /\ tokens' = [p \in DOMAIN tokens \cup {Head(outbox[d])} |->
                    IF p = Head(outbox[d]) THEN d ELSE tokens[p]]
    /\ UNCHANGED <<state, prefs, userPhone, page, shown, asks, used, checkout, desk>> /\ Quiet

-----------------------------------------------------------------------------
\* A user who sees the page that was asked for last.
Settled(d) == state[d] = "running" /\ page[d] = shown[d]

Go(d, p) == page' = [page EXCEPT ![d] = p]

\* The bottom bar; its last button leads to the login when nobody is logged in.
NavTapped(d, p) ==
    /\ Settled(d)
    /\ p \in {"elsewhere", IF userPhone[d] = NoPhone THEN "auth" ELSE "profile"}
    /\ Go(d, p)
    /\ UNCHANGED <<state, prefs, userPhone, shown, asks, outbox, tokens, used, checkout, desk>> /\ Quiet

LogIn(d, p) ==
    /\ Settled(d) /\ shown[d] = "auth"
    /\ prefs' = [prefs EXCEPT ![d] = p]
    /\ used' = used \cup {<<d, p>>} /\ Cardinality(used') <= MaxUses
    /\ Go(d, "profile")
    /\ UNCHANGED <<state, userPhone, shown, asks, outbox, tokens, checkout, desk>> /\ Quiet

\* exitUser empties the preferences and leaves the static.
LogOut(d) ==
    /\ Settled(d) /\ shown[d] = "profile"
    /\ prefs' = [prefs EXCEPT ![d] = NoPhone]
    /\ Go(d, "auth")
    /\ UNCHANGED <<state, userPhone, shown, asks, outbox, tokens, used, checkout, desk>> /\ Quiet

\* Faulty variant, for the check of the properties: only the login renews the static.
FrameOfAuth(d) ==
    /\ state[d] = "running" /\ page[d] # shown[d]
    /\ page[d] = "profile" => asks[d] < MaxAsks
    /\ shown' = [shown EXCEPT ![d] = page[d]]
    /\ userPhone' = [userPhone EXCEPT ![d] = IF page[d] = "auth" THEN prefs[d] ELSE @]
    /\ asks' = [asks EXCEPT ![d] = IF page[d] = "profile" THEN @ + 1 ELSE @]
    /\ UNCHANGED <<state, prefs, page, outbox, tokens, used, checkout, desk>> /\ Quiet

\* Faulty variant, for the check of the properties: only the profile renews the static.
FrameOfProfile(d) ==
    /\ state[d] = "running" /\ page[d] # shown[d]
    /\ page[d] = "profile" => asks[d] < MaxAsks
    /\ shown' = [shown EXCEPT ![d] = page[d]]
    /\ userPhone' = [userPhone EXCEPT ![d] = IF page[d] = "profile" THEN prefs[d] ELSE @]
    /\ asks' = [asks EXCEPT ![d] = IF page[d] = "profile" THEN @ + 1 ELSE @]
    /\ UNCHANGED <<state, prefs, page, outbox, tokens, used, checkout, desk>> /\ Quiet

\* The next frame: initState of the login and of the profile renews the static,
\* the profile asks for the token.
Frame(d) ==
    /\ state[d] = "running" /\ page[d] # shown[d]
    /\ page[d] = "profile" => asks[d] < MaxAsks
    /\ shown' = [shown EXCEPT ![d] = page[d]]
    /\ userPhone' = [userPhone EXCEPT ![d] = IF page[d] \in {"auth", "profile"} THEN prefs[d] ELSE @]
    /\ asks' = [asks EXCEPT ![d] = IF page[d] = "profile" THEN @ + 1 ELSE @]
    /\ UNCHANGED <<state, prefs, page, outbox, tokens, used, checkout, desk>> /\ Quiet

-----------------------------------------------------------------------------
\* The checkout page is opened: adminToken starts.
OpenCheckout ==
    /\ checkout.step = "closed"
    /\ checkout' = [NoCheckout EXCEPT !.step = "first",
                                      !.filed = {i \in {1, 2} : AdminPhones[i] \in DOMAIN tokens}]
    /\ UNCHANGED <<device, tokens, used, desk>> /\ Quiet

\* Faulty variant, for the check of the properties: both tokens go to one variable.
AdminTokenReadToFirst ==
    /\ checkout.step \in {"first", "second"}
    /\ LET i == IF checkout.step = "first" THEN 1 ELSE 2
       IN  checkout' = [checkout EXCEPT !.step = IF i = 1 THEN "second" ELSE "ready",
                                        !.to[1] = TokenOf(AdminPhones[i])]
    /\ UNCHANGED <<device, tokens, used, desk>> /\ Quiet

\* The tokens of the two administrators are read one after the other.
AdminTokenRead ==
    /\ checkout.step \in {"first", "second"}
    /\ LET i == IF checkout.step = "first" THEN 1 ELSE 2
       IN  checkout' = [checkout EXCEPT !.step = IF i = 1 THEN "second" ELSE "ready",
                                        !.to[i] = TokenOf(AdminPhones[i])]
    /\ UNCHANGED <<device, tokens, used, desk>> /\ Quiet

\* A read fails: adminToken ends there.
AdminTokenFails ==
    /\ checkout.step \in {"first", "second"}
    /\ checkout' = [checkout EXCEPT !.step = "failed"]
    /\ UNCHANGED <<device, tokens, used, desk>> /\ Quiet

\* The order is submitted, whatever has been read: one notice to each.
Submit ==
    /\ checkout.step # "closed"
    /\ sent' = {[kind |-> "order", to |-> checkout.to[i], about |-> AdminPhones[i],
                 sure |-> checkout.step = "ready" /\ i \in checkout.filed] : i \in {1, 2}}
    /\ checkout' = NoCheckout /\ lost' = {}
    /\ UNCHANGED <<device, tokens, used, desk>>

\* The page is left without an order.
LeaveCheckout ==
    /\ checkout.step # "closed"
    /\ checkout' = NoCheckout
    /\ UNCHANGED <<device, tokens, used, desk>> /\ Quiet

-----------------------------------------------------------------------------
\* Faulty variant, for the check of the properties: the token of some other
\* order's customer is asked for.
OpenTotalOfAny(p) ==
    /\ desk.dialog = NoPhone /\ Len(desk.reads) < MaxReads
    /\ desk' = [desk EXCEPT !.dialog = p, !.reads = Append(@, CHOOSE q \in Phones : TRUE),
                            !.alone = desk.reads = << >>, !.found = FALSE]
    /\ UNCHANGED <<device, tokens, used, checkout>> /\ Quiet

\* Tapping the total of an order asks for its customer's token and opens the
\* dialog.  alone: no read of an earlier dialog is still open.
OpenTotal(p) ==
    /\ desk.dialog = NoPhone /\ Len(desk.reads) < MaxReads
    /\ desk' = [desk EXCEPT !.dialog = p, !.reads = Append(@, p),
                            !.alone = desk.reads = << >>, !.found = FALSE]
    /\ UNCHANGED <<device, tokens, used, checkout>> /\ Quiet

\* One of the reads returns, in any order.  Without a document, or without a
\* connection, getUserToken throws and mtoken stays what it was.
UserTokenRead(k) ==
    /\ k \in DOMAIN desk.reads
    /\ \E found \in BOOLEAN :
          /\ found => desk.reads[k] \in DOMAIN tokens
          /\ desk' = [desk EXCEPT !.reads = RemoveAt(@, k),
                                  !.mtoken = IF found THEN tokens[desk.reads[k]] ELSE @,
                                  !.found = @ \/ (found /\ desk.dialog # NoPhone)]
    /\ UNCHANGED <<device, tokens, used, checkout>> /\ Quiet

DialogClosed == [desk EXCEPT !.dialog = NoPhone, !.alone = FALSE, !.found = FALSE]

\* The new total is confirmed: the customer is told, through mtoken.
ConfirmTotal ==
    /\ desk.dialog # NoPhone
    /\ sent' = {[kind |-> "total", to |-> desk.mtoken, about |-> desk.dialog,
                 sure |-> desk.alone /\ desk.found]}
    /\ desk' = DialogClosed /\ lost' = {}
    /\ UNCHANGED <<device, tokens, used, checkout>>

Dismiss ==
    /\ desk.dialog # NoPhone
    /\ desk' = DialogClosed
    /\ UNCHANGED <<device, tokens, used, checkout>> /\ Quiet

\* The page of orders is left; the next one has a new State.
LeaveOrders ==
    /\ desk # NoDesk /\ desk.dialog = NoPhone
    /\ desk' = NoDesk
    /\ UNCHANGED <<device, tokens, used, checkout>> /\ Quiet

Next ==
    \/ \E d \in Devices :
          \/ Start(d) \/ PrefsRead(d) \/ Stop(d)
          \/ TokenArrives(d) \/ TokenFails(d) \/ Deliver(d)
          \/ \E p \in {"elsewhere", "auth", "profile"} : NavTapped(d, p)
          \/ \E p \in Phones : LogIn(d, p)
          \/ LogOut(d) \/ Frame(d)
    \/ OpenCheckout \/ AdminTokenRead \/ AdminTokenFails \/ Submit \/ LeaveCheckout
    \/ \E p \in Phones : OpenTotal(p)
    \/ \E k \in 1 .. MaxReads : UserTokenRead(k)
    \/ ConfirmTotal \/ Dismiss \/ LeaveOrders

Spec == Init /\ [][Next]_vars

\* Every getToken ends, with a token or without, and a device that runs is
\* connected again and again.
Fairness == \A d \in Devices : /\ WF_vars(TokenArrives(d) \/ TokenFails(d))
                               /\ WF_vars(Deliver(d))

FairSpec == Spec /\ Fairness

-----------------------------------------------------------------------------
\* A token is only ever filed under a phone the device was logged in with:
\* never under the empty phone that the static holds while main is still
\* reading the preferences (main.dart:98).
TypeOK ==
    /\ \A d \in Devices : /\ state[d] \in {"off", "starting", "running"}
                          /\ asks[d] \in 0 .. MaxAsks
                          /\ \A k \in DOMAIN outbox[d] : <<d, outbox[d][k]>> \in used
    /\ \A p \in DOMAIN tokens : <<tokens[p], p>> \in used
    /\ used \subseteq Devices \X Phones
    /\ Len(desk.reads) <= MaxReads
    /\ desk.mtoken \in Devices \cup {NoToken}

\* A token that arrives late, after logouts and logins, is filed under the
\* account that is logged in then, not the one it was asked for; only between a
\* tap and its frame may it still go to the last one.
LateTokenIsTheAccounts ==
    [][\A d \in Devices : Len(outbox'[d]) > Len(outbox[d]) =>
            page[d] # shown[d] \/ Last(outbox'[d]) = prefs[d]]_vars

\* A customer who waits for adminToken to finish notifies, of a new order, a
\* device of every administrator who had filed a token when the page was
\* opened, even if tokens are filed anew while it reads.
OrderReachesAdmins ==
    \A n \in sent : n.kind = "order" /\ n.sure => <<n.to, n.about>> \in used

\* An administrator who waits for getUserToken, and opens no total dialog while
\* a read of an earlier one is open, tells the new total to a device of the
\* order's customer, if that customer has a token, whatever mtoken held before.
TotalReachesItsCustomer ==
    \A n \in sent : n.kind = "total" /\ n.sure => <<n.to, n.about>> \in used

\* An open profile files the device's token under its account, unless the user
\* logs out, the application ends or a getToken fails: neither a page that is
\* left meanwhile, nor writes under earlier accounts that the device still
\* holds, keep it from doing so.
ProfileFilesToken ==
    \A d \in Devices, p \in Phones :
        shown[d] = "profile" /\ prefs[d] = p /\ asks[d] > 0
            ~> \/ p \in DOMAIN tokens /\ tokens[p] = d
               \/ prefs[d] # p \/ state[d] = "off" \/ d \in lost
=============================================================================
