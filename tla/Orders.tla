-------------------------------- MODULE Orders --------------------------------
(***************************************************************************)
(* Orders in Cloud Firestore: customers place them, administrators change  *)
(* their total, mark them done and delete them, each from a device of its  *)
(* own (checkoutPageDelivery.dart, orders_for_admin.dart).                 *)
(*                                                                         *)
(* No call to Firestore is awaited.  A device queues its writes and sends  *)
(* them in order whenever it is connected.  It keeps a write until it has  *)
(* read the answer: when the connection breaks, the server is sent again   *)
(* what it may have taken already (RemoteStore has the details).  What a   *)
(* device sees is the server's state as last received with its own queue   *)
(* applied.  An update of a document that does not exist is refused by the *)
(* server, and the application never hears of it.                          *)
(*                                                                         *)
(* The device that places an order is named by the order: its queue is the *)
(* part of the customer's queue that concerns this order.                  *)
(***************************************************************************)
EXTENDS Naturals, FiniteSets, Sequences, SequencesExt, Functions

CONSTANTS OrderIds,         \* the dates orders are filed under
          Admins,           \* administrators' devices
          Phones,           \* telephone numbers
          Totals,           \* sums an order can have
          Guest,            \* the account of a customer who is not logged in
          DoubleTap,        \* can "submit" be tapped twice before the page is gone
          MaxQueue          \* bound: writes an administrator's device holds back

ASSUME GuestAssumption == Guest \notin Phones
ASSUME DoubleTapAssumption == DoubleTap \in BOOLEAN
ASSUME MaxQueueAssumption == MaxQueue \in Nat \ {0}
ASSUME DevicesAssumption == OrderIds \cap Admins = {}

VARIABLES
    orders,     \* server: documents of 'orders'
    history,    \* server: totals of users/<phone>/orders/<date>
    refused,    \* orders with an update of their history the server refused
    outbox,     \* per device, the writes not yet acknowledged
    took,       \* per device, how many of them the server has taken
    met,        \* customers' writes, by kind and order, that the server has met
    again,      \* those of them it has met more than once
    synced,     \* per administrator, 'orders' as last received
    dialog,     \* per administrator, the dialog that is open
    placed,     \* orders whose checkout page has been submitted
    said        \* history, read by no guard: the new totals that were last to be
                \* confirmed of an order, each with the administrator

server == <<orders, history, refused, met, again>>
vars   == <<server, outbox, took, synced, dialog, placed, said>>

Devices == OrderIds \cup Admins

NoDialog == [kind |-> "none"]

Doc == [phone : Phones, total : Totals, status : {"new", "done"}]

-----------------------------------------------------------------------------
\* The writes the application issues.
SetOrder(o, phone, v)      == [op |-> "setOrder", order |-> o, phone |-> phone, total |-> v]
SetHistory(o, account, v)  == [op |-> "setHistory", order |-> o, phone |-> account, total |-> v]

\* Faulty variant, for the check of the properties: the new total is written
\* with set instead of update, as an order of its own.
UpdateTotalBySet(o, v) ==
    [op |-> "setOrder", order |-> o, phone |-> CHOOSE p \in Phones : TRUE, total |-> v]

UpdateTotal(o, v)          == [op |-> "updateTotal", order |-> o, total |-> v]
UpdateHistory(o, phone, v) == [op |-> "updateHistory", order |-> o, phone |-> phone, total |-> v]
UpdateStatus(o)            == [op |-> "updateStatus", order |-> o]
Delete(o)                  == [op |-> "delete", order |-> o]

\* set: the document is created or replaced.
SetDoc(docs, id, doc) ==
    [k \in DOMAIN docs \cup {id} |-> IF k = id THEN doc ELSE docs[k]]

\* What a write does to the collection 'orders'.
ApplyToOrders(docs, w) ==
    CASE w.op = "setOrder" ->
            SetDoc(docs, w.order, [phone |-> w.phone, total |-> w.total, status |-> "new"])
      [] w.op = "updateTotal" /\ w.order \in DOMAIN docs ->
            [docs EXCEPT ![w.order].total = w.total]
      [] w.op = "updateStatus" /\ w.order \in DOMAIN docs ->
            [docs EXCEPT ![w.order].status = "done"]
      [] w.op = "delete" -> Restrict(docs, DOMAIN docs \ {w.order})
      [] OTHER -> docs

\* What a write does to the customers' own copies.
ApplyToHistory(docs, w) ==
    CASE w.op = "setHistory" -> SetDoc(docs, <<w.phone, w.order>>, w.total)
      [] w.op = "updateHistory" /\ <<w.phone, w.order>> \in DOMAIN docs ->
            [docs EXCEPT ![<<w.phone, w.order>>] = w.total]
      [] OTHER -> docs

\* The orders on an administrator's screen: as last received, with the writes
\* of this device already applied.
Queued(a, w) == \E k \in DOMAIN outbox[a] : outbox[a][k] = w

Drawn(a) == {o \in DOMAIN synced[a] : ~ Queued(a, Delete(o))}

DrawnDone(a, o) == synced[a][o].status = "done" \/ Queued(a, UpdateStatus(o))

Enqueue(d, writes) == outbox' = [outbox EXCEPT ![d] = @ \o writes]

-----------------------------------------------------------------------------
Init ==
    /\ orders = << >> /\ history = << >> /\ refused = {}
    /\ outbox = [d \in Devices |-> << >>]
    /\ took = [d \in Devices |-> 0] /\ met = {} /\ again = {}
    /\ synced = [a \in Admins |-> << >>]
    /\ dialog = [a \in Admins |-> NoDialog]
    /\ placed = {} /\ said = {}

\* Faulty variant, for the check of the properties: a copy is written for
\* customers who are not logged in too.
SubmitAlwaysCopied(o, phone, account, v, twice) ==
    /\ o \notin placed
    /\ placed' = placed \cup {o}
    /\ LET once == <<SetOrder(o, phone, v), SetHistory(o, account, v)>>
       IN  Enqueue(o, IF twice THEN once \o once ELSE once)
    /\ UNCHANGED <<server, took, synced, dialog, said>>

\* The submit button, tapped once or twice before the page is replaced.  The
\* phone is what the form says, the account is SharedData's; they may differ.
Submit(o, phone, account, v, twice) ==
    /\ o \notin placed
    /\ placed' = placed \cup {o}
    /\ LET once == IF account = Guest
                   THEN <<SetOrder(o, phone, v)>>
                   ELSE <<SetOrder(o, phone, v), SetHistory(o, account, v)>>
       IN  Enqueue(o, IF twice THEN once \o once ELSE once)
    /\ UNCHANGED <<server, took, synced, dialog, said>>

\* The server takes the next write of a device.  After a refusal it takes no
\* more from the present connection; that it may here changes nothing it ends in.
Deliver(d) ==
    /\ took[d] < Len(outbox[d])
    /\ took' = [took EXCEPT ![d] = @ + 1]
    /\ LET w    == outbox[d][took[d] + 1]
           kind == <<w.op, w.order>>
       IN  /\ orders' = ApplyToOrders(orders, w)
           /\ history' = ApplyToHistory(history, w)
           /\ refused' = IF /\ w.op = "updateHistory"
                            /\ <<w.phone, w.order>> \notin DOMAIN history
                         THEN refused \cup {w.order}
                         ELSE refused
           /\ met' = IF d \in OrderIds THEN met \cup {kind} ELSE met
           /\ again' = IF d \in OrderIds /\ kind \in met THEN again \cup {kind} ELSE again
    /\ UNCHANGED <<outbox, synced, dialog, placed, said>>

\* The device reads the answer to its oldest write.  It goes on showing the
\* effect, of the write or of what it has received since.
Answered(d) ==
    /\ took[d] > 0
    /\ took' = [took EXCEPT ![d] = @ - 1]
    /\ outbox' = [outbox EXCEPT ![d] = Tail(@)]
    /\ \/ UNCHANGED synced
       \/ /\ d \in Admins
          /\ synced' = [synced EXCEPT ![d] = ApplyToOrders(@, Head(outbox[d]))]
    /\ UNCHANGED <<server, dialog, placed, said>>

\* The connection breaks, or the device is restarted, before the answers are
\* read: everything unanswered is sent again.
SendAgain(d) ==
    /\ took[d] > 0
    /\ took' = [took EXCEPT ![d] = 0]
    /\ UNCHANGED <<server, outbox, synced, dialog, placed, said>>

\* A snapshot of 'orders' reaches an administrator.
Receive(a) ==
    /\ synced[a] # orders
    /\ synced' = [synced EXCEPT ![a] = orders]
    /\ UNCHANGED <<server, outbox, took, dialog, placed, said>>

-----------------------------------------------------------------------------
\* The list of orders, which a dialog covers.
TapOn(a, o) ==
    /\ dialog[a] = NoDialog
    /\ o \in Drawn(a)
    /\ Len(outbox[a]) < MaxQueue

\* Faulty variant, for the check of the properties: any order can be deleted.
DeleteTappedUnchecked(a, o) ==
    /\ TapOn(a, o)
    /\ Enqueue(a, <<Delete(o)>>)
    /\ UNCHANGED <<server, took, synced, dialog, placed, said>>

\* The bin deletes an order that the screen shows as done, and says no to others.
DeleteTapped(a, o) ==
    /\ TapOn(a, o)
    /\ DrawnDone(a, o)
    /\ Enqueue(a, <<Delete(o)>>)
    /\ UNCHANGED <<server, took, synced, dialog, placed, said>>

\* Tapping the total or the status opens a dialog about the order as drawn.
OpenDialog(a, o, kind) ==
    /\ TapOn(a, o)
    /\ dialog' = [dialog EXCEPT ![a] =
                    [kind |-> kind, order |-> o, phone |-> synced[a][o].phone]]
    /\ UNCHANGED <<server, outbox, took, synced, placed, said>>

\* Tapping beside a dialog closes it.
Dismiss(a) ==
    /\ dialog[a] # NoDialog
    /\ dialog' = [dialog EXCEPT ![a] = NoDialog]
    /\ UNCHANGED <<server, outbox, took, synced, placed, said>>

\* The totals last confirmed of order o, after administrator a has said v.  An
\* earlier one still counts while the device of whoever said it has something of
\* it to send, or to read the answer of.
Owes(a, o) ==
    \E k \in DOMAIN outbox[a] :
        outbox[a][k].op \in {"updateTotal", "updateHistory"} /\ outbox[a][k].order = o

Says(a, o, v) ==
    said' = {s \in said : s.order # o \/ (s.admin # a /\ Owes(s.admin, o))}
              \cup {[admin |-> a, order |-> o, total |-> v]}

\* Faulty variant, for the check of the properties: the customer's copy is forgotten.
ConfirmTotalOfOrder(a, v) ==
    /\ dialog[a].kind = "total"
    /\ Enqueue(a, <<UpdateTotal(dialog[a].order, v)>>)
    /\ dialog' = [dialog EXCEPT ![a] = NoDialog]
    /\ Says(a, dialog[a].order, v)
    /\ UNCHANGED <<server, took, synced, placed>>

\* Faulty variant, for the check of the properties: a second total is not sent
\* while the first one waits.
ConfirmTotalOnce(a, v) ==
    /\ dialog[a].kind = "total"
    /\ Enqueue(a, IF Owes(a, dialog[a].order)
                  THEN << >>
                  ELSE <<UpdateTotal(dialog[a].order, v),
                         UpdateHistory(dialog[a].order, dialog[a].phone, v)>>)
    /\ dialog' = [dialog EXCEPT ![a] = NoDialog]
    /\ Says(a, dialog[a].order, v)
    /\ UNCHANGED <<server, took, synced, placed>>

\* A new total goes to the order and to the customer's copy, filed under the
\* phone of the order.
ConfirmTotal(a, v) ==
    /\ dialog[a].kind = "total"
    /\ Enqueue(a, <<UpdateTotal(dialog[a].order, v),
                    UpdateHistory(dialog[a].order, dialog[a].phone, v)>>)
    /\ dialog' = [dialog EXCEPT ![a] = NoDialog]
    /\ Says(a, dialog[a].order, v)
    /\ UNCHANGED <<server, took, synced, placed>>

\* "Is the order done?" - "Yes".
ConfirmDone(a) ==
    /\ dialog[a].kind = "status"
    /\ Enqueue(a, <<UpdateStatus(dialog[a].order)>>)
    /\ dialog' = [dialog EXCEPT ![a] = NoDialog]
    /\ UNCHANGED <<server, took, synced, placed, said>>

Next ==
    \/ \E o \in OrderIds, phone \in Phones, account \in Phones \cup {Guest},
          v \in Totals, twice \in {FALSE, DoubleTap} :
             Submit(o, phone, account, v, twice)
    \/ \E d \in Devices : Deliver(d) \/ Answered(d) \/ SendAgain(d)
    \/ \E a \in Admins : Receive(a)
    \/ \E a \in Admins, o \in OrderIds : DeleteTapped(a, o)
    \/ \E a \in Admins, o \in OrderIds, kind \in {"total", "status"} :
          OpenDialog(a, o, kind)
    \/ \E a \in Admins : Dismiss(a)
    \/ \E a \in Admins, v \in Totals : ConfirmTotal(a, v)
    \/ \E a \in Admins : ConfirmDone(a)

Spec == Init /\ [][Next]_vars

\* A device that has something to send is connected again and again, and for
\* long enough to read the next answer (RemoteStore: EveryWriteIsDecided).
Fairness == \A d \in Devices : WF_vars(Deliver(d)) /\ SF_vars(Answered(d))

FairSpec == Spec /\ Fairness

-----------------------------------------------------------------------------
\* Documents and queues have the shapes the handlers give them, and nothing is
\* on the server or on a screen that no customer has placed.
TypeOK ==
    /\ DOMAIN orders \subseteq placed /\ \A o \in DOMAIN orders : orders[o] \in Doc
    /\ DOMAIN history \subseteq Phones \X placed
    /\ \A k \in DOMAIN history : history[k] \in Totals
    /\ refused \subseteq placed
    /\ DOMAIN outbox = Devices
    /\ \A d \in Devices : \A k \in DOMAIN outbox[d] : outbox[d][k].order \in placed
    /\ \A a \in Admins : /\ DOMAIN synced[a] \subseteq placed
                         /\ dialog[a] # NoDialog => dialog[a].order \in placed
    /\ placed \subseteq OrderIds
    /\ took \in [Devices -> Nat] /\ \A d \in Devices : took[d] <= Len(outbox[d])
    /\ met \subseteq {"setOrder", "setHistory"} \X placed /\ again \subseteq met
    /\ said \subseteq [admin : Admins, order : placed, total : Totals]

\* The server has met the customer's order, or its copy, more than once: the
\* page was submitted twice, or the write was sent again.
Renewed(o) == <<"setOrder", o>> \in again
Rewritten(o) == Renewed(o) \/ <<"setHistory", o>> \in again

\* Of an order that several administrators changed, each while another had not
\* finished sending, the server may take one pair in the middle of the other.
LastTotals(o) == {s.total : s \in {t \in said : t.order = o}}
Contended(o)  == \E s, t \in said : s.order = o /\ t.order = o /\ s.admin # t.admin

Quiet == \A d \in Devices : outbox[d] = << >>

\* When everything has been sent, the shop's total of an order and the total of
\* the customer's copy are the same, however many administrators change totals
\* one after the other and however often their writes are sent again: unless
\* the server refused an update of the copy, the customer's own writes came
\* twice, or two administrators changed this order at the same time.
CopiesAgreeWhenQuiet ==
    Quiet => \A o \in DOMAIN orders \ refused :
                (/\ <<orders[o].phone, o>> \in DOMAIN history
                 /\ ~ Rewritten(o) /\ ~ Contended(o))
                    => history[<<orders[o].phone, o>>] = orders[o].total

\* When everything has been sent, an order whose total was changed has one of
\* the totals that were last confirmed of it, and so has the customer's copy: of
\* administrators who change it at the same time one wins, and no total that was
\* over before comes back, from a queue or because a write is sent again.
LastTotalsCount ==
    Quiet => \A o \in {s.order : s \in said} \cap DOMAIN orders :
                /\ Renewed(o) \/ orders[o].total \in LastTotals(o)
                /\ \/ o \in refused \/ Rewritten(o)
                   \/ /\ <<orders[o].phone, o>> \in DOMAIN history
                      /\ history[<<orders[o].phone, o>>] \in LastTotals(o)

\* An order that an administrator confirmed as done becomes done on the server
\* and stays so until it is deleted, however late the write is sent, whatever
\* other administrators have queued and however often writes are sent again;
\* only the customer's own order, met a second time, undoes it.
ConfirmedStaysDone ==
    \A a \in Admins, o \in OrderIds :
        Queued(a, UpdateStatus(o))
            ~> [](o \notin DOMAIN orders \/ orders[o].status = "done" \/ Renewed(o))

-----------------------------------------------------------------------------
\* The stage of an order as OrderLifecycle sees it: it is deleted when the
\* server has met it and does not have it.
Stage(o) == CASE o \in DOMAIN orders -> orders[o].status
              [] o \notin DOMAIN orders /\ <<"setOrder", o>> \notin met -> "none"
              [] OTHER -> "deleted"

Lifecycle == INSTANCE OrderLifecycle WITH
    stage   <- [o \in OrderIds |-> Stage(o)],
    renewed <- {o \in OrderIds : Renewed(o)}

\* Several administrators with stale lists, queued writes and writes sent again
\* still move every order through one life, unless the customer's order itself
\* reaches the server twice.
ImplementsOrderLifecycle == Lifecycle!Spec
=============================================================================
