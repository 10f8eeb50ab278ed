---------------------------- MODULE OrdersProofs ----------------------------
(***************************************************************************)
(* Proofs about Orders for every set of orders, administrators, phones and *)
(* totals: its types; that every order has one life however many           *)
(* administrators work on it and however often writes are sent again,      *)
(* unless the customer's own order reaches the server twice; and that new  *)
(* totals reach the order and its copy alike.                              *)
(***************************************************************************)
EXTENDS Orders, SequenceTheorems, TLAPS

\* What the server and an administrator's screen can hold.
Docs == UNION {[S -> Doc] : S \in SUBSET OrderIds}

\* The writes a customer's and an administrator's device issue.
CustomerWrite ==
    [op : {"setOrder", "setHistory"}, order : OrderIds, phone : Phones, total : Totals]

AdminWrite ==
    [op : {"updateTotal"}, order : OrderIds, total : Totals]
      \cup [op : {"updateHistory"}, order : OrderIds, phone : Phones, total : Totals]
      \cup [op : {"updateStatus", "delete"}, order : OrderIds]

Dialogs ==
    {NoDialog} \cup [kind : {"total", "status"}, order : OrderIds, phone : Phones]

\* An order the server has not met yet.
NotYet(o) == <<"setOrder", o>> \notin met

\* No administrator's screen, dialog or queue mentions o.
Unknown(o) ==
    /\ o \notin DOMAIN orders
    /\ \A a \in Admins :
          /\ o \notin DOMAIN synced[a]
          /\ dialog[a] # NoDialog => dialog[a].order # o
          /\ \A k \in DOMAIN outbox[a] : outbox[a][k].order # o

\* An order that is done or gone, or that the customer placed once more.  For
\* an order the server has met this is for good.
Settled(o) == o \in DOMAIN orders => orders[o].status = "done"

Sure(o) == Renewed(o) \/ Settled(o)

\* The write of device d that the server takes next.
NextWrite(d) == outbox[d][took[d] + 1]

Types ==
    /\ placed \in SUBSET OrderIds
    /\ orders \in Docs
    /\ synced \in [Admins -> Docs]
    /\ dialog \in [Admins -> Dialogs]
    /\ DOMAIN outbox = Devices
    /\ \A o \in OrderIds : outbox[o] \in Seq(CustomerWrite)
    /\ \A a \in Admins : outbox[a] \in Seq(AdminWrite)
    /\ took \in [Devices -> Nat]
    /\ \A d \in Devices : took[d] <= Len(outbox[d])
    /\ met \subseteq {"setOrder", "setHistory"} \X placed
    /\ again \subseteq met

\* A customer's queue holds writes about its own order.
OwnWrites ==
    \A o \in OrderIds : \A k \in DOMAIN outbox[o] :
        outbox[o][k].order = o /\ o \in placed

NothingTooEarly == \A o \in OrderIds : NotYet(o) => Unknown(o)

\* Done on a screen means done or gone on the server.
ScreensNotAhead ==
    \A a \in Admins : \A o \in DOMAIN synced[a] :
        synced[a][o].status = "done" => Sure(o)

\* A deletion is queued for a settled order or behind the done mark.
DeletesAreCovered ==
    \A a \in Admins : \A k \in DOMAIN outbox[a] :
        outbox[a][k].op = "delete" =>
            \/ Sure(outbox[a][k].order)
            \/ \E j \in DOMAIN outbox[a] :
                  j < k /\ outbox[a][j] = UpdateStatus(outbox[a][k].order)

\* A done mark that the server has taken, answered or not, has settled its order.
MarksTaken ==
    \A a \in Admins : \A k \in DOMAIN outbox[a] :
        k <= took[a] /\ outbox[a][k].op = "updateStatus" => Sure(outbox[a][k].order)

LifeInv ==
    /\ Types /\ OwnWrites /\ NothingTooEarly
    /\ ScreensNotAhead /\ DeletesAreCovered /\ MarksTaken

-----------------------------------------------------------------------------
\* The facts about a collection that the provers need.
LEMMA DocsFacts ==
    ASSUME NEW docs \in Docs
    PROVE  /\ DOMAIN docs \in SUBSET OrderIds
           /\ docs \in [DOMAIN docs -> Doc]
           /\ \A o \in DOMAIN docs : docs[o].status \in {"new", "done"}
  BY DEF Docs, Doc

LEMMA MakeDocs ==
    ASSUME NEW S \in SUBSET OrderIds, NEW f \in [S -> Doc]
    PROVE  f \in Docs
  BY DEF Docs

\* A customer's set of an order files it as new and leaves the others alone.
LEMMA SetOrderApplied ==
    ASSUME NEW docs \in Docs, NEW w \in CustomerWrite, w.op = "setOrder"
    PROVE  LET r == ApplyToOrders(docs, w)
           IN  /\ r \in Docs
               /\ DOMAIN r = DOMAIN docs \cup {w.order}
               /\ r[w.order].status = "new"
               /\ \A o \in DOMAIN docs : o # w.order => r[o] = docs[o]
<1> DEFINE new == [phone |-> w.phone, total |-> w.total, status |-> "new"]
           r   == ApplyToOrders(docs, w)
<1>1. new \in Doc /\ w.order \in OrderIds
  BY DEF CustomerWrite, Doc
<1>2. r = SetDoc(docs, w.order, new)
  BY DEF ApplyToOrders
<1>3. r \in [DOMAIN docs \cup {w.order} -> Doc]
  BY <1>1, <1>2, DocsFacts DEF SetDoc
<1>4. r \in Docs
  BY <1>1, <1>3, DocsFacts, MakeDocs
<1> QED
  BY <1>2, <1>4, DocsFacts DEF SetDoc

\* The write of a customer's own copy leaves the shop's orders alone.
LEMMA SetHistoryApplied ==
    ASSUME NEW docs \in Docs, NEW w \in CustomerWrite, w.op = "setHistory"
    PROVE  ApplyToOrders(docs, w) = docs
  BY DEF ApplyToOrders

\* An administrator's write never files an order, deletes at most its own, and
\* changes a status only to done.
LEMMA AdminApplied ==
    ASSUME NEW docs \in Docs, NEW w \in AdminWrite
    PROVE  LET r == ApplyToOrders(docs, w)
           IN  /\ r \in Docs
               /\ w.op = "delete" => DOMAIN r = DOMAIN docs \ {w.order}
               /\ w.op # "delete" => DOMAIN r = DOMAIN docs
               /\ \A o \in DOMAIN r :
                     \/ r[o].status = docs[o].status
                     \/ w.op = "updateStatus" /\ o = w.order /\ r[o].status = "done"
               /\ w.op = "updateStatus" /\ w.order \in DOMAIN r
                     => r[w.order].status = "done"
<1> DEFINE r == ApplyToOrders(docs, w)
<1> SUFFICES /\ r \in Docs
             /\ w.op = "delete" => DOMAIN r = DOMAIN docs \ {w.order}
             /\ w.op # "delete" => DOMAIN r = DOMAIN docs
             /\ \A o \in DOMAIN r :
                   \/ r[o].status = docs[o].status
                   \/ w.op = "updateStatus" /\ o = w.order /\ r[o].status = "done"
             /\ w.op = "updateStatus" /\ w.order \in DOMAIN r
                   => r[w.order].status = "done"
  OBVIOUS
<1>0. DOMAIN docs \in SUBSET OrderIds /\ docs \in [DOMAIN docs -> Doc]
  BY DocsFacts
<1>1. CASE w.op = "updateTotal" /\ w.order \in DOMAIN docs
  <2>1. r = [docs EXCEPT ![w.order].total = w.total]
    BY <1>1 DEF ApplyToOrders
  <2>2. [docs[w.order] EXCEPT !.total = w.total] \in Doc
    <3>1. w.total \in Totals
      BY <1>1 DEF AdminWrite
    <3> QED
      BY <1>0, <1>1, <3>1 DEF Doc
  <2>3. r \in [DOMAIN docs -> Doc]
    BY <1>0, <2>1, <2>2
  <2>4. \A o \in DOMAIN docs : r[o].status = docs[o].status
    BY <1>0, <2>1 DEF Doc
  <2>5. r \in Docs /\ DOMAIN r = DOMAIN docs
    BY <1>0, <2>3, MakeDocs
  <2> HIDE DEF r
  <2> QED
    BY <1>1, <2>4, <2>5
<1>2. CASE w.op = "updateStatus" /\ w.order \in DOMAIN docs
  <2>1. r = [docs EXCEPT ![w.order].status = "done"]
    BY <1>2 DEF ApplyToOrders
  <2>2. [docs[w.order] EXCEPT !.status = "done"] \in Doc
    BY <1>0, <1>2 DEF Doc
  <2>3. r \in [DOMAIN docs -> Doc]
    BY <1>0, <2>1, <2>2
  <2>4. /\ r[w.order].status = "done"
        /\ \A o \in DOMAIN docs : o # w.order => r[o] = docs[o]
    BY <1>0, <1>2, <2>1 DEF Doc
  <2>5. r \in Docs /\ DOMAIN r = DOMAIN docs
    BY <1>0, <2>3, MakeDocs
  <2> HIDE DEF r
  <2> QED
    BY <1>2, <2>4, <2>5
<1>3. CASE w.op = "delete"
  <2>1. r = [o \in DOMAIN docs \ {w.order} |-> docs[o]]
    BY <1>3 DEF ApplyToOrders, Restrict
  <2>2. r \in [DOMAIN docs \ {w.order} -> Doc]
    BY <1>0, <2>1
  <2>3. DOMAIN docs \ {w.order} \in SUBSET OrderIds
    BY <1>0
  <2>4. r \in Docs
    BY <2>2, <2>3, MakeDocs
  <2> QED
    BY <1>3, <2>1, <2>4
<1>4. CASE /\ w.op # "delete"
           /\ w.op \in {"updateTotal", "updateStatus"} => w.order \notin DOMAIN docs
  <2>1. w.op # "setOrder"
    BY DEF AdminWrite
  <2>2. r = docs
    BY <1>4, <2>1 DEF ApplyToOrders
  <2> QED
    BY <1>4, <2>2
<1> QED
  BY <1>1, <1>2, <1>3, <1>4

\* What remains of a sequence without its first element.
LEMMA TailFacts ==
    ASSUME NEW S, NEW s \in Seq(S), s # << >>
    PROVE  /\ Tail(s) \in Seq(S) /\ Len(Tail(s)) = Len(s) - 1
           /\ 1 \in DOMAIN s /\ Head(s) = s[1]
           /\ \A k \in DOMAIN Tail(s) :
                 k \in Nat /\ k + 1 \in DOMAIN s /\ Tail(s)[k] = s[k + 1]
           /\ \A j \in DOMAIN s : j # 1 =>
                 j \in Nat /\ j - 1 \in DOMAIN Tail(s) /\ Tail(s)[j - 1] = s[j]
  OBVIOUS

\* What remains of a sequence behind which another one is put.
LEMMA AppendedFacts ==
    ASSUME NEW S, NEW s \in Seq(S), NEW t \in Seq(S)
    PROVE  /\ s \o t \in Seq(S) /\ Len(s \o t) = Len(s) + Len(t)
           /\ DOMAIN s = 1 .. Len(s) /\ Len(s) \in Nat /\ Len(t) \in Nat
           /\ DOMAIN (s \o t) = 1 .. (Len(s) + Len(t))
           /\ \A k \in DOMAIN s : (s \o t)[k] = s[k]
           /\ \A k \in DOMAIN (s \o t) : k \notin DOMAIN s =>
                 /\ k - Len(s) \in DOMAIN t /\ (s \o t)[k] = t[k - Len(s)]
                 /\ \A j \in DOMAIN s : j < k
<1>1. /\ s \o t \in Seq(S) /\ Len(s \o t) = Len(s) + Len(t)
      /\ DOMAIN s = 1 .. Len(s) /\ Len(s) \in Nat /\ Len(t) \in Nat
      /\ DOMAIN (s \o t) = 1 .. (Len(s) + Len(t))
  OBVIOUS
<1>2. \A k \in DOMAIN s : (s \o t)[k] = s[k]
  OBVIOUS
<1>3. \A k \in DOMAIN (s \o t) : k \notin DOMAIN s =>
         k - Len(s) \in DOMAIN t /\ (s \o t)[k] = t[k - Len(s)]
  OBVIOUS
<1>4. \A k \in DOMAIN (s \o t) : k \notin DOMAIN s => \A j \in DOMAIN s : j < k
  BY <1>1
<1> QED
  BY <1>1, <1>2, <1>3, <1>4

-----------------------------------------------------------------------------
\* The server and the screens start empty, and nobody has queued anything.
LEMMA InitLife == Init => LifeInv
<1> SUFFICES ASSUME Init PROVE LifeInv
  OBVIOUS
<1>1. << >> \in Docs
  <2>1. << >> \in [{} -> Doc]
    OBVIOUS
  <2> QED
    BY <2>1, MakeDocs
<1>2. \A d \in Devices : outbox[d] = << >> /\ took[d] = 0
  BY DEF Init
<1>3. Types
  <2>0. << >> \in Seq(CustomerWrite) /\ << >> \in Seq(AdminWrite)
    OBVIOUS
  <2>1. \A o \in OrderIds : outbox[o] \in Seq(CustomerWrite)
    BY <1>2, <2>0, Zenon DEF Devices
  <2>2. \A a \in Admins : outbox[a] \in Seq(AdminWrite)
    BY <1>2, <2>0, Zenon DEF Devices
  <2>3. took \in [Devices -> Nat] /\ \A d \in Devices : took[d] <= Len(outbox[d])
    BY <1>2 DEF Init
  <2> QED
    BY <1>1, <2>1, <2>2, <2>3 DEF Types, Init, Dialogs
<1>4. OwnWrites
  BY <1>2 DEF OwnWrites, Devices
<1>5. NothingTooEarly
  BY <1>2 DEF NothingTooEarly, Unknown, Init, Devices
<1>6. ScreensNotAhead
  BY DEF ScreensNotAhead, Init
<1>7. DeletesAreCovered /\ MarksTaken
  BY <1>2 DEF DeletesAreCovered, MarksTaken, Devices
<1> QED
  BY <1>3, <1>4, <1>5, <1>6, <1>7 DEF LifeInv

\* Whatever a screen, a dialog or a queue of an administrator mentions has
\* reached the server before.
LEMMA MentionedIsKnown ==
    ASSUME LifeInv, NEW a \in Admins
    PROVE  /\ \A o \in DOMAIN synced[a] : o \in OrderIds /\ ~ NotYet(o)
           /\ dialog[a] # NoDialog =>
                 /\ dialog[a].kind \in {"total", "status"}
                 /\ dialog[a].order \in OrderIds /\ ~ NotYet(dialog[a].order)
                 /\ dialog[a].phone \in Phones
           /\ \A k \in DOMAIN outbox[a] :
                 /\ outbox[a][k] \in AdminWrite
                 /\ outbox[a][k].order \in OrderIds
                 /\ ~ NotYet(outbox[a][k].order)
<1> USE DEF LifeInv
<1>1. /\ synced[a] \in Docs /\ dialog[a] \in Dialogs
      /\ outbox[a] \in Seq(AdminWrite)
  BY DEF Types
<1>2. \A o \in DOMAIN synced[a] : o \in OrderIds
  BY <1>1, DocsFacts
<1>3. dialog[a] # NoDialog =>
         dialog[a] \in [kind : {"total", "status"}, order : OrderIds, phone : Phones]
  BY <1>1 DEF Dialogs
<1>4. \A k \in DOMAIN outbox[a] :
         outbox[a][k] \in AdminWrite /\ outbox[a][k].order \in OrderIds
  <2>1. \A k \in DOMAIN outbox[a] : outbox[a][k] \in AdminWrite
    BY <1>1
  <2>2. \A w \in AdminWrite : w.order \in OrderIds
    BY DEF AdminWrite
  <2> QED
    BY <2>1, <2>2
<1>5. \A o \in OrderIds : NotYet(o) => Unknown(o)
  BY DEF NothingTooEarly
<1> QED
  BY <1>2, <1>3, <1>4, <1>5 DEF Unknown

-----------------------------------------------------------------------------
\* An administrator queues writes about an order the server has: nothing else
\* changes, except that dialogs may close.
LEMMA EnqueueKeeps ==
    ASSUME LifeInv,
           NEW a \in Admins, NEW o \in OrderIds, NEW ws \in Seq(AdminWrite),
           ~ NotYet(o), Enqueue(a, ws),
           \A k \in DOMAIN ws : ws[k].order = o,
           \A k \in DOMAIN ws : ws[k].op = "delete" =>
               Sure(o) \/ Queued(a, UpdateStatus(o)),
           \A b \in Admins : dialog'[b] \in {dialog[b], NoDialog},
           dialog' \in [Admins -> Dialogs],
           UNCHANGED <<server, took, synced, placed>>
    PROVE  LifeInv'
<1> USE DEF LifeInv
<1>a. /\ a \in Devices /\ a \notin OrderIds
      /\ outbox' = [outbox EXCEPT ![a] = outbox[a] \o ws]
  BY DevicesAssumption DEF Devices, Enqueue
<1>b. DOMAIN outbox = Devices
  BY DEF Types
<1>c. outbox'[a] = outbox[a] \o ws
  BY <1>a, <1>b
<1>d. \A d \in Devices : d # a => outbox'[d] = outbox[d]
  BY <1>a, <1>b
<1>e. \A x \in OrderIds : outbox'[x] = outbox[x]
  BY <1>a, <1>d DEF Devices
<1>f. outbox[a] \in Seq(AdminWrite)
  BY DEF Types
<1>g. /\ outbox'[a] \in Seq(AdminWrite) /\ Len(outbox'[a]) = Len(outbox[a]) + Len(ws)
      /\ DOMAIN outbox[a] = 1 .. Len(outbox[a])
      /\ Len(outbox[a]) \in Nat /\ Len(ws) \in Nat
      /\ DOMAIN outbox[a] \subseteq DOMAIN outbox'[a]
      /\ \A k \in DOMAIN outbox[a] : outbox'[a][k] = outbox[a][k]
      /\ \A k \in DOMAIN outbox'[a] : k \notin DOMAIN outbox[a] =>
            /\ \E i \in DOMAIN ws : outbox'[a][k] = ws[i]
            /\ \A j \in DOMAIN outbox[a] : j < k
  BY <1>c, <1>f, AppendedFacts
<1>h. UNCHANGED <<orders, met, again, took>>
  BY DEF server
<1>i. \A x : (Sure(x)' <=> Sure(x)) /\ (NotYet(x)' <=> NotYet(x))
  BY <1>h DEF Sure, Settled, Renewed, NotYet
<1>1. Types'
  <2>1. \A b \in Admins : outbox'[b] \in Seq(AdminWrite)
    BY <1>d, <1>g DEF Types, Devices
  <2>2. \A x \in OrderIds : outbox'[x] \in Seq(CustomerWrite)
    BY <1>e DEF Types
  <2>3. DOMAIN outbox' = Devices
    BY <1>a, <1>b
  <2>4. \A d \in Devices : took[d] <= Len(outbox'[d])
    <3>1. took[a] <= Len(outbox'[a])
      BY <1>a, <1>g DEF Types
    <3> QED
      BY <1>d, <3>1 DEF Types
  <2> QED
    BY <1>h, <2>1, <2>2, <2>3, <2>4 DEF Types
<1>2. OwnWrites'
  BY <1>e DEF OwnWrites
<1>3. NothingTooEarly'
  <2> SUFFICES ASSUME NEW x \in OrderIds, NotYet(x)' PROVE Unknown(x)'
    BY DEF NothingTooEarly
  <2>1. Unknown(x) /\ x # o
    BY <1>i DEF NothingTooEarly
  <2>2. \A b \in Admins : \A k \in DOMAIN outbox'[b] : outbox'[b][k].order # x
    <3> SUFFICES ASSUME NEW b \in Admins, NEW k \in DOMAIN outbox'[b]
                 PROVE  outbox'[b][k].order # x
      OBVIOUS
    <3>1. CASE b # a
      BY <1>d, <2>1, <3>1 DEF Unknown, Devices
    <3>2. CASE b = a /\ k \in DOMAIN outbox[a]
      BY <1>g, <2>1, <3>2 DEF Unknown
    <3>3. CASE b = a /\ k \notin DOMAIN outbox[a]
      BY <1>g, <2>1, <3>3
    <3> QED
      BY <3>1, <3>2, <3>3
  <2>3. \A b \in Admins : dialog'[b] # NoDialog => dialog'[b].order # x
    BY <2>1 DEF Unknown
  <2> QED
    BY <1>h, <2>1, <2>2, <2>3 DEF Unknown
<1>4. ScreensNotAhead'
  BY <1>i DEF ScreensNotAhead
<1>5. DeletesAreCovered'
  <2> SUFFICES ASSUME NEW b \in Admins, NEW k \in DOMAIN outbox'[b],
                      outbox'[b][k].op = "delete"
               PROVE  \/ Sure(outbox'[b][k].order)
                      \/ \E j \in DOMAIN outbox'[b] :
                            j < k /\ outbox'[b][j] = UpdateStatus(outbox'[b][k].order)
    BY <1>i DEF DeletesAreCovered
  <2>1. CASE b # a
    BY <1>d, <2>1 DEF DeletesAreCovered, Devices
  <2>2. CASE b = a /\ k \in DOMAIN outbox[a]
    <3>1. \/ Sure(outbox[a][k].order)
          \/ \E j \in DOMAIN outbox[a] :
                j < k /\ outbox[a][j] = UpdateStatus(outbox[a][k].order)
      BY <1>g, <2>2 DEF DeletesAreCovered
    <3> QED
      BY <1>g, <2>2, <3>1
  <2>3. CASE b = a /\ k \notin DOMAIN outbox[a]
    <3>1. outbox'[a][k].order = o /\ (Sure(o) \/ Queued(a, UpdateStatus(o)))
      BY <1>g, <2>3
    <3>2. CASE Sure(o)
      BY <2>3, <3>1, <3>2
    <3>3. CASE Queued(a, UpdateStatus(o))
      <4>1. PICK j \in DOMAIN outbox[a] : outbox[a][j] = UpdateStatus(o)
        BY <3>3 DEF Queued
      <4>2. j \in DOMAIN outbox'[a] /\ j < k
        BY <1>g, <2>3, <4>1
      <4>3. outbox'[a][j] = UpdateStatus(outbox'[a][k].order)
        BY <1>g, <3>1, <4>1
      <4> QED
        BY <2>3, <4>2, <4>3
    <3> QED
      BY <3>1, <3>2, <3>3
  <2> QED
    BY <2>1, <2>2, <2>3
<1>6. MarksTaken'
  <2> SUFFICES ASSUME NEW b \in Admins, NEW k \in DOMAIN outbox'[b],
                      k <= took[b], outbox'[b][k].op = "updateStatus"
               PROVE  Sure(outbox'[b][k].order)
    BY <1>h, <1>i DEF MarksTaken
  <2>1. k \in DOMAIN outbox[b] /\ outbox'[b][k] = outbox[b][k]
    <3>1. CASE b # a
      BY <1>d, <3>1 DEF Devices
    <3>2. CASE b = a
      <4>1. k \in Nat /\ k >= 1
        BY <1>g, <3>2
      <4>2. took[a] \in Nat /\ took[a] <= Len(outbox[a])
        BY <1>a DEF Types
      <4>3. k \in DOMAIN outbox[a]
        BY <1>g, <3>2, <4>1, <4>2
      <4> QED
        BY <1>g, <3>2, <4>3
    <3> QED
      BY <3>1, <3>2
  <2> QED
    BY <2>1 DEF MarksTaken
<1> QED
  BY <1>1, <1>2, <1>3, <1>4, <1>5, <1>6

\* A page is submitted: its writes wait in the customer's queue, and the order
\* is still unknown to everybody else.
LEMMA SubmitKeeps ==
    ASSUME LifeInv,
           NEW o \in OrderIds, NEW phone \in Phones,
           NEW account \in Phones \cup {Guest}, NEW v \in Totals,
           NEW twice \in BOOLEAN, Submit(o, phone, account, v, twice)
    PROVE  LifeInv'
<1> USE DEF LifeInv
<1> DEFINE once == IF account = Guest
                   THEN <<SetOrder(o, phone, v)>>
                   ELSE <<SetOrder(o, phone, v), SetHistory(o, account, v)>>
           ws   == IF twice THEN once \o once ELSE once
<1>a. /\ placed' = placed \cup {o}
      /\ outbox' = [outbox EXCEPT ![o] = outbox[o] \o ws]
      /\ UNCHANGED <<orders, met, again, took, synced, dialog>>
  BY DEF Submit, Enqueue, server
<1>b. once \in Seq(CustomerWrite) /\ \A k \in DOMAIN once : once[k].order = o
  <2>1. SetOrder(o, phone, v) \in CustomerWrite /\ SetOrder(o, phone, v).order = o
    BY DEF SetOrder, CustomerWrite
  <2>2. account # Guest => /\ SetHistory(o, account, v) \in CustomerWrite
                           /\ SetHistory(o, account, v).order = o
    BY DEF SetHistory, CustomerWrite
  <2> QED
    BY <2>1, <2>2
<1> HIDE DEF once
<1>c. ws \in Seq(CustomerWrite) /\ \A k \in DOMAIN ws : ws[k].order = o
  <2>1. /\ once \o once \in Seq(CustomerWrite)
        /\ \A k \in DOMAIN (once \o once) : (once \o once)[k].order = o
    BY <1>b, AppendedFacts
  <2> QED
    BY <1>b, <2>1
<1> HIDE DEF ws
<1>d. o \in Devices /\ o \notin Admins /\ outbox[o] \in Seq(CustomerWrite)
  BY DevicesAssumption DEF Devices, Types
<1>e. outbox'[o] = outbox[o] \o ws
  BY <1>a, <1>d DEF Types
<1>f. \A d \in Devices : d # o => outbox'[d] = outbox[d]
  BY <1>a DEF Types
<1>g. \A a \in Admins : outbox'[a] = outbox[a]
  BY <1>d, <1>f DEF Devices
<1>h. \A x : (Sure(x)' <=> Sure(x)) /\ (NotYet(x)' <=> NotYet(x))
  BY <1>a DEF Sure, Settled, Renewed, NotYet
<1>i. /\ outbox'[o] \in Seq(CustomerWrite)
      /\ Len(outbox[o]) \in Nat /\ Len(ws) \in Nat
      /\ Len(outbox'[o]) = Len(outbox[o]) + Len(ws)
  BY <1>c, <1>d, <1>e, AppendedFacts
<1>1. Types'
  <2>1. \A x \in OrderIds : outbox'[x] \in Seq(CustomerWrite)
    BY <1>f, <1>i DEF Types, Devices
  <2>2. DOMAIN outbox' = Devices /\ placed' \in SUBSET OrderIds
    BY <1>a DEF Types
  <2>3. \A a \in Admins : outbox'[a] \in Seq(AdminWrite)
    BY <1>g DEF Types
  <2>4. \A d \in Devices : took[d] <= Len(outbox'[d])
    <3>1. took[o] <= Len(outbox'[o])
      BY <1>d, <1>i DEF Types
    <3> QED
      BY <1>f, <3>1 DEF Types
  <2>5. met \subseteq {"setOrder", "setHistory"} \X placed' /\ again \subseteq met
    BY <1>a DEF Types
  <2> QED
    BY <1>a, <2>1, <2>2, <2>3, <2>4, <2>5 DEF Types
<1>2. OwnWrites'
  <2> SUFFICES ASSUME NEW x \in OrderIds, NEW k \in DOMAIN outbox'[x]
               PROVE  outbox'[x][k].order = x /\ x \in placed'
    BY DEF OwnWrites
  <2>1. CASE x = o
    <3>1. /\ \A j \in DOMAIN outbox[o] : outbox'[o][j] = outbox[o][j]
          /\ \A j \in DOMAIN outbox'[o] : j \notin DOMAIN outbox[o] =>
                \E i \in DOMAIN ws : outbox'[o][j] = ws[i]
      BY <1>c, <1>d, <1>e, AppendedFacts
    <3> QED
      BY <1>a, <1>c, <2>1, <3>1 DEF OwnWrites
  <2>2. CASE x # o
    BY <1>a, <1>f, <2>2 DEF OwnWrites, Devices
  <2> QED
    BY <2>1, <2>2
<1>3. NothingTooEarly'
  <2> SUFFICES ASSUME NEW x \in OrderIds, NotYet(x)' PROVE Unknown(x)'
    BY DEF NothingTooEarly
  <2>1. Unknown(x)
    BY <1>h DEF NothingTooEarly
  <2> QED
    BY <1>a, <1>g, <2>1 DEF Unknown
<1>4. ScreensNotAhead'
  BY <1>a, <1>h DEF ScreensNotAhead
<1>5. DeletesAreCovered'
  <2> SUFFICES ASSUME NEW a \in Admins, NEW k \in DOMAIN outbox[a],
                      outbox[a][k].op = "delete"
               PROVE  \/ Sure(outbox[a][k].order)
                      \/ \E j \in DOMAIN outbox[a] :
                            j < k /\ outbox[a][j] = UpdateStatus(outbox[a][k].order)
    BY <1>g, <1>h DEF DeletesAreCovered
  <2> QED
    BY DEF DeletesAreCovered
<1>6. MarksTaken'
  BY <1>a, <1>g, <1>h DEF MarksTaken
<1> QED
  BY <1>1, <1>2, <1>3, <1>4, <1>5, <1>6

\* A snapshot shows the server, which is never behind itself.
LEMMA ReceiveKeeps ==
    ASSUME LifeInv, NEW a \in Admins, Receive(a)
    PROVE  LifeInv'
<1> USE DEF LifeInv
<1>a. /\ synced' = [synced EXCEPT ![a] = orders]
      /\ UNCHANGED <<orders, met, again, outbox, took, dialog, placed>>
  BY DEF Receive, server
<1>b. \A b \in Admins : synced'[b] = orders \/ synced'[b] = synced[b]
  BY <1>a DEF Types
<1>c. \A x : (Sure(x)' <=> Sure(x)) /\ (NotYet(x)' <=> NotYet(x))
  BY <1>a DEF Sure, Settled, Renewed, NotYet
<1>1. Types'
  BY <1>a DEF Types
<1>2. OwnWrites'
  BY <1>a DEF OwnWrites
<1>3. NothingTooEarly'
  BY <1>a, <1>b, <1>c DEF NothingTooEarly, Unknown
<1>4. ScreensNotAhead'
  BY <1>a, <1>b, <1>c DEF ScreensNotAhead, Sure, Settled
<1>5. DeletesAreCovered'
  BY <1>a, <1>c DEF DeletesAreCovered
<1>6. MarksTaken'
  BY <1>a, <1>c DEF MarksTaken
<1> QED
  BY <1>1, <1>2, <1>3, <1>4, <1>5, <1>6

\* Dialogs are about orders on the screen.
LEMMA DialogKeeps ==
    ASSUME LifeInv, dialog' \in [Admins -> Dialogs],
           \A a \in Admins : \/ dialog'[a] \in {dialog[a], NoDialog}
                             \/ dialog'[a].order \in DOMAIN synced[a],
           UNCHANGED <<server, outbox, took, synced, placed>>
    PROVE  LifeInv'
<1> USE DEF LifeInv
<1>a. UNCHANGED <<orders, met, again>>
  BY DEF server
<1>b. \A x : (Sure(x)' <=> Sure(x)) /\ (NotYet(x)' <=> NotYet(x))
  BY <1>a DEF Sure, Settled, Renewed, NotYet
<1>1. Types'
  BY <1>a DEF Types
<1>2. OwnWrites'
  BY DEF OwnWrites
<1>3. NothingTooEarly'
  BY <1>a, <1>b DEF NothingTooEarly, Unknown
<1>4. ScreensNotAhead'
  BY <1>b DEF ScreensNotAhead
<1>5. DeletesAreCovered' /\ MarksTaken'
  BY <1>b DEF DeletesAreCovered, MarksTaken
<1> QED
  BY <1>1, <1>2, <1>3, <1>4, <1>5

\* A connection that breaks makes the server take again what it has settled.
LEMMA SendAgainKeeps ==
    ASSUME LifeInv, NEW d \in Devices, SendAgain(d)
    PROVE  LifeInv'
<1> USE DEF LifeInv
<1>a. /\ took' = [took EXCEPT ![d] = 0]
      /\ UNCHANGED <<orders, met, again, outbox, synced, dialog, placed>>
  BY DEF SendAgain, server
<1>b. \A x : (Sure(x)' <=> Sure(x)) /\ (NotYet(x)' <=> NotYet(x))
  BY <1>a DEF Sure, Settled, Renewed, NotYet
<1>c. \A c \in Devices : took'[c] = took[c] \/ took'[c] = 0
  BY <1>a DEF Types
<1>1. Types'
  <2>1. \A c \in Devices : Len(outbox[c]) \in Nat
    BY DEF Types, Devices
  <2>2. took' \in [Devices -> Nat] /\ \A c \in Devices : took'[c] <= Len(outbox[c])
    BY <1>a, <1>c, <2>1 DEF Types
  <2> QED
    BY <1>a, <2>2 DEF Types
<1>2. OwnWrites'
  BY <1>a DEF OwnWrites
<1>3. NothingTooEarly'
  BY <1>a, <1>b DEF NothingTooEarly, Unknown
<1>4. ScreensNotAhead'
  BY <1>a, <1>b DEF ScreensNotAhead
<1>5. DeletesAreCovered'
  BY <1>a, <1>b DEF DeletesAreCovered
<1>6. MarksTaken'
  <2> SUFFICES ASSUME NEW a \in Admins, NEW k \in DOMAIN outbox[a],
                      k <= took'[a], outbox[a][k].op = "updateStatus"
               PROVE  Sure(outbox[a][k].order)
    BY <1>a, <1>b DEF MarksTaken
  <2>1. k \in Nat /\ k >= 1
    <3>1. outbox[a] \in Seq(AdminWrite)
      BY DEF Types
    <3> QED
      BY <3>1
  <2>2. took'[a] = took[a]
    BY <1>c, <2>1 DEF Devices
  <2> QED
    BY <2>2 DEF MarksTaken
<1> QED
  BY <1>1, <1>2, <1>3, <1>4, <1>5, <1>6

-----------------------------------------------------------------------------
\* What a delivery is, whoever's write it is.
LEMMA DeliverFacts ==
    ASSUME LifeInv, NEW d \in Devices, Deliver(d)
    PROVE  LET w    == NextWrite(d)
               kind == <<w.op, w.order>>
           IN  /\ took[d] + 1 \in DOMAIN outbox[d]
               /\ orders' = ApplyToOrders(orders, w)
               /\ history' = ApplyToHistory(history, w)
               /\ refused' \in {refused, refused \cup {w.order}}
               /\ met' = IF d \in OrderIds THEN met \cup {kind} ELSE met
               /\ again' = IF d \in OrderIds /\ kind \in met
                           THEN again \cup {kind} ELSE again
               /\ took' = [took EXCEPT ![d] = took[d] + 1]
               /\ UNCHANGED <<outbox, synced, dialog, placed, said>>
<1>1. outbox[d] \in Seq(CustomerWrite) \/ outbox[d] \in Seq(AdminWrite)
  BY DEF LifeInv, Types, Devices
<1>2. took[d] \in Nat /\ took[d] < Len(outbox[d])
  BY DEF LifeInv, Types, Deliver
<1>3. took[d] + 1 \in DOMAIN outbox[d]
  BY <1>1, <1>2
<1> QED
  BY <1>3 DEF Deliver, NextWrite

\* The server takes a customer's write: an order it meets for the first time
\* becomes new, one it meets again is renewed, and the write of the copy leaves
\* the shop's orders alone.
LEMMA CustomerDelivers ==
    ASSUME LifeInv, NEW d \in OrderIds, Deliver(d)
    PROVE  /\ orders' \in Docs
           /\ \A x \in OrderIds : x # d =>
                 /\ NotYet(x)' <=> NotYet(x)
                 /\ Renewed(x)' <=> Renewed(x)
                 /\ x \in DOMAIN orders' <=> x \in DOMAIN orders
                 /\ x \in DOMAIN orders => orders'[x] = orders[x]
           /\ \/ /\ orders' = orders
                 /\ NotYet(d)' <=> NotYet(d)
                 /\ Renewed(d)' <=> Renewed(d)
              \/ /\ d \in DOMAIN orders' /\ orders'[d].status = "new" /\ ~ NotYet(d)'
                 /\ NotYet(d) => d \notin DOMAIN orders /\ (Renewed(d)' <=> Renewed(d))
                 /\ ~ NotYet(d) => Renewed(d)'
<1> DEFINE w == NextWrite(d)
<1>a. /\ took[d] + 1 \in DOMAIN outbox[d] /\ w = outbox[d][took[d] + 1]
      /\ orders' = ApplyToOrders(orders, w)
      /\ met' = met \cup {<<w.op, w.order>>}
      /\ again' = IF <<w.op, w.order>> \in met THEN again \cup {<<w.op, w.order>>} ELSE again
  BY DeliverFacts DEF Devices, NextWrite
<1>b. w \in CustomerWrite /\ w.order = d
  <2>1. outbox[d] \in Seq(CustomerWrite)
    BY DEF LifeInv, Types
  <2>2. w.order = d
    BY <1>a DEF LifeInv, OwnWrites
  <2> QED
    BY <1>a, <2>1, <2>2
<1>c. w.op \in {"setOrder", "setHistory"} /\ orders \in Docs
  BY <1>b DEF CustomerWrite, LifeInv, Types
<1> HIDE DEF w
<1>1. \A x \in OrderIds : x # d => (NotYet(x)' <=> NotYet(x)) /\ (Renewed(x)' <=> Renewed(x))
  BY <1>a, <1>b DEF NotYet, Renewed
<1>2. CASE w.op = "setOrder"
  <2>1. /\ orders' \in Docs
        /\ DOMAIN orders' = DOMAIN orders \cup {d}
        /\ orders'[d].status = "new"
        /\ \A x \in DOMAIN orders : x # d => orders'[x] = orders[x]
    BY <1>a, <1>b, <1>c, <1>2, SetOrderApplied
  <2>2. ~ NotYet(d)' /\ (~ NotYet(d) => Renewed(d)')
    BY <1>a, <1>b, <1>2 DEF NotYet, Renewed
  <2>3. NotYet(d) => d \notin DOMAIN orders /\ (Renewed(d)' <=> Renewed(d))
    <3>1. NotYet(d) => d \notin DOMAIN orders
      BY DEF LifeInv, NothingTooEarly, Unknown
    <3>2. NotYet(d) => again' = again
      BY <1>a, <1>b, <1>2 DEF NotYet
    <3> QED
      BY <3>1, <3>2 DEF Renewed
  <2>4. \A x \in OrderIds : x # d =>
           /\ x \in DOMAIN orders' <=> x \in DOMAIN orders
           /\ x \in DOMAIN orders => orders'[x] = orders[x]
    BY <2>1
  <2>5. d \in DOMAIN orders' /\ orders'[d].status = "new"
    BY <2>1
  <2> QED
    BY <1>1, <2>1, <2>2, <2>3, <2>4, <2>5
<1>3. CASE w.op = "setHistory"
  <2>1. orders' = orders
    BY <1>a, <1>b, <1>c, <1>3, SetHistoryApplied
  <2>2. (NotYet(d)' <=> NotYet(d)) /\ (Renewed(d)' <=> Renewed(d))
    BY <1>a, <1>3 DEF NotYet, Renewed
  <2> QED
    BY <1>1, <1>c, <2>1, <2>2
<1> QED
  BY <1>c, <1>2, <1>3

\* The server takes an administrator's write: it touches one order, which the
\* server has met.  Its status may become done, and it disappears only when it
\* is done or has been renewed.
LEMMA AdminDelivers ==
    ASSUME LifeInv, NEW a \in Admins, Deliver(a)
    PROVE  /\ met' = met /\ again' = again
           /\ orders' \in Docs
           /\ DOMAIN orders' \subseteq DOMAIN orders
           /\ \A x \in DOMAIN orders : x # NextWrite(a).order =>
                 x \in DOMAIN orders' /\ orders'[x].status = orders[x].status
           /\ \A x \in DOMAIN orders' : orders'[x].status \in {orders[x].status, "done"}
           /\ \A x \in DOMAIN orders : x \notin DOMAIN orders' => Sure(x)
           /\ NextWrite(a).op = "updateStatus" /\ NextWrite(a).order \in DOMAIN orders'
                 => orders'[NextWrite(a).order].status = "done"
<1> DEFINE w == NextWrite(a)
           k == took[a] + 1
<1>a. k \in DOMAIN outbox[a] /\ w = outbox[a][k] /\ orders' = ApplyToOrders(orders, w)
  BY DeliverFacts DEF Devices, NextWrite
<1>b. w \in AdminWrite /\ outbox[a] \in Seq(AdminWrite)
  BY <1>a DEF LifeInv, Types
<1>c. orders \in Docs /\ took[a] \in Nat
  BY DEF LifeInv, Types, Devices
<1>1. met' = met /\ again' = again
  BY DevicesAssumption, DeliverFacts DEF Devices
<1>2. w.op = "delete" => Sure(w.order)
  <2> SUFFICES ASSUME w.op = "delete",
                      NEW j \in DOMAIN outbox[a],
                      j < k, outbox[a][j] = UpdateStatus(w.order)
               PROVE  Sure(w.order)
    BY <1>a DEF LifeInv, DeletesAreCovered
  <2>1. j <= took[a]
    BY <1>b, <1>c
  <2>2. outbox[a][j].op = "updateStatus" /\ outbox[a][j].order = w.order
    BY DEF UpdateStatus
  <2> QED
    BY <2>1, <2>2 DEF LifeInv, MarksTaken
<1> HIDE DEF w, k
<1> DEFINE r == ApplyToOrders(orders, w)
<1>3. /\ r \in Docs
      /\ w.op = "delete" => DOMAIN r = DOMAIN orders \ {w.order}
      /\ w.op # "delete" => DOMAIN r = DOMAIN orders
      /\ \A o \in DOMAIN r :
            \/ r[o].status = orders[o].status
            \/ w.op = "updateStatus" /\ o = w.order /\ r[o].status = "done"
      /\ w.op = "updateStatus" /\ w.order \in DOMAIN r => r[w.order].status = "done"
  BY <1>b, <1>c, AdminApplied
<1>d. r = orders'
  BY <1>a
<1> HIDE DEF r
<1>4. DOMAIN orders' \subseteq DOMAIN orders
  BY <1>3, <1>d
<1>5. \A x \in DOMAIN orders : x \notin DOMAIN orders' => Sure(x)
  BY <1>2, <1>3, <1>d
<1>6. \A x \in DOMAIN orders : x # w.order =>
         x \in DOMAIN orders' /\ orders'[x].status = orders[x].status
  BY <1>3, <1>d
<1>7. \A x \in DOMAIN orders' : orders'[x].status \in {orders[x].status, "done"}
  BY <1>3, <1>d
<1> QED
  BY <1>1, <1>3, <1>d, <1>4, <1>5, <1>6, <1>7 DEF w

\* What is sure of an order the server has met stays so.
LEMMA SureStays ==
    ASSUME LifeInv, NEW d \in Devices, Deliver(d), NEW x \in OrderIds, ~ NotYet(x), Sure(x)
    PROVE  Sure(x)'
<1>1. CASE d \in OrderIds
  <2>1. CASE x # d
    BY <1>1, <2>1, CustomerDelivers DEF Sure, Settled
  <2>2. CASE x = d
    BY <1>1, <2>2, CustomerDelivers DEF Sure, Settled
  <2> QED
    BY <2>1, <2>2
<1>2. CASE d \in Admins
  <2>1. again' = again /\ DOMAIN orders' \subseteq DOMAIN orders
    BY <1>2, AdminDelivers
  <2>2. \A y \in DOMAIN orders' : orders'[y].status \in {orders[y].status, "done"}
    BY <1>2, AdminDelivers
  <2> QED
    BY <2>1, <2>2 DEF Sure, Settled, Renewed
<1> QED
  BY <1>1, <1>2 DEF Devices

\* The server never forgets, and only a customer's write makes an order known.
LEMMA NotYetStays ==
    ASSUME LifeInv, NEW d \in Devices, Deliver(d), NEW x \in OrderIds, NotYet(x)'
    PROVE  NotYet(x) /\ x \notin DOMAIN orders'
<1>0. NotYet(x) => x \notin DOMAIN orders
  BY DEF LifeInv, NothingTooEarly, Unknown
<1>1. CASE d \in OrderIds
  <2>1. CASE x # d
    BY <1>0, <1>1, <2>1, CustomerDelivers
  <2>2. CASE x = d
    BY <1>0, <1>1, <2>2, CustomerDelivers
  <2> QED
    BY <2>1, <2>2
<1>2. CASE d \in Admins
  BY <1>0, <1>2, AdminDelivers DEF NotYet
<1> QED
  BY <1>1, <1>2 DEF Devices

LEMMA DeliverKeeps ==
    ASSUME LifeInv, NEW d \in Devices, Deliver(d)
    PROVE  LifeInv'
<1>a. /\ took[d] + 1 \in DOMAIN outbox[d]
      /\ took' = [took EXCEPT ![d] = took[d] + 1]
      /\ UNCHANGED <<outbox, synced, dialog, placed>>
  BY DeliverFacts
<1>b. took \in [Devices -> Nat] /\ took'[d] = took[d] + 1
      /\ \A c \in Devices : c # d => took'[c] = took[c]
  BY <1>a DEF LifeInv, Types
<1>c. \A x \in OrderIds : ~ NotYet(x) /\ Sure(x) => Sure(x)'
  BY SureStays
<1>d. \A x \in OrderIds : NotYet(x)' => NotYet(x) /\ x \notin DOMAIN orders'
  BY NotYetStays
<1>1. Types'
  <2>1. orders' \in Docs
    BY CustomerDelivers, AdminDelivers DEF Devices
  <2>2. took' \in [Devices -> Nat] /\ \A c \in Devices : took'[c] <= Len(outbox[c])
    <3>1. took'[d] <= Len(outbox[d])
      <4>1. outbox[d] \in Seq(CustomerWrite) \/ outbox[d] \in Seq(AdminWrite)
        BY DEF LifeInv, Types, Devices
      <4> QED
        BY <1>a, <1>b, <4>1
    <3>2. \A c \in Devices : took'[c] <= Len(outbox[c])
      BY <1>b, <3>1 DEF LifeInv, Types
    <3> QED
      BY <1>a, <1>b, <3>2
  <2>3. met' \subseteq {"setOrder", "setHistory"} \X placed /\ again' \subseteq met'
    <3>1. CASE d \in OrderIds
      <4>1. NextWrite(d).op \in {"setOrder", "setHistory"} /\ NextWrite(d).order \in placed
        <5>1. outbox[d] \in Seq(CustomerWrite)
          BY <3>1 DEF LifeInv, Types
        <5>2. NextWrite(d) \in CustomerWrite
          BY <1>a, <5>1 DEF NextWrite
        <5>3. NextWrite(d).order = d /\ d \in placed
          BY <1>a, <3>1 DEF NextWrite, LifeInv, OwnWrites
        <5> QED
          BY <5>2, <5>3 DEF CustomerWrite
      <4>2. /\ met' = met \cup {<<NextWrite(d).op, NextWrite(d).order>>}
            /\ again' \subseteq again \cup {<<NextWrite(d).op, NextWrite(d).order>>}
        BY <3>1, DeliverFacts
      <4> QED
        BY <4>1, <4>2 DEF LifeInv, Types
    <3>2. CASE d \in Admins
      BY <3>2, AdminDelivers DEF LifeInv, Types
    <3> QED
      BY <3>1, <3>2 DEF Devices
  <2> QED
    BY <1>a, <2>1, <2>2, <2>3 DEF LifeInv, Types
<1>2. OwnWrites'
  BY <1>a DEF LifeInv, OwnWrites
<1>3. NothingTooEarly'
  BY <1>a, <1>d DEF LifeInv, NothingTooEarly, Unknown
<1>4. ScreensNotAhead'
  <2> SUFFICES ASSUME NEW a \in Admins, NEW x \in DOMAIN synced[a],
                      synced[a][x].status = "done"
               PROVE  Sure(x)'
    BY <1>a DEF ScreensNotAhead
  <2>1. x \in OrderIds /\ ~ NotYet(x) /\ Sure(x)
    BY MentionedIsKnown DEF LifeInv, ScreensNotAhead
  <2> QED
    BY <1>c, <2>1
<1>5. DeletesAreCovered'
  <2> SUFFICES ASSUME NEW a \in Admins, NEW k \in DOMAIN outbox[a],
                      outbox[a][k].op = "delete",
                      ~ \E j \in DOMAIN outbox[a] :
                            j < k /\ outbox[a][j] = UpdateStatus(outbox[a][k].order)
               PROVE  Sure(outbox[a][k].order)'
    BY <1>a DEF DeletesAreCovered
  <2>1. /\ outbox[a][k].order \in OrderIds /\ ~ NotYet(outbox[a][k].order)
        /\ Sure(outbox[a][k].order)
    BY MentionedIsKnown DEF LifeInv, DeletesAreCovered
  <2>2. Sure(outbox[a][k].order)' <=> (\A x : x = outbox[a][k].order => Sure(x)')
    BY <1>a
  <2> QED
    BY <1>c, <2>1, <2>2
<1>6. MarksTaken'
  <2> SUFFICES ASSUME NEW a \in Admins, NEW k \in DOMAIN outbox[a],
                      k <= took'[a], outbox[a][k].op = "updateStatus",
                      NEW x, x = outbox[a][k].order
               PROVE  Sure(x)'
    BY <1>a DEF MarksTaken
  <2>1. x \in OrderIds /\ ~ NotYet(x)
    BY MentionedIsKnown
  <2>2. CASE k <= took[a]
    <3>1. Sure(x)
      BY <2>2 DEF LifeInv, MarksTaken
    <3> QED
      BY <1>c, <2>1, <3>1
  <2>3. CASE ~ (k <= took[a])
    <3>1. d = a /\ k = took[a] + 1
      <4>1. outbox[a] \in Seq(AdminWrite) /\ a \in Devices
        BY DEF LifeInv, Types, Devices
      <4> QED
        BY <1>b, <2>3, <4>1
    <3>2. NextWrite(a) = outbox[a][k]
      BY <3>1 DEF NextWrite
    <3>3. x \in DOMAIN orders' => orders'[x].status = "done"
      BY <3>1, <3>2, AdminDelivers
    <3> QED
      BY <3>3 DEF Sure, Settled
  <2> QED
    BY <2>2, <2>3
<1> QED
  BY <1>1, <1>2, <1>3, <1>4, <1>5, <1>6 DEF LifeInv

\* A device reads an answer: what it forgets the server has taken.
LEMMA AnsweredKeeps ==
    ASSUME LifeInv, NEW d \in Devices, Answered(d)
    PROVE  LifeInv'
<1>a. /\ took[d] > 0 /\ took' = [took EXCEPT ![d] = took[d] - 1]
      /\ outbox' = [outbox EXCEPT ![d] = Tail(outbox[d])]
      /\ \/ synced' = synced
         \/ /\ d \in Admins
            /\ synced' = [synced EXCEPT ![d] = ApplyToOrders(synced[d], Head(outbox[d]))]
      /\ UNCHANGED <<orders, met, again, dialog, placed>>
  BY DEF Answered, server
<1>b. /\ outbox'[d] = Tail(outbox[d]) /\ took'[d] = took[d] - 1
      /\ \A c \in Devices : c # d => outbox'[c] = outbox[c] /\ took'[c] = took[c]
      /\ took[d] \in Nat /\ took[d] <= Len(outbox[d])
  BY <1>a DEF LifeInv, Types
<1>c. outbox[d] # << >>
  <2>1. outbox[d] \in Seq(CustomerWrite) \/ outbox[d] \in Seq(AdminWrite)
    BY DEF LifeInv, Types, Devices
  <2> QED
    BY <1>a, <1>b, <2>1
<1>d. \A S : outbox[d] \in Seq(S) =>
         /\ outbox'[d] \in Seq(S) /\ Len(outbox'[d]) = Len(outbox[d]) - 1
         /\ 1 \in DOMAIN outbox[d] /\ Head(outbox[d]) = outbox[d][1]
         /\ \A k \in DOMAIN outbox'[d] :
               k \in Nat /\ k + 1 \in DOMAIN outbox[d] /\ outbox'[d][k] = outbox[d][k + 1]
         /\ \A j \in DOMAIN outbox[d] : j # 1 =>
               j \in Nat /\ j - 1 \in DOMAIN outbox'[d] /\ outbox'[d][j - 1] = outbox[d][j]
  BY <1>b, <1>c, TailFacts
<1>e. \A x : (Sure(x)' <=> Sure(x)) /\ (NotYet(x)' <=> NotYet(x))
  BY <1>a DEF Sure, Settled, Renewed, NotYet
<1>f. \A a \in Admins : \A k \in DOMAIN outbox'[a] :
         \E j \in DOMAIN outbox[a] : outbox'[a][k] = outbox[a][j]
  <2> SUFFICES ASSUME NEW a \in Admins, NEW k \in DOMAIN outbox'[a]
               PROVE  \E j \in DOMAIN outbox[a] : outbox'[a][k] = outbox[a][j]
    OBVIOUS
  <2>1. outbox[a] \in Seq(AdminWrite) /\ a \in Devices
    BY DEF LifeInv, Types, Devices
  <2>2. CASE a = d
    BY <1>d, <2>1, <2>2
  <2>3. CASE a # d
    BY <1>b, <2>1, <2>3
  <2> QED
    BY <2>2, <2>3
<1>g. \A a \in Admins :
         /\ synced'[a] \in Docs /\ DOMAIN synced'[a] \subseteq DOMAIN synced[a]
         /\ \A x \in DOMAIN synced'[a] : synced'[a][x].status = "done" => Sure(x)
  <2>1. \A a \in Admins :
           /\ synced[a] \in Docs
           /\ \A x \in DOMAIN synced[a] : synced[a][x].status = "done" => Sure(x)
    BY DEF LifeInv, Types, ScreensNotAhead
  <2>2. CASE d \in Admins /\ synced'[d] = ApplyToOrders(synced[d], Head(outbox[d]))
    <3> DEFINE w == Head(outbox[d])
               r == ApplyToOrders(synced[d], w)
    <3>1. w = outbox[d][1] /\ 1 \in DOMAIN outbox[d] /\ w \in AdminWrite
      <4>1. outbox[d] \in Seq(AdminWrite)
        BY <2>2 DEF LifeInv, Types
      <4> QED
        BY <1>d, <4>1
    <3>2. w.op = "updateStatus" => Sure(w.order)
      <4>1. 1 <= took[d]
        BY <1>a, <1>b
      <4> QED
        BY <2>2, <3>1, <4>1 DEF LifeInv, MarksTaken
    <3> HIDE DEF w
    <3>3. synced[d] \in Docs
      BY <2>1, <2>2
    <3>4. /\ r \in Docs
          /\ w.op = "delete" => DOMAIN r = DOMAIN synced[d] \ {w.order}
          /\ w.op # "delete" => DOMAIN r = DOMAIN synced[d]
          /\ \A o \in DOMAIN r :
                \/ r[o].status = synced[d][o].status
                \/ w.op = "updateStatus" /\ o = w.order /\ r[o].status = "done"
      BY <3>1, <3>3, AdminApplied
    <3> HIDE DEF r
    <3>5. DOMAIN r \subseteq DOMAIN synced[d]
      BY <3>4
    <3>6. \A x \in DOMAIN r : r[x].status = "done" => Sure(x)
      BY <2>1, <2>2, <3>2, <3>4, <3>5
    <3>7. synced'[d] = r
      BY <2>2 DEF r, w
    <3>8. \A a \in Admins : a # d => synced'[a] = synced[a]
      BY <1>a DEF LifeInv, Types
    <3> QED
      BY <2>1, <3>4, <3>5, <3>6, <3>7, <3>8
  <2>3. CASE synced' = synced
    BY <2>1, <2>3
  <2> QED
    BY <1>a, <2>2, <2>3 DEF LifeInv, Types
<1>1. Types'
  <2>1. \A a \in Admins : outbox'[a] \in Seq(AdminWrite)
    <3>1. \A a \in Admins : outbox[a] \in Seq(AdminWrite) /\ a \in Devices
      BY DEF LifeInv, Types, Devices
    <3> QED
      BY <1>b, <1>d, <3>1
  <2>2. \A x \in OrderIds : outbox'[x] \in Seq(CustomerWrite)
    <3>1. \A x \in OrderIds : outbox[x] \in Seq(CustomerWrite) /\ x \in Devices
      BY DEF LifeInv, Types, Devices
    <3> QED
      BY <1>b, <1>d, <3>1
  <2>3. DOMAIN outbox' = Devices /\ took' \in [Devices -> Nat]
    BY <1>a, <1>b DEF LifeInv, Types
  <2>4. synced' \in [Admins -> Docs]
    <3>1. synced' = [synced EXCEPT ![d] = synced'[d]] /\ DOMAIN synced' = Admins
      BY <1>a DEF LifeInv, Types
    <3> QED
      BY <1>g, <3>1 DEF LifeInv, Types
  <2>5. \A c \in Devices : took'[c] <= Len(outbox'[c])
    <3>1. took'[d] <= Len(outbox'[d])
      <4>1. outbox[d] \in Seq(CustomerWrite) \/ outbox[d] \in Seq(AdminWrite)
        BY DEF LifeInv, Types, Devices
      <4>2. Len(outbox'[d]) = Len(outbox[d]) - 1 /\ Len(outbox[d]) \in Nat
        BY <1>d, <4>1
      <4> QED
        BY <1>b, <4>2
    <3> QED
      BY <1>b, <3>1 DEF LifeInv, Types
  <2> QED
    BY <1>a, <2>1, <2>2, <2>3, <2>4, <2>5 DEF LifeInv, Types
<1>2. OwnWrites'
  <2> SUFFICES ASSUME NEW x \in OrderIds, NEW k \in DOMAIN outbox'[x]
               PROVE  outbox'[x][k].order = x /\ x \in placed
    BY <1>a DEF OwnWrites
  <2>1. outbox[x] \in Seq(CustomerWrite) /\ x \in Devices
    BY DEF LifeInv, Types, Devices
  <2>2. \E j \in DOMAIN outbox[x] : outbox'[x][k] = outbox[x][j]
    <3>1. CASE x = d
      BY <1>d, <2>1, <3>1
    <3>2. CASE x # d
      BY <1>b, <2>1, <3>2
    <3> QED
      BY <3>1, <3>2
  <2> QED
    BY <2>2 DEF LifeInv, OwnWrites
<1>3. NothingTooEarly'
  <2> SUFFICES ASSUME NEW x \in OrderIds, NotYet(x) PROVE Unknown(x)'
    BY <1>e DEF NothingTooEarly
  <2>1. Unknown(x)
    BY DEF LifeInv, NothingTooEarly
  <2> QED
    BY <1>a, <1>f, <1>g, <2>1 DEF Unknown
<1>4. ScreensNotAhead'
  BY <1>e, <1>g DEF ScreensNotAhead
<1>5. DeletesAreCovered'
  <2> SUFFICES ASSUME NEW a \in Admins, NEW k \in DOMAIN outbox'[a],
                      outbox'[a][k].op = "delete",
                      NEW x, x = outbox'[a][k].order
               PROVE  \/ Sure(x)
                      \/ \E j \in DOMAIN outbox'[a] :
                            j < k /\ outbox'[a][j] = UpdateStatus(x)
    BY <1>e DEF DeletesAreCovered
  <2>0. outbox[a] \in Seq(AdminWrite) /\ a \in Devices
    BY DEF LifeInv, Types, Devices
  <2>1. CASE a # d
    BY <1>b, <2>0, <2>1 DEF LifeInv, DeletesAreCovered
  <2>2. CASE a = d
    <3>1. k \in Nat /\ k + 1 \in DOMAIN outbox[a] /\ outbox[a][k + 1] = outbox'[a][k]
      BY <1>d, <2>0, <2>2
    <3>2. CASE \E j \in DOMAIN outbox[a] : j < k + 1 /\ outbox[a][j] = UpdateStatus(x)
      <4>1. PICK j \in DOMAIN outbox[a] : j < k + 1 /\ outbox[a][j] = UpdateStatus(x)
        BY <3>2
      <4>2. CASE j = 1
        <5>1. 1 <= took[a]
          BY <1>a, <1>b, <2>2
        <5>2. outbox[a][j].op = "updateStatus" /\ outbox[a][j].order = x
          BY <4>1 DEF UpdateStatus
        <5>3. Sure(x)
          BY <4>2, <5>1, <5>2 DEF LifeInv, MarksTaken
        <5> QED
          BY <5>3
      <4>3. CASE j # 1
        <5>1. j \in Nat /\ j - 1 \in DOMAIN outbox'[a] /\ outbox'[a][j - 1] = outbox[a][j]
          BY <1>d, <2>0, <2>2, <4>3
        <5>2. j - 1 < k
          BY <3>1, <4>1, <5>1
        <5> QED
          BY <4>1, <5>1, <5>2
      <4> QED
        BY <4>2, <4>3
    <3>3. CASE Sure(x)
      BY <3>3
    <3> QED
      BY <3>1, <3>2, <3>3 DEF LifeInv, DeletesAreCovered
  <2> QED
    BY <2>1, <2>2
<1>6. MarksTaken'
  <2> SUFFICES ASSUME NEW a \in Admins, NEW k \in DOMAIN outbox'[a],
                      k <= took'[a], outbox'[a][k].op = "updateStatus"
               PROVE  Sure(outbox'[a][k].order)
    BY <1>e DEF MarksTaken
  <2>0. outbox[a] \in Seq(AdminWrite) /\ a \in Devices
    BY DEF LifeInv, Types, Devices
  <2>1. CASE a # d
    BY <1>b, <2>0, <2>1 DEF LifeInv, MarksTaken
  <2>2. CASE a = d
    <3>1. k \in Nat /\ k + 1 \in DOMAIN outbox[a] /\ outbox[a][k + 1] = outbox'[a][k]
      BY <1>d, <2>0, <2>2
    <3>2. k + 1 <= took[a]
      BY <1>b, <2>2, <3>1
    <3> QED
      BY <3>1, <3>2 DEF LifeInv, MarksTaken
  <2> QED
    BY <2>1, <2>2
<1> QED
  BY <1>1, <1>2, <1>3, <1>4, <1>5, <1>6 DEF LifeInv

-----------------------------------------------------------------------------
\* An order on the screen that the screen shows as done is sure, or the
\* device's own done mark is still ahead of the deletion.
LEMMA DeleteTappedKeeps ==
    ASSUME LifeInv, NEW a \in Admins, NEW o \in OrderIds, DeleteTapped(a, o)
    PROVE  LifeInv'
<1> DEFINE ws == <<Delete(o)>>
<1>1. /\ o \in DOMAIN synced[a] /\ DrawnDone(a, o) /\ Enqueue(a, ws)
      /\ UNCHANGED <<server, took, synced, dialog, placed>>
  BY DEF DeleteTapped, TapOn, Drawn
<1>2. ~ NotYet(o)
  BY <1>1, MentionedIsKnown
<1>3. Sure(o) \/ Queued(a, UpdateStatus(o))
  BY <1>1 DEF DrawnDone, LifeInv, ScreensNotAhead
<1>4. Delete(o) \in AdminWrite
  BY DEF Delete, AdminWrite
<1>5. ws \in Seq(AdminWrite) /\ \A k \in DOMAIN ws : ws[k].order = o
  BY <1>4 DEF Delete
<1>6. /\ dialog' \in [Admins -> Dialogs]
      /\ \A b \in Admins : dialog'[b] \in {dialog[b], NoDialog}
  BY <1>1 DEF LifeInv, Types
<1> HIDE DEF ws
<1> QED
  BY <1>1, <1>2, <1>3, <1>5, <1>6, EnqueueKeeps

\* Closing a dialog leaves every administrator with a dialog or none.
LEMMA DialogCloses ==
    ASSUME LifeInv, NEW a \in Admins,
           dialog' = [dialog EXCEPT ![a] = NoDialog]
    PROVE  /\ dialog' \in [Admins -> Dialogs]
           /\ \A b \in Admins : dialog'[b] \in {dialog[b], NoDialog}
  BY DEF LifeInv, Types, Dialogs

LEMMA ConfirmTotalKeeps ==
    ASSUME LifeInv, NEW a \in Admins, NEW v \in Totals, ConfirmTotal(a, v)
    PROVE  LifeInv'
<1> DEFINE o  == dialog[a].order
           ws == <<UpdateTotal(o, v), UpdateHistory(o, dialog[a].phone, v)>>
<1>1. /\ dialog[a].kind = "total" /\ Enqueue(a, ws)
      /\ dialog' = [dialog EXCEPT ![a] = NoDialog]
      /\ UNCHANGED <<server, took, synced, placed>>
  BY DEF ConfirmTotal
<1>2. o \in OrderIds /\ ~ NotYet(o) /\ dialog[a].phone \in Phones
  BY <1>1, MentionedIsKnown DEF NoDialog
<1>3. UpdateTotal(o, v) \in AdminWrite /\ UpdateHistory(o, dialog[a].phone, v) \in AdminWrite
  BY <1>2 DEF UpdateTotal, UpdateHistory, AdminWrite
<1>4. /\ ws \in Seq(AdminWrite)
      /\ \A k \in DOMAIN ws : ws[k].order = o /\ ws[k].op # "delete"
  BY <1>3 DEF UpdateTotal, UpdateHistory
<1> HIDE DEF ws, o
<1> QED
  BY <1>1, <1>2, <1>4, DialogCloses, EnqueueKeeps

LEMMA ConfirmDoneKeeps ==
    ASSUME LifeInv, NEW a \in Admins, ConfirmDone(a)
    PROVE  LifeInv'
<1> DEFINE o  == dialog[a].order
           ws == <<UpdateStatus(o)>>
<1>1. /\ dialog[a].kind = "status" /\ Enqueue(a, ws)
      /\ dialog' = [dialog EXCEPT ![a] = NoDialog]
      /\ UNCHANGED <<server, took, synced, placed>>
  BY DEF ConfirmDone
<1>2. o \in OrderIds /\ ~ NotYet(o)
  BY <1>1, MentionedIsKnown DEF NoDialog
<1>3. UpdateStatus(o) \in AdminWrite
  BY <1>2 DEF UpdateStatus, AdminWrite
<1>4. /\ ws \in Seq(AdminWrite)
      /\ \A k \in DOMAIN ws : ws[k].order = o /\ ws[k].op # "delete"
  BY <1>3 DEF UpdateStatus
<1> HIDE DEF ws, o
<1> QED
  BY <1>1, <1>2, <1>4, DialogCloses, EnqueueKeeps

\* A dialog takes its order and its phone from the screen.
LEMMA OpenDialogKeeps ==
    ASSUME LifeInv, NEW a \in Admins, NEW o \in OrderIds,
           NEW kind \in {"total", "status"}, OpenDialog(a, o, kind)
    PROVE  LifeInv'
<1> DEFINE dlg == [kind |-> kind, order |-> o, phone |-> synced[a][o].phone]
<1>1. /\ o \in DOMAIN synced[a]
      /\ dialog' = [dialog EXCEPT ![a] = dlg]
      /\ UNCHANGED <<server, outbox, took, synced, placed>>
  BY DEF OpenDialog, TapOn, Drawn
<1>2. dlg \in Dialogs
  <2>1. synced[a] \in [DOMAIN synced[a] -> Doc]
    BY DocsFacts DEF LifeInv, Types
  <2> QED
    BY <1>1, <2>1 DEF Dialogs, Doc
<1>3. dialog \in [Admins -> Dialogs]
  BY DEF LifeInv, Types
<1>4. dlg.order = o
  OBVIOUS
<1> HIDE DEF dlg
<1>5. dialog' \in [Admins -> Dialogs]
  BY <1>1, <1>2, <1>3
<1>6. \A b \in Admins : dialog'[b] = dialog[b] \/ (b = a /\ dialog'[b] = dlg)
  BY <1>1, <1>3
<1> QED
  BY <1>1, <1>4, <1>5, <1>6, DialogKeeps

LEMMA DismissKeeps ==
    ASSUME LifeInv, NEW a \in Admins, Dismiss(a)
    PROVE  LifeInv'
<1>1. /\ dialog' = [dialog EXCEPT ![a] = NoDialog]
      /\ UNCHANGED <<server, outbox, took, synced, placed>>
  BY DEF Dismiss
<1> QED
  BY <1>1, DialogCloses, DialogKeeps

LEMMA NextLife ==
    ASSUME LifeInv, [Next]_vars
    PROVE  LifeInv'
<1>1. ASSUME NEW o \in OrderIds, NEW phone \in Phones,
             NEW account \in Phones \cup {Guest}, NEW v \in Totals,
             NEW twice \in {FALSE, DoubleTap},
             Submit(o, phone, account, v, twice)
      PROVE  LifeInv'
  <2>1. twice \in BOOLEAN
    BY DoubleTapAssumption
  <2> QED
    BY <1>1, <2>1, SubmitKeeps
<1>2. ASSUME NEW d \in Devices, Deliver(d) PROVE LifeInv'
  BY <1>2, DeliverKeeps
<1>3. ASSUME NEW a \in Admins, Receive(a) PROVE LifeInv'
  BY <1>3, ReceiveKeeps
<1>4. ASSUME NEW a \in Admins, NEW o \in OrderIds, DeleteTapped(a, o) PROVE LifeInv'
  BY <1>4, DeleteTappedKeeps
<1>5. ASSUME NEW a \in Admins, NEW o \in OrderIds, NEW kind \in {"total", "status"},
             OpenDialog(a, o, kind)
      PROVE  LifeInv'
  BY <1>5, OpenDialogKeeps
<1>6. ASSUME NEW a \in Admins, Dismiss(a) PROVE LifeInv'
  BY <1>6, DismissKeeps
<1>7. ASSUME NEW a \in Admins, NEW v \in Totals, ConfirmTotal(a, v) PROVE LifeInv'
  BY <1>7, ConfirmTotalKeeps
<1>8. ASSUME NEW a \in Admins, ConfirmDone(a) PROVE LifeInv'
  BY <1>8, ConfirmDoneKeeps
<1>9. ASSUME NEW d \in Devices, Answered(d) PROVE LifeInv'
  BY <1>9, AnsweredKeeps
<1>10. ASSUME NEW d \in Devices, SendAgain(d) PROVE LifeInv'
  BY <1>10, SendAgainKeeps
<1>11. CASE UNCHANGED vars
  <2>1. dialog' = dialog /\ UNCHANGED <<server, outbox, took, synced, placed>>
    BY <1>11 DEF vars
  <2>2. dialog' \in [Admins -> Dialogs]
    BY <2>1 DEF LifeInv, Types
  <2> QED
    BY <2>1, <2>2, DialogKeeps
<1> QED
  BY <1>1, <1>2, <1>3, <1>4, <1>5, <1>6, <1>7, <1>8, <1>9, <1>10, <1>11 DEF Next

-----------------------------------------------------------------------------
THEOREM LifeInvHolds == Spec => []LifeInv
<1>1. LifeInv /\ [Next]_vars => LifeInv'
  BY NextLife
<1> QED
  BY <1>1, InitLife, PTL DEF Spec

-----------------------------------------------------------------------------
\* Of all steps only the server's taking a write changes the server.
LEMMA OnlyDeliveriesCount ==
    ASSUME [Next]_vars, ~ \E d \in Devices : Deliver(d)
    PROVE  UNCHANGED server /\ placed \subseteq placed'
<1> DEFINE Aside == UNCHANGED server /\ placed \subseteq placed'
<1>1. \A o, phone, account, v, twice : Submit(o, phone, account, v, twice) => Aside
  BY DEF Submit
<1>2. \A a : Receive(a) \/ Dismiss(a) \/ ConfirmDone(a) => Aside
  BY DEF Receive, Dismiss, ConfirmDone
<1>3. \A a, o, kind : DeleteTapped(a, o) \/ OpenDialog(a, o, kind) => Aside
  BY DEF DeleteTapped, OpenDialog
<1>4. \A a, v : ConfirmTotal(a, v) => Aside
  BY DEF ConfirmTotal
<1>5. \A d : Answered(d) \/ SendAgain(d) => Aside
  BY DEF Answered, SendAgain
<1>6. UNCHANGED vars => Aside
  BY DEF vars
<1> HIDE DEF Aside
<1>7. Aside
  BY <1>1, <1>2, <1>3, <1>4, <1>5, <1>6 DEF Next
<1> QED
  BY <1>7 DEF Aside

\* Only a confirmation says a total.
LEMMA OnlyConfirmsSay ==
    ASSUME [Next]_vars, ~ \E a \in Admins, v \in Totals : ConfirmTotal(a, v)
    PROVE  said' = said
<1> DEFINE Silent == said' = said
<1>1. \A o, phone, account, v, twice : Submit(o, phone, account, v, twice) => Silent
  BY DEF Submit
<1>2. \A a : Receive(a) \/ Dismiss(a) \/ ConfirmDone(a) => Silent
  BY DEF Receive, Dismiss, ConfirmDone
<1>3. \A a, o, kind : DeleteTapped(a, o) \/ OpenDialog(a, o, kind) => Silent
  BY DEF DeleteTapped, OpenDialog
<1>4. \A d : Deliver(d) \/ Answered(d) \/ SendAgain(d) => Silent
  BY DEF Deliver, Answered, SendAgain
<1>5. UNCHANGED vars => Silent
  BY DEF vars
<1> HIDE DEF Silent
<1>6. Silent
  BY <1>1, <1>2, <1>3, <1>4, <1>5 DEF Next
<1> QED
  BY <1>6 DEF Silent

\* How the stage of an order reads in terms of the server.
LEMMA StageFacts ==
    ASSUME NEW o \in OrderIds
    PROVE  /\ o \in DOMAIN orders => Stage(o) = orders[o].status
           /\ o \notin DOMAIN orders /\ NotYet(o) => Stage(o) = "none"
           /\ o \notin DOMAIN orders /\ ~ NotYet(o) => Stage(o) = "deleted"
  BY DEF Stage, NotYet

LEMMA StageFactsNext ==
    ASSUME NEW o \in OrderIds
    PROVE  /\ o \in DOMAIN orders' => Stage(o)' = orders'[o].status
           /\ o \notin DOMAIN orders' /\ NotYet(o)' => Stage(o)' = "none"
           /\ o \notin DOMAIN orders' /\ ~ NotYet(o)' => Stage(o)' = "deleted"
  BY DEF Stage, NotYet

\* What OrderLifecycle sees of a state.
Stages == [o \in OrderIds |-> Stage(o)]
RenewedOnes == {o \in OrderIds : Renewed(o)}

\* At most one order moves, and by one of the moves of its life.
LEMMA OneMoves ==
    ASSUME NEW d \in OrderIds,
           \A x \in OrderIds : x # d =>
               Stage(x)' = Stage(x) /\ (Renewed(x)' <=> Renewed(x)),
           \/ /\ Renewed(d)' <=> Renewed(d)
              /\ \/ Stage(d)' = Stage(d)
                 \/ Stage(d) = "none" /\ Stage(d)' = "new"
                 \/ Stage(d) = "new" /\ Stage(d)' = "done"
                 \/ Stage(d) = "done" /\ Stage(d)' = "deleted"
                 \/ Renewed(d) /\ Stage(d) = "new" /\ Stage(d)' = "deleted"
           \/ Stage(d) # "none" /\ Stage(d)' = "new" /\ Renewed(d)'
    PROVE  Lifecycle!Next \/ UNCHANGED <<Stages, RenewedOnes>>
<1> DEFINE st  == [x \in OrderIds |-> Stage(x)]
           ren == {x \in OrderIds : Renewed(x)}
<1>1. st' = [st EXCEPT ![d] = Stage(d)'] /\ st[d] = Stage(d)
  OBVIOUS
<1>2. CASE /\ Renewed(d)' <=> Renewed(d)
           /\ \/ Stage(d)' = Stage(d)
              \/ Stage(d) = "none" /\ Stage(d)' = "new"
              \/ Stage(d) = "new" /\ Stage(d)' = "done"
              \/ Stage(d) = "done" /\ Stage(d)' = "deleted"
              \/ Renewed(d) /\ Stage(d) = "new" /\ Stage(d)' = "deleted"
  <2>1. ren' = ren
    BY <1>2
  <2>2. Renewed(d) => d \in ren
    OBVIOUS
  <2>3. CASE Stage(d)' = Stage(d)
    <3>1. st' = st
      BY <2>3
    <3> QED
      BY <2>1, <3>1 DEF Stages, RenewedOnes
  <2>4. CASE Stage(d)' # Stage(d)
    <3>1. \/ Lifecycle!Place(d) \/ Lifecycle!Finish(d) \/ Lifecycle!Remove(d)
          \/ Lifecycle!RemoveRenewed(d)
      BY <1>1, <1>2, <2>1, <2>2, <2>4
         DEF Lifecycle!Place, Lifecycle!Finish, Lifecycle!Remove,
             Lifecycle!RemoveRenewed, Lifecycle!Move
    <3> QED
      BY <3>1 DEF Lifecycle!Next
  <2> QED
    BY <2>3, <2>4
<1>3. CASE Stage(d) # "none" /\ Stage(d)' = "new" /\ Renewed(d)'
  <2>1. ren' = ren \cup {d}
    BY <1>3
  <2>2. Lifecycle!Renew(d)
    BY <1>1, <1>3, <2>1 DEF Lifecycle!Renew
  <2> QED
    BY <2>2 DEF Lifecycle!Next
<1> QED
  BY <1>2, <1>3

\* A customer's write places the order, renews it or is its copy.
LEMMA CustomerDeliveryMoves ==
    ASSUME LifeInv, NEW d \in OrderIds, Deliver(d)
    PROVE  Lifecycle!Next \/ UNCHANGED <<Stages, RenewedOnes>>
<1>1. \A x \in OrderIds : x # d => Stage(x)' = Stage(x) /\ (Renewed(x)' <=> Renewed(x))
  <2> SUFFICES ASSUME NEW x \in OrderIds, x # d
               PROVE  Stage(x)' = Stage(x) /\ (Renewed(x)' <=> Renewed(x))
    OBVIOUS
  <2>1. /\ NotYet(x)' <=> NotYet(x)
        /\ Renewed(x)' <=> Renewed(x)
        /\ x \in DOMAIN orders' <=> x \in DOMAIN orders
        /\ x \in DOMAIN orders => orders'[x] = orders[x]
    BY CustomerDelivers
  <2> QED
    BY <2>1, StageFacts, StageFactsNext
<1>2. CASE /\ orders' = orders
           /\ NotYet(d)' <=> NotYet(d)
           /\ Renewed(d)' <=> Renewed(d)
  <2>1. Stage(d)' = Stage(d)
    BY <1>2, StageFacts, StageFactsNext
  <2> QED
    BY <1>1, <1>2, <2>1, OneMoves
<1>3. CASE /\ d \in DOMAIN orders' /\ orders'[d].status = "new" /\ ~ NotYet(d)'
           /\ NotYet(d) => d \notin DOMAIN orders /\ (Renewed(d)' <=> Renewed(d))
           /\ ~ NotYet(d) => Renewed(d)'
  <2>1. Stage(d)' = "new"
    BY <1>3, StageFactsNext
  <2>2. CASE NotYet(d)
    <3>1. Stage(d) = "none"
      BY <1>3, <2>2, StageFacts
    <3> QED
      BY <1>1, <1>3, <2>1, <2>2, <3>1, OneMoves
  <2>3. CASE ~ NotYet(d)
    <3>1. Stage(d) # "none"
      <4>1. \A x \in DOMAIN orders : orders[x].status \in {"new", "done"}
        BY DocsFacts DEF LifeInv, Types
      <4> QED
        BY <2>3, <4>1, StageFacts
    <3> QED
      BY <1>1, <1>3, <2>1, <2>3, <3>1, OneMoves
  <2> QED
    BY <2>2, <2>3
<1> QED
  BY <1>2, <1>3, CustomerDelivers

\* An administrator's write finishes a new order, removes one that is done or
\* renewed, or moves nothing.
LEMMA AdminDeliveryMoves ==
    ASSUME LifeInv, NEW a \in Admins, Deliver(a)
    PROVE  Lifecycle!Next \/ UNCHANGED <<Stages, RenewedOnes>>
<1>1. PICK d \in OrderIds : d = NextWrite(a).order /\ ~ NotYet(d)
  <2>1. took[a] + 1 \in DOMAIN outbox[a]
    BY DeliverFacts DEF Devices
  <2> QED
    BY <2>1, MentionedIsKnown DEF NextWrite
<1>2. /\ met' = met /\ again' = again
      /\ DOMAIN orders' \subseteq DOMAIN orders
      /\ \A x \in DOMAIN orders : x # d =>
            x \in DOMAIN orders' /\ orders'[x].status = orders[x].status
      /\ \A x \in DOMAIN orders' : orders'[x].status \in {orders[x].status, "done"}
      /\ \A x \in DOMAIN orders : x \notin DOMAIN orders' => Sure(x)
  BY <1>1, AdminDelivers
<1>3. \A x \in OrderIds : (NotYet(x)' <=> NotYet(x)) /\ (Renewed(x)' <=> Renewed(x))
  BY <1>2 DEF NotYet, Renewed
<1>4. \A x \in OrderIds : x # d => Stage(x)' = Stage(x)
  BY <1>2, <1>3, StageFacts, StageFactsNext
<1>5. \A x \in DOMAIN orders : orders[x].status \in {"new", "done"}
  BY DocsFacts DEF LifeInv, Types
<1>6. \/ Stage(d)' = Stage(d)
      \/ Stage(d) = "new" /\ Stage(d)' = "done"
      \/ Stage(d) = "done" /\ Stage(d)' = "deleted"
      \/ Renewed(d) /\ Stage(d) = "new" /\ Stage(d)' = "deleted"
  <2>1. CASE d \in DOMAIN orders'
    <3>1. /\ Stage(d) = orders[d].status /\ Stage(d)' = orders'[d].status
          /\ orders'[d].status \in {orders[d].status, "done"}
          /\ orders[d].status \in {"new", "done"}
      BY <1>2, <1>5, <2>1, StageFacts, StageFactsNext
    <3> QED
      BY <3>1
  <2>2. CASE d \in DOMAIN orders /\ d \notin DOMAIN orders'
    <3>1. Stage(d) = orders[d].status /\ Stage(d)' = "deleted"
      BY <1>1, <1>3, <2>2, StageFacts, StageFactsNext
    <3>2. Sure(d) /\ orders[d].status \in {"new", "done"}
      BY <1>2, <1>5, <2>2
    <3> QED
      BY <2>2, <3>1, <3>2 DEF Sure, Settled
  <2>3. CASE d \notin DOMAIN orders
    BY <1>1, <1>2, <1>3, <2>3, StageFacts, StageFactsNext
  <2> QED
    BY <2>1, <2>2, <2>3
<1> QED
  BY <1>3, <1>4, <1>6, OneMoves

LEMMA StageStep ==
    ASSUME LifeInv, [Next]_vars
    PROVE  Lifecycle!Next \/ UNCHANGED <<Stages, RenewedOnes>>
<1>1. ASSUME NEW d \in Devices, Deliver(d)
      PROVE  Lifecycle!Next \/ UNCHANGED <<Stages, RenewedOnes>>
  BY <1>1, CustomerDeliveryMoves, AdminDeliveryMoves DEF Devices
<1>2. CASE ~ \E d \in Devices : Deliver(d)
  <2>1. UNCHANGED <<orders, met, again>>
    BY <1>2, OnlyDeliveriesCount DEF server
  <2>2. \A x \in OrderIds : Stage(x)' = Stage(x) /\ (Renewed(x)' <=> Renewed(x))
    BY <2>1 DEF Stage, Renewed
  <2> QED
    BY <2>2 DEF Stages, RenewedOnes
<1> QED
  BY <1>1, <1>2

LEMMA StageInit == Init => Lifecycle!Init
<1> SUFFICES ASSUME Init PROVE Lifecycle!Init
  OBVIOUS
<1>1. \A x \in OrderIds : x \notin DOMAIN orders /\ NotYet(x) /\ ~ Renewed(x)
  BY DEF Init, NotYet, Renewed
<1>2. \A x \in OrderIds : Stage(x) = "none"
  BY <1>1, StageFacts
<1> QED
  BY <1>1, <1>2 DEF Lifecycle!Init

\* Whatever the administrators see late, queue long and send again, an order is
\* placed once and deleted only when it is done, for good, unless the customer's
\* own write of it reaches the server twice.
THEOREM LifecycleImplemented == Spec => ImplementsOrderLifecycle
<1>1. LifeInv /\ [Next]_vars => [Lifecycle!Next]_<<Stages, RenewedOnes>>
  BY StageStep
<1>2. Spec => []LifeInv
  BY LifeInvHolds
<1>3. Spec => Lifecycle!Spec
  BY <1>1, <1>2, StageInit, PTL DEF Spec, Lifecycle!Spec, Stages, RenewedOnes
<1> QED
  BY <1>3 DEF ImplementsOrderLifecycle

-----------------------------------------------------------------------------
\* The customers' copies, the refused updates and the totals that were said are
\* about orders placed.
HistoryTypes ==
    /\ DOMAIN history \subseteq Phones \X placed
    /\ \A k \in DOMAIN history : history[k] \in Totals
    /\ refused \subseteq placed
    /\ said \subseteq [admin : Admins, order : placed, total : Totals]

\* The server has met no order that nobody placed.
LEMMA KnownIsPlaced ==
    ASSUME LifeInv, NEW o \in OrderIds, ~ NotYet(o)
    PROVE  o \in placed
  BY DEF LifeInv, Types, NotYet

\* What a device sends next is about an order that has been placed.
LEMMA WritesArePlaced ==
    ASSUME LifeInv, NEW d \in Devices, NEW k \in DOMAIN outbox[d]
    PROVE  /\ outbox[d][k] \in CustomerWrite \cup AdminWrite
           /\ outbox[d][k].order \in placed
<1>1. CASE d \in OrderIds
  <2>1. outbox[d] \in Seq(CustomerWrite)
    BY <1>1 DEF LifeInv, Types
  <2> QED
    BY <1>1, <2>1 DEF LifeInv, OwnWrites
<1>2. CASE d \in Admins
  BY <1>2, MentionedIsKnown, KnownIsPlaced
<1> QED
  BY <1>1, <1>2 DEF Devices

\* A write touches at most the copy it names, with a total the form can have.
LEMMA HistoryApplied ==
    ASSUME HistoryTypes, NEW w \in CustomerWrite \cup AdminWrite, w.order \in placed
    PROVE  LET r == ApplyToHistory(history, w)
           IN  /\ DOMAIN r \subseteq Phones \X placed
               /\ \A k \in DOMAIN r : r[k] \in Totals
<1> DEFINE r == ApplyToHistory(history, w)
<1>1. CASE w.op = "setHistory"
  <2>1. r = SetDoc(history, <<w.phone, w.order>>, w.total)
    BY <1>1 DEF ApplyToHistory
  <2>2. w.phone \in Phones /\ w.total \in Totals
    BY <1>1 DEF CustomerWrite, AdminWrite
  <2>3. <<w.phone, w.order>> \in Phones \X placed
    BY <2>2
  <2> QED
    BY <2>1, <2>2, <2>3 DEF SetDoc, HistoryTypes
<1>2. CASE w.op = "updateHistory" /\ <<w.phone, w.order>> \in DOMAIN history
  <2>1. r = [history EXCEPT ![<<w.phone, w.order>>] = w.total]
    BY <1>2 DEF ApplyToHistory
  <2>2. w.total \in Totals
    BY <1>2 DEF CustomerWrite, AdminWrite
  <2> QED
    BY <2>1, <2>2 DEF HistoryTypes
<1>3. CASE /\ w.op # "setHistory"
           /\ ~ (w.op = "updateHistory" /\ <<w.phone, w.order>> \in DOMAIN history)
  <2>1. r = history
    BY <1>3 DEF ApplyToHistory
  <2> QED
    BY <2>1 DEF HistoryTypes
<1> QED
  BY <1>1, <1>2, <1>3

\* Only the server's taking a write changes the copies or refuses an update.
LEMMA NextHistory ==
    ASSUME LifeInv, HistoryTypes, [Next]_vars
    PROVE  HistoryTypes'
<1>1. ASSUME NEW d \in Devices, Deliver(d) PROVE HistoryTypes'
  <2> DEFINE w == NextWrite(d)
  <2>1. /\ took[d] + 1 \in DOMAIN outbox[d] /\ placed' = placed /\ said' = said
        /\ history' = ApplyToHistory(history, w)
        /\ refused' \in {refused, refused \cup {w.order}}
    BY <1>1, DeliverFacts
  <2>2. w \in CustomerWrite \cup AdminWrite /\ w.order \in placed
    BY <2>1, WritesArePlaced DEF NextWrite
  <2> HIDE DEF w
  <2>3. /\ DOMAIN history' \subseteq Phones \X placed
        /\ \A k \in DOMAIN history' : history'[k] \in Totals
    BY <2>1, <2>2, HistoryApplied
  <2> QED
    BY <2>1, <2>2, <2>3 DEF HistoryTypes
<1>2. CASE ~ \E d \in Devices : Deliver(d)
  <2>1. UNCHANGED <<history, refused>> /\ placed \subseteq placed'
    BY <1>2, OnlyDeliveriesCount DEF server
  <2> DEFINE Sayings(P) == [admin : Admins, order : P, total : Totals]
  <2>2. said' \subseteq Sayings(placed')
    <3>1. Sayings(placed) \subseteq Sayings(placed')
      BY <2>1
    <3>2. CASE said' = said
      BY <3>1, <3>2 DEF HistoryTypes
    <3>3. ASSUME NEW a \in Admins, NEW v \in Totals, ConfirmTotal(a, v)
          PROVE  said' \subseteq Sayings(placed')
      <4>1. dialog[a].order \in placed
        BY <3>3, MentionedIsKnown, KnownIsPlaced DEF ConfirmTotal, NoDialog
      <4>2. \A t \in said' :
               t \in said \/ t = [admin |-> a, order |-> dialog[a].order, total |-> v]
        BY <3>3 DEF ConfirmTotal, Says
      <4> QED
        BY <3>1, <4>1, <4>2 DEF HistoryTypes
    <3> QED
      BY <3>2, <3>3, OnlyConfirmsSay
  <2> QED
    BY <2>1, <2>2 DEF HistoryTypes
<1> QED
  BY <1>1, <1>2

\* Nothing is on the server, on a screen, in a dialog or in a queue that no
\* customer has placed, and everything has the shape the handlers give it.
THEOREM OrdersTypeCorrect == Spec => []TypeOK
<1>1. LifeInv /\ HistoryTypes => TypeOK
  <2> SUFFICES ASSUME LifeInv, HistoryTypes PROVE TypeOK
    OBVIOUS
  <2>1. /\ DOMAIN orders \subseteq placed /\ \A o \in DOMAIN orders : orders[o] \in Doc
        /\ placed \subseteq OrderIds
    BY DocsFacts, KnownIsPlaced DEF LifeInv, Types, NothingTooEarly, Unknown
  <2>2. \A d \in Devices : \A k \in DOMAIN outbox[d] : outbox[d][k].order \in placed
    BY WritesArePlaced
  <2>3. ASSUME NEW a \in Admins
        PROVE  /\ DOMAIN synced[a] \subseteq placed
               /\ dialog[a] # NoDialog => dialog[a].order \in placed
    BY MentionedIsKnown, KnownIsPlaced
  <2>4. /\ DOMAIN outbox = Devices
        /\ took \in [Devices -> Nat] /\ \A d \in Devices : took[d] <= Len(outbox[d])
        /\ met \subseteq {"setOrder", "setHistory"} \X placed /\ again \subseteq met
    BY DEF LifeInv, Types
  <2>5. /\ DOMAIN history \subseteq Phones \X placed
        /\ \A k \in DOMAIN history : history[k] \in Totals
        /\ refused \subseteq placed
        /\ said \subseteq [admin : Admins, order : placed, total : Totals]
    BY DEF HistoryTypes
  <2>6. \A a \in Admins : DOMAIN synced[a] \subseteq placed
    BY <2>3
  <2>7. \A a \in Admins : dialog[a] # NoDialog => dialog[a].order \in placed
    BY <2>3
  <2> QED
    BY <2>1, <2>2, <2>4, <2>5, <2>6, <2>7 DEF TypeOK
<1>2. Init => HistoryTypes
  BY DEF Init, HistoryTypes
<1>3. LifeInv /\ HistoryTypes /\ [Next]_vars => HistoryTypes'
  BY NextHistory
<1>4. Spec => []LifeInv
  BY LifeInvHolds
<1> QED
  BY <1>1, <1>2, <1>3, <1>4, PTL DEF Spec

-----------------------------------------------------------------------------
(***************************************************************************)
(* The two totals.  A new total is two writes of one queue, and either may *)
(* have been taken while the other is on its way, or come again.  The last *)
(* update of the copy that a queue holds tells what both will say.         *)
(***************************************************************************)
CopyUpdate(w, o) == w.op = "updateHistory" /\ w.order = o

\* Position k of a's queue holds its last update of the copy of o.
LatestUpdate(a, o, k) ==
    /\ k \in DOMAIN outbox[a] /\ CopyUpdate(outbox[a][k], o)
    /\ \A j \in DOMAIN outbox[a] : CopyUpdate(outbox[a][j], o) => j <= k

\* The copy that administrators find by the phone of the order.
Copy(o) == <<orders[o].phone, o>>

Equal(o) == Copy(o) \in DOMAIN history /\ history[Copy(o)] = orders[o].total

\* The copy is still on its way, with the order's total.
OnItsWay(o) ==
    /\ Copy(o) \notin DOMAIN history
    /\ \A k \in DOMAIN outbox[o] :
          outbox[o][k].op = "setHistory" /\ outbox[o][k].phone = orders[o].phone
              => outbox[o][k].total = orders[o].total

Untouched(o) == \A a \in Admins : \A k \in DOMAIN outbox[a] : ~ CopyUpdate(outbox[a][k], o)

\* A customer's writes name one total; the copy comes after the order; and
\* what the server has taken or holds it has met.
OneTotal ==
    \A o \in OrderIds : \A j, k \in DOMAIN outbox[o] : outbox[o][j].total = outbox[o][k].total

OrderBeforeCopy ==
    \A o \in OrderIds : \A k \in DOMAIN outbox[o] : outbox[o][k].op = "setHistory" =>
        ~ NotYet(o) \/ \E j \in DOMAIN outbox[o] : j < k /\ outbox[o][j].op = "setOrder"

TakenIsMet ==
    \A o \in OrderIds : \A k \in DOMAIN outbox[o] :
        k <= took[o] => <<outbox[o][k].op, o>> \in met

CopiesAreMet ==
    \A o \in OrderIds :
        /\ \A p \in Phones : <<p, o>> \in DOMAIN history => <<"setHistory", o>> \in met
        /\ <<"setHistory", o>> \in met => ~ NotYet(o)

CustomerInv == OneTotal /\ OrderBeforeCopy /\ TakenIsMet /\ CopiesAreMet

\* An administrator's update of a total is followed by that of the copy, and an
\* update of a copy that is not the oldest write by the order's in front of it.
PairsStayWhole ==
    \A a \in Admins : \A k \in DOMAIN outbox[a] :
        /\ outbox[a][k].op = "updateTotal" =>
              /\ k + 1 \in DOMAIN outbox[a]
              /\ CopyUpdate(outbox[a][k + 1], outbox[a][k].order)
        /\ outbox[a][k].op = "updateHistory" /\ k # 1 =>
              outbox[a][k - 1] = UpdateTotal(outbox[a][k].order, outbox[a][k].total)

\* Administrators know the phone of an order that came once.
PhonesAreKnown ==
    \A a \in Admins : \A o \in DOMAIN orders : ~ Renewed(o) =>
        /\ o \in DOMAIN synced[a] => synced[a][o].phone = orders[o].phone
        /\ dialog[a] # NoDialog /\ dialog[a].order = o => dialog[a].phone = orders[o].phone
        /\ \A k \in DOMAIN outbox[a] :
              CopyUpdate(outbox[a][k], o) => outbox[a][k].phone = orders[o].phone

\* Whoever has something of a new total to send is among those who said one.
Speaks(a, o) == \E s \in said : s.admin = a /\ s.order = o

QueuedIsSaid == \A a \in Admins, o \in OrderIds : Owes(a, o) => Speaks(a, o)

\* The totals of an order over which administrators do not compete agree if no
\* update of the copy is queued or the latest has been taken; and as soon as the
\* writes before it have, the order has its total.
TotalsAgree ==
    \A o \in DOMAIN orders \ refused : ~ Rewritten(o) /\ ~ Contended(o) =>
        /\ Untouched(o) => Equal(o) \/ OnItsWay(o)
        /\ \A a \in Admins : \A k \in DOMAIN outbox[a] : LatestUpdate(a, o, k) =>
              /\ k <= took[a] => Equal(o)
              /\ k <= took[a] + 1 => orders[o].total = outbox[a][k].total

CopyInv == CustomerInv /\ PairsStayWhole /\ PhonesAreKnown /\ QueuedIsSaid /\ TotalsAgree

-----------------------------------------------------------------------------
\* What a customer's queue holds.
LEMMA CustomerQueue ==
    ASSUME LifeInv, NEW o \in OrderIds
    PROVE  /\ o \in Devices /\ o \notin Admins
           /\ outbox[o] \in Seq(CustomerWrite) /\ DOMAIN outbox[o] = 1 .. Len(outbox[o])
           /\ Len(outbox[o]) \in Nat
           /\ took[o] \in Nat /\ took[o] <= Len(outbox[o])
           /\ \A k \in DOMAIN outbox[o] :
                 /\ outbox[o][k] \in CustomerWrite
                 /\ outbox[o][k].op \in {"setOrder", "setHistory"} /\ outbox[o][k].order = o
                 /\ outbox[o][k].phone \in Phones
<1>1. o \in Devices /\ o \notin Admins /\ outbox[o] \in Seq(CustomerWrite)
  BY DevicesAssumption DEF Devices, LifeInv, Types
<1>2. /\ DOMAIN outbox[o] = 1 .. Len(outbox[o]) /\ Len(outbox[o]) \in Nat
      /\ \A k \in DOMAIN outbox[o] : outbox[o][k] \in CustomerWrite
  BY <1>1
<1>3. took[o] \in Nat /\ took[o] <= Len(outbox[o])
  BY <1>1 DEF LifeInv, Types
<1>4. \A k \in DOMAIN outbox[o] : outbox[o][k].order = o
  BY DEF LifeInv, OwnWrites
<1>5. \A w \in CustomerWrite : w.op \in {"setOrder", "setHistory"} /\ w.phone \in Phones
  BY DEF CustomerWrite
<1> QED
  BY <1>1, <1>2, <1>3, <1>4, <1>5

\* Steps of others do not touch what a customer has queued.
LEMMA CustomersUntouched ==
    ASSUME LifeInv, CustomerInv, met' = met, DOMAIN history' \subseteq DOMAIN history,
           \A o \in OrderIds : outbox'[o] = outbox[o] /\ took'[o] \in Nat /\ took'[o] <= took[o]
    PROVE  CustomerInv'
<1>1. \A o \in OrderIds : NotYet(o)' <=> NotYet(o)
  BY DEF NotYet
<1>2. OneTotal'
  BY DEF CustomerInv, OneTotal
<1>3. OrderBeforeCopy'
  BY <1>1 DEF CustomerInv, OrderBeforeCopy
<1>4. TakenIsMet'
  <2> SUFFICES ASSUME NEW o \in OrderIds, NEW k \in DOMAIN outbox[o], k <= took'[o]
               PROVE  <<outbox[o][k].op, o>> \in met
    BY DEF TakenIsMet
  <2>1. k <= took[o]
    BY CustomerQueue
  <2> QED
    BY <2>1 DEF CustomerInv, TakenIsMet
<1>5. CopiesAreMet'
  BY <1>1 DEF CustomerInv, CopiesAreMet
<1> QED
  BY <1>2, <1>3, <1>4, <1>5 DEF CustomerInv

\* Submitting queues the order, then its copy, both with one total.
LEMMA SubmitKeepsCustomers ==
    ASSUME LifeInv, CustomerInv,
           NEW o \in OrderIds, NEW phone \in Phones,
           NEW account \in Phones \cup {Guest}, NEW v \in Totals,
           NEW twice \in BOOLEAN, Submit(o, phone, account, v, twice)
    PROVE  CustomerInv'
<1> DEFINE once == IF account = Guest
                   THEN <<SetOrder(o, phone, v)>>
                   ELSE <<SetOrder(o, phone, v), SetHistory(o, account, v)>>
           ws   == IF twice THEN once \o once ELSE once
<1>1. /\ outbox' = [outbox EXCEPT ![o] = outbox[o] \o ws] /\ o \notin placed
      /\ UNCHANGED <<history, met, took>>
  BY DEF Submit, Enqueue, server
<1>2. ws \in Seq(CustomerWrite) /\ 1 \in DOMAIN ws /\ ws[1].op = "setOrder"
      /\ \A k \in DOMAIN ws : ws[k].total = v
  <2>1. SetOrder(o, phone, v) \in CustomerWrite
    BY DEF SetOrder, CustomerWrite
  <2>2. account # Guest => SetHistory(o, account, v) \in CustomerWrite
    BY DEF SetHistory, CustomerWrite
  <2>3. once \in Seq(CustomerWrite) /\ Len(once) \in {1, 2} /\ once[1].op = "setOrder"
        /\ \A k \in 1 .. Len(once) : once[k].total = v
    <3>1. CASE account = Guest
      BY <2>1, <3>1 DEF SetOrder
    <3>2. CASE account # Guest
      BY <2>1, <2>2, <3>2 DEF SetOrder, SetHistory
    <3> QED
      BY <3>1, <3>2
  <2> HIDE DEF once
  <2> QED
    BY <2>3
<1> HIDE DEF ws
<1>3. outbox[o] = << >> /\ took[o] = 0
  <2>1. \A k \in DOMAIN outbox[o] : FALSE
    BY <1>1 DEF LifeInv, OwnWrites
  <2> QED
    BY <2>1, CustomerQueue
<1>4. outbox'[o] = ws /\ \A x \in OrderIds \ {o} : outbox'[x] = outbox[x]
  <2>1. outbox'[o] = outbox[o] \o ws /\ \A x \in OrderIds \ {o} : outbox'[x] = outbox[x]
    BY <1>1, CustomerQueue DEF LifeInv, Types
  <2> QED
    BY <1>2, <1>3, <2>1
<1>5. \A x \in OrderIds : NotYet(x)' <=> NotYet(x)
  BY <1>1 DEF NotYet
<1>6. OneTotal'
  BY <1>2, <1>4 DEF CustomerInv, OneTotal
<1>7. OrderBeforeCopy'
  <2> SUFFICES ASSUME NEW x \in OrderIds, NEW k \in DOMAIN outbox'[x],
                      outbox'[x][k].op = "setHistory"
               PROVE  ~ NotYet(x) \/ \E j \in DOMAIN outbox'[x] :
                                         j < k /\ outbox'[x][j].op = "setOrder"
    BY <1>5 DEF OrderBeforeCopy
  <2>1. CASE x = o
    <3>1. k \in DOMAIN ws /\ k # 1
      BY <1>2, <1>4, <2>1
    <3>2. 1 < k
      BY <1>2, <3>1
    <3> QED
      BY <1>2, <1>4, <2>1, <3>2
  <2>2. CASE x # o
    BY <1>4, <2>2 DEF CustomerInv, OrderBeforeCopy
  <2> QED
    BY <2>1, <2>2
<1>8. TakenIsMet'
  <2> SUFFICES ASSUME NEW x \in OrderIds, NEW k \in DOMAIN outbox'[x], k <= took[x]
               PROVE  <<outbox'[x][k].op, x>> \in met
    BY <1>1 DEF TakenIsMet
  <2>1. x # o
    BY <1>2, <1>3, <1>4
  <2> QED
    BY <1>4, <2>1 DEF CustomerInv, TakenIsMet
<1>9. CopiesAreMet'
  BY <1>1, <1>5 DEF CustomerInv, CopiesAreMet
<1> QED
  BY <1>6, <1>7, <1>8, <1>9 DEF CustomerInv

-----------------------------------------------------------------------------
\* What a write does to the copies: it files one, changes one that exists, or
\* leaves all alone.
LEMMA CopyFiled ==
    ASSUME NEW w, NEW docs, NEW r, r = ApplyToHistory(docs, w), w.op = "setHistory"
    PROVE  /\ DOMAIN r = DOMAIN docs \cup {<<w.phone, w.order>>}
           /\ r[<<w.phone, w.order>>] = w.total
           /\ \A k \in DOMAIN docs : k # <<w.phone, w.order>> => r[k] = docs[k]
<1> DEFINE key == <<w.phone, w.order>>
<1>1. r = [k \in DOMAIN docs \cup {key} |-> IF k = key THEN w.total ELSE docs[k]]
  BY DEF ApplyToHistory, SetDoc
<1> HIDE DEF key
<1>2. /\ DOMAIN r = DOMAIN docs \cup {key} /\ r[key] = w.total
      /\ \A k \in DOMAIN docs : k # key => r[k] = docs[k]
  BY <1>1
<1> QED
  BY <1>2 DEF key

LEMMA CopyChanged ==
    ASSUME NEW w, NEW docs, NEW r, r = ApplyToHistory(docs, w), w.op = "updateHistory",
           <<w.phone, w.order>> \in DOMAIN docs
    PROVE  /\ DOMAIN r = DOMAIN docs /\ r[<<w.phone, w.order>>] = w.total
           /\ \A k \in DOMAIN docs : k # <<w.phone, w.order>> => r[k] = docs[k]
<1> DEFINE key == <<w.phone, w.order>>
<1>1. r = [docs EXCEPT ![key] = w.total] /\ key \in DOMAIN docs
  BY DEF ApplyToHistory
<1> HIDE DEF key
<1>2. /\ DOMAIN r = DOMAIN docs /\ r[key] = w.total
      /\ \A k \in DOMAIN docs : k # key => r[k] = docs[k]
  BY <1>1
<1> QED
  BY <1>2 DEF key

LEMMA CopiesKept ==
    ASSUME NEW w, NEW docs, NEW r, r = ApplyToHistory(docs, w), w.op # "setHistory",
           ~ (w.op = "updateHistory" /\ <<w.phone, w.order>> \in DOMAIN docs)
    PROVE  r = docs
  BY DEF ApplyToHistory

\* An administrator's write keeps the phones, and every total but the one it names.
LEMMA AdminKeepsPhones ==
    ASSUME NEW docs \in Docs, NEW w \in AdminWrite, NEW r, r = ApplyToOrders(docs, w)
    PROVE  /\ DOMAIN r \subseteq DOMAIN docs
           /\ \A o \in DOMAIN r :
                 /\ r[o].phone = docs[o].phone
                 /\ ~ (w.op = "updateTotal" /\ o = w.order) => r[o].total = docs[o].total
                 /\ w.op = "updateTotal" /\ o = w.order => r[o].total = w.total
<1>0. DOMAIN docs \in SUBSET OrderIds /\ docs \in [DOMAIN docs -> Doc]
  BY DocsFacts
<1>1. CASE w.op = "updateTotal" /\ w.order \in DOMAIN docs
  <2>1. r = [docs EXCEPT ![w.order].total = w.total]
    BY <1>1 DEF ApplyToOrders
  <2>2. DOMAIN r = DOMAIN docs /\ \A o \in DOMAIN docs : o # w.order => r[o] = docs[o]
    BY <1>0, <2>1
  <2>3. r[w.order].phone = docs[w.order].phone /\ r[w.order].total = w.total
    BY <1>0, <1>1, <2>1 DEF Doc
  <2> QED
    BY <1>1, <2>2, <2>3
<1>2. CASE w.op = "updateStatus" /\ w.order \in DOMAIN docs
  <2>1. r = [docs EXCEPT ![w.order].status = "done"]
    BY <1>2 DEF ApplyToOrders
  <2>2. DOMAIN r = DOMAIN docs /\ \A o \in DOMAIN docs : o # w.order => r[o] = docs[o]
    BY <1>0, <2>1
  <2>3. /\ r[w.order].phone = docs[w.order].phone
        /\ r[w.order].total = docs[w.order].total
    BY <1>0, <1>2, <2>1 DEF Doc
  <2> QED
    BY <1>2, <2>2, <2>3
<1>3. CASE w.op = "delete"
  <2>1. r = [o \in DOMAIN docs \ {w.order} |-> docs[o]]
    BY <1>3 DEF ApplyToOrders, Restrict
  <2> QED
    BY <1>3, <2>1
<1>4. CASE /\ w.op # "delete"
           /\ w.op \in {"updateTotal", "updateStatus"} => w.order \notin DOMAIN docs
  <2>1. w.op # "setOrder"
    BY DEF AdminWrite
  <2>2. r = docs
    BY <1>4, <2>1 DEF ApplyToOrders
  <2> QED
    BY <1>4, <2>2
<1> QED
  BY <1>1, <1>2, <1>3, <1>4

\* What the server's taking a write means for the copies.
LEMMA DeliverToCopies ==
    ASSUME LifeInv, NEW d \in Devices, Deliver(d)
    PROVE  /\ refused \subseteq refused'
           /\ NextWrite(d).op = "updateHistory"
              /\ <<NextWrite(d).phone, NextWrite(d).order>> \notin DOMAIN history
                 => NextWrite(d).order \in refused'
           /\ took' = [took EXCEPT ![d] = took[d] + 1]
           /\ took'[d] = took[d] + 1 /\ took[d] \in Nat
           /\ \A c \in Devices : c # d => took'[c] = took[c]
<1>1. took' = [took EXCEPT ![d] = took[d] + 1] /\ took \in [Devices -> Nat]
  BY DeliverFacts DEF LifeInv, Types
<1>2. /\ refused \subseteq refused'
      /\ NextWrite(d).op = "updateHistory"
         /\ <<NextWrite(d).phone, NextWrite(d).order>> \notin DOMAIN history
            => NextWrite(d).order \in refused'
  BY DEF Deliver, NextWrite
<1> QED
  BY <1>1, <1>2

\* The customer's write that the server takes next.
LEMMA CustomersNextWrite ==
    ASSUME LifeInv, NEW o \in OrderIds, Deliver(o), NEW w, w = NextWrite(o)
    PROVE  /\ o \in Devices /\ o \notin Admins
           /\ took[o] + 1 \in DOMAIN outbox[o] /\ w = outbox[o][took[o] + 1]
           /\ w \in CustomerWrite /\ w.order = o /\ w.phone \in Phones
           /\ w.op \in {"setOrder", "setHistory"}
           /\ met' = met \cup {<<w.op, o>>}
           /\ again' = IF <<w.op, o>> \in met THEN again \cup {<<w.op, o>>} ELSE again
           /\ history' = ApplyToHistory(history, w)
           /\ orders' = ApplyToOrders(orders, w)
           /\ UNCHANGED <<outbox, synced, dialog, placed, said>>
<1>1. o \in Devices /\ o \notin Admins
  BY CustomerQueue
<1>2. /\ took[o] + 1 \in DOMAIN outbox[o] /\ w = outbox[o][took[o] + 1]
      /\ orders' = ApplyToOrders(orders, w)
      /\ history' = ApplyToHistory(history, w)
      /\ met' = met \cup {<<w.op, w.order>>}
      /\ again' = IF <<w.op, w.order>> \in met THEN again \cup {<<w.op, w.order>>} ELSE again
      /\ UNCHANGED <<outbox, synced, dialog, placed, said>>
  BY <1>1, DeliverFacts DEF NextWrite
<1>3. w \in CustomerWrite /\ w.order = o /\ w.phone \in Phones
      /\ w.op \in {"setOrder", "setHistory"}
  BY <1>2, CustomerQueue
<1> QED
  BY <1>1, <1>2, <1>3

\* The server takes a write of the customer: it is met, and the copy after the
\* order.
LEMMA DeliverKeepsCustomers ==
    ASSUME LifeInv, CustomerInv, NEW o \in OrderIds, Deliver(o)
    PROVE  CustomerInv'
<1> DEFINE w == NextWrite(o)
           n == took[o] + 1
<1>1. /\ o \in Devices /\ n \in DOMAIN outbox[o] /\ w = outbox[o][n]
      /\ w.order = o /\ w.op \in {"setOrder", "setHistory"} /\ w.phone \in Phones
      /\ met' = met \cup {<<w.op, o>>}
      /\ history' = ApplyToHistory(history, w)
      /\ outbox' = outbox
  BY CustomersNextWrite
<1>2. /\ took'[o] = n /\ took[o] \in Nat
      /\ \A c \in Devices : c # o => took'[c] = took[c]
  BY <1>1, DeliverToCopies
<1> HIDE DEF w
<1>3. \A x \in OrderIds : ~ NotYet(x) => ~ NotYet(x)'
  BY <1>1 DEF NotYet
<1>4. OneTotal'
  BY <1>1 DEF CustomerInv, OneTotal
<1>5. OrderBeforeCopy'
  BY <1>1, <1>3 DEF CustomerInv, OrderBeforeCopy
<1>6. TakenIsMet'
  <2> SUFFICES ASSUME NEW x \in OrderIds, NEW k \in DOMAIN outbox[x], k <= took'[x]
               PROVE  <<outbox[x][k].op, x>> \in met'
    BY <1>1 DEF TakenIsMet
  <2>1. CASE x # o
    <3>1. took'[x] = took[x]
      BY <1>2, <2>1 DEF Devices
    <3> QED
      BY <1>1, <3>1 DEF CustomerInv, TakenIsMet
  <2>2. CASE x = o /\ k = n
    BY <1>1, <2>2
  <2>3. CASE x = o /\ k # n
    <3>1. k <= took[o]
      BY <1>2, <2>3, CustomerQueue
    <3> QED
      BY <1>1, <2>3, <3>1 DEF CustomerInv, TakenIsMet
  <2> QED
    BY <2>1, <2>2, <2>3
<1>7. w.op = "setHistory" => ~ NotYet(o)
  <2> SUFFICES ASSUME w.op = "setHistory",
                      NEW j \in DOMAIN outbox[o], j < n, outbox[o][j].op = "setOrder"
               PROVE  ~ NotYet(o)
    BY <1>1 DEF CustomerInv, OrderBeforeCopy
  <2>1. j <= took[o]
    BY <1>2, CustomerQueue
  <2> QED
    BY <2>1 DEF CustomerInv, TakenIsMet, NotYet
<1>8. /\ w.op = "setOrder" => history' = history
      /\ w.op = "setHistory" => DOMAIN history' = DOMAIN history \cup {<<w.phone, o>>}
  <2>1. history' = ApplyToHistory(history, w) /\ w.order = o
    BY <1>1
  <2>2. w.op = "setOrder" => history' = history
    BY <2>1, CopiesKept
  <2>3. w.op = "setHistory" => DOMAIN history' = DOMAIN history \cup {<<w.phone, w.order>>}
    BY <2>1, CopyFiled
  <2> QED
    BY <2>1, <2>2, <2>3
<1>9. CopiesAreMet'
  <2> SUFFICES ASSUME NEW x \in OrderIds
               PROVE  /\ \A p \in Phones : <<p, x>> \in DOMAIN history'
                                             => <<"setHistory", x>> \in met'
                      /\ <<"setHistory", x>> \in met' => ~ NotYet(x)'
    BY DEF CopiesAreMet
  <2>1. <<"setHistory", x>> \in met' => ~ NotYet(x)'
    <3>1. CASE <<"setHistory", x>> \in met
      BY <1>3, <3>1 DEF CustomerInv, CopiesAreMet
    <3>2. CASE <<"setHistory", x>> \notin met
      BY <1>1, <1>3, <1>7, <3>2
    <3> QED
      BY <3>1, <3>2
  <2>2. ASSUME NEW p \in Phones, <<p, x>> \in DOMAIN history'
        PROVE  <<"setHistory", x>> \in met'
    <3>1. CASE <<p, x>> \in DOMAIN history
      BY <1>1, <3>1 DEF CustomerInv, CopiesAreMet
    <3>2. CASE <<p, x>> \notin DOMAIN history
      <4>1. w.op = "setHistory"
        BY <1>8, <1>1, <2>2, <3>2
      <4>2. DOMAIN history' = DOMAIN history \cup {<<w.phone, o>>}
        BY <1>8, <4>1
      <4>3. x = o
        BY <2>2, <3>2, <4>2
      <4> QED
        BY <1>1, <4>1, <4>3
    <3> QED
      BY <3>1, <3>2
  <2> QED
    BY <2>1, <2>2
<1> QED
  BY <1>4, <1>5, <1>6, <1>9 DEF CustomerInv

\* What reading an answer does to a queue.
LEMMA AnswerRead ==
    ASSUME LifeInv, NEW d \in Devices, Answered(d)
    PROVE  /\ took[d] \in Nat /\ took[d] > 0 /\ took'[d] = took[d] - 1
           /\ 1 \in DOMAIN outbox[d] /\ 1 <= took[d]
           /\ \A c \in Devices : c # d => outbox'[c] = outbox[c] /\ took'[c] = took[c]
           /\ \A k \in DOMAIN outbox'[d] :
                 k \in Nat /\ k + 1 \in DOMAIN outbox[d] /\ outbox'[d][k] = outbox[d][k + 1]
           /\ \A j \in DOMAIN outbox[d] : j # 1 =>
                 j \in Nat /\ j - 1 \in DOMAIN outbox'[d] /\ outbox'[d][j - 1] = outbox[d][j]
           /\ \A j \in DOMAIN outbox[d] : j \in Nat /\ j >= 1
           /\ UNCHANGED <<orders, history, refused, met, again, dialog, placed, said>>
<1>1. /\ took[d] > 0 /\ took' = [took EXCEPT ![d] = took[d] - 1]
      /\ outbox' = [outbox EXCEPT ![d] = Tail(outbox[d])]
      /\ UNCHANGED <<orders, history, refused, met, again, dialog, placed, said>>
  BY DEF Answered, server
<1>2. /\ outbox'[d] = Tail(outbox[d]) /\ took'[d] = took[d] - 1
      /\ \A c \in Devices : c # d => outbox'[c] = outbox[c] /\ took'[c] = took[c]
      /\ took[d] \in Nat /\ took[d] <= Len(outbox[d])
  BY <1>1 DEF LifeInv, Types
<1>3. outbox[d] \in Seq(CustomerWrite \cup AdminWrite)
  <2>1. outbox[d] \in Seq(CustomerWrite) \/ outbox[d] \in Seq(AdminWrite)
    BY DEF LifeInv, Types, Devices
  <2> QED
    BY <2>1
<1>4. outbox[d] # << >>
  BY <1>1, <1>2, <1>3
<1>5. /\ 1 \in DOMAIN outbox[d]
      /\ \A k \in DOMAIN outbox'[d] :
            k \in Nat /\ k + 1 \in DOMAIN outbox[d] /\ outbox'[d][k] = outbox[d][k + 1]
      /\ \A j \in DOMAIN outbox[d] : j # 1 =>
            j \in Nat /\ j - 1 \in DOMAIN outbox'[d] /\ outbox'[d][j - 1] = outbox[d][j]
  BY <1>2, <1>3, <1>4, TailFacts
<1>6. \A j \in DOMAIN outbox[d] : j \in Nat /\ j >= 1
  BY <1>3
<1>7. 1 <= took[d]
  BY <1>1, <1>2
<1> QED
  BY <1>1, <1>2, <1>5, <1>6, <1>7, Zenon

\* A customer's device reads an answer: the copies behind a forgotten order
\* follow one that the server has met.
LEMMA AnswerKeepsCustomers ==
    ASSUME LifeInv, CustomerInv, NEW d \in Devices, Answered(d)
    PROVE  CustomerInv'
<1> USE AnswerRead
<1>1. \A x \in OrderIds : NotYet(x)' <=> NotYet(x)
  BY DEF NotYet
<1>2. ASSUME NEW x \in OrderIds, NEW k \in DOMAIN outbox'[x]
      PROVE  /\ \E i \in DOMAIN outbox[x] : outbox'[x][k] = outbox[x][i]
             /\ outbox'[x][k].op = "setHistory" =>
                  ~ NotYet(x) \/ \E j \in DOMAIN outbox'[x] :
                                    j < k /\ outbox'[x][j].op = "setOrder"
             /\ k <= took'[x] => <<outbox'[x][k].op, x>> \in met
  <2>1. CASE x # d
    <3>1. outbox'[x] = outbox[x] /\ took'[x] = took[x]
      BY <2>1 DEF Devices
    <3> QED
      BY <3>1 DEF CustomerInv, OrderBeforeCopy, TakenIsMet
  <2>2. CASE x = d
    <3>1. k \in Nat /\ k + 1 \in DOMAIN outbox[x] /\ outbox'[x][k] = outbox[x][k + 1]
      BY <2>2
    <3>2. k <= took'[x] => k + 1 <= took[x]
      BY <2>2, <3>1
    <3>3. k <= took'[x] => <<outbox'[x][k].op, x>> \in met
      BY <3>1, <3>2 DEF CustomerInv, TakenIsMet
    <3>4. ASSUME outbox'[x][k].op = "setHistory", NotYet(x)
          PROVE  \E j \in DOMAIN outbox'[x] : j < k /\ outbox'[x][j].op = "setOrder"
      <4>1. PICK j \in DOMAIN outbox[x] : j < k + 1 /\ outbox[x][j].op = "setOrder"
        BY <3>1, <3>4 DEF CustomerInv, OrderBeforeCopy
      <4>2. j # 1
        BY <2>2, <3>4, <4>1 DEF CustomerInv, TakenIsMet, NotYet
      <4>3. j \in Nat /\ j - 1 \in DOMAIN outbox'[x] /\ outbox'[x][j - 1] = outbox[x][j]
        BY <2>2, <4>2
      <4>4. j - 1 < k
        BY <3>1, <4>1, <4>3
      <4> QED
        BY <4>1, <4>3, <4>4
    <3> QED
      BY <3>1, <3>3, <3>4
  <2> QED
    BY <2>1, <2>2
<1>3. OneTotal'
  <2> SUFFICES ASSUME NEW x \in OrderIds,
                      NEW j \in DOMAIN outbox'[x], NEW k \in DOMAIN outbox'[x]
               PROVE  outbox'[x][j].total = outbox'[x][k].total
    BY DEF OneTotal
  <2>1. PICK i \in DOMAIN outbox[x] : outbox'[x][j] = outbox[x][i]
    BY <1>2
  <2>2. PICK h \in DOMAIN outbox[x] : outbox'[x][k] = outbox[x][h]
    BY <1>2
  <2> QED
    BY <2>1, <2>2 DEF CustomerInv, OneTotal
<1>4. OrderBeforeCopy'
  BY <1>1, <1>2 DEF OrderBeforeCopy
<1>5. TakenIsMet'
  BY <1>2 DEF TakenIsMet
<1>6. CopiesAreMet'
  BY <1>1 DEF CustomerInv, CopiesAreMet
<1> QED
  BY <1>3, <1>4, <1>5, <1>6 DEF CustomerInv

-----------------------------------------------------------------------------
\* Who has an update to send has said a total, as long as no update is queued.
LEMMA SaidKept ==
    ASSUME QueuedIsSaid, said' = said,
           \A a \in Admins : \A k \in DOMAIN outbox'[a] :
               outbox'[a][k].op \in {"updateTotal", "updateHistory"} =>
                   \E j \in DOMAIN outbox[a] : outbox'[a][k] = outbox[a][j]
    PROVE  QueuedIsSaid'
<1> SUFFICES ASSUME NEW a \in Admins, NEW o \in OrderIds, Owes(a, o)'
             PROVE  Speaks(a, o)'
  BY DEF QueuedIsSaid
<1>1. PICK k \in DOMAIN outbox'[a] : /\ outbox'[a][k].op \in {"updateTotal", "updateHistory"}
                                     /\ outbox'[a][k].order = o
  BY DEF Owes
<1>2. Owes(a, o)
  BY <1>1 DEF Owes
<1> QED
  BY <1>2 DEF QueuedIsSaid, Speaks

\* Administrators who both said a total of an order compete.
LEMMA TwoSpeakers ==
    ASSUME NEW o, NEW a \in Admins, NEW b \in Admins, a # b, Speaks(a, o), Speaks(b, o)
    PROVE  Contended(o)
  BY DEF Speaks, Contended

\* Steps that leave the server and the administrators' queues alone, and that
\* take nothing of a customer's queue but what is answered.
LEMMA OthersKeepTotals ==
    ASSUME LifeInv, TotalsAgree, UNCHANGED <<orders, history, refused, again, said>>,
           \A a \in Admins : outbox'[a] = outbox[a] /\ took'[a] \in Nat /\ took'[a] <= took[a],
           \A o \in DOMAIN orders : \A k \in DOMAIN outbox'[o] :
               \E j \in DOMAIN outbox[o] : outbox'[o][k] = outbox[o][j]
    PROVE  TotalsAgree'
<1> SUFFICES ASSUME NEW o \in DOMAIN orders \ refused, ~ Rewritten(o),
                      ~ Contended(o)
             PROVE  /\ Untouched(o)' => Equal(o)' \/ OnItsWay(o)'
                    /\ \A a \in Admins : \A k \in DOMAIN outbox'[a] : LatestUpdate(a, o, k)' =>
                          /\ k <= took'[a] => Equal(o)'
                          /\ k <= took'[a] + 1 => orders'[o].total = outbox'[a][k].total
  BY DEF TotalsAgree, Rewritten, Renewed, Contended
<1>1. (Untouched(o)' <=> Untouched(o)) /\ (Equal(o)' <=> Equal(o))
  BY DEF Untouched, Equal, Copy
<1>2. OnItsWay(o) => OnItsWay(o)'
  <2> SUFFICES ASSUME OnItsWay(o) PROVE OnItsWay(o)'
    OBVIOUS
  <2>1. \A k \in DOMAIN outbox'[o] :
           outbox'[o][k].op = "setHistory" /\ outbox'[o][k].phone = orders[o].phone
              => outbox'[o][k].total = orders[o].total
    BY DEF OnItsWay
  <2> QED
    BY <2>1 DEF OnItsWay, Copy
<1>3. Untouched(o)' => Equal(o)' \/ OnItsWay(o)'
  BY <1>1, <1>2 DEF TotalsAgree
<1>4. ASSUME NEW a \in Admins, NEW k \in DOMAIN outbox'[a], LatestUpdate(a, o, k)'
      PROVE  /\ k <= took'[a] => Equal(o)'
             /\ k <= took'[a] + 1 => orders'[o].total = outbox'[a][k].total
  <2>1. k \in DOMAIN outbox[a] /\ outbox'[a] = outbox[a] /\ LatestUpdate(a, o, k)
    BY <1>4 DEF LatestUpdate
  <2>2. k \in Nat /\ took[a] \in Nat
    <3>1. outbox[a] \in Seq(AdminWrite) /\ took[a] \in Nat
      BY DEF LifeInv, Types, Devices
    <3> QED
      BY <2>1, <3>1
  <2>3. (k <= took'[a] => k <= took[a]) /\ (k <= took'[a] + 1 => k <= took[a] + 1)
    BY <2>2
  <2>4. /\ k <= took[a] => Equal(o)
        /\ k <= took[a] + 1 => orders[o].total = outbox[a][k].total
    BY <2>1 DEF TotalsAgree
  <2> QED
    BY <1>1, <2>1, <2>3, <2>4
<1> QED
  BY <1>3, <1>4

\* What queueing does to an administrator's queue.
LEMMA Queueing ==
    ASSUME LifeInv, NEW a \in Admins, NEW ws \in Seq(AdminWrite), Enqueue(a, ws)
    PROVE  /\ a \in Devices /\ a \notin OrderIds
           /\ \A d \in Devices : d # a => outbox'[d] = outbox[d]
           /\ outbox[a] \in Seq(AdminWrite)
           /\ outbox'[a] = outbox[a] \o ws
           /\ Len(outbox[a]) \in Nat /\ DOMAIN outbox[a] = 1 .. Len(outbox[a])
           /\ took[a] \in Nat /\ took[a] <= Len(outbox[a])
           /\ DOMAIN outbox'[a] = 1 .. (Len(outbox[a]) + Len(ws))
           /\ \A k \in DOMAIN outbox[a] : k \in DOMAIN outbox'[a] /\ outbox'[a][k] = outbox[a][k]
           /\ \A k \in DOMAIN outbox'[a] : k \notin DOMAIN outbox[a] =>
                 /\ k - Len(outbox[a]) \in DOMAIN ws
                 /\ outbox'[a][k] = ws[k - Len(outbox[a])]
<1>1. /\ a \in Devices /\ a \notin OrderIds /\ outbox[a] \in Seq(AdminWrite)
      /\ took[a] \in Nat /\ took[a] <= Len(outbox[a])
  BY DevicesAssumption DEF Devices, LifeInv, Types
<1>2. outbox'[a] = outbox[a] \o ws /\ \A d \in Devices : d # a => outbox'[d] = outbox[d]
  BY <1>1 DEF Enqueue, LifeInv, Types
<1>3. /\ Len(outbox[a]) \in Nat /\ DOMAIN outbox[a] = 1 .. Len(outbox[a]) /\ Len(ws) \in Nat
      /\ DOMAIN outbox'[a] = 1 .. (Len(outbox[a]) + Len(ws))
      /\ \A k \in DOMAIN outbox[a] : outbox'[a][k] = outbox[a][k]
      /\ \A k \in DOMAIN outbox'[a] : k \notin DOMAIN outbox[a] =>
            k - Len(outbox[a]) \in DOMAIN ws /\ outbox'[a][k] = ws[k - Len(outbox[a])]
  BY <1>1, <1>2, AppendedFacts
<1>4. DOMAIN outbox[a] \subseteq DOMAIN outbox'[a]
  BY <1>3
<1> QED
  BY <1>1, <1>2, <1>3, <1>4

\* Queueing writes that update no copy.
LEMMA QueueingKeepsPairs ==
    ASSUME LifeInv, CustomerInv, PairsStayWhole, PhonesAreKnown,
           QueuedIsSaid, TotalsAgree,
           NEW a \in Admins, NEW w \in AdminWrite, w.op \in {"delete", "updateStatus"},
           Enqueue(a, <<w>>),
           \A b \in Admins : dialog'[b] \in {dialog[b], NoDialog},
           UNCHANGED <<server, took, synced, said>>
    PROVE  CopyInv'
<1> DEFINE ws == <<w>>
<1>0. ws \in Seq(AdminWrite) /\ Len(ws) = 1 /\ DOMAIN ws = {1} /\ ws[1] = w
  OBVIOUS
<1>1. /\ UNCHANGED <<orders, history, refused, met, again, took, synced, said>>
      /\ Enqueue(a, ws)
  BY DEF server
<1> HIDE DEF ws
<1>2. /\ a \in Devices /\ a \notin OrderIds
      /\ \A d \in Devices : d # a => outbox'[d] = outbox[d]
      /\ took[a] \in Nat /\ took[a] <= Len(outbox[a])
      /\ Len(outbox[a]) \in Nat /\ DOMAIN outbox[a] = 1 .. Len(outbox[a])
      /\ \A k \in DOMAIN outbox[a] : k \in DOMAIN outbox'[a] /\ outbox'[a][k] = outbox[a][k]
      /\ \A k \in DOMAIN outbox'[a] : k \notin DOMAIN outbox[a] => outbox'[a][k] = w
  BY <1>0, <1>1, Queueing
<1>3. \A b \in Admins : \A k \in DOMAIN outbox'[b] :
         outbox'[b][k].op \in {"updateTotal", "updateHistory"} =>
             k \in DOMAIN outbox[b] /\ outbox'[b][k] = outbox[b][k]
  BY <1>2 DEF Devices
<1>4. \A b \in Admins : \A k \in DOMAIN outbox[b] :
         k \in DOMAIN outbox'[b] /\ outbox'[b][k] = outbox[b][k]
  BY <1>2 DEF Devices
<1>5. \A o \in OrderIds : outbox'[o] = outbox[o]
  BY <1>2 DEF Devices
<1>6. CustomerInv'
  <2>1. \A o \in OrderIds : took[o] \in Nat
    BY CustomerQueue
  <2> QED
    BY <1>1, <1>5, <2>1, CustomersUntouched
<1>7. PairsStayWhole'
  <2> SUFFICES ASSUME NEW b \in Admins, NEW k \in DOMAIN outbox'[b],
                      outbox'[b][k].op \in {"updateTotal", "updateHistory"}
               PROVE  /\ outbox'[b][k].op = "updateTotal" =>
                            /\ k + 1 \in DOMAIN outbox'[b]
                            /\ CopyUpdate(outbox'[b][k + 1], outbox'[b][k].order)
                      /\ outbox'[b][k].op = "updateHistory" /\ k # 1 =>
                            outbox'[b][k - 1]
                              = UpdateTotal(outbox'[b][k].order, outbox'[b][k].total)
    BY DEF PairsStayWhole, CopyUpdate
  <2>1. k \in DOMAIN outbox[b] /\ outbox'[b][k] = outbox[b][k]
    BY <1>3
  <2>2. outbox[b][k].op = "updateTotal" =>
           k + 1 \in DOMAIN outbox[b] /\ CopyUpdate(outbox[b][k + 1], outbox[b][k].order)
    BY <2>1 DEF PairsStayWhole
  <2>3. outbox[b][k].op = "updateHistory" /\ k # 1 =>
           outbox[b][k - 1] = UpdateTotal(outbox[b][k].order, outbox[b][k].total)
    BY <2>1 DEF PairsStayWhole
  <2>4. k # 1 => k - 1 \in DOMAIN outbox[b]
    <3>1. outbox[b] \in Seq(AdminWrite)
      BY DEF LifeInv, Types
    <3> QED
      BY <2>1, <3>1
  <2> QED
    BY <1>4, <2>1, <2>2, <2>3, <2>4
<1>8. PhonesAreKnown'
  <2>1. \A o : Renewed(o)' <=> Renewed(o)
    BY <1>1 DEF Renewed
  <2>2. \A b \in Admins, o \in OrderIds : \A k \in DOMAIN outbox'[b] :
           CopyUpdate(outbox'[b][k], o) =>
               /\ k \in DOMAIN outbox[b] /\ outbox'[b][k] = outbox[b][k]
               /\ CopyUpdate(outbox[b][k], o)
    BY <1>3 DEF CopyUpdate
  <2>3. DOMAIN orders \subseteq OrderIds
    BY DocsFacts DEF LifeInv, Types
  <2> QED
    BY <1>1, <2>1, <2>2, <2>3 DEF PhonesAreKnown
<1>9. TotalsAgree'
  <2> SUFFICES ASSUME NEW o \in DOMAIN orders \ refused, ~ Rewritten(o),
                      ~ Contended(o)
               PROVE  /\ Untouched(o)' => Equal(o)' \/ OnItsWay(o)'
                      /\ \A b \in Admins : \A k \in DOMAIN outbox'[b] : LatestUpdate(b, o, k)' =>
                            /\ k <= took'[b] => Equal(o)'
                            /\ k <= took'[b] + 1 => orders'[o].total = outbox'[b][k].total
    BY <1>1 DEF TotalsAgree, Rewritten, Renewed, Contended
  <2>0. o \in OrderIds
    BY DocsFacts DEF LifeInv, Types
  <2>1. (Equal(o)' <=> Equal(o)) /\ (OnItsWay(o)' <=> OnItsWay(o))
    BY <1>1, <1>5, <2>0 DEF Equal, OnItsWay, Copy
  <2>2. Untouched(o)' => Untouched(o)
    BY <1>4 DEF Untouched
  <2>3. ASSUME NEW b \in Admins, NEW k \in DOMAIN outbox'[b], LatestUpdate(b, o, k)'
        PROVE  k \in DOMAIN outbox[b] /\ outbox'[b][k] = outbox[b][k] /\ LatestUpdate(b, o, k)
    BY <1>3, <1>4, <2>3 DEF LatestUpdate, CopyUpdate
  <2> QED
    BY <1>1, <2>1, <2>2, <2>3 DEF TotalsAgree
<1>10. QueuedIsSaid'
  BY <1>1, <1>3, SaidKept
<1> QED
  BY <1>6, <1>7, <1>8, <1>9, <1>10 DEF CopyInv

\* A new total is confirmed: its pair is queued behind everything else, with the
\* phone of the dialog.
LEMMA QueueingAPair ==
    ASSUME LifeInv, CustomerInv, PairsStayWhole, PhonesAreKnown,
           QueuedIsSaid, TotalsAgree,
           NEW a \in Admins, NEW v \in Totals, ConfirmTotal(a, v)
    PROVE  CopyInv'
<1> DEFINE x  == dialog[a].order
           p  == dialog[a].phone
           ws == <<UpdateTotal(x, v), UpdateHistory(x, p, v)>>
<1>1. /\ UNCHANGED <<orders, history, refused, met, again, took, synced>>
      /\ Enqueue(a, ws) /\ dialog' = [dialog EXCEPT ![a] = NoDialog]
      /\ dialog[a] # NoDialog /\ Says(a, x, v)
  BY DEF ConfirmTotal, server, NoDialog
<1>2. x \in OrderIds /\ p \in Phones
  BY <1>1, MentionedIsKnown
<1> HIDE DEF x, p
<1>3. UpdateTotal(x, v) \in AdminWrite /\ UpdateHistory(x, p, v) \in AdminWrite
  BY <1>2 DEF UpdateTotal, UpdateHistory, AdminWrite
<1>4. /\ ws \in Seq(AdminWrite) /\ Len(ws) = 2
      /\ ws[1] = UpdateTotal(x, v) /\ ws[2] = UpdateHistory(x, p, v)
  BY <1>3
<1> HIDE DEF ws
<1> DEFINE n == Len(outbox[a])
<1>5. /\ a \in Devices /\ a \notin OrderIds
      /\ \A d \in Devices : d # a => outbox'[d] = outbox[d]
      /\ took[a] \in Nat /\ took[a] <= n
      /\ n \in Nat /\ DOMAIN outbox[a] = 1 .. n /\ DOMAIN outbox'[a] = 1 .. (n + 2)
      /\ \A k \in DOMAIN outbox[a] : k \in DOMAIN outbox'[a] /\ outbox'[a][k] = outbox[a][k]
      /\ \A k \in DOMAIN outbox'[a] : k \notin DOMAIN outbox[a] =>
            k - n \in DOMAIN ws /\ outbox'[a][k] = ws[k - n]
  <2>1. ws \in Seq(AdminWrite) /\ Enqueue(a, ws) /\ Len(ws) = 2
    BY <1>1, <1>4
  <2>2. /\ a \in Devices /\ a \notin OrderIds
        /\ \A d \in Devices : d # a => outbox'[d] = outbox[d]
        /\ took[a] \in Nat /\ took[a] <= n
        /\ n \in Nat /\ DOMAIN outbox[a] = 1 .. n
    BY <2>1, Queueing
  <2>3. DOMAIN outbox'[a] = 1 .. (n + Len(ws))
    BY <2>1, Queueing
  <2>4. \A k \in DOMAIN outbox[a] : k \in DOMAIN outbox'[a] /\ outbox'[a][k] = outbox[a][k]
    BY <2>1, Queueing
  <2>5. \A k \in DOMAIN outbox'[a] : k \notin DOMAIN outbox[a] =>
           k - n \in DOMAIN ws /\ outbox'[a][k] = ws[k - n]
    BY <2>1, Queueing
  <2> QED
    BY <2>1, <2>2, <2>3, <2>4, <2>5
<1> HIDE DEF n
<1>6. outbox'[a][n + 1] = UpdateTotal(x, v) /\ outbox'[a][n + 2] = UpdateHistory(x, p, v)
  <2>1. n + 1 \in DOMAIN outbox'[a] /\ n + 1 \notin DOMAIN outbox[a] /\ n + 1 - n = 1
    BY <1>5
  <2>2. n + 2 \in DOMAIN outbox'[a] /\ n + 2 \notin DOMAIN outbox[a] /\ n + 2 - n = 2
    BY <1>5
  <2> QED
    BY <1>4, <1>5, <2>1, <2>2
<1>7. \A k \in DOMAIN outbox'[a] : k \in DOMAIN outbox[a] \/ k = n + 1 \/ k = n + 2
  BY <1>5
<1>8. \A b \in Admins : b # a => outbox'[b] = outbox[b]
  BY <1>5 DEF Devices
<1>9. \A o \in OrderIds : outbox'[o] = outbox[o]
  BY <1>5 DEF Devices
<1>10. CustomerInv'
  <2>1. \A o \in OrderIds : took[o] \in Nat
    BY CustomerQueue
  <2> QED
    BY <1>1, <1>9, <2>1, CustomersUntouched
<1>11. PairsStayWhole'
  <2> SUFFICES ASSUME NEW b \in Admins, NEW k \in DOMAIN outbox'[b]
               PROVE  /\ outbox'[b][k].op = "updateTotal" =>
                            /\ k + 1 \in DOMAIN outbox'[b]
                            /\ CopyUpdate(outbox'[b][k + 1], outbox'[b][k].order)
                      /\ outbox'[b][k].op = "updateHistory" /\ k # 1 =>
                            outbox'[b][k - 1]
                              = UpdateTotal(outbox'[b][k].order, outbox'[b][k].total)
    BY DEF PairsStayWhole, CopyUpdate
  <2>1. CASE b # a
    BY <1>8, <2>1 DEF PairsStayWhole
  <2>2. CASE b = a /\ k \in DOMAIN outbox[a]
    <3>1. outbox[a][k].op = "updateTotal" =>
             k + 1 \in DOMAIN outbox[a] /\ CopyUpdate(outbox[a][k + 1], outbox[a][k].order)
      BY <2>2 DEF PairsStayWhole
    <3>2. outbox[a][k].op = "updateHistory" /\ k # 1 =>
             outbox[a][k - 1] = UpdateTotal(outbox[a][k].order, outbox[a][k].total)
      BY <2>2 DEF PairsStayWhole
    <3>3. k # 1 => k - 1 \in DOMAIN outbox[a]
      BY <1>5, <2>2
    <3> QED
      BY <1>5, <2>2, <3>1, <3>2, <3>3
  <2>3. CASE b = a /\ k = n + 1
    <3>1. k + 1 = n + 2 /\ n + 2 \in DOMAIN outbox'[a]
      BY <1>5, <2>3
    <3> QED
      BY <1>6, <2>3, <3>1 DEF UpdateTotal, UpdateHistory, CopyUpdate
  <2>4. CASE b = a /\ k = n + 2
    <3>1. k - 1 = n + 1
      BY <1>5, <2>4
    <3> QED
      BY <1>6, <2>4, <3>1 DEF UpdateTotal, UpdateHistory, CopyUpdate
  <2> QED
    BY <1>7, <2>1, <2>2, <2>3, <2>4
<1>12. PhonesAreKnown'
  <2> SUFFICES ASSUME NEW b \in Admins, NEW o \in DOMAIN orders, ~ Renewed(o)
               PROVE  /\ o \in DOMAIN synced[b] => synced[b][o].phone = orders[o].phone
                      /\ dialog'[b] # NoDialog /\ dialog'[b].order = o
                            => dialog'[b].phone = orders[o].phone
                      /\ \A k \in DOMAIN outbox'[b] :
                            CopyUpdate(outbox'[b][k], o) => outbox'[b][k].phone = orders[o].phone
    BY <1>1 DEF PhonesAreKnown, Renewed
  <2>1. /\ o \in DOMAIN synced[b] => synced[b][o].phone = orders[o].phone
        /\ dialog[b] # NoDialog /\ dialog[b].order = o => dialog[b].phone = orders[o].phone
        /\ \A k \in DOMAIN outbox[b] :
              CopyUpdate(outbox[b][k], o) => outbox[b][k].phone = orders[o].phone
    BY DEF PhonesAreKnown
  <2>2. dialog'[b] \in {dialog[b], NoDialog}
    BY <1>1 DEF LifeInv, Types
  <2>3. ASSUME NEW k \in DOMAIN outbox'[b], CopyUpdate(outbox'[b][k], o)
        PROVE  outbox'[b][k].phone = orders[o].phone
    <3>1. CASE b # a
      BY <1>8, <2>1, <2>3, <3>1
    <3>2. CASE b = a /\ k \in DOMAIN outbox[a]
      BY <1>5, <2>1, <2>3, <3>2
    <3>3. CASE b = a /\ k = n + 1
      BY <1>6, <2>3, <3>3 DEF CopyUpdate, UpdateTotal
    <3>4. CASE b = a /\ k = n + 2
      <4>1. outbox'[b][k].order = x /\ outbox'[b][k].phone = p /\ x = o
        BY <1>6, <2>3, <3>4 DEF CopyUpdate, UpdateHistory
      <4>2. p = orders[o].phone
        BY <1>1, <2>1, <3>4, <4>1 DEF x, p
      <4> QED
        BY <4>1, <4>2
    <3> QED
      BY <1>7, <3>1, <3>2, <3>3, <3>4
  <2> QED
    BY <2>1, <2>2, <2>3
<1>13. QueuedIsSaid'
  <2> SUFFICES ASSUME NEW b \in Admins, NEW o \in OrderIds, Owes(b, o)'
               PROVE  Speaks(b, o)'
    BY DEF QueuedIsSaid
  <2>1. CASE b = a /\ o = x
    <3> DEFINE t == [admin |-> a, order |-> x, total |-> v]
    <3>1. t \in said'
      BY <1>1 DEF Says
    <3>2. t.admin = b /\ t.order = o
      BY <2>1
    <3> QED
      BY <3>1, <3>2 DEF Speaks
  <2>2. CASE ~ (b = a /\ o = x)
    <3>1. PICK k \in DOMAIN outbox'[b] : /\ outbox'[b][k].op \in {"updateTotal", "updateHistory"}
                                         /\ outbox'[b][k].order = o
      BY DEF Owes
    <3>2. k \in DOMAIN outbox[b] /\ outbox'[b][k] = outbox[b][k]
      <4>1. CASE b # a
        BY <1>8, <4>1
      <4>2. CASE b = a
        BY <1>5, <1>6, <1>7, <2>2, <3>1, <4>2 DEF UpdateTotal, UpdateHistory
      <4> QED
        BY <4>1, <4>2
    <3>3. Owes(b, o)
      BY <3>1, <3>2 DEF Owes
    <3>4. PICK t \in said : t.admin = b /\ t.order = o
      BY <3>3 DEF QueuedIsSaid, Speaks
    <3>5. t \in said'
      BY <1>1, <2>2, <3>3, <3>4 DEF Says
    <3> QED
      BY <3>4, <3>5 DEF Speaks
  <2> QED
    BY <2>1, <2>2
<1>14. \A o : o # x => (Contended(o)' <=> Contended(o))
  <2>1. \A t : t.order # x => (t \in said' <=> t \in said)
    BY <1>1 DEF Says
  <2> QED
    BY <2>1 DEF Contended
<1>15. TotalsAgree'
  <2> SUFFICES ASSUME NEW o \in DOMAIN orders \ refused, ~ Rewritten(o),
                      ~ Contended(o)'
               PROVE  /\ Untouched(o)' => Equal(o)' \/ OnItsWay(o)'
                      /\ \A b \in Admins : \A k \in DOMAIN outbox'[b] : LatestUpdate(b, o, k)' =>
                            /\ k <= took'[b] => Equal(o)'
                            /\ k <= took'[b] + 1 => orders'[o].total = outbox'[b][k].total
    BY <1>1 DEF TotalsAgree, Rewritten, Renewed
  <2>0. o \in OrderIds
    BY DocsFacts DEF LifeInv, Types
  <2>1. (Equal(o)' <=> Equal(o)) /\ (OnItsWay(o)' <=> OnItsWay(o))
    BY <1>1, <1>9, <2>0 DEF Equal, OnItsWay, Copy
  <2>4. CASE o # x
    <3>0. ~ Contended(o)
      BY <1>14, <2>4
    <3>1. \A b \in Admins : \A k \in DOMAIN outbox[b] :
             k \in DOMAIN outbox'[b] /\ outbox'[b][k] = outbox[b][k]
      BY <1>5, <1>8
    <3>2. Untouched(o)' => Equal(o) \/ OnItsWay(o)
      BY <3>0, <3>1 DEF Untouched, TotalsAgree
    <3>3. ASSUME NEW b \in Admins, NEW k \in DOMAIN outbox'[b], LatestUpdate(b, o, k)'
          PROVE  k \in DOMAIN outbox[b] /\ outbox'[b][k] = outbox[b][k] /\ LatestUpdate(b, o, k)
      <4>1. k \in DOMAIN outbox[b] /\ outbox'[b][k] = outbox[b][k]
        <5>1. CASE b # a
          BY <1>8, <5>1
        <5>2. CASE b = a
          BY <1>5, <1>6, <1>7, <2>4, <3>3, <5>2
             DEF LatestUpdate, CopyUpdate, UpdateTotal, UpdateHistory
        <5> QED
          BY <5>1, <5>2
      <4> QED
        BY <3>1, <3>3, <4>1 DEF LatestUpdate
    <3> QED
      BY <1>1, <2>1, <3>0, <3>2, <3>3 DEF TotalsAgree
  <2>5. CASE o = x
    <3>1. n + 2 \in DOMAIN outbox'[a] /\ CopyUpdate(outbox'[a][n + 2], o)
      BY <1>5, <1>6, <2>5 DEF CopyUpdate, UpdateHistory
    <3>2. ~ Untouched(o)'
      BY <3>1 DEF Untouched
    <3>3. ASSUME NEW b \in Admins, NEW k \in DOMAIN outbox'[b], LatestUpdate(b, o, k)'
          PROVE  b = a /\ ~ (k <= took'[b]) /\ ~ (k <= took'[b] + 1)
      <4>1. Owes(b, o)'
        BY <3>3 DEF LatestUpdate, CopyUpdate, Owes
      <4>2. Owes(a, o)'
        BY <3>1 DEF CopyUpdate, Owes
      <4>3. b = a
        <5>1. Speaks(a, o)' /\ Speaks(b, o)'
          BY <1>13, <2>0, <4>1, <4>2 DEF QueuedIsSaid
        <5> QED
          BY <5>1 DEF Speaks, Contended
      <4>4. n + 2 <= k /\ k \in 1 .. (n + 2)
        BY <1>5, <3>1, <3>3, <4>3 DEF LatestUpdate
      <4>5. took'[b] = took[a]
        BY <1>1, <4>3
      <4> QED
        BY <1>5, <4>3, <4>4, <4>5
    <3> QED
      BY <3>2, <3>3
  <2> QED
    BY <2>4, <2>5
<1> QED
  BY <1>10, <1>11, <1>12, <1>15, <1>13 DEF CopyInv

\* An administrator reads an answer.  If the write was the last update of a
\* copy, the server had taken it, and the two totals agree without it.
LEMMA AnswerKeepsCopies ==
    ASSUME LifeInv, CustomerInv, PairsStayWhole, PhonesAreKnown,
           QueuedIsSaid, TotalsAgree,
           NEW a \in Admins, Answered(a)
    PROVE  CopyInv'
<1>0. a \in Devices
  BY DEF Devices
<1>1. /\ took[a] \in Nat /\ took[a] > 0 /\ took'[a] = took[a] - 1
      /\ 1 \in DOMAIN outbox[a] /\ 1 <= took[a]
      /\ \A k \in DOMAIN outbox'[a] :
            k \in Nat /\ k + 1 \in DOMAIN outbox[a] /\ outbox'[a][k] = outbox[a][k + 1]
      /\ \A j \in DOMAIN outbox[a] : j # 1 =>
            j \in Nat /\ j - 1 \in DOMAIN outbox'[a] /\ outbox'[a][j - 1] = outbox[a][j]
      /\ \A j \in DOMAIN outbox[a] : j \in Nat /\ j >= 1
      /\ UNCHANGED <<orders, history, refused, met, again, dialog, said>>
  BY <1>0, AnswerRead
<1>2. \A b \in Admins : b # a => outbox'[b] = outbox[b] /\ took'[b] = took[b]
  BY <1>0, AnswerRead DEF Devices
<1>3. \A o \in OrderIds : outbox'[o] = outbox[o]
  BY <1>0, AnswerRead, CustomerQueue
<1>4. CustomerInv'
  BY <1>0, AnswerKeepsCustomers
<1>5. PairsStayWhole'
  <2> SUFFICES ASSUME NEW k \in DOMAIN outbox'[a]
               PROVE  /\ outbox'[a][k].op = "updateTotal" =>
                            /\ k + 1 \in DOMAIN outbox'[a]
                            /\ CopyUpdate(outbox'[a][k + 1], outbox'[a][k].order)
                      /\ outbox'[a][k].op = "updateHistory" /\ k # 1 =>
                            outbox'[a][k - 1]
                              = UpdateTotal(outbox'[a][k].order, outbox'[a][k].total)
    BY <1>2 DEF PairsStayWhole, CopyUpdate
  <2>1. k \in Nat /\ k + 1 \in DOMAIN outbox[a] /\ outbox'[a][k] = outbox[a][k + 1]
    BY <1>1
  <2>2. ASSUME outbox'[a][k].op = "updateTotal"
        PROVE  k + 1 \in DOMAIN outbox'[a] /\ CopyUpdate(outbox'[a][k + 1], outbox'[a][k].order)
    <3> DEFINE j == k + 1 + 1
    <3>1. j \in DOMAIN outbox[a] /\ CopyUpdate(outbox[a][j], outbox[a][k + 1].order)
      BY <2>1, <2>2 DEF PairsStayWhole
    <3>2. j # 1 /\ j - 1 = k + 1
      BY <2>1
    <3> HIDE DEF j
    <3> QED
      BY <1>1, <2>1, <3>1, <3>2
  <2>3. ASSUME outbox'[a][k].op = "updateHistory", k # 1
        PROVE  outbox'[a][k - 1] = UpdateTotal(outbox'[a][k].order, outbox'[a][k].total)
    <3>0. k >= 1
      <4>1. outbox'[a] \in Seq(AdminWrite)
        BY <1>0, AnsweredKeeps DEF LifeInv, Types
      <4> QED
        BY <4>1
    <3>1. k + 1 # 1 /\ k + 1 - 1 = k
      BY <2>1, <3>0
    <3>2. outbox[a][k] = UpdateTotal(outbox[a][k + 1].order, outbox[a][k + 1].total)
      BY <2>1, <2>3, <3>1 DEF PairsStayWhole
    <3>3. k \in DOMAIN outbox[a]
      <4>1. outbox[a] \in Seq(AdminWrite)
        BY DEF LifeInv, Types
      <4> QED
        BY <2>1, <3>0, <4>1
    <3>4. outbox'[a][k - 1] = outbox[a][k]
      BY <1>1, <2>3, <3>3
    <3> QED
      BY <2>1, <3>2, <3>4
  <2> QED
    BY <2>2, <2>3
<1>6. \A b \in Admins : /\ DOMAIN synced'[b] \subseteq DOMAIN synced[b]
                        /\ \A o \in DOMAIN synced'[b] : synced'[b][o].phone = synced[b][o].phone
  <2> DEFINE w == outbox[a][1]
             r == ApplyToOrders(synced[a], w)
  <2>1. synced' \in {synced, [synced EXCEPT ![a] = r]}
    <3>1. outbox[a] \in Seq(AdminWrite) /\ outbox[a] # << >>
      BY <1>1 DEF LifeInv, Types
    <3>2. Head(outbox[a]) = w
      BY <3>1
    <3> QED
      BY <3>2 DEF Answered
  <2>2. w \in AdminWrite /\ synced[a] \in Docs
    BY <1>1, MentionedIsKnown DEF LifeInv, Types
  <2> HIDE DEF w
  <2>3. DOMAIN r \subseteq DOMAIN synced[a] /\ \A o \in DOMAIN r : r[o].phone = synced[a][o].phone
    BY <2>2, AdminKeepsPhones
  <2> HIDE DEF r
  <2> QED
    BY <2>1, <2>3 DEF LifeInv, Types
<1>7. \A b \in Admins : \A k \in DOMAIN outbox'[b] :
         \E j \in DOMAIN outbox[b] : outbox'[b][k] = outbox[b][j]
  BY <1>1, <1>2
<1>8. PhonesAreKnown'
  BY <1>1, <1>6, <1>7 DEF PhonesAreKnown, Renewed
<1>9. TotalsAgree'
  <2> SUFFICES ASSUME NEW o \in DOMAIN orders \ refused, ~ Rewritten(o),
                      ~ Contended(o)
               PROVE  /\ Untouched(o)' => Equal(o)' \/ OnItsWay(o)'
                      /\ \A b \in Admins : \A k \in DOMAIN outbox'[b] : LatestUpdate(b, o, k)' =>
                            /\ k <= took'[b] => Equal(o)'
                            /\ k <= took'[b] + 1 => orders'[o].total = outbox'[b][k].total
    BY <1>1 DEF TotalsAgree, Rewritten, Renewed, Contended
  <2>0. o \in OrderIds
    BY DocsFacts DEF LifeInv, Types
  <2>1. (Equal(o)' <=> Equal(o)) /\ (OnItsWay(o)' <=> OnItsWay(o))
    BY <1>1, <1>3, <2>0 DEF Equal, OnItsWay, Copy
  <2>2. ASSUME Untouched(o)' PROVE Equal(o) \/ OnItsWay(o)
    <3>1. CASE Untouched(o)
      BY <3>1 DEF TotalsAgree
    <3>2. CASE ~ Untouched(o)
      <4>1. PICK b \in Admins : \E k \in DOMAIN outbox[b] : CopyUpdate(outbox[b][k], o)
        BY <3>2 DEF Untouched
      <4>0. PICK k \in DOMAIN outbox[b] : CopyUpdate(outbox[b][k], o)
        BY <4>1
      <4>2. b = a /\ k = 1
        BY <1>1, <1>2, <2>2, <4>0 DEF Untouched
      <4>3. \A j \in DOMAIN outbox[a] : CopyUpdate(outbox[a][j], o) => j = 1
        BY <1>1, <2>2 DEF Untouched
      <4>4. LatestUpdate(a, o, 1)
        BY <4>0, <4>2, <4>3 DEF LatestUpdate
      <4> QED
        BY <1>1, <4>4 DEF TotalsAgree
    <3> QED
      BY <3>1, <3>2
  <2>3. ASSUME NEW b \in Admins, NEW k \in DOMAIN outbox'[b], LatestUpdate(b, o, k)'
        PROVE  /\ k <= took'[b] => Equal(o)
               /\ k <= took'[b] + 1 => orders[o].total = outbox'[b][k].total
    <3>1. CASE b # a
      BY <1>2, <2>3, <3>1 DEF TotalsAgree, LatestUpdate
    <3>2. CASE b = a
      <4>1. k \in Nat /\ k + 1 \in DOMAIN outbox[a] /\ outbox'[a][k] = outbox[a][k + 1]
        BY <1>1, <3>2
      <4>2. \A j \in DOMAIN outbox[a] : CopyUpdate(outbox[a][j], o) => j <= k + 1
        <5> SUFFICES ASSUME NEW j \in DOMAIN outbox[a], CopyUpdate(outbox[a][j], o)
                     PROVE  j <= k + 1
          OBVIOUS
        <5>1. CASE j = 1
          BY <4>1, <5>1
        <5>2. CASE j # 1
          <6>1. j \in Nat /\ j - 1 \in DOMAIN outbox'[a] /\ outbox'[a][j - 1] = outbox[a][j]
            BY <1>1, <5>2
          <6>2. j - 1 <= k
            BY <2>3, <3>2, <6>1 DEF LatestUpdate
          <6> QED
            BY <4>1, <6>1, <6>2
        <5> QED
          BY <5>1, <5>2
      <4>3. LatestUpdate(a, o, k + 1)
        BY <2>3, <3>2, <4>1, <4>2 DEF LatestUpdate
      <4>4. /\ k + 1 <= took[a] => Equal(o)
            /\ k + 1 <= took[a] + 1 => orders[o].total = outbox[a][k + 1].total
        BY <4>1, <4>3 DEF TotalsAgree
      <4>5. /\ k <= took'[a] => k + 1 <= took[a]
            /\ k <= took'[a] + 1 => k + 1 <= took[a] + 1
        BY <1>1, <4>1
      <4> QED
        BY <3>2, <4>1, <4>4, <4>5
    <3> QED
      BY <3>1, <3>2
  <2> QED
    BY <1>1, <2>1, <2>2, <2>3
<1>10. QueuedIsSaid'
  BY <1>1, <1>7, SaidKept
<1> QED
  BY <1>4, <1>5, <1>8, <1>9, <1>10 DEF CopyInv

\* The server takes a customer's write.  An order that it meets for the first
\* time no administrator has touched, and its copy is still on its way with the
\* same total; whatever comes again no longer counts.
LEMMA CustomerDeliveryKeepsCopies ==
    ASSUME LifeInv, CustomerInv, PairsStayWhole, PhonesAreKnown,
           QueuedIsSaid, TotalsAgree,
           NEW d \in OrderIds, Deliver(d)
    PROVE  CopyInv'
<1> DEFINE w == NextWrite(d)
<1>1. /\ d \in Devices /\ d \notin Admins
      /\ took[d] + 1 \in DOMAIN outbox[d] /\ w = outbox[d][took[d] + 1]
      /\ w \in CustomerWrite /\ w.order = d /\ w.phone \in Phones
      /\ w.op \in {"setOrder", "setHistory"}
      /\ met' = met \cup {<<w.op, d>>}
      /\ again' = IF <<w.op, d>> \in met THEN again \cup {<<w.op, d>>} ELSE again
      /\ history' = ApplyToHistory(history, w)
      /\ orders' = ApplyToOrders(orders, w)
      /\ UNCHANGED <<outbox, synced, dialog, said>>
  BY CustomersNextWrite
<1>2. refused \subseteq refused' /\ \A a \in Admins : took'[a] = took[a]
  BY <1>1, DeliverToCopies DEF Devices
<1>3. orders \in Docs /\ DOMAIN orders \subseteq OrderIds /\ orders \in [DOMAIN orders -> Doc]
  BY DocsFacts DEF LifeInv, Types
<1> HIDE DEF w
<1>4. /\ w.op = "setOrder" =>
            /\ DOMAIN orders' = DOMAIN orders \cup {d}
            /\ orders'[d].phone = w.phone /\ orders'[d].total = w.total
            /\ history' = history
      /\ w.op = "setHistory" =>
            /\ orders' = orders
            /\ DOMAIN history' = DOMAIN history \cup {<<w.phone, d>>}
            /\ history'[<<w.phone, d>>] = w.total
      /\ \A x \in DOMAIN orders : x # d => x \in DOMAIN orders' /\ orders'[x] = orders[x]
      /\ \A k \in DOMAIN history : k # <<w.phone, d>> => history'[k] = history[k]
  <2>1. CASE w.op = "setOrder"
    <3> DEFINE new == [phone |-> w.phone, total |-> w.total, status |-> "new"]
    <3>1. orders' = SetDoc(orders, d, new)
      BY <1>1, <2>1 DEF ApplyToOrders
    <3>2. /\ DOMAIN orders' = DOMAIN orders \cup {d} /\ orders'[d] = new
          /\ \A x \in DOMAIN orders : x # d => x \in DOMAIN orders' /\ orders'[x] = orders[x]
      BY <3>1 DEF SetDoc
    <3>3. history' = history
      <4>1. history' = ApplyToHistory(history, w)
        BY <1>1
      <4> QED
        BY <2>1, <4>1, CopiesKept
    <3> QED
      BY <2>1, <3>2, <3>3
  <2>2. CASE w.op = "setHistory"
    <3>1. orders' = orders
      BY <1>1, <1>3, <2>2, SetHistoryApplied
    <3>2. /\ DOMAIN history' = DOMAIN history \cup {<<w.phone, d>>}
          /\ history'[<<w.phone, d>>] = w.total
          /\ \A k \in DOMAIN history : k # <<w.phone, d>> => history'[k] = history[k]
      <4> DEFINE key == <<w.phone, d>>
      <4>1. history' = SetDoc(history, key, w.total)
        BY <1>1, <2>2 DEF ApplyToHistory
      <4> HIDE DEF key
      <4>2. /\ DOMAIN history' = DOMAIN history \cup {key} /\ history'[key] = w.total
            /\ \A k \in DOMAIN history : k # key => history'[k] = history[k]
        BY <4>1 DEF SetDoc
      <4> QED
        BY <4>2 DEF key
    <3> QED
      BY <2>2, <3>1, <3>2
  <2> QED
    BY <1>1, <2>1, <2>2
<1>5. /\ \A x : x # d => (Renewed(x)' <=> Renewed(x)) /\ (Rewritten(x)' <=> Rewritten(x))
      /\ again \subseteq again'
  BY <1>1 DEF Renewed, Rewritten
<1>6. w.op = "setOrder" /\ ~ Renewed(d)' => NotYet(d) /\ Unknown(d)
  BY <1>1 DEF Renewed, NotYet, LifeInv, NothingTooEarly
<1>7. CustomerInv'
  BY DeliverKeepsCustomers
<1>8. PairsStayWhole'
  BY <1>1 DEF PairsStayWhole
<1>9. PhonesAreKnown'
  <2> SUFFICES ASSUME NEW a \in Admins, NEW o \in DOMAIN orders', ~ Renewed(o)'
               PROVE  /\ o \in DOMAIN synced[a] => synced[a][o].phone = orders'[o].phone
                      /\ dialog[a] # NoDialog /\ dialog[a].order = o
                            => dialog[a].phone = orders'[o].phone
                      /\ \A k \in DOMAIN outbox[a] :
                            CopyUpdate(outbox[a][k], o) => outbox[a][k].phone = orders'[o].phone
    BY <1>1 DEF PhonesAreKnown
  <2>1. CASE w.op = "setOrder" /\ o = d
    BY <1>6, <2>1 DEF Unknown, CopyUpdate
  <2>2. CASE ~ (w.op = "setOrder" /\ o = d)
    <3>1. o \in DOMAIN orders /\ orders'[o] = orders[o]
      BY <1>1, <1>4, <2>2
    <3>2. ~ Renewed(o)
      BY <1>5 DEF Renewed
    <3> QED
      BY <3>1, <3>2 DEF PhonesAreKnown
  <2> QED
    BY <2>1, <2>2
<1>10. TotalsAgree'
  <2> SUFFICES ASSUME NEW o \in DOMAIN orders' \ refused', ~ Rewritten(o)',
                      ~ Contended(o)'
               PROVE  /\ Untouched(o)' => Equal(o)' \/ OnItsWay(o)'
                      /\ \A a \in Admins : \A k \in DOMAIN outbox[a] : LatestUpdate(a, o, k) =>
                            /\ k <= took[a] => Equal(o)'
                            /\ k <= took[a] + 1 => orders'[o].total = outbox[a][k].total
    BY <1>1, <1>2 DEF TotalsAgree, LatestUpdate
  <2>0. ~ Rewritten(o) /\ ~ Renewed(o)' /\ ~ Contended(o)
    BY <1>1, <1>5 DEF Rewritten, Renewed, Contended
  <2>1. CASE o # d
    <3>1. o \in DOMAIN orders \ refused /\ orders'[o] = orders[o]
      <4>1. o \in DOMAIN orders
        BY <1>1, <1>4, <2>1
      <4> QED
        BY <1>2, <1>4, <2>1, <4>1
    <3>2. \A p : <<p, o>> # <<w.phone, d>>
      BY <2>1
    <3>3. \A p : /\ <<p, o>> \in DOMAIN history' <=> <<p, o>> \in DOMAIN history
                 /\ <<p, o>> \in DOMAIN history => history'[<<p, o>>] = history[<<p, o>>]
      BY <1>1, <1>4, <3>2
    <3>4. Equal(o)' <=> Equal(o)
      BY <3>1, <3>3 DEF Equal, Copy
    <3>5. OnItsWay(o)' <=> OnItsWay(o)
      BY <1>1, <3>1, <3>3 DEF OnItsWay, Copy
    <3>6. Untouched(o)' <=> Untouched(o)
      BY <1>1 DEF Untouched
    <3> QED
      BY <2>0, <3>1, <3>4, <3>5, <3>6 DEF TotalsAgree
  <2>2. CASE o = d /\ w.op = "setOrder"
    <3>1. NotYet(d) /\ Unknown(d)
      BY <1>6, <2>0, <2>2
    <3>2. \A a \in Admins : \A k \in DOMAIN outbox[a] : ~ LatestUpdate(a, o, k)
      BY <2>2, <3>1 DEF LatestUpdate, CopyUpdate, Unknown
    <3>3. \A p \in Phones : <<p, d>> \notin DOMAIN history
      BY <3>1 DEF CustomerInv, CopiesAreMet
    <3>4. OnItsWay(o)'
      <4>1. <<orders'[d].phone, d>> \notin DOMAIN history'
        BY <1>1, <1>4, <2>2, <3>3
      <4>2. \A k \in DOMAIN outbox[d] : outbox[d][k].total = w.total
        BY <1>1 DEF CustomerInv, OneTotal
      <4> QED
        BY <1>1, <1>4, <2>2, <4>1, <4>2 DEF OnItsWay, Copy
    <3> QED
      BY <3>2, <3>4
  <2>3. CASE o = d /\ w.op = "setHistory"
    <3>1. <<"setHistory", d>> \notin met
      BY <1>1, <2>3 DEF Rewritten
    <3>2. \A p \in Phones : <<p, d>> \notin DOMAIN history
      BY <3>1 DEF CustomerInv, CopiesAreMet
    <3>3. /\ orders' = orders /\ o \in DOMAIN orders \ refused
          /\ orders[o].phone \in Phones
      BY <1>2, <1>3, <1>4, <2>3 DEF Doc
    <3>4. ~ Equal(o)
      BY <2>3, <3>2, <3>3 DEF Equal, Copy
    <3>5. OnItsWay(o) => Equal(o)' \/ OnItsWay(o)'
      <4> SUFFICES ASSUME OnItsWay(o) PROVE Equal(o)' \/ OnItsWay(o)'
        OBVIOUS
      <4>1. CASE w.phone = orders[o].phone
        <5>1. w.total = orders[o].total
          BY <1>1, <2>3, <4>1 DEF OnItsWay
        <5> QED
          BY <1>4, <2>3, <3>3, <4>1, <5>1 DEF Equal, Copy
      <4>2. CASE w.phone # orders[o].phone
        <5>1. <<orders[o].phone, o>> \notin DOMAIN history'
          BY <1>4, <2>3, <3>2, <3>3, <4>2
        <5> QED
          BY <1>1, <3>3, <5>1 DEF OnItsWay, Copy
      <4> QED
        BY <4>1, <4>2
    <3>6. Untouched(o)' <=> Untouched(o)
      BY <1>1 DEF Untouched
    <3> QED
      BY <2>0, <3>3, <3>4, <3>5, <3>6 DEF TotalsAgree
  <2> QED
    BY <1>1, <2>1, <2>2, <2>3
<1>11. QueuedIsSaid'
  BY <1>1 DEF QueuedIsSaid, Owes, Speaks
<1> QED
  BY <1>7, <1>8, <1>9, <1>10, <1>11 DEF CopyInv

\* The server takes an administrator's write.  The update of a total is behind
\* every earlier pair and in front of its own update of the copy; that one finds
\* the copy under the phone of the order, or is refused.
LEMMA AdminDeliveryKeepsCopies ==
    ASSUME LifeInv, CustomerInv, PairsStayWhole, PhonesAreKnown,
           QueuedIsSaid, TotalsAgree,
           NEW a \in Admins, Deliver(a)
    PROVE  CopyInv'
<1> DEFINE w == NextWrite(a)
           n == took[a] + 1
<1>0. a \in Devices /\ a \notin OrderIds
  BY DevicesAssumption DEF Devices
<1>1. /\ n \in DOMAIN outbox[a] /\ w = outbox[a][n]
      /\ orders' = ApplyToOrders(orders, w)
      /\ history' = ApplyToHistory(history, w)
      /\ UNCHANGED <<met, again, outbox, synced, dialog, said>>
  BY <1>0, DeliverFacts DEF NextWrite
<1>2. /\ took[a] \in Nat /\ took'[a] = n /\ n = took[a] + 1
      /\ \A o \in OrderIds : took'[o] = took[o]
      /\ \A b \in Admins : b # a => took'[b] = took[b]
      /\ refused \subseteq refused'
      /\ w.op = "updateHistory" /\ <<w.phone, w.order>> \notin DOMAIN history
            => w.order \in refused'
  BY <1>0, DeliverToCopies DEF Devices
<1>3. /\ w \in AdminWrite /\ w.order \in OrderIds
      /\ w.op \notin {"setOrder", "setHistory"}
      /\ orders \in Docs
      /\ \A k \in DOMAIN outbox[a] : k \in Nat
  <2>1. w \in AdminWrite /\ w.order \in OrderIds
    BY <1>1, MentionedIsKnown
  <2>2. outbox[a] \in Seq(AdminWrite) /\ orders \in Docs
    BY DEF LifeInv, Types
  <2>3. \A k \in DOMAIN outbox[a] : k \in Nat
    BY <2>2
  <2>4. \A u \in AdminWrite : u.op \notin {"setOrder", "setHistory"}
    BY DEF AdminWrite
  <2> QED
    BY <2>1, <2>2, <2>3, <2>4
<1> HIDE DEF w, n
<1>4. /\ DOMAIN orders' \subseteq DOMAIN orders
      /\ \A o \in DOMAIN orders' :
            /\ orders'[o].phone = orders[o].phone
            /\ ~ (w.op = "updateTotal" /\ o = w.order) => orders'[o].total = orders[o].total
            /\ w.op = "updateTotal" /\ o = w.order => orders'[o].total = w.total
  BY <1>1, <1>3, AdminKeepsPhones
<1>5. /\ DOMAIN history' = DOMAIN history
      /\ \A k \in DOMAIN history : ~ (w.op = "updateHistory" /\ k = <<w.phone, w.order>>)
            => history'[k] = history[k]
      /\ w.op = "updateHistory" /\ <<w.phone, w.order>> \in DOMAIN history
            => history'[<<w.phone, w.order>>] = w.total
  <2>1. history' = ApplyToHistory(history, w) /\ w.op # "setHistory"
    BY <1>1, <1>3
  <2>2. CASE w.op = "updateHistory" /\ <<w.phone, w.order>> \in DOMAIN history
    BY <2>1, <2>2, CopyChanged
  <2>3. CASE ~ (w.op = "updateHistory" /\ <<w.phone, w.order>> \in DOMAIN history)
    <3>1. history' = history
      BY <2>1, <2>3, CopiesKept
    <3> QED
      BY <2>3, <3>1
  <2> QED
    BY <2>2, <2>3
<1>6. CustomerInv'
  <2>1. \A o \in OrderIds : took[o] \in Nat
    BY CustomerQueue
  <2> QED
    BY <1>1, <1>2, <1>5, <2>1, CustomersUntouched
<1>7. PairsStayWhole'
  BY <1>1 DEF PairsStayWhole
<1>8. PhonesAreKnown'
  BY <1>1, <1>4 DEF PhonesAreKnown, Renewed
<1>9. TotalsAgree'
  <2> SUFFICES ASSUME NEW o \in DOMAIN orders' \ refused', ~ Rewritten(o),
                      ~ Contended(o)
               PROVE  /\ Untouched(o)' => Equal(o)' \/ OnItsWay(o)'
                      /\ \A b \in Admins : \A k \in DOMAIN outbox[b] : LatestUpdate(b, o, k) =>
                            /\ k <= took'[b] => Equal(o)'
                            /\ k <= took'[b] + 1 => orders'[o].total = outbox[b][k].total
    BY <1>1 DEF TotalsAgree, Rewritten, Renewed, LatestUpdate, Contended
  <2>1. o \in DOMAIN orders \ refused /\ orders'[o].phone = orders[o].phone /\ ~ Renewed(o)
    BY <1>2, <1>4 DEF Rewritten
  <2>2. Untouched(o)' <=> Untouched(o)
    BY <1>1 DEF Untouched
  <2>3. /\ Untouched(o) => Equal(o) \/ OnItsWay(o)
        /\ \A k \in DOMAIN outbox[a] : LatestUpdate(a, o, k) =>
              /\ k <= took[a] => Equal(o)
              /\ k <= took[a] + 1 => orders[o].total = outbox[a][k].total
    BY <2>1 DEF TotalsAgree
  <2>4. ASSUME NEW k \in DOMAIN outbox[a], LatestUpdate(a, o, k), k = n + 1
        PROVE  w = UpdateTotal(o, outbox[a][k].total)
    <3>1. k # 1 /\ k - 1 = n
      BY <1>2, <2>4
    <3>2. outbox[a][k].op = "updateHistory" /\ outbox[a][k].order = o
      BY <2>4 DEF LatestUpdate, CopyUpdate
    <3> QED
      BY <1>1, <3>1, <3>2 DEF PairsStayWhole
  \* Nobody else has an update of an order that this write is about.
  <2>8. ASSUME w.op \in {"updateTotal", "updateHistory"}, o = w.order,
               NEW b \in Admins, b # a
        PROVE  \A k \in DOMAIN outbox[b] : ~ LatestUpdate(b, o, k)
    <3>1. Owes(a, o)
      BY <1>1, <2>8 DEF Owes
    <3>2. ~ Owes(b, o)
      BY <1>3, <2>8, <3>1, TwoSpeakers DEF QueuedIsSaid
    <3> QED
      BY <3>2 DEF Owes, LatestUpdate, CopyUpdate
  <2>9. \A b \in Admins : \A k \in DOMAIN outbox[b] : LatestUpdate(b, o, k) =>
           /\ k <= took[b] => Equal(o)
           /\ k <= took[b] + 1 => orders[o].total = outbox[b][k].total
    BY <2>1 DEF TotalsAgree
  <2>5. CASE ~ (w.op \in {"updateTotal", "updateHistory"} /\ o = w.order)
    <3>1. orders'[o].total = orders[o].total
      BY <1>4, <2>5
    <3>2. Copy(o) \in DOMAIN history => history'[Copy(o)] = history[Copy(o)]
      <4>1. ~ (w.op = "updateHistory" /\ Copy(o) = <<w.phone, w.order>>)
        BY <2>5 DEF Copy
      <4> QED
        BY <1>5, <4>1
    <3>3. (Equal(o) => Equal(o)') /\ (OnItsWay(o) => OnItsWay(o)')
      BY <1>1, <1>5, <2>1, <3>1, <3>2 DEF Equal, OnItsWay, Copy
    <3>4. ASSUME NEW k \in DOMAIN outbox[a], LatestUpdate(a, o, k)
          PROVE  /\ k <= took'[a] => Equal(o)'
                 /\ k <= took'[a] + 1 => orders'[o].total = outbox[a][k].total
      <4>1. k # n
        BY <1>1, <2>5, <3>4 DEF LatestUpdate, CopyUpdate
      <4>2. k # n + 1
        BY <2>4, <2>5, <3>4 DEF UpdateTotal
      <4>3. /\ k <= took'[a] => k <= took[a]
            /\ k <= took'[a] + 1 => k <= took[a] + 1
        BY <1>2, <1>3, <4>1, <4>2
      <4> QED
        BY <2>3, <3>1, <3>3, <3>4, <4>3
    <3>5. ASSUME NEW b \in Admins, b # a, NEW k \in DOMAIN outbox[b], LatestUpdate(b, o, k)
          PROVE  /\ k <= took'[b] => Equal(o)'
                 /\ k <= took'[b] + 1 => orders'[o].total = outbox[b][k].total
      BY <1>2, <2>9, <3>1, <3>3, <3>5
    <3> QED
      BY <2>2, <2>3, <3>3, <3>4, <3>5
  <2>6. CASE w.op = "updateTotal" /\ o = w.order
    <3>1. n + 1 \in DOMAIN outbox[a] /\ CopyUpdate(outbox[a][n + 1], o)
      BY <1>1, <2>6 DEF PairsStayWhole
    <3>2. ~ Untouched(o)
      BY <3>1 DEF Untouched
    <3>3. ASSUME NEW k \in DOMAIN outbox[a], LatestUpdate(a, o, k)
          PROVE  /\ ~ (k <= took'[a])
                 /\ k <= took'[a] + 1 => orders'[o].total = outbox[a][k].total
      <4>1. n + 1 <= k
        BY <3>1, <3>3 DEF LatestUpdate
      <4>2. ~ (k <= took'[a]) /\ (k <= took'[a] + 1 => k = n + 1)
        BY <1>2, <1>3, <4>1
      <4>3. k = n + 1 => w.total = outbox[a][k].total
        BY <2>4, <3>3 DEF UpdateTotal
      <4> QED
        BY <1>4, <2>6, <4>2, <4>3
    <3> QED
      BY <2>2, <2>6, <2>8, <3>2, <3>3
  <2>7. CASE w.op = "updateHistory" /\ o = w.order
    <3>1. CopyUpdate(outbox[a][n], o)
      BY <1>1, <2>7 DEF CopyUpdate
    <3>2. ~ Untouched(o)
      BY <1>1, <3>1 DEF Untouched
    <3>3. w.phone = orders[o].phone
      BY <1>1, <2>1, <3>1 DEF PhonesAreKnown
    <3>4. Copy(o) \in DOMAIN history /\ Copy(o)' = Copy(o) /\ history'[Copy(o)] = w.total
      BY <1>2, <1>5, <2>1, <2>7, <3>3 DEF Copy
    <3>5. orders'[o].total = orders[o].total
      BY <1>4, <2>7
    <3>6. ASSUME NEW k \in DOMAIN outbox[a], LatestUpdate(a, o, k)
          PROVE  /\ k <= took'[a] => Equal(o)'
                 /\ k <= took'[a] + 1 => orders'[o].total = outbox[a][k].total
      <4>1. n <= k
        BY <1>1, <3>1, <3>6 DEF LatestUpdate
      <4>2. k # n + 1
        BY <2>4, <2>7, <3>6 DEF UpdateTotal
      <4>3. k <= took'[a] + 1 => k = n /\ k <= took[a] + 1
        BY <1>2, <1>3, <4>1, <4>2
      <4>4. k <= took'[a] + 1 => orders[o].total = w.total /\ outbox[a][k] = w
        BY <1>1, <2>3, <3>6, <4>3
      <4>5. k <= took'[a] => k <= took'[a] + 1
        BY <1>2, <1>3
      <4>6. orders[o].total = w.total => Equal(o)'
        BY <1>5, <3>4, <3>5 DEF Equal
      <4> QED
        BY <3>5, <4>4, <4>5, <4>6
    <3> QED
      BY <2>2, <2>7, <2>8, <3>2, <3>6
  <2> QED
    BY <2>5, <2>6, <2>7
<1>10. QueuedIsSaid'
  BY <1>1 DEF QueuedIsSaid, Owes, Speaks
<1> QED
  BY <1>6, <1>7, <1>8, <1>9, <1>10 DEF CopyInv

\* Nothing is on the server and nothing is queued.
LEMMA InitCopies == Init => CopyInv
<1> SUFFICES ASSUME Init PROVE CopyInv
  OBVIOUS
<1>1. \A d \in Devices : outbox[d] = << >>
  BY DEF Init
<1>2. \A d \in OrderIds \cup Admins : DOMAIN outbox[d] = {}
  BY <1>1 DEF Devices
<1>3. CustomerInv
  <2>1. OneTotal /\ OrderBeforeCopy /\ TakenIsMet
    BY <1>2 DEF OneTotal, OrderBeforeCopy, TakenIsMet
  <2>2. CopiesAreMet
    BY DEF Init, CopiesAreMet
  <2> QED
    BY <2>1, <2>2 DEF CustomerInv
<1>4. PairsStayWhole
  BY <1>2 DEF PairsStayWhole
<1>5. DOMAIN orders = {}
  BY DEF Init
<1>6. PhonesAreKnown /\ TotalsAgree
  BY <1>5 DEF PhonesAreKnown, TotalsAgree
<1>7. QueuedIsSaid
  BY <1>2 DEF QueuedIsSaid, Owes
<1> QED
  BY <1>3, <1>4, <1>6, <1>7 DEF CopyInv

\* A page is submitted: nobody has its order yet.
LEMMA SubmitKeepsCopies ==
    ASSUME LifeInv, CustomerInv, PairsStayWhole, PhonesAreKnown,
           QueuedIsSaid, TotalsAgree,
           NEW o \in OrderIds, NEW phone \in Phones,
           NEW account \in Phones \cup {Guest}, NEW v \in Totals,
           NEW twice \in BOOLEAN, Submit(o, phone, account, v, twice)
    PROVE  CopyInv'
<1>1. /\ o \notin placed
      /\ UNCHANGED <<orders, history, refused, met, again, took, synced, dialog, said>>
      /\ \E ws : outbox' = [outbox EXCEPT ![o] = outbox[o] \o ws]
  BY DEF Submit, Enqueue, server
<1>2. \A d \in Devices : d # o => outbox'[d] = outbox[d]
  BY <1>1 DEF LifeInv, Types
<1>3. o \notin Admins
  BY CustomerQueue
<1>4. \A a \in Admins : outbox'[a] = outbox[a] /\ took[a] \in Nat
  BY <1>2, <1>3 DEF Devices, LifeInv, Types
<1>5. CustomerInv'
  BY SubmitKeepsCustomers
<1>6. PairsStayWhole'
  BY <1>4 DEF PairsStayWhole
<1>7. PhonesAreKnown'
  <2>1. UNCHANGED <<orders, again, synced, dialog>>
    BY <1>1
  <2>2. \A a \in Admins : outbox'[a] = outbox[a]
    BY <1>4
  <2> QED
    BY <2>1, <2>2 DEF PhonesAreKnown, Renewed
<1>8. TotalsAgree'
  <2>1. \A x \in DOMAIN orders : x \in OrderIds /\ x # o
    BY <1>1, DocsFacts, KnownIsPlaced DEF LifeInv, Types, NothingTooEarly, Unknown
  <2>2. \A x \in DOMAIN orders : outbox'[x] = outbox[x]
    BY <1>2, <2>1 DEF Devices
  <2>3. \A a \in Admins : took'[a] \in Nat /\ took'[a] <= took[a]
    BY <1>1, <1>4
  <2> QED
    BY <1>1, <1>4, <2>2, <2>3, OthersKeepTotals
<1>9. QueuedIsSaid'
  BY <1>1, <1>4, SaidKept
<1> QED
  BY <1>5, <1>6, <1>7, <1>8, <1>9 DEF CopyInv

\* A customer's device reads an answer.
LEMMA CustomerAnswerKeepsCopies ==
    ASSUME LifeInv, CustomerInv, PairsStayWhole, PhonesAreKnown,
           QueuedIsSaid, TotalsAgree,
           NEW d \in OrderIds, Answered(d)
    PROVE  CopyInv'
<1>1. d \in Devices /\ d \notin Admins
  BY CustomerQueue
<1>2. /\ \A c \in Devices : c # d => outbox'[c] = outbox[c] /\ took'[c] = took[c]
      /\ \A k \in DOMAIN outbox'[d] :
            k \in Nat /\ k + 1 \in DOMAIN outbox[d] /\ outbox'[d][k] = outbox[d][k + 1]
      /\ UNCHANGED <<orders, history, refused, met, again, dialog, said>>
  BY <1>1, AnswerRead
<1>3. synced' = synced
  BY <1>1 DEF Answered
<1>4. \A a \in Admins : outbox'[a] = outbox[a] /\ took'[a] = took[a] /\ took[a] \in Nat
  BY <1>1, <1>2 DEF Devices, LifeInv, Types
<1>5. CustomerInv'
  BY <1>1, AnswerKeepsCustomers
<1>6. PairsStayWhole'
  BY <1>4 DEF PairsStayWhole
<1>7. PhonesAreKnown'
  BY <1>2, <1>3, <1>4 DEF PhonesAreKnown, Renewed
<1>8. TotalsAgree'
  <2>1. DOMAIN orders \subseteq OrderIds
    BY DocsFacts DEF LifeInv, Types
  <2>2. \A x \in DOMAIN orders : \A k \in DOMAIN outbox'[x] :
           \E j \in DOMAIN outbox[x] : outbox'[x][k] = outbox[x][j]
    BY <1>2, <2>1 DEF Devices
  <2>3. \A a \in Admins : took'[a] \in Nat /\ took'[a] <= took[a]
    BY <1>4
  <2> QED
    BY <1>2, <1>4, <2>2, <2>3, OthersKeepTotals
<1>9. QueuedIsSaid'
  BY <1>2, <1>4, SaidKept
<1> QED
  BY <1>5, <1>6, <1>7, <1>8, <1>9 DEF CopyInv

\* A connection breaks, a snapshot comes, or a dialog opens or closes: the
\* server and the queues keep what they have, and phones come from the orders.
LEMMA SurroundingsKeepCopies ==
    ASSUME LifeInv, CustomerInv, PairsStayWhole, PhonesAreKnown,
           QueuedIsSaid, TotalsAgree,
           UNCHANGED <<orders, history, refused, met, again, outbox, said>>,
           \A d \in Devices : took'[d] \in {took[d], 0},
           \A a \in Admins : synced'[a] \in {synced[a], orders},
           \A a \in Admins :
               \/ dialog'[a] \in {dialog[a], NoDialog}
               \/ /\ dialog'[a].order \in DOMAIN synced[a]
                  /\ dialog'[a].phone = synced[a][dialog'[a].order].phone
    PROVE  CopyInv'
<1>1. \A d \in Devices : took'[d] \in Nat /\ took'[d] <= took[d] /\ took[d] \in Nat
  BY DEF LifeInv, Types
<1>2. CustomerInv'
  <2>1. \A o \in OrderIds : took'[o] \in Nat /\ took'[o] <= took[o]
    BY <1>1 DEF Devices
  <2> QED
    BY <2>1, CustomersUntouched
<1>3. PairsStayWhole'
  BY DEF PairsStayWhole
<1>4. PhonesAreKnown'
  <2> SUFFICES ASSUME NEW a \in Admins, NEW o \in DOMAIN orders, ~ Renewed(o)
               PROVE  /\ o \in DOMAIN synced'[a] => synced'[a][o].phone = orders[o].phone
                      /\ dialog'[a] # NoDialog /\ dialog'[a].order = o
                            => dialog'[a].phone = orders[o].phone
                      /\ \A k \in DOMAIN outbox[a] :
                            CopyUpdate(outbox[a][k], o) => outbox[a][k].phone = orders[o].phone
    BY DEF PhonesAreKnown, Renewed
  <2>1. /\ o \in DOMAIN synced[a] => synced[a][o].phone = orders[o].phone
        /\ dialog[a] # NoDialog /\ dialog[a].order = o => dialog[a].phone = orders[o].phone
        /\ \A k \in DOMAIN outbox[a] :
              CopyUpdate(outbox[a][k], o) => outbox[a][k].phone = orders[o].phone
    BY DEF PhonesAreKnown
  <2> QED
    BY <2>1
<1>5. TotalsAgree'
  <2>1. \A a \in Admins : took'[a] \in Nat /\ took'[a] <= took[a]
    BY <1>1 DEF Devices
  <2> QED
    BY <2>1, OthersKeepTotals
<1>6. QueuedIsSaid'
  BY DEF QueuedIsSaid, Owes, Speaks
<1> QED
  BY <1>2, <1>3, <1>4, <1>5, <1>6 DEF CopyInv

\* Every step keeps the two totals of an order together.
LEMMA NextCopies ==
    ASSUME LifeInv, CopyInv, [Next]_vars
    PROVE  CopyInv'
<1> USE DEF CopyInv
<1>1. ASSUME NEW o \in OrderIds, NEW phone \in Phones, NEW account \in Phones \cup {Guest},
             NEW v \in Totals, NEW twice \in {FALSE, DoubleTap},
             Submit(o, phone, account, v, twice)
      PROVE  CopyInv'
  <2>1. twice \in BOOLEAN
    BY DoubleTapAssumption
  <2> QED
    BY <1>1, <2>1, SubmitKeepsCopies
<1>2. ASSUME NEW d \in Devices, Deliver(d) \/ Answered(d) PROVE CopyInv'
  BY <1>2, CustomerDeliveryKeepsCopies, AdminDeliveryKeepsCopies,
     CustomerAnswerKeepsCopies, AnswerKeepsCopies DEF Devices
<1>3. ASSUME NEW d \in Devices, SendAgain(d) PROVE CopyInv'
  <2>1. /\ UNCHANGED <<orders, history, refused, met, again, outbox, synced, dialog, said>>
        /\ \A c \in Devices : took'[c] \in {took[c], 0}
    BY <1>3 DEF SendAgain, server, LifeInv, Types
  <2> QED
    BY <2>1, SurroundingsKeepCopies
<1>4. ASSUME NEW a \in Admins, Receive(a) PROVE CopyInv'
  <2>1. /\ UNCHANGED <<orders, history, refused, met, again, outbox, took, dialog, said>>
        /\ \A b \in Admins : synced'[b] \in {synced[b], orders}
    BY <1>4 DEF Receive, server, LifeInv, Types
  <2> QED
    BY <2>1, SurroundingsKeepCopies
<1>5. ASSUME NEW a \in Admins, NEW o \in OrderIds, DeleteTapped(a, o) PROVE CopyInv'
  <2>1. Delete(o) \in AdminWrite /\ Delete(o).op = "delete"
    BY DEF Delete, AdminWrite
  <2>2. Enqueue(a, <<Delete(o)>>) /\ UNCHANGED <<server, took, synced, dialog, said>>
    BY <1>5 DEF DeleteTapped
  <2> QED
    BY <2>1, <2>2, QueueingKeepsPairs
<1>6. ASSUME NEW a \in Admins, NEW o \in OrderIds, NEW kind \in {"total", "status"},
             OpenDialog(a, o, kind)
      PROVE  CopyInv'
  <2>1. /\ UNCHANGED <<orders, history, refused, met, again, outbox, took, synced, said>>
        /\ o \in DOMAIN synced[a]
        /\ dialog' = [dialog EXCEPT ![a] =
                         [kind |-> kind, order |-> o, phone |-> synced[a][o].phone]]
    BY <1>6 DEF OpenDialog, TapOn, Drawn, server
  <2>2. \A b \in Admins :
           \/ dialog'[b] \in {dialog[b], NoDialog}
           \/ /\ dialog'[b].order \in DOMAIN synced[b]
              /\ dialog'[b].phone = synced[b][dialog'[b].order].phone
    BY <2>1 DEF LifeInv, Types
  <2> QED
    BY <2>1, <2>2, SurroundingsKeepCopies
<1>7. ASSUME NEW a \in Admins, Dismiss(a) PROVE CopyInv'
  <2>1. /\ UNCHANGED <<orders, history, refused, met, again, outbox, took, synced, said>>
        /\ \A b \in Admins : dialog'[b] \in {dialog[b], NoDialog}
    BY <1>7 DEF Dismiss, server, LifeInv, Types
  <2> QED
    BY <2>1, SurroundingsKeepCopies
<1>8. ASSUME NEW a \in Admins, NEW v \in Totals, ConfirmTotal(a, v) PROVE CopyInv'
  BY <1>8, QueueingAPair
<1>9. ASSUME NEW a \in Admins, ConfirmDone(a) PROVE CopyInv'
  <2> DEFINE w == UpdateStatus(dialog[a].order)
  <2>1. w \in AdminWrite /\ w.op = "updateStatus"
    <3>1. dialog[a].order \in OrderIds
      BY <1>9, MentionedIsKnown DEF ConfirmDone, NoDialog
    <3> QED
      BY <3>1 DEF UpdateStatus, AdminWrite
  <2>2. /\ Enqueue(a, <<w>>) /\ UNCHANGED <<server, took, synced, said>>
        /\ \A b \in Admins : dialog'[b] \in {dialog[b], NoDialog}
    BY <1>9 DEF ConfirmDone, LifeInv, Types
  <2> HIDE DEF w
  <2> QED
    BY <2>1, <2>2, QueueingKeepsPairs
<1>10. CASE UNCHANGED vars
  <2>1. UNCHANGED <<orders, history, refused, met, again, outbox, took, synced, dialog, said>>
    BY <1>10 DEF vars, server
  <2> QED
    BY <2>1, SurroundingsKeepCopies
<1> QED
  BY <1>1, <1>2, <1>3, <1>4, <1>5, <1>6, <1>7, <1>8, <1>9, <1>10 DEF Next

\* However many administrators there are, and however their writes and the
\* customers' are delayed, sent again and overtaken by taps: once all queues are
\* empty, an order and the copy of it have one total, unless the server refused
\* an update of the copy, the customer's own writes came twice, or two
\* administrators changed this order's total at the same time.
THEOREM TotalsEndUpEqual == Spec => []CopiesAgreeWhenQuiet
<1>1. LifeInv /\ CopyInv => CopiesAgreeWhenQuiet
  <2> SUFFICES ASSUME LifeInv, CopyInv, Quiet,
                      NEW o \in DOMAIN orders \ refused, Copy(o) \in DOMAIN history,
                      ~ Rewritten(o), ~ Contended(o)
               PROVE  history[Copy(o)] = orders[o].total
    BY DEF CopiesAgreeWhenQuiet, Copy
  <2>1. Untouched(o)
    BY DEF Untouched, Quiet, Devices
  <2> QED
    BY <2>1 DEF CopyInv, TotalsAgree, Equal, OnItsWay
<1>2. Init => CopyInv
  BY InitCopies
<1>3. LifeInv /\ CopyInv /\ [Next]_vars => CopyInv'
  BY NextCopies
<1>4. Spec => []LifeInv
  BY LifeInvHolds
<1> QED
  BY <1>1, <1>2, <1>3, <1>4, PTL DEF Spec

-----------------------------------------------------------------------------
(***************************************************************************)
(* The totals that count.  The latest update that a queue holds of an      *)
(* order names a total that was said last; and the order and its copy have *)
(* such a total already, or an update that the server has not taken yet is *)
(* still to come.                                                          *)
(***************************************************************************)
Spoken(o) == \E s \in said : s.order = o

Waiting(o, op) ==
    \E a \in Admins : \E k \in DOMAIN outbox[a] :
        k > took[a] /\ outbox[a][k].op = op /\ outbox[a][k].order = o

SpokenIsKnown == \A s \in said : s.order \in OrderIds /\ ~ NotYet(s.order)

LatestIsSaid ==
    \A a \in Admins, o \in OrderIds : \A k \in DOMAIN outbox[a] :
        LatestUpdate(a, o, k) =>
            [admin |-> a, order |-> o, total |-> outbox[a][k].total] \in said

OrdersAreLast ==
    \A o \in DOMAIN orders : Spoken(o) /\ ~ Renewed(o) =>
        orders[o].total \in LastTotals(o) \/ Waiting(o, "updateTotal")

CopyIsLast(o) == Copy(o) \in DOMAIN history /\ history[Copy(o)] \in LastTotals(o)

CopiesAreLast ==
    \A o \in DOMAIN orders \ refused : Spoken(o) /\ ~ Rewritten(o) =>
        CopyIsLast(o) \/ Waiting(o, "updateHistory")

LastInv == SpokenIsKnown /\ LatestIsSaid /\ OrdersAreLast /\ CopiesAreLast

\* A total that was said last counts.
LEMMA SaidCounts ==
    ASSUME NEW s \in said, NEW o, s.order = o
    PROVE  s.total \in LastTotals(o)
  BY DEF LastTotals

\* The queues after a step that confirms no total: the latest update in each was
\* the latest before, and nothing that the server has still to take is lost.
LatestRemain ==
    \A a \in Admins, o \in OrderIds : \A k \in DOMAIN outbox'[a] : LatestUpdate(a, o, k)' =>
        \E j \in DOMAIN outbox[a] : LatestUpdate(a, o, j) /\ outbox[a][j] = outbox'[a][k]

WaitingRemain ==
    \A a \in Admins : \A k \in DOMAIN outbox[a] : k > took[a] =>
        \E j \in DOMAIN outbox'[a] : j > took'[a] /\ outbox'[a][j] = outbox[a][k]

\* Such a step that leaves the server alone keeps the totals that count.
LEMMA QueuesKeepLast ==
    ASSUME LastInv, UNCHANGED <<orders, history, refused, met, again, said>>,
           LatestRemain, WaitingRemain
    PROVE  LastInv'
<1>1. \A o, op : Waiting(o, op) => Waiting(o, op)'
  <2> SUFFICES ASSUME NEW o, NEW op, Waiting(o, op) PROVE Waiting(o, op)'
    OBVIOUS
  <2>1. PICK a \in Admins : \E k \in DOMAIN outbox[a] :
           k > took[a] /\ outbox[a][k].op = op /\ outbox[a][k].order = o
    BY DEF Waiting
  <2>2. PICK k \in DOMAIN outbox[a] :
           k > took[a] /\ outbox[a][k].op = op /\ outbox[a][k].order = o
    BY <2>1
  <2>3. PICK j \in DOMAIN outbox'[a] : j > took'[a] /\ outbox'[a][j] = outbox[a][k]
    BY <2>2 DEF WaitingRemain
  <2> QED
    BY <2>2, <2>3 DEF Waiting
<1>2. \A o : /\ Spoken(o)' <=> Spoken(o)
             /\ LastTotals(o)' = LastTotals(o)
             /\ (Renewed(o)' <=> Renewed(o)) /\ (Rewritten(o)' <=> Rewritten(o))
             /\ CopyIsLast(o)' <=> CopyIsLast(o)
  BY DEF Spoken, LastTotals, Renewed, Rewritten, CopyIsLast, Copy
<1>3. SpokenIsKnown'
  BY DEF LastInv, SpokenIsKnown, NotYet
<1>4. LatestIsSaid'
  <2> SUFFICES ASSUME NEW a \in Admins, NEW o \in OrderIds, NEW k \in DOMAIN outbox'[a],
                      LatestUpdate(a, o, k)'
               PROVE  [admin |-> a, order |-> o, total |-> outbox'[a][k].total] \in said
    BY DEF LatestIsSaid
  <2>1. PICK j \in DOMAIN outbox[a] : LatestUpdate(a, o, j) /\ outbox[a][j] = outbox'[a][k]
    BY DEF LatestRemain
  <2> QED
    BY <2>1 DEF LastInv, LatestIsSaid
<1>5. OrdersAreLast'
  BY <1>1, <1>2 DEF LastInv, OrdersAreLast
<1>6. CopiesAreLast'
  BY <1>1, <1>2 DEF LastInv, CopiesAreLast
<1> QED
  BY <1>3, <1>4, <1>5, <1>6 DEF LastInv

\* A connection breaks, or a step has nothing to do with administrators' queues.
LEMMA SameQueuesKeepLast ==
    ASSUME LifeInv, LastInv, UNCHANGED <<orders, history, refused, met, again, said>>,
           \A a \in Admins : outbox'[a] = outbox[a] /\ took'[a] \in {took[a], 0}
    PROVE  LastInv'
<1>1. LatestRemain
  BY DEF LatestRemain, LatestUpdate
<1>2. WaitingRemain
  <2> SUFFICES ASSUME NEW a \in Admins, NEW k \in DOMAIN outbox[a], k > took[a]
               PROVE  k > took'[a]
    BY DEF WaitingRemain
  <2>1. outbox[a] \in Seq(AdminWrite) /\ took[a] \in Nat
    BY DEF LifeInv, Types, Devices
  <2> QED
    BY <2>1
<1> QED
  BY <1>1, <1>2, QueuesKeepLast

\* A deletion or a done mark is queued.
LEMMA QueueingKeepsLast ==
    ASSUME LifeInv, LastInv,
           NEW a \in Admins, NEW w \in AdminWrite, w.op \in {"delete", "updateStatus"},
           Enqueue(a, <<w>>), UNCHANGED <<server, took, said>>
    PROVE  LastInv'
<1> DEFINE ws == <<w>>
<1>0. ws \in Seq(AdminWrite) /\ DOMAIN ws = {1} /\ ws[1] = w
  OBVIOUS
<1>1. UNCHANGED <<orders, history, refused, met, again, took, said>> /\ Enqueue(a, ws)
  BY DEF server
<1> HIDE DEF ws
<1>2. /\ \A d \in Devices : d # a => outbox'[d] = outbox[d]
      /\ \A k \in DOMAIN outbox[a] : k \in DOMAIN outbox'[a] /\ outbox'[a][k] = outbox[a][k]
      /\ \A k \in DOMAIN outbox'[a] : k \notin DOMAIN outbox[a] => outbox'[a][k] = w
  BY <1>0, <1>1, Queueing
<1>3. \A b \in Admins : \A k \in DOMAIN outbox'[b] : outbox'[b][k].op = "updateHistory" =>
         k \in DOMAIN outbox[b] /\ outbox'[b][k] = outbox[b][k]
  BY <1>2 DEF Devices
<1>4. \A b \in Admins : \A k \in DOMAIN outbox[b] :
         k \in DOMAIN outbox'[b] /\ outbox'[b][k] = outbox[b][k]
  BY <1>2 DEF Devices
<1>5. LatestRemain
  BY <1>3, <1>4 DEF LatestRemain, LatestUpdate, CopyUpdate
<1>6. WaitingRemain
  BY <1>1, <1>4 DEF WaitingRemain
<1> QED
  BY <1>1, <1>5, <1>6, QueuesKeepLast

\* An administrator reads an answer, to a write that the server has taken.
LEMMA AnswerKeepsLast ==
    ASSUME LifeInv, LastInv, NEW a \in Admins, Answered(a)
    PROVE  LastInv'
<1>0. a \in Devices
  BY DEF Devices
<1>1. /\ took[a] \in Nat /\ took'[a] = took[a] - 1 /\ 1 <= took[a]
      /\ \A k \in DOMAIN outbox'[a] :
            k \in Nat /\ k + 1 \in DOMAIN outbox[a] /\ outbox'[a][k] = outbox[a][k + 1]
      /\ \A j \in DOMAIN outbox[a] : j # 1 =>
            j \in Nat /\ j - 1 \in DOMAIN outbox'[a] /\ outbox'[a][j - 1] = outbox[a][j]
      /\ \A j \in DOMAIN outbox[a] : j \in Nat /\ j >= 1
      /\ UNCHANGED <<orders, history, refused, met, again, said>>
  BY <1>0, AnswerRead
<1>2. \A b \in Admins : b # a => outbox'[b] = outbox[b] /\ took'[b] = took[b]
  BY <1>0, AnswerRead DEF Devices
<1>3. LatestRemain
  <2> SUFFICES ASSUME NEW b \in Admins, NEW o \in OrderIds, NEW k \in DOMAIN outbox'[b],
                      LatestUpdate(b, o, k)'
               PROVE  \E j \in DOMAIN outbox[b] :
                         LatestUpdate(b, o, j) /\ outbox[b][j] = outbox'[b][k]
    BY DEF LatestRemain
  <2>1. CASE b # a
    BY <1>2, <2>1 DEF LatestUpdate
  <2>2. CASE b = a
    <3>1. k \in Nat /\ k + 1 \in DOMAIN outbox[a] /\ outbox'[a][k] = outbox[a][k + 1]
      BY <1>1, <2>2
    <3>2. ASSUME NEW j \in DOMAIN outbox[a], CopyUpdate(outbox[a][j], o)
          PROVE  j <= k + 1
      <4>1. CASE j = 1
        BY <3>1, <4>1
      <4>2. CASE j # 1
        <5>1. j \in Nat /\ j - 1 \in DOMAIN outbox'[a] /\ outbox'[a][j - 1] = outbox[a][j]
          BY <1>1, <4>2
        <5>2. j - 1 <= k
          BY <2>2, <3>2, <5>1 DEF LatestUpdate
        <5> QED
          BY <3>1, <5>1, <5>2
      <4> QED
        BY <4>1, <4>2
    <3>3. LatestUpdate(a, o, k + 1)
      BY <2>2, <3>1, <3>2 DEF LatestUpdate
    <3> QED
      BY <2>2, <3>1, <3>3
  <2> QED
    BY <2>1, <2>2
<1>4. WaitingRemain
  <2> SUFFICES ASSUME NEW b \in Admins, NEW k \in DOMAIN outbox[b], k > took[b]
               PROVE  \E j \in DOMAIN outbox'[b] : j > took'[b] /\ outbox'[b][j] = outbox[b][k]
    BY DEF WaitingRemain
  <2>1. CASE b # a
    BY <1>2, <2>1
  <2>2. CASE b = a
    <3>1. k \in Nat /\ k # 1
      BY <1>1, <2>2
    <3>2. k - 1 \in DOMAIN outbox'[a] /\ outbox'[a][k - 1] = outbox[a][k]
      BY <1>1, <2>2, <3>1
    <3>3. k - 1 > took'[a]
      BY <1>1, <2>2, <3>1
    <3> QED
      BY <2>2, <3>2, <3>3
  <2> QED
    BY <2>1, <2>2
<1> QED
  BY <1>1, <1>3, <1>4, QueuesKeepLast

\* A new total is confirmed: both its writes are still to come, and what others
\* have queued of this order goes on counting.
LEMMA SayingKeepsLast ==
    ASSUME LifeInv, QueuedIsSaid, LastInv,
           NEW a \in Admins, NEW v \in Totals, ConfirmTotal(a, v)
    PROVE  LastInv'
<1>0. /\ dialog[a] # NoDialog
      /\ dialog[a].order \in OrderIds /\ ~ NotYet(dialog[a].order)
      /\ dialog[a].phone \in Phones
  <2>1. dialog[a] # NoDialog
    BY DEF ConfirmTotal, NoDialog
  <2> QED
    BY <2>1, MentionedIsKnown
<1>2. PICK x \in OrderIds, p \in Phones :
         x = dialog[a].order /\ p = dialog[a].phone /\ ~ NotYet(x)
  BY <1>0
<1> DEFINE ws == <<UpdateTotal(x, v), UpdateHistory(x, p, v)>>
           r  == [admin |-> a, order |-> x, total |-> v]
<1>1. /\ UNCHANGED <<orders, history, refused, met, again, took, synced>>
      /\ Enqueue(a, ws) /\ Says(a, x, v)
  BY <1>2 DEF ConfirmTotal, server
<1>3. UpdateTotal(x, v) \in AdminWrite /\ UpdateHistory(x, p, v) \in AdminWrite
  BY <1>2 DEF UpdateTotal, UpdateHistory, AdminWrite
<1>4. /\ ws \in Seq(AdminWrite) /\ Len(ws) = 2
      /\ ws[1] = UpdateTotal(x, v) /\ ws[2] = UpdateHistory(x, p, v)
  BY <1>3
<1> HIDE DEF ws
<1> DEFINE n == Len(outbox[a])
<1>5. /\ \A d \in Devices : d # a => outbox'[d] = outbox[d]
      /\ took[a] \in Nat /\ took[a] <= n
      /\ n \in Nat /\ DOMAIN outbox[a] = 1 .. n /\ DOMAIN outbox'[a] = 1 .. (n + Len(ws))
      /\ \A k \in DOMAIN outbox[a] : k \in DOMAIN outbox'[a] /\ outbox'[a][k] = outbox[a][k]
      /\ \A k \in DOMAIN outbox'[a] : k \notin DOMAIN outbox[a] =>
            k - n \in DOMAIN ws /\ outbox'[a][k] = ws[k - n]
  BY <1>1, <1>4, Queueing
<1> HIDE DEF n
<1>6. DOMAIN outbox'[a] = 1 .. (n + 2)
  BY <1>4, <1>5
<1>7. /\ n + 1 \in DOMAIN outbox'[a] /\ outbox'[a][n + 1] = UpdateTotal(x, v)
      /\ n + 2 \in DOMAIN outbox'[a] /\ outbox'[a][n + 2] = UpdateHistory(x, p, v)
  <2>1. n + 1 \in DOMAIN outbox'[a] /\ n + 1 \notin DOMAIN outbox[a] /\ n + 1 - n = 1
    BY <1>5, <1>6
  <2>2. n + 2 \in DOMAIN outbox'[a] /\ n + 2 \notin DOMAIN outbox[a] /\ n + 2 - n = 2
    BY <1>5, <1>6
  <2> QED
    BY <1>4, <1>5, <2>1, <2>2
<1>8. \A b \in Admins : b # a => outbox'[b] = outbox[b]
  BY <1>5 DEF Devices
<1>9. n + 1 > took'[a] /\ n + 2 > took'[a]
  BY <1>1, <1>5
<1>10. /\ \A t : t.order # x => (t \in said' <=> t \in said \/ t = r)
       /\ \A t \in said : t.admin # a /\ Owes(t.admin, x) => t \in said'
       /\ \A t \in said : t.order # x => t \in said'
       /\ \A t \in said' : t \in said \/ t = r
       /\ r \in said' /\ r.order = x /\ r.admin = a /\ r.total = v
  BY <1>1 DEF Says
<1> HIDE DEF r
<1>11. SpokenIsKnown'
  <2>1. \A t \in said : t.order \in OrderIds /\ ~ NotYet(t.order)
    BY DEF LastInv, SpokenIsKnown
  <2> QED
    BY <1>1, <1>2, <1>10, <2>1 DEF SpokenIsKnown, NotYet
<1>12. LatestIsSaid'
  <2> SUFFICES ASSUME NEW b \in Admins, NEW o \in OrderIds, NEW k \in DOMAIN outbox'[b],
                      LatestUpdate(b, o, k)'
               PROVE  [admin |-> b, order |-> o, total |-> outbox'[b][k].total] \in said'
    BY DEF LatestIsSaid
  <2>1. CASE b = a /\ o = x
    <3>1. CopyUpdate(outbox'[a][n + 2], x)
      BY <1>7 DEF CopyUpdate, UpdateHistory
    <3>2. k \in 1 .. (n + 2) /\ n + 2 <= k
      BY <1>6, <1>7, <2>1, <3>1 DEF LatestUpdate
    <3>3. k = n + 2
      BY <1>5, <3>2
    <3> QED
      BY <1>7, <1>10, <2>1, <3>3 DEF r, UpdateHistory
  <2>2. CASE ~ (b = a /\ o = x)
    <3>1. k \in DOMAIN outbox[b] /\ outbox'[b][k] = outbox[b][k]
      <4>1. CASE b # a
        BY <1>8, <4>1
      <4>2. CASE b = a
        <5>1. k # n + 1 /\ k # n + 2
          BY <1>7, <2>2, <4>2 DEF LatestUpdate, CopyUpdate, UpdateTotal, UpdateHistory
        <5>2. k \in 1 .. n
          BY <1>5, <1>6, <4>2, <5>1
        <5> QED
          BY <1>5, <4>2, <5>2
      <4> QED
        BY <4>1, <4>2
    <3>2. \A j \in DOMAIN outbox[b] : j \in DOMAIN outbox'[b] /\ outbox'[b][j] = outbox[b][j]
      BY <1>5, <1>8
    <3>3. LatestUpdate(b, o, k)
      BY <3>1, <3>2 DEF LatestUpdate
    <3> DEFINE t == [admin |-> b, order |-> o, total |-> outbox[b][k].total]
    <3>4. t \in said /\ t.admin = b /\ t.order = o
      BY <3>1, <3>3 DEF LastInv, LatestIsSaid
    <3>5. Owes(b, o)
      BY <3>3 DEF LatestUpdate, CopyUpdate, Owes
    <3> HIDE DEF t
    <3>6. t \in said'
      BY <1>10, <2>2, <3>4, <3>5
    <3> QED
      BY <3>1, <3>6 DEF t
  <2> QED
    BY <2>1, <2>2
<1>13. Waiting(x, "updateTotal")' /\ Waiting(x, "updateHistory")'
  <2>1. outbox'[a][n + 1].op = "updateTotal" /\ outbox'[a][n + 1].order = x
    BY <1>7 DEF UpdateTotal
  <2>2. outbox'[a][n + 2].op = "updateHistory" /\ outbox'[a][n + 2].order = x
    BY <1>7 DEF UpdateHistory
  <2>3. Waiting(x, "updateTotal")'
    BY <1>7, <1>9, <2>1, Zenon DEF Waiting
  <2>4. Waiting(x, "updateHistory")'
    BY <1>7, <1>9, <2>2, Zenon DEF Waiting
  <2> QED
    BY <2>3, <2>4
<1>14. \A o, op : Waiting(o, op) => Waiting(o, op)'
  <2>1. \A b \in Admins : \A j \in DOMAIN outbox[b] :
           j \in DOMAIN outbox'[b] /\ outbox'[b][j] = outbox[b][j]
    BY <1>5, <1>8
  <2> QED
    BY <1>1, <2>1 DEF Waiting
<1>15. \A o : o # x => /\ Spoken(o)' <=> Spoken(o)
                       /\ LastTotals(o)' = LastTotals(o)
                       /\ CopyIsLast(o)' <=> CopyIsLast(o)
  <2> SUFFICES ASSUME NEW o, o # x
               PROVE  /\ Spoken(o)' <=> Spoken(o)
                      /\ LastTotals(o)' = LastTotals(o)
                      /\ CopyIsLast(o)' <=> CopyIsLast(o)
    OBVIOUS
  <2>1. {t \in said' : t.order = o} = {t \in said : t.order = o}
    BY <1>10
  <2>2. LastTotals(o)' = LastTotals(o)
    BY <2>1 DEF LastTotals
  <2> QED
    BY <1>1, <2>1, <2>2 DEF Spoken, CopyIsLast, Copy
<1>16. \A o : (Renewed(o)' <=> Renewed(o)) /\ (Rewritten(o)' <=> Rewritten(o))
  BY <1>1 DEF Renewed, Rewritten
<1>17. OrdersAreLast'
  <2> SUFFICES ASSUME NEW o \in DOMAIN orders, Spoken(o)', ~ Renewed(o)
               PROVE  orders[o].total \in LastTotals(o)' \/ Waiting(o, "updateTotal")'
    BY <1>1, <1>16 DEF OrdersAreLast
  <2>1. CASE o = x
    BY <1>13, <2>1
  <2>2. CASE o # x
    <3>1. Spoken(o) /\ LastTotals(o)' = LastTotals(o)
      BY <1>15, <2>2
    <3>2. orders[o].total \in LastTotals(o) \/ Waiting(o, "updateTotal")
      BY <3>1 DEF LastInv, OrdersAreLast
    <3>3. Waiting(o, "updateTotal") => Waiting(o, "updateTotal")'
      BY <1>14
    <3> QED
      BY <3>1, <3>2, <3>3
  <2> QED
    BY <2>1, <2>2
<1>18. CopiesAreLast'
  <2> SUFFICES ASSUME NEW o \in DOMAIN orders \ refused, Spoken(o)', ~ Rewritten(o)
               PROVE  CopyIsLast(o)' \/ Waiting(o, "updateHistory")'
    BY <1>1, <1>16 DEF CopiesAreLast
  <2>1. CASE o = x
    BY <1>13, <2>1
  <2>2. CASE o # x
    <3>1. Spoken(o) /\ (CopyIsLast(o)' <=> CopyIsLast(o))
      BY <1>15, <2>2
    <3>2. CopyIsLast(o) \/ Waiting(o, "updateHistory")
      BY <3>1 DEF LastInv, CopiesAreLast
    <3>3. Waiting(o, "updateHistory") => Waiting(o, "updateHistory")'
      BY <1>14
    <3> QED
      BY <3>1, <3>2, <3>3
  <2> QED
    BY <2>1, <2>2
<1> QED
  BY <1>11, <1>12, <1>17, <1>18 DEF LastInv

\* The server takes a customer's write.  An order that it meets for the first
\* time nobody has said a total of; a copy that it meets for the first time is
\* behind an update that is still to come, or that was refused.
LEMMA CustomerDeliveryKeepsLast ==
    ASSUME LifeInv, CustomerInv, LastInv, NEW d \in OrderIds, Deliver(d)
    PROVE  LastInv'
<1> DEFINE w == NextWrite(d)
<1>1. /\ d \in Devices /\ d \notin Admins
      /\ w \in CustomerWrite /\ w.order = d /\ w.phone \in Phones
      /\ w.op \in {"setOrder", "setHistory"}
      /\ met' = met \cup {<<w.op, d>>}
      /\ again' = IF <<w.op, d>> \in met THEN again \cup {<<w.op, d>>} ELSE again
      /\ history' = ApplyToHistory(history, w)
      /\ orders' = ApplyToOrders(orders, w)
      /\ UNCHANGED <<outbox, said>>
  BY CustomersNextWrite
<1>2. refused \subseteq refused' /\ \A a \in Admins : took'[a] = took[a]
  BY <1>1, DeliverToCopies DEF Devices
<1>3. orders \in Docs /\ orders \in [DOMAIN orders -> Doc]
  BY DocsFacts DEF LifeInv, Types
<1> HIDE DEF w
<1>4. /\ \A o, op : Waiting(o, op)' <=> Waiting(o, op)
      /\ \A o : (Spoken(o)' <=> Spoken(o)) /\ LastTotals(o)' = LastTotals(o)
  BY <1>1, <1>2 DEF Waiting, Spoken, LastTotals
<1>5. SpokenIsKnown'
  BY <1>1 DEF LastInv, SpokenIsKnown, NotYet
<1>6. LatestIsSaid'
  BY <1>1 DEF LastInv, LatestIsSaid, LatestUpdate
<1>7. again \subseteq again'
  BY <1>1
<1>8. CASE w.op = "setOrder"
  <2> DEFINE new == [phone |-> w.phone, total |-> w.total, status |-> "new"]
  <2>1. orders' = SetDoc(orders, d, new)
    BY <1>1, <1>8 DEF ApplyToOrders
  <2>2. \A x \in DOMAIN orders' : x # d => x \in DOMAIN orders /\ orders'[x] = orders[x]
    BY <2>1 DEF SetDoc
  <2>3. history' = history
    <3>1. history' = ApplyToHistory(history, w)
      BY <1>1
    <3> QED
      BY <1>8, <3>1, CopiesKept
  <2>4. Spoken(d) => Renewed(d)'
    <3>1. Spoken(d) => <<"setOrder", d>> \in met
      BY DEF Spoken, LastInv, SpokenIsKnown, NotYet
    <3> QED
      BY <1>1, <1>8, <3>1 DEF Renewed
  <2>5. \A o : (Renewed(o) => Renewed(o)') /\ (Rewritten(o) => Rewritten(o)')
    BY <1>7 DEF Renewed, Rewritten
  <2>6. \A o : Renewed(o)' => Rewritten(o)'
    BY DEF Rewritten
  <2>7. OrdersAreLast'
    <3> SUFFICES ASSUME NEW o \in DOMAIN orders', Spoken(o), ~ Renewed(o)'
                 PROVE  orders'[o].total \in LastTotals(o) \/ Waiting(o, "updateTotal")
      BY <1>4 DEF OrdersAreLast
    <3>1. o # d
      BY <2>4
    <3> QED
      BY <2>2, <2>5, <3>1 DEF LastInv, OrdersAreLast
  <2>8. CopiesAreLast'
    <3> SUFFICES ASSUME NEW o \in DOMAIN orders' \ refused', Spoken(o), ~ Rewritten(o)'
                 PROVE  CopyIsLast(o)' \/ Waiting(o, "updateHistory")
      BY <1>4 DEF CopiesAreLast
    <3>1. o # d
      BY <2>4, <2>6
    <3>2. o \in DOMAIN orders \ refused /\ orders'[o] = orders[o]
      BY <1>2, <2>2, <3>1
    <3>3. CopyIsLast(o)' <=> CopyIsLast(o)
      BY <1>4, <2>3, <3>2 DEF CopyIsLast, Copy
    <3> QED
      BY <2>5, <3>2, <3>3 DEF LastInv, CopiesAreLast
  <2> QED
    BY <1>5, <1>6, <2>7, <2>8 DEF LastInv
<1>9. CASE w.op = "setHistory"
  <2> DEFINE key == <<w.phone, d>>
  <2>1. orders' = orders
    BY <1>1, <1>3, <1>9, SetHistoryApplied
  <2>2. history' = SetDoc(history, key, w.total)
    BY <1>1, <1>9 DEF ApplyToHistory
  <2>3. /\ DOMAIN history \subseteq DOMAIN history'
        /\ \A k \in DOMAIN history : k # key => history'[k] = history[k]
    <3> HIDE DEF key
    <3> QED
      BY <2>2 DEF SetDoc
  <2>4. \A o : (Renewed(o)' <=> Renewed(o)) /\ (Rewritten(o) => Rewritten(o)')
    BY <1>1, <1>9 DEF Renewed, Rewritten
  <2>5. OrdersAreLast'
    BY <1>4, <2>1, <2>4 DEF LastInv, OrdersAreLast
  <2>6. CopiesAreLast'
    <3> SUFFICES ASSUME NEW o \in DOMAIN orders \ refused, Spoken(o), ~ Rewritten(o)'
                 PROVE  CopyIsLast(o)' \/ Waiting(o, "updateHistory")
      BY <1>2, <1>4, <2>1 DEF CopiesAreLast
    <3>1. CopyIsLast(o) \/ Waiting(o, "updateHistory")
      BY <2>4 DEF LastInv, CopiesAreLast
    <3>2. CASE o # d
      <4>1. Copy(o)' = Copy(o) /\ Copy(o) # key
        BY <2>1, <3>2 DEF Copy
      <4>2. CopyIsLast(o) => CopyIsLast(o)'
        BY <1>4, <2>3, <4>1 DEF CopyIsLast
      <4> QED
        BY <3>1, <4>2
    <3>3. CASE o = d
      <4>1. <<"setHistory", d>> \notin met
        BY <1>1, <1>9, <3>3 DEF Rewritten
      <4>2. orders[o].phone \in Phones
        BY <1>3 DEF Doc
      <4>3. Copy(o) \notin DOMAIN history
        BY <3>3, <4>1, <4>2 DEF Copy, CustomerInv, CopiesAreMet
      <4> QED
        BY <3>1, <4>3 DEF CopyIsLast
    <3> QED
      BY <3>2, <3>3
  <2> QED
    BY <1>5, <1>6, <2>5, <2>6 DEF LastInv
<1> QED
  BY <1>1, <1>8, <1>9

\* An update that is not the latest of its queue has a whole pair behind it.
LEMMA LatestOrMore ==
    ASSUME LifeInv, PairsStayWhole, LatestIsSaid, NEW a \in Admins, NEW o \in OrderIds,
           NEW n \in DOMAIN outbox[a], CopyUpdate(outbox[a][n], o)
    PROVE  \/ outbox[a][n].total \in LastTotals(o)
           \/ \E j \in DOMAIN outbox[a] : j > n /\ CopyUpdate(outbox[a][j], o)
<1>0. \A j \in DOMAIN outbox[a] : j \in Nat
  <2>1. outbox[a] \in Seq(AdminWrite)
    BY DEF LifeInv, Types
  <2> QED
    BY <2>1
<1>1. CASE LatestUpdate(a, o, n)
  <2> DEFINE t == [admin |-> a, order |-> o, total |-> outbox[a][n].total]
  <2>1. t \in said /\ t.order = o /\ t.total = outbox[a][n].total
    BY <1>1 DEF LatestIsSaid
  <2> HIDE DEF t
  <2>2. t.total \in LastTotals(o)
    BY <2>1, SaidCounts
  <2> QED
    BY <2>1, <2>2
<1>2. CASE ~ LatestUpdate(a, o, n)
  <2>1. PICK j \in DOMAIN outbox[a] : CopyUpdate(outbox[a][j], o) /\ ~ (j <= n)
    BY <1>2 DEF LatestUpdate
  <2> QED
    BY <1>0, <2>1
<1> QED
  BY <1>1, <1>2

\* The server takes an administrator's write: what it names is a total that was
\* said last, or a later update of the same queue is still to come.
LEMMA AdminDeliveryKeepsLast ==
    ASSUME LifeInv, PairsStayWhole, PhonesAreKnown, LastInv, NEW a \in Admins, Deliver(a)
    PROVE  LastInv'
<1> DEFINE w == NextWrite(a)
           n == took[a] + 1
<1>0. a \in Devices /\ a \notin OrderIds
  BY DevicesAssumption DEF Devices
<1>1. /\ n \in DOMAIN outbox[a] /\ w = outbox[a][n]
      /\ orders' = ApplyToOrders(orders, w)
      /\ history' = ApplyToHistory(history, w)
      /\ UNCHANGED <<met, again, outbox, said>>
  BY <1>0, DeliverFacts DEF NextWrite
<1>2. /\ took[a] \in Nat /\ took'[a] = n /\ n = took[a] + 1
      /\ \A b \in Admins : b # a => took'[b] = took[b]
      /\ refused \subseteq refused'
      /\ w.op = "updateHistory" /\ <<w.phone, w.order>> \notin DOMAIN history
            => w.order \in refused'
  BY <1>0, DeliverToCopies DEF Devices
<1>3. /\ w \in AdminWrite /\ w.order \in OrderIds
      /\ w.op # "setHistory"
      /\ orders \in Docs
      /\ \A k \in DOMAIN outbox[a] : k \in Nat
  <2>1. w \in AdminWrite /\ w.order \in OrderIds
    BY <1>1, MentionedIsKnown
  <2>2. outbox[a] \in Seq(AdminWrite) /\ orders \in Docs
    BY DEF LifeInv, Types
  <2>3. \A k \in DOMAIN outbox[a] : k \in Nat
    BY <2>2
  <2>4. \A u \in AdminWrite : u.op # "setHistory"
    BY DEF AdminWrite
  <2> QED
    BY <2>1, <2>2, <2>3, <2>4
<1> HIDE DEF w, n
<1>4. /\ DOMAIN orders' \subseteq DOMAIN orders
      /\ \A o \in DOMAIN orders' :
            /\ orders'[o].phone = orders[o].phone
            /\ ~ (w.op = "updateTotal" /\ o = w.order) => orders'[o].total = orders[o].total
            /\ w.op = "updateTotal" /\ o = w.order => orders'[o].total = w.total
  BY <1>1, <1>3, AdminKeepsPhones
<1>5. /\ DOMAIN history' = DOMAIN history
      /\ \A k \in DOMAIN history : ~ (w.op = "updateHistory" /\ k = <<w.phone, w.order>>)
            => history'[k] = history[k]
      /\ w.op = "updateHistory" /\ <<w.phone, w.order>> \in DOMAIN history
            => history'[<<w.phone, w.order>>] = w.total
  <2>1. history' = ApplyToHistory(history, w) /\ w.op # "setHistory"
    BY <1>1, <1>3
  <2>2. CASE w.op = "updateHistory" /\ <<w.phone, w.order>> \in DOMAIN history
    BY <2>1, <2>2, CopyChanged
  <2>3. CASE ~ (w.op = "updateHistory" /\ <<w.phone, w.order>> \in DOMAIN history)
    <3>1. history' = history
      BY <2>1, <2>3, CopiesKept
    <3> QED
      BY <2>3, <3>1
  <2> QED
    BY <2>2, <2>3
<1>6. \A o : /\ Spoken(o)' <=> Spoken(o)
             /\ LastTotals(o)' = LastTotals(o)
             /\ (Renewed(o)' <=> Renewed(o)) /\ (Rewritten(o)' <=> Rewritten(o))
  BY <1>1 DEF Spoken, LastTotals, Renewed, Rewritten
<1>7. \A o, op : ~ (w.op = op /\ w.order = o) /\ Waiting(o, op) => Waiting(o, op)'
  <2> SUFFICES ASSUME NEW o, NEW op, ~ (w.op = op /\ w.order = o), Waiting(o, op)
               PROVE  Waiting(o, op)'
    OBVIOUS
  <2>1. PICK b \in Admins : \E k \in DOMAIN outbox[b] :
           k > took[b] /\ outbox[b][k].op = op /\ outbox[b][k].order = o
    BY DEF Waiting
  <2>2. PICK k \in DOMAIN outbox[b] :
           k > took[b] /\ outbox[b][k].op = op /\ outbox[b][k].order = o
    BY <2>1
  <2>3. k > took'[b]
    <3>1. CASE b # a
      BY <1>2, <2>2, <3>1
    <3>2. CASE b = a
      <4>1. k # n
        BY <1>1, <2>2, <3>2
      <4> QED
        BY <1>2, <1>3, <2>2, <3>2, <4>1
    <3> QED
      BY <3>1, <3>2
  <2> QED
    BY <1>1, <2>2, <2>3, Zenon DEF Waiting
<1>8. SpokenIsKnown' /\ LatestIsSaid'
  BY <1>1 DEF LastInv, SpokenIsKnown, LatestIsSaid, LatestUpdate, NotYet
<1>9. OrdersAreLast'
  <2> SUFFICES ASSUME NEW o \in DOMAIN orders', Spoken(o), ~ Renewed(o)
               PROVE  orders'[o].total \in LastTotals(o) \/ Waiting(o, "updateTotal")'
    BY <1>6 DEF OrdersAreLast
  <2>1. orders[o].total \in LastTotals(o) \/ Waiting(o, "updateTotal")
    BY <1>4 DEF LastInv, OrdersAreLast
  <2>2. CASE ~ (w.op = "updateTotal" /\ o = w.order)
    BY <1>4, <1>7, <2>1, <2>2
  <2>3. CASE w.op = "updateTotal" /\ o = w.order
    <3>1. n + 1 \in DOMAIN outbox[a] /\ CopyUpdate(outbox[a][n + 1], o)
      BY <1>1, <2>3 DEF PairsStayWhole
    <3>2. w.total = outbox[a][n + 1].total
      <4> DEFINE m == n + 1
      <4>1. m # 1 /\ m - 1 = n /\ m \in DOMAIN outbox[a]
        BY <1>2, <3>1
      <4>2. outbox[a][m].op = "updateHistory"
        BY <3>1 DEF CopyUpdate
      <4> HIDE DEF m
      <4>3. outbox[a][n] = UpdateTotal(outbox[a][m].order, outbox[a][m].total)
        BY <4>1, <4>2 DEF PairsStayWhole
      <4>4. w.total = outbox[a][m].total
        BY <1>1, <4>3 DEF UpdateTotal
      <4> QED
        BY <4>4 DEF m
    <3>3. CASE outbox[a][n + 1].total \in LastTotals(o)
      BY <1>4, <2>3, <3>2, <3>3
    <3>4. CASE \E j \in DOMAIN outbox[a] : j > n + 1 /\ CopyUpdate(outbox[a][j], o)
      <4>1. PICK j \in DOMAIN outbox[a] : j > n + 1 /\ CopyUpdate(outbox[a][j], o)
        BY <3>4
      <4>2. j # 1 /\ j - 1 > took'[a]
        BY <1>2, <1>3, <4>1
      <4>0. outbox[a][j].op = "updateHistory" /\ outbox[a][j].order = o
        BY <4>1 DEF CopyUpdate
      <4>3. outbox[a][j - 1] = UpdateTotal(outbox[a][j].order, outbox[a][j].total)
        BY <4>0, <4>2 DEF PairsStayWhole
      <4>4. j - 1 \in DOMAIN outbox[a]
        <5>1. outbox[a] \in Seq(AdminWrite)
          BY DEF LifeInv, Types
        <5> QED
          BY <1>2, <4>1, <5>1
      <4>5. outbox[a][j - 1].op = "updateTotal" /\ outbox[a][j - 1].order = o
        BY <4>0, <4>3 DEF UpdateTotal
      <4> DEFINE i == j - 1
      <4>6. i \in DOMAIN outbox'[a] /\ i > took'[a]
            /\ outbox'[a][i].op = "updateTotal" /\ outbox'[a][i].order = o
        BY <1>1, <4>2, <4>4, <4>5
      <4> HIDE DEF i
      <4> QED
        BY <4>6, Zenon DEF Waiting
    <3> QED
      BY <1>3, <2>3, <3>1, <3>3, <3>4, LatestOrMore DEF LastInv
  <2> QED
    BY <2>2, <2>3
<1>10. CopiesAreLast'
  <2> SUFFICES ASSUME NEW o \in DOMAIN orders' \ refused', Spoken(o), ~ Rewritten(o)
               PROVE  CopyIsLast(o)' \/ Waiting(o, "updateHistory")'
    BY <1>6 DEF CopiesAreLast
  <2>0. o \in DOMAIN orders \ refused /\ Copy(o)' = Copy(o) /\ ~ Renewed(o)
    BY <1>2, <1>4 DEF Copy, Rewritten
  <2>1. CopyIsLast(o) \/ Waiting(o, "updateHistory")
    BY <2>0 DEF LastInv, CopiesAreLast
  <2>2. CASE ~ (w.op = "updateHistory" /\ o = w.order)
    <3>1. Copy(o) \in DOMAIN history => history'[Copy(o)] = history[Copy(o)]
      <4>1. ~ (w.op = "updateHistory" /\ Copy(o) = <<w.phone, w.order>>)
        BY <2>2 DEF Copy
      <4> QED
        BY <1>5, <4>1
    <3>2. CopyIsLast(o) => CopyIsLast(o)'
      BY <1>5, <1>6, <2>0, <3>1 DEF CopyIsLast
    <3> QED
      BY <1>7, <2>1, <2>2, <3>2
  <2>3. CASE w.op = "updateHistory" /\ o = w.order
    <3>1. CopyUpdate(outbox[a][n], o)
      BY <1>1, <2>3 DEF CopyUpdate
    <3>2. w.phone = orders[o].phone
      BY <1>1, <2>0, <3>1 DEF PhonesAreKnown
    <3>3. Copy(o) \in DOMAIN history' /\ history'[Copy(o)] = w.total
      BY <1>2, <1>5, <2>3, <3>2 DEF Copy
    <3>4. CASE w.total \in LastTotals(o)
      BY <1>6, <2>0, <3>3, <3>4 DEF CopyIsLast
    <3>5. CASE \E j \in DOMAIN outbox[a] : j > n /\ CopyUpdate(outbox[a][j], o)
      <4>1. PICK j \in DOMAIN outbox[a] : j > n /\ CopyUpdate(outbox[a][j], o)
        BY <3>5
      <4>2. /\ j \in DOMAIN outbox'[a] /\ j > took'[a]
            /\ outbox'[a][j].op = "updateHistory" /\ outbox'[a][j].order = o
        BY <1>1, <1>2, <4>1 DEF CopyUpdate
      <4> QED
        BY <4>2, Zenon DEF Waiting
    <3> QED
      BY <1>1, <1>3, <2>3, <3>1, <3>4, <3>5, LatestOrMore DEF LastInv
  <2> QED
    BY <2>2, <2>3
<1> QED
  BY <1>8, <1>9, <1>10 DEF LastInv

\* Nobody has said anything.
LEMMA InitLast == Init => LastInv
<1> SUFFICES ASSUME Init PROVE LastInv
  OBVIOUS
<1>1. said = {} /\ DOMAIN orders = {} /\ \A a \in Admins : DOMAIN outbox[a] = {}
  BY DEF Init, Devices
<1> QED
  BY <1>1 DEF LastInv, SpokenIsKnown, LatestIsSaid, OrdersAreLast, CopiesAreLast

\* Every step keeps the totals that count.
LEMMA NextLast ==
    ASSUME LifeInv, CopyInv, LastInv, [Next]_vars
    PROVE  LastInv'
<1> USE DEF CopyInv
<1>1. ASSUME NEW o \in OrderIds, NEW phone \in Phones, NEW account \in Phones \cup {Guest},
             NEW v \in Totals, NEW twice \in {FALSE, DoubleTap},
             Submit(o, phone, account, v, twice)
      PROVE  LastInv'
  <2>1. /\ UNCHANGED <<orders, history, refused, met, again, took, said>>
        /\ \E ws : outbox' = [outbox EXCEPT ![o] = outbox[o] \o ws]
    BY <1>1 DEF Submit, Enqueue, server
  <2>2. \A a \in Admins : outbox'[a] = outbox[a]
    BY <2>1, CustomerQueue DEF LifeInv, Types, Devices
  <2> QED
    BY <2>1, <2>2, SameQueuesKeepLast
<1>2. ASSUME NEW d \in Devices, Deliver(d) PROVE LastInv'
  BY <1>2, CustomerDeliveryKeepsLast, AdminDeliveryKeepsLast DEF Devices
<1>3. ASSUME NEW d \in OrderIds, Answered(d) PROVE LastInv'
  <2>1. d \in Devices /\ d \notin Admins
    BY CustomerQueue
  <2>2. UNCHANGED <<orders, history, refused, met, again, said>>
    BY <1>3, <2>1, AnswerRead
  <2>3. \A a \in Admins : outbox'[a] = outbox[a] /\ took'[a] = took[a]
    BY <1>3, <2>1, AnswerRead DEF Devices
  <2> QED
    BY <2>2, <2>3, SameQueuesKeepLast
<1>4. ASSUME NEW a \in Admins, Answered(a) PROVE LastInv'
  BY <1>4, AnswerKeepsLast
<1>5. ASSUME NEW d \in Devices, SendAgain(d) PROVE LastInv'
  <2>1. /\ UNCHANGED <<orders, history, refused, met, again, outbox, said>>
        /\ \A a \in Admins : took'[a] \in {took[a], 0}
    BY <1>5 DEF SendAgain, server, LifeInv, Types, Devices
  <2> QED
    BY <2>1, SameQueuesKeepLast
<1>6. ASSUME NEW a \in Admins, NEW o \in OrderIds, DeleteTapped(a, o) PROVE LastInv'
  <2>1. Delete(o) \in AdminWrite /\ Delete(o).op = "delete"
    BY DEF Delete, AdminWrite
  <2>2. Enqueue(a, <<Delete(o)>>) /\ UNCHANGED <<server, took, said>>
    BY <1>6 DEF DeleteTapped
  <2> QED
    BY <2>1, <2>2, QueueingKeepsLast
<1>7. ASSUME NEW a \in Admins, NEW v \in Totals, ConfirmTotal(a, v) PROVE LastInv'
  BY <1>7, SayingKeepsLast
<1>8. ASSUME NEW a \in Admins, ConfirmDone(a) PROVE LastInv'
  <2> DEFINE w == UpdateStatus(dialog[a].order)
  <2>1. w \in AdminWrite /\ w.op = "updateStatus"
    <3>1. dialog[a].order \in OrderIds
      BY <1>8, MentionedIsKnown DEF ConfirmDone, NoDialog
    <3> QED
      BY <3>1 DEF UpdateStatus, AdminWrite
  <2>2. Enqueue(a, <<w>>) /\ UNCHANGED <<server, took, said>>
    BY <1>8 DEF ConfirmDone
  <2> HIDE DEF w
  <2> QED
    BY <2>1, <2>2, QueueingKeepsLast
<1>9. ASSUME UNCHANGED <<server, outbox, took, said>> PROVE LastInv'
  BY <1>9, SameQueuesKeepLast DEF server
<1>10. \A a : Receive(a) \/ Dismiss(a) => UNCHANGED <<server, outbox, took, said>>
  BY DEF Receive, Dismiss
<1>11. \A a, o, kind : OpenDialog(a, o, kind) => UNCHANGED <<server, outbox, took, said>>
  BY DEF OpenDialog
<1>12. UNCHANGED vars => UNCHANGED <<server, outbox, took, said>>
  BY DEF vars
<1> QED
  BY <1>1, <1>2, <1>3, <1>4, <1>5, <1>6, <1>7, <1>8, <1>9, <1>10, <1>11, <1>12
     DEF Next, Devices

\* Whatever administrators queue at the same time and however often it is sent:
\* once all queues are empty, an order whose total was changed and the copy of
\* it have totals that were last confirmed, unless the server refused an update
\* of the copy or the customer's own writes came twice.
THEOREM LastTotalsWin == Spec => []LastTotalsCount
<1>1. LifeInv /\ LastInv => LastTotalsCount
  <2> SUFFICES ASSUME LastInv, Quiet, NEW s \in said, s.order \in DOMAIN orders
               PROVE  LET o == s.order
                      IN  /\ Renewed(o) \/ orders[o].total \in LastTotals(o)
                          /\ o \in refused \/ Rewritten(o) \/ CopyIsLast(o)
    BY DEF LastTotalsCount, CopyIsLast, Copy
  <2> DEFINE o == s.order
  <2>1. Spoken(o)
    BY DEF Spoken
  <2>2. \A op : ~ Waiting(o, op)
    BY DEF Quiet, Waiting, Devices
  <2> HIDE DEF o
  <2> QED
    BY <2>1, <2>2 DEF o, LastInv, OrdersAreLast, CopiesAreLast
<1>2. Spec => []LifeInv
  BY LifeInvHolds
<1>3. Init => CopyInv /\ LastInv
  BY InitCopies, InitLast
<1>4. LifeInv /\ CopyInv /\ LastInv /\ [Next]_vars => CopyInv' /\ LastInv'
  BY NextCopies, NextLast
<1> QED
  BY <1>1, <1>2, <1>3, <1>4, PTL DEF Spec
=============================================================================
