--------------------------- MODULE RemoteStoreProofs ---------------------------
(***************************************************************************)
(* Proofs about RemoteStore for any number of writes and faults and any    *)
(* size of the pipeline: its types, the order of its queue, the agreement  *)
(* of pipeline, stream and server, and that it implements Outbox.          *)
(***************************************************************************)
EXTENDS RemoteStore, SequenceTheorems, TLAPS

\* Batches of d in the order of their ids.
Ascending(d) == \A j, k \in 1 .. Len(d) : j < k => d[j].id < d[k].id

\* p is the beginning of d.
Begins(p, d) == Len(p) <= Len(d) /\ \A k \in 1 .. Len(p) : p[k] = d[k]

\* q is p with as much of d behind it as there is room for.
Grown(q, p, d) ==
    /\ q \in Seq(Batch) /\ Begins(q, d)
    /\ Len(p) <= Len(q) /\ Len(q) <= MaxPending
    /\ Len(q) < MaxPending => Len(q) = Len(d)

-----------------------------------------------------------------------------
\* Sequences that agree everywhere are the same.
LEMMA SameSequence ==
    ASSUME NEW S, NEW s \in Seq(S), NEW t \in Seq(S), Len(s) = Len(t),
           \A k \in 1 .. Len(s) : s[k] = t[k]
    PROVE  s = t
  BY SeqEqual

LEMMA BatchesOf ==
    ASSUME NEW d \in Seq(Batch)
    PROVE  \A k \in 1 .. Len(d) :
               d[k] \in Batch /\ d[k].id \in Nat \ {0} /\ d[k].write \in Writes
<1>1. \A k \in 1 .. Len(d) : d[k] \in Batch
  BY ElementOfSeq
<1>2. \A b \in Batch : b.id \in Nat \ {0} /\ b.write \in Writes
  BY DEF Batch
<1> QED
  BY <1>1, <1>2

LEMMA HelloIsNoWrite == Hello \notin Writes
  BY NumWritesAssumption DEF Hello, Writes

\* The place behind the m-th batch of an ascending queue.
LEMMA AfterPlace ==
    ASSUME NEW d \in Seq(Batch), Ascending(d), NEW m \in 0 .. Len(d), NEW id \in Nat,
           id = IF m = 0 THEN 0 ELSE d[m].id
    PROVE  After(d, id) = m + 1
<1> DEFINE P(k) == /\ \A j \in 1 .. k - 1 : d[j].id <= id
                   /\ k <= Len(d) => d[k].id > id
<1>1. \A k \in 1 .. Len(d) : d[k].id \in Nat \ {0}
  BY BatchesOf
<1>2. m + 1 \in 1 .. Len(d) + 1 /\ P(m + 1)
  BY <1>1 DEF Ascending
<1>3. ASSUME NEW k \in 1 .. Len(d) + 1, P(k) PROVE k = m + 1
  <2>1. CASE k <= m
    <3>1. d[k].id > id /\ m \in 1 .. Len(d) /\ k \in 1 .. Len(d) /\ id = d[m].id
      BY <1>3, <2>1
    <3>2. k = m \/ d[k].id < d[m].id
      BY <2>1, <3>1 DEF Ascending
    <3> QED
      BY <1>1, <3>1, <3>2
  <2>2. CASE k > m + 1
    <3>1. m + 1 \in 1 .. k - 1 /\ m + 1 \in 1 .. Len(d)
      BY <2>2
    <3>2. d[m + 1].id <= id
      BY <1>3, <3>1
    <3>3. d[m + 1].id > id
      BY <1>2, <3>1
    <3> QED
      BY <1>1, <3>1, <3>2, <3>3
  <2> QED
    BY <2>1, <2>2
<1> HIDE DEF P
<1>4. (CHOOSE k \in 1 .. Len(d) + 1 : P(k)) = m + 1
  BY <1>2, <1>3
<1> QED
  BY <1>4 DEF After, P

\* Filling keeps the pipeline the beginning of the queue and leaves no room that
\* a batch could have.
LEMMA FilledGrows ==
    ASSUME NEW d \in Seq(Batch), Ascending(d), NEW p \in Seq(Batch), Begins(p, d),
           Len(p) <= MaxPending
    PROVE  Grown(Filled(p, d), p, d)
<1> USE MaxPendingAssumption
<1> DEFINE id   == IF p = << >> THEN 0 ELSE p[Len(p)].id
           m    == Len(p)
           last == m + 1 - 1 + MaxPending - m
           n    == IF last <= Len(d) THEN last ELSE Len(d)
           s    == SubSeq(d, m + 1, n)
<1>1. m \in 0 .. Len(d) /\ n \in Nat /\ n <= Len(d) /\ m <= n /\ n <= MaxPending
  BY DEF Begins
<1>2. id \in Nat /\ id = IF m = 0 THEN 0 ELSE d[m].id
  <2>1. CASE p = << >>
    BY <2>1
  <2>2. CASE p # << >>
    <3>1. m \in 1 .. Len(p)
      BY <2>2, EmptySeq
    <3>2. p[m] = d[m] /\ p[m].id \in Nat
      BY <3>1, BatchesOf DEF Begins
    <3> QED
      BY <2>2, <3>1, <3>2
  <2> QED
    BY <2>1, <2>2
<1> HIDE DEF id
<1>3. After(d, id) = m + 1
  BY <1>1, <1>2, AfterPlace
<1>4. Filled(p, d) = p \o s
  <2> DEFINE to(k) == k - 1 + MaxPending - m
  <2>1. Filled(p, d) =
           p \o SubSeq(d, After(d, id),
                       IF to(After(d, id)) <= Len(d) THEN to(After(d, id)) ELSE Len(d))
    BY Zenon DEF Filled, id
  <2>2. to(m + 1) = last
    OBVIOUS
  <2> HIDE DEF to, last
  <2> QED
    BY <1>3, <2>1, <2>2
<1>5. \A i \in m + 1 .. n : d[i] \in Batch
  BY <1>1, ElementOfSeq
<1>6. /\ s \in Seq(Batch) /\ Len(s) = n - m
      /\ \A i \in 1 .. n - m : s[i] = d[m + i]
  BY <1>1, <1>5, SubSeqProperties
<1> HIDE DEF s, n
<1>7. /\ p \o s \in Seq(Batch) /\ Len(p \o s) = n
      /\ \A i \in 1 .. n : (p \o s)[i] = IF i <= m THEN p[i] ELSE s[i - m]
  BY <1>1, <1>6, ConcatProperties
<1>8. \A i \in 1 .. n : (p \o s)[i] = d[i]
  BY <1>1, <1>6, <1>7 DEF Begins
<1>9. n < MaxPending => n = Len(d)
  BY <1>1 DEF n
<1> QED
  BY <1>1, <1>4, <1>7, <1>8, <1>9 DEF Grown, Begins

\* Removing the first element, and the first batch by its id, leaves the rest.
LEMMA RemoveFirstPlace ==
    ASSUME NEW s \in Seq(Batch), s # << >>
    PROVE  RemoveAt(s, 1) = Tail(s)
<1>1. SubSeq(s, 1, 0) = << >>
  BY SubSeqEmpty
<1>2. SubSeq(s, 2, Len(s)) = Tail(s) /\ Tail(s) \in Seq(Batch)
  BY TailIsSubSeq, HeadTailProperties
<1> QED
  BY <1>1, <1>2, ConcatEmptySeq DEF RemoveAt

LEMMA WithoutFirst ==
    ASSUME NEW d \in Seq(Batch), Ascending(d), d # << >>
    PROVE  Without(d, d[1].id) = Tail(d)
<1>1. \A k \in 1 .. Len(d) : d[k].id \in Nat \ {0}
  BY BatchesOf
<1>2. 1 \in 1 .. Len(d) /\ DOMAIN d = 1 .. Len(d)
  BY EmptySeq
<1>3. \A k \in DOMAIN d : d[k].id = d[1].id => k = 1
  BY <1>1, <1>2 DEF Ascending
<1>4. (CHOOSE k \in DOMAIN d : d[k].id = d[1].id) = 1
  BY <1>2, <1>3
<1> QED
  BY <1>4, RemoveFirstPlace DEF Without

LEMMA WritesOfSeq ==
    ASSUME NEW p \in Seq(Batch)
    PROVE  /\ WritesOf(p) \in Seq(Writes) /\ Len(WritesOf(p)) = Len(p)
           /\ \A k \in 1 .. Len(p) : WritesOf(p)[k] = p[k].write
<1>1. \A k \in 1 .. Len(p) : p[k].write \in Writes
  BY BatchesOf
<1>2. WritesOf(p) = [k \in 1 .. Len(p) |-> p[k].write] /\ Len(p) \in Nat
  BY DEF WritesOf
<1> QED
  BY <1>1, <1>2, IsASeq

\* u is w followed by the writes of q behind its m-th batch.
Sends(u, w, q, m) ==
    /\ u \in Seq(Writes \cup {Hello}) /\ Len(u) = Len(w) + Len(q) - m
    /\ \A j \in 1 .. Len(w) : u[j] = w[j]
    /\ \A j \in 1 .. Len(q) - m : u[Len(w) + j] = q[m + j].write

LEMMA Sending ==
    ASSUME NEW w \in Seq(Writes \cup {Hello}), NEW q \in Seq(Batch), NEW m \in 0 .. Len(q)
    PROVE  /\ SubSeq(q, m + 1, Len(q)) = << >> => Len(q) = m
           /\ Sends(w \o WritesOf(SubSeq(q, m + 1, Len(q))), w, q, m)
<1> DEFINE t == SubSeq(q, m + 1, Len(q))
           x == WritesOf(t)
<1>1. Len(q) \in Nat /\ \A i \in m + 1 .. Len(q) : q[i] \in Batch
  BY BatchesOf
<1>2. t \in Seq(Batch) /\ Len(t) = Len(q) - m /\ \A i \in 1 .. Len(q) - m : t[i] = q[m + i]
  BY <1>1, SubSeqProperties
<1> HIDE DEF t
<1>3. x \in Seq(Writes) /\ Len(x) = Len(q) - m
  BY <1>2, WritesOfSeq
<1>4. \A i \in 1 .. Len(q) - m : x[i] = q[m + i].write
  BY <1>2, WritesOfSeq
<1>5. x \in Seq(Writes \cup {Hello})
  BY <1>3, SeqMonotonic
<1> HIDE DEF x
<1>6. /\ w \o x \in Seq(Writes \cup {Hello}) /\ Len(w \o x) = Len(w) + Len(x)
      /\ \A i \in 1 .. Len(w) + Len(x) : (w \o x)[i] = IF i <= Len(w) THEN w[i] ELSE x[i - Len(w)]
  BY <1>5, ConcatProperties
<1>7. Len(w) \in Nat /\ Len(q) - m \in Nat
  BY <1>1
<1>8. \A j \in 1 .. Len(w) : (w \o x)[j] = w[j]
  BY <1>3, <1>6, <1>7
<1>9. \A j \in 1 .. Len(q) - m : (w \o x)[Len(w) + j] = q[m + j].write
  <2> SUFFICES ASSUME NEW j \in 1 .. Len(q) - m
               PROVE  (w \o x)[Len(w) + j] = q[m + j].write
    OBVIOUS
  <2>1. /\ Len(w) + j \in 1 .. Len(w) + Len(x)
        /\ ~ (Len(w) + j <= Len(w)) /\ Len(w) + j - Len(w) = j
    BY <1>3, <1>7
  <2>2. (w \o x)[Len(w) + j] = x[j]
    BY <1>6, <2>1
  <2> QED
    BY <1>4, <2>2
<1>10. t = << >> => Len(q) = m
  BY <1>1, <1>2
<1> QED
  BY <1>3, <1>6, <1>7, <1>8, <1>9, <1>10 DEF Sends, t, x

-----------------------------------------------------------------------------
\* Writes that have left the worker queue, or were lost on it.
Behind == issued - Len(calls)

Decided == applied \cup refused

\* The worker queue holds the latest writes, one after the other.
CallsInOrder ==
    /\ Len(calls) <= issued
    /\ \A k \in 1 .. Len(calls) : calls[k] = Behind + k
    /\ lost \subseteq 1 .. Behind

\* The queue in LevelDB holds earlier writes, and whatever it no longer holds
\* has been decided or lost.
Queue ==
    /\ \A k \in 1 .. Len(db) : db[k].write \in 1 .. Behind /\ db[k].write \notin lost
    /\ \A w \in 1 .. Behind :
          w \in lost \/ w \in Decided \/ \E k \in 1 .. Len(db) : db[k].write = w
    /\ \A w \in Writes : verdict[w] = "ok" => w \in applied

InLine ==
    /\ Begins(pipeline, db) /\ Len(pipeline) <= MaxPending
    /\ up /\ Len(pipeline) < MaxPending => Len(pipeline) = Len(db)
    /\ ~ up => calls = << >> /\ pipeline = << >> /\ stream = "initial" /\ fresh = 0

Control ==
    /\ idle => stream = "open" /\ handshake /\ pipeline = << >>
    /\ handshake => stream = "open"
    /\ fresh = (IF stream = "starting" THEN 1 ELSE 0)
    /\ stream = "error" => pipeline = << >>
    /\ stream # "open" => wire = << >> /\ answers = << >> /\ closing = "none"

Handshaking ==
    stream = "open" /\ ~ handshake =>
        /\ answers # << >> => answers = <<Hello>> /\ wire = << >>
        /\ closing = "none" /\ answers = << >> => wire = <<Hello>>
        /\ closing = "permanent" => answers = << >>

\* The batches of the pipeline that are not on the wire any more.
Sent == Len(pipeline) - Len(wire)

\* They are decided; answers are about the first of them, in order; on a stream
\* that holds all of them are answered; and on one that ended with a permanent
\* error there is one more, the one refused.
Exchange ==
    stream = "open" /\ handshake =>
        /\ Len(answers) <= Sent
        /\ \A k \in 1 .. Len(answers) : answers[k] = pipeline[k].write /\ answers[k] \in applied
        /\ \A k \in 1 .. Sent : pipeline[k].write \in Decided
        /\ \A j \in 1 .. Len(wire) : wire[j] = pipeline[Sent + j].write
        /\ closing = "none" => Sent = Len(answers)
        /\ closing = "permanent" => Sent > Len(answers)

\* Requests among which each comes behind whatever was stored before it.
InOrder(requests) ==
    \A k \in 1 .. Len(requests) :
        /\ requests[k] \in 1 .. Behind /\ requests[k] \notin lost
        /\ \A v \in 1 .. Behind : v < requests[k] =>
              v \in lost \/ v \in Decided \/ \E j \in 1 .. k - 1 : requests[j] = v

LateInOrder == \A requests \in late : InOrder(requests)

IInv ==
    /\ TypeOK /\ BatchesAscend /\ CallsInOrder /\ Queue /\ InLine
    /\ Control /\ Handshaking /\ Exchange /\ LateInOrder

-----------------------------------------------------------------------------
LEMMA Shapes ==
    ASSUME IInv
    PROVE  /\ db \in Seq(Batch) /\ pipeline \in Seq(Batch) /\ calls \in Seq(Writes)
           /\ wire \in Seq(Writes \cup {Hello}) /\ answers \in Seq(Writes \cup {Hello})
           /\ Ascending(db) /\ Begins(pipeline, db)
           /\ Len(pipeline) \in 0 .. MaxPending /\ Len(pipeline) <= Len(db)
           /\ Len(calls) \in Nat /\ issued \in Nat /\ Behind \in Nat
           /\ issued = Behind + Len(calls) /\ issued <= NumWrites /\ Behind <= NumWrites
           /\ DOMAIN db = 1 .. Len(db) /\ Len(db) \in Nat
           /\ Len(wire) \in Nat /\ Len(answers) \in Nat
<1>1. TypeOK /\ BatchesAscend /\ InLine /\ CallsInOrder
  BY DEF IInv
<1>2. /\ db \in Seq(Batch) /\ pipeline \in Seq(Batch) /\ calls \in Seq(Writes)
      /\ wire \in Seq(Writes \cup {Hello}) /\ answers \in Seq(Writes \cup {Hello})
      /\ issued \in Nat /\ issued <= NumWrites
  BY <1>1, NumWritesAssumption DEF TypeOK
<1>3. Ascending(db)
  <2>1. DOMAIN db = 1 .. Len(db)
    BY <1>2
  <2> QED
    BY <1>1, <2>1 DEF BatchesAscend, Ascending
<1>4. Begins(pipeline, db) /\ Len(pipeline) <= MaxPending /\ Len(calls) <= issued
  BY <1>1 DEF InLine, CallsInOrder
<1>5. Len(pipeline) <= Len(db)
  BY <1>4 DEF Begins
<1>6. DOMAIN db = 1 .. Len(db) /\ Len(db) \in Nat /\ Len(wire) \in Nat /\ Len(answers) \in Nat
  BY <1>2
<1>7. Len(calls) \in Nat /\ Len(pipeline) \in Nat
  BY <1>2
<1> QED
  BY <1>2, <1>3, <1>4, <1>5, <1>6, <1>7, NumWritesAssumption, MaxPendingAssumption DEF Behind

\* What storing a write does to the queue, the pipeline and the wire.
LEMMA StoringEffect ==
    ASSUME IInv, WriteLocally
    PROVE  /\ calls # << >> /\ calls' \in Seq(Writes) /\ Len(calls') = Len(calls) - 1
           /\ \A k \in 1 .. Len(calls') : calls'[k] = calls[k + 1]
           /\ issued' = issued /\ Behind' = Behind + 1 /\ Behind + 1 \in Writes
           /\ db' = Append(db, [id |-> nextId, write |-> Behind + 1])
           /\ db' \in Seq(Batch) /\ Len(db') = Len(db) + 1
           /\ \A k \in 1 .. Len(db) : db'[k] = db[k]
           /\ db'[Len(db) + 1].id = nextId /\ db'[Len(db) + 1].write = Behind + 1
           /\ Ascending(db')
           /\ Grown(pipeline', pipeline, db')
           /\ \A k \in 1 .. Len(pipeline) : pipeline'[k] = pipeline[k]
           /\ IF stream = "open" /\ handshake
              THEN Sends(wire', wire, pipeline', Len(pipeline))
              ELSE wire' = wire
<1> DEFINE w == Head(calls)
           b == [id |-> nextId, write |-> w]
<1>1. /\ up /\ calls # << >> /\ calls' = Tail(calls) /\ issued' = issued
      /\ db' = Append(db, b) /\ pipeline' = Filled(pipeline, db')
  BY DEF WriteLocally, StoreAndSend
<1>2. /\ db \in Seq(Batch) /\ pipeline \in Seq(Batch) /\ calls \in Seq(Writes)
      /\ wire \in Seq(Writes \cup {Hello})
      /\ Ascending(db) /\ Begins(pipeline, db) /\ Len(pipeline) <= MaxPending
      /\ Len(pipeline) <= Len(db) /\ Len(calls) \in Nat /\ issued \in Nat
      /\ Behind \in Nat /\ issued = Behind + Len(calls) /\ issued <= NumWrites
  BY Shapes
<1>3. /\ calls' \in Seq(Writes) /\ Len(calls') = Len(calls) - 1
      /\ \A k \in 1 .. Len(calls') : calls'[k] = calls[k + 1]
      /\ w \in Writes
  BY <1>1, <1>2, HeadTailProperties
<1>4. w = calls[1] /\ 1 \in 1 .. Len(calls)
  BY <1>1, <1>2, EmptySeq
<1>5. w = Behind + 1
  BY <1>4 DEF IInv, CallsInOrder
<1>6. Behind' = Behind + 1
  BY <1>1, <1>2, <1>3 DEF Behind
<1>7. nextId \in Nat \ {0} /\ \A k \in 1 .. Len(db) : db[k].id < nextId
  BY <1>1, <1>2 DEF IInv, TypeOK, BatchesAscend
<1>8. b \in Batch
  BY <1>3, <1>7 DEF Batch
<1>9. /\ db' \in Seq(Batch) /\ Len(db') = Len(db) + 1
      /\ \A k \in 1 .. Len(db) : db'[k] = db[k]
      /\ db'[Len(db) + 1] = b
  BY <1>1, <1>2, <1>8, AppendProperties
<1>10. db'[Len(db) + 1].id = nextId /\ db'[Len(db) + 1].write = Behind + 1
  BY <1>5, <1>9
<1>11. \A k \in 1 .. Len(db) : db[k].id \in Nat
  BY <1>2, BatchesOf
<1>12. Ascending(db')
  <2> SUFFICES ASSUME NEW j \in 1 .. Len(db'), NEW k \in 1 .. Len(db'), j < k
               PROVE  db'[j].id < db'[k].id
    BY DEF Ascending
  <2>1. Len(db) \in Nat /\ j \in 1 .. Len(db)
    BY <1>2, <1>9
  <2>2. CASE k \in 1 .. Len(db)
    BY <1>2, <1>9, <2>1, <2>2 DEF Ascending
  <2>3. CASE k = Len(db) + 1
    BY <1>7, <1>9, <1>10, <2>1, <2>3
  <2> QED
    BY <1>9, <2>1, <2>2, <2>3
<1>13. Begins(pipeline, db')
  BY <1>2, <1>9 DEF Begins
<1>14. Grown(pipeline', pipeline, db')
  BY <1>1, <1>2, <1>9, <1>12, <1>13, FilledGrows
<1>15. \A k \in 1 .. Len(pipeline) : pipeline'[k] = pipeline[k]
  BY <1>2, <1>13, <1>14 DEF Grown, Begins
<1>16. pipeline' \in Seq(Batch) /\ Len(pipeline) \in 0 .. Len(pipeline')
  BY <1>2, <1>14 DEF Grown
<1>17. IF stream = "open" /\ handshake
       THEN Sends(wire', wire, pipeline', Len(pipeline))
       ELSE wire' = wire
  <2> DEFINE added == SubSeq(pipeline', Len(pipeline) + 1, Len(pipeline'))
  <2>1. CASE stream = "open" /\ handshake /\ added # << >>
    <3>1. wire' = wire \o WritesOf(added)
      BY <2>1 DEF WriteLocally, StoreAndSend
    <3> QED
      BY <1>2, <1>16, <2>1, <3>1, Sending
  <2>2. CASE stream = "open" /\ handshake /\ added = << >>
    <3>1. wire' = wire
      BY <2>2 DEF WriteLocally, StoreAndSend
    <3>2. Len(pipeline') = Len(pipeline)
      BY <1>16, <2>2, Sending, <1>2
    <3> QED
      BY <1>2, <2>2, <3>1, <3>2 DEF Sends
  <2>3. CASE ~ (stream = "open" /\ handshake)
    BY <2>3 DEF WriteLocally, StoreAndSend
  <2> QED
    BY <2>1, <2>2, <2>3
<1> QED
  BY <1>1, <1>2, <1>3, <1>5, <1>6, <1>9, <1>10, <1>12, <1>14, <1>15, <1>17

\* What taking the first batch off does, if the pipeline is not empty.
LEMMA DroppingEffect ==
    ASSUME IInv, pipeline # << >>
    PROVE  LET b == Head(pipeline)
               d == Without(db, b.id)
               q == Filled(Tail(pipeline), d)
           IN  /\ b = pipeline[1] /\ b = db[1] /\ b.write \in Writes
               /\ d = Tail(db) /\ d \in Seq(Batch) /\ Len(d) = Len(db) - 1 /\ Len(db) > 0
               /\ \A k \in 1 .. Len(d) : d[k] = db[k + 1]
               /\ Ascending(d)
               /\ Tail(pipeline) \in Seq(Batch) /\ Len(Tail(pipeline)) = Len(pipeline) - 1
               /\ Grown(q, Tail(pipeline), d)
               /\ \A k \in 1 .. Len(pipeline) - 1 : q[k] = pipeline[k + 1]
<1> DEFINE b == Head(pipeline)
           d == Without(db, b.id)
           rest == Tail(pipeline)
           q == Filled(rest, d)
<1>1. /\ db \in Seq(Batch) /\ pipeline \in Seq(Batch)
      /\ Ascending(db) /\ Begins(pipeline, db) /\ Len(pipeline) <= MaxPending
      /\ Len(pipeline) \in Nat /\ Len(db) \in Nat /\ Len(pipeline) <= Len(db)
  BY Shapes
<1>2. 1 \in 1 .. Len(pipeline) /\ Len(db) > 0 /\ db # << >>
  BY <1>1, EmptySeq
<1>3. b = pipeline[1] /\ b = db[1]
  BY <1>1, <1>2 DEF Begins
<1>4. b.write \in Writes
  BY <1>1, <1>2, <1>3, BatchesOf
<1>5. d = Tail(db)
  BY <1>1, <1>2, <1>3, WithoutFirst
<1>6. d \in Seq(Batch) /\ Len(d) = Len(db) - 1 /\ \A k \in 1 .. Len(d) : d[k] = db[k + 1]
  BY <1>1, <1>2, <1>5, HeadTailProperties
<1>7. /\ rest \in Seq(Batch) /\ Len(rest) = Len(pipeline) - 1
      /\ \A k \in 1 .. Len(rest) : rest[k] = pipeline[k + 1]
  BY <1>1, HeadTailProperties
<1> HIDE DEF b, d, rest
<1>8. Ascending(d)
  <2> SUFFICES ASSUME NEW j \in 1 .. Len(d), NEW k \in 1 .. Len(d), j < k
               PROVE  d[j].id < d[k].id
    BY DEF Ascending
  <2>1. j + 1 \in 1 .. Len(db) /\ k + 1 \in 1 .. Len(db) /\ j + 1 < k + 1
    BY <1>1, <1>6
  <2>2. db[j + 1].id < db[k + 1].id
    BY <1>1, <2>1 DEF Ascending
  <2> QED
    BY <1>6, <2>2
<1>9. Begins(rest, d) /\ Len(rest) <= MaxPending
  BY <1>1, <1>6, <1>7, MaxPendingAssumption DEF Begins
<1>10. Grown(q, rest, d)
  BY <1>6, <1>7, <1>8, <1>9, FilledGrows
<1>11. \A k \in 1 .. Len(pipeline) - 1 : q[k] = pipeline[k + 1]
  BY <1>1, <1>6, <1>7, <1>9, <1>10 DEF Grown, Begins
<1> QED
  BY <1>2, <1>3, <1>4, <1>5, <1>6, <1>7, <1>8, <1>10, <1>11 DEF b, d, rest

\* An answer that is read finds the batch it is about.
LEMMA AnswerFindsBatch ==
    ASSUME IInv, MutationResult
    PROVE  /\ stream = "open" /\ handshake /\ Sent > 0 /\ pipeline # << >>
           /\ Len(answers) > 0 /\ answers[1] = pipeline[1].write /\ answers[1] \in applied
<1>1. answers # << >> /\ handshake
  BY DEF MutationResult
<1>2. answers \in Seq(Writes \cup {Hello}) /\ Len(pipeline) \in Nat
  BY Shapes
<1>3. 1 \in 1 .. Len(answers) /\ Len(answers) > 0
  BY <1>1, <1>2, EmptySeq
<1>4. stream = "open"
  BY <1>1 DEF IInv, Control
<1>5. /\ Len(answers) <= Sent
      /\ answers[1] = pipeline[1].write /\ answers[1] \in applied
  BY <1>1, <1>3, <1>4 DEF IInv, Exchange
<1>6. Len(wire) \in Nat
  BY Shapes
<1>7. pipeline # << >>
  BY <1>2, <1>3, <1>5, <1>6 DEF Sent
<1> QED
  BY <1>1, <1>2, <1>3, <1>4, <1>5, <1>6, <1>7 DEF Sent

\* The batch dropped for a permanent error has been decided, as another stream's
\* refusal or as an answer that was never read.
LEMMA DroppedIsDecided ==
    ASSUME IInv, CloseAndReject
    PROVE  stream = "open" /\ pipeline[1].write \in Decided
<1>1. closing = "permanent" /\ handshake /\ pipeline # << >>
  BY DEF CloseAndReject, Reject
<1>2. stream = "open"
  BY <1>1 DEF IInv, Control
<1>3. Sent > Len(answers) /\ \A k \in 1 .. Sent : pipeline[k].write \in Decided
  BY <1>1, <1>2 DEF IInv, Exchange
<1>4. Len(answers) \in Nat /\ Len(pipeline) \in Nat /\ Len(wire) \in Nat
  BY Shapes
<1>5. 1 \in 1 .. Sent
  BY <1>3, <1>4 DEF Sent
<1> QED
  BY <1>2, <1>3, <1>5

\* What is on the wire comes in order behind what has been decided.
LEMMA WireInOrder ==
    ASSUME IInv, stream = "open", handshake
    PROVE  wire \in Seq(Writes) /\ InOrder(wire)
<1>1. /\ db \in Seq(Batch) /\ pipeline \in Seq(Batch) /\ wire \in Seq(Writes \cup {Hello})
      /\ Ascending(db) /\ Begins(pipeline, db) /\ Len(pipeline) <= Len(db)
      /\ Len(pipeline) \in Nat /\ Len(wire) \in Nat /\ Len(db) \in Nat /\ Behind \in Nat
      /\ DOMAIN db = 1 .. Len(db) /\ Behind <= NumWrites
  BY Shapes
<1>2. Len(answers) <= Sent /\ Len(answers) \in Nat /\ Sent \in Nat
  BY <1>1, Shapes DEF IInv, Exchange, Sent
<1>3. \A j \in 1 .. Len(wire) :
         /\ Sent + j \in 1 .. Len(pipeline) /\ Sent + j \in 1 .. Len(db)
         /\ wire[j] = db[Sent + j].write
  <2> SUFFICES ASSUME NEW j \in 1 .. Len(wire)
               PROVE  /\ Sent + j \in 1 .. Len(pipeline) /\ Sent + j \in 1 .. Len(db)
                      /\ wire[j] = db[Sent + j].write
    OBVIOUS
  <2>1. Sent + j \in 1 .. Len(pipeline) /\ Sent + j \in 1 .. Len(db)
    BY <1>1, <1>2 DEF Sent
  <2>2. wire[j] = pipeline[Sent + j].write
    BY DEF IInv, Exchange
  <2> QED
    BY <1>1, <2>1, <2>2 DEF Begins
<1>4. \A k \in 1 .. Len(db) : db[k].write \in 1 .. Behind /\ db[k].write \notin lost
  BY DEF IInv, Queue
<1>5. \A k \in 1 .. Sent : k \in 1 .. Len(pipeline) /\ db[k].write \in Decided
  <2> SUFFICES ASSUME NEW k \in 1 .. Sent
               PROVE  k \in 1 .. Len(pipeline) /\ db[k].write \in Decided
    OBVIOUS
  <2>1. k \in 1 .. Len(pipeline)
    BY <1>1, <1>2 DEF Sent
  <2>2. pipeline[k].write \in Decided
    BY DEF IInv, Exchange
  <2>3. pipeline[k] = db[k]
    BY <1>1, <2>1 DEF Begins
  <2> QED
    BY <2>1, <2>2, <2>3
<1>6. wire \in Seq(Writes)
  <2>1. \A j \in 1 .. Len(wire) : wire[j] \in Writes
    <3> SUFFICES ASSUME NEW j \in 1 .. Len(wire) PROVE wire[j] \in Writes
      OBVIOUS
    <3>1. wire[j] \in 1 .. Behind
      BY <1>3, <1>4
    <3> QED
      BY <1>1, <3>1, NumWritesAssumption DEF Writes
  <2> QED
    BY <1>1, <2>1
<1>7. ASSUME NEW k \in 1 .. Len(wire), NEW v \in 1 .. Behind, v < wire[k], v \notin lost,
             v \notin Decided
      PROVE  \E j \in 1 .. k - 1 : wire[j] = v
  <2>1. PICK i \in 1 .. Len(db) : db[i].write = v
    BY <1>7 DEF IInv, Queue
  <2>2. i < Sent + k
    <3> SUFFICES ASSUME i >= Sent + k PROVE FALSE
      BY <1>1, <1>2
    <3>1. db[Sent + k].write <= db[i].write
      <4>1. CASE i = Sent + k
        BY <1>3, <1>4, <4>1
      <4>2. CASE Sent + k < i
        <5>1. Sent + k \in DOMAIN db /\ i \in DOMAIN db
          BY <1>1, <1>3
        <5>2. db[Sent + k].write < db[i].write
          BY <4>2, <5>1 DEF IInv, BatchesAscend
        <5> QED
          BY <1>3, <1>4, <5>2
      <4> QED
        BY <1>1, <1>2, <4>1, <4>2
    <3> QED
      BY <1>3, <1>4, <1>7, <2>1, <3>1
  <2>3. i > Sent
    BY <1>2, <1>5, <1>7, <2>1
  <2>4. i - Sent \in 1 .. k - 1 /\ i - Sent \in 1 .. Len(wire) /\ Sent + (i - Sent) = i
    BY <1>1, <1>2, <2>2, <2>3
  <2>5. wire[i - Sent] = v
    BY <1>3, <2>1, <2>4
  <2> QED
    BY <2>4, <2>5
<1> QED
  BY <1>3, <1>4, <1>6, <1>7 DEF InOrder

\* What giving a stream up leaves.
LEMMA GivingUp ==
    ASSUME IInv, GiveUpStream
    PROVE  /\ wire' = << >> /\ answers' = << >> /\ closing' = "none"
           /\ \A r \in late' : r \in Seq(Writes) /\ r # << >> /\ InOrder(r)
<1>1. wire' = << >> /\ answers' = << >> /\ closing' = "none"
  BY DEF GiveUpStream
<1>2. \A r \in late : r \in Seq(Writes) /\ r # << >> /\ InOrder(r)
  BY DEF IInv, TypeOK, LateInOrder
<1>3. CASE late' = late
  BY <1>1, <1>2, <1>3
<1>4. CASE handshake /\ wire # << >> /\ late' = late \cup {wire}
  <2>1. stream = "open"
    BY <1>4 DEF IInv, Control
  <2>2. wire \in Seq(Writes) /\ InOrder(wire)
    BY <1>4, <2>1, WireInOrder
  <2> QED
    BY <1>1, <1>2, <1>4, <2>2
<1> QED
  BY <1>3, <1>4 DEF GiveUpStream

-----------------------------------------------------------------------------
\* The steps that concern neither the writes of the device nor its queues.
Aside ==
    /\ UNCHANGED <<up, issued, calls, db, nextId, pipeline, lost, verdict>>
    /\ applied \subseteq applied' /\ refused \subseteq refused'
    /\ up \/ UNCHANGED <<stream, fresh>>

LEMMA Steps ==
    ASSUME IInv, [Next]_vars
    PROVE  \/ WriteMutations \/ WriteLocally \/ MutationResult \/ CloseAndReject
           \/ RestartNetwork \/ Kill \/ Start \/ Aside
<1>1. stream = "open" \/ fresh > 0 \/ stream = "backoff" => up
  BY DEF IInv, InLine
<1>2. /\ answers # << >> => stream = "open"
      /\ idle => stream = "open"
  BY DEF IInv, Control
<1>3. CredentialsArrive \/ CredentialsFail => Aside
  BY <1>1 DEF CredentialsArrive, CredentialsFail, Fault, Aside, server
<1>4. StaleCredentialsArrive \/ BackoffElapsed => Aside
  BY <1>1 DEF StaleCredentialsArrive, BackoffElapsed, Aside, server
<1>5. HandshakeComplete => Aside
  BY <1>1, <1>2 DEF HandshakeComplete, Aside, server
<1>6. IdleTimeout \/ CloseAndRetry => Aside
  BY <1>1, <1>2 DEF IdleTimeout, CloseAndRetry, StreamEnds, Aside, server
<1>7. ServerAccepts => Aside
  BY DEF ServerAccepts, Aside, memory
<1>8. ServerRefuses => Aside
  BY DEF ServerRefuses, Aside, memory
<1>9. StreamBreaks => Aside
  BY DEF StreamBreaks, Aside, memory, server
<1>10. \A r : LateRequest(r) => Aside
  BY DEF LateRequest, Aside, memory
<1>11. UNCHANGED vars => Aside
  BY DEF vars, Aside, memory, server
<1> QED
  BY <1>3, <1>4, <1>5, <1>6, <1>7, <1>8, <1>9, <1>10, <1>11 DEF Next

-----------------------------------------------------------------------------
\* The parts of the invariant that are about the device's own queues.
QueueInv == BatchesAscend /\ CallsInOrder /\ Queue /\ InLine

LEMMA WriteMutationsQueue ==
    ASSUME IInv, WriteMutations
    PROVE  QueueInv'
<1>1. /\ calls' = Append(calls, issued + 1) /\ issued' = issued + 1 /\ up /\ up' = up
      /\ UNCHANGED <<db, nextId, pipeline, stream, fresh, lost, applied, refused, verdict>>
      /\ issued < NumWrites
  BY DEF WriteMutations, server
<1>2. /\ calls \in Seq(Writes) /\ issued \in Nat /\ Len(calls) \in Nat
      /\ Behind \in Nat /\ issued = Behind + Len(calls)
  BY Shapes
<1>3. issued + 1 \in Writes
  BY <1>1, <1>2, NumWritesAssumption DEF Writes
<1>4. /\ Len(calls') = Len(calls) + 1 /\ calls'[Len(calls) + 1] = issued + 1
      /\ \A k \in 1 .. Len(calls) : calls'[k] = calls[k]
  BY <1>1, <1>2, <1>3, AppendProperties
<1>5. Behind' = Behind
  BY <1>1, <1>2, <1>4 DEF Behind
<1>6. CallsInOrder'
  <2>1. Len(calls') <= issued' /\ lost' \subseteq 1 .. Behind'
    BY <1>1, <1>2, <1>4, <1>5 DEF IInv, CallsInOrder
  <2>2. ASSUME NEW k \in 1 .. Len(calls') PROVE calls'[k] = Behind' + k
    <3>1. CASE k \in 1 .. Len(calls)
      BY <1>4, <1>5, <3>1 DEF IInv, CallsInOrder
    <3>2. CASE k = Len(calls) + 1
      BY <1>2, <1>4, <1>5, <3>2
    <3> QED
      BY <1>2, <1>4, <3>1, <3>2
  <2> QED
    BY <2>1, <2>2 DEF CallsInOrder
<1>7. BatchesAscend'
  BY <1>1 DEF IInv, BatchesAscend
<1>8. Queue'
  BY <1>1, <1>5 DEF IInv, Queue, Decided
<1>9. InLine'
  BY <1>1 DEF IInv, InLine, Begins
<1> QED
  BY <1>6, <1>7, <1>8, <1>9 DEF QueueInv

LEMMA WriteLocallyQueue ==
    ASSUME IInv, WriteLocally
    PROVE  QueueInv'
<1>1. /\ up /\ up' = up /\ nextId' = nextId + 1
      /\ UNCHANGED <<lost, applied, refused, verdict>>
  BY DEF WriteLocally, StoreAndSend, server
<1>2. /\ calls # << >> /\ Len(calls') = Len(calls) - 1 /\ issued' = issued
      /\ \A k \in 1 .. Len(calls') : calls'[k] = calls[k + 1]
      /\ Behind' = Behind + 1
      /\ db' \in Seq(Batch) /\ Len(db') = Len(db) + 1
      /\ \A k \in 1 .. Len(db) : db'[k] = db[k]
      /\ db'[Len(db) + 1].id = nextId /\ db'[Len(db) + 1].write = Behind + 1
      /\ Ascending(db') /\ Grown(pipeline', pipeline, db')
  BY StoringEffect
<1>3. /\ issued \in Nat /\ Len(calls) \in Nat /\ Behind \in Nat /\ issued = Behind + Len(calls)
      /\ Len(db) \in Nat /\ DOMAIN db = 1 .. Len(db) /\ DOMAIN db' = 1 .. Len(db) + 1
      /\ db \in Seq(Batch) /\ nextId \in Nat
  BY <1>2, Shapes DEF IInv, TypeOK
<1>4. CallsInOrder'
  <2>1. Len(calls') <= issued' /\ lost' \subseteq 1 .. Behind'
    BY <1>1, <1>2, <1>3 DEF IInv, CallsInOrder
  <2>2. ASSUME NEW k \in 1 .. Len(calls') PROVE calls'[k] = Behind' + k
    <3>1. k + 1 \in 1 .. Len(calls)
      BY <1>2, <1>3
    <3>2. calls[k + 1] = Behind + (k + 1)
      BY <3>1 DEF IInv, CallsInOrder
    <3> QED
      BY <1>2, <1>3, <3>2
  <2> QED
    BY <2>1, <2>2 DEF CallsInOrder
<1>5. \A k \in 1 .. Len(db) : db[k].write \in 1 .. Behind /\ db[k].write \notin lost
  BY DEF IInv, Queue
<1>6. BatchesAscend'
  <2>1. ASSUME NEW j \in 1 .. Len(db) + 1, NEW k \in 1 .. Len(db) + 1, j < k
        PROVE  db'[j].write < db'[k].write
    <3>1. j \in 1 .. Len(db)
      BY <1>3, <2>1
    <3>2. CASE k \in 1 .. Len(db)
      BY <1>2, <1>3, <2>1, <3>1, <3>2 DEF IInv, BatchesAscend
    <3>3. CASE k = Len(db) + 1
      BY <1>2, <1>3, <1>5, <3>1, <3>3
    <3> QED
      BY <1>3, <3>2, <3>3
  <2>2. ASSUME NEW k \in 1 .. Len(db) + 1 PROVE db'[k].id < nextId + 1
    <3>1. CASE k \in 1 .. Len(db)
      <4>1. db[k].id \in Nat /\ db[k].id < nextId
        BY <1>1, <1>3, <3>1, BatchesOf DEF IInv, BatchesAscend
      <4> QED
        BY <1>2, <1>3, <3>1, <4>1
    <3>2. CASE k = Len(db) + 1
      BY <1>2, <1>3, <3>2
    <3> QED
      BY <1>3, <3>1, <3>2
  <2>3. \A j, k \in DOMAIN db' : j < k => db'[j].id < db'[k].id
    BY <1>2, <1>3 DEF Ascending
  <2> QED
    BY <1>1, <1>3, <2>1, <2>2, <2>3 DEF BatchesAscend
<1>7. Queue'
  <2>1. ASSUME NEW k \in 1 .. Len(db')
        PROVE  db'[k].write \in 1 .. Behind' /\ db'[k].write \notin lost'
    <3>1. CASE k \in 1 .. Len(db)
      BY <1>1, <1>2, <1>3, <1>5, <3>1
    <3>2. CASE k = Len(db) + 1
      BY <1>1, <1>2, <1>3, <3>2 DEF IInv, CallsInOrder
    <3> QED
      BY <1>2, <1>3, <3>1, <3>2
  <2>2. ASSUME NEW w \in 1 .. Behind'
        PROVE  w \in lost' \/ w \in Decided' \/ \E k \in 1 .. Len(db') : db'[k].write = w
    <3>1. CASE w = Behind + 1
      BY <1>2, <1>3, <3>1
    <3>2. CASE w \in 1 .. Behind
      <4>1. w \in lost \/ w \in Decided \/ \E k \in 1 .. Len(db) : db[k].write = w
        BY <3>2 DEF IInv, Queue
      <4>2. ASSUME NEW k \in 1 .. Len(db), db[k].write = w
            PROVE  \E i \in 1 .. Len(db') : db'[i].write = w
        BY <1>2, <1>3, <4>2
      <4> QED
        BY <1>1, <4>1, <4>2 DEF Decided
    <3> QED
      BY <1>2, <1>3, <3>1, <3>2
  <2> QED
    BY <1>1, <2>1, <2>2 DEF Queue, IInv
<1>8. InLine'
  BY <1>1, <1>2 DEF InLine, Grown
<1> QED
  BY <1>4, <1>6, <1>7, <1>8 DEF QueueInv

\* Dropping the first batch, once it has been decided.
LEMMA DroppingQueue ==
    ASSUME IInv, up, up' = up, pipeline # << >>, pipeline[1].write \in Decided,
           db' = Without(db, Head(pipeline).id), pipeline' = Filled(Tail(pipeline), db'),
           UNCHANGED <<issued, calls, nextId, lost, applied, refused>>,
           \A w \in Writes : verdict'[w] = "ok" => w \in applied
    PROVE  QueueInv'
<1>1. /\ db' \in Seq(Batch) /\ Len(db') = Len(db) - 1 /\ Len(db) > 0
      /\ \A k \in 1 .. Len(db') : db'[k] = db[k + 1]
      /\ Ascending(db') /\ Grown(pipeline', Tail(pipeline), db')
      /\ pipeline[1] = db[1]
  BY DroppingEffect
<1>2. /\ Len(db) \in Nat /\ DOMAIN db = 1 .. Len(db) /\ DOMAIN db' = 1 .. Len(db) - 1
  BY <1>1, Shapes
<1>3. Behind' = Behind /\ Decided' = Decided
  BY DEF Behind, Decided
<1>4. \A k \in 1 .. Len(db') : k + 1 \in 1 .. Len(db) /\ db'[k] = db[k + 1]
  BY <1>1, <1>2
<1>5. CallsInOrder'
  BY <1>3 DEF IInv, CallsInOrder
<1>6. BatchesAscend'
  <2>1. ASSUME NEW j \in DOMAIN db', NEW k \in DOMAIN db', j < k
        PROVE  db'[j].id < db'[k].id /\ db'[j].write < db'[k].write
    <3>1. j + 1 \in DOMAIN db /\ k + 1 \in DOMAIN db /\ j + 1 < k + 1
      BY <1>2, <2>1
    <3>2. db[j + 1].id < db[k + 1].id /\ db[j + 1].write < db[k + 1].write
      BY <3>1 DEF IInv, BatchesAscend
    <3> QED
      BY <1>1, <1>2, <3>2
  <2>2. \A k \in DOMAIN db' : db'[k].id < nextId'
    BY <1>1, <1>2, <1>4 DEF IInv, BatchesAscend
  <2> QED
    BY <2>1, <2>2 DEF BatchesAscend
<1>7. Queue'
  <2>1. \A k \in 1 .. Len(db') : db'[k].write \in 1 .. Behind' /\ db'[k].write \notin lost'
    BY <1>3, <1>4 DEF IInv, Queue
  <2>2. ASSUME NEW w \in 1 .. Behind'
        PROVE  w \in lost' \/ w \in Decided' \/ \E k \in 1 .. Len(db') : db'[k].write = w
    <3>1. w \in lost \/ w \in Decided \/ \E k \in 1 .. Len(db) : db[k].write = w
      BY <1>3 DEF IInv, Queue
    <3>2. ASSUME NEW k \in 1 .. Len(db), db[k].write = w
          PROVE  w \in Decided \/ \E i \in 1 .. Len(db') : db'[i].write = w
      <4>1. CASE k = 1
        BY <1>1, <3>2, <4>1
      <4>2. CASE k > 1
        <5>1. k - 1 \in 1 .. Len(db') /\ (k - 1) + 1 = k
          BY <1>1, <1>2, <4>2
        <5>2. db'[k - 1] = db[k]
          BY <1>4, <5>1
        <5> QED
          BY <3>2, <5>1, <5>2
      <4> QED
        BY <4>1, <4>2
    <3> QED
      BY <1>3, <3>1, <3>2
  <2> QED
    BY <2>1, <2>2 DEF Queue
<1>8. InLine'
  BY <1>1 DEF InLine, Grown
<1> QED
  BY <1>5, <1>6, <1>7, <1>8 DEF QueueInv

LEMMA MutationResultQueue ==
    ASSUME IInv, MutationResult
    PROVE  QueueInv'
<1> DEFINE b == Head(pipeline)
<1>1. /\ stream = "open" /\ pipeline # << >> /\ pipeline[1].write \in applied
  BY AnswerFindsBatch
<1>2. up /\ pipeline[1].write \in Decided
  BY <1>1 DEF IInv, InLine, Decided
<1>3. /\ db' = Without(db, b.id) /\ pipeline' = Filled(Tail(pipeline), db')
      /\ UNCHANGED <<up, issued, calls, nextId, lost, applied, refused>>
      /\ verdict' = [verdict EXCEPT ![b.write] = "ok"]
  BY DEF MutationResult, server
<1>4. b = pipeline[1]
  BY <1>1, DroppingEffect
<1>5. \A w \in Writes : verdict'[w] = "ok" => w \in applied
  BY <1>1, <1>3, <1>4 DEF IInv, TypeOK, Queue
<1> QED
  BY <1>1, <1>2, <1>3, <1>5, DroppingQueue

LEMMA CloseAndRejectQueue ==
    ASSUME IInv, CloseAndReject
    PROVE  QueueInv'
<1> DEFINE b == Head(pipeline)
<1>1. pipeline # << >> /\ stream = "open" /\ pipeline[1].write \in Decided
  BY DroppedIsDecided DEF CloseAndReject, Reject
<1>2. up
  BY <1>1 DEF IInv, InLine
<1>3. b = pipeline[1] /\ RemoveAt(pipeline, 1) = Tail(pipeline)
  BY <1>1, DroppingEffect, RemoveFirstPlace, Shapes
<1>4. /\ db' = Without(db, b.id) /\ pipeline' = Filled(Tail(pipeline), db')
      /\ UNCHANGED <<up, issued, calls, nextId, lost, applied, refused>>
      /\ verdict' = [verdict EXCEPT ![b.write] = "error"]
  BY <1>3 DEF CloseAndReject, Reject, server
<1>5. \A w \in Writes : verdict'[w] = "ok" => w \in applied
  BY <1>4 DEF IInv, TypeOK, Queue
<1> QED
  BY <1>1, <1>2, <1>4, <1>5, DroppingQueue

\* A pipeline filled from nothing.
LEMMA FilledAnew ==
    ASSUME IInv
    PROVE  Grown(Filled(<< >>, db), << >>, db)
<1>1. << >> \in Seq(Batch) /\ Len(<< >>) = 0
  BY EmptySeq
<1>2. db \in Seq(Batch) /\ Ascending(db) /\ Len(db) \in Nat
  BY Shapes
<1>3. Begins(<< >>, db) /\ Len(<< >>) <= MaxPending
  BY <1>1, <1>2, MaxPendingAssumption DEF Begins
<1> QED
  BY <1>1, <1>2, <1>3, FilledGrows

LEMMA RestartNetworkQueue ==
    ASSUME IInv, RestartNetwork
    PROVE  QueueInv'
<1>1. /\ pipeline' = Filled(<< >>, db) /\ up /\ up' = up
      /\ UNCHANGED <<issued, calls, db, nextId, lost, applied, refused, verdict>>
  BY DEF RestartNetwork, RestartWith, server
<1>2. Grown(pipeline', << >>, db)
  BY <1>1, FilledAnew
<1>3. BatchesAscend' /\ CallsInOrder' /\ Queue'
  BY <1>1 DEF IInv, BatchesAscend, CallsInOrder, Queue, Decided, Behind
<1>4. InLine'
  BY <1>1, <1>2 DEF InLine, Grown, Begins
<1> QED
  BY <1>3, <1>4 DEF QueueInv

LEMMA KillQueue ==
    ASSUME IInv, Kill
    PROVE  QueueInv'
<1>1. /\ ~ up' /\ calls' = << >> /\ pipeline' = << >> /\ stream' = "initial" /\ fresh' = 0
      /\ lost' = lost \cup {calls[k] : k \in DOMAIN calls}
      /\ UNCHANGED <<issued, db, applied, refused, verdict>>
  BY DEF Kill, server
<1>2. /\ issued \in Nat /\ Len(calls) \in Nat /\ Behind \in Nat /\ issued = Behind + Len(calls)
      /\ calls \in Seq(Writes) /\ Len(db) \in Nat
  BY Shapes
<1>3. Behind' = issued
  BY <1>1, <1>2, EmptySeq DEF Behind
<1>4. DOMAIN calls = 1 .. Len(calls) /\ \A k \in 1 .. Len(calls) : calls[k] = Behind + k
  BY <1>2 DEF IInv, CallsInOrder
<1>5. /\ \A w \in lost' : w \in lost \/ w \in Behind + 1 .. issued
      /\ \A w \in Behind + 1 .. issued : w \in lost'
  <2>1. \A k \in 1 .. Len(calls) : calls[k] \in Behind + 1 .. issued
    BY <1>2, <1>4
  <2>2. ASSUME NEW w \in Behind + 1 .. issued PROVE w \in lost'
    <3>1. w - Behind \in 1 .. Len(calls) /\ Behind + (w - Behind) = w
      BY <1>2
    <3>2. calls[w - Behind] = w
      BY <1>4, <3>1
    <3> QED
      BY <1>1, <1>4, <3>1, <3>2
  <2>3. \A w \in lost' : w \in lost \/ \E k \in 1 .. Len(calls) : w = calls[k]
    BY <1>1, <1>4
  <2> QED
    BY <2>1, <2>2, <2>3
<1>6. lost \subseteq 1 .. Behind
  BY DEF IInv, CallsInOrder
<1>7. CallsInOrder'
  <2>1. ASSUME NEW w \in lost' PROVE w \in 1 .. issued
    <3>1. w \in 1 .. Behind \/ w \in Behind + 1 .. issued
      BY <1>5, <1>6
    <3> QED
      BY <1>2, <3>1
  <2> QED
    BY <1>1, <1>2, <1>3, <2>1, EmptySeq DEF CallsInOrder
<1>8. BatchesAscend'
  BY <1>1 DEF IInv, BatchesAscend
<1>9. Queue'
  <2>1. ASSUME NEW k \in 1 .. Len(db)
        PROVE  db[k].write \in 1 .. issued /\ db[k].write \notin lost'
    <3>1. db[k].write \in 1 .. Behind /\ db[k].write \notin lost
      BY DEF IInv, Queue
    <3> QED
      BY <1>2, <1>5, <3>1
  <2>2. ASSUME NEW w \in 1 .. issued
        PROVE  w \in lost' \/ w \in Decided \/ \E k \in 1 .. Len(db) : db[k].write = w
    <3>1. CASE w \in 1 .. Behind
      <4>1. w \in lost \/ w \in Decided \/ \E k \in 1 .. Len(db) : db[k].write = w
        BY <3>1 DEF IInv, Queue
      <4> QED
        BY <1>1, <4>1
    <3>2. CASE w \in Behind + 1 .. issued
      BY <1>5, <3>2
    <3> QED
      BY <1>2, <3>1, <3>2
  <2>3. \A w \in Writes : verdict[w] = "ok" => w \in applied
    BY DEF IInv, Queue
  <2> QED
    BY <1>1, <1>3, <2>1, <2>2, <2>3 DEF Queue, Decided
<1>10. InLine'
  BY <1>1, <1>2, EmptySeq, MaxPendingAssumption DEF InLine, Begins
<1> QED
  BY <1>7, <1>8, <1>9, <1>10 DEF QueueInv

LEMMA StartQueue ==
    ASSUME IInv, Start
    PROVE  QueueInv'
<1>1. /\ ~ up /\ up' = TRUE /\ pipeline' = Filled(<< >>, db)
      /\ nextId' = IF db = << >> THEN 1 ELSE db[Len(db)].id + 1
      /\ UNCHANGED <<issued, calls, db, lost, applied, refused, verdict>>
  BY DEF Start, StartCountingFrom, server
<1>2. Grown(pipeline', << >>, db)
  BY <1>1, FilledAnew
<1>3. CallsInOrder' /\ Queue'
  BY <1>1 DEF IInv, CallsInOrder, Queue, Decided, Behind
<1>4. InLine'
  BY <1>1, <1>2 DEF InLine, Grown, Begins
<1>5. BatchesAscend'
  <2>1. ASSUME NEW k \in DOMAIN db PROVE db[k].id < nextId'
    <3>1. /\ db \in Seq(Batch) /\ Len(db) \in Nat /\ k \in 1 .. Len(db) /\ Ascending(db)
      BY Shapes
    <3>2. db # << >> /\ Len(db) \in 1 .. Len(db)
      BY <3>1, EmptySeq
    <3>3. db[k].id \in Nat /\ db[Len(db)].id \in Nat
      BY <3>1, <3>2, BatchesOf
    <3>4. k = Len(db) \/ db[k].id < db[Len(db)].id
      BY <3>1, <3>2 DEF Ascending
    <3> QED
      BY <1>1, <3>2, <3>3, <3>4
  <2> QED
    BY <1>1, <2>1 DEF IInv, BatchesAscend
<1> QED
  BY <1>3, <1>4, <1>5 DEF QueueInv

LEMMA AsideQueue ==
    ASSUME IInv, Aside
    PROVE  QueueInv'
<1>1. BatchesAscend' /\ CallsInOrder'
  BY DEF IInv, Aside, BatchesAscend, CallsInOrder, Behind
<1>2. Queue'
  BY DEF IInv, Aside, Queue, Decided, Behind
<1>3. InLine'
  BY DEF IInv, Aside, InLine, Begins
<1> QED
  BY <1>1, <1>2, <1>3 DEF QueueInv

LEMMA NextQueue ==
    ASSUME IInv, [Next]_vars
    PROVE  QueueInv'
  BY Steps, WriteMutationsQueue, WriteLocallyQueue, MutationResultQueue, CloseAndRejectQueue,
     RestartNetworkQueue, KillQueue, StartQueue, AsideQueue

-----------------------------------------------------------------------------
\* The parts of the invariant that are about the stream and the server.
StreamInv == Control /\ Handshaking /\ Exchange

Streams == {"initial", "starting", "open", "error", "backoff"}

LEMMA StartedIs ==
    ASSUME NEW p, NEW s \in Streams
    PROVE  /\ Started(s, p) = IF IsStarted(s) \/ p = << >> THEN s
                              ELSE IF s = "error" THEN "backoff" ELSE "starting"
           /\ Asking(s, p) = IF s = "initial" /\ p # << >> THEN 1 ELSE 0
<1>1. CASE IsStarted(s) \/ p = << >>
  BY <1>1 DEF Started, Asking, IsStarted, Streams
<1>2. CASE s = "error" /\ p # << >>
  BY <1>2 DEF Started, Asking, IsStarted, Streams
<1>3. CASE s = "initial" /\ p # << >>
  BY <1>3 DEF Started, Asking, IsStarted, Streams
<1> QED
  BY <1>1, <1>2, <1>3 DEF IsStarted, Streams

\* A stream that has been given up starts anew or not at all.
LEMMA StartingAnew ==
    ASSUME wire' = << >>, answers' = << >>, closing' = "none",
           ~ handshake', ~ idle', NEW s \in {"initial", "error"},
           stream' = Started(s, pipeline'),
           fresh' = IF s = "initial" THEN Asking("initial", pipeline') ELSE 0
    PROVE  StreamInv'
<1>1. /\ stream' = IF pipeline' = << >> THEN s ELSE IF s = "error" THEN "backoff" ELSE "starting"
      /\ Asking("initial", pipeline') = IF pipeline' # << >> THEN 1 ELSE 0
  BY StartedIs DEF Streams, IsStarted
<1> QED
  BY <1>1 DEF StreamInv, Control, Handshaking, Exchange

LEMMA GiveUpStreamInv ==
    ASSUME IInv, IdleTimeout \/ CloseAndRetry \/ CloseAndReject \/ RestartNetwork
    PROVE  StreamInv'
<1>1. CASE IdleTimeout
  <2>1. pipeline' = pipeline
    BY <1>1 DEF IdleTimeout
  <2> QED
    BY <1>1, <2>1, GivingUp, StartingAnew DEF IdleTimeout
<1>2. CASE CloseAndRetry
  <2>1. pipeline' = pipeline
    BY <1>2 DEF CloseAndRetry
  <2> QED
    BY <1>2, <2>1, GivingUp, StartingAnew DEF CloseAndRetry
<1>3. CASE CloseAndReject
  BY <1>3, GivingUp, StartingAnew DEF CloseAndReject, Reject
<1>4. CASE RestartNetwork
  BY <1>4, GivingUp, StartingAnew DEF RestartNetwork, RestartWith
<1> QED
  BY <1>1, <1>2, <1>3, <1>4

LEMMA ProcessStreamInv ==
    ASSUME IInv, Kill \/ Start
    PROVE  StreamInv'
<1>1. CASE Kill
  <2>1. wire' = << >> /\ answers' = << >> /\ closing' = "none"
    BY <1>1, GivingUp DEF Kill
  <2>2. stream' = "initial" /\ ~ handshake' /\ ~ idle' /\ fresh' = 0
    BY <1>1 DEF Kill
  <2> QED
    BY <2>1, <2>2 DEF StreamInv, Control, Handshaking, Exchange
<1>2. CASE Start
  <2>1. stream = "initial"
    BY <1>2 DEF Start, StartCountingFrom, IInv, InLine
  <2>2. /\ ~ handshake /\ ~ idle
        /\ wire = << >> /\ answers = << >> /\ closing = "none"
    BY <2>1 DEF IInv, Control
  <2>3. /\ stream' = Started("initial", pipeline') /\ fresh' = Asking("initial", pipeline')
        /\ UNCHANGED <<handshake, idle, wire, answers, closing>>
    BY <1>2 DEF Start, StartCountingFrom, network
  <2> QED
    BY <2>2, <2>3, StartingAnew
<1> QED
  BY <1>1, <1>2

LEMMA CredentialsStreamInv ==
    ASSUME IInv, \/ CredentialsArrive \/ CredentialsFail
                 \/ StaleCredentialsArrive \/ BackoffElapsed
    PROVE  StreamInv'
<1>1. fresh = (IF stream = "starting" THEN 1 ELSE 0)
  BY DEF IInv, Control
<1>2. CASE CredentialsArrive
  <2>1. stream = "starting" /\ fresh' = 0
    BY <1>1, <1>2 DEF CredentialsArrive
  <2>2. ~ handshake /\ ~ idle
    BY <2>1 DEF IInv, Control
  <2>3. /\ stream' = "open" /\ wire' = <<Hello>> /\ answers' = << >> /\ closing' = "none"
        /\ handshake' = handshake /\ idle' = idle
    BY <1>2 DEF CredentialsArrive
  <2> QED
    BY <2>1, <2>2, <2>3 DEF StreamInv, Control, Handshaking, Exchange
<1>3. CASE CredentialsFail
  <2>1. stream = "starting" /\ fresh' = 0
    BY <1>1, <1>3 DEF CredentialsFail
  <2>2. wire = << >> /\ answers = << >> /\ closing = "none"
    BY <2>1 DEF IInv, Control
  <2>3. /\ stream' = Started("error", pipeline') /\ ~ handshake' /\ ~ idle'
        /\ UNCHANGED <<wire, answers, closing>>
    BY <1>3 DEF CredentialsFail, network
  <2> QED
    BY <2>1, <2>2, <2>3, StartingAnew
<1>4. CASE StaleCredentialsArrive
  BY <1>4 DEF StaleCredentialsArrive, network, server, IInv, StreamInv, Control, Handshaking,
              Exchange, Sent, Decided
<1>5. CASE BackoffElapsed
  <2>1. stream = "backoff" /\ fresh' = 1 /\ stream' = "starting"
    BY <1>1, <1>5 DEF BackoffElapsed
  <2>2. ~ handshake /\ ~ idle /\ wire = << >> /\ answers = << >> /\ closing = "none"
    BY <2>1 DEF IInv, Control
  <2>3. UNCHANGED <<handshake, idle, wire, answers, closing>>
    BY <1>5 DEF BackoffElapsed, network
  <2> QED
    BY <2>1, <2>2, <2>3 DEF StreamInv, Control, Handshaking, Exchange
<1> QED
  BY <1>2, <1>3, <1>4, <1>5

\* Requests sent behind others keep what Exchange says of the wire.
LEMMA SentBehind ==
    ASSUME NEW w \in Seq(Writes \cup {Hello}), NEW q \in Seq(Batch), NEW m \in 0 .. Len(q),
           NEW u, Sends(u, w, q, m), Len(w) <= m,
           \A j \in 1 .. Len(w) : w[j] = q[m - Len(w) + j].write
    PROVE  /\ Len(q) - Len(u) = m - Len(w)
           /\ \A j \in 1 .. Len(u) : u[j] = q[Len(q) - Len(u) + j].write
<1>1. Len(w) \in Nat /\ Len(q) \in Nat /\ Len(u) = Len(w) + Len(q) - m
  BY DEF Sends
<1>2. ASSUME NEW j \in 1 .. Len(u) PROVE u[j] = q[Len(q) - Len(u) + j].write
  <2>1. Len(q) - Len(u) + j = m - Len(w) + j
    BY <1>1
  <2>2. CASE j \in 1 .. Len(w)
    BY <2>1, <2>2 DEF Sends
  <2>3. CASE j > Len(w)
    <3>1. /\ j - Len(w) \in 1 .. Len(q) - m /\ Len(w) + (j - Len(w)) = j
          /\ m + (j - Len(w)) = Len(q) - Len(u) + j
      BY <1>1, <2>3
    <3>2. u[Len(w) + (j - Len(w))] = q[m + (j - Len(w))].write
      BY <3>1 DEF Sends
    <3> QED
      BY <3>1, <3>2
  <2> QED
    BY <1>1, <2>2, <2>3
<1> QED
  BY <1>1, <1>2

LEMMA WriteLocallyStreamInv ==
    ASSUME IInv, WriteLocally
    PROVE  StreamInv'
<1>1. /\ Len(db') = Len(db) + 1 /\ Grown(pipeline', pipeline, db')
      /\ \A k \in 1 .. Len(pipeline) : pipeline'[k] = pipeline[k]
      /\ IF stream = "open" /\ handshake
         THEN Sends(wire', wire, pipeline', Len(pipeline))
         ELSE wire' = wire
  BY StoringEffect
<1>2. /\ pipeline \in Seq(Batch) /\ pipeline' \in Seq(Batch) /\ Len(db) \in Nat
      /\ Len(pipeline) \in Nat /\ Len(pipeline') \in Nat /\ Len(pipeline) <= Len(pipeline')
      /\ wire \in Seq(Writes \cup {Hello}) /\ Len(wire) \in Nat /\ Len(answers) \in Nat
      /\ Len(pipeline') > 0 /\ pipeline' # << >>
  BY <1>1, Shapes, MaxPendingAssumption DEF Grown
<1>3. /\ stream' = Started(stream, pipeline') /\ fresh' = fresh + Asking(stream, pipeline')
      /\ UNCHANGED <<handshake, answers, closing, applied, refused>>
  BY DEF WriteLocally, StoreAndSend, server
<1>4. stream \in Streams
  BY DEF IInv, TypeOK, Streams
<1>5. /\ stream = "open" => stream' = "open"
      /\ stream' = "open" => stream = "open"
      /\ stream' # "error"
      /\ fresh' = (IF stream' = "starting" THEN 1 ELSE 0)
  BY <1>2, <1>3, <1>4, StartedIs DEF Streams, IsStarted, IInv, Control
<1>6. ~ idle'
  <2>1. CASE idle
    <3>1. stream = "open" /\ handshake /\ pipeline = << >>
      BY <2>1 DEF IInv, Control
    <3>2. Len(pipeline) \in 0 .. Len(pipeline') /\ Len(pipeline) = 0
      BY <1>2, <3>1, EmptySeq
    <3>3. SubSeq(pipeline', Len(pipeline) + 1, Len(pipeline')) = << >>
             => Len(pipeline') = Len(pipeline)
      BY <1>2, <3>2, Sending
    <3> QED
      BY <1>2, <3>1, <3>2, <3>3 DEF WriteLocally, StoreAndSend
  <2>2. CASE ~ idle
    BY <2>2 DEF WriteLocally, StoreAndSend
  <2> QED
    BY <2>1, <2>2
<1>7. CASE stream = "open" /\ handshake
  <2>1. /\ Len(answers) <= Sent
        /\ \A k \in 1 .. Len(answers) : answers[k] = pipeline[k].write /\ answers[k] \in applied
        /\ \A k \in 1 .. Sent : pipeline[k].write \in Decided
        /\ \A j \in 1 .. Len(wire) : wire[j] = pipeline[Sent + j].write
        /\ closing = "none" => Sent = Len(answers)
        /\ closing = "permanent" => Sent > Len(answers)
    BY <1>7 DEF IInv, Exchange
  <2>2. /\ Len(wire) <= Len(pipeline) /\ Sent \in Nat /\ Sent <= Len(pipeline)
        /\ Sent = Len(pipeline) - Len(wire)
    BY <1>2, <2>1 DEF Sent
  <2>3. \A j \in 1 .. Len(wire) :
            Sent + j \in 1 .. Len(pipeline) /\ wire[j] = pipeline'[Sent + j].write
    <3> SUFFICES ASSUME NEW j \in 1 .. Len(wire)
                 PROVE  Sent + j \in 1 .. Len(pipeline) /\ wire[j] = pipeline'[Sent + j].write
      OBVIOUS
    <3>1. Sent + j \in 1 .. Len(pipeline)
      BY <1>2, <2>2
    <3>2. pipeline'[Sent + j] = pipeline[Sent + j]
      BY <1>1, <3>1
    <3>3. wire[j] = pipeline[Sent + j].write
      BY <2>1
    <3> QED
      BY <3>1, <3>2, <3>3
  <2>4. /\ Len(pipeline') - Len(wire') = Len(pipeline) - Len(wire)
        /\ \A j \in 1 .. Len(wire') :
              wire'[j] = pipeline'[Len(pipeline') - Len(wire') + j].write
    <3>1. \A j \in 1 .. Len(wire) :
             wire[j] = pipeline'[Len(pipeline) - Len(wire) + j].write
      BY <2>3 DEF Sent
    <3>2. Len(pipeline) \in 0 .. Len(pipeline')
      BY <1>2
    <3>3. Sends(wire', wire, pipeline', Len(pipeline))
      BY <1>1, <1>7
    <3> QED
      BY <1>2, <2>2, <3>1, <3>2, <3>3, SentBehind
  <2>5. Sent' = Sent
    BY <2>2, <2>4 DEF Sent
  <2>6. /\ \A k \in 1 .. Len(answers) : k \in 1 .. Len(pipeline)
        /\ \A k \in 1 .. Sent : k \in 1 .. Len(pipeline)
    BY <1>2, <2>1, <2>2
  <2>7. Exchange'
    <3>1. /\ \A k \in 1 .. Len(answers') :
                answers'[k] = pipeline'[k].write /\ answers'[k] \in applied'
          /\ \A k \in 1 .. Sent' : pipeline'[k].write \in Decided'
      BY <1>1, <1>3, <2>1, <2>5, <2>6 DEF Decided
    <3>2. \A j \in 1 .. Len(wire') : wire'[j] = pipeline'[Sent' + j].write
      BY <2>4 DEF Sent
    <3> QED
      BY <1>3, <2>1, <2>5, <3>1, <3>2 DEF Exchange
  <2> QED
    BY <1>3, <1>5, <1>6, <1>7, <2>7 DEF StreamInv, Control, Handshaking
<1>8. CASE ~ (stream = "open" /\ handshake)
  <2>1. wire' = wire /\ ~ handshake'
    BY <1>1, <1>3, <1>8 DEF IInv, Control
  <2>2. Control'
    BY <1>3, <1>5, <1>6, <2>1 DEF IInv, Control
  <2>3. Handshaking' /\ Exchange'
    BY <1>3, <1>5, <2>1 DEF IInv, Handshaking, Exchange
  <2> QED
    BY <2>2, <2>3 DEF StreamInv
<1> QED
  BY <1>7, <1>8

LEMMA HandshakeCompleteStreamInv ==
    ASSUME IInv, HandshakeComplete
    PROVE  StreamInv'
<1>1. /\ answers # << >> /\ ~ handshake /\ handshake'
      /\ answers' = Tail(answers) /\ wire' = wire \o WritesOf(pipeline)
      /\ UNCHANGED <<pipeline, stream, fresh, closing, applied, refused>>
      /\ idle' => idle
  BY DEF HandshakeComplete, server
<1>2. stream = "open" /\ ~ idle
  BY <1>1 DEF IInv, Control
<1>3. answers = <<Hello>> /\ wire = << >> /\ closing # "permanent"
  BY <1>1, <1>2 DEF IInv, Handshaking
<1>4. answers' = << >> /\ Len(answers') = 0
  BY <1>1, <1>3
<1>5. pipeline \in Seq(Batch) /\ Len(pipeline) \in Nat
  BY Shapes
<1>6. /\ WritesOf(pipeline) \in Seq(Writes) /\ Len(WritesOf(pipeline)) = Len(pipeline)
      /\ \A k \in 1 .. Len(pipeline) : WritesOf(pipeline)[k] = pipeline[k].write
  BY <1>5, WritesOfSeq
<1>7. wire' = WritesOf(pipeline)
  BY <1>1, <1>3, <1>6, ConcatEmptySeq
<1>8. Sent' = 0
  BY <1>1, <1>5, <1>6, <1>7 DEF Sent
<1>9. Exchange'
  BY <1>1, <1>3, <1>4, <1>5, <1>6, <1>7, <1>8 DEF Exchange
<1>10. Control'
  BY <1>1, <1>2 DEF IInv, Control
<1> QED
  BY <1>1, <1>9, <1>10 DEF StreamInv, Handshaking

LEMMA MutationResultStreamInv ==
    ASSUME IInv, MutationResult
    PROVE  StreamInv'
<1> DEFINE rest == Tail(pipeline)
<1>1. /\ stream = "open" /\ handshake /\ Sent > 0 /\ pipeline # << >>
  BY AnswerFindsBatch
<1>2. /\ answers # << >> /\ answers' = Tail(answers)
      /\ db' = Without(db, Head(pipeline).id) /\ pipeline' = Filled(rest, db')
      /\ wire' = wire \o WritesOf(SubSeq(pipeline', Len(rest) + 1, Len(pipeline')))
      /\ UNCHANGED <<stream, handshake, fresh, closing, applied, refused>>
      /\ idle' => idle \/ pipeline' = << >>
  BY DEF MutationResult, server
<1>3. /\ pipeline \in Seq(Batch) /\ wire \in Seq(Writes \cup {Hello})
      /\ answers \in Seq(Writes \cup {Hello})
      /\ Len(pipeline) \in Nat /\ Len(wire) \in Nat /\ Len(answers) \in Nat
  BY Shapes
<1>4. /\ Len(rest) = Len(pipeline) - 1
      /\ Grown(pipeline', rest, db')
      /\ \A k \in 1 .. Len(pipeline) - 1 : pipeline'[k] = pipeline[k + 1]
  BY <1>1, <1>2, DroppingEffect
<1>5. /\ pipeline' \in Seq(Batch) /\ Len(pipeline') \in Nat
      /\ Len(pipeline) - 1 \in 0 .. Len(pipeline')
  BY <1>1, <1>3, <1>4, EmptySeq DEF Grown
<1>6. Sends(wire', wire, pipeline', Len(pipeline) - 1)
  BY <1>2, <1>3, <1>4, <1>5, Sending
<1>7. /\ Len(answers') = Len(answers) - 1
      /\ \A k \in 1 .. Len(answers) - 1 : answers'[k] = answers[k + 1]
  BY <1>2, <1>3, HeadTailProperties
<1>8. /\ Len(answers) <= Sent
      /\ \A k \in 1 .. Len(answers) : answers[k] = pipeline[k].write /\ answers[k] \in applied
      /\ \A k \in 1 .. Sent : pipeline[k].write \in Decided
      /\ \A j \in 1 .. Len(wire) : wire[j] = pipeline[Sent + j].write
      /\ closing = "none" => Sent = Len(answers)
      /\ closing = "permanent" => Sent > Len(answers)
  BY <1>1 DEF IInv, Exchange
<1>9. Sent \in Nat /\ Sent <= Len(pipeline) /\ Sent = Len(pipeline) - Len(wire)
  BY <1>1, <1>3 DEF Sent
<1>10. ASSUME NEW j \in 1 .. Len(wire)
       PROVE  wire[j] = pipeline'[Len(pipeline) - 1 - Len(wire) + j].write
  <2>1. Sent - 1 + j \in 1 .. Len(pipeline) - 1 /\ Sent - 1 + j + 1 = Sent + j
    BY <1>1, <1>3, <1>9
  <2>2. pipeline'[Sent - 1 + j] = pipeline[Sent + j]
    BY <1>4, <2>1
  <2>3. Len(pipeline) - 1 - Len(wire) + j = Sent - 1 + j
    BY <1>3, <1>9
  <2> QED
    BY <1>8, <2>2, <2>3
<1>11. /\ Len(pipeline') - Len(wire') = Len(pipeline) - 1 - Len(wire)
       /\ \A j \in 1 .. Len(wire') :
             wire'[j] = pipeline'[Len(pipeline') - Len(wire') + j].write
  <2>1. Len(wire) <= Len(pipeline) - 1
    BY <1>1, <1>3, <1>9
  <2>2. Len(pipeline) - 1 \in 0 .. Len(pipeline')
    BY <1>5
  <2>3. pipeline' \in Seq(Batch) /\ wire \in Seq(Writes \cup {Hello})
    BY <1>3, <1>5
  <2>4. \A j \in 1 .. Len(wire) : wire[j] = pipeline'[Len(pipeline) - 1 - Len(wire) + j].write
    BY <1>10
  <2> QED
    BY <1>6, <2>1, <2>2, <2>3, <2>4, SentBehind
<1>12. Sent' = Sent - 1
  BY <1>3, <1>9, <1>11 DEF Sent
<1>13. ASSUME NEW k \in 1 .. Len(answers')
       PROVE  answers'[k] = pipeline'[k].write /\ answers'[k] \in applied'
  <2>1. /\ k + 1 \in 1 .. Len(answers) /\ k \in 1 .. Len(pipeline) - 1
        /\ k \in 1 .. Len(answers) - 1
    BY <1>3, <1>7, <1>8, <1>9
  <2> QED
    BY <1>2, <1>4, <1>7, <1>8, <2>1
<1>14. ASSUME NEW k \in 1 .. Sent' PROVE pipeline'[k].write \in Decided'
  <2>1. k + 1 \in 1 .. Sent /\ k \in 1 .. Len(pipeline) - 1
    BY <1>3, <1>9, <1>12
  <2> QED
    BY <1>2, <1>4, <1>8, <2>1 DEF Decided
<1>15. Exchange'
  <2>1. \A j \in 1 .. Len(wire') : wire'[j] = pipeline'[Sent' + j].write
    BY <1>11 DEF Sent
  <2>2. /\ Len(answers') <= Sent'
        /\ closing' = "none" => Sent' = Len(answers')
        /\ closing' = "permanent" => Sent' > Len(answers')
    BY <1>2, <1>3, <1>7, <1>8, <1>9, <1>12
  <2> QED
    BY <1>13, <1>14, <2>1, <2>2 DEF Exchange
<1>16. Control'
  BY <1>1, <1>2 DEF IInv, Control
<1> QED
  BY <1>1, <1>2, <1>15, <1>16 DEF StreamInv, Handshaking

LEMMA ServerAcceptsStreamInv ==
    ASSUME IInv, ServerAccepts
    PROVE  StreamInv'
<1>1. /\ stream = "open" /\ closing = "none" /\ wire # << >>
      /\ wire' = Tail(wire) /\ answers' = Append(answers, Head(wire))
      /\ applied' = IF Head(wire) = Hello THEN applied ELSE applied \cup {Head(wire)}
      /\ UNCHANGED <<pipeline, stream, handshake, idle, fresh, closing, refused>>
  BY DEF ServerAccepts, Connected, memory
<1>2. /\ pipeline \in Seq(Batch) /\ wire \in Seq(Writes \cup {Hello})
      /\ answers \in Seq(Writes \cup {Hello})
      /\ Len(pipeline) \in Nat /\ Len(wire) \in Nat /\ Len(answers) \in Nat
  BY Shapes
<1>3. /\ 1 \in 1 .. Len(wire) /\ Head(wire) = wire[1] /\ wire[1] \in Writes \cup {Hello}
      /\ Len(wire') = Len(wire) - 1
      /\ \A j \in 1 .. Len(wire) - 1 : wire'[j] = wire[j + 1]
  BY <1>1, <1>2, HeadTailProperties, EmptySeq
<1>4. /\ Len(answers') = Len(answers) + 1 /\ answers'[Len(answers) + 1] = wire[1]
      /\ \A k \in 1 .. Len(answers) : answers'[k] = answers[k]
  BY <1>1, <1>2, <1>3, AppendProperties
<1>5. Control'
  BY <1>1 DEF IInv, Control
<1>6. CASE handshake
  <2>1. wire \in Seq(Writes)
    BY <1>1, <1>6, WireInOrder
  <2>2. wire[1] \in Writes /\ wire[1] # Hello
    BY <1>3, <2>1, ElementOfSeq, HelloIsNoWrite
  <2>3. applied' = applied \cup {wire[1]}
    BY <1>1, <1>3, <2>2
  <2>4. /\ Len(answers) = Sent
        /\ \A k \in 1 .. Len(answers) : answers[k] = pipeline[k].write /\ answers[k] \in applied
        /\ \A k \in 1 .. Sent : pipeline[k].write \in Decided
        /\ \A j \in 1 .. Len(wire) : wire[j] = pipeline[Sent + j].write
    BY <1>1, <1>6 DEF IInv, Exchange
  <2>5. Sent \in Nat /\ Sent' = Sent + 1 /\ Sent' = Len(answers')
    BY <1>1, <1>2, <1>3, <1>4, <2>4 DEF Sent
  <2>6. wire[1] = pipeline[Sent + 1].write
    BY <1>3, <2>4
  <2>7. ASSUME NEW k \in 1 .. Sent + 1
        PROVE  /\ answers'[k] = pipeline[k].write /\ answers'[k] \in applied'
               /\ pipeline[k].write \in Decided'
    <3>1. CASE k \in 1 .. Sent
      BY <1>1, <1>4, <2>3, <2>4, <3>1 DEF Decided
    <3>2. CASE k = Sent + 1
      BY <1>4, <2>3, <2>4, <2>6, <3>2 DEF Decided
    <3> QED
      BY <2>5, <3>1, <3>2
  <2>8. ASSUME NEW j \in 1 .. Len(wire') PROVE wire'[j] = pipeline[Sent + 1 + j].write
    <3>1. j + 1 \in 1 .. Len(wire) /\ j \in 1 .. Len(wire) - 1 /\ Sent + (j + 1) = Sent + 1 + j
      BY <1>2, <1>3, <2>5
    <3>2. wire[j + 1] = pipeline[Sent + (j + 1)].write
      BY <2>4, <3>1
    <3> QED
      BY <1>3, <3>1, <3>2
  <2>9. Exchange'
    BY <1>1, <2>5, <2>7, <2>8 DEF Exchange
  <2> QED
    BY <1>1, <1>5, <1>6, <2>9 DEF StreamInv, Handshaking
<1>7. CASE ~ handshake
  <2>1. answers = << >> /\ wire = <<Hello>>
    BY <1>1, <1>7 DEF IInv, Handshaking
  <2>2. wire' = << >> /\ answers' = <<Hello>>
    BY <1>1, <2>1
  <2> QED
    BY <1>1, <1>5, <1>7, <2>2 DEF StreamInv, Handshaking, Exchange
<1> QED
  BY <1>6, <1>7

LEMMA ServerRefusesStreamInv ==
    ASSUME IInv, ServerRefuses
    PROVE  StreamInv'
<1>1. /\ stream = "open" /\ closing = "none" /\ wire # << >>
      /\ wire' = Tail(wire) /\ closing' = "permanent"
      /\ refused' = IF Head(wire) = Hello THEN refused ELSE refused \cup {Head(wire)}
      /\ UNCHANGED <<pipeline, stream, handshake, idle, fresh, answers, applied>>
  BY DEF ServerRefuses, Connected, memory
<1>2. /\ pipeline \in Seq(Batch) /\ wire \in Seq(Writes \cup {Hello})
      /\ Len(pipeline) \in Nat /\ Len(wire) \in Nat /\ Len(answers) \in Nat
  BY Shapes
<1>3. /\ 1 \in 1 .. Len(wire) /\ Head(wire) = wire[1]
      /\ Len(wire') = Len(wire) - 1
      /\ \A j \in 1 .. Len(wire) - 1 : wire'[j] = wire[j + 1]
  BY <1>1, <1>2, HeadTailProperties, EmptySeq
<1>4. Control'
  BY <1>1 DEF IInv, Control
<1>5. CASE handshake
  <2>1. wire \in Seq(Writes)
    BY <1>1, <1>5, WireInOrder
  <2>2. wire[1] \in Writes /\ wire[1] # Hello
    BY <1>3, <2>1, ElementOfSeq, HelloIsNoWrite
  <2>3. refused' = refused \cup {wire[1]}
    BY <1>1, <1>3, <2>2
  <2>4. /\ Len(answers) = Sent
        /\ \A k \in 1 .. Len(answers) : answers[k] = pipeline[k].write /\ answers[k] \in applied
        /\ \A k \in 1 .. Sent : pipeline[k].write \in Decided
        /\ \A j \in 1 .. Len(wire) : wire[j] = pipeline[Sent + j].write
    BY <1>1, <1>5 DEF IInv, Exchange
  <2>5. Sent \in Nat /\ Sent' = Sent + 1
    BY <1>1, <1>2, <1>3, <2>4 DEF Sent
  <2>6. wire[1] = pipeline[Sent + 1].write
    BY <1>3, <2>4
  <2>7. ASSUME NEW k \in 1 .. Sent + 1 PROVE pipeline[k].write \in Decided'
    <3>1. CASE k \in 1 .. Sent
      BY <1>1, <2>3, <2>4, <3>1 DEF Decided
    <3>2. CASE k = Sent + 1
      BY <2>3, <2>6, <3>2 DEF Decided
    <3> QED
      BY <2>5, <3>1, <3>2
  <2>8. ASSUME NEW j \in 1 .. Len(wire') PROVE wire'[j] = pipeline[Sent + 1 + j].write
    <3>1. j + 1 \in 1 .. Len(wire) /\ j \in 1 .. Len(wire) - 1 /\ Sent + (j + 1) = Sent + 1 + j
      BY <1>2, <1>3, <2>5
    <3>2. wire[j + 1] = pipeline[Sent + (j + 1)].write
      BY <2>4, <3>1
    <3> QED
      BY <1>3, <3>1, <3>2
  <2>9. Exchange'
    <3>1. Len(answers') <= Sent' /\ Sent' > Len(answers')
      BY <1>1, <1>2, <2>4, <2>5
    <3> QED
      BY <1>1, <2>4, <2>5, <2>7, <2>8, <3>1 DEF Exchange
  <2> QED
    BY <1>1, <1>4, <1>5, <2>9 DEF StreamInv, Handshaking
<1>6. CASE ~ handshake
  <2>1. answers = << >>
    BY <1>1, <1>6 DEF IInv, Handshaking
  <2> QED
    BY <1>1, <1>4, <1>6, <2>1 DEF StreamInv, Handshaking, Exchange
<1> QED
  BY <1>5, <1>6

LEMMA StreamBreaksStreamInv ==
    ASSUME IInv, StreamBreaks
    PROVE  StreamInv'
<1>1. PICK n \in 0 .. Len(answers) : answers' = SubSeq(answers, 1, n)
  BY DEF StreamBreaks
<1>2. /\ stream = "open" /\ closing = "none" /\ closing' = "transient"
      /\ UNCHANGED <<pipeline, stream, handshake, idle, fresh, wire, applied, refused>>
  BY DEF StreamBreaks, Connected, memory, server
<1>3. /\ answers \in Seq(Writes \cup {Hello}) /\ Len(answers) \in Nat
      /\ Len(pipeline) \in Nat /\ Len(wire) \in Nat
  BY Shapes
<1>4. \A k \in 1 .. n : answers[k] \in Writes \cup {Hello}
  BY <1>3, ElementOfSeq
<1>5. Len(answers') = n /\ \A k \in 1 .. n : answers'[k] = answers[k]
  BY <1>1, <1>3, <1>4, SubSeqProperties
<1>6. Control'
  BY <1>2 DEF IInv, Control
<1>7. CASE handshake
  <2>1. /\ Len(answers) = Sent
        /\ \A k \in 1 .. Len(answers) : answers[k] = pipeline[k].write /\ answers[k] \in applied
        /\ \A k \in 1 .. Sent : pipeline[k].write \in Decided
        /\ \A j \in 1 .. Len(wire) : wire[j] = pipeline[Sent + j].write
    BY <1>2, <1>7 DEF IInv, Exchange
  <2>2. Sent' = Sent /\ Decided' = Decided /\ Len(answers') <= Sent
    BY <1>1, <1>2, <1>3, <1>5, <2>1 DEF Sent, Decided
  <2>3. \A k \in 1 .. n : k \in 1 .. Len(answers)
    BY <1>1, <1>3
  <2>4. Exchange'
    BY <1>2, <1>5, <2>1, <2>2, <2>3 DEF Exchange
  <2> QED
    BY <1>2, <1>6, <1>7, <2>4 DEF StreamInv, Handshaking
<1>8. CASE ~ handshake
  <2>1. answers # << >> => answers = <<Hello>> /\ wire = << >>
    BY <1>2, <1>8 DEF IInv, Handshaking
  <2>2. n = 0 => answers' = << >>
    BY <1>1, SubSeqEmpty
  <2>3. n # 0 => n = Len(answers) /\ answers # << >>
    BY <1>1, <1>3, <2>1, EmptySeq
  <2>4. n # 0 => answers' = answers
    BY <1>1, <1>3, <2>3, SubSeqFull
  <2>5. answers' # << >> => answers' = <<Hello>> /\ wire' = << >>
    BY <1>2, <2>1, <2>2, <2>3, <2>4
  <2> QED
    BY <1>2, <1>6, <1>8, <2>5 DEF StreamInv, Handshaking, Exchange
<1> QED
  BY <1>7, <1>8

LEMMA OtherStreamInv ==
    ASSUME IInv, WriteMutations \/ UNCHANGED vars \/ \E r \in late : LateRequest(r)
    PROVE  StreamInv'
<1>1. /\ UNCHANGED <<pipeline, stream, handshake, idle, fresh, wire, answers, closing>>
      /\ applied \subseteq applied' /\ refused \subseteq refused'
  BY DEF WriteMutations, LateRequest, vars, memory, network, server
<1>2. Control' /\ Handshaking'
  BY <1>1 DEF IInv, Control, Handshaking
<1>3. Exchange'
  BY <1>1 DEF IInv, Exchange, Sent, Decided
<1> QED
  BY <1>2, <1>3 DEF StreamInv

LEMMA NextStream ==
    ASSUME IInv, [Next]_vars
    PROVE  StreamInv'
  BY GiveUpStreamInv, ProcessStreamInv, CredentialsStreamInv, WriteLocallyStreamInv,
     HandshakeCompleteStreamInv, MutationResultStreamInv, ServerAcceptsStreamInv,
     ServerRefusesStreamInv, StreamBreaksStreamInv, OtherStreamInv DEF Next

-----------------------------------------------------------------------------
\* Writes only move on: off the worker queue, to the server, or away with a
\* crash that finds them on the worker queue.
LEMMA WritesMoveOn ==
    ASSUME IInv, [Next]_vars
    PROVE  /\ Behind' \in Nat /\ Behind <= Behind'
           /\ Decided \subseteq Decided' /\ lost \subseteq lost'
           /\ \A w \in lost' : w \in lost \/ w \notin 1 .. Behind
<1>1. Behind \in Nat /\ Len(calls) \in Nat /\ issued = Behind + Len(calls) /\ issued \in Nat
      /\ calls \in Seq(Writes)
  BY Shapes
<1>2. applied \subseteq applied' /\ refused \subseteq refused'
  <2>1. CASE Aside
    BY <2>1 DEF Aside
  <2>2. CASE ~ Aside
    <3>1. UNCHANGED <<applied, refused>>
      BY <2>2, Steps DEF WriteMutations, WriteLocally, StoreAndSend, MutationResult,
            CloseAndReject, Reject, RestartNetwork, RestartWith, Kill, Start,
            StartCountingFrom, server
    <3> QED
      BY <3>1
  <2> QED
    BY <2>1, <2>2
<1>3. Decided \subseteq Decided'
  BY <1>2 DEF Decided
<1>4. CASE WriteLocally
  <2>1. Behind' = Behind + 1 /\ lost' = lost
    BY <1>4, StoringEffect DEF WriteLocally, StoreAndSend
  <2> QED
    BY <1>1, <1>3, <2>1
<1>5. CASE WriteMutations
  <2>1. calls' = Append(calls, issued + 1) /\ issued' = issued + 1 /\ lost' = lost
        /\ issued < NumWrites
    BY <1>5 DEF WriteMutations
  <2>2. issued + 1 \in Writes
    BY <1>1, <2>1, NumWritesAssumption DEF Writes
  <2>3. Len(calls') = Len(calls) + 1
    BY <1>1, <2>1, <2>2, AppendProperties
  <2> QED
    BY <1>1, <1>3, <2>1, <2>3 DEF Behind
<1>6. CASE Kill
  <2>1. calls' = << >> /\ issued' = issued /\ lost' = lost \cup {calls[k] : k \in DOMAIN calls}
    BY <1>6 DEF Kill
  <2>2. Behind' = issued
    BY <1>1, <2>1, EmptySeq DEF Behind
  <2>3. \A k \in DOMAIN calls : calls[k] \notin 1 .. Behind
    <3>1. \A k \in 1 .. Len(calls) : calls[k] = Behind + k
      BY DEF IInv, CallsInOrder
    <3>2. DOMAIN calls = 1 .. Len(calls)
      BY <1>1
    <3> QED
      BY <1>1, <3>1, <3>2
  <2> QED
    BY <1>1, <1>3, <2>1, <2>2, <2>3
<1>7. CASE UNCHANGED <<issued, calls, lost>>
  BY <1>1, <1>3, <1>7 DEF Behind
<1>8. WriteLocally \/ WriteMutations \/ Kill \/ UNCHANGED <<issued, calls, lost>>
  BY Steps DEF MutationResult, CloseAndReject, Reject, RestartNetwork, RestartWith, Start,
               StartCountingFrom, Aside
<1> QED
  BY <1>4, <1>5, <1>6, <1>7, <1>8

LEMMA OrderStays ==
    ASSUME IInv, [Next]_vars, NEW r \in Seq(Writes), InOrder(r)
    PROVE  InOrder(r)'
<1>1. /\ Behind \in Nat /\ Behind' \in Nat /\ Behind <= Behind'
      /\ Decided \subseteq Decided' /\ lost \subseteq lost'
      /\ \A w \in lost' : w \in lost \/ w \notin 1 .. Behind
  BY WritesMoveOn, Shapes
<1>2. ASSUME NEW k \in 1 .. Len(r)
      PROVE  /\ r[k] \in 1 .. Behind' /\ r[k] \notin lost'
             /\ \A v \in 1 .. Behind' : v < r[k] =>
                   \/ v \in lost' \/ v \in Decided'
                   \/ \E j \in 1 .. k - 1 : r[j] = v
  <2>1. r[k] \in 1 .. Behind /\ r[k] \notin lost
    BY DEF InOrder
  <2>2. r[k] \in 1 .. Behind' /\ r[k] \notin lost'
    BY <1>1, <2>1
  <2>3. ASSUME NEW v \in 1 .. Behind', v < r[k]
        PROVE  v \in lost' \/ v \in Decided' \/ \E j \in 1 .. k - 1 : r[j] = v
    <3>1. v \in 1 .. Behind
      BY <1>1, <2>1, <2>3
    <3>2. v \in lost \/ v \in Decided \/ \E j \in 1 .. k - 1 : r[j] = v
      BY <2>3, <3>1 DEF InOrder
    <3> QED
      BY <1>1, <3>2
  <2> QED
    BY <2>2, <2>3
<1> QED
  BY <1>2 DEF InOrder

\* What the server may yet take of the streams given up comes in order.
LEMMA NextLate ==
    ASSUME IInv, [Next]_vars
    PROVE  \A r \in late' : r \in Seq(Writes) /\ r # << >> /\ InOrder(r)'
<1>1. \A r \in late : r \in Seq(Writes) /\ r # << >> /\ InOrder(r)
  BY DEF IInv, TypeOK, LateInOrder
<1>2. CASE GiveUpStream
  <2>1. \A r \in late' : r \in Seq(Writes) /\ r # << >> /\ InOrder(r)
    BY <1>2, GivingUp
  <2> QED
    BY <2>1, OrderStays
<1>3. CASE late' = late
  BY <1>1, <1>3, OrderStays
<1>4. ASSUME NEW q \in late, LateRequest(q), NEW r \in late'
      PROVE  r \in Seq(Writes) /\ r # << >> /\ InOrder(r)'
  <2>1. CASE r \in late
    BY <1>1, <2>1, OrderStays
  <2>2. CASE r \notin late
    <3>1. r = Tail(q) /\ r # << >> /\ applied' = applied \cup {Head(q)}
      BY <1>4, <2>2 DEF LateRequest
    <3>2. q \in Seq(Writes) /\ q # << >> /\ InOrder(q)
      BY <1>1
    <3>3. /\ r \in Seq(Writes) /\ Len(r) = Len(q) - 1 /\ Len(q) \in Nat
          /\ \A k \in 1 .. Len(r) : r[k] = q[k + 1]
      BY <3>1, <3>2, HeadTailProperties
    <3>4. q[1] \in Decided'
      BY <3>1, <3>2 DEF Decided
    <3>5. InOrder(q)'
      BY <3>2, OrderStays
    <3>6. ASSUME NEW k \in 1 .. Len(r)
          PROVE  /\ r[k] \in 1 .. Behind' /\ r[k] \notin lost'
                 /\ \A v \in 1 .. Behind' : v < r[k] =>
                       \/ v \in lost' \/ v \in Decided'
                       \/ \E j \in 1 .. k - 1 : r[j] = v
      <4>1. k + 1 \in 1 .. Len(q) /\ r[k] = q[k + 1]
        BY <3>3
      <4>2. /\ q[k + 1] \in 1 .. Behind' /\ q[k + 1] \notin lost'
            /\ \A v \in 1 .. Behind' : v < q[k + 1] =>
                  \/ v \in lost' \/ v \in Decided'
                  \/ \E j \in 1 .. (k + 1) - 1 : q[j] = v
        BY <3>5, <4>1 DEF InOrder
      <4>3. ASSUME NEW v \in 1 .. Behind', v < r[k]
            PROVE  \/ v \in lost' \/ v \in Decided'
                   \/ \E j \in 1 .. k - 1 : r[j] = v
        <5>1. CASE \E j \in 1 .. (k + 1) - 1 : q[j] = v
          <6>1. PICK j \in 1 .. (k + 1) - 1 : q[j] = v
            BY <5>1
          <6>2. CASE j = 1
            BY <3>4, <6>1, <6>2
          <6>3. CASE j > 1
            <7>1. /\ j - 1 \in 1 .. k - 1 /\ j - 1 \in 1 .. Len(r) /\ (j - 1) + 1 = j
              BY <3>3, <6>3
            <7>2. r[j - 1] = v
              BY <3>3, <6>1, <7>1
            <7> QED
              BY <7>1, <7>2
          <6> QED
            BY <6>2, <6>3
        <5> QED
          BY <4>1, <4>2, <4>3, <5>1
      <4> QED
        BY <4>1, <4>2, <4>3
    <3> QED
      BY <3>1, <3>3, <3>6 DEF InOrder
  <2> QED
    BY <2>1, <2>2
<1>5. GiveUpStream \/ late' = late \/ \E q \in late : LateRequest(q)
  <2> DEFINE Gives == GiveUpStream \/ late' = late
  <2>1. WriteMutations \/ WriteLocally => Gives
    BY DEF WriteMutations, WriteLocally, StoreAndSend, network
  <2>2. CredentialsArrive \/ CredentialsFail \/ StaleCredentialsArrive \/ BackoffElapsed => Gives
    BY DEF CredentialsArrive, CredentialsFail, StaleCredentialsArrive, BackoffElapsed, network
  <2>3. HandshakeComplete \/ MutationResult => Gives
    BY DEF HandshakeComplete, MutationResult
  <2>4. IdleTimeout \/ CloseAndRetry \/ CloseAndReject \/ RestartNetwork \/ Kill => Gives
    BY DEF IdleTimeout, CloseAndRetry, CloseAndReject, Reject, RestartNetwork, RestartWith, Kill
  <2>5. Start \/ ServerAccepts \/ ServerRefuses \/ StreamBreaks => Gives
    BY DEF Start, StartCountingFrom, network, ServerAccepts, ServerRefuses, StreamBreaks
  <2>6. UNCHANGED vars => Gives
    BY DEF vars, network
  <2>7. ASSUME NEW q, q \in late, LateRequest(q) PROVE \E q1 \in late : LateRequest(q1)
    BY <2>7
  <2> HIDE DEF Gives
  <2>8. Gives \/ \E q \in late : LateRequest(q)
    BY <2>1, <2>2, <2>3, <2>4, <2>5, <2>6 DEF Next
  <2> QED
    BY <2>8 DEF Gives
<1> QED
  BY <1>2, <1>3, <1>4, <1>5

-----------------------------------------------------------------------------
\* The types of what the device keeps, of its stream, and of the server.
DeviceTypes ==
    /\ up \in BOOLEAN /\ issued \in 0 .. NumWrites
    /\ calls \in Seq(Writes) /\ db \in Seq(Batch) /\ pipeline \in Seq(Batch)
    /\ nextId \in Nat \ {0}
    /\ verdict \in [Writes -> {"none", "ok", "error"}]
    /\ lost \subseteq Writes

StreamTypes ==
    /\ fresh \in Nat /\ stale \in Nat /\ stream \in Streams
    /\ handshake \in BOOLEAN /\ idle \in BOOLEAN

ServerTypes ==
    /\ wire \in Seq(Writes \cup {Hello}) /\ answers \in Seq(Writes \cup {Hello})
    /\ closing \in {"none", "transient", "permanent"}
    /\ applied \subseteq Writes /\ refused \subseteq Writes
    /\ faults \in 0 .. MaxFaults

LEMMA TypesInParts ==
    IInv => DeviceTypes /\ StreamTypes /\ ServerTypes
  BY DEF IInv, TypeOK, DeviceTypes, StreamTypes, ServerTypes, Streams

LEMMA NextDeviceTypes ==
    ASSUME IInv, [Next]_vars
    PROVE  DeviceTypes'
<1>0. DeviceTypes
  BY TypesInParts
<1>1. CASE WriteMutations
  <2>1. issued + 1 \in Writes /\ issued + 1 \in 0 .. NumWrites
    BY <1>0, <1>1, NumWritesAssumption DEF WriteMutations, DeviceTypes, Writes
  <2>2. calls' \in Seq(Writes)
    BY <1>0, <1>1, <2>1, AppendProperties DEF WriteMutations, DeviceTypes
  <2> QED
    BY <1>0, <1>1, <2>1, <2>2 DEF WriteMutations, DeviceTypes
<1>2. CASE WriteLocally
  <2>1. calls' \in Seq(Writes) /\ db' \in Seq(Batch) /\ pipeline' \in Seq(Batch)
    BY <1>2, StoringEffect DEF Grown
  <2>2. /\ nextId' = nextId + 1
        /\ UNCHANGED <<up, issued, verdict, lost>>
    BY <1>2 DEF WriteLocally, StoreAndSend
  <2> QED
    BY <1>0, <2>1, <2>2 DEF DeviceTypes
<1>3. CASE MutationResult
  <2>1. /\ Head(pipeline).write \in Writes
        /\ db' \in Seq(Batch) /\ pipeline' \in Seq(Batch)
    BY <1>3, AnswerFindsBatch, DroppingEffect DEF MutationResult, Grown
  <2>2. /\ verdict' = [verdict EXCEPT ![Head(pipeline).write] = "ok"]
        /\ UNCHANGED <<up, issued, calls, nextId, lost>>
    BY <1>3 DEF MutationResult
  <2> QED
    BY <1>0, <2>1, <2>2 DEF DeviceTypes
<1>4. CASE CloseAndReject
  <2>1. pipeline # << >>
    BY <1>4 DEF CloseAndReject, Reject
  <2>2. pipeline[1] = Head(pipeline) /\ RemoveAt(pipeline, 1) = Tail(pipeline)
    BY <2>1, DroppingEffect, RemoveFirstPlace, Shapes
  <2>3. /\ db' = Without(db, Head(pipeline).id) /\ pipeline' = Filled(Tail(pipeline), db')
        /\ verdict' = [verdict EXCEPT ![Head(pipeline).write] = "error"]
        /\ UNCHANGED <<up, issued, calls, nextId, lost>>
    BY <1>4, <2>2 DEF CloseAndReject, Reject
  <2>4. /\ Head(pipeline).write \in Writes
        /\ db' \in Seq(Batch) /\ pipeline' \in Seq(Batch)
    BY <2>1, <2>3, DroppingEffect DEF Grown
  <2> QED
    BY <1>0, <2>3, <2>4 DEF DeviceTypes
<1>5. CASE RestartNetwork
  <2>1. pipeline' \in Seq(Batch)
    BY <1>5, FilledAnew DEF RestartNetwork, RestartWith, Grown
  <2> QED
    BY <1>0, <1>5, <2>1 DEF RestartNetwork, RestartWith, DeviceTypes
<1>6. CASE Kill
  <2>1. \A k \in DOMAIN calls : calls[k] \in Writes
    BY <1>0, ElementOfSeq DEF DeviceTypes
  <2>2. /\ ~ up' /\ up' \in BOOLEAN /\ calls' = << >> /\ pipeline' = << >>
        /\ lost' = lost \cup {calls[k] : k \in DOMAIN calls}
        /\ UNCHANGED <<issued, db, nextId, verdict>>
    BY <1>6 DEF Kill
  <2>3. << >> \in Seq(Writes) /\ << >> \in Seq(Batch)
    BY EmptySeq
  <2> QED
    BY <1>0, <2>1, <2>2, <2>3 DEF DeviceTypes
<1>7. CASE Start
  <2>1. pipeline' \in Seq(Batch)
    BY <1>7, FilledAnew DEF Start, StartCountingFrom, Grown
  <2>2. db # << >> => db[Len(db)].id \in Nat
    <3>1. db \in Seq(Batch)
      BY <1>0 DEF DeviceTypes
    <3>2. db # << >> => Len(db) \in 1 .. Len(db)
      BY <3>1, EmptySeq
    <3> QED
      BY <3>1, <3>2, BatchesOf
  <2>3. /\ up' = TRUE /\ nextId' = IF db = << >> THEN 1 ELSE db[Len(db)].id + 1
        /\ UNCHANGED <<issued, calls, db, lost, verdict>>
    BY <1>7 DEF Start, StartCountingFrom
  <2> QED
    BY <1>0, <2>1, <2>2, <2>3 DEF DeviceTypes
<1>8. CASE Aside
  BY <1>0, <1>8 DEF Aside, DeviceTypes
<1> QED
  BY <1>1, <1>2, <1>3, <1>4, <1>5, <1>6, <1>7, <1>8, Steps

\* The control invariant after the step says where the stream can be.
LEMMA NextStreamTypes ==
    ASSUME IInv, [Next]_vars
    PROVE  StreamTypes'
<1>0. StreamTypes
  BY TypesInParts
<1>1. fresh' \in Nat
  BY NextStream DEF StreamInv, Control
<1>2. \A s \in Streams : \A p : Started(s, p) \in Streams
  BY StartedIs DEF Streams
<1>3. "initial" \in Streams /\ "error" \in Streams
  BY DEF Streams
<1>4. CASE WriteMutations \/ UNCHANGED vars
  BY <1>0, <1>4 DEF WriteMutations, vars, memory, StreamTypes
<1>5. CASE WriteLocally
  <2>1. idle' \in BOOLEAN
    BY <1>0, <1>5 DEF WriteLocally, StoreAndSend, StreamTypes
  <2> QED
    BY <1>0, <1>1, <1>2, <1>5, <2>1 DEF WriteLocally, StoreAndSend, StreamTypes
<1>6. CASE CredentialsArrive \/ CredentialsFail \/ StaleCredentialsArrive \/ BackoffElapsed
  <2>1. stale' \in Nat
    BY <1>0, <1>6 DEF CredentialsArrive, CredentialsFail, StaleCredentialsArrive,
                      BackoffElapsed, StreamTypes
  <2>2. handshake' \in BOOLEAN /\ idle' \in BOOLEAN
    BY <1>0, <1>6 DEF CredentialsArrive, CredentialsFail, StaleCredentialsArrive,
                      BackoffElapsed, StreamTypes
  <2>3. stream' \in Streams
    <3>1. CASE CredentialsFail
      BY <1>2, <1>3, <3>1 DEF CredentialsFail
    <3>2. CASE CredentialsArrive \/ StaleCredentialsArrive \/ BackoffElapsed
      BY <1>0, <3>2 DEF CredentialsArrive, StaleCredentialsArrive, BackoffElapsed,
                        StreamTypes, Streams
    <3> QED
      BY <1>6, <3>1, <3>2
  <2> QED
    BY <1>1, <2>1, <2>2, <2>3 DEF StreamTypes
<1>7. CASE HandshakeComplete
  <2>1. idle' \in BOOLEAN /\ handshake' \in BOOLEAN /\ UNCHANGED <<stream, stale>>
    BY <1>7 DEF HandshakeComplete
  <2> QED
    BY <1>0, <1>1, <2>1 DEF StreamTypes
<1>8. CASE MutationResult
  <2>1. idle' \in BOOLEAN /\ UNCHANGED <<stream, stale, handshake>>
    <3>1. pipeline' = << >> => idle' = TRUE
      BY <1>8 DEF MutationResult
    <3>2. pipeline' # << >> => idle' \in BOOLEAN
      BY <1>8 DEF MutationResult
    <3> QED
      BY <1>8, <3>1, <3>2 DEF MutationResult
  <2> QED
    BY <1>0, <1>1, <2>1 DEF StreamTypes
<1>9. CASE IdleTimeout \/ CloseAndRetry \/ CloseAndReject \/ RestartNetwork
  <2>1. stale' = stale + fresh /\ handshake' = FALSE /\ idle' = FALSE
    BY <1>9 DEF IdleTimeout, CloseAndRetry, CloseAndReject, Reject, RestartNetwork, RestartWith
  <2>3. stale' \in Nat
    BY <1>0, <2>1 DEF StreamTypes
  <2>4. handshake' \in BOOLEAN /\ idle' \in BOOLEAN
    BY <2>1
  <2>2. stream' \in Streams
    <3>1. CASE CloseAndReject \/ RestartNetwork
      BY <1>2, <1>3, <3>1 DEF CloseAndReject, Reject, RestartNetwork, RestartWith
    <3>2. CASE IdleTimeout \/ CloseAndRetry
      BY <1>2, <1>3, <3>2 DEF IdleTimeout, CloseAndRetry
    <3> QED
      BY <1>9, <3>1, <3>2
  <2> QED
    BY <1>1, <2>2, <2>3, <2>4 DEF StreamTypes
<1>10. CASE Kill
  BY <1>1, <1>3, <1>10 DEF Kill, StreamTypes
<1>11. CASE Start
  BY <1>0, <1>1, <1>2, <1>3, <1>11 DEF Start, StartCountingFrom, StreamTypes
<1>12. CASE \/ ServerAccepts \/ ServerRefuses \/ StreamBreaks
            \/ \E r \in late : LateRequest(r)
  BY <1>0, <1>12 DEF ServerAccepts, ServerRefuses, StreamBreaks, LateRequest, memory,
                     StreamTypes
<1> QED
  BY <1>4, <1>5, <1>6, <1>7, <1>8, <1>9, <1>10, <1>11, <1>12 DEF Next

LEMMA NextServerTypes ==
    ASSUME IInv, [Next]_vars
    PROVE  ServerTypes'
<1> DEFINE Requests == Writes \cup {Hello}
<1>0. ServerTypes
  BY TypesInParts
<1>1. faults' \in 0 .. MaxFaults
  <2>1. faults' = faults \/ Fault
    BY DEF Next, WriteMutations, WriteLocally, StoreAndSend, CredentialsArrive, CredentialsFail,
           StaleCredentialsArrive, BackoffElapsed, HandshakeComplete, MutationResult,
           IdleTimeout, CloseAndRetry, CloseAndReject, Reject, RestartNetwork, RestartWith,
           Kill, Start, StartCountingFrom, ServerAccepts, ServerRefuses, StreamBreaks,
           LateRequest, vars
  <2> QED
    BY <1>0, <2>1, MaxFaultsAssumption DEF Fault, ServerTypes
<1>2. << >> \in Seq(Requests)
  BY EmptySeq
<1>3. CASE GiveUpStream /\ UNCHANGED <<applied, refused>>
  BY <1>0, <1>1, <1>2, <1>3 DEF GiveUpStream, ServerTypes
<1>4. CASE WriteLocally
  <2>1. wire' \in Seq(Requests)
    BY <1>0, <1>4, StoringEffect DEF Sends, ServerTypes
  <2> QED
    BY <1>0, <1>1, <1>4, <2>1 DEF WriteLocally, StoreAndSend, server, ServerTypes
<1>5. CASE CredentialsArrive
  <2>1. <<Hello>> \in Seq(Requests)
    OBVIOUS
  <2> QED
    BY <1>0, <1>1, <1>2, <1>5, <2>1 DEF CredentialsArrive, server, ServerTypes
<1>6. CASE HandshakeComplete
  <2>1. answers' \in Seq(Requests)
    BY <1>0, <1>6, HeadTailProperties DEF HandshakeComplete, ServerTypes
  <2>2. WritesOf(pipeline) \in Seq(Requests)
    BY Shapes, WritesOfSeq, SeqMonotonic
  <2>3. wire' \in Seq(Requests)
    BY <1>0, <1>6, <2>2, ConcatProperties DEF HandshakeComplete, ServerTypes
  <2> QED
    BY <1>0, <1>1, <1>6, <2>1, <2>3 DEF HandshakeComplete, server, ServerTypes
<1>7. CASE MutationResult
  <2>1. answers' \in Seq(Requests)
    BY <1>0, <1>7, HeadTailProperties DEF MutationResult, ServerTypes
  <2>2. /\ pipeline # << >>
        /\ pipeline' = Filled(Tail(pipeline), Without(db, Head(pipeline).id))
        /\ wire' = wire \o WritesOf(SubSeq(pipeline', Len(Tail(pipeline)) + 1, Len(pipeline')))
    BY <1>7, AnswerFindsBatch DEF MutationResult
  <2>3. /\ Grown(pipeline', Tail(pipeline), Without(db, Head(pipeline).id))
        /\ Tail(pipeline) \in Seq(Batch)
    BY <2>2, DroppingEffect
  <2>4. pipeline' \in Seq(Batch) /\ Len(Tail(pipeline)) \in 0 .. Len(pipeline')
    BY <2>3 DEF Grown
  <2>5. wire' \in Seq(Requests)
    BY <1>0, <2>2, <2>4, Sending DEF Sends, ServerTypes
  <2> QED
    BY <1>0, <1>1, <1>7, <2>1, <2>5 DEF MutationResult, server, ServerTypes
<1>8. CASE ServerAccepts \/ ServerRefuses
  <2>1. wire # << >> /\ wire' = Tail(wire)
    BY <1>8 DEF ServerAccepts, ServerRefuses
  <2>2. Head(wire) \in Requests /\ wire' \in Seq(Requests)
    BY <1>0, <2>1, HeadTailProperties DEF ServerTypes
  <2>3. CASE ServerAccepts
    <3>1. answers' \in Seq(Requests)
      BY <1>0, <2>2, <2>3, AppendProperties DEF ServerAccepts, ServerTypes
    <3>2. applied' \subseteq Writes /\ UNCHANGED <<closing, refused>>
      BY <1>0, <2>2, <2>3 DEF ServerAccepts, ServerTypes
    <3> QED
      BY <1>0, <1>1, <2>2, <3>1, <3>2 DEF ServerTypes
  <2>4. CASE ServerRefuses
    <3>1. refused' \subseteq Writes /\ closing' = "permanent" /\ UNCHANGED <<answers, applied>>
      BY <1>0, <2>2, <2>4 DEF ServerRefuses, ServerTypes
    <3> QED
      BY <1>0, <1>1, <2>2, <3>1 DEF ServerTypes
  <2> QED
    BY <1>8, <2>3, <2>4
<1>9. CASE StreamBreaks
  <2>1. PICK n \in 0 .. Len(answers) : answers' = SubSeq(answers, 1, n)
    BY <1>9 DEF StreamBreaks
  <2>2. answers' \in Seq(Requests)
    <3>1. answers \in Seq(Requests)
      BY <1>0 DEF ServerTypes
    <3>2. \A i \in 1 .. n : answers[i] \in Requests
      BY <3>1, ElementOfSeq
    <3> QED
      BY <2>1, <3>2, SubSeqProperties
  <2> QED
    BY <1>0, <1>1, <1>9, <2>2 DEF StreamBreaks, server, ServerTypes
<1>10. CASE \E q \in late : LateRequest(q)
  <2>1. PICK q \in late : LateRequest(q)
    BY <1>10
  <2>2. q \in Seq(Writes) /\ q # << >>
    BY <2>1 DEF IInv, TypeOK
  <2>3. Head(q) \in Writes
    BY <2>2, HeadTailProperties
  <2> QED
    BY <1>0, <1>1, <2>1, <2>3 DEF LateRequest, ServerTypes
<1>11. CASE UNCHANGED <<wire, answers, closing, applied, refused>>
  BY <1>0, <1>1, <1>11 DEF ServerTypes
<1>12. IdleTimeout \/ CloseAndRetry \/ CloseAndReject \/ RestartNetwork \/ Kill
          => GiveUpStream /\ UNCHANGED <<applied, refused>>
  BY DEF IdleTimeout, CloseAndRetry, CloseAndReject, Reject, RestartNetwork, RestartWith, Kill,
         server
<1>13. WriteMutations \/ CredentialsFail \/ StaleCredentialsArrive \/ BackoffElapsed \/ Start
          \/ UNCHANGED vars
          => UNCHANGED <<wire, answers, closing, applied, refused>>
  BY DEF WriteMutations, CredentialsFail, StaleCredentialsArrive, BackoffElapsed, Start,
         StartCountingFrom, network, server, vars
<1> QED
  BY <1>3, <1>4, <1>5, <1>6, <1>7, <1>8, <1>9, <1>10, <1>11, <1>12, <1>13 DEF Next

-----------------------------------------------------------------------------
LEMMA InitIInv == Init => IInv
<1> SUFFICES ASSUME Init PROVE IInv
  OBVIOUS
<1> USE DEF Init
<1>1. TypeOK
  <2>1. << >> \in Seq(Writes) /\ << >> \in Seq(Batch) /\ << >> \in Seq(Writes \cup {Hello})
    BY EmptySeq
  <2>2. issued \in 0 .. NumWrites /\ faults \in 0 .. MaxFaults /\ nextId \in Nat \ {0}
    BY NumWritesAssumption, MaxFaultsAssumption
  <2>3. verdict \in [Writes -> {"none", "ok", "error"}]
    OBVIOUS
  <2> QED
    BY <2>1, <2>2, <2>3 DEF TypeOK
<1>2. Len(db) = 0 /\ DOMAIN db = {} /\ Behind = 0 /\ Len(pipeline) = 0
  <2>1. db = << >> /\ calls = << >> /\ pipeline = << >> /\ issued = 0
    OBVIOUS
  <2>2. << >> \in Seq(Batch) /\ Len(<< >>) = 0
    BY EmptySeq
  <2>3. Len(db) = 0 /\ Len(calls) = 0 /\ Len(pipeline) = 0 /\ db \in Seq(Batch)
    BY <2>1, <2>2
  <2>4. DOMAIN db = {}
    <3>1. DOMAIN db = 1 .. Len(db)
      BY <2>3
    <3> QED
      BY <2>3, <3>1
  <2> HIDE DEF Init
  <2>5. Behind = 0
    <3>1. issued = 0 /\ Len(calls) = 0
      BY <2>1, <2>3
    <3> QED
      BY <3>1 DEF Behind
  <2> QED
    BY <2>3, <2>4, <2>5
<1>3. BatchesAscend /\ CallsInOrder /\ Queue /\ InLine
  <2>1. Len(calls) = 0 /\ issued = 0
    OBVIOUS
  <2>2. BatchesAscend
    BY <1>2 DEF BatchesAscend
  <2>3. CallsInOrder
    BY <1>2, <2>1 DEF CallsInOrder
  <2>4. Queue
    BY <1>2 DEF Queue
  <2>5. InLine
    <3>1. Begins(pipeline, db)
      BY <1>2 DEF Begins
    <3> QED
      BY <1>2, <3>1, MaxPendingAssumption DEF InLine
  <2> QED
    BY <2>2, <2>3, <2>4, <2>5
<1>4. Control /\ Handshaking /\ Exchange /\ LateInOrder
  BY DEF Control, Handshaking, Exchange, LateInOrder
<1> QED
  BY <1>1, <1>3, <1>4 DEF IInv

LEMMA NextIInv ==
    ASSUME IInv, [Next]_vars
    PROVE  IInv'
<1>1. QueueInv' /\ StreamInv'
  BY NextQueue, NextStream
<1>2. DeviceTypes' /\ StreamTypes' /\ ServerTypes'
  BY NextDeviceTypes, NextStreamTypes, NextServerTypes
<1>3. \A r \in late' : r \in Seq(Writes) /\ r # << >> /\ InOrder(r)'
  BY NextLate
<1>4. TypeOK'
  BY <1>2, <1>3 DEF TypeOK, DeviceTypes, StreamTypes, ServerTypes, Streams
<1>5. LateInOrder'
  BY <1>3 DEF LateInOrder
<1> QED
  BY <1>1, <1>4, <1>5 DEF IInv, QueueInv, StreamInv

\* The client, its stream and the server agree in every state.
THEOREM InvariantHolds == Spec => []IInv
<1>1. IInv /\ UNCHANGED vars => IInv'
  BY NextIInv
<1> QED
  BY InitIInv, NextIInv, PTL DEF Spec

\* RemoteStore's types hold, for any number of writes, faults and places in the
\* pipeline.
THEOREM TypesHold == Spec => []TypeOK
<1>1. IInv => TypeOK
  BY DEF IInv
<1> QED
  BY <1>1, InvariantHolds, PTL

\* The batches in LevelDB (leveldb_mutation_queue.cc) keep ascending ids and the
\* order in which the writes were made.
THEOREM BatchesStayAscending == Spec => []BatchesAscend
<1>1. IInv => BatchesAscend
  BY DEF IInv
<1> QED
  BY <1>1, InvariantHolds, PTL

-----------------------------------------------------------------------------
LEMMA PrefixOf ==
    ASSUME NEW S, NEW s \in Seq(S), NEW t \in Seq(S), Len(s) <= Len(t),
           \A k \in 1 .. Len(s) : s[k] = t[k]
    PROVE  IsPrefix(s, t)
<1>1. Len(s) \in Nat /\ Len(t) \in Nat
  OBVIOUS
<1>2. \A k \in 1 .. Len(s) : s[k] \in S /\ t[k] \in S
  BY <1>1, ElementOfSeq
<1>3. /\ SubSeq(s, 1, Len(s)) \in Seq(S) /\ SubSeq(t, 1, Len(s)) \in Seq(S)
      /\ Len(SubSeq(s, 1, Len(s))) = Len(s) /\ Len(SubSeq(t, 1, Len(s))) = Len(s)
      /\ \A k \in 1 .. Len(s) : SubSeq(s, 1, Len(s))[k] = s[k]
      /\ \A k \in 1 .. Len(s) : SubSeq(t, 1, Len(s))[k] = t[k]
  BY <1>1, <1>2, SubSeqProperties
<1>4. SubSeq(s, 1, Len(s)) = SubSeq(t, 1, Len(s))
  BY <1>3, SameSequence
<1> QED
  BY <1>4 DEF IsPrefix

\* The write pipeline (remote_store.cc) is always the beginning of the queue in
\* LevelDB, and as long as it can be.
THEOREM PipelineStaysInLine == Spec => []PipelineIsNextInLine
<1>1. ASSUME IInv PROVE PipelineIsNextInLine
  <2>1. /\ db \in Seq(Batch) /\ pipeline \in Seq(Batch) /\ Begins(pipeline, db)
        /\ Len(pipeline) \in Nat /\ Len(db) \in Nat
    BY <1>1, Shapes
  <2>2. IsPrefix(pipeline, db)
    BY <2>1, PrefixOf DEF Begins
  <2>3. /\ Len(pipeline) <= MaxPending
        /\ up /\ Len(pipeline) < MaxPending => Len(pipeline) = Len(db)
    BY <1>1 DEF IInv, InLine
  <2>4. Len(pipeline) = Len(db) => pipeline = db
    BY <2>1, SameSequence DEF Begins
  <2> QED
    BY <2>2, <2>3, <2>4 DEF PipelineIsNextInLine
<1> QED
  BY <1>1, InvariantHolds, PTL

\* On an open stream the answers that are left and the requests without an answer
\* are the pipeline (write_stream.cc), so that no answer meets another's batch.
THEOREM AnswersKeepMatching == Spec => []AnswersMatchThePipeline
<1>1. ASSUME IInv PROVE AnswersMatchThePipeline
  <2> SUFFICES ASSUME stream = "open"
               PROVE  LET sent == IF handshake THEN WritesOf(pipeline) ELSE <<Hello>>
                      IN  /\ closing = "none" => answers \o wire = sent
                          /\ IsPrefix(answers, sent)
    BY DEF AnswersMatchThePipeline
  <2> DEFINE Requests == Writes \cup {Hello}
  <2>1. /\ pipeline \in Seq(Batch) /\ Len(pipeline) \in Nat
        /\ wire \in Seq(Requests) /\ answers \in Seq(Requests)
        /\ Len(wire) \in Nat /\ Len(answers) \in Nat
    BY <1>1, Shapes
  <2>2. CASE handshake
    <3> DEFINE sent == WritesOf(pipeline)
    <3>1. /\ sent \in Seq(Requests) /\ Len(sent) = Len(pipeline)
          /\ \A k \in 1 .. Len(pipeline) : sent[k] = pipeline[k].write
      BY <2>1, WritesOfSeq, SeqMonotonic
    <3> HIDE DEF sent
    <3>2. /\ Len(answers) <= Sent
          /\ \A k \in 1 .. Len(answers) : answers[k] = pipeline[k].write
          /\ \A j \in 1 .. Len(wire) : wire[j] = pipeline[Sent + j].write
          /\ closing = "none" => Sent = Len(answers)
      BY <1>1, <2>2 DEF IInv, Exchange
    <3>3. IsPrefix(answers, sent)
      <4>1. Len(answers) <= Len(sent) /\ \A k \in 1 .. Len(answers) : answers[k] = sent[k]
        BY <2>1, <3>1, <3>2 DEF Sent
      <4> QED
        BY <2>1, <3>1, <4>1, PrefixOf
    <3>4. ASSUME closing = "none" PROVE answers \o wire = sent
      <4>1. Len(answers) + Len(wire) = Len(sent) /\ Sent = Len(answers)
        BY <2>1, <3>1, <3>2, <3>4 DEF Sent
      <4>2. /\ answers \o wire \in Seq(Requests)
            /\ Len(answers \o wire) = Len(answers) + Len(wire)
            /\ \A i \in 1 .. Len(answers) + Len(wire) :
                  (answers \o wire)[i] =
                      IF i <= Len(answers) THEN answers[i] ELSE wire[i - Len(answers)]
        BY <2>1, ConcatProperties
      <4>3. ASSUME NEW i \in 1 .. Len(sent) PROVE (answers \o wire)[i] = sent[i]
        <5>1. i \in 1 .. Len(pipeline) /\ i \in 1 .. Len(answers) + Len(wire)
          BY <3>1, <4>1
        <5>2. CASE i <= Len(answers)
          <6>1. i \in 1 .. Len(answers)
            BY <5>2
          <6> QED
            BY <3>1, <3>2, <4>2, <5>1, <5>2, <6>1
        <5>3. CASE ~ (i <= Len(answers))
          <6>1. i - Len(answers) \in 1 .. Len(wire) /\ Sent + (i - Len(answers)) = i
            BY <2>1, <4>1, <5>1, <5>3
          <6>2. wire[i - Len(answers)] = pipeline[i].write
            BY <3>2, <6>1
          <6> QED
            BY <3>1, <4>2, <5>1, <5>3, <6>2
        <5> QED
          BY <5>2, <5>3
      <4> QED
        BY <3>1, <4>1, <4>2, <4>3, SameSequence
    <3> QED
      BY <2>2, <3>3, <3>4 DEF sent
  <2>3. CASE ~ handshake
    <3>1. /\ answers # << >> => answers = <<Hello>> /\ wire = << >>
          /\ closing = "none" /\ answers = << >> => wire = <<Hello>>
      BY <1>1, <2>3 DEF IInv, Handshaking
    <3>2. <<Hello>> \in Seq(Requests) /\ << >> \in Seq(Requests) /\ Len(<<Hello>>) = 1
      OBVIOUS
    <3>3. closing = "none" => answers \o wire = <<Hello>>
      BY <3>1, <3>2, ConcatEmptySeq
    <3>4. IsPrefix(answers, <<Hello>>)
      <4>1. CASE answers = << >>
        <5>1. Len(answers) <= Len(<<Hello>>) /\ \A k \in 1 .. Len(answers) : FALSE
          BY <3>2, <4>1
        <5> QED
          BY <2>1, <3>2, <5>1, PrefixOf
      <4>2. CASE answers = <<Hello>>
        BY <3>2, <4>2 DEF IsPrefix
      <4> QED
        BY <3>1, <4>1, <4>2
    <3> QED
      BY <2>3, <3>3, <3>4
  <2> QED
    BY <2>2, <2>3
<1> QED
  BY <1>1, InvariantHolds, PTL

\* None of the assertions of the client's write path fails.
THEOREM AssertionsStay == Spec => []AssertionsHold
<1>1. ASSUME IInv PROVE AssertionsHold
  <2>1. Control
    BY <1>1 DEF IInv
  <2>2. ASSUME answers # << >>, handshake PROVE pipeline # << >>
    <3>1. Len(answers) <= Sent
      BY <1>1, <2>1, <2>2 DEF IInv, Control, Exchange
    <3>2. Len(answers) \in Nat /\ Len(pipeline) \in Nat /\ Len(wire) \in Nat
          /\ answers \in Seq(Writes \cup {Hello})
      BY <1>1, Shapes
    <3>3. Len(answers) > 0
      BY <2>2, <3>2, EmptySeq
    <3>4. Len(pipeline) > 0
      BY <3>1, <3>2, <3>3 DEF Sent
    <3> QED
      BY <3>4
  <2> QED
    BY <2>1, <2>2 DEF Control, AssertionsHold
<1> QED
  BY <1>1, InvariantHolds, PTL

\* Nothing that LevelDB has held is forgotten before the server has decided it.
THEOREM NothingIsForgotten == Spec => []NothingForgotten
<1>1. ASSUME IInv, NEW w \in 1 .. issued
      PROVE  /\ \/ w \in Range(calls) \/ w \in lost
                \/ w \in Range(WritesOf(db))
                \/ w \in applied \cup refused
             /\ verdict[w] = "ok" => w \in applied
  <2>1. /\ Len(calls) \in Nat /\ issued \in Nat /\ Behind \in Nat /\ issued <= NumWrites
        /\ issued = Behind + Len(calls) /\ calls \in Seq(Writes) /\ db \in Seq(Batch)
    BY <1>1, Shapes
  <2>2. w \in Writes
    BY <2>1, NumWritesAssumption DEF Writes
  <2>3. CASE w > Behind
    <3>1. w - Behind \in 1 .. Len(calls)
      BY <2>1, <2>3
    <3>2. calls[w - Behind] = Behind + (w - Behind)
      BY <1>1, <3>1 DEF IInv, CallsInOrder
    <3>3. w - Behind \in DOMAIN calls /\ calls[w - Behind] = w
      BY <2>1, <3>1, <3>2
    <3> QED
      BY <1>1, <2>2, <3>3 DEF Range, IInv, Queue
  <2>4. CASE w <= Behind
    <3>1. w \in 1 .. Behind
      BY <2>1, <2>4
    <3>2. w \in lost \/ w \in Decided \/ \E k \in 1 .. Len(db) : db[k].write = w
      BY <1>1, <3>1 DEF IInv, Queue
    <3>3. ASSUME NEW k \in 1 .. Len(db), db[k].write = w PROVE w \in Range(WritesOf(db))
      <4>1. DOMAIN WritesOf(db) = 1 .. Len(db) /\ WritesOf(db)[k] = w
        BY <2>1, <3>3 DEF WritesOf
      <4> QED
        BY <4>1 DEF Range
    <3> QED
      BY <1>1, <2>2, <3>2, <3>3 DEF IInv, Queue, Decided
  <2> QED
    BY <2>1, <2>3, <2>4
<1>2. IInv => NothingForgotten
  BY <1>1 DEF NothingForgotten
<1> QED
  BY <1>2, InvariantHolds, PTL

-----------------------------------------------------------------------------
\* The writes stored so far, as the refinement mapping has them.
Stored == (1 .. issued) \ (Range(calls) \cup lost)

LEMMA StoredBefore ==
    ASSUME NEW n \in Nat, NEW c \in Seq(Writes), Len(c) <= n, NEW l,
           \A k \in 1 .. Len(c) : c[k] = n - Len(c) + k
    PROVE  (1 .. n) \ (Range(c) \cup l) = (1 .. n - Len(c)) \ l
<1> DEFINE m == n - Len(c)
<1>1. Len(c) \in Nat /\ m \in Nat /\ n = m + Len(c) /\ DOMAIN c = 1 .. Len(c)
  OBVIOUS
<1>2. \A k \in 1 .. Len(c) : c[k] = m + k
  OBVIOUS
<1> HIDE DEF m
<1>3. ASSUME NEW w \in 1 .. m PROVE w \in 1 .. n /\ w \notin Range(c)
  BY <1>1, <1>2, <1>3 DEF Range
<1>4. ASSUME NEW w \in 1 .. n, w \notin Range(c) PROVE w \in 1 .. m
  <2> SUFFICES ASSUME w > m PROVE FALSE
    BY <1>1, <1>4
  <2>1. w - m \in 1 .. Len(c)
    BY <1>1
  <2>2. w - m \in DOMAIN c /\ c[w - m] = w
    BY <1>1, <1>2, <2>1
  <2> QED
    BY <1>4, <2>2 DEF Range
<1>5. (1 .. n) \ (Range(c) \cup l) = (1 .. m) \ l
  BY <1>3, <1>4
<1> QED
  BY <1>5 DEF m

LEMMA StoredOf ==
    ASSUME IInv
    PROVE  Stored = (1 .. Behind) \ lost
<1>1. issued \in Nat /\ calls \in Seq(Writes)
  BY Shapes
<1>2. Len(calls) <= issued /\ \A k \in 1 .. Len(calls) : calls[k] = issued - Len(calls) + k
  BY DEF IInv, CallsInOrder, Behind
<1> QED
  BY <1>1, <1>2, StoredBefore DEF Stored, Behind

LEMMA StoredNext ==
    ASSUME IInv, [Next]_vars
    PROVE  Stored' = (1 .. Behind') \ lost'
<1>1. CallsInOrder' /\ DeviceTypes'
  BY NextQueue, NextDeviceTypes DEF QueueInv
<1>2. issued' \in Nat /\ calls' \in Seq(Writes)
  BY <1>1, NumWritesAssumption DEF DeviceTypes
<1>3. Len(calls') <= issued' /\ \A k \in 1 .. Len(calls') : calls'[k] = issued' - Len(calls') + k
  BY <1>1 DEF CallsInOrder, Behind
<1>4. (1 .. issued') \ (Range(calls') \cup lost') = (1 .. issued' - Len(calls')) \ lost'
  <2>1. ASSUME NEW n, NEW c, NEW l, n = issued', c = calls', l = lost'
        PROVE  (1 .. n) \ (Range(c) \cup l) = (1 .. n - Len(c)) \ l
    <3>1. n \in Nat /\ c \in Seq(Writes) /\ Len(c) <= n
      BY <1>2, <1>3, <2>1
    <3>2. \A k \in 1 .. Len(c) : c[k] = n - Len(c) + k
      BY <1>3, <2>1
    <3> QED
      BY <3>1, <3>2, StoredBefore
  <2> QED
    BY <2>1
<1>5. Behind' = issued' - Len(calls')
  BY DEF Behind
<1> QED
  BY <1>4, <1>5 DEF Stored

LEMMA WritesOfAppend ==
    ASSUME NEW d \in Seq(Batch), NEW b \in Batch
    PROVE  WritesOf(Append(d, b)) = Append(WritesOf(d), b.write)
<1> DEFINE e == Append(d, b)
           s == WritesOf(e)
           t == Append(WritesOf(d), b.write)
<1>1. b.write \in Writes /\ Len(d) \in Nat
  BY DEF Batch
<1>2. /\ e \in Seq(Batch) /\ Len(e) = Len(d) + 1
      /\ \A i \in 1 .. Len(d) : e[i] = d[i]
      /\ e[Len(d) + 1] = b
  BY AppendProperties
<1> HIDE DEF e
<1>3. /\ s \in Seq(Writes) /\ Len(s) = Len(e)
      /\ \A k \in 1 .. Len(e) : s[k] = e[k].write
  BY <1>2, WritesOfSeq
<1>4. /\ WritesOf(d) \in Seq(Writes) /\ Len(WritesOf(d)) = Len(d)
      /\ \A k \in 1 .. Len(d) : WritesOf(d)[k] = d[k].write
  BY WritesOfSeq
<1>5. /\ t \in Seq(Writes) /\ Len(t) = Len(d) + 1
      /\ \A i \in 1 .. Len(d) : t[i] = d[i].write
      /\ t[Len(d) + 1] = b.write
  BY <1>1, <1>4, AppendProperties
<1> HIDE DEF s, t
<1>6. \A k \in 1 .. Len(s) : s[k] = t[k]
  <2> SUFFICES ASSUME NEW k \in 1 .. Len(s) PROVE s[k] = t[k]
    OBVIOUS
  <2>1. CASE k \in 1 .. Len(d)
    BY <1>2, <1>3, <1>5, <2>1
  <2>2. CASE k = Len(d) + 1
    BY <1>2, <1>3, <1>5, <2>2
  <2> QED
    BY <1>1, <1>2, <1>3, <2>1, <2>2
<1>7. s = t
  BY <1>2, <1>3, <1>5, <1>6, SameSequence
<1> QED
  BY <1>7 DEF s, t, e

LEMMA WritesOfTail ==
    ASSUME NEW d \in Seq(Batch), d # << >>
    PROVE  /\ WritesOf(d) # << >> /\ Head(WritesOf(d)) = d[1].write
           /\ WritesOf(Tail(d)) = Tail(WritesOf(d))
<1> DEFINE e == Tail(d)
           w == WritesOf(d)
           s == WritesOf(e)
           t == Tail(w)
<1>1. /\ e \in Seq(Batch) /\ Len(e) = Len(d) - 1 /\ Len(d) \in Nat
      /\ \A i \in 1 .. Len(e) : e[i] = d[i + 1]
  BY HeadTailProperties
<1>2. 1 \in 1 .. Len(d)
  BY EmptySeq
<1> HIDE DEF e
<1>3. /\ w \in Seq(Writes) /\ Len(w) = Len(d)
      /\ \A k \in 1 .. Len(d) : w[k] = d[k].write
  BY WritesOfSeq
<1>4. /\ s \in Seq(Writes) /\ Len(s) = Len(e)
      /\ \A k \in 1 .. Len(e) : s[k] = e[k].write
  BY <1>1, WritesOfSeq
<1> HIDE DEF w, s
<1>5. w # << >> /\ Head(w) = d[1].write
  BY <1>2, <1>3
<1>6. /\ t \in Seq(Writes) /\ Len(t) = Len(w) - 1
      /\ \A i \in 1 .. Len(t) : t[i] = w[i + 1]
  BY <1>3, <1>5, HeadTailProperties
<1> HIDE DEF t
<1>7. \A k \in 1 .. Len(s) : s[k] = t[k]
  <2> SUFFICES ASSUME NEW k \in 1 .. Len(s) PROVE s[k] = t[k]
    OBVIOUS
  <2>1. k \in 1 .. Len(e) /\ k \in 1 .. Len(t) /\ k + 1 \in 1 .. Len(d)
    BY <1>1, <1>3, <1>4, <1>6
  <2> QED
    BY <1>1, <1>3, <1>4, <1>6, <2>1
<1>8. s = t
  BY <1>1, <1>3, <1>4, <1>6, <1>7, SameSequence
<1> QED
  BY <1>5, <1>8 DEF e, w, s, t

\* A request that comes in order may be taken or refused.
LEMMA RequestIsNext ==
    ASSUME IInv, NEW r \in Seq(Writes), r # << >>, InOrder(r)
    PROVE  /\ Head(r) \in Writes /\ Head(r) \in Stored
           /\ \A v \in Stored : v < Head(r) => v \in Decided
<1>1. Head(r) = r[1] /\ 1 \in 1 .. Len(r) /\ Head(r) \in Writes
  BY EmptySeq, HeadTailProperties
<1>2. /\ r[1] \in 1 .. Behind /\ r[1] \notin lost
      /\ \A v \in 1 .. Behind : v < r[1] => v \in lost \/ v \in Decided
  BY <1>1 DEF InOrder
<1> QED
  BY <1>1, <1>2, StoredOf

-----------------------------------------------------------------------------
Kept == WritesOf(db)

LEMMA KeepStep ==
    ASSUME IInv, WriteLocally
    PROVE  Promised!Next
<1>1. /\ Behind' = Behind + 1 /\ Behind + 1 \in Writes
      /\ db' = Append(db, [id |-> nextId, write |-> Behind + 1])
  BY StoringEffect
<1>2. UNCHANGED <<applied, refused, lost>>
  BY DEF WriteLocally, StoreAndSend, server
<1>3. Behind \in Nat /\ db \in Seq(Batch)
  BY Shapes
<1>4. [id |-> nextId, write |-> Behind + 1] \in Batch
  BY <1>1 DEF IInv, TypeOK, Batch
<1>5. Kept' = Append(Kept, Behind + 1)
  BY <1>1, <1>3, <1>4, WritesOfAppend DEF Kept
<1>6. Stored = (1 .. Behind) \ lost
  BY StoredOf
<1>7. Stored' = (1 .. Behind + 1) \ lost
  <2>1. Stored' = (1 .. Behind') \ lost'
    BY StoredNext DEF Next
  <2> QED
    BY <1>1, <1>2, <2>1
<1>8. lost \subseteq 1 .. Behind
  BY DEF IInv, CallsInOrder
<1>9. Stored' = Stored \cup {Behind + 1} /\ \A v \in Stored : v < Behind + 1
  BY <1>3, <1>6, <1>7, <1>8
<1>10. Promised!Keep(Behind + 1)
  BY <1>2, <1>5, <1>9 DEF Promised!Keep, Stored, Kept
<1> QED
  BY <1>1, <1>10 DEF Promised!Next, Promised!Writes, Writes

LEMMA ForgetStep ==
    ASSUME IInv, pipeline # << >>, pipeline[1].write \in Decided,
           db' = Without(db, Head(pipeline).id),
           UNCHANGED <<issued, calls, lost, applied, refused>>
    PROVE  Promised!Next
<1>1. db' = Tail(db) /\ db \in Seq(Batch) /\ Len(db) > 0 /\ pipeline[1] = db[1]
  BY Shapes, DroppingEffect
<1>2. db # << >>
  BY <1>1
<1>3. Kept # << >> /\ Head(Kept) = db[1].write /\ Kept' = Tail(Kept)
  BY <1>1, <1>2, WritesOfTail DEF Kept
<1>4. UNCHANGED Stored
  BY DEF Stored
<1>5. Promised!Forget
  BY <1>1, <1>3, <1>4 DEF Promised!Forget, Stored, Kept, Decided
<1> QED
  BY <1>5 DEF Promised!Next

LEMMA DecideStep ==
    ASSUME IInv, NEW r \in Seq(Writes), r # << >>, InOrder(r),
           UNCHANGED <<issued, calls, db, lost>>,
           \/ applied' = applied \cup {Head(r)} /\ refused' = refused
           \/ refused' = refused \cup {Head(r)} /\ applied' = applied
    PROVE  Promised!Next
<1>1. /\ Head(r) \in Writes /\ Head(r) \in Stored
      /\ \A v \in Stored : v < Head(r) => v \in Decided
  BY RequestIsNext
<1>2. UNCHANGED <<Stored, Kept>>
  BY DEF Stored, Kept
<1>3. Promised!IsNext(Head(r))
  BY <1>1 DEF Promised!IsNext, Stored, Decided
<1>4. Promised!Apply(Head(r)) \/ Promised!Refuse(Head(r))
  BY <1>1, <1>2, <1>3 DEF Promised!Apply, Promised!Refuse, Stored, Kept
<1> QED
  BY <1>1, <1>4 DEF Promised!Next, Promised!Writes, Writes

\* Steps that touch neither the queue in LevelDB nor the server.
LEMMA StutterStep ==
    ASSUME IInv, [Next]_vars, UNCHANGED <<db, applied, refused>>
    PROVE  UNCHANGED Promised!vars
<1>1. Stored' = Stored
  <2>1. Stored = (1 .. Behind) \ lost /\ Stored' = (1 .. Behind') \ lost'
    BY StoredOf, StoredNext
  <2>2. CASE WriteMutations
    <3>1. calls' = Append(calls, issued + 1) /\ issued' = issued + 1 /\ lost' = lost
          /\ issued < NumWrites
      BY <2>2 DEF WriteMutations
    <3>2. issued \in Nat /\ calls \in Seq(Writes) /\ Len(calls) \in Nat
      BY Shapes
    <3>3. issued + 1 \in Writes
      BY <3>1, <3>2, NumWritesAssumption DEF Writes
    <3>4. Len(calls') = Len(calls) + 1
      BY <3>1, <3>2, <3>3, AppendProperties
    <3>5. Behind' = Behind
      BY <3>1, <3>2, <3>4 DEF Behind
    <3> QED
      BY <2>1, <3>1, <3>5
  <2>3. CASE WriteLocally
    <3>1. Len(db') = Len(db) + 1 /\ Len(db) \in Nat
      BY <2>3, StoringEffect, Shapes
    <3> QED
      BY <3>1
  <2>4. CASE Kill
    <3>1. calls' = << >> /\ issued' = issued /\ lost' = lost \cup {calls[k] : k \in DOMAIN calls}
      BY <2>4 DEF Kill
    <3>2. lost' = lost \cup Range(calls) /\ Range(calls') = {}
      BY <3>1 DEF Range
    <3> QED
      BY <3>1, <3>2 DEF Stored
  <2>5. CASE UNCHANGED <<issued, calls, lost>>
    BY <2>5 DEF Stored
  <2>6. WriteMutations \/ WriteLocally \/ Kill \/ UNCHANGED <<issued, calls, lost>>
    BY Steps DEF MutationResult, CloseAndReject, Reject, RestartNetwork, RestartWith, Start,
                 StartCountingFrom, Aside
  <2> QED
    BY <2>2, <2>3, <2>4, <2>5, <2>6
<1> QED
  BY <1>1 DEF Promised!vars, Stored

LEMMA NextImplements ==
    ASSUME IInv, [Next]_vars
    PROVE  [Promised!Next]_(Promised!vars)
<1>1. CASE WriteLocally
  BY <1>1, KeepStep
<1>2. CASE MutationResult
  <2>1. pipeline # << >> /\ pipeline[1].write \in Decided
    BY <1>2, AnswerFindsBatch DEF Decided
  <2>2. /\ db' = Without(db, Head(pipeline).id)
        /\ UNCHANGED <<issued, calls, lost, applied, refused>>
    BY <1>2 DEF MutationResult, server
  <2> QED
    BY <2>1, <2>2, ForgetStep
<1>3. CASE CloseAndReject
  <2>1. pipeline # << >> /\ pipeline[1].write \in Decided
    BY <1>3, DroppedIsDecided DEF CloseAndReject, Reject
  <2>2. pipeline[1] = Head(pipeline)
    BY <2>1, DroppingEffect
  <2>3. /\ db' = Without(db, Head(pipeline).id)
        /\ UNCHANGED <<issued, calls, lost, applied, refused>>
    BY <1>3, <2>2 DEF CloseAndReject, Reject, server
  <2> QED
    BY <2>1, <2>3, ForgetStep
<1>4. CASE ServerAccepts \/ ServerRefuses
  <2>1. /\ stream = "open" /\ closing = "none" /\ wire # << >>
        /\ UNCHANGED <<issued, calls, db, lost>>
    BY <1>4 DEF ServerAccepts, ServerRefuses, Connected, memory
  <2>2. CASE handshake
    <3>1. wire \in Seq(Writes) /\ InOrder(wire)
      BY <2>1, <2>2, WireInOrder
    <3>2. Head(wire) # Hello
      BY <2>1, <3>1, HeadTailProperties, HelloIsNoWrite
    <3>3. \/ applied' = applied \cup {Head(wire)} /\ refused' = refused
          \/ refused' = refused \cup {Head(wire)} /\ applied' = applied
      BY <1>4, <3>2 DEF ServerAccepts, ServerRefuses
    <3> QED
      BY <2>1, <3>1, <3>3, DecideStep
  <2>3. CASE ~ handshake
    <3>1. wire = <<Hello>>
      BY <2>1, <2>3 DEF IInv, Handshaking
    <3>2. UNCHANGED <<applied, refused>>
      BY <1>4, <3>1 DEF ServerAccepts, ServerRefuses
    <3> QED
      BY <2>1, <3>2, StutterStep
  <2> QED
    BY <2>2, <2>3
<1>5. CASE \E q \in late : LateRequest(q)
  <2>1. PICK q \in late : LateRequest(q)
    BY <1>5
  <2>2. q \in Seq(Writes) /\ q # << >> /\ InOrder(q)
    BY <2>1 DEF IInv, TypeOK, LateInOrder
  <2>3. /\ UNCHANGED <<issued, calls, db, lost>>
        /\ \/ applied' = applied \cup {Head(q)} /\ refused' = refused
           \/ refused' = refused \cup {Head(q)} /\ applied' = applied
    BY <2>1 DEF LateRequest, memory
  <2> QED
    BY <2>2, <2>3, DecideStep
<1>6. CASE UNCHANGED <<db, applied, refused>>
  BY <1>6, StutterStep
<1>7. \/ WriteLocally \/ MutationResult \/ CloseAndReject \/ ServerAccepts \/ ServerRefuses
      \/ \E q \in late : LateRequest(q)
      \/ UNCHANGED <<db, applied, refused>>
  BY DEF Next, WriteMutations, CredentialsArrive, CredentialsFail, StaleCredentialsArrive,
         BackoffElapsed, HandshakeComplete, IdleTimeout, CloseAndRetry, RestartNetwork,
         RestartWith, Kill, Start, StartCountingFrom, StreamBreaks, server, vars
<1> QED
  BY <1>1, <1>2, <1>3, <1>4, <1>5, <1>6, <1>7

\* The client implements Outbox: through broken streams, crashes and changes of
\* the network, writes reach the server for the first time in the order in which
\* they were made, and none leaves the telephone undecided.
THEOREM OutboxIsImplemented == Spec => ImplementsOutbox
<1>1. Init => Promised!Init
  <2> SUFFICES ASSUME Init PROVE Promised!Init
    OBVIOUS
  <2>1. WritesOf(db) = << >>
    BY DEF Init, WritesOf
  <2>2. (1 .. issued) \ (Range(calls) \cup lost) = {}
    BY DEF Init
  <2> QED
    BY <2>1, <2>2 DEF Init, Promised!Init
<1>2. IInv /\ [Next]_vars => [Promised!Next]_(Promised!vars)
  BY NextImplements
<1> QED
  BY <1>1, <1>2, InvariantHolds, PTL DEF Spec, ImplementsOutbox, Promised!Spec
=============================================================================
