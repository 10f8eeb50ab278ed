---------------------------- MODULE ProductsProofs ----------------------------
(***************************************************************************)
(* Proofs about Products for every value of its constants.                 *)
(***************************************************************************)
EXTENDS Products, WellFoundedInduction, TLAPS

\* The collections 'products' can be, and the writes to them.
Collections == UNION {[T -> Product] : T \in SUBSET Titles}

Writes == {SetProduct(t, p) : t \in Titles, p \in Product}
              \cup {UpdatePrice(t, x) : t \in Titles, x \in Amounts}
              \cup {DeleteDoc(t) : t \in Titles}

Upload == [file : Files, sent : BOOLEAN, state : 1 .. MaxUploads, live : BOOLEAN,
           draft : Draft]

(***************************************************************************)
(* The inductive invariant, in three parts that hardly touch each other:   *)
(* the collection and its pictures, the pages that show products, and the  *)
(* uploads.                                                                *)
(***************************************************************************)

\* The pictures a product may have: those in the storage, and of its own title
\* if nobody edits fields while the spinner turns or taps again before a frame.
Pictures == [t \in Titles |-> IF hasty \/ hurried THEN storage ELSE storage \cap {t}]

WriteFits(w, S) == w.op = "set" => w.doc.image \in S[w.title]

\* Whatever a device can read is remembered, and whatever was to be read, or is
\* queued, has its picture.
Shop ==
    /\ docs \in Collections /\ storage \subseteq Files
    /\ outbox \in [Admins -> Seq(Writes)]
    /\ versions \subseteq [title : Titles, product : Product]
    /\ VersionsOf(docs) \subseteq versions
    /\ \A a \in Admins : VersionsOf(ViewOf(docs, outbox[a])) \subseteq versions
    /\ \A v \in versions : v.product.image \in Pictures[v.title]
    /\ \A a \in Admins : \A i \in DOMAIN outbox[a] : WriteFits(outbox[a][i], Pictures)

\* A product page has a product, and has fetched nothing or one version of it;
\* other pages have fetched nothing.
ShowsItsProduct(d) ==
    /\ "product" \in {page[d], shown[d]} => chosen[d] \in Titles
    /\ d \in asked => shown[d] = "product"
    /\ info[d] # Unfetched =>
          /\ shown[d] = "product"
          /\ [title |-> chosen[d], product |-> info[d]] \in versions

Visits ==
    /\ page \in [Devices -> Pages] /\ shown \in [Devices -> Pages]
    /\ chosen \in [Devices -> Titles \cup {None}]
    /\ info \in [Devices -> Product] /\ asked \subseteq Devices
    /\ field \in [Devices -> Amounts]
    /\ dialog \in [Devices -> {"none", "edit", "delete"}]
    /\ bought \in [Devices -> Collections]
    /\ \A d \in Devices : ShowsItsProduct(d)
    /\ LineTellsOneVersion

\* An upload whose picture has arrived has stored it.  If nobody taps again
\* before the next frame, it is the only one of its State, and the page that is
\* shown has the spinner for it; and it still knows the title it began with
\* unless fields are edited meanwhile.
UploadFits(us, i, now, files, edited, again) ==
    /\ us[i].sent => us[i].file \in files
    /\ ~ again =>
          /\ us[i].live => now.loading
          /\ \A j \in DOMAIN us :
                us[j].state = us[i].state \/ (us[j].live /\ us[i].live) => i = j
    /\ edited \/ again \/ us[i].file = (IF us[i].live THEN now ELSE us[i].draft).title

Uploading ==
    /\ draft \in [Admins -> Draft] /\ picked \subseteq Admins /\ spinning \subseteq Admins
    /\ hasty \in BOOLEAN /\ hurried \in BOOLEAN
    /\ uploads \in [Admins -> Seq(Upload)]
    /\ \A a \in Admins : \A i \in DOMAIN uploads[a] :
          UploadFits(uploads[a], i, draft[a], storage, hasty, hurried)

ProductsInv == Shop /\ Visits /\ Uploading

-----------------------------------------------------------------------------
(***************************************************************************)
(* A view is the server's collection after the writes of a queue, one by   *)
(* one.  FoldLeft computes it by recursion over the sets of positions; v   *)
(* is such a recursive function, and exists for every length of the queue. *)
(***************************************************************************)
Folds(v, ds, ws, n) ==
    v = [s \in SUBSET (1 .. n) |->
           IF s = {} THEN ds ELSE Apply(v[s \ {Max(s)}], ws[Max(s)])]

\* Every nonempty set of natural numbers has a least element.
LEMMA LeastElement ==
    ASSUME NEW S, S \subseteq Nat, S # {}
    PROVE  \E m \in S : \A n \in S : m <= n
<1> DEFINE Less == {ss \in Nat \X Nat : ss[1] < ss[2]}
<1>1. IsWellFoundedOn(Less, Nat)
  BY NatLessThanWellFounded DEF OpToRel
<1>2. PICK m \in S : \A n \in S : <<n, m>> \notin Less
  BY <1>1, WFMin
<1>3. \A n \in S : ~ (n < m)
  BY <1>2
<1> QED
  BY <1>3, SMT

\* The collections a view passes through, from the server's on.
Steps(step, ds, ws, n) ==
    /\ step[0] = ds
    /\ \A k \in 1 .. n : step[k] = Apply(step[k - 1], ws[k])

LEMMA MaxOf ==
    ASSUME NEW n \in Nat, NEW s \in SUBSET (1 .. n), n \in s
    PROVE  Max(s) = n
<1>1. \A y \in s : n >= y
  OBVIOUS
<1>2. \A x \in s : (\A y \in s : x >= y) => x = n
  <2> SUFFICES ASSUME NEW x \in s, \A y \in s : x >= y
               PROVE  x = n
    OBVIOUS
  <2>1. x >= n /\ n >= x /\ x \in Nat
    BY <1>1
  <2> QED
    BY <2>1
<1>3. Max(s) \in s /\ \A y \in s : Max(s) >= y
  BY <1>1, Zenon DEF Max
<1> QED
  BY <1>2, <1>3, Zenon

LEMMA FoldExists ==
    ASSUME NEW ds, NEW ws, NEW n \in Nat
    PROVE  \E v : Folds(v, ds, ws, n)
<1> DEFINE B == {k \in Nat : ~ \E v : Folds(v, ds, ws, k)}
<1>1. SUFFICES ASSUME B # {}
               PROVE  FALSE
  OBVIOUS
<1>2. PICK m \in B : \A k \in B : m <= k
  BY <1>1, LeastElement
<1>3. CASE m = 0
  <2> DEFINE v == [s \in SUBSET (1 .. 0) |-> ds]
  <2>1. \A s \in SUBSET (1 .. 0) : s = {}
    OBVIOUS
  <2>2. Folds(v, ds, ws, 0)
    BY <2>1 DEF Folds
  <2> QED
    BY <1>2, <1>3, <2>2
<1>4. CASE m # 0
  <2>1. m - 1 \in Nat /\ m - 1 \notin B /\ m \in Nat
    BY <1>2, <1>4
  <2>2. PICK u : Folds(u, ds, ws, m - 1)
    BY <2>1
  <2> DEFINE v == [s \in SUBSET (1 .. m) |->
                     IF m \in s THEN Apply(u[s \ {m}], ws[m]) ELSE u[s]]
  <2>3. \A s \in SUBSET (1 .. m) :
           v[s] = IF s = {} THEN ds ELSE Apply(v[s \ {Max(s)}], ws[Max(s)])
    <3> SUFFICES ASSUME NEW s \in SUBSET (1 .. m)
                 PROVE  v[s] = IF s = {} THEN ds ELSE Apply(v[s \ {Max(s)}], ws[Max(s)])
      OBVIOUS
    <3>1. CASE m \in s
      <4>1. Max(s) = m
        BY <2>1, <3>1, MaxOf
      <4>2. s # {} /\ s \ {m} \in SUBSET (1 .. m) /\ m \notin s \ {m}
        BY <3>1
      <4>3. v[s] = Apply(u[s \ {m}], ws[m])
        BY <3>1
      <4>4. v[s \ {m}] = u[s \ {m}]
        BY <4>2
      <4> HIDE DEF v
      <4> QED
        BY <4>1, <4>2, <4>3, <4>4
    <3>2. CASE m \notin s
      <4>1. s \in SUBSET (1 .. (m - 1))
        BY <2>1, <3>2
      <4>2. v[s] = u[s]
        BY <3>2
      <4>3. u[s] = IF s = {} THEN ds ELSE Apply(u[s \ {Max(s)}], ws[Max(s)])
        BY <2>2, <4>1 DEF Folds
      <4>4. s \ {Max(s)} \in SUBSET (1 .. m) /\ m \notin s \ {Max(s)}
        BY <3>2
      <4>5. v[s \ {Max(s)}] = u[s \ {Max(s)}]
        BY <4>4
      <4> HIDE DEF v
      <4> QED
        BY <4>2, <4>3, <4>5
    <3> QED
      BY <3>1, <3>2
  <2>4. v = [s \in SUBSET (1 .. m) |-> v[s]]
    OBVIOUS
  <2> HIDE DEF v
  <2>5. Folds(v, ds, ws, m)
    BY <2>3, <2>4 DEF Folds
  <2> QED
    BY <1>2, <2>5
<1> QED
  BY <1>3, <1>4

LEMMA ViewSteps ==
    ASSUME NEW ds, NEW ws, NEW n \in Nat, DOMAIN ws = 1 .. n
    PROVE  \E step : Steps(step, ds, ws, n) /\ ViewOf(ds, ws) = step[n]
<1> DEFINE v    == CHOOSE u : Folds(u, ds, ws, n)
           step == [k \in 0 .. n |-> v[1 .. k]]
<1>1. Folds(v, ds, ws, n)
  BY FoldExists
<1>2. ViewOf(ds, ws) = v[1 .. n]
  BY DEF ViewOf, FoldLeft, MapThenFoldSet, Folds
<1> HIDE DEF v
<1>3. v[{}] = ds
  BY <1>1 DEF Folds
<1>4. ASSUME NEW k \in 1 .. n
      PROVE  v[1 .. k] = Apply(v[1 .. (k - 1)], ws[k])
  <2>1. 1 .. k \in SUBSET (1 .. n) /\ 1 .. k # {} /\ k \in Nat /\ k \in 1 .. k
    OBVIOUS
  <2>2. Max(1 .. k) = k
    BY <2>1, MaxOf
  <2>3. (1 .. k) \ {k} = 1 .. (k - 1)
    OBVIOUS
  <2>4. v[1 .. k] = Apply(v[(1 .. k) \ {Max(1 .. k)}], ws[Max(1 .. k)])
    BY <1>1, <2>1 DEF Folds
  <2> QED
    BY <2>2, <2>3, <2>4
<1>5. step[0] = ds
  <2>1. 1 .. 0 = {} /\ 0 \in 0 .. n
    OBVIOUS
  <2> QED
    BY <1>3, <2>1
<1>6. \A k \in 1 .. n : step[k] = Apply(step[k - 1], ws[k])
  <2> SUFFICES ASSUME NEW k \in 1 .. n
               PROVE  step[k] = Apply(step[k - 1], ws[k])
    OBVIOUS
  <2>1. k \in 0 .. n /\ k - 1 \in 0 .. n
    OBVIOUS
  <2>2. step[k] = v[1 .. k] /\ step[k - 1] = v[1 .. (k - 1)]
    BY <2>1
  <2> HIDE DEF step
  <2> QED
    BY <1>4, <2>2
<1>7. ViewOf(ds, ws) = step[n]
  BY <1>2
<1> HIDE DEF step
<1>8. Steps(step, ds, ws, n)
  BY <1>5, <1>6 DEF Steps
<1> QED
  BY <1>7, <1>8

-----------------------------------------------------------------------------
(***************************************************************************)
(* Collections whose products have pictures out of S, a set for each       *)
(* title, stay such collections under writes that set such products.       *)
(***************************************************************************)
Fitting(S) == {ds \in Collections : \A t \in DOMAIN ds : ds[t].image \in S[t]}

LEMMA CollectionFacts ==
    ASSUME NEW ds
    PROVE  ds \in Collections <=>
              /\ ds = [t \in DOMAIN ds |-> ds[t]]
              /\ DOMAIN ds \subseteq Titles
              /\ \A t \in DOMAIN ds : ds[t] \in Product
<1>1. ASSUME ds \in Collections
      PROVE  /\ ds = [t \in DOMAIN ds |-> ds[t]]
             /\ DOMAIN ds \subseteq Titles
             /\ \A t \in DOMAIN ds : ds[t] \in Product
  <2>1. PICK T \in SUBSET Titles : ds \in [T -> Product]
    BY <1>1 DEF Collections
  <2> QED
    BY <2>1
<1>2. ASSUME ds = [t \in DOMAIN ds |-> ds[t]], DOMAIN ds \subseteq Titles,
             \A t \in DOMAIN ds : ds[t] \in Product
      PROVE  ds \in Collections
  <2>1. ds \in [DOMAIN ds -> Product]
    BY <1>2
  <2> QED
    BY <1>2, <2>1 DEF Collections
<1> QED
  BY <1>1, <1>2

LEMMA WriteFacts ==
    ASSUME NEW w \in Writes
    PROVE  /\ w.title \in Titles
           /\ w.op \in {"set", "update", "delete"}
           /\ w.op = "set" => w.doc \in Product
           /\ w.op = "update" => w.price \in Amounts
  BY DEF Writes, SetProduct, UpdatePrice, DeleteDoc

LEMMA ApplyFits ==
    ASSUME NEW S, NEW ds \in Fitting(S), NEW w \in Writes, WriteFits(w, S)
    PROVE  Apply(ds, w) \in Fitting(S)
<1>1. /\ DOMAIN ds \subseteq Titles /\ ds \in Collections
      /\ \A t \in DOMAIN ds : ds[t] \in Product /\ ds[t].image \in S[t]
  BY CollectionFacts DEF Fitting
<1>2. /\ w.title \in Titles
      /\ w.op \in {"set", "update", "delete"}
      /\ w.op = "set" => w.doc \in Product
      /\ w.op = "update" => w.price \in Amounts
  BY WriteFacts
<1>3. CASE w.op = "set"
  <2> DEFINE es == [t \in DOMAIN ds \cup {w.title} |-> IF t = w.title THEN w.doc ELSE ds[t]]
  <2>1. es = Apply(ds, w)
    BY <1>3 DEF Apply
  <2>2. \A t \in DOMAIN es : es[t] \in Product /\ es[t].image \in S[t]
    BY <1>1, <1>2, <1>3 DEF WriteFits
  <2>3. es = [t \in DOMAIN es |-> es[t]] /\ DOMAIN es \subseteq Titles
    BY <1>1, <1>2
  <2> HIDE DEF es
  <2> QED
    BY <2>1, <2>2, <2>3, CollectionFacts DEF Fitting
<1>4. CASE w.op = "update"
  <2>1. CASE w.title \in DOMAIN ds
    <3> DEFINE es == [ds EXCEPT ![w.title].price = w.price]
    <3>1. es = Apply(ds, w)
      BY <1>4, <2>1 DEF Apply
    <3>2. \A p \in Product : /\ [p EXCEPT !.price = w.price] \in Product
                             /\ [p EXCEPT !.price = w.price].image = p.image
      BY <1>2, <1>4 DEF Product
    <3>3. \A t \in DOMAIN ds :
             es[t] = IF t = w.title THEN [ds[t] EXCEPT !.price = w.price] ELSE ds[t]
      OBVIOUS
    <3>4. es = [t \in DOMAIN es |-> es[t]] /\ DOMAIN es = DOMAIN ds
      OBVIOUS
    <3> HIDE DEF es
    <3>5. \A t \in DOMAIN es : es[t] \in Product /\ es[t].image \in S[t]
      BY <1>1, <3>2, <3>3, <3>4
    <3> QED
      BY <1>1, <3>1, <3>4, <3>5, CollectionFacts DEF Fitting
  <2>2. CASE w.title \notin DOMAIN ds
    <3>1. Apply(ds, w) = ds
      BY <1>4, <2>2 DEF Apply
    <3> QED
      BY <3>1
  <2> QED
    BY <2>1, <2>2
<1>5. CASE w.op = "delete"
  <2> DEFINE es == [t \in DOMAIN ds \ {w.title} |-> ds[t]]
  <2>1. es = Apply(ds, w)
    BY <1>5 DEF Apply
  <2>2. \A t \in DOMAIN es : es[t] \in Product /\ es[t].image \in S[t]
    BY <1>1
  <2>3. es = [t \in DOMAIN es |-> es[t]] /\ DOMAIN es \subseteq Titles
    BY <1>1
  <2> HIDE DEF es
  <2> QED
    BY <2>1, <2>2, <2>3, CollectionFacts DEF Fitting
<1> QED
  BY <1>2, <1>3, <1>4, <1>5

LEMMA ViewFits ==
    ASSUME NEW S, NEW ds \in Fitting(S), NEW ws \in Seq(Writes),
           \A i \in DOMAIN ws : WriteFits(ws[i], S)
    PROVE  ViewOf(ds, ws) \in Fitting(S)
<1> DEFINE n == Len(ws)
<1>1. n \in Nat /\ DOMAIN ws = 1 .. n
  OBVIOUS
<1> HIDE DEF n
<1>2. PICK step : Steps(step, ds, ws, n) /\ ViewOf(ds, ws) = step[n]
  BY <1>1, ViewSteps
<1> DEFINE B == {k \in 0 .. n : step[k] \notin Fitting(S)}
<1>3. B = {}
  <2> SUFFICES ASSUME B # {}
               PROVE  FALSE
    OBVIOUS
  <2>0. B \subseteq Nat
    BY <1>1
  <2>1. PICK m \in B : \A k \in B : m <= k
    BY <2>0, LeastElement
  <2>2. m # 0
    BY <1>2, <2>1 DEF Steps
  <2>3. m \in 1 .. n /\ m - 1 \in 0 .. n /\ m - 1 \notin B
    BY <1>1, <2>1, <2>2
  <2>4. step[m - 1] \in Fitting(S) /\ step[m] = Apply(step[m - 1], ws[m])
    BY <1>2, <2>3 DEF Steps
  <2>5. ws[m] \in Writes /\ WriteFits(ws[m], S)
    BY <1>1, <2>3
  <2>6. step[m] \in Fitting(S)
    BY <2>4, <2>5, ApplyFits
  <2> QED
    BY <2>1, <2>6
<1>4. n \in 0 .. n
  BY <1>1
<1> QED
  BY <1>2, <1>3, <1>4

\* Nothing queued, nothing changed.
LEMMA ViewOfNothing == \A ds : ViewOf(ds, << >>) = ds
<1> SUFFICES ASSUME NEW ds
             PROVE  ViewOf(ds, << >>) = ds
  OBVIOUS
<1>1. DOMAIN << >> = 1 .. 0 /\ 0 \in Nat
  OBVIOUS
<1>2. \E step : Steps(step, ds, << >>, 0) /\ ViewOf(ds, << >>) = step[0]
  BY <1>1, ViewSteps
<1> QED
  BY <1>2 DEF Steps

-----------------------------------------------------------------------------
(***************************************************************************)
(* The collection and its pictures.                                        *)
(***************************************************************************)
LEMMA VersionsFit ==
    ASSUME NEW S, NEW ds \in Fitting(S)
    PROVE  \A v \in VersionsOf(ds) : /\ v \in [title : Titles, product : Product]
                                     /\ v.product.image \in S[v.title]
  BY CollectionFacts DEF VersionsOf, Fitting

LEMMA DocsFit ==
    ASSUME Shop
    PROVE  docs \in Fitting(Pictures)
<1>1. \A t \in DOMAIN docs : [title |-> t, product |-> docs[t]] \in versions
  BY DEF Shop, VersionsOf
<1>2. \A t \in DOMAIN docs : docs[t].image \in Pictures[t]
  <2> SUFFICES ASSUME NEW t \in DOMAIN docs
               PROVE  docs[t].image \in Pictures[t]
    OBVIOUS
  <2> DEFINE v == [title |-> t, product |-> docs[t]]
  <2>1. v \in versions /\ v.title = t /\ v.product = docs[t]
    BY <1>1
  <2> HIDE DEF v
  <2>2. v.product.image \in Pictures[v.title]
    BY <2>1 DEF Shop
  <2> QED
    BY <2>1, <2>2
<1> QED
  BY <1>2 DEF Shop, Fitting

\* What a device reads was remembered.
LEMMA ReadsAreVersions ==
    ASSUME Shop, NEW d \in Devices
    PROVE  View(d) \in Collections /\ VersionsOf(View(d)) \subseteq versions
<1>1. docs \in Fitting(Pictures) /\ docs \in Collections
  BY DocsFit DEF Shop
<1>2. CASE d \in Admins
  <2>1. outbox[d] \in Seq(Writes)
    BY <1>2 DEF Shop
  <2>2. \A i \in DOMAIN outbox[d] : WriteFits(outbox[d][i], Pictures)
    BY <1>2 DEF Shop
  <2>3. ViewOf(docs, outbox[d]) \in Fitting(Pictures)
    BY <1>1, <2>1, <2>2, ViewFits
  <2> QED
    BY <1>2, <2>3 DEF View, Fitting, Shop
<1>3. CASE d \notin Admins
  BY <1>1, <1>3 DEF View, Shop
<1> QED
  BY <1>2, <1>3

\* Remembering makes up for whatever happened to the collection and the queues.
LEMMA RememberKeepsShop ==
    ASSUME Shop, docs' \in Fitting(Pictures'), storage' \subseteq Files,
           outbox' \in [Admins -> Seq(Writes)],
           \A a \in Admins : \A i \in DOMAIN outbox'[a] : WriteFits(outbox'[a][i], Pictures'),
           \A v \in versions : v.product.image \in Pictures'[v.title],
           Remember
    PROVE  Shop' /\ versions \subseteq versions'
<1> DEFINE Fits(v) == /\ v \in [title : Titles, product : Product]
                      /\ v.product.image \in Pictures'[v.title]
<1>1. \A a \in Admins : ViewOf(docs', outbox'[a]) \in Fitting(Pictures')
  <2> SUFFICES ASSUME NEW a \in Admins
               PROVE  ViewOf(docs', outbox'[a]) \in Fitting(Pictures')
    OBVIOUS
  <2>1. outbox'[a] \in Seq(Writes)
    OBVIOUS
  <2>2. \A i \in DOMAIN outbox'[a] : WriteFits(outbox'[a][i], Pictures')
    OBVIOUS
  <2> QED
    BY <2>1, <2>2, ViewFits
<1>2. \A v \in versions' : \/ v \in versions
                           \/ v \in VersionsOf(docs')
                           \/ \E a \in Admins : v \in VersionsOf(ViewOf(docs', outbox'[a]))
  BY DEF Remember
<1>3. \A v \in versions' : Fits(v)
  <2>1. \A v \in versions : Fits(v)
    BY DEF Shop
  <2>2. \A v \in VersionsOf(docs') : Fits(v)
    BY VersionsFit
  <2>3. \A a \in Admins : \A v \in VersionsOf(ViewOf(docs', outbox'[a])) : Fits(v)
    BY <1>1, VersionsFit
  <2> QED
    BY <1>2, <2>1, <2>2, <2>3
<1>4. /\ VersionsOf(docs') \subseteq versions' /\ versions \subseteq versions'
      /\ \A a \in Admins : VersionsOf(ViewOf(docs', outbox'[a])) \subseteq versions'
  BY DEF Remember
<1>5. docs' \in Collections
  BY DEF Fitting
<1> QED
  BY <1>3, <1>4, <1>5 DEF Shop

LEMMA EnqueueKeepsShop ==
    ASSUME Shop, NEW a \in Admins, NEW w \in Writes, WriteFits(w, Pictures),
           Enqueue(a, w), UNCHANGED <<storage, hasty, hurried>>
    PROVE  Shop' /\ versions \subseteq versions'
<1>1. Pictures' = Pictures
  BY DEF Pictures
<1>2. docs' \in Fitting(Pictures') /\ storage' \subseteq Files /\ Remember
  BY <1>1, DocsFit DEF Enqueue, Shop
<1>3. /\ outbox \in [Admins -> Seq(Writes)]
      /\ outbox' = [outbox EXCEPT ![a] = Append(@, w)]
  BY DEF Enqueue, Shop
<1>4. outbox' \in [Admins -> Seq(Writes)]
  BY <1>3
<1>5. \A b \in Admins : \A i \in DOMAIN outbox'[b] : WriteFits(outbox'[b][i], Pictures')
  <2> SUFFICES ASSUME NEW b \in Admins, NEW i \in DOMAIN outbox'[b]
               PROVE  WriteFits(outbox'[b][i], Pictures')
    OBVIOUS
  <2>1. CASE b = a /\ i = Len(outbox[a]) + 1
    <3>1. outbox'[b][i] = w
      BY <1>3, <2>1
    <3> QED
      BY <1>1, <3>1
  <2>2. CASE b # a \/ i # Len(outbox[a]) + 1
    <3>1. i \in DOMAIN outbox[b] /\ outbox'[b][i] = outbox[b][i]
      BY <1>3, <2>2
    <3> QED
      BY <1>1, <3>1 DEF Shop
  <2> QED
    BY <2>1, <2>2
<1>6. \A v \in versions : v.product.image \in Pictures'[v.title]
  BY <1>1 DEF Shop
<1> QED
  BY <1>2, <1>4, <1>5, <1>6, RememberKeepsShop

LEMMA DeliverKeepsShop ==
    ASSUME Shop, NEW a \in Admins, Deliver(a)
    PROVE  Shop' /\ versions \subseteq versions'
<1>1. UNCHANGED <<storage, hasty, hurried>> /\ Pictures' = Pictures /\ Remember
  BY DEF Deliver, addVars, Pictures
<1>2. /\ outbox \in [Admins -> Seq(Writes)] /\ outbox[a] # << >>
      /\ outbox' = [outbox EXCEPT ![a] = Tail(@)]
      /\ docs' = Apply(docs, Head(outbox[a]))
  BY DEF Deliver, Shop
<1>3. Head(outbox[a]) \in Writes /\ Head(outbox[a]) = outbox[a][1] /\ 1 \in DOMAIN outbox[a]
  BY <1>2
<1>4. docs' \in Fitting(Pictures')
  <2>1. WriteFits(Head(outbox[a]), Pictures)
    BY <1>3 DEF Shop
  <2> QED
    BY <1>1, <1>2, <1>3, <2>1, DocsFit, ApplyFits
<1>5. outbox' \in [Admins -> Seq(Writes)]
  BY <1>2
<1>6. \A b \in Admins : \A i \in DOMAIN outbox'[b] : WriteFits(outbox'[b][i], Pictures')
  <2> SUFFICES ASSUME NEW b \in Admins, NEW i \in DOMAIN outbox'[b]
               PROVE  WriteFits(outbox'[b][i], Pictures')
    OBVIOUS
  <2>1. CASE b = a
    <3>1. i + 1 \in DOMAIN outbox[b] /\ outbox'[b][i] = outbox[b][i + 1]
      BY <1>2, <2>1
    <3> QED
      BY <1>1, <3>1 DEF Shop
  <2>2. CASE b # a
    <3>1. i \in DOMAIN outbox[b] /\ outbox'[b][i] = outbox[b][i]
      BY <1>2, <2>2
    <3> QED
      BY <1>1, <3>1 DEF Shop
  <2> QED
    BY <2>1, <2>2
<1>7. \A v \in versions : v.product.image \in Pictures'[v.title]
  BY <1>1 DEF Shop
<1> QED
  BY <1>1, <1>4, <1>5, <1>6, <1>7, RememberKeepsShop DEF Shop

\* More pictures do no harm.
LEMMA StorageKeepsShop ==
    ASSUME Shop, UNCHANGED <<docs, outbox, versions, hasty, hurried>>,
           storage \subseteq storage', storage' \subseteq Files
    PROVE  Shop'
<1>1. \A t \in Titles : Pictures[t] \subseteq Pictures'[t]
  BY DEF Pictures
<1>2. \A v \in versions : v.product.image \in Pictures'[v.title]
  BY <1>1 DEF Shop
<1>3. \A a \in Admins : \A i \in DOMAIN outbox[a] : WriteFits(outbox[a][i], Pictures')
  <2> SUFFICES ASSUME NEW a \in Admins, NEW i \in DOMAIN outbox[a]
               PROVE  WriteFits(outbox[a][i], Pictures')
    OBVIOUS
  <2>1. outbox[a][i] \in Writes
    BY DEF Shop
  <2>2. outbox[a][i].title \in Titles
    BY <2>1, WriteFacts
  <2> QED
    BY <1>1, <2>2 DEF Shop, WriteFits
<1> QED
  BY <1>2, <1>3 DEF Shop

-----------------------------------------------------------------------------
(***************************************************************************)
(* The pages that show products.                                           *)
(***************************************************************************)
PageTypes ==
    /\ page \in [Devices -> Pages] /\ shown \in [Devices -> Pages]
    /\ chosen \in [Devices -> Titles \cup {None}]
    /\ info \in [Devices -> Product] /\ asked \subseteq Devices
    /\ field \in [Devices -> Amounts]
    /\ dialog \in [Devices -> {"none", "edit", "delete"}]
    /\ bought \in [Devices -> Collections]

TellsOneVersion(d) ==
    \A t \in DOMAIN bought[d] :
        \/ bought[d][t] = Unfetched
        \/ [title |-> t, product |-> bought[d][t]] \in versions

LEMMA VisitsParts ==
    Visits <=> /\ PageTypes
               /\ \A d \in Devices : ShowsItsProduct(d) /\ TellsOneVersion(d)
  BY DEF Visits, PageTypes, TellsOneVersion, LineTellsOneVersion

LEMMA PrimedVisits ==
    ASSUME PageTypes', \A d \in Devices : ShowsItsProduct(d)' /\ TellsOneVersion(d)'
    PROVE  Visits'
  BY DEF Visits, PageTypes, TellsOneVersion, LineTellsOneVersion

LEMMA UnfetchedIsProduct == Unfetched \in Product
  BY DEF Unfetched, Product, Files, Amounts

\* A step of device d leaves the pages of the others alone.
OthersKeepPages(d) ==
    \A e \in Devices \ {d} :
        /\ page'[e] = page[e] /\ shown'[e] = shown[e] /\ chosen'[e] = chosen[e]
        /\ info'[e] = info[e] /\ bought'[e] = bought[e]
        /\ e \in asked' => e \in asked

LEMMA OneDevice ==
    ASSUME Visits, versions \subseteq versions', PageTypes', NEW d \in Devices,
           OthersKeepPages(d), ShowsItsProduct(d)', TellsOneVersion(d)'
    PROVE  Visits'
<1>1. ASSUME NEW e \in Devices \ {d}
      PROVE  ShowsItsProduct(e)' /\ TellsOneVersion(e)'
  <2>1. ShowsItsProduct(e) /\ TellsOneVersion(e)
    BY VisitsParts
  <2>2. /\ page'[e] = page[e] /\ shown'[e] = shown[e] /\ chosen'[e] = chosen[e]
        /\ info'[e] = info[e] /\ bought'[e] = bought[e]
        /\ e \in asked' => e \in asked
    BY DEF OthersKeepPages
  <2> QED
    BY <2>1, <2>2 DEF ShowsItsProduct, TellsOneVersion
<1> QED
  BY <1>1, PrimedVisits

\* Steps that change neither what a page shows nor the carts.
LEMMA VisitsKept ==
    ASSUME Visits, versions \subseteq versions',
           UNCHANGED <<page, shown, chosen, info, asked, bought>>,
           field' \in [Devices -> Amounts],
           dialog' \in [Devices -> {"none", "edit", "delete"}]
    PROVE  Visits'
<1>1. PageTypes'
  BY DEF Visits, PageTypes
<1>2. ASSUME NEW d \in Devices
      PROVE  ShowsItsProduct(d)' /\ TellsOneVersion(d)'
  BY VisitsParts DEF ShowsItsProduct, TellsOneVersion
<1> QED
  BY <1>1, <1>2, PrimedVisits

LEMMA VisitFrame ==
    ASSUME Visits, NEW d \in Devices, Frame(d)
    PROVE  Visits'
<1>1. PageTypes
  BY VisitsParts
<1>2. /\ UNCHANGED <<versions, page, chosen, dialog, bought>>
      /\ shown' = [shown EXCEPT ![d] = page[d]]
      /\ info' = [info EXCEPT ![d] = Unfetched]
      /\ field' = [field EXCEPT ![d] = 0]
      /\ asked' = IF page[d] = "product" THEN asked \cup {d} ELSE asked \ {d}
  BY DEF Frame, productVars
<1>3. PageTypes'
  BY <1>1, <1>2, UnfetchedIsProduct DEF PageTypes, Amounts
<1>4. OthersKeepPages(d)
  BY <1>1, <1>2 DEF OthersKeepPages, PageTypes
<1>5. ShowsItsProduct(d) /\ TellsOneVersion(d)
  BY VisitsParts
<1>6. ShowsItsProduct(d)' /\ TellsOneVersion(d)'
  BY <1>1, <1>2, <1>5 DEF ShowsItsProduct, TellsOneVersion, PageTypes
<1> QED
  BY <1>2, <1>3, <1>4, <1>6, OneDevice

\* A tap that asks for a page, of another product only where none is shown.
LEMMA VisitTurn ==
    ASSUME Visits, NEW d \in Devices, NEW p \in Pages, Turn(d, p),
           \/ chosen' = chosen /\ p # "product"
           \/ /\ shown[d] = "elsewhere"
              /\ \E t \in Titles : chosen' = [chosen EXCEPT ![d] = t]
    PROVE  Visits'
<1>1. PageTypes
  BY VisitsParts
<1>2. /\ UNCHANGED <<versions, shown, info, asked, field, dialog, bought>>
      /\ page' = [page EXCEPT ![d] = p]
  BY DEF Turn, productVars
<1>3. PageTypes'
  BY <1>1, <1>2 DEF PageTypes
<1>4. OthersKeepPages(d)
  BY <1>1, <1>2 DEF OthersKeepPages, PageTypes
<1>5. ShowsItsProduct(d) /\ TellsOneVersion(d)
  BY VisitsParts
<1>6. TellsOneVersion(d)'
  BY <1>2, <1>5 DEF TellsOneVersion
<1>7. page'[d] = p
  BY <1>1, <1>2 DEF PageTypes
<1>8. CASE chosen' = chosen /\ p # "product"
  <2>1. ShowsItsProduct(d)'
    BY <1>2, <1>5, <1>7, <1>8 DEF ShowsItsProduct
  <2> QED
    BY <1>2, <1>3, <1>4, <1>6, <2>1, OneDevice
<1>9. CASE shown[d] = "elsewhere" /\ \E t \in Titles : chosen' = [chosen EXCEPT ![d] = t]
  <2>1. chosen'[d] \in Titles
    BY <1>1, <1>9 DEF PageTypes
  <2>2. ShowsItsProduct(d)'
    BY <1>2, <1>5, <1>9, <2>1 DEF ShowsItsProduct
  <2> QED
    BY <1>2, <1>3, <1>4, <1>6, <2>2, OneDevice
<1> QED
  BY <1>8, <1>9

\* A redrawn page shows what was read, if it was read for it.
LEMMA VisitRedraw ==
    ASSUME Visits, NEW d \in Devices, NEW product \in Product, Redraw(d, product),
           shown[d] = "product",
           \/ product = Unfetched
           \/ [title |-> chosen[d], product |-> product] \in versions,
           UNCHANGED <<versions, page, shown, chosen, dialog>>, asked' \subseteq asked,
           bought' \in [Devices -> Collections],
           \A e \in Devices \ {d} : bought'[e] = bought[e],
           TellsOneVersion(d)'
    PROVE  Visits'
<1>1. PageTypes
  BY VisitsParts
<1>2. /\ info' = [info EXCEPT ![d] = product]
      /\ field' = [field EXCEPT ![d] = product.price]
  BY DEF Redraw
<1>3. PageTypes'
  BY <1>1, <1>2 DEF PageTypes, Product
<1>4. OthersKeepPages(d)
  BY <1>1, <1>2 DEF OthersKeepPages, PageTypes
<1>5. ShowsItsProduct(d)
  BY VisitsParts
<1>6. ShowsItsProduct(d)'
  BY <1>1, <1>2, <1>5 DEF ShowsItsProduct, PageTypes
<1> QED
  BY <1>3, <1>4, <1>6, OneDevice

LEMMA VisitGetInfo ==
    ASSUME Shop, Visits, NEW d \in Devices, GetInfo(d)
    PROVE  Visits'
<1>1. /\ d \in asked /\ asked' = asked \ {d}
      /\ UNCHANGED <<versions, page, shown, chosen, dialog, bought>>
  BY DEF GetInfo, productVars
<1>2. PageTypes /\ ShowsItsProduct(d) /\ TellsOneVersion(d)
  BY VisitsParts
<1>3. shown[d] = "product"
  BY <1>1, <1>2 DEF ShowsItsProduct
<1>4. TellsOneVersion(d)'
  BY <1>1, <1>2 DEF TellsOneVersion
<1>5. CASE chosen[d] \in DOMAIN View(d)
  <2> DEFINE product == View(d)[chosen[d]]
  <2>1. View(d) \in Collections /\ VersionsOf(View(d)) \subseteq versions
    BY ReadsAreVersions
  <2>2. product \in Product
    BY <1>5, <2>1, CollectionFacts
  <2>3. [title |-> chosen[d], product |-> product] \in versions
    BY <1>5, <2>1 DEF VersionsOf
  <2>4. Redraw(d, product)
    BY <1>5 DEF GetInfo
  <2> HIDE DEF product
  <2> QED
    BY <1>1, <1>2, <1>3, <1>4, <2>2, <2>3, <2>4, VisitRedraw DEF PageTypes
<1>6. CASE chosen[d] \notin DOMAIN View(d)
  <2>1. UNCHANGED <<info, field>>
    BY <1>6 DEF GetInfo
  <2>2. PageTypes'
    BY <1>1, <1>2, <2>1 DEF PageTypes
  <2>3. OthersKeepPages(d)
    BY <1>1, <2>1 DEF OthersKeepPages
  <2>4. ShowsItsProduct(d)'
    BY <1>1, <1>2, <2>1 DEF ShowsItsProduct
  <2> QED
    BY <1>1, <1>4, <2>2, <2>3, <2>4, OneDevice
<1> QED
  BY <1>5, <1>6

LEMMA VisitGetInfoFails ==
    ASSUME Visits, NEW d \in Devices, GetInfoFails(d)
    PROVE  Visits'
<1>1. /\ asked' = asked \ {d}
      /\ UNCHANGED <<versions, page, shown, chosen, info, field, dialog, bought>>
  BY DEF GetInfoFails, productVars
<1>2. PageTypes /\ ShowsItsProduct(d) /\ TellsOneVersion(d)
  BY VisitsParts
<1>3. PageTypes'
  BY <1>1, <1>2 DEF PageTypes
<1>4. OthersKeepPages(d)
  BY <1>1 DEF OthersKeepPages
<1>5. ShowsItsProduct(d)' /\ TellsOneVersion(d)'
  BY <1>1, <1>2 DEF ShowsItsProduct, TellsOneVersion
<1> QED
  BY <1>1, <1>3, <1>4, <1>5, OneDevice

\* What a page shows is unfetched or a version of its product.
LEMMA ShownIsVersion ==
    ASSUME Visits, NEW d \in Devices, OnProduct(d, "none")
    PROVE  /\ info[d] \in Product /\ chosen[d] \in Titles /\ shown[d] = "product"
           /\ \/ info[d] = Unfetched
              \/ [title |-> chosen[d], product |-> info[d]] \in versions
  BY VisitsParts DEF OnProduct, ShowsItsProduct, PageTypes

LEMMA VisitCounter ==
    ASSUME Visits, NEW d \in Devices, CounterTapped(d)
    PROVE  Visits'
<1>1. /\ OnProduct(d, "none") /\ Redraw(d, info[d])
      /\ UNCHANGED <<versions, page, shown, chosen, asked, dialog, bought>>
  BY DEF CounterTapped, productVars
<1>2. PageTypes /\ TellsOneVersion(d)
  BY VisitsParts
<1>3. TellsOneVersion(d)'
  BY <1>1, <1>2 DEF TellsOneVersion
<1> QED
  BY <1>1, <1>2, <1>3, ShownIsVersion, VisitRedraw DEF PageTypes

LEMMA VisitBuy ==
    ASSUME Visits, NEW d \in Devices, BuyTapped(d)
    PROVE  Visits'
<1> DEFINE line == [t \in DOMAIN bought[d] \cup {chosen[d]} |->
                      IF t = chosen[d] THEN info[d] ELSE bought[d][t]]
<1>1. /\ OnProduct(d, "none") /\ Redraw(d, info[d])
      /\ UNCHANGED <<versions, page, shown, chosen, asked, dialog>>
      /\ bought' = IF chosen[d] \in DOMAIN bought[d] THEN bought
                   ELSE [bought EXCEPT ![d] = line]
  BY DEF BuyTapped, productVars
<1>2. PageTypes /\ TellsOneVersion(d)
  BY VisitsParts
<1>3. /\ info[d] \in Product /\ chosen[d] \in Titles /\ shown[d] = "product"
      /\ \/ info[d] = Unfetched
         \/ [title |-> chosen[d], product |-> info[d]] \in versions
  BY <1>1, ShownIsVersion
<1>4. line \in Collections
  <2>1. bought[d] \in Collections
    BY <1>2 DEF PageTypes
  <2>2. DOMAIN bought[d] \subseteq Titles /\ \A t \in DOMAIN bought[d] : bought[d][t] \in Product
    BY <2>1, CollectionFacts
  <2>3. DOMAIN line \subseteq Titles /\ \A t \in DOMAIN line : line[t] \in Product
    BY <1>3, <2>2
  <2>4. line = [t \in DOMAIN line |-> line[t]]
    OBVIOUS
  <2> HIDE DEF line
  <2> QED
    BY <2>3, <2>4, CollectionFacts
<1>5. \A t \in DOMAIN line : \/ line[t] = Unfetched
                             \/ [title |-> t, product |-> line[t]] \in versions
  BY <1>2, <1>3 DEF TellsOneVersion
<1> HIDE DEF line
<1>6. bought' \in [Devices -> Collections]
  BY <1>1, <1>2, <1>4 DEF PageTypes
<1>7. \A e \in Devices \ {d} : bought'[e] = bought[e]
  BY <1>1, <1>2 DEF PageTypes
<1>8. bought'[d] = bought[d] \/ bought'[d] = line
  BY <1>1, <1>2 DEF PageTypes
<1>9. TellsOneVersion(d)'
  BY <1>1, <1>2, <1>5, <1>8 DEF TellsOneVersion
<1> QED
  BY <1>1, <1>3, <1>6, <1>7, <1>9, VisitRedraw

\* The dialogs change what is over the page and, at most, leave it.
LEMMA VisitDialog ==
    ASSUME Visits, versions \subseteq versions', NEW d \in Devices,
           UNCHANGED <<shown, chosen, info, asked, field, bought>>,
           \/ page' = page
           \/ page' = [page EXCEPT ![d] = "elsewhere"],
           NEW k \in {"none", "edit", "delete"}, dialog' = [dialog EXCEPT ![d] = k]
    PROVE  Visits'
<1>1. PageTypes /\ ShowsItsProduct(d) /\ TellsOneVersion(d)
  BY VisitsParts
<1>2. PageTypes'
  BY <1>1 DEF PageTypes, Pages
<1>3. OthersKeepPages(d)
  BY <1>1 DEF OthersKeepPages, PageTypes
<1>4. page'[d] = page[d] \/ page'[d] = "elsewhere"
  BY <1>1 DEF PageTypes
<1>5. ShowsItsProduct(d)'
  BY <1>1, <1>4 DEF ShowsItsProduct
<1>6. TellsOneVersion(d)'
  BY <1>1 DEF TellsOneVersion
<1> QED
  BY <1>2, <1>3, <1>5, <1>6, OneDevice

-----------------------------------------------------------------------------
(***************************************************************************)
(* The uploads.                                                            *)
(***************************************************************************)
LEMMA RemoveAtFacts ==
    ASSUME NEW T, NEW s \in Seq(T), NEW i \in DOMAIN s
    PROVE  /\ RemoveAt(s, i) \in Seq(T)
           /\ \A j \in DOMAIN RemoveAt(s, i) :
                 LET k == IF j < i THEN j ELSE j + 1
                 IN  k \in DOMAIN s /\ k # i /\ RemoveAt(s, i)[j] = s[k]
<1> DEFINE u == SubSeq(s, 1, i - 1)
           w == SubSeq(s, i + 1, Len(s))
<1>1. i \in 1 .. Len(s) /\ Len(s) \in Nat
  OBVIOUS
<1>2. /\ u \in Seq(T) /\ Len(u) = i - 1
      /\ \A j \in 1 .. i - 1 : u[j] = s[j]
  BY <1>1
<1>3. /\ w \in Seq(T) /\ Len(w) = Len(s) - i
      /\ \A j \in 1 .. Len(s) - i : w[j] = s[j + i]
  BY <1>1
<1>4. RemoveAt(s, i) = u \o w
  BY DEF RemoveAt
<1> HIDE DEF u, w
<1>5. /\ u \o w \in Seq(T) /\ Len(u \o w) = Len(s) - 1
      /\ \A j \in 1 .. Len(s) - 1 :
            (u \o w)[j] = IF j <= i - 1 THEN u[j] ELSE w[j - (i - 1)]
  <2>1. u \in Seq(T) /\ w \in Seq(T)
    BY <1>2, <1>3
  <2>2. /\ u \o w \in Seq(T) /\ Len(u \o w) = Len(u) + Len(w)
        /\ \A j \in 1 .. Len(u) + Len(w) :
              (u \o w)[j] = IF j <= Len(u) THEN u[j] ELSE w[j - Len(u)]
    BY <2>1
  <2>3. Len(u) = i - 1 /\ Len(u) + Len(w) = Len(s) - 1
    BY <1>1, <1>2, <1>3
  <2> QED
    BY <2>2, <2>3
<1>6. ASSUME NEW j \in 1 .. Len(s) - 1, j < i
      PROVE  j \in DOMAIN s /\ (u \o w)[j] = s[j]
  BY <1>1, <1>2, <1>5, <1>6
<1>7. ASSUME NEW j \in 1 .. Len(s) - 1, ~ (j < i)
      PROVE  j + 1 \in DOMAIN s /\ j + 1 # i /\ (u \o w)[j] = s[j + 1]
  <2>1. j - (i - 1) \in 1 .. Len(s) - i /\ j - (i - 1) + i = j + 1
    BY <1>1, <1>7
  <2>2. w[j - (i - 1)] = s[j + 1]
    BY <1>3, <2>1
  <2>3. (u \o w)[j] = w[j - (i - 1)]
    <3>1. (u \o w)[j] = IF j <= i - 1 THEN u[j] ELSE w[j - (i - 1)]
      BY <1>5
    <3>2. ~ (j <= i - 1)
      BY <1>1, <1>7
    <3> QED
      BY <3>1, <3>2, Zenon
  <2> QED
    BY <1>1, <1>7, <2>2, <2>3
<1>8. DOMAIN (u \o w) = 1 .. Len(s) - 1
  BY <1>1, <1>5
<1>9. \A j \in 1 .. Len(s) - 1 :
         LET k == IF j < i THEN j ELSE j + 1
         IN  k \in DOMAIN s /\ k # i /\ (u \o w)[j] = s[k]
  <2> SUFFICES ASSUME NEW j \in 1 .. Len(s) - 1
               PROVE  LET k == IF j < i THEN j ELSE j + 1
                      IN  k \in DOMAIN s /\ k # i /\ (u \o w)[j] = s[k]
    OBVIOUS
  <2>1. CASE j < i
    <3>1. j \in DOMAIN s /\ (u \o w)[j] = s[j]
      BY <1>6, <2>1, Zenon
    <3>2. j # i
      BY <1>1, <2>1
    <3> QED
      BY <2>1, <3>1, <3>2, Zenon
  <2>2. CASE ~ (j < i)
    <3>1. j + 1 \in DOMAIN s /\ j + 1 # i /\ (u \o w)[j] = s[j + 1]
      BY <1>7, <2>2
    <3> QED
      BY <2>2, <3>1, Zenon
  <2> QED
    BY <2>1, <2>2
<1> QED
  BY <1>4, <1>5, <1>8, <1>9, Zenon

LEMMA UploadFacts ==
    ASSUME Uploading, NEW a \in Admins, NEW i \in DOMAIN uploads[a]
    PROVE  /\ uploads[a][i] \in Upload
           /\ UploadFits(uploads[a], i, draft[a], storage, hasty, hurried)
<1>1. uploads[a] \in Seq(Upload)
  BY DEF Uploading
<1> QED
  BY <1>1 DEF Uploading

\* A step of administrator a leaves the uploads of the others alone.
LEMMA OneAdmin ==
    ASSUME Uploading, NEW a \in Admins, storage \subseteq storage', UNCHANGED <<hasty, hurried>>,
           draft' \in [Admins -> Draft], picked' \subseteq Admins, spinning' \subseteq Admins,
           uploads' \in [Admins -> Seq(Upload)],
           \A b \in Admins \ {a} : draft'[b] = draft[b] /\ uploads'[b] = uploads[b],
           \A i \in DOMAIN uploads'[a] :
              UploadFits(uploads'[a], i, draft'[a], storage', hasty, hurried)
    PROVE  Uploading'
<1>1. ASSUME NEW b \in Admins, NEW i \in DOMAIN uploads'[b]
      PROVE  UploadFits(uploads'[b], i, draft'[b], storage', hasty, hurried)
  <2>1. CASE b = a
    BY <1>1, <2>1
  <2>2. CASE b # a
    <3>1. draft'[b] = draft[b] /\ uploads'[b] = uploads[b] /\ i \in DOMAIN uploads[b]
      BY <1>1, <2>2
    <3>2. UploadFits(uploads[b], i, draft[b], storage, hasty, hurried)
      BY <3>1, UploadFacts
    <3>3. UploadFits(uploads[b], i, draft[b], storage', hasty, hurried)
      BY <3>2 DEF UploadFits
    <3> QED
      BY <3>1, <3>3
  <2> QED
    BY <2>1, <2>2
<1>2. hasty' \in BOOLEAN /\ hurried' \in BOOLEAN
  BY DEF Uploading
<1> QED
  BY <1>1, <1>2 DEF Uploading

LEMMA UploadsKept ==
    ASSUME Uploading, storage \subseteq storage', UNCHANGED <<draft, uploads, hasty, hurried>>,
           picked' \subseteq Admins, spinning' \subseteq Admins
    PROVE  Uploading'
<1>1. ASSUME NEW a \in Admins, NEW i \in DOMAIN uploads[a]
      PROVE  UploadFits(uploads[a], i, draft[a], storage', hasty, hurried)
  <2>1. UploadFits(uploads[a], i, draft[a], storage, hasty, hurried)
    BY UploadFacts
  <2> QED
    BY <2>1 DEF UploadFits
<1> QED
  BY <1>1 DEF Uploading

LEMMA BlankIsDraft == BlankDraft \in Draft
  BY DEF BlankDraft, Draft, Amounts

LEMMA UploadFrame ==
    ASSUME Uploading, NEW d \in Devices, Frame(d)
    PROVE  Uploading'
<1>1. UNCHANGED <<storage, hasty, hurried, picked>> /\ spinning' \subseteq Admins
  BY DEF Frame, productVars, Uploading
<1>2. CASE d \notin Admins
  <2>1. UNCHANGED <<draft, uploads>>
    BY <1>2 DEF Frame
  <2> QED
    BY <1>1, <2>1, UploadsKept DEF Uploading
<1>3. CASE d \in Admins
  <2>1. /\ draft' = [draft EXCEPT ![d] = BlankDraft]
        /\ uploads' = [uploads EXCEPT ![d] = Leave(d)]
    BY <1>3 DEF Frame
  <2>2. draft \in [Admins -> Draft] /\ uploads \in [Admins -> Seq(Upload)]
    BY DEF Uploading
  <2>3. /\ DOMAIN Leave(d) = DOMAIN uploads[d]
        /\ \A i \in DOMAIN uploads[d] :
              Leave(d)[i] = IF uploads[d][i].live
                            THEN [uploads[d][i] EXCEPT !.live = FALSE, !.draft = draft[d]]
                            ELSE uploads[d][i]
    BY DEF Leave
  <2>4. \A i \in DOMAIN uploads[d] :
           /\ Leave(d)[i] \in Upload
           /\ ~ Leave(d)[i].live
           /\ Leave(d)[i].file = uploads[d][i].file
           /\ Leave(d)[i].sent = uploads[d][i].sent
           /\ Leave(d)[i].state = uploads[d][i].state
           /\ Leave(d)[i].draft = IF uploads[d][i].live THEN draft[d] ELSE uploads[d][i].draft
    <3> SUFFICES ASSUME NEW i \in DOMAIN uploads[d]
                 PROVE  /\ Leave(d)[i] \in Upload
                        /\ ~ Leave(d)[i].live
                        /\ Leave(d)[i].file = uploads[d][i].file
                        /\ Leave(d)[i].sent = uploads[d][i].sent
                        /\ Leave(d)[i].state = uploads[d][i].state
           /\ Leave(d)[i].state = uploads[d][i].state
                        /\ Leave(d)[i].draft = IF uploads[d][i].live
                                               THEN draft[d] ELSE uploads[d][i].draft
      OBVIOUS
    <3>1. uploads[d][i] \in Upload /\ draft[d] \in Draft
      BY <1>3, <2>2
    <3>2. CASE uploads[d][i].live
      <4>1. Leave(d)[i] = [uploads[d][i] EXCEPT !.live = FALSE, !.draft = draft[d]]
        BY <2>3, <3>2
      <4> QED
        BY <3>1, <3>2, <4>1 DEF Upload
    <3>3. CASE ~ uploads[d][i].live
      <4>1. Leave(d)[i] = uploads[d][i]
        BY <2>3, <3>3
      <4> QED
        BY <3>1, <3>3, <4>1
    <3> QED
      BY <3>2, <3>3
  <2>5. Leave(d) \in Seq(Upload)
    <3>1. Len(uploads[d]) \in Nat /\ DOMAIN uploads[d] = 1 .. Len(uploads[d])
      BY <1>3, <2>2
    <3>2. Leave(d) = [i \in 1 .. Len(uploads[d]) |-> Leave(d)[i]]
      BY <3>1 DEF Leave
    <3> DEFINE left == Leave(d)
               n    == Len(uploads[d])
    <3>3. \A i \in 1 .. n : left[i] \in Upload
      BY <2>4, <3>1
    <3>4. left = [i \in 1 .. n |-> left[i]] /\ n \in Nat
      BY <3>1, <3>2
    <3> HIDE DEF left, n
    <3>5. left \in Seq(Upload)
      BY <3>3, <3>4
    <3> QED
      BY <3>5 DEF left
  <2>6. /\ draft' \in [Admins -> Draft] /\ uploads' \in [Admins -> Seq(Upload)]
        /\ uploads'[d] = Leave(d)
        /\ \A b \in Admins \ {d} : draft'[b] = draft[b] /\ uploads'[b] = uploads[b]
    BY <1>3, <2>1, <2>2, <2>5, BlankIsDraft
  <2>7. ASSUME NEW i \in DOMAIN Leave(d)
        PROVE  UploadFits(Leave(d), i, draft'[d], storage', hasty, hurried)
    <3>1. UploadFits(uploads[d], i, draft[d], storage, hasty, hurried)
      BY <1>3, <2>3, UploadFacts
    <3>2. hasty \/ hurried \/ Leave(d)[i].file = Leave(d)[i].draft.title
      BY <2>3, <2>4, <3>1 DEF UploadFits
    <3>3. ~ Leave(d)[i].live /\ (Leave(d)[i].sent => Leave(d)[i].file \in storage')
      BY <1>1, <2>3, <2>4, <3>1 DEF UploadFits
    <3>4. ~ hurried => \A j \in DOMAIN Leave(d) :
             Leave(d)[j].state = Leave(d)[i].state \/ (Leave(d)[j].live /\ Leave(d)[i].live)
                => i = j
      BY <2>3, <2>4, <3>1 DEF UploadFits
    <3> QED
      BY <3>2, <3>3, <3>4 DEF UploadFits
  <2>8. \A i \in DOMAIN uploads'[d] : UploadFits(uploads'[d], i, draft'[d], storage', hasty, hurried)
    BY <2>6, <2>7
  <2> QED
    BY <1>1, <1>3, <2>6, <2>8, OneAdmin DEF Uploading
<1> QED
  BY <1>2, <1>3

LEMMA UploadTypeDraft ==
    ASSUME Uploading, NEW a \in Admins, NEW t \in Titles \cup {None}, NEW x \in Amounts,
           TypeDraft(a, t, x)
    PROVE  Uploading'
<1>1. /\ UNCHANGED <<storage, hasty, hurried, picked, spinning, uploads>>
      /\ hasty \/ ~ draft[a].loading
      /\ draft' = [draft EXCEPT ![a].title = t, ![a].price = x]
  BY DEF TypeDraft, productVars
<1>2. draft \in [Admins -> Draft] /\ uploads \in [Admins -> Seq(Upload)]
  BY DEF Uploading
<1>3. /\ draft' \in [Admins -> Draft]
      /\ draft'[a].loading = draft[a].loading
      /\ \A b \in Admins \ {a} : draft'[b] = draft[b]
  BY <1>1, <1>2 DEF Draft
<1>4. ASSUME NEW i \in DOMAIN uploads'[a]
      PROVE  UploadFits(uploads'[a], i, draft'[a], storage', hasty, hurried)
  <2>1. UploadFits(uploads[a], i, draft[a], storage, hasty, hurried)
    BY <1>1, UploadFacts
  <2>2. hasty \/ hurried \/ ~ uploads[a][i].live
    BY <1>1, <2>1 DEF UploadFits
  <2>3. UploadFits(uploads[a], i, draft'[a], storage, hasty, hurried)
    BY <1>3, <2>1, <2>2 DEF UploadFits
  <2> QED
    BY <1>1, <2>3
<1>5. uploads' \in [Admins -> Seq(Upload)] /\ picked' \subseteq Admins
      /\ spinning' \subseteq Admins /\ storage \subseteq storage' /\ UNCHANGED <<hasty, hurried>>
      /\ \A b \in Admins \ {a} : uploads'[b] = uploads[b]
  BY <1>1, <1>2 DEF Uploading
<1> QED
  BY <1>3, <1>4, <1>5, OneAdmin

\* The sequence of uploads after a tap: those under way, and perhaps a new one of
\* the State that is shown.
LEMMA UploadBegun ==
    ASSUME Uploading, NEW a \in Admins, Begin(a)
    PROVE  \E n \in 1 .. MaxUploads :
              LET up == [file |-> draft[a].title, sent |-> FALSE, state |-> n, live |-> TRUE,
                         draft |-> BlankDraft]
              IN  /\ up \in Upload
                  /\ \A i \in DOMAIN uploads[a] :
                        uploads[a][i].state = n <=> uploads[a][i].live
                  /\ uploads' = [uploads EXCEPT ![a] = Append(@, up)]
<1>1. PICK n \in 1 .. MaxUploads :
         /\ \A i \in DOMAIN uploads[a] : uploads[a][i].state = n <=> uploads[a][i].live
         /\ uploads' = [uploads EXCEPT ![a] =
                           Append(@, [file |-> draft[a].title, sent |-> FALSE, state |-> n,
                                      live |-> TRUE, draft |-> BlankDraft])]
  BY DEF Begin
<1>2. [file |-> draft[a].title, sent |-> FALSE, state |-> n, live |-> TRUE,
       draft |-> BlankDraft] \in Upload
  BY BlankIsDraft DEF Uploading, Upload, Draft, Files
<1> QED
  BY <1>1, <1>2, Zenon

\* A new upload begins with the title in the field, and puts the spinner up.
\* Whoever waits for the frame had none on this page.
LEMMA UploadAddTapped ==
    ASSUME Uploading, NEW a \in Admins, AddTapped(a)
    PROVE  Uploading'
<1>1. /\ UNCHANGED <<storage, hasty, hurried, picked, spinning>>
      /\ hurried \/ ~ draft[a].loading
      /\ draft' = [draft EXCEPT ![a].loading = TRUE]
      /\ uploads' = uploads \/ Begin(a)
  BY DEF AddTapped, productVars
<1>2. draft \in [Admins -> Draft] /\ uploads \in [Admins -> Seq(Upload)]
  BY DEF Uploading
<1>3. /\ draft' \in [Admins -> Draft]
      /\ draft'[a].loading = TRUE /\ draft'[a].title = draft[a].title
      /\ \A b \in Admins \ {a} : draft'[b] = draft[b]
  BY <1>1, <1>2 DEF Draft
<1>4. \A i \in DOMAIN uploads[a] :
         /\ uploads[a][i].sent => uploads[a][i].file \in storage
         /\ ~ hurried => ~ uploads[a][i].live
         /\ ~ hurried => \A j \in DOMAIN uploads[a] :
                            uploads[a][j].state = uploads[a][i].state => i = j
         /\ \/ hasty \/ hurried
            \/ uploads[a][i].file =
                  (IF uploads[a][i].live THEN draft'[a] ELSE uploads[a][i].draft).title
  <2> SUFFICES ASSUME NEW i \in DOMAIN uploads[a]
               PROVE  /\ uploads[a][i].sent => uploads[a][i].file \in storage
                      /\ ~ hurried => ~ uploads[a][i].live
                      /\ ~ hurried => \A j \in DOMAIN uploads[a] :
                                         uploads[a][j].state = uploads[a][i].state => i = j
                      /\ \/ hasty \/ hurried
                         \/ uploads[a][i].file =
                               (IF uploads[a][i].live THEN draft'[a]
                                ELSE uploads[a][i].draft).title
    OBVIOUS
  <2>1. UploadFits(uploads[a], i, draft[a], storage, hasty, hurried)
    BY UploadFacts
  <2> QED
    BY <1>1, <1>3, <2>1 DEF UploadFits
<1>5. CASE uploads' = uploads
  <2>1. ASSUME NEW i \in DOMAIN uploads'[a]
        PROVE  UploadFits(uploads'[a], i, draft'[a], storage', hasty, hurried)
    BY <1>1, <1>3, <1>4, <1>5 DEF UploadFits
  <2> QED
    BY <1>1, <1>2, <1>3, <1>5, <2>1, OneAdmin DEF Uploading
<1>6. CASE Begin(a)
  <2>1. PICK n \in 1 .. MaxUploads :
           LET up == [file |-> draft[a].title, sent |-> FALSE, state |-> n, live |-> TRUE,
                      draft |-> BlankDraft]
           IN  /\ up \in Upload
               /\ \A i \in DOMAIN uploads[a] : uploads[a][i].state = n <=> uploads[a][i].live
               /\ uploads' = [uploads EXCEPT ![a] = Append(@, up)]
    BY <1>6, UploadBegun
  <2> DEFINE up == [file |-> draft[a].title, sent |-> FALSE, state |-> n, live |-> TRUE,
                    draft |-> BlankDraft]
             m  == Len(uploads[a])
  <2>2. up \in Upload /\ up.live /\ ~ up.sent /\ up.file = draft[a].title /\ up.state = n
    BY <2>1
  <2>3. uploads' = [uploads EXCEPT ![a] = Append(@, up)]
    BY <2>1
  <2> HIDE DEF up
  <2>4. Append(uploads[a], up) \in Seq(Upload)
    BY <1>2, <2>2
  <2>5. uploads' \in [Admins -> Seq(Upload)]
        /\ \A b \in Admins \ {a} : uploads'[b] = uploads[b]
    BY <1>2, <2>3, <2>4
  <2>6. /\ m \in Nat /\ DOMAIN uploads[a] = 1 .. m /\ DOMAIN uploads'[a] = 1 .. (m + 1)
        /\ uploads'[a][m + 1] = up
        /\ \A j \in 1 .. m : uploads'[a][j] = uploads[a][j]
    BY <1>2, <2>2, <2>3
  <2> HIDE DEF m
  <2>7. ~ hurried => \A j \in 1 .. m : ~ uploads'[a][j].live /\ uploads'[a][j].state # n
    BY <1>4, <2>1, <2>6
  <2>8. ASSUME NEW i \in DOMAIN uploads'[a]
        PROVE  UploadFits(uploads'[a], i, draft'[a], storage', hasty, hurried)
    <3>1. CASE i = m + 1
      <4>1. ~ hurried => \A j \in DOMAIN uploads'[a] :
               uploads'[a][j].state = n \/ uploads'[a][j].live => j = m + 1
        BY <2>6, <2>7
      <4>2. uploads'[a][i] = up
        BY <2>6, <3>1
      <4> QED
        BY <1>3, <2>2, <3>1, <4>1, <4>2 DEF UploadFits
    <3>2. CASE i # m + 1
      <4>1. i \in 1 .. m /\ uploads'[a][i] = uploads[a][i]
        BY <2>6, <2>8, <3>2
      <4>2. ~ hurried => \A j \in DOMAIN uploads'[a] :
               uploads'[a][j].state = uploads'[a][i].state => i = j
        <5> SUFFICES ASSUME ~ hurried, NEW j \in DOMAIN uploads'[a],
                            uploads'[a][j].state = uploads'[a][i].state
                     PROVE  i = j
          OBVIOUS
        <5>1. j # m + 1
          BY <2>2, <2>6, <2>7, <4>1
        <5>2. j \in 1 .. m /\ uploads'[a][j] = uploads[a][j]
          BY <2>6, <5>1
        <5> QED
          BY <1>4, <2>6, <4>1, <5>2
      <4>3. ~ hurried => ~ uploads'[a][i].live
        BY <2>7, <4>1
      <4> QED
        BY <1>1, <1>4, <2>6, <4>1, <4>2, <4>3 DEF UploadFits
    <3> QED
      BY <3>1, <3>2
  <2> QED
    BY <1>1, <1>3, <2>5, <2>8, OneAdmin DEF Uploading
<1> QED
  BY <1>1, <1>5, <1>6

\* A frame puts the spinner up or takes it away.
LEMMA UploadRedrawn ==
    ASSUME Uploading, NEW a \in Admins, Redrawn(a)
    PROVE  Uploading'
<1>1. UNCHANGED <<storage, draft, uploads, hasty, hurried, picked>> /\ spinning' \subseteq Admins
  BY DEF Redrawn, productVars, Uploading
<1> QED
  BY <1>1, UploadsKept DEF Uploading

LEMMA UploadPictureStored ==
    ASSUME Uploading, NEW a \in Admins, NEW i \in DOMAIN uploads[a], PictureStored(a, i)
    PROVE  Uploading'
<1> DEFINE up == [uploads[a][i] EXCEPT !.sent = TRUE]
<1>1. /\ UNCHANGED <<draft, picked, spinning, hasty, hurried>>
      /\ storage' = storage \cup {uploads[a][i].file}
      /\ uploads' = [uploads EXCEPT ![a][i].sent = TRUE]
  BY DEF PictureStored
<1>2. draft \in [Admins -> Draft] /\ uploads \in [Admins -> Seq(Upload)]
  BY DEF Uploading
<1>3. /\ up \in Upload /\ up.file = uploads[a][i].file
      /\ up.live = uploads[a][i].live /\ up.draft = uploads[a][i].draft
      /\ up.state = uploads[a][i].state
  BY UploadFacts DEF Upload
<1>4. uploads' = [uploads EXCEPT ![a] = [@ EXCEPT ![i] = up]]
  BY <1>1
<1> HIDE DEF up
<1>5. /\ uploads' \in [Admins -> Seq(Upload)]
      /\ DOMAIN uploads'[a] = DOMAIN uploads[a]
      /\ uploads'[a][i] = up
      /\ \A j \in DOMAIN uploads[a] \ {i} : uploads'[a][j] = uploads[a][j]
      /\ \A b \in Admins \ {a} : uploads'[b] = uploads[b]
  BY <1>2, <1>3, <1>4
<1>6. \A j \in DOMAIN uploads[a] : /\ uploads'[a][j].live = uploads[a][j].live
                                   /\ uploads'[a][j].state = uploads[a][j].state
                                   /\ uploads'[a][j].file = uploads[a][j].file
                                   /\ uploads'[a][j].draft = uploads[a][j].draft
                                   /\ j = i \/ uploads'[a][j].sent = uploads[a][j].sent
  BY <1>3, <1>5
<1>7. ASSUME NEW j \in DOMAIN uploads'[a]
      PROVE  UploadFits(uploads'[a], j, draft'[a], storage', hasty, hurried)
  <2>1. UploadFits(uploads[a], j, draft[a], storage, hasty, hurried)
    BY <1>5, UploadFacts
  <2>2. uploads'[a][j].sent => uploads'[a][j].file \in storage'
    BY <1>1, <1>5, <1>6, <2>1 DEF UploadFits
  <2>3. ~ hurried =>
           /\ uploads'[a][j].live => draft'[a].loading
           /\ \A k \in DOMAIN uploads'[a] :
                 \/ uploads'[a][k].state = uploads'[a][j].state
                 \/ uploads'[a][k].live /\ uploads'[a][j].live
                 => j = k
    BY <1>1, <1>5, <1>6, <2>1 DEF UploadFits
  <2>4. \/ hasty \/ hurried
        \/ uploads'[a][j].file =
              (IF uploads'[a][j].live THEN draft'[a] ELSE uploads'[a][j].draft).title
    BY <1>1, <1>5, <1>6, <2>1 DEF UploadFits
  <2> QED
    BY <2>2, <2>3, <2>4 DEF UploadFits
<1> QED
  BY <1>1, <1>2, <1>5, <1>7, OneAdmin DEF Uploading

\* The uploads us are those of administrator a, but for the fields of the State
\* that upload i belongs to.
SameUploads(us, a, i) ==
    /\ DOMAIN us = DOMAIN uploads[a]
    /\ \A j \in DOMAIN us :
          /\ us[j].file = uploads[a][j].file /\ us[j].sent = uploads[a][j].sent
          /\ us[j].live = uploads[a][j].live /\ us[j].state = uploads[a][j].state
          /\ us[j].draft = uploads[a][j].draft \/ us[j].state = us[i].state

\* The page that is shown is cleared, if at all, by its own upload.
ClearsItsPage(a, i) ==
    \/ draft' = draft
    \/ uploads[a][i].live /\ draft' = [draft EXCEPT ![a] = BlankDraft]

\* An upload that is over is forgotten; the fields of its State may go with it,
\* which another upload still has only where somebody taps again.
LEMMA UploadDropped ==
    ASSUME Uploading, NEW a \in Admins, NEW i \in DOMAIN uploads[a],
           UNCHANGED <<storage, picked, spinning, hasty, hurried>>,
           NEW us, us \in Seq(Upload), SameUploads(us, a, i),
           uploads' = [uploads EXCEPT ![a] = RemoveAt(us, i)], ClearsItsPage(a, i)
    PROVE  Uploading'
<1> DEFINE rest == RemoveAt(us, i)
           At(j) == IF j < i THEN j ELSE j + 1
<1>1. draft \in [Admins -> Draft] /\ uploads \in [Admins -> Seq(Upload)]
  BY DEF Uploading
<1>2. /\ rest \in Seq(Upload)
      /\ \A j \in DOMAIN rest : At(j) \in DOMAIN us /\ At(j) # i /\ rest[j] = us[At(j)]
  BY RemoveAtFacts DEF SameUploads
<1>3. uploads' = [uploads EXCEPT ![a] = rest]
  OBVIOUS
<1>4. DOMAIN rest \subseteq Nat /\ i \in Nat
  BY <1>1, <1>2
<1>5. \A j, k \in DOMAIN rest : At(j) = At(k) => j = k
  BY <1>4
<1> HIDE DEF rest, At
<1>6. /\ uploads' \in [Admins -> Seq(Upload)] /\ uploads'[a] = rest
      /\ draft' \in [Admins -> Draft]
      /\ \A b \in Admins \ {a} : uploads'[b] = uploads[b] /\ draft'[b] = draft[b]
  BY <1>1, <1>2, <1>3, BlankIsDraft DEF ClearsItsPage
<1>7. ASSUME NEW j \in DOMAIN rest
      PROVE  UploadFits(rest, j, draft'[a], storage', hasty, hurried)
  <2>1. UploadFits(uploads[a], At(j), draft[a], storage, hasty, hurried)
    BY <1>2, UploadFacts DEF SameUploads
  <2>2. /\ At(j) \in DOMAIN uploads[a] /\ At(j) # i
        /\ rest[j].file = uploads[a][At(j)].file /\ rest[j].sent = uploads[a][At(j)].sent
        /\ rest[j].live = uploads[a][At(j)].live /\ rest[j].state = uploads[a][At(j)].state
        /\ rest[j].draft = uploads[a][At(j)].draft \/ rest[j].state = uploads[a][i].state
    BY <1>2 DEF SameUploads
  <2>3. rest[j].sent => rest[j].file \in storage'
    BY <2>1, <2>2 DEF UploadFits
  <2>4. CASE hurried
    BY <2>3, <2>4 DEF UploadFits
  <2>5. CASE ~ hurried
    <3>1. /\ uploads[a][At(j)].live => draft[a].loading
          /\ \A k \in DOMAIN uploads[a] :
                \/ uploads[a][k].state = uploads[a][At(j)].state
                \/ uploads[a][k].live /\ uploads[a][At(j)].live
                => At(j) = k
      BY <2>1, <2>5 DEF UploadFits
    <3>2. ~ rest[j].live \/ draft' = draft
      BY <2>2, <3>1 DEF ClearsItsPage
    <3>3. rest[j].draft = uploads[a][At(j)].draft
      BY <2>2, <3>1
    <3>4. rest[j].live => draft'[a].loading
      BY <2>2, <3>1, <3>2
    <3>5. ASSUME NEW k \in DOMAIN rest,
                 rest[k].state = rest[j].state \/ (rest[k].live /\ rest[j].live)
          PROVE  j = k
      <4>1. /\ At(k) \in DOMAIN uploads[a]
            /\ rest[k].live = uploads[a][At(k)].live
            /\ rest[k].state = uploads[a][At(k)].state
        BY <1>2 DEF SameUploads
      <4>2. At(j) = At(k)
        BY <2>2, <3>1, <3>5, <4>1
      <4> QED
        BY <1>5, <4>2
    <3>6. hasty \/ rest[j].file = (IF rest[j].live THEN draft'[a] ELSE rest[j].draft).title
      BY <2>1, <2>2, <2>5, <3>2, <3>3 DEF UploadFits
    <3> QED
      BY <2>3, <2>5, <3>4, <3>5, <3>6 DEF UploadFits
  <2> QED
    BY <2>4, <2>5
<1> QED
  BY <1>6, <1>7, OneAdmin DEF Uploading

LEMMA UploadLost ==
    ASSUME Uploading, NEW a \in Admins, NEW i \in DOMAIN uploads[a], Drop(a, i),
           UNCHANGED <<storage, draft, picked, spinning, hasty, hurried>>
    PROVE  Uploading'
<1>1. uploads[a] \in Seq(Upload) /\ uploads' = [uploads EXCEPT ![a] = RemoveAt(uploads[a], i)]
  BY DEF Uploading, Drop
<1>2. SameUploads(uploads[a], a, i) /\ ClearsItsPage(a, i)
  BY DEF SameUploads, ClearsItsPage
<1> QED
  BY <1>1, <1>2, UploadDropped

LEMMA UploadFinished ==
    ASSUME Uploading, NEW a \in Admins, NEW i \in DOMAIN uploads[a], Finish(a, i),
           UNCHANGED <<storage, picked, spinning, hasty, hurried>>
    PROVE  Uploading'
<1> DEFINE us == [j \in DOMAIN uploads[a] |->
                     IF uploads[a][j].state = uploads[a][i].state
                     THEN [uploads[a][j] EXCEPT !.draft = BlankDraft] ELSE uploads[a][j]]
           n == Len(uploads[a])
<1>1. /\ draft' = IF uploads[a][i].live THEN [draft EXCEPT ![a] = BlankDraft] ELSE draft
      /\ uploads' = [uploads EXCEPT ![a] = RemoveAt(us, i)]
  BY DEF Finish
<1>2. n \in Nat /\ DOMAIN uploads[a] = 1 .. n /\ uploads[a] \in Seq(Upload)
  BY DEF Uploading
<1>3. ASSUME NEW j \in DOMAIN uploads[a]
      PROVE  /\ us[j] \in Upload
             /\ us[j].file = uploads[a][j].file /\ us[j].sent = uploads[a][j].sent
             /\ us[j].live = uploads[a][j].live /\ us[j].state = uploads[a][j].state
             /\ us[j].draft = uploads[a][j].draft \/ us[j].state = uploads[a][i].state
  <2>1. uploads[a][j] \in Upload
    BY <1>2
  <2>2. CASE uploads[a][j].state = uploads[a][i].state
    <3>1. us[j] = [uploads[a][j] EXCEPT !.draft = BlankDraft]
      BY <2>2
    <3> HIDE DEF us
    <3> QED
      BY <2>1, <2>2, <3>1, BlankIsDraft DEF Upload
  <2>3. CASE uploads[a][j].state # uploads[a][i].state
    <3>1. us[j] = uploads[a][j]
      BY <2>3
    <3> HIDE DEF us
    <3> QED
      BY <2>1, <3>1
  <2> QED
    BY <2>2, <2>3
<1>4. us = [j \in 1 .. n |-> us[j]] /\ DOMAIN us = DOMAIN uploads[a]
  BY <1>2
<1>5. \A j \in 1 .. n : us[j] \in Upload
  BY <1>2, <1>3
<1> HIDE DEF us, n
<1>6. us \in Seq(Upload)
  BY <1>2, <1>4, <1>5
<1>7. us[i].state = uploads[a][i].state
  BY <1>3
<1>8. ClearsItsPage(a, i)
  BY <1>1 DEF ClearsItsPage
<1>9. SameUploads(us, a, i)
  BY <1>3, <1>4, <1>7 DEF SameUploads
<1> QED
  BY <1>1, <1>6, <1>8, <1>9, UploadDropped

LEMMA UploadFileProduct ==
    ASSUME Uploading, NEW a \in Admins, NEW i \in DOMAIN uploads[a], FileProduct(a, i)
    PROVE  Uploading'
<1>1. UNCHANGED <<storage, picked, spinning, hasty, hurried>>
  BY DEF FileProduct
<1>2. Finish(a, i) \/ (Drop(a, i) /\ draft' = draft)
  BY DEF FileProduct
<1> QED
  BY <1>1, <1>2, UploadFinished, UploadLost

\* The document that is filed has the uploaded picture, which is in the storage,
\* and a title that is still the picture's unless fields were edited or somebody
\* tapped again.
LEMMA ShopFileProduct ==
    ASSUME ProductsInv, NEW a \in Admins, NEW i \in DOMAIN uploads[a], FileProduct(a, i)
    PROVE  Shop' /\ versions \subseteq versions'
<1> DEFINE now == DraftNow(a, i)
           p   == [image |-> uploads[a][i].file, price |-> now.price]
           w   == SetProduct(now.title, p)
<1>1. Shop /\ Uploading
  BY DEF ProductsInv
<1>2. /\ uploads[a][i].sent /\ UNCHANGED <<storage, hasty, hurried>>
      /\ \/ now.title # None /\ Enqueue(a, w)
         \/ UNCHANGED <<docs, outbox, versions>>
  BY DEF FileProduct
<1>3. uploads[a][i] \in Upload /\ UploadFits(uploads[a], i, draft[a], storage, hasty, hurried)
  BY <1>1, UploadFacts
<1>4. now \in Draft
  BY <1>1, <1>3 DEF DraftNow, Uploading, Upload
<1>5. hasty \/ hurried \/ uploads[a][i].file = now.title
  BY <1>3 DEF UploadFits, DraftNow
<1> HIDE DEF now
<1>6. CASE UNCHANGED <<docs, outbox, versions>>
  BY <1>1, <1>2, <1>6, StorageKeepsShop DEF Shop
<1>7. CASE now.title # None /\ Enqueue(a, w)
  <2>1. now.title \in Titles /\ p \in Product
    BY <1>3, <1>4, <1>7 DEF Draft, Upload, Product
  <2>2. uploads[a][i].file \in storage
    BY <1>2, <1>3 DEF UploadFits
  <2>3. uploads[a][i].file \in Pictures[now.title]
    BY <1>5, <2>1, <2>2 DEF Pictures
  <2>4. w \in Writes
    BY <2>1 DEF Writes
  <2>5. WriteFits(w, Pictures)
    BY <2>3 DEF WriteFits, SetProduct
  <2> QED
    BY <1>1, <1>2, <1>7, <2>4, <2>5, EnqueueKeepsShop
<1> QED
  BY <1>2, <1>6, <1>7

-----------------------------------------------------------------------------
(***************************************************************************)
(* The invariant.                                                          *)
(***************************************************************************)
LEMMA InitInv == Init => ProductsInv
<1> SUFFICES ASSUME Init
             PROVE  ProductsInv
  OBVIOUS
<1>1. docs = << >> /\ docs \in Collections
  <2>1. docs = << >>
    BY DEF Init
  <2>2. DOMAIN docs = {} /\ docs = [t \in DOMAIN docs |-> docs[t]]
    BY <2>1
  <2> QED
    BY <2>1, <2>2, CollectionFacts
<1>2. VersionsOf(docs) = {}
  BY <1>1 DEF VersionsOf
<1>3. Shop
  <2>1. outbox = [a \in Admins |-> << >>] /\ storage = {} /\ versions = {}
    BY DEF Init
  <2>2. outbox \in [Admins -> Seq(Writes)]
    BY <2>1
  <2>3. \A a \in Admins : outbox[a] = << >> /\ DOMAIN outbox[a] = {}
    BY <2>1
  <2>4. \A a \in Admins : VersionsOf(ViewOf(docs, outbox[a])) = {}
    BY <1>2, <2>3, ViewOfNothing
  <2> QED
    BY <1>1, <1>2, <2>1, <2>2, <2>3, <2>4 DEF Shop
<1>4. Visits
  <2>1. PageTypes
    <3>1. << >> \in Collections
      BY <1>1
    <3> QED
      BY <3>1, UnfetchedIsProduct DEF Init, PageTypes, Pages, Amounts
  <2>2. ASSUME NEW d \in Devices
        PROVE  ShowsItsProduct(d) /\ TellsOneVersion(d)
    BY DEF Init, ShowsItsProduct, TellsOneVersion
  <2> QED
    BY <2>1, <2>2, VisitsParts
<1>5. Uploading
  <2>1. /\ uploads = [a \in Admins |-> << >>] /\ draft = [a \in Admins |-> BlankDraft]
        /\ picked = {} /\ spinning = {} /\ hasty \in BOOLEAN /\ hurried \in BOOLEAN
    BY DEF Init
  <2>2. \A a \in Admins : DOMAIN uploads[a] = {}
    BY <2>1
  <2> QED
    BY <2>1, <2>2, BlankIsDraft DEF Uploading
<1> QED
  BY <1>3, <1>4, <1>5 DEF ProductsInv

\* Steps that leave the collection, its queues and its pictures alone.
LEMMA ShopUnchanged ==
    ASSUME Shop, UNCHANGED <<docs, storage, outbox, versions, hasty, hurried>>
    PROVE  Shop' /\ versions \subseteq versions'
  BY StorageKeepsShop DEF Shop

LEMMA DeviceStep ==
    ASSUME ProductsInv, NEW d \in Devices,
           \/ Frame(d) \/ NavTapped(d) \/ (\E t \in Titles : CardTapped(d, t))
           \/ GetInfo(d) \/ GetInfoFails(d) \/ CounterTapped(d) \/ BuyTapped(d)
    PROVE  ProductsInv'
<1>1. Shop /\ Visits /\ Uploading
  BY DEF ProductsInv
<1>2. CASE Frame(d)
  <2>1. UNCHANGED <<docs, storage, outbox, versions, hasty, hurried>>
    BY <1>2 DEF Frame, productVars
  <2> QED
    BY <1>1, <1>2, <2>1, ShopUnchanged, VisitFrame, UploadFrame DEF ProductsInv
<1>3. ASSUME UNCHANGED <<productVars, addVars>>
      PROVE  Shop' /\ Uploading'
  <2>1. UNCHANGED <<docs, storage, outbox, versions, draft, uploads, picked, spinning, hasty,
                    hurried>>
    BY <1>3 DEF productVars, addVars
  <2> QED
    BY <1>1, <2>1, ShopUnchanged, UploadsKept DEF Uploading
<1>4. CASE NavTapped(d)
  <2>1. Turn(d, "elsewhere") /\ chosen' = chosen /\ UNCHANGED <<productVars, addVars>>
    BY <1>4 DEF NavTapped, Turn
  <2>2. Visits'
    BY <1>1, <2>1, VisitTurn DEF Pages
  <2> QED
    BY <1>3, <2>1, <2>2 DEF ProductsInv
<1>5. ASSUME NEW t \in Titles, CardTapped(d, t)
      PROVE  ProductsInv'
  <2>1. /\ Turn(d, "product") /\ shown[d] = "elsewhere"
        /\ chosen' = [chosen EXCEPT ![d] = t] /\ UNCHANGED <<productVars, addVars>>
    BY <1>5 DEF CardTapped, Turn
  <2>2. Visits'
    BY <1>1, <2>1, VisitTurn DEF Pages
  <2> QED
    BY <1>3, <2>1, <2>2 DEF ProductsInv
<1>6. CASE GetInfo(d)
  BY <1>1, <1>3, <1>6, VisitGetInfo DEF ProductsInv, GetInfo
<1>7. CASE GetInfoFails(d)
  BY <1>1, <1>3, <1>7, VisitGetInfoFails DEF ProductsInv, GetInfoFails
<1>8. CASE CounterTapped(d)
  BY <1>1, <1>3, <1>8, VisitCounter DEF ProductsInv, CounterTapped
<1>9. CASE BuyTapped(d)
  BY <1>1, <1>3, <1>9, VisitBuy DEF ProductsInv, BuyTapped
<1> QED
  BY <1>2, <1>4, <1>5, <1>6, <1>7, <1>8, <1>9

\* The administrator on the page that shows a product.
LEMMA DialogStep ==
    ASSUME ProductsInv, NEW a \in Admins,
           \/ (\E k \in {"edit", "delete"} : DialogTapped(a, k)) \/ CancelTapped(a)
           \/ (\E x \in Amounts : TypePrice(a, x)) \/ SaveTapped(a) \/ DeleteTapped(a)
    PROVE  ProductsInv'
<1>1. Shop /\ Visits /\ Uploading /\ a \in Devices
  BY DevicesAssumption DEF ProductsInv
<1>2. PageTypes /\ ShowsItsProduct(a)
  BY <1>1, VisitsParts
<1>3. ASSUME UNCHANGED addVars, storage' = storage
      PROVE  Uploading'
  BY <1>1, <1>3, UploadsKept DEF Uploading, addVars
<1>4. ASSUME UNCHANGED <<productVars, addVars>>
      PROVE  Shop' /\ Uploading' /\ versions' = versions
  BY <1>1, <1>3, <1>4, ShopUnchanged DEF productVars, addVars
<1>5. ASSUME NEW k \in {"edit", "delete"}, DialogTapped(a, k)
      PROVE  ProductsInv'
  <2>1. /\ UNCHANGED <<page, shown, chosen, info, asked, field, bought, productVars, addVars>>
        /\ dialog' = [dialog EXCEPT ![a] = k] /\ k \in {"none", "edit", "delete"}
    BY <1>5 DEF DialogTapped
  <2>2. Visits'
    BY <1>1, <1>4, <2>1, VisitDialog
  <2> QED
    BY <1>4, <2>1, <2>2 DEF ProductsInv
<1>6. CASE CancelTapped(a)
  <2>1. /\ UNCHANGED <<page, shown, chosen, info, asked, field, bought, productVars, addVars>>
        /\ dialog' = [dialog EXCEPT ![a] = "none"]
    BY <1>6 DEF CancelTapped, CloseDialog
  <2>2. Visits'
    BY <1>1, <1>4, <2>1, VisitDialog
  <2> QED
    BY <1>4, <2>1, <2>2 DEF ProductsInv
<1>7. ASSUME NEW x \in Amounts, TypePrice(a, x)
      PROVE  ProductsInv'
  <2>1. /\ UNCHANGED <<page, shown, chosen, info, asked, dialog, bought, productVars, addVars>>
        /\ field' = [field EXCEPT ![a] = x]
    BY <1>7 DEF TypePrice
  <2>2. field' \in [Devices -> Amounts] /\ dialog' \in [Devices -> {"none", "edit", "delete"}]
    BY <1>2, <2>1 DEF PageTypes
  <2>3. Visits'
    BY <1>1, <1>4, <2>1, <2>2, VisitsKept
  <2> QED
    BY <1>4, <2>1, <2>3 DEF ProductsInv
<1>8. CASE SaveTapped(a)
  <2> DEFINE w == UpdatePrice(chosen[a], field[a])
  <2>1. /\ Enqueue(a, w) /\ shown[a] = "product"
        /\ UNCHANGED <<storage, page, shown, chosen, info, asked, field, bought, addVars>>
        /\ dialog' = [dialog EXCEPT ![a] = "none"]
    BY <1>8 DEF SaveTapped, CloseDialog, OnProduct
  <2>2. chosen[a] \in Titles /\ field[a] \in Amounts
    BY <1>1, <1>2, <2>1 DEF ShowsItsProduct, PageTypes
  <2>3. w \in Writes /\ WriteFits(w, Pictures)
    BY <2>2 DEF Writes, UpdatePrice, WriteFits
  <2> HIDE DEF w
  <2>4. Shop' /\ versions \subseteq versions'
    BY <1>1, <2>1, <2>3, EnqueueKeepsShop DEF addVars
  <2>5. Visits'
    BY <1>1, <2>1, <2>4, VisitDialog
  <2> QED
    BY <1>3, <2>1, <2>4, <2>5 DEF ProductsInv
<1>9. CASE DeleteTapped(a)
  <2> DEFINE w == DeleteDoc(chosen[a])
  <2>1. /\ Enqueue(a, w) /\ shown[a] = "product"
        /\ UNCHANGED <<storage, shown, chosen, info, asked, field, bought, addVars>>
        /\ page' = [page EXCEPT ![a] = "elsewhere"]
        /\ dialog' = [dialog EXCEPT ![a] = "none"]
    BY <1>9 DEF DeleteTapped, CloseDialog, OnProduct
  <2>2. chosen[a] \in Titles
    BY <1>2, <2>1 DEF ShowsItsProduct
  <2>3. w \in Writes /\ WriteFits(w, Pictures)
    BY <2>2 DEF Writes, DeleteDoc, WriteFits
  <2> HIDE DEF w
  <2>4. Shop' /\ versions \subseteq versions'
    BY <1>1, <2>1, <2>3, EnqueueKeepsShop DEF addVars
  <2>5. Visits'
    BY <1>1, <2>1, <2>4, VisitDialog
  <2> QED
    BY <1>3, <2>1, <2>4, <2>5 DEF ProductsInv
<1> QED
  BY <1>5, <1>6, <1>7, <1>8, <1>9

\* The administrator on the page that adds a product, and the server.
LEMMA AddStep ==
    ASSUME ProductsInv, NEW a \in Admins,
           \/ AddPageTapped(a) \/ Pick(a)
           \/ (\E t \in Titles \cup {None}, x \in Amounts : TypeDraft(a, t, x))
           \/ AddTapped(a) \/ Redrawn(a) \/ Deliver(a)
           \/ \E i \in DOMAIN uploads[a] :
                 PictureStored(a, i) \/ UploadFails(a, i) \/ FileProduct(a, i)
    PROVE  ProductsInv'
<1>1. Shop /\ Visits /\ Uploading /\ a \in Devices
  BY DevicesAssumption DEF ProductsInv
<1>2. PageTypes
  BY <1>1, VisitsParts
<1>3. ASSUME UNCHANGED <<pageVars, bought>>, versions \subseteq versions'
      PROVE  Visits'
  <2>1. /\ UNCHANGED <<page, shown, chosen, info, asked, bought>>
        /\ field' = field /\ dialog' = dialog
    BY <1>3 DEF pageVars
  <2> QED
    BY <1>1, <1>2, <1>3, <2>1, VisitsKept DEF PageTypes
<1>4. ASSUME UNCHANGED <<productVars, hasty, hurried>>
      PROVE  Shop' /\ versions \subseteq versions'
  BY <1>1, <1>4, ShopUnchanged DEF productVars
<1>5. CASE AddPageTapped(a)
  <2>1. /\ Turn(a, "add") /\ chosen' = chosen
        /\ UNCHANGED <<productVars, draft, uploads, picked, spinning, hasty, hurried>>
    BY <1>5 DEF AddPageTapped, Turn, addVars
  <2>2. Visits'
    BY <1>1, <2>1, VisitTurn DEF Pages
  <2>3. Uploading'
    BY <1>1, <2>1, UploadsKept DEF Uploading, productVars
  <2> QED
    BY <1>4, <2>1, <2>2, <2>3 DEF ProductsInv
<1>6. CASE Pick(a)
  <2>1. /\ UNCHANGED <<productVars, pageVars, bought, draft, spinning, uploads, hasty, hurried>>
        /\ picked' = picked \cup {a} \/ picked' = picked \ {a}
    BY <1>6 DEF Pick
  <2>2. picked' \subseteq Admins /\ spinning' \subseteq Admins
    BY <1>1, <2>1 DEF Uploading
  <2>3. Uploading'
    BY <1>1, <2>1, <2>2, UploadsKept DEF productVars
  <2> QED
    BY <1>3, <1>4, <2>1, <2>3 DEF ProductsInv
<1>7. ASSUME NEW t \in Titles \cup {None}, NEW x \in Amounts, TypeDraft(a, t, x)
      PROVE  ProductsInv'
  BY <1>1, <1>3, <1>4, <1>7, UploadTypeDraft DEF TypeDraft, ProductsInv
<1>8. CASE AddTapped(a)
  BY <1>1, <1>3, <1>4, <1>8, UploadAddTapped DEF AddTapped, ProductsInv
<1>9. CASE Deliver(a)
  <2>1. Shop' /\ versions \subseteq versions'
    BY <1>1, <1>9, DeliverKeepsShop
  <2>2. UNCHANGED <<pageVars, bought, storage, draft, uploads, picked, spinning, hasty, hurried>>
    BY <1>9 DEF Deliver, addVars
  <2>3. Uploading'
    BY <1>1, <2>2, UploadsKept DEF Uploading
  <2> QED
    BY <1>3, <2>1, <2>2, <2>3 DEF ProductsInv
<1>10. ASSUME NEW i \in DOMAIN uploads[a], PictureStored(a, i)
       PROVE  ProductsInv'
  <2>1. /\ UNCHANGED <<docs, outbox, versions, hasty, hurried, pageVars, bought>>
        /\ storage' = storage \cup {uploads[a][i].file}
    BY <1>10 DEF PictureStored
  <2>2. storage \subseteq storage' /\ storage' \subseteq Files
    BY <1>1, <2>1, UploadFacts DEF Upload, Shop
  <2>3. Shop'
    BY <1>1, <2>1, <2>2, StorageKeepsShop
  <2>4. Uploading'
    BY <1>1, <1>10, UploadPictureStored
  <2> QED
    BY <1>3, <2>1, <2>3, <2>4 DEF ProductsInv
<1>11. ASSUME NEW i \in DOMAIN uploads[a], UploadFails(a, i)
       PROVE  ProductsInv'
  <2>1. /\ Drop(a, i) /\ draft' = draft
        /\ UNCHANGED <<productVars, storage, picked, spinning, hasty, hurried, pageVars, bought>>
    BY <1>11 DEF UploadFails, productVars
  <2>2. Uploading'
    BY <1>1, <2>1, UploadLost
  <2> QED
    BY <1>3, <1>4, <2>1, <2>2 DEF ProductsInv
<1>12. ASSUME NEW i \in DOMAIN uploads[a], FileProduct(a, i)
       PROVE  ProductsInv'
  <2>1. UNCHANGED <<pageVars, bought>>
    BY <1>12 DEF FileProduct
  <2> QED
    BY <1>1, <1>3, <1>12, <2>1, ShopFileProduct, UploadFileProduct DEF ProductsInv
<1>13. CASE Redrawn(a)
  BY <1>1, <1>3, <1>4, <1>13, UploadRedrawn DEF Redrawn, ProductsInv, productVars
<1> QED
  BY <1>5, <1>6, <1>7, <1>8, <1>9, <1>10, <1>11, <1>12, <1>13

LEMMA NextInv == ProductsInv /\ [Next]_vars => ProductsInv'
<1> SUFFICES ASSUME ProductsInv, [Next]_vars
             PROVE  ProductsInv'
  OBVIOUS
<1>1. CASE UNCHANGED vars
  <2>1. Shop /\ Visits /\ Uploading
    BY DEF ProductsInv
  <2>2. PageTypes
    BY <2>1, VisitsParts
  <2>3. Shop' /\ versions \subseteq versions'
    BY <1>1, <2>1, ShopUnchanged DEF vars, productVars, addVars
  <2>4. Visits'
    BY <1>1, <2>1, <2>2, <2>3, VisitsKept DEF vars, pageVars, PageTypes
  <2>5. Uploading'
    BY <1>1, <2>1, UploadsKept DEF vars, productVars, addVars, Uploading
  <2> QED
    BY <2>3, <2>4, <2>5 DEF ProductsInv
<1>2. ASSUME NEW d \in Devices,
             \/ Frame(d) \/ NavTapped(d) \/ (\E t \in Titles : CardTapped(d, t))
             \/ GetInfo(d) \/ GetInfoFails(d) \/ CounterTapped(d) \/ BuyTapped(d)
      PROVE  ProductsInv'
  BY <1>2, DeviceStep
<1>3. ASSUME NEW a \in Admins,
             \/ (\E k \in {"edit", "delete"} : DialogTapped(a, k)) \/ CancelTapped(a)
             \/ (\E x \in Amounts : TypePrice(a, x)) \/ SaveTapped(a) \/ DeleteTapped(a)
      PROVE  ProductsInv'
  BY <1>3, DialogStep
<1>4. ASSUME NEW a \in Admins,
             \/ AddPageTapped(a) \/ Pick(a)
             \/ (\E t \in Titles \cup {None}, x \in Amounts : TypeDraft(a, t, x))
             \/ AddTapped(a) \/ Redrawn(a) \/ Deliver(a)
             \/ \E i \in DOMAIN uploads[a] :
                   PictureStored(a, i) \/ UploadFails(a, i) \/ FileProduct(a, i)
      PROVE  ProductsInv'
  BY <1>4, AddStep
<1> QED
  BY <1>1, <1>2, <1>3, <1>4 DEF Next

\* The collection, the pages that show it and the uploads fit together at every
\* moment, for any number of devices, administrators, titles and uploads, also
\* where buttons are tapped again before the next frame.
THEOREM ProductsInvHolds == Spec => []ProductsInv
  BY InitInv, NextInv, PTL DEF Spec

\* The variables of Products hold what their fields in the code can hold, and
\* nothing but products with a title is filed.
THEOREM ProductsTyped == Spec => []TypeOK
<1>1. ProductsInv => TypeOK
  <2> SUFFICES ASSUME ProductsInv
               PROVE  TypeOK
    OBVIOUS
  <2>1. DOMAIN docs \subseteq Titles /\ \A t \in DOMAIN docs : docs[t] \in Product
    BY CollectionFacts DEF ProductsInv, Shop
  <2>2. \A a \in Admins : \A i \in DOMAIN outbox[a] : outbox[a][i].title \in Titles
    <3> SUFFICES ASSUME NEW a \in Admins, NEW i \in DOMAIN outbox[a]
                 PROVE  outbox[a][i].title \in Titles
      OBVIOUS
    <3>1. outbox[a][i] \in Writes
      BY DEF ProductsInv, Shop
    <3> QED
      BY <3>1, WriteFacts
  <2>3. storage \subseteq Files /\ versions \subseteq [title : Titles, product : Product]
    BY DEF ProductsInv, Shop
  <2>4. Visits /\ Uploading
    BY DEF ProductsInv
  <2> QED
    BY <2>1, <2>2, <2>3, <2>4 DEF TypeOK, Visits, Uploading, Collections
<1> QED
  BY <1>1, ProductsInvHolds, PTL

\* No product is to be read, on any device, before its picture can be.
THEOREM PicturesAlwaysExist == Spec => []PictureExists
<1>1. ProductsInv => PictureExists
  <2> SUFFICES ASSUME ProductsInv, NEW v \in versions
               PROVE  v.product.image \in storage
    BY DEF PictureExists
  <2>1. v.product.image \in Pictures[v.title] /\ v.title \in Titles
    BY DEF ProductsInv, Shop
  <2> QED
    BY <2>1 DEF Pictures
<1> QED
  BY <1>1, ProductsInvHolds, PTL

\* If nobody taps again before the next frame and the fields rest while the
\* spinner turns, a product has the picture that was uploaded under its own title.
THEOREM PicturesAreTheirOwn == Spec => []PictureIsItsOwn
<1>1. ProductsInv => PictureIsItsOwn
  <2> SUFFICES ASSUME ProductsInv, ~ hasty, ~ hurried, NEW v \in versions
               PROVE  v.product.image = v.title
    BY DEF PictureIsItsOwn
  <2>1. v.product.image \in Pictures[v.title] /\ v.title \in Titles
    BY DEF ProductsInv, Shop
  <2> QED
    BY <2>1 DEF Pictures
<1> QED
  BY <1>1, ProductsInvHolds, PTL

\* If nobody taps again before the next frame, the page that is shown has the
\* spinner until its only upload is over, however many uploads of pages left
\* before end meanwhile.
THEOREM SpinnersLast == Spec => []SpinnerUntilUploaded
<1>1. ProductsInv => SpinnerUntilUploaded
  BY DEF ProductsInv, Uploading, UploadFits, SpinnerUntilUploaded
<1> QED
  BY <1>1, ProductsInvHolds, PTL

\* A line of the cart tells one version of its product, or nothing.
THEOREM LinesTellOneVersion == Spec => []LineTellsOneVersion
<1>1. ProductsInv => LineTellsOneVersion
  BY DEF ProductsInv, Visits
<1> QED
  BY <1>1, ProductsInvHolds, PTL
=============================================================================
