------------------------------- MODULE Products -------------------------------
(***************************************************************************)
(* Products: the collection 'products', the pictures in Firebase Storage,  *)
(* the page on which an administrator adds a product (add_product.dart,    *)
(* get_image.dart) and the page that shows one (product_page.dart,         *)
(* product_info.dart), where customers buy it and administrators edit or   *)
(* delete it.                                                              *)
(*                                                                         *)
(* Adding a product is an upload, a question for its URL and a write, with *)
(* an await between any two.  What is written is read from the fields of   *)
(* the page after the last await, shown or not.  Recipes are added in the  *)
(* same way (add_recept.dart).                                             *)
(*                                                                         *)
(* A product's price stands for all the texts that can be edited.  A URL   *)
(* is named by the file it leads to.                                       *)
(***************************************************************************)
EXTENDS Naturals, Sequences, SequencesExt

CONSTANTS Devices,
          Admins,                \* the devices logged in to an administrator's phone
          Titles,
          Prices,                \* texts that are no price count as 0
          None,                  \* the empty string
          MaxUploads,            \* bound: uploads under way on a device
          MaxQueue               \* bound: writes a device holds back

ASSUME DevicesAssumption == Admins \subseteq Devices
ASSUME TitlesAssumption == None \notin Titles
ASSUME PricesAssumption == Prices \subseteq Nat \ {0}
ASSUME BoundsAssumption == MaxUploads \in Nat /\ MaxQueue \in Nat \ {0}

VARIABLES
    docs,       \* server: documents of 'products'
    storage,    \* server: the files under 'products'
    outbox,     \* per administrator, the writes not yet acknowledged
    versions,   \* every product that was ever to be read, for the properties
    page,       \* per device, currentPageIndex
    shown,      \* per device, the page whose State is on the screen
    chosen,     \* per device, productPage.product_title
    info,       \* per device, what the product page's State has fetched
    asked,      \* devices whose product page waits for getInfo
    field,      \* per device, the controller of the price on the product page
    dialog,     \* per device, the dialog over the product page
    draft,      \* per administrator, the State of AddProduct
    picked,     \* administrators with a picture in getImage.image
    spinning,   \* administrators whose add page is drawn with the spinner
    uploads,    \* per administrator, the uploads under way
    hasty,      \* are fields edited while the spinner turns? (chosen once)
    hurried,    \* is a button tapped again before the next frame? (chosen once)
    bought      \* per device, the cart: title -> picture and price

productVars == <<docs, storage, outbox, versions>>
pageVars    == <<page, shown, chosen, info, asked, field, dialog>>
addVars     == <<draft, picked, spinning, uploads, hasty, hurried>>
vars == <<productVars, pageVars, addVars, bought>>

Pages   == {"elsewhere", "product", "add"}
Files   == Titles \cup {None}
Amounts == Prices \cup {0}

Product == [image : Files, price : Amounts]
Draft   == [title : Titles \cup {None}, price : Amounts, loading : BOOLEAN]

Unfetched  == [image |-> None, price |-> 0]
BlankDraft == [title |-> None, price |-> 0, loading |-> FALSE]

-----------------------------------------------------------------------------
\* The writes the application issues.
SetProduct(t, p)  == [op |-> "set", title |-> t, doc |-> p]
UpdatePrice(t, x) == [op |-> "update", title |-> t, price |-> x]
DeleteDoc(t)      == [op |-> "delete", title |-> t]

\* What a write does to the collection; an update of what is not there is refused.
Apply(ds, w) ==
    CASE w.op = "set" ->
            [t \in DOMAIN ds \cup {w.title} |-> IF t = w.title THEN w.doc ELSE ds[t]]
      [] w.op = "update" /\ w.title \in DOMAIN ds -> [ds EXCEPT ![w.title].price = w.price]
      [] w.op = "delete" -> [t \in DOMAIN ds \ {w.title} |-> ds[t]]
      [] OTHER -> ds

\* The collection as a device sees it: the server's, its own writes applied.
ViewOf(ds, writes) == FoldLeft(Apply, ds, writes)
View(d) == IF d \in Admins THEN ViewOf(docs, outbox[d]) ELSE docs

VersionsOf(ds) == {[title |-> t, product |-> ds[t]] : t \in DOMAIN ds}

Remember ==
    versions' = versions \cup VersionsOf(docs')
                         \cup UNION {VersionsOf(ViewOf(docs', outbox'[a])) : a \in Admins}

Enqueue(a, w) ==
    /\ Len(outbox[a]) < MaxQueue
    /\ outbox' = [outbox EXCEPT ![a] = Append(@, w)]
    /\ UNCHANGED docs
    /\ Remember

-----------------------------------------------------------------------------
Init ==
    /\ docs = << >> /\ storage = {} /\ versions = {}
    /\ outbox = [a \in Admins |-> << >>]
    /\ page = [d \in Devices |-> "elsewhere"] /\ shown = page
    /\ chosen = [d \in Devices |-> None]
    /\ info = [d \in Devices |-> Unfetched] /\ asked = {}
    /\ field = [d \in Devices |-> 0]
    /\ dialog = [d \in Devices |-> "none"]
    /\ draft = [a \in Admins |-> BlankDraft]
    /\ picked = {} /\ spinning = {}
    /\ hasty \in BOOLEAN /\ hurried \in BOOLEAN
    /\ uploads = [a \in Admins |-> << >>]
    /\ bought = [d \in Devices |-> << >>]

\* The uploads of a State that goes keep its fields.
Leave(a) ==
    [i \in DOMAIN uploads[a] |->
        IF uploads[a][i].live
        THEN [uploads[a][i] EXCEPT !.live = FALSE, !.draft = draft[a]] ELSE uploads[a][i]]

\* Faulty variant, for the check of the properties: the page keeps its State when it
\* shows another product.
FrameKeepingInfo(d) ==
    /\ page[d] # shown[d]
    /\ shown' = [shown EXCEPT ![d] = page[d]]
    /\ asked' = IF page[d] = "product" THEN asked \cup {d} ELSE asked \ {d}
    /\ IF d \in Admins
       THEN /\ draft' = [draft EXCEPT ![d] = BlankDraft]
            /\ uploads' = [uploads EXCEPT ![d] = Leave(d)]
       ELSE UNCHANGED <<draft, uploads>>
    /\ spinning' = spinning \ {d}
    /\ UNCHANGED <<productVars, page, chosen, info, field, dialog, picked, hasty, hurried,
                   bought>>

\* The next frame: the page gets a new State.  The product page asks for the
\* document of product_title.
Frame(d) ==
    /\ page[d] # shown[d]
    /\ shown' = [shown EXCEPT ![d] = page[d]]
    /\ info' = [info EXCEPT ![d] = Unfetched]
    /\ field' = [field EXCEPT ![d] = 0]
    /\ asked' = IF page[d] = "product" THEN asked \cup {d} ELSE asked \ {d}
    /\ IF d \in Admins
       THEN /\ draft' = [draft EXCEPT ![d] = BlankDraft]
            /\ uploads' = [uploads EXCEPT ![d] = Leave(d)]
       ELSE UNCHANGED <<draft, uploads>>
    /\ spinning' = spinning \ {d}
    /\ UNCHANGED <<productVars, page, chosen, dialog, picked, hasty, hurried, bought>>

-----------------------------------------------------------------------------
\* Taps that only ask for a page: the bottom bar, the way back, the
\* administrator's button.  A dialog covers them.
Turn(d, p) ==
    /\ dialog[d] = "none"
    /\ page' = [page EXCEPT ![d] = p]
    /\ UNCHANGED <<productVars, shown, info, asked, field, dialog, addVars, bought>>

NavTapped(d) == Turn(d, "elsewhere") /\ UNCHANGED chosen

AddPageTapped(a) == shown[a] = "elsewhere" /\ Turn(a, "add") /\ UNCHANGED chosen

\* A card of the catalog or a row of the cart, for something that is or was a
\* product.
CardTapped(d, t) ==
    /\ shown[d] = "elsewhere"
    /\ \E v \in versions : v.title = t
    /\ chosen' = [chosen EXCEPT ![d] = t]
    /\ Turn(d, "product")

-----------------------------------------------------------------------------
\* What changes the product page's State redraws it, and a redrawn page has the
\* fetched texts in its controllers, an open dialog's too.
Redraw(d, product) ==
    /\ info' = [info EXCEPT ![d] = product]
    /\ field' = [field EXCEPT ![d] = product.price]

\* The answer to getInfo.  Without a document the first field throws.
GetInfo(d) ==
    /\ d \in asked
    /\ asked' = asked \ {d}
    /\ IF chosen[d] \in DOMAIN View(d)
       THEN Redraw(d, View(d)[chosen[d]])
       ELSE UNCHANGED <<info, field>>
    /\ UNCHANGED <<productVars, page, shown, chosen, dialog, addVars, bought>>

\* The document cannot be read: getInfo ends by rethrow.
GetInfoFails(d) ==
    /\ d \in asked
    /\ asked' = asked \ {d}
    /\ UNCHANGED <<productVars, page, shown, chosen, info, field, dialog, addVars, bought>>

OnProduct(d, k) == shown[d] = "product" /\ dialog[d] = k

CounterTapped(d) ==
    /\ OnProduct(d, "none")
    /\ Redraw(d, info[d])
    /\ UNCHANGED <<productVars, page, shown, chosen, asked, dialog, addVars, bought>>

\* A product whose title is in the cart is not added again.
BuyTapped(d) ==
    /\ OnProduct(d, "none")
    /\ bought' = IF chosen[d] \in DOMAIN bought[d] THEN bought
                 ELSE [bought EXCEPT ![d] =
                         [t \in DOMAIN @ \cup {chosen[d]} |->
                             IF t = chosen[d] THEN info[d] ELSE @[t]]]
    /\ Redraw(d, info[d])
    /\ UNCHANGED <<productVars, page, shown, chosen, asked, dialog, addVars>>

\* The administrator's two dialogs.
DialogTapped(a, k) ==
    /\ OnProduct(a, "none")
    /\ dialog' = [dialog EXCEPT ![a] = k]
    /\ UNCHANGED <<productVars, page, shown, chosen, info, asked, field, addVars, bought>>

CloseDialog(a) == dialog' = [dialog EXCEPT ![a] = "none"]

CancelTapped(a) ==
    /\ dialog[a] # "none"
    /\ CloseDialog(a)
    /\ UNCHANGED <<productVars, page, shown, chosen, info, asked, field, addVars, bought>>

TypePrice(a, x) ==
    /\ OnProduct(a, "edit")
    /\ field' = [field EXCEPT ![a] = x]
    /\ UNCHANGED <<productVars, page, shown, chosen, info, asked, dialog, addVars, bought>>

SaveTapped(a) ==
    /\ OnProduct(a, "edit")
    /\ Enqueue(a, UpdatePrice(chosen[a], field[a]))
    /\ CloseDialog(a)
    /\ UNCHANGED <<storage, page, shown, chosen, info, asked, field, addVars, bought>>

DeleteTapped(a) ==
    /\ OnProduct(a, "delete")
    /\ Enqueue(a, DeleteDoc(chosen[a]))
    /\ CloseDialog(a)
    /\ page' = [page EXCEPT ![a] = "elsewhere"]
    /\ UNCHANGED <<storage, shown, chosen, info, asked, field, addVars, bought>>

-----------------------------------------------------------------------------
\* The gallery returns a picture, or nothing.
Pick(a) ==
    /\ \/ picked' = picked \cup {a}
       \/ picked' = picked \ {a}
    /\ picked' # picked
    /\ UNCHANGED <<productVars, pageVars, draft, spinning, uploads, hasty, hurried, bought>>

TypeDraft(a, t, x) ==
    /\ shown[a] = "add"
    /\ hasty \/ ~ draft[a].loading
    /\ draft' = [draft EXCEPT ![a].title = t, ![a].price = x]
    /\ UNCHANGED <<productVars, pageVars, picked, spinning, uploads, hasty, hurried, bought>>

\* The next frame of the same State: it has the spinner, or the button again.
Redrawn(a) ==
    /\ shown[a] = "add" /\ page[a] = "add"
    /\ draft[a].loading # (a \in spinning)
    /\ spinning' = IF draft[a].loading THEN spinning \cup {a} ELSE spinning \ {a}
    /\ UNCHANGED <<productVars, pageVars, draft, picked, uploads, hasty, hurried, bought>>

\* The picture's upload begins, under the title in the field now; n names the
\* State that is shown among those with an upload under way.
Begin(a) ==
    /\ Len(uploads[a]) < MaxUploads
    /\ \E n \in 1 .. MaxUploads :
        /\ \A i \in DOMAIN uploads[a] : uploads[a][i].state = n <=> uploads[a][i].live
        /\ uploads' = [uploads EXCEPT ![a] =
                          Append(@, [file |-> draft[a].title, sent |-> FALSE, state |-> n,
                                     live |-> TRUE, draft |-> BlankDraft])]

\* The spinner is to replace the button, which can be tapped until it does: the
\* handler does not ask whether an upload is under way.  Without a picture it
\* ends in its catch, and the spinner stays.
AddTapped(a) ==
    /\ shown[a] = "add" /\ a \notin spinning
    /\ hurried \/ ~ draft[a].loading
    /\ draft' = [draft EXCEPT ![a].loading = TRUE]
    /\ IF a \in picked THEN Begin(a) ELSE UNCHANGED uploads
    /\ UNCHANGED <<productVars, pageVars, picked, spinning, hasty, hurried, bought>>

\* The picture has arrived; its URL is asked for.
PictureStored(a, i) ==
    /\ ~ uploads[a][i].sent
    /\ storage' = storage \cup {uploads[a][i].file}
    /\ uploads' = [uploads EXCEPT ![a][i].sent = TRUE]
    /\ UNCHANGED <<docs, outbox, versions, pageVars, draft, picked, spinning, hasty, hurried,
                   bought>>

Drop(a, i) == uploads' = [uploads EXCEPT ![a] = RemoveAt(@, i)]

\* Faulty variant, for the check of the properties: the document is written although the
\* picture did not arrive.
UploadFailsFiling(a, i) ==
    /\ Drop(a, i)
    /\ draft[a].title # None
    /\ Enqueue(a, SetProduct(draft[a].title,
                             [image |-> uploads[a][i].file, price |-> draft[a].price]))
    /\ UNCHANGED <<storage, pageVars, draft, picked, spinning, hasty, hurried, bought>>

\* The upload or the question for its URL fails: nobody resets the spinner.
UploadFails(a, i) ==
    /\ Drop(a, i)
    /\ UNCHANGED <<productVars, pageVars, draft, picked, spinning, hasty, hurried, bought>>

\* What the fields of the State that uploads hold now.
DraftNow(a, i) == IF uploads[a][i].live THEN draft[a] ELSE uploads[a][i].draft

\* The State of upload i is cleared, for its other uploads too, and i is over.
Finish(a, i) ==
    LET us == uploads[a]
        cleared == [j \in DOMAIN us |-> IF us[j].state = us[i].state
                                        THEN [us[j] EXCEPT !.draft = BlankDraft] ELSE us[j]]
    IN  /\ draft' = IF us[i].live THEN [draft EXCEPT ![a] = BlankDraft] ELSE draft
        /\ uploads' = [uploads EXCEPT ![a] = RemoveAt(cleared, i)]

\* Faulty variant, for the check of the properties: the title is read from the page that
\* is shown.
FileProductOfPage(a, i) ==
    /\ uploads[a][i].sent
    /\ draft[a].title # None
    /\ Enqueue(a, SetProduct(draft[a].title,
                             [image |-> uploads[a][i].file, price |-> DraftNow(a, i).price]))
    /\ Finish(a, i)
    /\ UNCHANGED <<storage, pageVars, picked, spinning, hasty, hurried, bought>>

\* Faulty variant, for the check of the properties: an empty title is taken for one.
FileProductUnnamed(a, i) ==
    LET now == DraftNow(a, i)
    IN  /\ uploads[a][i].sent
        /\ Enqueue(a, SetProduct(now.title, [image |-> uploads[a][i].file, price |-> now.price]))
        /\ Finish(a, i)
        /\ UNCHANGED <<storage, pageVars, picked, spinning, hasty, hurried, bought>>

\* Faulty variant, for the check of the properties: the page that is shown is cleared,
\* whoever uploaded.
FileProductClearingPage(a, i) ==
    LET now == DraftNow(a, i)
    IN  /\ uploads[a][i].sent
        /\ Drop(a, i)
        /\ IF now.title # None
           THEN /\ Enqueue(a, SetProduct(now.title,
                                         [image |-> uploads[a][i].file, price |-> now.price]))
                /\ draft' = [draft EXCEPT ![a] = BlankDraft]
           ELSE UNCHANGED <<docs, outbox, versions, draft>>
        /\ UNCHANGED <<storage, pageVars, picked, spinning, hasty, hurried, bought>>

\* The URL has arrived: the product is filed under the title in the field now,
\* and the page is cleared.  With an empty title doc throws, and the spinner stays.
FileProduct(a, i) ==
    LET now == DraftNow(a, i)
    IN  /\ uploads[a][i].sent
        /\ IF now.title # None
           THEN /\ Enqueue(a, SetProduct(now.title,
                                         [image |-> uploads[a][i].file, price |-> now.price]))
                /\ Finish(a, i)
           ELSE Drop(a, i) /\ UNCHANGED <<docs, outbox, versions, draft>>
        /\ UNCHANGED <<storage, pageVars, picked, spinning, hasty, hurried, bought>>

\* The server takes the oldest write of a device.
Deliver(a) ==
    /\ outbox[a] # << >>
    /\ docs' = Apply(docs, Head(outbox[a]))
    /\ outbox' = [outbox EXCEPT ![a] = Tail(@)]
    /\ Remember
    /\ UNCHANGED <<storage, pageVars, addVars, bought>>

Next ==
    \/ \E d \in Devices :
        \/ Frame(d)
        \/ NavTapped(d)
        \/ \E t \in Titles : CardTapped(d, t)
        \/ GetInfo(d)
        \/ GetInfoFails(d)
        \/ CounterTapped(d)
        \/ BuyTapped(d)
    \/ \E a \in Admins :
        \/ AddPageTapped(a)
        \/ \E k \in {"edit", "delete"} : DialogTapped(a, k)
        \/ CancelTapped(a)
        \/ \E x \in Amounts : TypePrice(a, x)
        \/ SaveTapped(a)
        \/ DeleteTapped(a)
        \/ Pick(a)
        \/ \E t \in Titles \cup {None}, x \in Amounts : TypeDraft(a, t, x)
        \/ AddTapped(a)
        \/ Redrawn(a)
        \/ \E i \in DOMAIN uploads[a] :
            \/ PictureStored(a, i)
            \/ UploadFails(a, i)
            \/ FileProduct(a, i)
        \/ Deliver(a)

Spec == Init /\ [][Next]_vars

-----------------------------------------------------------------------------
\* The variables hold what their fields in the code can hold, and nothing but
\* products with a title is ever filed.
TypeOK ==
    /\ DOMAIN docs \subseteq Titles /\ \A t \in DOMAIN docs : docs[t] \in Product
    /\ storage \subseteq Files
    /\ \A a \in Admins : \A i \in DOMAIN outbox[a] : outbox[a][i].title \in Titles
    /\ versions \subseteq [title : Titles, product : Product]
    /\ page \in [Devices -> Pages] /\ shown \in [Devices -> Pages]
    /\ chosen \in [Devices -> Titles \cup {None}]
    /\ info \in [Devices -> Product] /\ asked \subseteq Devices
    /\ field \in [Devices -> Amounts]
    /\ dialog \in [Devices -> {"none", "edit", "delete"}]
    /\ draft \in [Admins -> Draft] /\ picked \subseteq Admins /\ spinning \subseteq Admins
    /\ hasty \in BOOLEAN /\ hurried \in BOOLEAN
    /\ bought \in [Devices -> UNION {[T -> Product] : T \in SUBSET Titles}]

\* No product is to be read, on any device, before its picture can be: not after
\* an upload that failed, an edited field, a page that was left meanwhile, two
\* uploads at once or two of the same page.
PictureExists == \A v \in versions : v.product.image \in storage

\* A line of the cart tells one version of its product, or nothing when it was
\* bought before the answer: never one product's title with another one's price,
\* nor the picture of one version with the price of another.
LineTellsOneVersion ==
    \A d \in Devices : \A t \in DOMAIN bought[d] :
        \/ bought[d][t] = Unfetched
        \/ [title |-> t, product |-> bought[d][t]] \in versions

\* If nobody taps again before the next frame, a page that is being uploaded for
\* has its spinner until that upload is over, whichever uploads of pages left
\* before end meanwhile; so it has one upload at a time.
SpinnerUntilUploaded ==
    hurried \/ \A a \in Admins : \A i \in DOMAIN uploads[a] :
                  uploads[a][i].live =>
                     /\ draft[a].loading
                     /\ \A j \in DOMAIN uploads[a] : uploads[a][j].live => i = j

\* If nobody taps again before the next frame and the fields rest while the
\* spinner turns, a product has the picture that was uploaded under its own title,
\* though the title is read again after the upload.
PictureIsItsOwn == hasty \/ hurried \/ \A v \in versions : v.product.image = v.title
=============================================================================
