# Уральские пельмени: a verification project for the ordering application

The application (`src/lib`, Flutter) sells food at home: a customer fills a cart, submits an
order as a document of Cloud Firestore, and two administrators change its total, mark it done
and delete it on their own telephones. There is no server code: every rule about carts and
orders is in the handlers of widgets, most of them started without `await`.

## The system

| part | source (under `src/lib`) | state | operations | hard parts |
|---|---|---|---|---|
| cart | `cart.dart`, `models/cart_order_model` | list of lines, preferences (cache, file) | add, quantity, remove, clear, load | productIds are positions at the time of adding and repeat after deletions; writes to the file are not awaited |
| cart page | `features/cart/view/cart.dart` | total, collected order lines, notice dialog | row buttons, order button, three agreements | the total is a field beside the cart; order lines accumulate |
| checkout page | `features/checkoutt_page` | form, payment boxes, date | typing, ticking, submit, back | a second tap before the page is gone; four collections written one after the other |
| first page, bottom bar | `features/first_page` | current page, highlighted item | `streamController` events | a page is replaced one frame after the handler that asked for it |
| orders | `features/profile/view/orders_for_admin.dart`, Firestore | documents, device queues, snapshots, dialogs | place, new total, done, delete | stale lists, offline queues, two updates that are not a transaction |
| catalog | `features/catalog` | product being shown, counter | buy, edit, delete a product | fields fetched while the page is shown |
| session | `features/profile/widgets/shared_data.dart` | five preferences and five statics | `initName`, setters, `exitUser` | two copies of the account; only some pages renew the second, and none awaits it |
| accounts | `reg.dart`, `auth.dart`, `my_data.dart` | documents of `users` | register, log in, change data | check and write separated by an await |
| tokens, notifications | `main.dart`, `profile.dart`, `admin_profile.dart`, `push_notification.dart` | `userTokens`, fetched copies | save token, send | tokens fetched late or for somebody else |
| uploads | `add_product.dart`, `add_recept.dart`, `get_image.dart` | fields, image, loading flag | upload, file document | fields re-read after the upload, failures swallowed |
| Firestore client | `src/ios/Pods/FirebaseFirestoreInternal` (`sync_engine.cc`, `local_store.cc`, `leveldb_mutation_queue.cc`, `remote_store.cc`, `write_stream.cc`, `stream.cc`, `grpc_stream.cc`) | queue in LevelDB, write pipeline, stream, timers | store a write, send, acknowledge, reject, reconnect | answers carry no id; unanswered writes are sent again; ids are given out again; late answers and timers of closed streams |
| recipes, lists, home | the rest | none of its own | show, edit, delete one document | none |

The parts meet in four places: the singleton `FlutterCart` that catalog, cart page and checkout
page share; the streams that carry page numbers to the first page; the statics of `SharedData`;
and Firestore, where customers and administrators meet. No handler awaits a write to Firestore,
so that what is promised about orders rests on the client library that is built into the
application, which is why its way of sending writes is modelled as well.

What makes each part correct:

* cart: no product twice, no line lost or changed by an operation on another one, the file holds
  a cart the customer once had and finally the last one;
* cart and checkout page: the order is the cart that was on the screen, once, with its total,
  and the customer's own copy says the same;
* orders: placed once, done before deleted, done for good, same total in both places;
* session and accounts: statics and preferences agree on a drawn page, a logged-in phone has an
  account, an address belongs to the account it was entered under, and the last writer of an
  account's name shows it;
* catalog and uploads: a product has its picture, its own one, and a line of the cart tells one
  version of one product;
* tokens: a device's token is filed only under an account that was logged in on it, an open
  profile files it in the end, and a notice whose sender waited reaches a device of the person
  it is about;
* Firestore client: no stored write is forgotten, writes reach the server for the first time in
  the order in which they were made, each is decided in the end, and its assertions hold.

## Modules

| module | models |
|---|---|
| `CartOps` | the operations of the cart as operators on a sequence of lines; pure |
| `FlutterCart` | one device: list, preferences cache, queue of unfinished writes, file; taps, platform writes, crash, restart |
| `DurableBasket` | abstract: product -> quantity, saved behind the customer's back, recovered after a crash |
| `CartOpsProofs` | lemmas about `CartOps`, used for `FlutterCart` and `Checkout` |
| `FlutterCartProofs` | theorems about `FlutterCart`, the refinement among them |
| `MCFlutterCart` | the liveness property, stated for each cart of at most one line of an instance |
| `Checkout` | cart page, notice dialog, checkout page, submission, frames |
| `Purchase` | abstract: a basket becomes a new order and a copy of it in one step |
| `CheckoutProofs` | theorems about `Checkout`, the refinement among them |
| `MCCheckout` | the constraint of its instance |
| `Orders` | Firestore, the queue of each device, administrators' snapshots and dialogs |
| `OrderLifecycle` | abstract: none, new, done, deleted |
| `OrdersProofs` | theorems about `Orders`, with the refinement |
| `MCOrders` | two instances of it: the life of an order or competing totals, and the done mark under fairness |
| `RemoteStore` | how the Firestore client of one device stores, sends, resends and drops writes |
| `Outbox` | abstract: writes kept in order until each is taken or refused |
| `RemoteStoreProofs` | theorems about `RemoteStore`, with the refinement |
| `Notices` | device tokens: asked for, filed late, read by the checkout page and the total dialog, used for a notice |
| `NoticesProofs` | theorems about `Notices` |
| `MCNotices` | the instance of it |
| `Accounts` | the collection `users`, preferences and statics of each device, registration, login, password reset, "my data", logout |
| `AccountsProofs` | theorems about `Accounts` |
| `MCAccounts` | two instances of it: one device with several accounts, several devices at one account |
| `Products` | the collection `products`, its pictures, the page that adds a product and the page that shows, sells, edits and deletes one |
| `ProductsProofs` | theorems about `Products` |
| `MCProducts` | the instance of it: the add page alone, or product pages with one customer |

### How state and actions correspond to the code

`FlutterCart`: `cart` is `_cartOrderItemsList`. shared_preferences has a cache that `setStringList`
and `remove` change before they return and a file the platform writes later: `cacheCart`, `writes`,
`diskCart`. `initializeCart` is two actions (`Start`, `FinishInitializeCart`) around its awaits.
`main` awaits it before `runApp`, so no tap comes in between. A tap is an action: the handler
with the cart operation and `_updatePersistenceCart` in it. The quantities of a line and a new
line are parameters; the handler of "+" computes the quantity of *its* line and `UpdateQuantity`
gives it to the *first* line with that productId, as the code does. `Kill` may come at any time.

`Checkout`: handlers of widgets run to completion, so each is one action. They ask for a page by
adding its number to `streamController`; the listener sets `currentPageIndex` (`page`) at once,
the page on the screen (`shown`) changes in `Frame`. `TapsPerFrame` taps may be handled between
frames. Opening or closing a dialog makes the Navigator absorb taps until the next frame, so
there is one dialog at most. A page gets a new State whenever it replaces another page; in the
model the State of a page that is not shown is reset. `visits` numbers the States of the checkout
page, standing for their `date`, which is the document id. `filled` may be false for a customer
who is logged in, because a field is filled in from a static that may be empty, as the address is before it is
entered. `Purchase` sees of a customer who waits the cart's lines and total, and lines and total of the
documents; the payment, which can differ from the ticked box, is not part of it. A hurried customer may change the cart after "order" and is mapped to one who never buys: what
holds of hurried customers is in the other properties.

`Orders`: `outbox[d]` are the writes of device `d` that the server has not acknowledged. Firestore
sends them in order, keeps them while offline, applies them to the local view at once, and
refuses an `update` of a document that does not exist without the application noticing.
Delivery is at least once, as `RemoteStore` shows it to be: the server takes the write behind the
first `took[d]` ones (`Deliver`), the client drops a write when it has read the answer
(`Answered`), and a connection that breaks makes the server take unanswered writes again
(`SendAgain`). `met` and `again` are not in the code: the customers' writes the server has met,
once and more than once. Nor is `said`: the totals confirmed last of each order (a confirmation
replaces those of administrators who have nothing more to send about the order, and its own
earlier one). Where two administrators' totals are among them, the order is `Contended`. What a stream that was given up may still deliver late is in
`RemoteStore` only.
The customer's part of a queue that concerns an order is named by the order. `synced[a]` is the
last snapshot; what the administrator sees is the snapshot with the device's own writes applied.
A dialog keeps the order it was opened for: the closure holds the snapshot.

`Accounts`: the setters of `SharedData` and `initName` consist of awaits on a `SharedPreferences` that
is already loaded, so each is a chain of microtasks that ends before the next tap, answer or
frame: a setter is part of the handler that calls it, and `initName` is part of the `Frame` that
gives a page its State. Pages of the account are named; all the others are `"elsewhere"`, where
`initName` is called by some pages (cart, product, recipe) and not by others. `inner` is "my data",
which does not call it. `profile` is the customer's or the administrator's, which do the same here.
`AskAbout` is `checkIfDocExists` up to its await; `Reply` is Firestore's reading of the document
(through the device's own pending writes), and `Register`, `LogIn`, `ResetPass`, `Refuse` are what
follows it, with the fields as they are *then* (`FormNow`). If the page was left meanwhile, the
handler goes on with the controllers of the old State (`live`, `form`). One question is under way on a device at a time. `ChangeName` stands for the change of the email too.
`author` and `astray` are not in the code: who wrote an account's name last, and where something
came in between that the properties leave out (below).

`Products`: `AddTapped` is `uploadImg` up to the upload, `PictureStored` the step between its awaits,
`FileProduct` what follows the URL, `UploadFails` its catch (or the failure of the question for the
URL, which nobody catches). The handler sets `_isLoading` (`draft[a].loading`) and does not test
it; what keeps a second tap out is the spinner, which replaces the button when the page is drawn again
(`Redrawn`, `spinning`). A second tap before that begins a second upload of the same State, whose
fields the first completion clears for both (`Finish`). An upload belongs to the State that began it (`live`); when that State
goes, the upload keeps its controllers (`Leave`) and goes on, and a new State may begin another.
`getImage.image` is a static and survives. The product page shows the static `product_title`
(`chosen`) and the fields its State has fetched (`info`); its answer to `getInfo` is dropped with the
State. Each redraw of the page sets the controllers of the edit dialog to the fetched texts
(`Redraw`). `versions` is not in the code: it remembers every product that was ever to be read. Two kinds of
impatience are chosen once: `hasty`, whether fields are edited while the spinner turns, and `hurried`,
whether a button is tapped again before the next frame.

`Notices`: `Start` is `main` up to `getToken`, with `initName` under way (`state` is `"starting"`);
`PrefsRead` is the answer of the platform, after which the cart is read and the first page is
built. `asks[d]` counts calls of `getToken` that have not returned, from `main` and from each
profile page; `TokenArrives` is the return with `saveToken` in it, which reads the static *then*. `TokenFails` is a
call that throws or returns null (`token!` throws too): nobody catches it or asks again.
As in `Accounts`, `initName` on loaded preferences ends before anything else happens, so that it
is part of `Frame`. A token is named by its device: Firebase may renew it, which is not modelled.
`adminToken` is the steps `first` and `second` of the checkout page, each a get; `mtoken` of the
page of orders is `desk.mtoken`, its open gets `desk.reads`, which return in any order. `sent` are the
notices of the last step. Not in the code are `lost`, the devices where a call failed in the last step; `used`, the pairs of a device and an account it was
ever logged in with; `filed`, the administrators who had a token when the page was opened;
`alone` and `found`, whether the dialog's read is the only open one and has returned with a token;
and the `sure` of a notice, which is made of them. The phones are abstract: `auth.dart:77` treats
'89649624648' as the second administrator and every other file '89823319788', and a login as
'+7...' files the token where the checkout page never looks (`bottomNav.dart:118` knows these
numbers); neither matters to the properties, which speak of the number read.

`RemoteStore`: everything the client does runs on one worker queue, so each handler is an action.
`WriteMutations` is the call, `WriteLocally` the step of the queue that stores the batch, and after
it `FillWritePipeline` and the start of the stream happen in the same step, as in the code.
Answers (`answers`) and requests (`wire`) of the stream are queues; what gRPC has buffered counts
as `wire`, so that a write may fail while answers are unread and these are then lost with the
stream. `closing` is how the stream has ended before the client hears of it. A permanent error
comes only after a refused request. Requests of a stream that was given up may reach the server
later, in their order (`late`). `fresh` and `stale` are the questions for credentials of the present
and of closed streams: the answer to a stale one does nothing. `Healthy` counts as open, stream tokens
decide nothing and are left out, the network stays enabled while the process runs, the server
never ends a stream with OK, and there is one user. `kBatchIdUnknown` is 0 and ids start at 1.

Two assumptions about libraries run through these modules. `doc('')` of Firestore throws before
anything is sent. `setState` on a State that is gone runs its callback and then throws, as in
release builds; in debug builds an assertion stops it first, and a page that was left then does
less than the model says.

`Deliver`, `Receive`, `FlushWrite`, `Kill` and what the server does with a write stand for
Firestore, shared_preferences and the operating system; the map marks them external.

## Runs

| run | bounds | shows |
|---|---|---|
| `FlutterCart` | 3 products, prices 0 and 3, quantities to 2, 2 writes in flight | types; no product twice and no productId left of its line; the file follows the cart; a quantity tap changes one quantity; all of it implements `DurableBasket`; every cart of at most one line, with any productId it can have, reaches the file unless the process dies |
| `FlutterCartTaps` (violation) | 2 products | a tap does not concern its line alone |
| `Checkout` | 2 products, 2 visits, 2 taps per frame, 4 order lines | the order, the confirmed sum and the copy agree with the cart, hurried customers apart; submitting twice writes the same lines, total and copy; the pages and statics together implement `Purchase` |
| `CheckoutPayment` (violation) | 1 product, 1 visit | the recorded payment is not the ticked box |
| `Orders` | 1 order, 2 administrators, 2 phones, 2 totals, queue of 2, double taps; lives and totals apart | types; one life per order, with lost answers and writes sent again; when all is sent, order and copy have one of the totals confirmed last, and the same one unless an update was refused or two administrators changed the order at the same time |
| `OrdersDone` | 1 order, 2 administrators, 1 phone, 1 total, queue of 1 | done stays done, whatever the other administrator has queued |
| `Accounts` | 1 device, 2 phones, 1 name, queue of 1 | statics follow the preferences; a logged-in phone has an account; the address is the account's |
| `AccountsRace` | 2 devices, 1 phone, 1 name, queue of 1 | the device whose write the server took last shows the account's name |
| `Products` | 1 administrator, 1 customer, 2 titles, 1 price and the empty one, 2 uploads at once | no product without a picture, or with another one's if the fields rest while the spinner turns and nobody taps twice; a page has its spinner until its upload is over, if nobody taps twice; a line of the cart tells one version of its product, or nothing |
| `Notices` | 2 devices, 1 running at a time, 2 phones, 2 uses, 2 open questions, 2 open reads | tokens stand only where their device was logged in; late ones go to the account shown; sure notices reach whom they are about; an open profile files its token unless getting it fails |
| `RemoteStore` | 4 writes, pipeline of 2, 2 faults | queue, pipeline, answers and assertions of the client; it implements `Outbox`; every stored write is decided |
| `RemoteStoreBlame` (violation) | 3 writes, pipeline of 3, 2 faults | a batch is dropped as refused that the server has taken |

Why the bounds are enough: a repeated productId needs two lines and one deletion, and a third
product shows a line between the two; two writes in flight are enough for the file to be behind
by more than the last change; two visits let leftovers of the first reach the second; two taps
per frame are the double tap; `HurriedOnce` keeps a hurried customer (`hurried`, chosen once: taps
faster than frames are built) to one visit and two lines, which is all a double tap needs.
Two administrators are the least that interleave, and an
administrator's handler issues at most two writes at a time; orders share nothing, so that one is
enough. `Orders` is explored in two parts. In `OneTotal` orders are
placed, perhaps twice, changed, marked and deleted; there is one phone and one total, and customers have no
account, since the life of an order depends neither on its total nor on the copy. In `TotalsOnly` administrators compete about two totals, and two phones
make an order filed under another number than its account; a done mark or a deletion changes no total, so that
there are none. `OrdersDone` has one write per administrator waiting at a time, since
a done mark must hold against the writes of the *other* device. The cart of `EveryCartReachesDisk` is one of the carts of at most
one line: its productId may be that of any place in the longest cart, because after deletions the line that is left
keeps the number it was added under. Four writes and a pipeline of two let two batches wait behind a full pipeline, and two
faults are the least that let a crash meet a broken stream. In `Notices` one phone is both a
customer's and the second administrator's, and the other is the first administrator's: a token of the
wrong one is told apart by `used`. Two open questions are those of the start and of a profile;
two reads, the ones that overtake each other; two uses, one device with two accounts or two
devices with one. Devices meet only in `userTokens`, where writes of a device that has stopped
still arrive when it runs again, so one runs at a time. `OneReader` explores the checkout page and
the page of orders one at a time, and neither while a `getToken` fails: none of them changes anything that the others read. Two uploads are one of the page
and one of a page that was left, or those of a double tap. `Products` is explored in two parts: while nobody looks at a product,
uploads do what they like, of products without a price, for one title if the administrator is hasty or hurried (never both), and
while somebody does, the administrator waits for each frame and upload, none of which fails, and
the customer buys one product, which is all the property of lines speaks of. One device
with two phones is enough for a phone that is changed while Firestore is asked and for one account
after another; the statics of one device do not depend on another. Two devices at one phone
are the race for an account; to keep it small the run leaves out half-filled forms, password
resets, answers to a State that is gone and addresses, none of which touches a name, and a name is
either `x` or empty, which is enough for two devices to disagree. `MaxQuantity`, `MaxWrites`,
`MaxVisits`, `MaxOrderLines`, `MaxQueue`, `MaxAsks`, `MaxReads`, `MaxUses`, `NumWrites` only stop the environment from going on.

`CHECK_DEADLOCK FALSE` in the runs of `Orders`: when all orders are placed and deleted and all
queues are empty, nothing is left to do. The same in `RemoteStore`, when all writes are made and
decided and all faults are spent, and in `Notices`, where a device may wait for another to stop.

### What the runs that are expected to fail show

1. `removeItem` "is used for removing the specific item from the cart" (`cart.dart:93`). Add A and
   B (productIds 0, 1), delete A, add A: its productId is the length of the cart, 1, the same as
   B's. The bin of either line removes both.
2. `updateQuantity` "is used to increment/decrement the item quantity" (`cart.dart:68`). In the same
   cart "+" on A writes A's quantity plus one into B.
   Both are one run, `FlutterCartTaps`, with one property; TLC reports the first it meets.
3. Ticking and unticking 'Наличными при получении' leaves 'Онлайн перевод' ticked and cash in the
   order (`checkoutPageDelivery.dart:202-231`).
4. "If this was a permanent error, the request itself was the problem" (`remote_store.cc:538`): the
   client drops the first batch of the pipeline. The server takes w1 and refuses w2; before the
   answer to w1 is read, the write of w3 fails, and gRPC drops what was received and not read. w1
   is reported as failed although the server has it, and w2 is sent again.

### What does not hold beyond the bounds of the passing runs

These were tried with the same modules and other constants; no document of the repository
promises the contrary, so they are recorded here and not as findings.

* `OrderSaysWhatTheCartHeld` for a `hurried` customer: after "order" and before the frame, "+" still
  changes the cart, and the order keeps the old quantity and total; a second "order" doubles the
  lines, because `_items_order` is only emptied with the State.
* `CopiesAgreeWhenQuiet` for a `Contended` order: two administrators change its total while each has
  updates under way, the two pairs interleave, and order and copy end with totals of different
  administrators. `LastTotalsCount` is what remains: each has one of the totals confirmed last.
* An order that reaches the server twice begins anew: the second submission of a double tap, or a `set`
  whose answer was lost and that is sent again, arrives after an administrator's done mark, new
  total or deletion and undoes it. `OrderLifecycle` allows this to that order (`Renew`), and
  `ConfirmedStaysDone`, `CopiesAgreeWhenQuiet` and `LastTotalsCount` set it apart; nothing else does it.
* The notices that are not `sure`. An administrator who confirms before `getUserToken` has returned, or
  whose customer has no token, tells the new total to the customer of the dialog before, or to the
  token '222'; so does one who opens a second dialog while the read of the first is open, when that
  read returns last. A customer who submits before `adminToken` has ended notifies nobody in
  place of the administrator not yet read; a failed first read forgoes the second.
* After a logout the token stays filed under the old account, which goes on getting that device's
  notices. A token that arrives while `main` is still reading the preferences is not filed at all
  until a profile is opened or the application is started again. Nor is a token that `getToken` failed
  to return (`main.dart:90`, `profile.dart:37`): nothing catches the failure or asks again.
* An update of the total that is sent between the order and the customer's copy is refused for
  the copy, which then arrives with the old total: such orders are in `refused`.

* `Accounts` on a device in `astray`. `AccountExists` fails when the phone is changed while a login is
  checked: the device is logged in to a phone that may have no account (`auth.dart:80`). `StaticsFollow` and
  `AdressIsTheAccounts` fail when a tap or an answer comes between a change of the account and the
  next frame, since the page that would read the preferences is then skipped, and the address
  also when an account is logged in to over another one, since only `exitUser` removes it. A
  login whose page was left before the answer is set apart as well.
* Two registrations of one phone at once both succeed: the second `set` replaces the first account,
  password included, and the first device keeps the name it typed. `AuthorShowsTheName` is what
  remains true: the account is one device's, whole, and that device knows it.

* `PictureIsItsOwn` for a `hasty` administrator: the title typed while the spinner turns is the one
  the product is filed under, with the picture of the first.
* `PictureIsItsOwn` and `SpinnerUntilUploaded` for a `hurried` one: a double tap starts two uploads of one page
  (`add_product.dart:41-44`). The first to be filed clears the fields and the spinner; a title typed
  after that is filed by the second upload, with the first product's picture. `PictureExists` holds still.
* That a product's texts are only emptied by somebody who emptied them: an administrator who opens
  the edit dialog before `getInfo` has answered and saves writes empty texts (`product_info.dart:274`).

### Fairness

`FlutterCart`: weak fairness of `FlushWrite` (the platform finishes its writes while the process
lives) and of `FinishInitializeCart` (the flag is written); none for taps or crashes.

`Orders`: weak fairness of `Deliver(d)`: the Firestore client sends its queue whenever it is
connected, and a device is connected again and again. Strong fairness of `Answered(d)`: the
connection may break before an answer is read any number of times, but not always before the
first one; without it a device could send the same write forever. `RemoteStore` justifies it
(`EveryWriteIsDecided`). Snapshots need no fairness for what is checked.

`RemoteStore`: weak fairness of the worker queue (`WriteLocally`, the handlers of answers and ends of
streams), of its timers, of the answer to a question for credentials, of a server on a stream that
holds, and of a restart of the application. Faults are bounded by `MaxFaults`, nothing else stops
them.

`Notices`: weak fairness of `TokenArrives(d) \/ TokenFails(d)` (every call of `getToken` ends while the
process lives, with a token or without one) and of `Deliver(d)` as above. Users, starts and restarts have none: a device that is off files nothing,
and one where `getToken` failed nothing until it asks again, both of which `ProfileFilesToken` allows.

## Theorems

`FlutterCartProofs` proves for all products, prices and bounds, from
`MaxQuantityAssumption` and `PricesAssumption`:

* `TypeCorrect`, `AlwaysWellFormed`, `AlwaysWriteBehind`: the three invariants of the run;
* `OperationsAlwaysMeanThat`: the operators of `CartOps` are what the code computes;
* `TapsChangeOneQuantity`: the action property;
* `DurableBasketImplemented`: `FlutterCart` implements `DurableBasket`.

A well-formed cart in memory is not inductive: after a restart the cart is what the file held, and
the file held what was in the queue. The invariant `IInv` therefore asks that the cart, the cache,
every queued write and the file are all well formed, and that a stopped process has no writes in
flight. Its part `productId + 1 >= i` is why a new line never collides with an index: adding
gives the largest productId possible, deleting moves lines left only. `RemoveItem` is written
with the rank of the remaining positions (`PlaceOf`) instead of a recursive filter so that it can
be reasoned about. In `CartOpsProofs` the
lemmas `LeastElement`, `PlaceOfInRange` and `RankStep` give the properties of ranks, `AddKeepsWF`,
`UpdateKeepsWF` and `RemoveKeepsWF` those of the operations; `NextIInv` has one step per action.

`OperationsMatchTheirMeaning`, which is proved and not run, compares `RemoveItem` with the loop of `removeWhere` (`RemoveWhere`) and the
total with a sum over the products in any order (`SumOverProducts`). Both of these, and `Discount`, are
folds: recursive functions on the sets of what is left to fold, chosen by their recursion. A fold is
known from two facts. Some function satisfies the recursion: `Kept`, with `KeptStep`, for the loop; a sum
over sets of positions, which `SumExists` shows to exist by the least length at which it would not,
for the totals. And the recursion has one solution on a finite set, whichever element is folded next
(`FoldIsUnique`, by the least cardinality at which two would differ). `RemoveIsTheLoop`, `DiscountIsSum`
and `DiscountIsTheTotal` put them together; the last one needs a well-formed cart, since two equal
lines about one product would be counted once.

For the refinement, a well-formed cart has one line per product, so that its basket is known from
its lines in whatever order they stand (`BasketIs`). `PlaceOfReaches` and `RemoveKeepsLines`
say that no remaining line is lost when one is removed. `AddPuts`, `UpdateSets` and `RemoveTakesOut`
turn the operations into those of a basket. The state is mapped to whether the process runs, the
basket on the screen, the baskets on their way to the file and the basket in the file; each queued write is a
backlog of one basket (`BacklogGrows`, `BacklogShrinks`, `CommitIsPersist`), and a stopped process has no
backlog, which is why `IInv` has that part.

`CheckoutProofs` proves for all products, prices, taps per frame and visits, from
`TapsPerFrameAssumption`, `MaxQuantityAssumption`, `MaxVisitsAssumption` and `PricesAssumption`:

* `ConfirmedSumAlwaysSent`, `HistoryAlwaysTells` and `TypesAlwaysHold`: the three invariants of the run;
* `OrdersSayTheCart` and `SubmittingAgainIsHarmless`: its action properties;
* `CheckoutIsAPurchase`: `Checkout` implements `Purchase`.

The first two and the action properties say nothing between the tap that orders and the frame that draws the checkout page, so
`CheckoutInv` has to. Its part `Screens` says which dialogs and pages go together, above all that a
cart page that has asked for the checkout page cannot open the notice again; `SentAlready` that a
page whose order was sent stands over an emptied cart that no tap can fill, with the order still
in the statics, which makes a second submission write the same lines, total and copy; `Patient` that, for a customer who waits
for each frame, the cart page has collected nothing while it is shown and its total is the cart's;
`Documents` that each copy agrees with its order. `WFCart` and its lemmas come from `CartOpsProofs`.
The types need `PageTypes` besides: that a page asked for and not yet drawn has its visit left, and that
totals are natural numbers, which is `DiscountIsNat`.

For the refinement, only a submission is a `Buy`: every other step leaves the documents alone
(`OnlySubmissionWrites`) and is a `Choose`. `SubmissionBuys` shows that a waiting customer's submission is the first
one of its visit, because after it the cart would be empty (`SentAlready`), and that it files the cart and its
total; `FirstCopy` that the loop over the cart leaves nothing of an older copy in the new one, `FilingASale` that
one document more is one sale more, and `EmptyTotal` that what is left is the empty basket. `PageTypes` keeps its
date within `MaxVisits`.

`ProductsProofs` proves for all devices, administrators, titles and prices and any number of uploads
and queued writes, from `DevicesAssumption`, the five invariants of the run:

* `ProductsTyped`, `PicturesAlwaysExist`, `PicturesAreTheirOwn`, `SpinnersLast`, `LinesTellOneVersion`.

`ProductsInv` has three parts. `Shop` is about the collection: what any device can read is remembered in
`versions`, and what is remembered or queued has its picture among `Pictures[t]`, which is the storage or,
if fields rest and nobody taps twice, the picture of `t` in it; that is what a `set` in the middle of a queue must satisfy
for every view after it. `Visits` says that a product page has fetched nothing or a version of
the product it shows, and that only product pages ask. `Uploading` says, of any administrator, that a picture reported as sent is in the storage and that the uploads of
the shown State are told apart from those of States that are gone; and, of one who is not hurried, that an
upload of the page that is shown is the only one of its State and has its spinner, and, if fields
rest, that it still knows its title in the fields it will read. A view is a fold over the queue: `FoldExists` proves, by the least
length for which it would fail, that the recursive function behind `FoldLeft` exists, `ViewSteps` makes
of it a chain of collections, one write apart, and `ViewFits` carries a property of collections along it.

`OrdersProofs` proves for all orders, administrators, phones, totals and queue bounds, with double
taps and writes sent again, from `DevicesAssumption`, `GuestAssumption`, `DoubleTapAssumption` and
`MaxQueueAssumption`:

* `OrdersTypeCorrect`: the type invariant of `Orders`;
* `LifecycleImplemented`: `Orders` implements `OrderLifecycle`;
* `TotalsEndUpEqual`: `CopiesAgreeWhenQuiet`, for any number of administrators;
* `LastTotalsWin`: `LastTotalsCount`, for any number of them who change the same order at any time.

That a status never goes back and only done orders are deleted is not inductive, because what
makes it true is spread over devices. `LifeInv` adds to the types that a customer's queue holds
only writes about its own order (`OwnWrites`); that no snapshot, dialog or queue of an
administrator mentions an order before the server has met it (`NothingTooEarly`), so that a
deleted order is never confused with one on its way; that done on a screen is done, gone or
renewed on the server (`ScreensNotAhead`); that a done mark the server has taken has settled its
order (`MarksTaken`), so that a deletion may be sent again without it; and that every queued
deletion is about a settled order or stands behind this device's own done mark
(`DeletesAreCovered`), which is what `DrawnDone` checks when the bin is tapped. `Sure(o)` is what
all of them say of an order: settled, or met more than once. One lemma per handler shows that it
keeps `LifeInv`; `CustomerDelivers` and `AdminDelivers` say what the server's taking of one write
does, `SureStays` and `NotYetStays` that nothing of it is lost, and `StageStep` turns that into a step of
`OrderLifecycle` or a stutter.

That the totals agree when everything is sent says nothing while anything is on its way, and a new
total is two writes of which either may have been taken, or come again, while the other waits.
`CopyInv` follows the last update of the copy in the administrator's queue: once it is taken the
totals are equal, and once the write before it is, the order has its total (`TotalsAgree`, of orders that are not
contended). That needs whatever is queued about an order to be among what was said of it, so that in an uncontended
one only one queue holds updates (`QueuedIsSaid`, `TwoSpeakers`); the pairs to stay together in the queue, except that the first half may have been answered
(`PairsStayWhole`); administrators to know the phone under which the copy is filed
(`PhonesAreKnown`); and the customer's writes to name one total, the order before the copy, and to
be met when taken (`CustomerInv`), so that a copy still on its way brings the order's total. What
an order sent again does is kept out by `Rewritten`. `QueueingAPair`, `CustomerDeliveryKeepsCopies`,
`AdminDeliveryKeepsCopies` and `AnswerKeepsCopies` are the steps that disturb it.

Which totals a contended order can have is `LastInv`. Whatever a queue says of an order last is the total that
administrator said last (`LatestIsSaid`), and no one but a known order is spoken of
(`SpokenIsKnown`). From the moment a total was said, the server has one of the last totals for the order or somebody's queue
still holds an update of it (`OrdersAreLast`), and the same of the copy (`CopiesAreLast`). A queue that becomes empty leaves
its last update on the server, which is one of the last totals (`QueuesKeepLast`,
`AdminDeliveryKeepsLast`); a new confirmation forgets only totals of administrators with nothing left to send
and puts its own update in the queue (`SayingKeepsLast`).

`RemoteStoreProofs` proves for any number of writes and faults and any size of the pipeline, from
`NumWritesAssumption`, `MaxPendingAssumption` and `MaxFaultsAssumption`, the six invariants of the
run and the refinement:

* `TypesHold`, `BatchesStayAscending`, `PipelineStaysInLine`, `AnswersKeepMatching`, `AssertionsStay`,
  `NothingIsForgotten`;
* `OutboxIsImplemented`: `RemoteStore` implements `Outbox`.

The invariant `IInv` says of the worker queue that it holds the latest writes one after the other
(`CallsInOrder`); of LevelDB that it holds earlier ones and that whatever it no longer holds was
decided or lost (`Queue`); that the pipeline is its beginning and as long as possible (`InLine`); which
combinations of stream, handshake, timer and credentials there are (`Control`); what is under way
before the handshake is answered (`Handshaking`) and after it (`Exchange`: the unanswered
requests are the end of the pipeline, the batches before them are decided, and the answers are about the
first of these, in order); and that among the requests of a stream given up each stands behind whatever was stored before
it and is neither decided nor lost (`LateInOrder`). It is proved in three groups that hardly touch each other: `NextQueue`,
`NextStream` and `NextLate`, with the types apart. The refinement uses that the stored writes are
the first `issued - Len(calls)` without the lost ones (`StoredBefore`), so that "every stored write
before this one" is a statement about numbers; `RequestIsNext` shows it of what the server takes.

`NoticesProofs` proves for all devices, phones and bounds, from the assumptions of `Notices`:

* `NoticesTypeCorrect`: no token is filed under a phone its device was not logged in with;
* `OrdersReachAdmins`, `TotalsReachCustomers`: notices that are sure;
* `LateTokensFollowTheAccount`: the action property of late tokens.

`NoticeInv` needs, besides shapes, that preferences and statics are phones the device was logged in
with (`Owned`), that the static is the preferences' except between a login or logout and its frame,
and empty before the preferences are read (`Fresh`), and what each page's fields mean in the
middle of its reads (`CheckoutKnows`, `DeskKnows`). `ReadersKeep` lets every step of a device leave the
two pages alone, since accounts used and phones filed only grow, and `PagesKeepDevices` the converse.

`AccountsProofs` proves for any number of devices, phones and names and queues of any length, from no
assumption:

* `AlwaysStaticsFollow`: a drawn page agrees with the preferences;
* `AlwaysAdress`: the address kept on a device is of its account;
* `AlwaysAccountExists`: the account a device is logged in to is registered;
* `AlwaysAuthorShowsTheName`: whoever named an account last shows the name when all is sent;
* `AlwaysTypeOK`: the type invariant of `Accounts`.

The first four say nothing of devices in `astray`. The first two need `SessionInv`, which adds where statics may be
behind (`BehindOnTheWay`: between a login and the profile, or between a logout and the login page),
that the pages inside the profile are asked for and shown with an account only (`InsideHasAccount`),
and that a name comes with a phone (`NameHasPhone`), because the bottom bar decides by the name
and the handlers write by the phone. `OneDevice` reduces each handler to its own device;
`TurnKeeps` serves every tap that only moves to a page and `EnterKeeps` both registration and login.

`AlwaysAccountExists` and `AlwaysTypeOK` need `AccountInv`. Which phones a device sees as registered is a fold over its queue;
`ViewFacts` shows, with the argument used for `Products`, that they are those on the server and those
the queue creates (`Known`), because no write removes an account (`ApplyFacts`). `Known` only grows
(`Written`, `DeliverKeepsAccounts`), so that a phone that was found while Firestore was asked is still
registered when the answer is used (`FoundIsKnown`), and a registered phone is known from the
moment its write is queued.

`AlwaysAuthorShowsTheName` needs `NameInv`. The property speaks of empty queues only, and what makes it
true is spread over a device's queue, its open question and its preferences. `Says(d, p, n)` is
what device `d` makes of the name of `p`: its last queued write that names `p` says `n` (`SaysQueued`), and
if there is none and the server has the name from `d`, the server says `n` (`SaysServed`). A device shows
what it says (`ShowsRight`), and an answer that waits to be looked at, whose form is on the screen
(`FormShown`), holds what the device says (`AnswerRight`): `ViewName` gets this from the fold over
the queue, and meanwhile the device writes no name. Sending a write turns the first case of `Says` into the second
(`DeliverNames`), and another device's write only makes the second one void.

Only model-checked are the liveness properties
(`EveryCartReachesDisk`, `ConfirmedStaysDone`, `EveryWriteIsDecided`, `ProfileFilesToken`), out of the
prover's reach like everything about fairness. Every invariant and every other property that a
passing run checks is stated by a theorem.

## Not modelled

* Layout, texts, images, suggestions of addresses, the HTTP request of a notice and how a device
  shows it, platform code.
* My orders, recipes, the list of users, home: they draw or write single documents and keep no
  state of their own. A recipe is added by the same code as a product.
* Firebase renewing a token (the application does not listen for it), gets that the Firestore
  client answers from its cache, and listeners of the client (`watch_stream.cc`): `Orders` takes snapshots as
  the server's state at some time.
* Of the Firestore client: several users, disabling the network and transactions, none of which the
  application uses, its cache of documents, and what happens below gRPC.
* Other vendored pods, generated code and build files.

## Plan

Done: `CartOps`, `FlutterCart`, `DurableBasket`; `Checkout`, `Purchase`; `Orders`, `OrderLifecycle`; `Accounts`; `Products`;
`RemoteStore`, `Outbox`; `Notices`; theorems about each of the seven. To come, in this order:

1. `CrashedCheckout`: `Checkout`'s submission over `FlutterCart`'s persistence and a device queue: what
   a crash may separate.
2. `Accounts`: restarts of the process, the flag of the notice as a preference.
3. `Orders` with requests of streams given up, which `RemoteStore` has.
