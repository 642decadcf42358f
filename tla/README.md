# Verification of CloudPan

The repository holds one real program, `CloudPan/`: a Spring Boot 2.2 web
application with two halves, a *flash sale* (rate limiter, Redis stock, Kafka
queue, MySQL orders) and a *photo album* (MongoDB GridFS plus a collection of
records). `gitTest/` prints a greeting, `peeq-parent/` contains IDE settings.

This directory contains TLA+ models of CloudPan, server and pages, TLC
configurations that check them on small instances, and TLAPS proofs that hold
for all sizes. Paths of Java files are relative to
`src/CloudPan/src/main/java/com/tao/`, those of scripts to
`src/CloudPan/src/main/resources/static/js/`.

## 1. The system

```
 browser --/order--> PaymentController.pay --tryAcquire--> LeakBucketLimiter
                        | OrderServiceAsync.order: GET STOCK_COUNT (Redis)
                        v
                     Producer.produce --> producer's buffer --> topic (Kafka)
                                                                   | poll, batches,
                                                                   v auto-commit
     Consumer -> consumerTopicToCreateOrderWithKafka: WATCH, GET, MULTI,
                        INSERT stock_order (MySQL), EXEC (Redis);
                        catch: one unit back
 browser --/getPayResult--> stock_order (MySQL), then STOCK_COUNT (Redis)

 browser --/uploadFile-----> GridFS, then fileInfo, file by file
         --/removeImages---> find fileInfo, delete fileInfo, delete in GridFS
         --/queryOneFile---> find fileInfo, find in GridFS
         --/getTopImages, then /getTopNImage per slot --> fileInfo by createTime
         --/getCategorys, then /getTopNCategoryImage per block --> the same

 categories.html: loadImage, upload, remove (myJs.js), getParam (category.js)
     upload() -> ajaxSubmit (jquery.form.js) -> XMLHttpRequest, or a form posted
                 into a hidden frame: load event, timeout and checkState compete
     img      -> contextMenu (jquery.contextMenu.js)
```

| Component | State | Operations | What is hard | Correct if |
|---|---|---|---|---|
| Order consumer (`mq/Consumer`, `order/OrderServiceAsync`) | three Redis keys per article, rows of `stock_order`, offsets of the consumer group | one listener call per record, seven calls to two stores | threads of several instances between WATCH and EXEC; failure of any call; crash; rebalance; redelivery | stock never negative; no unit lost; no record skipped; oversell bounded |
| Order requests, producer, results (`controller/PaymentController`, `mq/Producer`) | answers, producer's buffer | `pay`, `order`, `produce` and its callback, `getPayResult` | check-then-act on a count; answer before or after delivery; lost acks; two reads at two times | orders only for requests that were sent and not refused; nobody turned away too early; verdicts settle |
| Limiters (`limiter/`) | level or count, time of the last call | `tryAcquire` | boundaries; rounding of `double`; clock set back or ahead; rejected calls | at most a burst plus qps per second of the clock; a steady caller is served |
| Album files (`controller/ImageController`, `basicDao/AbstractBasicDao`) | GridFS contents, `fileInfo` records | `uploadFile`, `removeFJile`, `queryAllFile`, listings | two stores without a transaction; removals that race | a record has its content; one remover wins; success is complete |
| Page of one album (`myJs.js`, `category.js`) | list items, replies awaited, selection, thumbnails, address and its escapes | `loadImage`, `upload`, `choose`, `remove`, `getParam` | replies in any order or none; other clients; repeated clicks | what is shown is stored; an answer finds its item; nothing is shown twice or after its removal but for stated causes |
| Transport of an upload (`jquery.form.js`) | phase, timer, frame and looks of a submission; `$.active` | `ajaxSubmit`, `doSubmit`, `cb`, `abort`, `checkState` | load events, timeout and checks end the same submission | one end, with success only after an answer; it always comes |
| Menu (`jquery.contextMenu.js`) | hidden or visible; handlers bound | make, show, hide | show and hide repeated | a menu in view has exactly one handler to close it |
| Main page: wall and covers (`ImageController`, `myJs.js`) | listing and slots, blocks and their backgrounds | `getTopImages`, `getTopNImage`, `getTopNCategoryImage` | ranks shift between the requests; the session may end, requests fail | a slot shows something older than listed only after a removal; a slot or cover is blank only after one, or if its request found no user or failed |

Not modelled, and why:

* `PageController`, the student collection: templates, and single reads and
  writes with no second step. Login is an external library; whether a session
  has a user is a constant (`BuyerOf`) or left open (`LoggedIn`).
* `OrderServiceSync` (empty methods); the optimistic lock of table `stock` (its
  only call is commented out, `OrderServiceAsync.java:94`).
* `KafkaConfig`, `RedisConfig`, `RedisObjectSerializer`, `ThreadLocalUtil`,
  `OrderKafkaCallBackResultHandler`: wiring, or not used.
* `TokenLimiter`: used by nobody, and it never writes `lastTime`, so that its
  bucket is not refilled by time and there is no promise to state.
* In `jquery.form.js`, what the application never calls: `ajaxForm` and its
  handlers, `formSerialize`, `fieldSerialize`, `fieldValue`, `clearForm`,
  `resetForm`, `enable`, `selected`, options that veto or redirect a
  submission. Of what it calls, `formToArray` is left out but for the selection
  in the file input, and the texts of errors are.
* `jquery.cookie.js` (a page reads two cookies once, for a name it shows),
  `jquery-viewer.js`, `layer.js` and the carousels (minified or layout only), the
  items of `loadTopImage` (`common.js`), alerts.

## 2. Modules

| Module | Models | Uses |
|---|---|---|
| `StockLedger` | abstract: three keys that move together, a unit is taken only if there is one | |
| `OrderConsumer` | the listener thread, Redis, MySQL, topic and group offsets | `StockLedger` as refinement |
| `Sale` | abstract: who asked is accepted or declined, waits, is sold a unit or turned away, and is told | |
| `OrderSystem` | web requests, producer, result queries, composed with the consumer | extends `OrderConsumer`; `Sale` as refinement |
| `RateLimit` | abstract: a burst plus qps per second, from whatever moment one counts | |
| `LimiterClock` | clock, observer and qps that the limiters share | |
| `LeakBucketLimiter`, `CountLimiter` | `tryAcquire` of the limiter in front of `pay`, and of the counting one | `LimiterClock`; `RateLimit` as refinement |
| `Limiters` | both limiters under one clock | extends `LeakBucketLimiter`, instance of `CountLimiter` |
| `FileStore` | uploads, removals and views over GridFS and `fileInfo` | |
| `AjaxCall` | abstract: a submission begins, gets one reply at most, ends once | |
| `FormUpload` | `ajaxSubmit` by XMLHttpRequest and by hidden frame | `AjaxCall` as refinement |
| `ContextMenu` | the menu on pictures and its click handler | |
| `AlbumPage` | a visit of the page of an album | extends `FileStore`, `FormUpload`, `ContextMenu` |
| `PhotoWall` | the main page's listing and its slots | |
| `MainPage` | the blocks of the categories and their covers | extends `PhotoWall` |
| `MC*` | constants for TLC | |
| `OrderConsumerProofs`, `OversellProofs`, `OrderSystemProofs` | theorems on the consumer side, on rows against stock, on the whole order system | each extends the one before |
| `LeakBucketProofs`, `CountLimiterProofs` | theorems on the limiters, alone and as a pair | extends `Limiters`, instance of `CountLimiterProofs` |
| `FileStoreProofs`, `AlbumPageProofs` | theorems on the album's server; on transport, menu and page | the second extends the first |
| `MainPageProofs` | theorems on the wall and the covers | extends `MainPage` |

Definitions whose comment begins with *Wrong on purpose* are mutations: the
model uses none of them. Each stands before the definition it would replace and
is the plausible mistake that a property is there to catch.

### 2.1 OrderConsumer

A member of `Consumers` is the listener thread of one application instance
(spring-kafka's default concurrency is one). `pc` names the thread's next call:

| `pc` | action | code |
|---|---|---|
| `idle` | `Poll(c, p, n)`: n records of a partition it owns | listener container, `application.properties` 28-36 |
| `watch` | `Watch` | `OrderServiceAsync` 124-128 |
| `get` | `ReadCount`: GET, MULTI, `if(count > 0)` | 129-136 |
| `insert` | `InsertOrder`: the queued DECR/INCR and `createOrder` | 137-146, 153-167 |
| `exec` | `Exec` | 148 |
| `restore` | `Restore`: the catch block | 103-118 |

Redis runs one command at a time. WATCH is modelled by its meaning: `dirty`
holds the threads whose watched key was written since their WATCH, and their
EXEC does nothing. Spring returns null from such an `exec()` and the code never
looks at the result. An exception inside the session closes the connection,
which drops MULTI and WATCH; that is why the catch block gives back a unit that
was not taken. A failed `INSERT` or `EXEC` may have taken effect (`InsertFails`,
`ExecFails` choose).

Offsets: with auto-commit the container commits what poll() returned in the
poll() after the batch (`Commit` needs an idle owner). After a crash or a change
of owner a partition restarts from the committed offset. A slow previous owner
finishes the batch it holds.

Abstractions: a missing key counts as zero stock; the stock's name, count, sale
and version inside the message are never used by the consumer beyond the name
copied into the row, so a record is user and article; a plain INSERT adds one
row or throws, so `i > 0`. `handled` and `faults` are history variables.

### 2.2 OrderSystem

Each request runs `Enter` (session and limiter), `ReadStock`, `Send`, `Accept`.
The limiter may answer either way here: its own behaviour is in
`LeakBucketLimiter`. `Send` is `produce()` (`OrderServiceAsync.java:85`): it puts
the record into the producer's buffer (`outbox`). The answer "accepted" is a step
of its own, `Accept` (`PaymentController.java:70`): in between, the producer's
thread may deliver the record, a consumer may serve it, and the instance may
crash. `sent` is a history variable, the requests that called `produce()`; a
request in it was accepted, is about to be, or broke off without an answer.
`Deliver` appends it to a partition; `DeliverUnacked` appends it and keeps it
(lost acknowledgement; the client library retries, idempotence is not
configured); `DeliverFails` is `onFailure`, which only logs. `ReadOrders` and
`ReadCountLeft` are the two reads of `getPayResult`, which a client may call
again and again (`PaymentController.java:76`). `InstanceCrash` takes the
listener thread, the requests and the buffer of one instance together.

`Sale` says what all this amounts to for a customer while nothing fails: `left`
is the seeded stock less the rows (not the Redis count, which lags behind the
rows), `waiting` the sent requests less the records a listener has decided on,
`sold` the rows of a message; a request is taken as accepted from `Send` on,
which is when the customer's place in the sale is his. Its `Overbook` is (N - 1)
times the stock for N listener threads: what `consumer_aborted_exec` shows to
happen is thus part of the promise, with its bound, and with one thread there is
none of it. `Sale` is a safety promise; that nobody waits for ever is in
`VerdictsSettle`.

### 2.3 Limiters

Each call holds its lock from before it reads the clock (or is `synchronized`),
so it is one step. The code computes the level in `double`. The model counts water
in grains, `Grain` of them in 1/`Second` of a drop, and lets each of the two
roundings of a call (of the level after the leak, `remainWater - outWater`, and
of that level with the new drop) come out up to `Rounding` grains off, either way.
The errors of `double` are far below that for any qps in use; which way a sum at
the brim is rounded is left open, and so the model both admits and refuses the
drop that fits exactly.

The clock is `System.currentTimeMillis()`. It follows time and may at any moment
be set back (`SetBack`) or ahead (`SetAhead`). An observer may start to count at
any moment: `Limits` says that what he sees admitted is a behaviour of
`RateLimit`, where a second that the clock was set ahead since (`skipped`) counts
like one that passed, since the code knows no other time, and where each call
may add `Error`, its own rounding. For `CountLimiter`, which computes in
integers, that is zero.

`SteadyRate` is what a steady caller gets: if the clock shows 1/qps of a second
more than when a request was last let in, and as much more as rounding may have
added in the calls refused since and in this one, the next request finds room.
Without that margin it is false in the code: with 10 requests a second, a full
bucket and a refused call each millisecond, the level after 100 ms is 9.00..02
and the drop does not fit. `admittedAt` and `refused` are history variables for
this property; it needs nothing of the clock, as its premise is stated by it.

No controller uses `CountLimiter`; it is modelled because it makes the same
promise. `Limiters` puts both under one clock and one observer, so that one run
checks both.

### 2.4 FileStore and PhotoWall

A file is named by the request that uploads it and its place there, which is as
unique as its ObjectId. Every call to GridFS or `fileInfo` is a step. `saveOne`
and `deleteOne` swallow exceptions and return 0, and may have taken effect.
`ContentMatching` is the empty set: the query `fileId = x` matches no document
of `fs.files`. In `PhotoWall` records are stamped before they are saved, as
`uploadFile` does, so the order of saving and that of `createTime` differ;
equal times are left out, since nothing is said about pictures of which neither
is newer. `Newest(S, n)` is the sorted and limited query: its
i-th picture is the one of S that i - 1 others are newer than.

`session` says whether the session of the page has a user. It may lose him and
get him back between any two requests (`SessionChanges`): without a user
`getTopNImage` and `getTopNCategoryImage` answer an empty body, and the listing
is null, which lays out nothing. Any of these requests may also fail, in the
query, in the store or on the way; `error` of `common.js` only alerts.
`unserved` and `uncovered` are history variables: the slots and covers whose
request met one of the two. Not modelled: a session that goes over to another
user while the page loads. The page asks for the same addresses again on later
visits (`main.html` 130-144); the model takes the images from the server, not
from a cache of the browser.

`MainPage` adds the categories: `ComputeCategories` is the whole loop of
`computeCategories`, whose line 106 clears the background of every block before
it sets that of the new one, so that only the last category gets a cover
(`AppendBlock` is one round, `LayOut` what the last one leaves); `FetchCover` is
the request behind it.

### 2.5 FormUpload

A member of `Submissions` is a call of `ajaxSubmit`. `browser` is chosen once: one
with FormData sends an XMLHttpRequest, any other goes through a frame, and an
Opera browser may find the frame's document not traversable and look again.

| `phase` | left by | code |
|---|---|---|
| `none` | `AjaxSubmit` | `jquery.form.js` 78-250; both transports count themselves in `$.active` |
| `queued` (frame) | `DoSubmit`: timer, frame, post | 467-565, called 10 ms later |
| `open` | `Load`, `Timeout`, `CheckState` | `cb` 570-725; 494-509 |
| `reading` (Opera) | `ReadAgain`, `Timeout` | 607-620 |
| `done` | `Cleanup` takes the frame away | 720-725 |
| `aborted` (frame) | nothing; its timer may still fire, and does nothing | 364-384 |

`Respond` is the network's: an answer of the application (`ok`, `refused`), an
empty body, an error page, or a connection that broke. Seen from the page, all
this is `AjaxCall`: the refinement maps the phase and the callbacks made so far
to the state of one call.

`active` is `$.active`, jQuery's count of requests under way. A submission through
a frame that is aborted, by its timeout or because its document cannot be read,
is never taken out of it, against the comment on the increment
(`jquery.form.js:388`): the run `form_active` shows it. The theorem
`AbortedStayActive` says by how much the count is off. The frame of such a
submission also stays in the page, which nothing in the program contradicts
(`Settles` asks for an end, not for that).

### 2.6 AlbumPage

`albumVars` holds the server (`vars` of `FileStore`), the transport
(`formVars`), the menu and the page. `User`, `Browser`, `Server` and `Others` are
the four sides that interleave; every step of the page's event loop is one
action with all that its callback does (`PageTask` is a task of the form plug-in
together with `success` of `upload()`). `elements` counts the list items of each
picture: `loadImage` and `upload` append without looking, `remove` takes the
first item with the id. A request to the server and the reply to it are separate
steps, so that listing, uploads and removals are answered in any order; a reply
that never comes is the timeout's business, and `RemoveErrs` may come before the
server is done. `ReadListing` reads the records by category only, not by user:
that is `queryFileNames`.

The name of an album is a sequence of characters, and `Escape` gives what the
browser puts into an address for those it cannot hold. `Address` escapes a name,
`Unescaped` is what the server makes of the query of a listing, and `GetParam`,
like `getParam` of `category.js`, cuts a "#" off the end and leaves the escapes.
So a listing reads the album by its name, while `upload()` posts the name as it
stands in the address (`myJs.js` 142-144): for a name with a space or a Chinese
character the picture goes to another album, and is missing from the listing at
the next visit. `UploadsToThisAlbum` says both: uploads stay in their album
exactly if its name needs no escape. No comment or test promises more, so this is
not among the violated runs. Names contain none of `#`, `&`, `=`, `+` and `%`.

Every name that the page uses for a picture is a file of `FileStore`. Scripts of
the page run one at a time, as JavaScript does.

Beyond the properties, reading the page showed that an upload which it reports
as failed ("try again") may have been stored, after a timeout for one; a second
try stores the files a second time. No property speaks of it: the server has no
key by which it could know a request again.

## 3. What the runs show

| Run | Instance | Shows |
|---|---|---|
| `consumer_live` | 2 threads, 1 partition, 2 records, 1 unit, 2 failures of any kind, rebalances; fair | `EveryRecordHandled`, `LedgerSpec` (refinement of `StockLedger`) |
| `consumer_aborted_exec` | 2 threads, no failure | `EveryOrderDeducted` **is violated** |
| `consumer_restore` | 1 thread, 1 failed insert | `StockNotInflated` **is violated** |
| `system_orders` | whole system: 1 request, 2 instances, redeliveries up to 3 records, batches of 2, 1 failure of any kind, rebalances | `TypeOK`, `CountNonNegative`, `DeductionsBacked`, `OversellBound`, `AtLeastOnce`, `SystemTypeOK`, `OrdersRequested` |
| `system_sale` | whole system: 2 requests with a session and 1 without at 2 instances, 2 partitions that belong to one listener thread or to two, 1 unit, no failure; fair | `OneOrderPerRequest`, `TurnedAwayOnlyWhenSoldOut`, `ExactSale` (where one thread is at work), `SaleSpec` (refinement of `Sale`), `VerdictsSettle` |
| `system_failure_final` | 1 request, no failure | `FailureIsFinal` **is violated** |
| `system_unanswered` | 1 request, deliveries may fail; fair | `AcceptedIsAnswered` **is violated** |
| `leak_bucket` | both limiters, qps 2, 2 ticks a second, 8 grains a drop, each rounding off by up to 1; the clock may be set back or ahead by a second | `TypeOK`, `SteadyRate`, `Limits`, `CountLimits` |
| `album` | a visit of an album's page of one of eight kinds, in two kinds of browser, with up to 2 failures of the server, lost replies and timeouts; fair | server: `TypeOK`, `RecordHasContent`, `RemovedOnce`, `SuccessIsComplete`, `NeverEmpty`; transport: `AsOneCall` (refinement of `AjaxCall`), `Settles`; page: `PageTypeOK`, `ShownHasContent`, `RemovalFindsElement`, `ShownOnce`, `GoneIsExplained`, `UploadsToThisAlbum`, `StatusIsTrue`, `PreviewIsInput`, `MenuCanClose` |
| `album_content` | 1 upload, 1 removal, no failure | `RemovedIsGone` **is violated** |
| `photo_wall` | the main page: 4 pictures of 2 categories, 3 slots, 2 removals, a session that ends and begins again, any request fails | `BlankIsExplained`, `OlderMeansRemoved`, `CoverIsNewest`, `BlankCoverIsExplained` |
| `form_active` | 1 submission through a frame | `ActiveCounts` **is violated** |

### What the violated runs mean

1. `consumer_aborted_exec`: two threads see the last unit, both insert a row,
   one EXEC aborts silently. Two orders, one unit deducted.
2. `consumer_restore`: a failed insert makes the catch block add a unit that
   was never taken. The stock is then larger than it was seeded.
3. `system_failure_final`: `getPayResult` finds no row, the consumer inserts it
   and takes the last unit, `getPayResult` finds no stock and says "failed". The
   next call says "success".
4. `system_unanswered`: the delivery fails after `pay` answered. Stock is left,
   no row will come, the client hears "in progress" for ever.
5. `album_content`: the removal answers success and leaves the content in
   GridFS, where nothing refers to it any more. This is also what makes
   `NeverEmpty` hold: if only the key of that query were corrected, a view that
   has found the record could meet a missing content (its mutation shows it).
6. `form_active`: a submission through a frame is aborted and stays counted in
   `$.active`, so that `ajaxStop` is triggered neither for it nor for any request
   after it.

`EveryOrderDeducted` is violated with two listener threads; with one, and no
failure, it holds, as the theorem `OrdersAreDeducted` shows: the silent EXEC
needs a second writer.

### Bounds

* `MaxRecords` (records per partition), `MaxBatch`: two records of one partition
  in one batch are enough to have one finished and one in hand at a crash; the
  third record of `system_orders` is the second redelivery of one request. With
  rebalances one partition is enough for two threads to work at once: the old
  owner finishes its batch while the new one starts from the committed offset.
* `MaxFaults`: each failure of a call and each crash counts; rebalances, and the
  failures of the producer, do not. `consumer_live` allows two, since the catch
  block can only fail after another call has failed; one next to free
  interleaving and rebalances suffices in `system_orders`. The theorems remove
  the bound.
* One unit in stock makes any two records compete for it.
* `system_sale` has one request per user: two that buy the same twice multiply
  the states beyond reach, and `NoDoubleOrder` and `ImplementsSale` cover them.
  `ExactSale` claims something only while one thread is at work; the run has
  behaviours of both kinds, from the owners that `Init` gives the partitions.
* `MaxTime` is a second and a half of the limiters, and setting the clock by
  another second (`MaxSkew`) either way: enough for two windows, for an observer
  who starts in the middle of one, and for a bucket that runs dry. `MaxCalls`
  bounds the calls one observer sees and those refused in a row: three fill
  a bucket of two and overflow it. With `Grain` 4 and `Rounding` 1 an error is an
  eighth of what leaks in a tick, so that a sum at the brim falls on either
  side. The theorems remove these bounds (`MaxCalls` may be any number).
* `Visits` bounds what happens during one visit of an album's page: which uploads,
  selections, clicks, removals elsewhere, views and failures there may be. All
  of them at once are out of TLC's reach, so each of the eight visits lets a few
  meet: uploads with each other, an upload with clicks on one cross, with a
  click and another client's removal of the same picture, with another client's
  upload; pictures that others uploaded, removed here and there; and an upload
  next to another client's in an album whose name has a space. An upload of
  two files has a state between its files, and a third would add none.
* `DomCheckCount` is 2 instead of 50: one look that fails and another that ends.
  `Browsers` are one with FormData and Opera; another without FormData behaves
  as Opera does when every document is traversable.
* `MaxRemovals`, and 4 pictures for 3 slots: the list can be pushed down by an
  upload and become shorter than the slot asked for. The session may change any
  number of times, and each request fail.

Deadlock is not checked where the environment can run out of records, requests,
clicks or pictures and everything comes to rest (`CHECK_DEADLOCK FALSE`); the
limiters' run checks it. Symmetry is used only in `photo_wall`, which checks
invariants, over the pictures of one category.

### Fairness

`FairSpec` has weak fairness of each listener thread's own calls: the thread
waits for nothing but replies, which come or fail. It also assumes that the
assignment of partitions settles (`<>[][UNCHANGED owner]_vars`): a group that
rebalances for ever would restart the same batch for ever. `FairSystem`, used
without crashes or failed calls of the listener, has the same fairness of the listener threads and adds weak
fairness of each web request, of the producer's sender thread (which delivers a
record or gives it up), and of the client's repeated `getPayResult`, an
assumption about clients that `PaymentController.java:76` states. `FairAlbum` has
weak fairness of the tasks of each submission: the event loop of a page runs
what is due, timers included. Neither server nor network owe anything, so
`Settles` rests on the timeout alone. Nothing
obliges faults, rebalances or redeliveries to occur.

## 4. What is proved

TLAPS checks every theorem below to its leaves, for all values of the constants
that satisfy `ConsumerAssumption`, `SystemAssumption`, `ClockAssumption`,
`RoundingAssumption`, `StoreAssumption`, `FormAssumption`, `PageAssumption`, `WallAssumption` and
`MainAssumption` (finitely many threads, submissions and pictures, functions of the right types, a positive qps, second and number
of looks, a clock that starts after 1970 by more than a second, a rounding of less than 1/`Second`
of a drop, different escapes for different characters and
names without a "#" or an escape in them, removals of the page distinct from
those of others).

| Theorem | States | Argument |
|---|---|---|
| `OrderConsumerProofs!TypeCorrect` | `Spec => []TypeOK` | inductive as it is, thanks to its last conjunct (the job of a busy thread lies inside the log) |
| `OrderConsumerProofs!NothingSkipped` | `Spec => []AtLeastOnce` | `DeliveryInv`: what a thread fetched and does not hold in hand is handled, so committing the position of an idle owner is safe |
| `OrderConsumerProofs!StockNeverNegative` | `Spec => []CountNonNegative` | `WatchInv`: a thread that is not `dirty` still sees the value it read, so an EXEC that applies takes from a positive count |
| `OrderConsumerProofs!ImplementsLedger` | `Spec => LedgerSpec` | each step is a `Take`, a `PutBack` or a stutter; uses `WatchInv` |
| `OversellProofs!NoUnitLost` | `Spec => []DeductionsBacked` | rows ahead of deductions, counted per thread between insert and EXEC (`DriftInv` and its companions) |
| `OversellProofs!OversellIsBounded` | `Spec => []OversellBound` | a potential: each deduction pays for at most N rows, as the threads that saw the same unit; each failure adds a constant |
| `OversellProofs!OrdersAreDeducted` | N = 1 and no failure: `Spec => []EveryOrderDeducted` | `NoSlack`: nothing is left that `DriftInv` could charge a row to but the unit taken for it or the thread about to take it |
| `OversellProofs!SaleIsExact` | N = 1 and no failure: `Spec => []ExactSale` | `SaleInv`: at every moment the units taken are as many as the records handled, up to the initial stock; by `TurnInv` records are taken strictly in turn, none twice |
| `OrderSystemProofs!SystemRefinesConsumer` | `SystemSpec => Spec` | a delivery is a `Publish`, everything else of the front end a stutter |
| `OrderSystemProofs!SystemTypeCorrect` | `SystemSpec => []SystemTypeOK` | inductive as it is |
| `OrderSystemProofs!OnlyRequestedOrders` | `SystemSpec => []OrdersRequested` | `RequestInv`: records in the topic come from requests that were sent, none of these is refused later, rows copy records |
| `OrderSystemProofs!RefusedOnlyWhenSoldOut` | nothing fails, rebalances allowed: `SystemSpec => []TurnedAwayOnlyWhenSoldOut` | `SoldOutInv`: a request that was sent is in the buffer or in the log, and a record that a listener is done with is resolved for good, by a row or by an empty stock, which no step fills again; `DeliveryInv` says that at rest every record is done with |
| `OrderSystemProofs!NoDoubleOrder` | no failure: `SystemSpec => []OneOrderPerRequest` | `CountInv`: per message, the rows are at most the offsets that were worked on, all of them in the log, and the offsets in the log at most the requests sent that left the buffer; by `TurnInv` an offset is worked on once |
| `OrderSystemProofs!ImplementsSale` | no failure: `SystemSpec => SaleSpec` | the insert is `Sell`, the read of an empty count `TurnAway`, a delivery and EXEC are stutters. A record is decided on once (`PassesOne`, from `TurnInv`), so someone waits for it (`CountInv`); an empty count means a row for every unit (`NoneLeft`, from `DriftInv`); the guard of `Sell` is `DriftBound` of the state after |
| `LeakBucketProofs!KeepsRate` | `Spec => Limits` | `LevelInv`: the water admitted since the observer began is at most the level, plus what leaks in his time and in the ticks the clock was set ahead in it, plus two roundings for each call he saw |
| `LeakBucketProofs!BucketTypeCorrect` | `Spec => []TypeOK` | inductive as it is |
| `LeakBucketProofs!SteadyCallerServed` | `Spec => []SteadyRate` | `SteadyInv`: the level is at most the capacity, less what leaked since the last request let in, by the clock, plus a rounding for each call refused since: a refused call moves the level and the time together |
| `LeakBucketProofs!BucketInPair` | `BothSpec => Spec` | a call of the counting limiter is a step of the clock or a stutter |
| `LeakBucketProofs!PairKeepsCountRate` | `BothSpec => CountLimits` | `CountKeepsRate`, instantiated with the variables that `Limiters` gives the counter |
| `CountLimiterProofs!CountKeepsRate` | `Spec => Limits` | what an observer has seen, by whether a window opened since he began; a clock set ahead opens one at the price of the ticks skipped |
| `FileStoreProofs!TypeCorrect` | `Spec => []TypeOK` | inductive as it is |
| `FileStoreProofs!ListedIsServed` | `Spec => []RecordHasContent` | `ContentInv`: uploads about to save and views about to read rely on a content that no step removes |
| `FileStoreProofs!ViewsAreServed` | `Spec => []NeverEmpty` | `ContentInv`, for the views |
| `FileStoreProofs!RemovedOnceOnly` | `Spec => []RemovedOnce` | `TakerInv`: a record is saved once (`Past`), so the file of a removal that took it stays without one |
| `FileStoreProofs!SuccessComplete` | `Spec => []SuccessIsComplete` | `CompleteInv`: the upload loop leaves a record behind it for each file it is past, or a removal that took it |
| `AlbumPageProofs!TransportTypeCorrect` | `FormSpec => []FormTypeOK` | `FormInv`: what each phase has set up and told |
| `AlbumPageProofs!TransportIsOneCall` | `FormSpec => AsOneCall` | each step is one of the call or a stutter; `FormInv` says that a submission that still waits has told nothing, and that an ended one has no second end |
| `AlbumPageProofs!AbortedStayActive` | `FormSpec => []AbortedStay`: `$.active` is the submissions under way plus those a frame ever aborted | a step moves one submission between the two counted sets at most (`CountMoves`) |
| `AlbumPageProofs!PageRefines` | `AlbumSpec => Spec /\ FormSpec` | what is shown is stored, so removals and views of the page are ones of the server's specification |
| `AlbumPageProofs!ShownIsStored` | `AlbumSpec => []ShownHasContent` | `AlbumInv`: a reply is true to the server (`ReplyInv`), and success has all its files stored (`CompleteInv`) |
| `AlbumPageProofs!StatusFits` | `AlbumSpec => []StatusIsTrue` | `ReplyInv`, and `Fits` of `FormInv`: a status is true to the reply |
| `AlbumPageProofs!RemovalFinds` | `AlbumSpec => []RemovalFindsElement` | `RemovalInv`: a clicked picture stays until an answer to a click took it, and by `TakerInv` there is one successful removal of a file |
| `AlbumPageProofs!UploadsStay` | `AlbumSpec => []UploadsToThisAlbum` | `CategoryInv`: `getParam` undoes what a click on an empty link does to the address (`ParamIsAddress`), and leaves the escapes; an address is the name itself only if nothing in it needs one |
| `AlbumPageProofs!ShownAtMostOnce` | `AlbumSpec => []ShownOnce` | `OnceInv`: an upload that begins after the listing is not in it, and is answered once |
| `AlbumPageProofs!PageTypeCorrect` | `AlbumSpec => []PageTypeOK` | `FieldsInv`, for the fields that `AlbumInv` does not speak of |
| `AlbumPageProofs!GoneWithCause` | `AlbumSpec => []GoneIsExplained` | `RecordedInv`: what is shown or about to be has a record, or a removal took it; `GoneInv`: once a click is answered with success, no item of its picture is left or to come, unless its upload is early |
| `AlbumPageProofs!PreviewShowsInput` | `AlbumSpec => []PreviewIsInput` | inductive as it is: whatever sets the preview sets the input in the same step |
| `AlbumPageProofs!MenuCloses` | `AlbumSpec => []MenuCanClose` | `MenuInv`: the menu is made once, with the listing, before anything can open it; making it again would leave a handler behind |
| `MainPageProofs!MainRefinesWall` | `MainSpec => Spec` | the covers only read what the wall writes |
| `MainPageProofs!BlankExplained` | `Spec => []BlankIsExplained` | `SlotsInv`, for the slots that were served: the listing is strictly sorted (`ListingInv`), so that i listed pictures still there make the list long enough (`ListedAreMany`); a removed picture never returns |
| `MainPageProofs!OlderAfterRemoval` | `Spec => []OlderMeansRemoved` | `SlotsInv`: a picture at place i has i - 1 above it, one too few for the i listed ones if all of them are there |
| `MainPageProofs!CoverStaysNewest` | `MainSpec => []CoverIsNewest` | `CoversInv`: the answer has nothing above it in its category (`CoverAnswered`), and what comes later was not known |
| `MainPageProofs!BlankCoverExplained` | `MainSpec => []BlankCoverIsExplained` | `CoversInv`, for the covers that were served: a record that was there is saved or removed for good |

By `SystemRefinesConsumer` the invariants of the consumer side hold in
the whole system, by `PageRefines` what is proved of server and transport
holds of the page and the server together, and by `MainRefinesWall` and
`BucketInPair` what is proved of wall and bucket holds where they are used. The
inductive invariants were checked with TLC on the instances above before they
were proved.

Five theorems have a hypothesis besides the assumptions on the constants. *No
failure* is `Faults = {}`, and `~BrokerFaults` where the producer takes part: a
failure or a rebalance may deliver a record twice and so sell to one request
twice, and a lost delivery turns away without a cause. `RefusedOnlyWhenSoldOut`
allows rebalances (`Faults \subseteq {"rebalance"}`), more than `system_sale`
checks. `OrdersAreDeducted` and `SaleIsExact` have one listener thread, because
with two the first is false (`consumer_aborted_exec`). Threads otherwise, batches,
partitions, articles, users and requests are arbitrary.

The order of pictures is proved from one lemma, `PlaceTaken`: elements with
different times have different places, so that each place is taken. It gives
what the query returns (`NewestIsSorted`, `EarlierIsNewer`) and that a finite set
of numbers has a maximum, without an induction.

Only model-checked: liveness (`EveryRecordHandled`, `VerdictsSettle`, `Settles`),
which is beyond the prover. Every other property of a passing run has its
theorem above.

## 5. Plan

Order: the consumer side first, because the money is there; then what
surrounds it; then the album on the server; then the pages that use it. Done:
all modules of section 2. Next:

1. `OrderSystem` with `LeakBucketLimiter` in front of it, so that the number of
   accepted requests is bounded over time.
2. Of `Sale`, what holds when something fails: a version that may serve a record
   twice and lose one, by as much as there were failures.
