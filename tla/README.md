# Verification of the merchant API

TLA+ models of the merchant API (`src/`), TLC runs that check them on small
instances, and TLAPS proofs of the main results for every instance. Paths below
are relative to `src/src/` unless they start with `prisma/`.

## 1. The system

One NestJS process serves the devices of restaurants. It keeps its state in one
PostgreSQL database (Prisma) and talks to Ordering.co, Wolt, Foodora, OneSignal
and Zapier. It is single-threaded, so handlers interleave exactly at their
`await`s; nothing in it uses a transaction or a lock. Requests come from devices
(HTTP, socket.io), from the webhooks of the providers and from timers
(`@Interval`, `@Cron`), and a good part of the work is done by event listeners
that nobody waits for (`eventEmitter.emit`).

| component | state | operations | interacts with | hard behaviour | what makes it correct |
|---|---|---|---|---|---|
| Wolt orders (`provider/wolt`, `webhook`, `order`) | rows of `Order` and their products | webhook intake, synchronisation, update, rejection | Wolt API, gateways, preorder queue | duplicated, lost, reordered webhooks; fetch-then-write; failed PUTs; crash between save and announce | stored and announced once and completely; only statuses the order has had at Wolt; database catches up with Wolt |
| Ordering and Foodora (`provider/ordering`, `provider/foodora`, `webhook`) | rows of `Order` | intake, change, update, reject, list | Ordering, Foodora, gateways | a change before its row, crossing synchronisations, save then fail, two halves of one mapping | as for Wolt; devices are shown the last status |
| Active-status queue (`queue`, `business`) | `active_status_queue`, `Business.open`, `Provider.open` | close for a while, open, minute run | event listeners, Ordering, Wolt venue | overlapping runs, un-awaited listeners, a batch cut short | what is closed is opened again; no marked entry is left behind; the queue drains |
| Preorder queue (`queue`, `schedule`) | `PreorderQueue` | schedule, mark, remind, withdraw | gateways, webhooks, rejections | overlapping minute runs, two windows of a minute, listeners | each preorder is reminded once, unless it changed |
| Socket gateways (`socket`) | rooms | connect, join, leave, emit with acknowledgement | devices | timeout against acknowledgement, retries, rooms that change meanwhile | the call returns once, after at most its retries; who is there is shown the event |
| Sessions (`auth`, `user`, `utils`) | `Session`, tokens | sign in and out, refresh, report state and businesses | devices, Ordering, CMS | statements of two requests in between each other | a live refresh token, the reported businesses, one session per device |
| Open-app notifications (`notification`, `onesignal`) | a mark and a count of `Session` | pushes, minute run | sessions, OneSignal | an early return | a push has a device to go to |
| Menu tracking (`menu`, `provider/wolt`) | `MenuTracking` | ask, mark, synchronise, call back | Wolt and Ordering menus | a callback nobody awaits, cron jobs with windows of a minute, edits meanwhile | success means Wolt shows what Ordering has; no row is forgotten |
| Menu mapping (`menu-process`, `ordering-menu-mapper`) | none | build what is shown, what is sent | | trees of categories, products on several menus | nothing lost, nothing twice |
| History, analytics (`history`, `financial-analytics`), order list (`provider-management`) | none | ranges, filters, pages, sums, sorting | `Order` | boundaries of days and weeks, nulls, several providers | every order counted once |
| Business synchronisation (`business`) | `Business`, its owners | upsert from Ordering | sessions | owners are never removed | a session follows its user's businesses |
| Order tracking, CMS, Zapier, reports, infrastructure | none | read and forward | | | |

## 2. Modules

| module | models |
|---|---|
| `WoltStatus` | the two status vocabularies of Wolt orders and the mapping between them (`wolt-order-mapper.ts`) |
| `OrderFeed` | what the intake promises: an abstract specification |
| `WoltOrders` | the Wolt component: webhooks, synchronisation, devices' requests, Wolt itself, failures |
| `WoltOrdersProofs` | its inductive invariant, safety theorems and refinement of `OrderFeed`, and the theorem that the database follows Wolt |
| `ProviderStatus` | the status mappings of Ordering and Foodora, in both directions |
| `ProviderOrders` | orders of Ordering and Foodora: webhooks, synchronisation, devices' requests, failures |
| `ActiveStatusQueue` | closing for a while and the minute runs that open again |
| `PreorderQueue` | scheduling reminders, the two intervals, withdrawal |
| `AckPromise` | what a call with acknowledgement promises: an abstract specification |
| `Gateway` | sockets, rooms and that call |
| `Sessions` | session rows, their requests, the pushes that read them |
| `MenuTracking` | the menu synchronisation of a business and its venues |
| `Ordered` | an order of a set as a sequence, and what is kept of a sequence: the sorting and filtering the next two use |
| `MenuData` | the pure algorithms on menus |
| `OrderReads` | the pure algorithms on stored orders: list, history, statistics |
| `ProviderOrdersProofs`, `ActiveStatusQueueProofs`, `PreorderQueueProofs`, `GatewayProofs`, `SessionsProofs`, `MenuTrackingProofs` | the inductive invariants of these components and the theorems that follow from them (section 4) |
| `OrderReadsProofs` | theorems about the functions of `OrderReads` and `MenuData`: ranges, lists, history, statistics, menus |
| `MCWoltOrders`, `MCOrderReads`, `MCProviderOrders`, `MCActiveStatusQueue`, `MCPreorderQueue`, `MCGateway`, `MCSessions`, `MCMenuTracking` | instances for TLC |

`WoltOrders` and `ProviderOrders` emit `preorderQueue.validate`, which
`PreorderQueue` receives (its `Change` and `Reject`); all three rely on
`Gateway` for one fact, that a call with acknowledgement always returns
(`KeepsPromise`), so that the call is one step in them.

### WoltOrders

A request in progress is one of `Procs`, its local variables the record
`handler[p]`. A step runs from one await that reaches Wolt or the database to
the next; `pc` names the step to take.

- A webhook runs `process` (`processWoltOrder`: credentials, order, business)
  and then either `validate`, `create`, `products`, `announce`
  (`handleNewWoltOrder`: find the row, create it, save the products, emit
  `newOrder.notification`), or `sync`, `notify` (`handleExistingWoltOrder`).
- `syncWoltOrder` is `sync` (fetch), `syncFind` (find the row, skip an order the
  driver has), `syncWrite` (write what was fetched). `after` is the caller's
  continuation.
- A device's update runs `read`, `put`, `eta`, `store` (`updateOrder`,
  `sendWoltUpdateRequest`, `syncPickupTime`, `updateOrderInDatabase`);
  `rejectOrder` runs the same steps without `eta`. A PUT that fails is followed
  by `sync` and then an error.
- The row is `db[o]`, its status column, and `o \in items` says that its
  products are saved. `RowAccepted` is the database's own check: `orderId`
  unique, `status` required.
- Wolt is external. `Grants`, `Target` and `Hooks` give it the ordinary order of
  statuses; they are assumptions, read off the endpoints and webhook statuses
  the code uses. `had` is a history variable: every status an order has had.
- `Faults` selects what goes wrong: failing API calls (a PUT may have been granted),
  failing statements, a crash, duplicated and lost webhooks, a missing
  pickup time, a refund.

Data that no property tells apart is left out: names, prices, times, the
contents of products, and the wording of acknowledgements.
`emitWithAcknowledgement` never throws and always returns, so it is no step.

### ActiveStatusQueue

`Devices` and `Runs` are the requests and the minute runs in progress. A worker
looks a business up, sends the queue's statement (`sent`: the listener is not
awaited, so the statement takes effect at any later time, in any order) and
writes the status. A run finds elapsed entries, marks them and treats them one
after another. `abandoned` is a history variable: the marked entries whose run
or removal failed, or that a restart left. Time is abstract: an entry's time is
ahead, then it has come (`Elapse`). The PATCH to the Wolt venue is left out: it
is not awaited and no code reads it back.

### ProviderOrders and ProviderStatus

`handler[p]` is again a webhook in progress and `pc` its next step: `fetchNew`
(`foodoraOrderNotification` reads the order), `validate`, `create`, `products`,
`announce` (`newOrderNotification`, `saveOrderingOrder`), or `find`, `fetch`,
`write` (`syncOrderingOrder`) and `show` (`order_change`, which carries the
order of the webhook, `carried`). Devices write to the provider only
(`UpdateOrdering`, `RejectOrdering`, `RejectFoodora`); the row follows by
webhook. A Foodora order ends after `products`: the handler reads a field of a
business it was not given and throws. `stale`, `late` and `cut` are history
variables that hold the orders to which a property does not apply and why: two
synchronisations crossed, a change was overtaken, a registration was cut short.
`ProviderStatus` has the mappings. Statuses the code never tells apart are one
value.

### PreorderQueue

Time is where a reminder stands: more than a minute ahead, in the minute before
its time, in the minute after it, past. The intervals fire once in every minute
(`fired`). `remindPreorder` finds and marks entries in two statements;
`processingPreorderReminder` takes the marked ones one after another, and a new
run starts while an earlier one still waits for acknowledgements (`Runs`).
Withdrawals by a change or a rejection are listeners (`validations`), those of
the run are awaited. `excused` and `doubled` are history variables.

### Gateway

A socket connects, is verified, joins and leaves rooms id by id (a query for
each) and disconnects, all of it in between the steps of one call:
`fetchSockets`, emit, the devices' answers, the timeout, the delay before the
next attempt. socket.io is external: the callback of an emit runs once, with all
answers or with an error. `AckPromise` is the abstract call; the mapping takes
`attempts` and `result` from the call's record.

### Sessions

`row[s]` is a session row, `held[s]` the token its device holds, `request[q]` a
request in progress. A refresh is verify, write, answer; a report of businesses
is read, disconnect, find the other sessions of the device, remove them,
connect. Every statement is a step and any of them may fail, or the answer get
lost (`Fails`). Tokens are numbers: a hash matches one token. `unsure`, `mixed`,
`moved` (a device replaced by another) and `ended` are history variables. What a push reads it sends at once, so a
push is one step. The business synchronisation appears as `OwnBusiness`, which
adds owners and removes none.

### MenuTracking

A business has one row and several venues, and a venue belongs to one business
(`BusinessProviders.providerId` is unique, `prisma/schema.prisma:72`). `FireMark`, `Mark` and `FireSync` are
the two cron jobs, an action per row read, `run[b]` the synchronisation in
progress: it reads the categories, then the extras, then runs `syncMenu` of every
venue reached (`Reached`: a provider without `syncMenu` throws in the loop).
`main` is the step of a venue's `syncMenu`, `side` that of the cooldown callback
`editProduct` leaves behind. A row's time stands ahead, due or passed; `recent`
says whether its `lastUpdated` is less than fifteen minutes old. How often the jobs
fire is left open (`EVERY_QUARTER`, that of the synchronisation, is a quarter of a
year: most rows pass between two runs). A failed request may have reached Wolt.
`claim` and `excused` are history variables.

### OrderReads, MenuData and Ordered

Functions only, each with a statement of what it is for that does not follow its
order of work; the inputs are constants. Loops are folds, `Array.sort` and
`Array.filter` are `InOrder` and `Kept` of `Ordered`.

`MenuData` has `processMenuData` and the mapping to Wolt's menu, and what they are
for as `ShowsTheMenus` and `SendsTheMenu`. The tree of categories is a function to
the parent. A product of a category that is not in the tree is collected and
then not shown, as in the code; `ShowsTheMenus` speaks of the categories in the
tree.

`OrderReads` has `mapToDate` over an abstract calendar (`Ticks` instants a day,
`MonthStarts`; the history is asked for at the instants `AskedAt`, which have a
month before and one after, and orders are created at those of `OrderedAt`), the list
with its sorting, the history with its filters, pages and totals, the sales by
product. Times are stored as texts in a zone of their own and compared as texts:
`CreatedAt` is the clock they show, and `InRange` is strict at the beginning, where
the texts differ in their last characters only. The counting of
options is left out: it reads `product.option`, and the rows carry
`product.options`. The history is sorted by the order number, a text that two orders
may share (`prisma/schema.prisma:102`, and two providers number their own): how the database
puts equal ones is an input, `ties`, for each page asked for (`BreaksTies`).

## 3. Runs

| run | instance | shows |
|---|---|---|
| `instant` | 1 instant delivery order, 2 requests, every fault | `TypeOK`, `AnnouncedOnce`, `AnnouncedComplete`, `StatusOccurred`; the component implements `OrderFeed` |
| `reads` | 1 preorder, 2 requests, duplicates, fairness; bounded inputs | `PlacedIsAnnounced`, `CanceledLeavesQueue`, and `ValidatedCanceled`: webhooks take only canceled preorders off the reminder queue; `SerialReflectsWolt`: as long as the requests of an order do not overlap, its row catches up with Wolt; `RangesCover`, `ListInOrder`, `HistoryAddsUp`, `SalesAddUp`: what is read of the orders counts each once; `DevicesSeeTheMenus`, `WoltIsSentTheMenu`: nothing of a menu is lost or doubled |
| `overlap` | 1 instant order, 2 requests that may overlap, every request of a device, no fault | **violated**: `DatabaseReflectsWolt` |
| `weeks` | the ranges of `reads` | **violated**: `LastWeekReachesItsEnd` |
| `queue_faults` | 2 businesses with a user each, 1 device, 2 runs, batches of 2, every fault | `TypeOK`, `MarkedIsHandled` |
| `queue_live` | the same with batches of 1, without faults, fairness | `QueueDrains` |
| `queue_owner` | 1 user with 2 businesses | **violated**: `ClosedIsQueued` |
| `preorder_queue` | 2 preorders of which 1 changes, 2 runs, batches of 1, every fault | `TypeOK`; `ReminderKept`: a reminder is lost only to the listed causes; `RemindedOnce` |
| `gateway` | 2 devices, 3 attempts, fairness | `TypeOK`, `ReceivedIsTrue`, `ShownToAll`; `KeepsPromise`: the call implements `AckPromise` |
| `sessions` | 2 sessions of a user, 1 device, 1 business, 2 requests, 2 tokens a session | `TypeOK`, `TokenHeld`, `FollowsReported`, `OwnedOnly`, `PushesAddressed`, `GoesWhenEnded` |
| `provider_orders` | 1 of 4 orders (a preorder, an instant one, two of Foodora), 3 statuses, 2 webhooks underway, 2 handlers, every fault | `TypeOK`, `RowReflectsOrdering`, `ShownLast`, `StatusOccurred`, `AnnouncedOnce`, `ListedAsShown` |
| `menu` | 1 business with 3 venues and a provider that ends the loop, 1 edit, every failure | `TypeOK`, `SyncedAsOrdered`, `NothingStranded` |

**Bounds.** Two requests (`Procs`, `Requests` of `Sessions`, `Runs`) are enough
for every race between two handlers, and orders share no state but the pool of
requests, so one order shows what can happen to it: an instant one in `instant` and
`overlap`, a preorder in `reads`. Every bound is a constant: `Procs`, `Requests` of
`WoltOrders` (`instant` leaves out the requests that repeat a path of another
one, `reads` the courier's part; `overlap` has them all, and so have the theorems,
`SerialReflectsWoltCorrect` among them), `Devices`, `Runs`, `Batch` (10 in the code; 1 where a
batch has to be smaller than the queue, 2 in `queue_faults`, where a failure must
be able to cut a batch short), `MaxOrders`, `MaxStatuses` (three:
a first status, a change, and one that overtakes it), `MaxWebhooks`, `MaxToken`
(a token and the one that replaces it; with two refreshes at once one of them
blocks at the bound; `sessions` has one device, two take it past its time, and
the theorems are about any number), `Changing`, `Edited` and `MaxEdits` (one edit lies before,
between or after the reads and requests of a synchronisation; an edit of the
product is as one of its category). Three attempts are what every caller of a
gateway asks for. The webhooks and the statements in flight are sets, so they
arrive in any order. The theorems of section 4 have no bound.

The properties about pure functions range over all inputs of a stated size
(every instant of a month; two orders of every kind, also with one number between
them; every tree of two or three categories with two menus of two listings, so that
a listed category may be missing in the tree). They say the same in every state,
so they are looked at in the first one (`Untouched`). The theorems have them for
all inputs.

**Excuses.** Some properties hold but for causes the code has. Each cause is
recorded by a history variable at the step that brings it about, and only there
(`stale`, `late`, `cut`, `excused`, `doubled`, `unsure`, `mixed`, `moved`), so the
property says that there is no other cause, and its comment names them.

**Deadlock.** The runs allowed to deadlock are those in which a lost or failed
webhook, an order that is over or a bound leaves nothing to do.

**Symmetry** is used for safety only: over `Procs`, `Runs`, sessions of one
user, requests and two venues that are reached alike, whose members nothing
tells apart, and in `queue_faults` over the two businesses, each with its user.

**Fairness.** In `WoltOrders` the steps of each request are weakly fair: the
event loop runs every continuation and every await ends. Delivery of each
webhook is strongly fair: the process accepts every request at once, and only
`Procs`, a bound of the model, can be used up in between. Nothing is assumed of
Wolt's or a customer's choices, nor of faults. In `ActiveStatusQueue` the steps,
the listeners, the interval and the passing of time are weakly fair. In
`Gateway` the steps of the call, among them its timeout, are weakly fair, and
nothing is assumed of the devices.

### What the violated runs show

- `overlap`. Two requests, no failure: one handler fetches the order, the other
  changes it at Wolt and writes the row, and the first writes its older answer.
  Also, an update webhook that is processed before the row exists fails on it;
  the error is swallowed and answered with 2xx, so it is never sent again.
  The comment of `wolt-sync.ts:12-16` promises the latest data. `SerialReflectsWolt`
  (run `reads`, and proved) says that without such an overlap the row does catch up.
- `weeks`. `getTimeRange.ts:15` calls `startOfWeek.clone().add(6, 'days')` the "End
  of last week". It is the instant at which that week's Sunday begins (this week's
  range ends with `endOf('isoWeek')`), so once a week is over the orders of its
  Sunday are in no page and no sum of it.
- `queue_owner`. `active_status_queue.userPublicId` is unique
  (`prisma/schema.prisma:234`), but the queue holds an entry per business. The
  second business a user closes gets no entry, the error is lost in a listener,
  and the business stays closed past its duration. (With users of their own a
  late removal overtaking a new closing has the same outcome.)

### What the properties leave out because the code does it

- `RangesCover`: the property says what a range holds, no order of another day, week
  or month, and which orders of its own it leaves out (`IsLeftOut`). One kind is
  last week's Sunday, which is the run `weeks`. The other is the first instant of
  every range. `createdAt` is a text that ends in an offset
  (`provider/ordering/ordering-order-mapper.ts:59-61`), the ends of a range are texts
  that end in "Z" (`toISOString`), and they are compared as texts
  (`history.service.ts:64-67`). Where both show the same instant the order's text is
  the lesser one, so it fails `gte`: an order created at midnight, to the
  millisecond, is in the range of no day. (The model takes it that the database
  sorts a sign before a letter, as the C collation and the usual linguistic ones do.)
  The property also takes the server's clock to be UTC: with a clock ahead of UTC the
  ranges are shifted against the times they are compared with.
- `SalesAddUp`: a business with two providers of one name (two Wolt venues) is
  given that name's sales twice.
- `HistoryAddsUp`: the pages are asked for one by one and sorted by the order number
  alone. If two orders share a number and the database puts them one way for one page
  and the other way for the next, an order is shown twice and another one never. The
  property says that the pages are whole if the numbers differ or ties are broken
  alike, and that the totals are right in any case.
- `DevicesSeeTheMenus`: a product of a category that is missing in the tree is not
  shown.
- `ListInOrder`: Foodora is asked for the orders of the whole chain, and for one
  list only; a status it has no list for fails the request for every provider.
- `ListedAsShown`: the lists for "preorder" or "pick_up_completed_by_driver"
  alone ask Ordering for rejected orders, and an order delivered by a driver is on
  no list.
- `AnnouncedOnce` of `ProviderOrders` is about Ordering: a Foodora order is never
  announced.
- `WoltIsSentTheMenu`: an option of which at most two values may be chosen is sent
  as a single choice, and only the first extra of a product is sent.

## 4. Theorems

Every invariant that a passing run checks is proved as well, for all values of
the constants: those of the state machines in one module per component, those of
the pure functions in `OrderReadsProofs`. The run shows it on an
instance and keeps it honest with a mutant; the theorem says it of any number of
orders, sockets, sessions, handlers and retries, of every combination of faults
and of every value of the bounds.

| module | theorem | says |
|---|---|---|
| `WoltOrdersProofs` | `TypeCorrect` | every variable keeps its type |
| | `AnnouncedOnceCorrect` | no order is announced twice |
| | `AnnouncedCompleteCorrect` | an announced order has a row and products |
| | `StatusOccurredCorrect` | a stored status is one the order has had at Wolt, or "picked up" |
| | `ValidatedCanceledCorrect` | only canceled preorders leave the reminder queue by a webhook |
| | `SerialReflectsWoltCorrect` | when nothing fails and no two requests of one order overlap, the database reflects Wolt whenever nothing is under way, however often webhooks come |
| | `Refinement` | `Spec => FeedSpec` |
| `ProviderOrdersProofs` | `TypeCorrect` | |
| | `StatusOccurredCorrect` | a stored status is the mapping of one the order has had |
| | `AnnouncedOnceCorrect` | an order of Ordering is announced once, whatever is delivered again |
| | `RowReflectsOrderingCorrect` | its row follows Ordering, unless two synchronisations overlapped or one failed |
| | `ShownLastCorrect` | the devices have last been shown what holds, unless handlers overlapped or one failed |
| | `ListedAsShownCorrect` | an order is listed as the device was shown it |
| `ActiveStatusQueueProofs` | `TypeCorrect` | |
| | `MarkedIsHandledCorrect` | a marked entry has a run or a message that opens the business, or was abandoned |
| `PreorderQueueProofs` | `TypeCorrect` | |
| | `ReminderKeptCorrect` | no reminder is lost but for a recorded cause |
| | `RemindedOnceCorrect` | none is sent twice but for a recorded cause |
| `GatewayProofs` | `TypeCorrect` | |
| | `ReceivedIsTrueCorrect` | "received" means that a device has confirmed |
| | `ShownToAllCorrect` | who stays in the room is sent the event |
| | `Refinement` | `Spec => Promised!Safety`: a call makes at most its attempts and returns one answer |
| `SessionsProofs` | `TypeCorrect` | |
| | `TokenHeldCorrect` | a device holds the token its row verifies, unless refreshes overlapped or an answer was lost |
| | `FollowsReportedCorrect` | a session follows the businesses it last reported, unless reports overlapped or one was cut short |
| | `OwnedOnlyCorrect` | a session follows only businesses of its user |
| | `PushesAddressedCorrect` | a push always has a device to go to |
| | `GoesWhenEndedCorrect` | a session goes by its sign-out, the CMS, a report for its device, or after its device was replaced |
| `MenuTrackingProofs` | `TypeCorrect` | |
| | `SyncedAsOrderedCorrect` | a venue shows the menu that was last synchronised |
| | `NothingStrandedCorrect` | no business is left "processing" but for a recorded cause |
| `OrderReadsProofs` | `RangesOfTexts` | which texts the range of each option holds and which it leaves out, for every calendar and wherever the server is |
| | `RangesCoverCorrect` | on a server in UTC, the orders of that day, week or month and no others, all but those of its first instant and, of last week, of Sunday after its first instant |
| | `ListInOrderCorrect` | a device's list has every order asked for as often as it came, the late ones first, the others by when they are due |
| | `HistoryAddsUpCorrect` | totals, cash and card add up; the pages have each order once and by number, if numbers differ or ties are broken alike |
| | `SalesAddUpCorrect` | every product of a provider's delivered orders is counted once, with all that was sold of it and paid for it |
| | `DevicesSeeTheMenusCorrect` | a device is shown exactly what the menus list, and the categories that lead to it |
| | `WoltIsSentTheMenuCorrect` | Wolt is sent every product with its state, and nothing empty |
| | `PaymentsSplitHistory` | cash and card together are the whole history, each order once |

Each module of a state machine also has `Inductive`, `Spec => []IInv`, from which the others follow.

### Assumptions

The theorems rest on the `ASSUME`s of the component's module alone, which every
run evaluates. They say of what kind a constant is (a subset of the fault kinds, a
function from orders to types, a positive batch size) and two things more. "none"
stands for no order or no device, so it is none of them (`"none" \notin Orders`,
`"none" \notin SessionIds \union Devices`: the code has `null` there). And a
provider is of one business (`MenuTrackingAssumption`): `providerId` is unique in
`prisma/schema.prisma:72`; without it the synchronisation of a second business
would overwrite the venue of the first. `ListsAssumption`, `HistoriesAssumption`,
`SalesAssumption` and `MenusAssumption` give the inputs of the pure functions their types:
finitely many rows, ties broken in some order, at least one row a page, menus in which
every product has a category. `MenusAssumption` also has the categories numbered from
the roots down (a parent's number is less than its child's): a finite tree can
always be numbered so, and the code, which descends from the roots, sees nothing of
the numbers. `CalendarAssumption`
has the calendar begin on day 0 and go on around the instants `AskedAt`; it may be
infinite. `SerialReflectsWoltCorrect` has a
hypothesis, `Undisturbed`, that no fault but the duplication of webhooks is possible;
that the requests of one order do not overlap (`NoOverlap`) is part of the property,
and the run `overlap` shows that it is needed. There may be any number of orders and
of requests, those of different orders in between each other. `RangesCoverCorrect` has `ServerOffset = 0`,
as the property says; `RangesOfTexts` has no such hypothesis and shows what
becomes of other servers and of texts with an offset.

### The inductive invariants

None of the safety properties is inductive. Each `IInv` was checked by TLC on the
component's run before it was proved. In each module a lemma says what a step that
changes one handler, run, request, order or business leaves as it was, then there
is one lemma per action or group of actions, and the theorem combines them.

`WoltOrdersProofs`. That an order is announced once rests on three facts about
handlers: only a handler whose insert the database accepted reaches `products`
(`OneSaver`: one at most per order), it has not announced yet (`HandlerOK`), and
the row stays (`StoreOK`). That a stored status occurred rests on what each
handler carries: the answer it fetched (`snap`) is in `had`, and the status a
device asked for is in `had` from the moment Wolt granted it (`GrantedStatus`: the
endpoint of a status leads to that status). `Refinement` maps every step to
`Occur`, `Store`, `Change`, `Announce` or a stutter, using `IInv`.
`SerialReflectsWoltCorrect` needs a second invariant, `Follows`. An order
without a row has its CREATED notification pending or a request that is to save
it (`Saves`); an order with a row has the last status there, a request that is to
write it (`Mends`) or a notification pending that will have it synchronised
(`Followed`). And what a request has fetched is the last status unless such a
notification is pending (`WritesLatest`), which is where `NoOverlap` is needed:
another request of the order could write between its fetch and its write. A step of
one request leaves what is said of the others as it was, because they are about
other orders (`OthersAway`).

`ProviderOrdersProofs`. Per order: a handler at a step that needs a row has one,
and everything carried is a status the order has had (`OrderOK`); an order with a
row is announced or has exactly one handler on the way to it, one without has its
webhook or a handler before the insert (`AnnounceOK`); one synchronisation at most
is about to write and, if the order is not to be read again, it writes what holds
(`SyncOK`, for the orders that are not `stale`); the same of what is shown
(`ShowOK`, for those not `late`).

`ActiveStatusQueueProofs`. A marked entry is handled because a run that marks
entries has exactly those among its items (`WorkerOK`), and an item leaves a run
only for a write to the queue or a message that removes the entry.

`PreorderQueueProofs`. One run at most has an order in hand, and a reminder that
was sent leaves a row only to the run about to delete it (`OnceOK`, for the orders
not `doubled`); a reminder nothing has cost is where its time says: queued, about
to be marked, marked, or in the hands of a run (`KeptOK`, for those not
`excused`). Both rest on `RunOK` and `QueueOK`: what a run has was scheduled, and
an order is scheduled once.

`GatewayProofs`. The counter of attempts, the program counter and the result
determine one another (`CallOK`), an answer was given by a device (`AnswersOK`),
and who has stayed is a member that has been sent to once the event is out
(`StayedOK`).

`SessionsProofs`. A request's checks still hold when it acts on them, as far as
nobody can undo them (`RequestOK`): businesses are only added to an owner, a
device may be replaced (`moved`) but not taken away, and a session that is to be
removed has the device, has had it or has gone. A row never comes back and no
report outlives it (`RowOK`); one refresh at a time carries the token of the row
(`TokenOK`, for the sessions not `unsure`); one report at a time has emptied the
row or left it as last reported (`ReportOK`, for those not `mixed`).

`MenuTrackingProofs`. Per business: a run knows what it has read as long as the
menu is not edited (`claim`), a venue it has patched shows what it sent (`RunOK`),
the row is not left processing, and a synchronisation under way has a row.

`OrderReadsProofs` has no state to speak of. A day has begun by an instant unless
that instant is of an earlier day (`DayBegins`), for any number of instants in a day; so a
range of whole days holds the texts whose instant and the one before are both in those
days (`RangeMeans`), that is all but the first. The
months around an instant are the greatest and the least element of a set, which
exist because the naturals are well-founded (`MinFacts`, `MaxFacts`,
`MonthFacts`).

The rest of `OrderReadsProofs` is about what loops compute. The library's
induction theorems take a formula for an argument, which the provers cannot
instantiate, so induction is done with a set in the formula's place: a set of
naturals that has 0 and with each number the next one has them all (`NatInductive`,
from the least element of what is left out), and a family of sets that has {} and
with each set those of one element more has every finite one (`FiniteInductive`). On
these rest

- that a fold exists (`FoldExists`, `LeftFoldExists`): the operators of the community
  modules choose a function that satisfies a recursion, and nothing follows from it
  until one is shown to exist;
- sums (`SumIs`, `SumAdd`, `SumUnion`) and orders (`InOrderFacts`: in a strict total
  order the element with k before it is at place k + 1; `InOrderExtends`: one that
  comes last is appended), and from them `Kept` and `Count`.

Then each function has an invariant of its loop, as a predicate on the places done so
far: `Counted` (the entries have each product of those lines once, with its sums) and
`ShowsIn`, `Shows` (the products shown of a category are those listed at those places, with
their menus in order), each with a lemma that one more line or listing preserves it. The
list is the sorting alone: its places are those of what came, each once (`SortFacts`),
and the late ones, whose times are all "now", stay as they came (`LateFirst`). The
pages cut the orders found at multiples of the page's size (`PageBounds`, `PagesAscend`,
`PlacesHavePages`). A category is kept exactly if it is above a listed one
(`KeptAreAbove`), by induction from the leaves, which is what the numbering is
for.

### What the proofs found

Four attempts failed for a reason, which TLC then showed on an instance.

- `MarkedIsHandled` once named only a run about to write. With a batch larger than
  one, a run that has marked the batch is looking up the second business
  (`queue/queue.service.ts`), and that entry is handled by nothing but the rest
  of the run. The property says so now, and `queue_faults` has batches of two.
- `GoesWhenEnded` held with one device only. With two, a session is removed by a
  report that found it by the device it had a moment ago
  (`session.service.ts:408`). The history `moved` records the sessions whose device
  was replaced, and the property names that cause.
- `HistoryAddsUp` needs the numbers of the orders to differ, which nothing in the code
  sees to. How ties are broken is now an input of the model, and the property
  says when the pages are whole and what holds in any case.
- `SyncedAsOrdered` needs a venue to be of one business, which the schema
  guarantees and the module now assumes.

### Only model-checked

- What must eventually happen: `PlacedIsAnnounced`, `CanceledLeavesQueue`,
  `QueueDrains`, and the fairness half of the promise of `AckPromise`. The prover
  has no rule for fairness and no `ENABLED`.
- The three properties that are violated, of which `DatabaseReflectsWolt` is proved
  for requests that do not overlap (`SerialReflectsWolt`).

## 5. Plan

1. Action properties that follow from the invariants above: the row of an order
   never goes, a queue entry is unmarked by nothing but a new closing.
2. A run that shows how an order is lost between two pages when the database breaks a
   tie one way for the first and the other way for the second.

## 6. Not modelled

Order tracking, the CMS, Zapier and reports read and forward without state of
their own. DTO validation, the guards, the Prisma client and logging reshape or
observe data. Copying the names and addresses of businesses, connecting a
provider by hand and storing API keys are single writes nothing else races.

Code nothing calls is left out: `wolt-menu-mapper.ts` and
`foodora-menu-mapper.ts`, `syncProduct` and `syncProductOption` of the Wolt
service, opening and closing at Foodora, `queueUpdatePreorder` (reached only if a
reminder reports failure, which it never does) and the counting of options in the
statistics. The PATCH that opens or closes a Wolt venue is sent without waiting
and never read back. `openAppNotificationSending`, its count and `lastAccessTs`
are written and read by nothing but listings.
