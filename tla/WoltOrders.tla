----------------------------- MODULE WoltOrders -----------------------------
(***************************************************************************)
(* Orders of the Wolt provider: the intake of webhooks                     *)
(* (webhook/webhook.service.ts, provider/wolt/wolt-webhook.ts,             *)
(* wolt-repository.ts, wolt-sync.ts) and the requests of the merchant's    *)
(* devices (provider/wolt/wolt.service.ts), running concurrently in one    *)
(* Node process over one database.                                         *)
(*                                                                         *)
(* A request is a handler; every await of the code that reaches Wolt or    *)
(* the database ends a step, so handlers interleave exactly where the      *)
(* event loop lets them.  Wolt itself is an external state machine.        *)
(***************************************************************************)
EXTENDS WoltStatus, Naturals

CONSTANTS
    Procs,      \* the requests in progress at once (a bound of the model)
    Delivery,   \* the orders with delivery.type "homedelivery"
    Requests,   \* the order statuses that devices ask for
    Faults      \* what goes wrong in this instance, of FaultKinds

FaultKinds ==
    {"api",         \* a call of the Wolt API fails, or its answer is lost
     "db",          \* a database statement fails
     "crash",       \* the process dies and restarts
     "duplicate",   \* Wolt delivers a webhook again
     "lose",        \* a webhook never arrives
     "eta",         \* Wolt has no pickup_eta for a homedelivery order yet
     "refund"}      \* Wolt refunds a delivered order

ASSUME ConstantsAssumption ==
    /\ Delivery \subseteq Orders
    /\ Requests \subseteq OrderStatuses
    /\ Faults \subseteq FaultKinds

VARIABLES
    wolt,       \* the order's status at Wolt, "absent" before it is placed
    had,        \* history: every status the order has had at Wolt
    webhooks,   \* the notifications Wolt has still to deliver
    db,         \* the Order.status column, NoRow without a row
    items,      \* the orders whose products are saved
    announced,  \* history: newOrder.notification events, by order
    validated,  \* the orders a webhook emitted preorderQueue.validate for
    handler     \* the requests in progress

platformVars == <<wolt, had, webhooks>>
storeVars == <<db, items, announced, validated>>
vars == <<platformVars, storeVars, handler>>

----------------------------------------------------------------------------
(* Types *)

HookStatuses == {"CREATED", "PRODUCTION", "DELIVERED", "CANCELED"}

\* WoltOrderNotification.order.
Notification == [order : Orders, status : HookStatuses]

PCs == {"idle", "process", "validate", "create", "products", "announce",
        "sync", "syncFind", "syncWrite", "notify",
        "read", "put", "eta", "store"}

Kinds == {"none", "notification", "update", "reject"}

\* pc: the step to take; kind, order, status: what was asked; snap: the order
\* status in the last answer of Wolt; row: the status column as it was read;
\* after: the step that follows a syncWoltOrder.  A value that is not used any
\* more is "none" again.
Handler ==
    [pc : PCs, kind : Kinds, order : Orders \union {"none"},
     status : HookStatuses \union OrderStatuses \union {"none"},
     snap : WoltStatuses \union {"none"},
     row : OrderStatuses \union {"none"},
     after : {"none", "idle", "notify", "store"}]

Idle == [pc |-> "idle", kind |-> "none", order |-> "none",
         status |-> "none", snap |-> "none", row |-> "none",
         after |-> "none"]

Init ==
    /\ wolt = [o \in Orders |-> "absent"]
    /\ had = [o \in Orders |-> {}]
    /\ webhooks = {}
    /\ db = [o \in Orders |-> NoRow]
    /\ items = {}
    /\ announced = [o \in Orders |-> 0]
    /\ validated = {}
    /\ handler = [p \in Procs |-> Idle]

----------------------------------------------------------------------------
(* Wolt *)

\* The order gets status s at Wolt, which queues the notifications hooks.
Becomes(o, s, hooks) ==
    /\ wolt' = [wolt EXCEPT ![o] = s]
    /\ had' = [had EXCEPT ![o] = @ \union {s}]
    /\ webhooks' = webhooks \union [order : {o}, status : hooks]

PlaceOrder(o) ==
    /\ wolt[o] = "absent"
    /\ Becomes(o, "received", {"CREATED"})
    /\ UNCHANGED <<storeVars, handler>>

CourierDelivers(o) ==
    /\ wolt[o] = "ready"
    /\ Becomes(o, "delivered", {"DELIVERED"})
    /\ UNCHANGED <<storeVars, handler>>

WoltCancels(o) ==
    /\ wolt[o] \in {"received", "production", "ready"}
    /\ Becomes(o, "rejected", {"CANCELED"})
    /\ UNCHANGED <<storeVars, handler>>

WoltRefunds(o) ==
    /\ "refund" \in Faults
    /\ wolt[o] = "delivered"
    /\ Becomes(o, "refunded", {})
    /\ UNCHANGED <<storeVars, handler>>

LoseWebhook(n) ==
    /\ "lose" \in Faults
    /\ n \in webhooks
    /\ webhooks' = webhooks \ {n}
    /\ UNCHANGED <<wolt, had, storeVars, handler>>

\* What Wolt answers PUT /orders/<id>/<endpoint> with: the requests it grants
\* in the order's present status, and the status they lead to.
Grants(o, endpoint) ==
    \/ endpoint = "confirm-preorder" /\ wolt[o] = "received" /\ OrderType[o] = "preorder"
    \/ endpoint = "accept" /\ wolt[o] = "received"
    \/ endpoint = "ready" /\ wolt[o] = "production"
    \/ endpoint = "delivered" /\ wolt[o] = "ready"
    \/ endpoint = "reject" /\ wolt[o] \in {"received", "production"}

Target(endpoint) ==
    CASE endpoint = "confirm-preorder" -> "received"
      [] endpoint = "accept"           -> "production"
      [] endpoint = "ready"            -> "ready"
      [] endpoint = "delivered"        -> "delivered"
      [] endpoint = "reject"           -> "rejected"

\* The notifications that follow a granted request.
Hooks(endpoint) ==
    CASE endpoint = "accept"    -> {"PRODUCTION"}
      [] endpoint = "delivered" -> {"DELIVERED"}
      [] endpoint = "reject"    -> {"CANCELED"}
      [] OTHER                  -> {}

----------------------------------------------------------------------------
(* The life of a request *)

At(p, step) == handler[p].pc = step

Goto(p, step) == handler' = [handler EXCEPT ![p].pc = step]

\* The request ends: it returns, or an error ends it.  The webhook endpoint
\* answers 2xx in both cases, so Wolt never sends the notification again.
Finish(p) == handler' = [handler EXCEPT ![p] = Idle]

Start(p, step, kind, o, status) ==
    /\ At(p, "idle")
    /\ handler' = [handler EXCEPT ![p] =
                    [Idle EXCEPT !.pc = step, !.kind = kind, !.order = o,
                                 !.status = status]]

DeliverWebhook(p, n) ==
    /\ n \in webhooks
    /\ Start(p, "process", "notification", n.order, n.status)
    /\ \/ webhooks' = webhooks \ {n}
       \/ "duplicate" \in Faults /\ UNCHANGED webhooks
    /\ UNCHANGED <<wolt, had, storeVars>>

\* A device can only name an order it was shown: by the id of its row.
RequestUpdate(p, o, status) ==
    /\ db[o] # NoRow
    /\ Start(p, "read", "update", o, status)
    /\ UNCHANGED <<platformVars, storeVars>>

RequestReject(p, o) ==
    /\ db[o] # NoRow
    /\ Start(p, "read", "reject", o, "rejected")
    /\ UNCHANGED <<platformVars, storeVars>>

----------------------------------------------------------------------------
(* A webhook: processWoltOrder fetches the order, then the CREATED         *)
(* notification saves and announces it, every other one synchronises it.   *)

ProcessWoltOrder(p) ==
    /\ At(p, "process")
    /\ LET o == handler[p].order IN
       handler' = [handler EXCEPT
         ![p].snap = wolt[o],
         ![p].pc = IF handler[p].status = "CREATED" THEN "validate" ELSE "sync",
         ![p].after = IF handler[p].status = "CREATED" THEN "none" ELSE "notify"]
    /\ UNCHANGED <<platformVars, storeVars>>

\* updatePickupTime asks Wolt again with its arguments swapped, gets no order
\* and fails on it: the notification is not processed.
PickupEtaMissing(p) ==
    /\ "eta" \in Faults
    /\ At(p, "process")
    /\ handler[p].order \in Delivery
    /\ Finish(p)
    /\ UNCHANGED <<platformVars, storeVars>>

\* Mutation: the check is the wrong way round.
ValidateInverted(p) ==
    /\ At(p, "validate")
    /\ IF db[handler[p].order] = NoRow THEN Finish(p) ELSE Goto(p, "create")
    /\ UNCHANGED <<platformVars, storeVars>>

ValidateWoltOrder(p) ==
    /\ At(p, "validate")
    /\ IF db[handler[p].order] # NoRow THEN Finish(p) ELSE Goto(p, "create")
    /\ UNCHANGED <<platformVars, storeVars>>

\* Mutation: orderId is not unique.
RowNotUnique(o, status) == status # Unmapped

\* Order.orderId is unique and Order.status is required: the database refuses
\* a second row of the order, and a row without a status.
RowAccepted(o, status) == db[o] = NoRow /\ status # Unmapped

SaveWoltOrder(p) ==
    /\ At(p, "create")
    /\ LET o == handler[p].order
           status == MapStatus(o, handler[p].snap)
       IN  IF RowAccepted(o, status)
           THEN /\ db' = [db EXCEPT ![o] = status]
                /\ handler' = [handler EXCEPT ![p].pc = "products", ![p].snap = "none"]
           ELSE Finish(p) /\ UNCHANGED db
    /\ UNCHANGED <<platformVars, items, announced, validated>>

\* Mutation: the products are saved without waiting for them.
SaveProductsUnawaited(p) ==
    /\ At(p, "products")
    /\ Goto(p, "announce")
    /\ UNCHANGED <<platformVars, storeVars>>

SaveProducts(p) ==
    /\ At(p, "products")
    /\ items' = items \union {handler[p].order}
    /\ Goto(p, "announce")
    /\ UNCHANGED <<platformVars, db, announced, validated>>

\* Both gateways answer, acknowledged or not, before the event is emitted.
AnnounceNewOrder(p) ==
    /\ At(p, "announce")
    /\ announced' = [announced EXCEPT ![handler[p].order] = @ + 1]
    /\ Finish(p)
    /\ UNCHANGED <<platformVars, db, items, validated>>

\* Mutations: every change of a preorder counts; the type test is inverted.
ChangesPreorder(p) == OrderType[handler[p].order] = "preorder"
CancelsInstant(p) ==
    handler[p].status = "CANCELED" /\ OrderType[handler[p].order] = "instant"

\* A canceled preorder leaves the reminder queue.
Cancels(p) ==
    handler[p].status = "CANCELED" /\ OrderType[handler[p].order] = "preorder"

NotifyChange(p) ==
    /\ At(p, "notify")
    /\ validated' = validated \union
                      (IF Cancels(p) THEN {handler[p].order} ELSE {})
    /\ Finish(p)
    /\ UNCHANGED <<platformVars, db, items, announced>>

----------------------------------------------------------------------------
(* syncWoltOrder: fetch, find the row, write what was fetched.             *)

SyncFetch(p) ==
    /\ At(p, "sync")
    /\ handler' = [handler EXCEPT ![p].snap = wolt[handler[p].order],
                                  ![p].pc = "syncFind"]
    /\ UNCHANGED <<platformVars, storeVars>>

\* What the caller does once the row is synchronised: a refused update throws.
Return(p) ==
    IF handler[p].after = "idle" THEN Finish(p)
    ELSE handler' = [handler EXCEPT ![p].pc = handler[p].after, ![p].snap = "none",
                                    ![p].after = "none"]

\* Reading the status of a row that does not exist throws.
SyncFind(p) ==
    /\ At(p, "syncFind")
    /\ LET o == handler[p].order IN
       IF db[o] = NoRow THEN Finish(p)
       ELSE IF db[o] = PickedUp /\ MapStatus(o, handler[p].snap) = "completed"
       THEN Return(p)
       ELSE Goto(p, "syncWrite")
    /\ UNCHANGED <<platformVars, storeVars>>

\* Mutation: what was fetched is written, mapped or not.
SyncWriteUndefined(p) ==
    /\ At(p, "syncWrite")
    /\ db' = [db EXCEPT ![handler[p].order] = MapStatus(handler[p].order, handler[p].snap)]
    /\ Return(p)
    /\ UNCHANGED <<platformVars, items, announced, validated>>

\* A column whose new value is undefined keeps its value.
SyncWrite(p) ==
    /\ At(p, "syncWrite")
    /\ LET o == handler[p].order
           status == MapStatus(o, handler[p].snap)
       IN  db' = [db EXCEPT ![o] = IF status = Unmapped THEN @ ELSE status]
    /\ Return(p)
    /\ UNCHANGED <<platformVars, items, announced, validated>>

----------------------------------------------------------------------------
(* A device's request: read the row, ask Wolt, write the row.              *)

ReadOrder(p) ==
    /\ At(p, "read")
    /\ LET status == db[handler[p].order]
           next == IF handler[p].status = PickedUp THEN "store" ELSE "put"
       IN  IF handler[p].kind = "update" /\ status = "delivered"
           THEN Finish(p)
           ELSE handler' = [handler EXCEPT ![p].row = IF next = "put" THEN status ELSE "none",
                                           ![p].pc = next]
    /\ UNCHANGED <<platformVars, storeVars>>

\* generateWoltUpdateEndPoint, and rejectOrder's own endpoint.
Endpoint(status, row) ==
    CASE status = "preorder"    -> "confirm-preorder"
      [] status = "in_progress" -> "accept"
      [] status = "completed" /\ row # "completed" -> "ready"
      [] status = "delivered"   -> "delivered"
      [] status = "rejected"    -> "reject"
      [] OTHER                  -> ""

\* The new pickup time is awaited when a pending delivery order was updated.
AwaitsEta(h) ==
    h.kind = "update" /\ h.order \in Delivery /\ h.row = "pending"

\* Wolt grants the request, and its answer arrives.
PutGranted(p) ==
    /\ At(p, "put")
    /\ LET h == handler[p]
           endpoint == Endpoint(h.status, h.row)
       IN  /\ Grants(h.order, endpoint)
           /\ Becomes(h.order, Target(endpoint), Hooks(endpoint))
           /\ handler' = [handler EXCEPT
                ![p].pc = IF AwaitsEta(h) THEN "eta" ELSE "store", ![p].row = "none"]
    /\ UNCHANGED storeVars

\* Mutation: the error of the request is not thrown again after the sync.
SyncAndGoOn(p) ==
    handler' = [handler EXCEPT ![p].pc = "sync", ![p].row = "none", ![p].after = "store"]

\* The request fails in the caller's eyes: the row is synchronised, and then
\* the request ends in an error.
SyncAndThrow(p) ==
    handler' = [handler EXCEPT ![p].pc = "sync", ![p].row = "none", ![p].after = "idle"]

PutRefused(p) ==
    /\ At(p, "put")
    /\ ~ Grants(handler[p].order, Endpoint(handler[p].status, handler[p].row))
    /\ SyncAndThrow(p)
    /\ UNCHANGED <<platformVars, storeVars>>

\* The request or its answer is lost: Wolt may have granted it.
PutFails(p) ==
    /\ "api" \in Faults
    /\ At(p, "put")
    /\ LET h == handler[p]
           endpoint == Endpoint(h.status, h.row)
       IN  \/ UNCHANGED platformVars
           \/ /\ Grants(h.order, endpoint)
              /\ Becomes(h.order, Target(endpoint), Hooks(endpoint))
    /\ SyncAndThrow(p)
    /\ UNCHANGED storeVars

\* syncPickupTime compares one fetched pickup time with the row's, then
\* synchronises the row if they differ.
SyncPickupTime(p) ==
    /\ At(p, "eta")
    /\ \/ handler' = [handler EXCEPT ![p].pc = "sync", ![p].after = "store"]
       \/ Goto(p, "store")
    /\ UNCHANGED <<platformVars, storeVars>>

\* updateOrderInDatabase, and the last statement of rejectOrder.
StoreStatus(p) ==
    /\ At(p, "store")
    /\ db' = [db EXCEPT ![handler[p].order] = handler[p].status]
    /\ Finish(p)
    /\ UNCHANGED <<platformVars, items, announced, validated>>

----------------------------------------------------------------------------
(* Failures *)

\* A GET of the order fails: getOrderById returns undefined, and its caller
\* throws on it.  (The error is also rejected unobserved, handleWoltError not
\* being awaited: outside production, where Sentry observes it, that ends the
\* process, which is Crash.)
FetchFails(p) ==
    /\ "api" \in Faults
    /\ handler[p].pc \in {"process", "sync", "eta"}
    /\ Finish(p)
    /\ UNCHANGED <<platformVars, storeVars>>

StatementFails(p) ==
    /\ "db" \in Faults
    /\ handler[p].pc \in {"process", "validate", "create", "products", "sync",
                          "syncFind", "syncWrite", "read", "eta", "store"}
    /\ Finish(p)
    /\ UNCHANGED <<platformVars, storeVars>>

\* No request survives a restart; the database does.
Crash ==
    /\ "crash" \in Faults
    /\ \E p \in Procs : ~ At(p, "idle")
    /\ handler' = [p \in Procs |-> Idle]
    /\ UNCHANGED <<platformVars, storeVars>>

----------------------------------------------------------------------------
(* The specification *)

Platform(o) ==
    PlaceOrder(o) \/ CourierDelivers(o) \/ WoltCancels(o) \/ WoltRefunds(o)

WebhookStep(p) ==
    \/ ProcessWoltOrder(p) \/ PickupEtaMissing(p) \/ ValidateWoltOrder(p)
    \/ SaveWoltOrder(p) \/ SaveProducts(p) \/ AnnounceNewOrder(p) \/ NotifyChange(p)

SyncStep(p) == SyncFetch(p) \/ SyncFind(p) \/ SyncWrite(p)

DeviceStep(p) ==
    \/ ReadOrder(p) \/ PutGranted(p) \/ PutRefused(p) \/ PutFails(p)
    \/ SyncPickupTime(p) \/ StoreStatus(p)

HandlerStep(p) ==
    WebhookStep(p) \/ SyncStep(p) \/ DeviceStep(p) \/ FetchFails(p) \/ StatementFails(p)

Request(p, o) ==
    RequestReject(p, o) \/ \E status \in Requests : RequestUpdate(p, o, status)

Next ==
    \/ \E o \in Orders : Platform(o)
    \/ \E n \in webhooks : LoseWebhook(n) \/ \E p \in Procs : DeliverWebhook(p, n)
    \/ \E p \in Procs : HandlerStep(p) \/ \E o \in Orders : Request(p, o)
    \/ Crash

Spec == Init /\ [][Next]_vars

\* The process runs every request to its end, Wolt delivers what it queues,
\* and a placed order exists.  DeliverWebhook gets strong fairness because the
\* program accepts every request at once: Procs bounds the model, not the code.
FairSpec ==
    /\ Spec
    /\ \A p \in Procs :
          /\ WF_vars(WebhookStep(p))
          /\ WF_vars(SyncStep(p))
          /\ WF_vars(DeviceStep(p))
    /\ \A n \in Notification : SF_vars(\E p \in Procs : DeliverWebhook(p, n))

----------------------------------------------------------------------------
(* Properties *)

TypeOK ==
    /\ wolt \in [Orders -> WoltStatuses \union {"absent"}]
    /\ had \in [Orders -> SUBSET WoltStatuses]
    /\ webhooks \subseteq Notification
    /\ db \in [Orders -> OrderStatuses \union {NoRow}]
    /\ items \subseteq Orders
    /\ announced \in [Orders -> Nat]
    /\ validated \subseteq Orders
    /\ handler \in [Procs -> Handler]

\* However often CREATED is delivered, and however its handlers interleave, an
\* order is announced at most once (validateWoltOrder and the unique orderId).
AnnouncedOnce == \A o \in Orders : announced[o] <= 1

\* An announced order can be shown in full: its row and its products were
\* saved before (handleNewWoltOrder awaits saveWoltOrder).
AnnouncedComplete ==
    \A o \in Orders : announced[o] > 0 => db[o] # NoRow /\ o \in items

\* The database never shows a status the order has not had at Wolt, but the
\* one that Wolt does not know: a refused or failed request leaves no trace.
StatusOccurred ==
    \A o \in Orders :
        db[o] \in {NoRow, PickedUp} \union {MapStatus(o, s) : s \in had[o]}

\* Only a preorder that Wolt has canceled is taken off the reminder queue.
ValidatedCanceled ==
    \A o \in validated : OrderType[o] = "preorder" /\ "rejected" \in had[o]

\* Nothing is in flight.
Quiet == webhooks = {} /\ \A p \in Procs : At(p, "idle")

\* With nothing in flight, a placed order has a row and the row shows the
\* order's status at Wolt (wolt-sync.ts: the synchronisation "ensures that our
\* local database reflects the latest data"), "picked up" apart.
DatabaseReflectsWolt ==
    Quiet => \A o \in Orders :
        wolt[o] # "absent" => db[o] \in {MapStatus(o, wolt[o]), PickedUp}

\* No two requests of one order are in progress at once.
NoOverlap ==
    \A p, q \in Procs :
        (~ At(p, "idle") /\ ~ At(q, "idle") /\ handler[p].order = handler[q].order) => p = q

\* When nothing fails and the requests of an order come one after another, the row of every
\* order shows its status at Wolt once nothing is in flight, whatever the order of its webhooks
\* and however often they come: only an overlap leaves it behind (wolt-sync.ts syncWoltOrder,
\* wolt.service.ts updateOrder).
SerialReflectsWolt == []NoOverlap => []DatabaseReflectsWolt

\* Every placed order is announced, whatever interleaves with its webhook.
PlacedIsAnnounced ==
    \A o \in Orders : wolt[o] # "absent" ~> announced[o] = 1

\* The cancellation of a preorder that has a row reaches the reminder queue.
CanceledLeavesQueue ==
    \A o \in Orders :
        (/\ OrderType[o] = "preorder" /\ db[o] # NoRow
         /\ [order |-> o, status |-> "CANCELED"] \in webhooks) ~> o \in validated

----------------------------------------------------------------------------
(* The inductive invariant behind the safety properties *)

\* A status the order has had at Wolt, or the merchant's own.
Truthful(o) == ({MapStatus(o, s) : s \in had[o]} \ {Unmapped}) \union {PickedUp}

PlatformOK ==
    /\ \A o \in Orders : wolt[o] # "absent" => wolt[o] \in had[o]
    /\ \A n \in webhooks :
          wolt[n.order] # "absent" /\ (n.status = "CANCELED" => "rejected" \in had[n.order])

StoreOK ==
    /\ \A o \in Orders : db[o] # NoRow => wolt[o] # "absent" /\ db[o] \in Truthful(o)
    /\ AnnouncedOnce
    /\ AnnouncedComplete
    /\ ValidatedCanceled

\* What a request knows at each of its steps.
HandlerOK(p) ==
    LET h == handler[p] IN
    /\ IF h.pc = "idle" THEN h.after = "none"
       ELSE h.order \in Orders /\ wolt[h.order] # "absent"
    /\ h.pc \in {"validate", "create", "products", "announce"} => h.kind = "notification"
    /\ h.pc \in {"process", "notify"} \/ h.after = "notify" =>
          (h.status = "CANCELED" => "rejected" \in had[h.order])
    /\ h.pc \in {"validate", "create", "syncFind", "syncWrite"} => h.snap \in had[h.order]
    /\ h.pc \in {"sync", "syncFind", "syncWrite"} => h.after \in {"idle", "notify", "store"}
    /\ h.pc \in {"products", "announce"} => announced[h.order] = 0
    /\ h.pc = "announce" => h.order \in items
    /\ h.pc \in {"products", "announce", "syncWrite", "read", "put", "eta", "store"}
          \/ h.after = "store" => db[h.order] # NoRow
    /\ h.pc \in {"read", "put"} => h.status \in OrderStatuses
    /\ h.pc \in {"eta", "store"} \/ h.after = "store" => h.status \in Truthful(h.order)

\* Of the handlers of one order's CREATED, one alone gets to save it.
OneSaver ==
    \A p, q \in Procs :
        (/\ handler[p].pc \in {"products", "announce"}
         /\ handler[q].pc \in {"products", "announce"}
         /\ handler[p].order = handler[q].order) => p = q

IInv == TypeOK /\ PlatformOK /\ StoreOK /\ OneSaver /\ \A p \in Procs : HandlerOK(p)

----------------------------------------------------------------------------
(* The abstract specification *)

\* What the intake promises (OrderFeed): saved once, announced once, and only
\* truthful statuses in between.
Feed == INSTANCE OrderFeed
FeedSpec == Feed!FeedSpec
=============================================================================
