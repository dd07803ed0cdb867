--------------------------- MODULE ProviderOrders ---------------------------
(***************************************************************************)
(* Orders of Ordering (provider "Munchi") and of Foodora: the intake of    *)
(* their webhooks (webhook/webhook.service.ts,                             *)
(* provider/ordering/ordering.service.ts, ordering-repository.ts,          *)
(* ordering-sync.ts, provider/foodora/foodora-webhook.service.ts) and the  *)
(* requests of the devices, which reach the provider and leave the         *)
(* database to the webhooks.                                               *)
(*                                                                         *)
(* A webhook of Ordering carries the order as it was; the synchronisation  *)
(* reads it anew, the devices are shown what the webhook carried.          *)
(***************************************************************************)
EXTENDS ProviderStatus, FiniteSets, Naturals

CONSTANTS
    Procs,      \* the webhooks being handled at once (a bound of the model)
    MaxOrders,  \* orders placed (a bound of the model: orders share no row)
    MaxStatuses,\* statuses an order takes (a bound of the model)
    MaxWebhooks,\* webhooks underway at once (a bound of the model)
    Drift,      \* the statuses that orders get without us
    Requests,   \* the statuses the devices ask for
    SameId,     \* the Foodora orders of a restaurant whose id at Foodora is
                \* the public id of its business
    Known,      \* the Foodora orders whose token is also the id of an order
    Faults      \* what goes wrong in this instance, of FaultKinds

FaultKinds ==
    {"api",         \* the provider or the database fails, or has no such order
     "crash",       \* the process dies and restarts
     "duplicate",   \* a webhook is delivered again
     "lose"}        \* a webhook never arrives

ASSUME ConstantsAssumption ==
    /\ "none" \notin Orders
    /\ Drift \subseteq OrderingStatuses \union FoodoraStatuses
    /\ Requests \subseteq OrderStatuses
    /\ MaxOrders \in Nat /\ MaxStatuses \in Nat /\ MaxWebhooks \in Nat
    /\ SameId \union Known \subseteq Foodora
    /\ Faults \subseteq FaultKinds

VARIABLES
    status,     \* the order's status at its provider, "absent" at first
    prepared,   \* the orders of Ordering with a prepared_in
    webhooks,   \* the notifications to be delivered
    row,        \* the Order.status column
    confirmed,  \* the preorders whose row says "Confirm" (not "Waiting")
    items,      \* the orders whose products are saved
    announced,  \* history: newOrder.notification events, by order
    shown,      \* the status last shown to the devices by order_change
    handler,    \* the webhooks being handled
    had,        \* history: the statuses the order has had
    stale,      \* history: the orders whose row something keeps behind
    late,       \* history: the orders with changes that overtook each other
    cut         \* history: the orders whose registration something cut short

providerVars == <<status, prepared, had>>
storeVars == <<row, confirmed, items>>
deviceVars == <<announced, shown>>
historyVars == <<stale, late, cut>>
vars == <<providerVars, webhooks, storeVars, deviceVars, handler, historyVars>>

----------------------------------------------------------------------------
(* Types *)

Notification == [kind : {"new", "change"}, order : Orders,
                 status : OrderingStatuses \union FoodoraStatuses]

\* status, confirm: what the last answer, or the webhook, said of the order;
\* carried: the status in the webhook.
Handler == [pc : {"idle", "fetchNew", "validate", "create", "products", "announce",
                  "find", "fetch", "write", "show"},
            order : Orders \union {"none"},
            status : OrderingStatuses \union FoodoraStatuses \union {"none"},
            confirm : BOOLEAN,
            carried : OrderingStatuses \union FoodoraStatuses \union {"none"}]

Idle == [pc |-> "idle", order |-> "none", status |-> "none",
         confirm |-> FALSE, carried |-> "none"]

Init ==
    /\ status = [o \in Orders |-> "absent"]
    /\ prepared = {} /\ webhooks = {} /\ confirmed = {} /\ items = {}
    /\ row = [o \in Orders |-> NoRow]
    /\ announced = [o \in Orders |-> 0]
    /\ shown = [o \in Orders |-> NoRow]
    /\ handler = [p \in Procs |-> Idle]
    /\ had = [o \in Orders |-> {}]
    /\ stale = {} /\ late = {} /\ cut = {}

Handles(p, pc) == handler[p].pc = pc
Busy(o) == \E p \in Procs : handler[p].order = o
Go(p, pc) == handler' = [handler EXCEPT ![p].pc = pc]
Finish(p) == handler' = [handler EXCEPT ![p] = Idle]

\* The status a handler has for the column.
Status(p) == MapStatus(handler[p].order, handler[p].status)

\* preorder.status of mapOrderToOrderResponse.
Confirms(o, s) == o \in prepared \/ s # "Preorder"

----------------------------------------------------------------------------
(* The providers *)

Notify(o, kind, s) ==
    /\ Cardinality(webhooks) < MaxWebhooks
    /\ webhooks' = webhooks \union {[kind |-> kind, order |-> o, status |-> s]}

FirstStatus(o) ==
    IF o \in Foodora THEN "order_accepted"
    ELSE IF o \in Preorders THEN "Preorder" ELSE "Pending"

Place(o) ==
    /\ status[o] = "absent"
    /\ Cardinality({q \in Orders : status[q] # "absent"}) < MaxOrders
    /\ status' = [status EXCEPT ![o] = FirstStatus(o)]
    /\ had' = [had EXCEPT ![o] = {FirstStatus(o)}]
    /\ Notify(o, "new", FirstStatus(o))
    /\ UNCHANGED <<prepared, storeVars, deviceVars, handler, historyVars>>

\* The order gets status s, once (a bound of the model).
Becomes(o, s) ==
    /\ s \notin had[o] /\ Cardinality(had[o]) < MaxStatuses
    /\ status' = [status EXCEPT ![o] = s]
    /\ had' = [had EXCEPT ![o] = @ \union {s}]
    /\ Notify(o, "change", s)

Statuses(o) == IF o \in Foodora THEN FoodoraStatuses ELSE OrderingStatuses

DriftTo(o, s) ==
    /\ status[o] # "absent"
    /\ s \in Statuses(o)
    /\ s = "Pending" => status[o] = "Preorder"
    /\ Becomes(o, s)
    /\ UNCHANGED <<prepared, storeVars, deviceVars, handler, historyVars>>

LoseWebhook(n) ==
    /\ "lose" \in Faults
    /\ n \in webhooks
    /\ webhooks' = webhooks \ {n}
    /\ stale' = stale \union {n.order}
    /\ late' = late \union {n.order}
    /\ cut' = IF n.kind = "new" THEN cut \union {n.order} ELSE cut
    /\ UNCHANGED <<providerVars, storeVars, deviceVars, handler>>

----------------------------------------------------------------------------
(* Devices *)

\* OrderingService.updateOrder: a preorder is only given its prepared_in.
UpdateOrdering(o, s) ==
    /\ o \in Munchi /\ status[o] # "absent"
    /\ prepared' = prepared \union {o}
    /\ IF s = "preorder" \/ ToOrdering(o, s) = Unmapped
       THEN /\ o \notin prepared
            /\ Notify(o, "change", status[o])
            /\ UNCHANGED <<status, had>>
       ELSE Becomes(o, ToOrdering(o, s))
    /\ UNCHANGED <<storeVars, deviceVars, handler, historyVars>>

RejectOrdering(o) ==
    /\ o \in Munchi /\ status[o] # "absent"
    /\ Becomes(o, "rejected")
    /\ UNCHANGED <<prepared, storeVars, deviceVars, handler, historyVars>>

\* FoodoraService.updateOrder rejects the order for "rejected"; "completed" marks
\* it prepared and "pending" does nothing, which leave its status.  The order is
\* looked up first, by a token that is the id of an order by chance only.
RejectFoodora(o) ==
    /\ o \in Known /\ status[o] # "absent"
    /\ Becomes(o, "order_rejected")
    /\ UNCHANGED <<prepared, storeVars, deviceVars, handler, historyVars>>

----------------------------------------------------------------------------
(* Webhooks *)

\* changeOrderNotification returns for a preorder that turned pending.
Ignores(n) == n.status = "Pending" /\ n.order \in Preorders

Step(n) ==
    IF n.order \in Foodora THEN "fetchNew"
    ELSE IF n.kind = "new" THEN "validate"
    ELSE IF Ignores(n) THEN "idle" ELSE "find"

\* A change that is handled alone and says what holds leaves nothing behind it.
Overtakes(n) ==
    \/ Busy(n.order) \/ n.status # status[n.order]
    \/ \E m \in webhooks \ {n} : m.order = n.order

Deliver(p, n) ==
    /\ Handles(p, "idle")
    /\ n \in webhooks
    /\ \/ webhooks' = webhooks \ {n}
       \/ "duplicate" \in Faults /\ UNCHANGED webhooks
    /\ handler' = [handler EXCEPT ![p] =
          IF Step(n) = "idle" THEN Idle
          ELSE [pc |-> Step(n), order |-> n.order, status |-> n.status,
                confirm |-> Confirms(n.order, n.status), carried |-> n.status]]
    /\ late' = IF Overtakes(n) \/ Step(n) # "find" THEN late \union {n.order}
               ELSE late \ {n.order}
    /\ UNCHANGED <<providerVars, storeVars, deviceVars, stale, cut>>

----------------------------------------------------------------------------
(* A new order *)

\* foodoraOrderNotification reads the order and takes the pending ones.
FetchNew(p) ==
    LET o == handler[p].order
    IN  /\ Handles(p, "fetchNew")
        /\ IF FromFoodora(status[o]) = "pending"
           THEN handler' = [handler EXCEPT ![p].pc = "validate", ![p].status = status[o]]
           ELSE Finish(p)
        /\ UNCHANGED <<providerVars, webhooks, storeVars, deviceVars, historyVars>>

\* validateOrderingOrder, validateWoltOrder
Validate(p) ==
    /\ Handles(p, "validate")
    /\ IF row[handler[p].order] = NoRow THEN Go(p, "create") ELSE Finish(p)
    /\ UNCHANGED <<providerVars, webhooks, storeVars, deviceVars, historyVars>>

\* Mutation: a second row replaces the first.
RowReplaced(o) == o \in Foodora => o \in SameId

\* Order.orderId is unique, and the business has to be there.
RowAccepted(o) == row[o] = NoRow /\ (o \in Foodora => o \in SameId)

Create(p) ==
    LET o == handler[p].order
    IN  /\ Handles(p, "create")
        /\ IF RowAccepted(o)
           THEN /\ row' = [row EXCEPT ![o] = Status(p)]
                /\ confirmed' = IF handler[p].confirm THEN confirmed \union {o} ELSE confirmed
                /\ Go(p, "products")
           ELSE Finish(p) /\ UNCHANGED <<row, confirmed>>
        /\ UNCHANGED <<providerVars, webhooks, items, deviceVars, historyVars>>

\* handleNewFoodoraOrder has no business to announce the order to and throws.
SaveProducts(p) ==
    LET o == handler[p].order
    IN  /\ Handles(p, "products")
        /\ items' = items \union {o}
        /\ IF o \in Foodora THEN Finish(p) ELSE Go(p, "announce")
        /\ UNCHANGED <<providerVars, webhooks, row, confirmed, deviceVars, historyVars>>

\* Two gateways, acknowledged or not (module Gateway), then the push.
Announce(p) ==
    /\ Handles(p, "announce")
    /\ announced' = [announced EXCEPT ![handler[p].order] = @ + 1]
    /\ Finish(p)
    /\ UNCHANGED <<providerVars, webhooks, storeVars, shown, historyVars>>

----------------------------------------------------------------------------
(* A change of an order of Ordering *)

\* syncOrderingOrder: the row is looked up; an order without one is shown all
\* the same ...
Find(p) ==
    LET o == handler[p].order
    IN  /\ Handles(p, "find")
        /\ IF row[o] = NoRow
           THEN Go(p, "show") /\ stale' = stale \union {o}
           ELSE Go(p, "fetch") /\ UNCHANGED stale
        /\ UNCHANGED <<providerVars, webhooks, storeVars, deviceVars, late, cut>>

\* Mutation: the row is given what the webhook carried.
FetchNothing(p) == handler' = [handler EXCEPT ![p].pc = "write"]

FetchOrder(p) ==
    LET s == status[handler[p].order]
    IN  handler' = [handler EXCEPT ![p].pc = "write", ![p].status = s,
                                   ![p].confirm = Confirms(handler[p].order, s)]

\* ... the order read ...
Fetch(p) ==
    LET o == handler[p].order
    IN  /\ Handles(p, "fetch")
        /\ FetchOrder(p)
        /\ stale' = IF \E q \in Procs \ {p} : Handles(q, "write") /\ handler[q].order = o
                    THEN stale \union {o} ELSE stale \ {o}
        /\ UNCHANGED <<providerVars, webhooks, storeVars, deviceVars, late, cut>>

\* Mutation: what the mapping does not know is pending.
WrittenPending(p) == IF Status(p) = Unmapped THEN "pending" ELSE Status(p)

\* Mutation: what the mapping does not know is written.
WrittenAlways(p) == Status(p)

\* A column is left alone where the mapping has nothing for it.
Written(p) == IF Status(p) = Unmapped THEN row[handler[p].order] ELSE Status(p)

\* ... and the row updated.
Write(p) ==
    LET o == handler[p].order
    IN  /\ Handles(p, "write")
        /\ row' = [row EXCEPT ![o] = Written(p)]
        /\ confirmed' = IF handler[p].confirm THEN confirmed \union {o} ELSE confirmed \ {o}
        /\ Go(p, "show")
        /\ UNCHANGED <<providerVars, webhooks, items, deviceVars, historyVars>>

\* Mutation: the devices are shown what is stored.
ShowsStored(p) == row[handler[p].order]

\* order_change carries the order of the webhook.
Shows(p) == MapStatus(handler[p].order, handler[p].carried)

Show(p) ==
    /\ Handles(p, "show")
    /\ shown' = [shown EXCEPT ![handler[p].order] = Shows(p)]
    /\ Finish(p)
    /\ UNCHANGED <<providerVars, webhooks, storeVars, announced, historyVars>>

----------------------------------------------------------------------------
(* Failures *)

\* What an order is left with when its handlers H end early.
Ends(H) ==
    LET of(pcs) == {handler[p].order : p \in {q \in H : handler[q].pc \in pcs}}
    IN  /\ stale' = stale \union of({"find", "fetch", "write"})
        /\ late' = late \union of({"find", "fetch", "write", "show"})
        /\ cut' = cut \union of({"fetchNew", "validate", "create", "products", "announce"})

\* The customer or the order cannot be read, a statement fails: the error is
\* logged, or thrown at the provider.
Fails(p) ==
    /\ "api" \in Faults
    /\ ~ Handles(p, "idle") /\ ~ Handles(p, "announce")
    /\ Ends({p})
    /\ Finish(p)
    /\ UNCHANGED <<providerVars, webhooks, storeVars, deviceVars>>

Crash ==
    /\ "crash" \in Faults
    /\ \E p \in Procs : ~ Handles(p, "idle")
    /\ Ends(Procs)
    /\ handler' = [p \in Procs |-> Idle]
    /\ UNCHANGED <<providerVars, webhooks, storeVars, deviceVars>>

----------------------------------------------------------------------------
(* The specification *)

Handle(p) ==
    \/ FetchNew(p) \/ Validate(p) \/ Create(p) \/ SaveProducts(p) \/ Announce(p)
    \/ Find(p) \/ Fetch(p) \/ Write(p) \/ Show(p)
    \/ Fails(p)

Next ==
    \/ \E o \in Orders :
          \/ Place(o) \/ RejectOrdering(o) \/ RejectFoodora(o)
          \/ \E s \in Drift : DriftTo(o, s)
          \/ \E s \in Requests : UpdateOrdering(o, s)
    \/ \E n \in webhooks : LoseWebhook(n) \/ \E p \in Procs : Deliver(p, n)
    \/ \E p \in Procs : Handle(p)
    \/ Crash

Spec == Init /\ [][Next]_vars

----------------------------------------------------------------------------
(* Properties *)

TypeOK ==
    /\ status \in [Orders -> OrderingStatuses \union FoodoraStatuses \union {"absent"}]
    /\ had \in [Orders -> SUBSET (OrderingStatuses \union FoodoraStatuses)]
    /\ \A o \in Orders : status[o] \in Statuses(o) \union {"absent"} /\ had[o] \subseteq Statuses(o)
    /\ prepared \union confirmed \union items \union stale \union late \union cut \subseteq Orders
    /\ webhooks \subseteq Notification
    /\ row \in [Orders -> OrderStatuses \union {NoRow}]
    /\ shown \in [Orders -> OrderStatuses \union {NoRow, Unmapped}]
    /\ announced \in [Orders -> Nat]
    /\ handler \in [Procs -> Handler]

Quiet(o) == ~ Busy(o) /\ \A n \in webhooks : n.order # o

\* Once every webhook of an order of Ordering is handled its row has the status
\* and the preorder status Ordering has, however the webhooks were reordered or
\* repeated: unless the mapping knows no such status or the preorder has just
\* turned pending, which the code ignores, and unless a webhook was lost, came
\* before the row or failed, or two synchronisations crossed
\* (changeOrderNotification, syncOrderingOrder).
RowReflectsOrdering ==
    \A o \in Munchi \ stale :
        Quiet(o) /\ row[o] # NoRow /\ FromOrdering(status[o]) # Unmapped
                 /\ ~ (o \in Preorders /\ status[o] = "Pending")
            => /\ row[o] = FromOrdering(status[o])
               /\ o \in Preorders => (o \in confirmed <=> Confirms(o, status[o]))

\* The devices were last shown the status the order has, unless its changes
\* overlapped or one was lost (changeOrderNotification shows what the webhook
\* carried, after the synchronisation, a provider call and two statements).
ShownLast ==
    \A o \in Munchi \ late :
        Quiet(o) /\ shown[o] # NoRow => shown[o] = FromOrdering(status[o])

\* A row only ever has statuses its order has had.
StatusOccurred ==
    \A o \in Orders : row[o] # NoRow => row[o] \in {MapStatus(o, s) : s \in had[o]}

\* Every order of Ordering is announced once its webhook is handled, and once
\* only, with its products: unless its registration was cut short, which no
\* repetition of the webhook makes good (newOrderNotification).
AnnouncedOnce ==
    \A o \in Munchi :
        /\ announced[o] <= 1
        /\ announced[o] = 1 => row[o] # NoRow /\ o \in items
        /\ status[o] # "absent" /\ Quiet(o) /\ o \notin cut => announced[o] = 1

\* A device that lists the orders with the status it is shown for one of them
\* gets that one (the two halves of mapOrderingStatusToOrderStatus), for the
\* statuses an order is worked on in.
ListedAsShown ==
    \A o \in Munchi :
        FromOrdering(status[o]) \in {"pending", "in_progress", "driver_found", "completed", "rejected"}
            => status[o] \in AsksFor({FromOrdering(status[o])})
=============================================================================
