-------------------------- MODULE WoltOrdersProofs --------------------------
(***************************************************************************)
(* Proofs about WoltOrders, for every set of orders, every number of       *)
(* concurrent requests and every combination of faults: the inductive      *)
(* invariant IInv, the safety properties it implies, and the refinement of *)
(* OrderFeed.  Then, for requests that do not overlap and without faults:  *)
(* the database reflects Wolt.                                             *)
(***************************************************************************)
EXTENDS WoltOrders, TLAPS

(***************************************************************************)
(* Facts about the status mapping.                                         *)
(***************************************************************************)

\* The mapping yields a value of the column or nothing.
LEMMA MapStatusType ==
    ASSUME NEW o \in Orders, NEW s \in WoltStatuses
    PROVE  MapStatus(o, s) \in OrderStatuses \union {Unmapped}
BY OrderTypeAssumption DEF MapStatus, OrderStatuses, WoltStatuses, Unmapped

\* A granted request leads to the status that was asked for, and it has its
\* cancellation announced only if it is one.
LEMMA GrantedStatus ==
    ASSUME NEW o \in Orders, NEW status \in OrderStatuses,
           NEW row \in OrderStatuses \union {"none"},
           Grants(o, Endpoint(status, row))
    PROVE  /\ Target(Endpoint(status, row)) \in WoltStatuses
           /\ MapStatus(o, Target(Endpoint(status, row))) = status
           /\ Hooks(Endpoint(status, row)) \subseteq HookStatuses
           /\ "CANCELED" \in Hooks(Endpoint(status, row)) =>
                Target(Endpoint(status, row)) = "rejected"
<1> DEFINE e == Endpoint(status, row)
<1>1. CASE status = "preorder"
  <2>1. e = "confirm-preorder"
    BY <1>1 DEF Endpoint
  <2>2. Target(e) = "received" /\ OrderType[o] = "preorder" /\ Hooks(e) = {}
    BY <2>1 DEF Target, Hooks, Grants
  <2>. QED  BY <1>1, <2>1, <2>2 DEF MapStatus, WoltStatuses, HookStatuses
<1>2. CASE status = "in_progress"
  <2>1. e = "accept"
    BY <1>2 DEF Endpoint
  <2>2. Target(e) = "production" /\ Hooks(e) = {"PRODUCTION"}
    BY <2>1 DEF Target, Hooks
  <2>. QED  BY <1>2, <2>1, <2>2 DEF MapStatus, WoltStatuses, HookStatuses
<1>3. CASE status = "completed" /\ row # "completed"
  <2>1. e = "ready"
    BY <1>3 DEF Endpoint
  <2>2. Target(e) = "ready" /\ Hooks(e) = {}
    BY <2>1 DEF Target, Hooks
  <2>. QED  BY <1>3, <2>1, <2>2 DEF MapStatus, WoltStatuses, HookStatuses
<1>4. CASE status = "delivered"
  <2>1. e = "delivered"
    BY <1>4 DEF Endpoint
  <2>2. Target(e) = "delivered" /\ Hooks(e) = {"DELIVERED"}
    BY <2>1 DEF Target, Hooks
  <2>. QED  BY <1>4, <2>1, <2>2 DEF MapStatus, WoltStatuses, HookStatuses
<1>5. CASE status = "rejected"
  <2>1. e = "reject"
    BY <1>5 DEF Endpoint
  <2>2. Target(e) = "rejected" /\ Hooks(e) = {"CANCELED"}
    BY <2>1 DEF Target, Hooks
  <2>. QED  BY <1>5, <2>1, <2>2 DEF MapStatus, WoltStatuses, HookStatuses
<1>6. CASE status \notin {"preorder", "in_progress", "delivered", "rejected"}
             /\ ~ (status = "completed" /\ row # "completed")
  <2>1. e = ""
    BY <1>6 DEF Endpoint
  <2>. QED  BY <2>1 DEF Grants
<1>. QED  BY <1>1, <1>2, <1>3, <1>4, <1>5, <1>6

(***************************************************************************)
(* What a step has to show.  Facts only accumulate: an order stays placed, *)
(* its past stays, a row stays.  So a step leaves the knowledge of the     *)
(* handlers it does not run intact.                                        *)
(***************************************************************************)

Accumulates ==
    \A o \in Orders :
        /\ wolt[o] # "absent" => wolt'[o] # "absent"
        /\ had[o] \subseteq had'[o]
        /\ db[o] # NoRow => db'[o] # NoRow
        /\ o \in items => o \in items'

\* The step runs a request of process p alone.
RunsOnly(p) ==
    /\ handler' \in [Procs -> Handler]
    /\ \A q \in Procs \ {p} : handler'[q] = handler[q]

LEMMA OtherHandlers ==
    ASSUME IInv, Accumulates, NEW q \in Procs, handler'[q] = handler[q],
           handler[q].pc \in {"products", "announce"} =>
              announced'[handler[q].order] = announced[handler[q].order]
    PROVE  HandlerOK(q)'
<1>1. handler[q] \in Handler /\ HandlerOK(q)
  BY DEF IInv, TypeOK
<1>2. CASE handler[q].pc = "idle"
  BY <1>1, <1>2 DEF HandlerOK
<1>3. CASE handler[q].pc # "idle"
  <2>1. handler[q].order \in Orders
    BY <1>1, <1>3 DEF HandlerOK
  <2>2. Truthful(handler[q].order) \subseteq Truthful(handler[q].order)'
    BY <2>1 DEF Accumulates, Truthful
  <2>. QED  BY <1>1, <1>3, <2>1, <2>2 DEF HandlerOK, Accumulates
<1>. QED  BY <1>2, <1>3

\* A step that changes nothing but its handler.
LEMMA LocalStep ==
    ASSUME IInv, NEW p \in Procs, RunsOnly(p),
           UNCHANGED <<platformVars, storeVars>>,
           handler'[p].pc \notin {"products", "announce"},
           HandlerOK(p)'
    PROVE  IInv'
<1> USE DEF platformVars, storeVars
<1>1. TypeOK' /\ PlatformOK' /\ StoreOK'
  BY DEF IInv, RunsOnly, TypeOK, PlatformOK, StoreOK, AnnouncedOnce, AnnouncedComplete,
         ValidatedCanceled, Truthful
<1>2. OneSaver'
  BY DEF IInv, RunsOnly, OneSaver
<1>3. ASSUME NEW q \in Procs PROVE HandlerOK(q)'
  BY OtherHandlers DEF RunsOnly, Accumulates
<1>. QED  BY <1>1, <1>2, <1>3 DEF IInv

(***************************************************************************)
(* The steps of Wolt.                                                      *)
(***************************************************************************)

\* An order of status s with its notifications: what every step of Wolt does.
LEMMA BecomesStep ==
    ASSUME IInv, NEW o \in Orders, NEW s \in WoltStatuses, NEW hooks \in SUBSET HookStatuses,
           Becomes(o, s, hooks), "CANCELED" \in hooks => s = "rejected"
    PROVE  /\ wolt' \in [Orders -> WoltStatuses \union {"absent"}]
           /\ had' \in [Orders -> SUBSET WoltStatuses]
           /\ webhooks' \subseteq Notification
           /\ s \in had'[o]
           /\ wolt'[o] # "absent"
           /\ \A x \in Orders : had[x] \subseteq had'[x]
           /\ \A x \in Orders : wolt[x] # "absent" => wolt'[x] # "absent"
           /\ PlatformOK'
<1> USE DEF IInv, TypeOK, Becomes
<1>1. /\ wolt' \in [Orders -> WoltStatuses \union {"absent"}]
      /\ had' \in [Orders -> SUBSET WoltStatuses]
  OBVIOUS
<1>2. webhooks' \subseteq Notification
  BY DEF Notification
<1>3. s \in had'[o] /\ wolt'[o] = s /\ s # "absent"
  BY DEF WoltStatuses
<1>4. \A x \in Orders : had[x] \subseteq had'[x]
  OBVIOUS
<1>5. \A x \in Orders : wolt[x] # "absent" => wolt'[x] # "absent"
  BY <1>3
<1>6. \A x \in Orders : wolt'[x] # "absent" => wolt'[x] \in had'[x]
  BY DEF PlatformOK
<1>7. ASSUME NEW n \in webhooks'
      PROVE  wolt'[n.order] # "absent" /\ (n.status = "CANCELED" => "rejected" \in had'[n.order])
  <2>1. CASE n \in webhooks
    BY <1>4, <1>5, <2>1 DEF PlatformOK, Notification
  <2>2. CASE n \in [order : {o}, status : hooks]
    BY <1>3, <2>2
  <2>. QED  BY <1>7, <2>1, <2>2
<1>. QED  BY <1>1, <1>2, <1>3, <1>4, <1>5, <1>6, <1>7 DEF PlatformOK

LEMMA BecomesLocal ==
    ASSUME IInv, NEW o \in Orders, NEW s \in WoltStatuses, NEW hooks \in SUBSET HookStatuses,
           Becomes(o, s, hooks), "CANCELED" \in hooks => s = "rejected",
           UNCHANGED <<storeVars, handler>>
    PROVE  IInv'
<1> USE DEF storeVars
<1>1. TypeOK' /\ PlatformOK'
  BY BecomesStep DEF IInv, TypeOK
<1>2. StoreOK'
  BY BecomesStep DEF IInv, StoreOK, AnnouncedOnce, AnnouncedComplete, ValidatedCanceled,
     Truthful, TypeOK
<1>3. OneSaver'
  BY DEF IInv, OneSaver
<1>4. ASSUME NEW q \in Procs PROVE HandlerOK(q)'
  BY BecomesStep, OtherHandlers DEF Accumulates
<1>. QED  BY <1>1, <1>2, <1>3, <1>4 DEF IInv

LEMMA PlatformStep ==
    ASSUME IInv, NEW o \in Orders, Platform(o)
    PROVE  IInv'
<1> USE DEF WoltStatuses, HookStatuses
<1>1. CASE PlaceOrder(o)
  BY <1>1, BecomesLocal DEF PlaceOrder
<1>2. CASE CourierDelivers(o)
  BY <1>2, BecomesLocal DEF CourierDelivers
<1>3. CASE WoltCancels(o)
  BY <1>3, BecomesLocal DEF WoltCancels
<1>4. CASE WoltRefunds(o)
  BY <1>4, BecomesLocal DEF WoltRefunds
<1>. QED  BY <1>1, <1>2, <1>3, <1>4 DEF Platform

LEMMA LoseStep ==
    ASSUME IInv, NEW n \in webhooks, LoseWebhook(n)
    PROVE  IInv'
<1> USE DEF LoseWebhook, storeVars
<1>1. TypeOK' /\ PlatformOK' /\ StoreOK' /\ OneSaver'
  BY DEF IInv, TypeOK, PlatformOK, StoreOK, AnnouncedOnce, AnnouncedComplete,
     ValidatedCanceled, Truthful, OneSaver
<1>2. ASSUME NEW q \in Procs PROVE HandlerOK(q)'
  BY OtherHandlers DEF Accumulates
<1>. QED  BY <1>1, <1>2 DEF IInv

(***************************************************************************)
(* The steps of a request.                                                 *)
(***************************************************************************)

\* An idle handler knows nothing and owes nothing.
LEMMA FinishLocal ==
    ASSUME IInv, NEW p \in Procs, Finish(p), UNCHANGED <<platformVars, storeVars>>
    PROVE  IInv'
<1>1. RunsOnly(p) /\ handler'[p] = Idle
  BY DEF IInv, TypeOK, Finish, RunsOnly, Handler, Idle, PCs, Kinds
<1>2. HandlerOK(p)'
  BY <1>1 DEF HandlerOK, Idle
<1>. QED  BY <1>1, <1>2, LocalStep DEF Idle

LEMMA DeliverStep ==
    ASSUME IInv, NEW p \in Procs, NEW n \in webhooks, DeliverWebhook(p, n)
    PROVE  IInv'
<1> USE DEF DeliverWebhook, Start, At, storeVars
<1>1. n \in Notification
  BY DEF IInv, TypeOK
<1>2. RunsOnly(p) /\ handler'[p] = [Idle EXCEPT !.pc = "process", !.kind = "notification",
                                     !.order = n.order, !.status = n.status]
  BY <1>1 DEF IInv, TypeOK, RunsOnly, Handler, Idle, PCs, Kinds, Notification
<1>3. webhooks' \subseteq webhooks
  OBVIOUS
<1>4. TypeOK' /\ PlatformOK' /\ StoreOK'
  BY <1>2, <1>3 DEF RunsOnly, IInv, TypeOK, PlatformOK, StoreOK, AnnouncedOnce,
     AnnouncedComplete, ValidatedCanceled, Truthful
<1>5. OneSaver'
  BY <1>2 DEF RunsOnly, IInv, OneSaver, Idle
<1>6. HandlerOK(p)'
  BY <1>1, <1>2 DEF IInv, PlatformOK, HandlerOK, Idle, Notification
<1>7. ASSUME NEW q \in Procs PROVE HandlerOK(q)'
  BY <1>2, <1>6, OtherHandlers DEF RunsOnly, Accumulates
<1>. QED  BY <1>4, <1>5, <1>7 DEF IInv

LEMMA RequestStep ==
    ASSUME IInv, NEW p \in Procs, NEW o \in Orders, Request(p, o)
    PROVE  IInv'
<1>1. ASSUME NEW kind \in {"update", "reject"}, NEW status \in OrderStatuses,
             db[o] # NoRow, Start(p, "read", kind, o, status),
             UNCHANGED <<platformVars, storeVars>>
      PROVE  IInv'
  <2>1. RunsOnly(p) /\ handler'[p] = [Idle EXCEPT !.pc = "read", !.kind = kind,
                                       !.order = o, !.status = status]
    BY <1>1 DEF Start, IInv, TypeOK, RunsOnly, Handler, Idle, PCs, Kinds
  <2>2. HandlerOK(p)'
    BY <1>1, <2>1 DEF IInv, StoreOK, HandlerOK, Idle, platformVars, storeVars
  <2>. QED  BY <1>1, <2>1, <2>2, LocalStep DEF Idle
<1>2. CASE RequestReject(p, o)
  BY <1>1, <1>2 DEF RequestReject, OrderStatuses
<1>3. CASE \E status \in Requests : RequestUpdate(p, o, status)
  BY <1>1, <1>3, ConstantsAssumption DEF RequestUpdate
<1>. QED  BY <1>2, <1>3 DEF Request

LEMMA WebhookStepOK ==
    ASSUME IInv, NEW p \in Procs, WebhookStep(p)
    PROVE  IInv'
<1> DEFINE h == handler[p]
<1> USE DEF At, Goto, platformVars, storeVars
<1>0. h \in Handler /\ HandlerOK(p)
  BY DEF IInv, TypeOK
<1>1. CASE ProcessWoltOrder(p)
  <2>1. h.order \in Orders /\ wolt[h.order] \in had[h.order] /\ wolt[h.order] \in WoltStatuses
    BY <1>0, <1>1 DEF ProcessWoltOrder, HandlerOK, IInv, PlatformOK, TypeOK
  <2>2. RunsOnly(p)
    BY <1>0, <1>1, <2>1 DEF ProcessWoltOrder, RunsOnly, IInv, TypeOK, Handler, PCs
  <2>3. HandlerOK(p)'
    BY <1>0, <1>1, <2>1 DEF ProcessWoltOrder, HandlerOK, Handler, IInv, TypeOK
  <2>4. handler'[p].pc \in {"validate", "sync"}
    BY <1>0, <1>1 DEF ProcessWoltOrder, IInv, TypeOK, Handler
  <2>. QED  BY <1>1, <2>2, <2>3, <2>4, LocalStep DEF ProcessWoltOrder
<1>2. CASE PickupEtaMissing(p)
  BY <1>2, FinishLocal DEF PickupEtaMissing
<1>3. CASE ValidateWoltOrder(p)
  <2>1. CASE Finish(p)
    BY <1>3, <2>1, FinishLocal DEF ValidateWoltOrder
  <2>2. CASE Goto(p, "create")
    <3>1. RunsOnly(p) /\ handler'[p] = [handler[p] EXCEPT !.pc = "create"]
      BY <1>0, <2>2 DEF RunsOnly, IInv, TypeOK, Handler, PCs
    <3>2. HandlerOK(p)'
      BY <1>0, <1>3, <3>1 DEF ValidateWoltOrder, HandlerOK, Handler, Truthful
    <3>. QED  BY <1>0, <1>3, <3>1, <3>2, LocalStep DEF ValidateWoltOrder, Handler
  <2>. QED  BY <1>3, <2>1, <2>2 DEF ValidateWoltOrder
<1>4. CASE SaveWoltOrder(p)
  <2>0. h.order \in Orders /\ h.snap \in had[h.order] /\ h.snap \in WoltStatuses
    BY <1>0, <1>4 DEF SaveWoltOrder, HandlerOK, IInv, TypeOK
  <2> DEFINE status == MapStatus(h.order, h.snap)
  <2>1. CASE ~ RowAccepted(h.order, status)
    BY <1>4, <2>1, FinishLocal DEF SaveWoltOrder
  <2>2. CASE RowAccepted(h.order, status)
    <3>1. /\ db' = [db EXCEPT ![h.order] = status]
          /\ status \in OrderStatuses \ {Unmapped}
          /\ db[h.order] = NoRow
          /\ UNCHANGED <<platformVars, items, announced, validated>>
      BY <1>4, <2>0, <2>2, MapStatusType DEF SaveWoltOrder, RowAccepted
    <3>2. RunsOnly(p) /\ handler'[p] = [h EXCEPT !.pc = "products", !.snap = "none"]
      <4>1. handler' = [handler EXCEPT ![p].pc = "products", ![p].snap = "none"]
        BY <1>4, <2>2 DEF SaveWoltOrder
      <4>. QED  BY <1>0, <4>1 DEF RunsOnly, IInv, TypeOK, Handler, PCs
    <3>3. TypeOK' /\ PlatformOK'
      BY <3>1, <3>2 DEF IInv, TypeOK, PlatformOK, RunsOnly
    <3>4. status \in Truthful(h.order) /\ status # NoRow /\ wolt[h.order] # "absent"
      BY <1>0, <1>4, <2>0, <3>1 DEF Truthful, OrderStatuses, NoRow, HandlerOK, SaveWoltOrder
    <3>5. StoreOK'
      BY <2>0, <3>1, <3>4 DEF IInv, TypeOK, StoreOK, AnnouncedOnce, AnnouncedComplete,
         ValidatedCanceled, Truthful
    <3>6. announced[h.order] = 0
      BY <2>0, <3>1 DEF IInv, TypeOK, StoreOK, AnnouncedComplete
    <3>7. OneSaver'
      <4>1. \A q \in Procs : handler[q].pc \in {"products", "announce"} =>
              handler[q].order # h.order
        BY <3>1 DEF IInv, HandlerOK
      <4>2. handler'[p].order = h.order
        BY <1>0, <3>2 DEF Handler
      <4>3. \A q \in Procs \ {p} : handler'[q].pc \in {"products", "announce"} =>
              handler'[q].order # handler'[p].order
        BY <3>2, <4>1, <4>2 DEF RunsOnly
      <4>. QED  BY <3>2, <4>3 DEF IInv, OneSaver, RunsOnly
    <3>8. HandlerOK(p)'
      BY <1>0, <1>4, <2>0, <3>1, <3>2, <3>4, <3>6 DEF HandlerOK, Handler, SaveWoltOrder, IInv, TypeOK
    <3>9. ASSUME NEW q \in Procs PROVE HandlerOK(q)'
      <4>1. Accumulates
        BY <2>0, <3>1, <3>4 DEF Accumulates, IInv, TypeOK
      <4>. QED  BY <3>1, <3>2, <3>8, <4>1, OtherHandlers DEF RunsOnly
    <3>. QED  BY <3>3, <3>5, <3>7, <3>9 DEF IInv
  <2>. QED  BY <2>1, <2>2
<1>5. CASE SaveProducts(p)
  <2>0. h.order \in Orders /\ db[h.order] # NoRow /\ h.pc = "products"
    BY <1>0, <1>5 DEF SaveProducts, HandlerOK
  <2>1. RunsOnly(p) /\ handler'[p] = [h EXCEPT !.pc = "announce"]
    BY <1>0, <1>5 DEF SaveProducts, RunsOnly, IInv, TypeOK, Handler, PCs
  <2>2. TypeOK' /\ PlatformOK' /\ StoreOK'
    BY <1>5, <2>0, <2>1 DEF SaveProducts, RunsOnly, IInv, TypeOK, PlatformOK, StoreOK,
       AnnouncedOnce, AnnouncedComplete, ValidatedCanceled, Truthful
  <2>3. OneSaver'
    BY <1>0, <2>0, <2>1 DEF IInv, OneSaver, RunsOnly, Handler
  <2>4. HandlerOK(p)'
    BY <1>0, <1>5, <2>0, <2>1 DEF SaveProducts, HandlerOK, Handler, Truthful
  <2>5. ASSUME NEW q \in Procs PROVE HandlerOK(q)'
    BY <1>5, <2>1, <2>4, OtherHandlers DEF SaveProducts, RunsOnly, Accumulates
  <2>. QED  BY <2>2, <2>3, <2>5 DEF IInv
<1>6. CASE AnnounceNewOrder(p)
  <2>0. /\ h.order \in Orders /\ db[h.order] # NoRow /\ h.pc = "announce"
        /\ announced[h.order] = 0 /\ h.order \in items
    BY <1>0, <1>6 DEF AnnounceNewOrder, HandlerOK
  <2>1. RunsOnly(p) /\ handler'[p] = Idle
    BY <1>0, <1>6 DEF AnnounceNewOrder, Finish, RunsOnly, IInv, TypeOK, Handler, Idle, PCs, Kinds
  <2>2. announced' = [announced EXCEPT ![h.order] = 1]
    BY <1>6, <2>0 DEF AnnounceNewOrder
  <2>3. TypeOK' /\ PlatformOK' /\ StoreOK'
    BY <1>6, <2>0, <2>1, <2>2 DEF AnnounceNewOrder, RunsOnly, IInv, TypeOK, PlatformOK, StoreOK,
       AnnouncedOnce, AnnouncedComplete, ValidatedCanceled, Truthful
  <2>4. OneSaver'
    BY <2>1 DEF IInv, OneSaver, RunsOnly, Idle
  <2>5. HandlerOK(p)'
    BY <2>1 DEF HandlerOK, Idle
  <2>6. ASSUME NEW q \in Procs \ {p} PROVE HandlerOK(q)'
    <3>1. handler[q].pc \in {"products", "announce"} => handler[q].order # h.order
      BY <2>0 DEF IInv, OneSaver
    <3>2. handler[q].pc \in {"products", "announce"} =>
            announced'[handler[q].order] = announced[handler[q].order]
      BY <2>2, <3>1 DEF IInv, TypeOK, HandlerOK
    <3>. QED  BY <1>6, <2>1, <3>2, OtherHandlers DEF AnnounceNewOrder, RunsOnly, Accumulates
  <2>. QED  BY <2>3, <2>4, <2>5, <2>6 DEF IInv
<1>7. CASE NotifyChange(p)
  <2>0. h.order \in Orders /\ (h.status = "CANCELED" => "rejected" \in had[h.order])
    BY <1>0, <1>7 DEF NotifyChange, HandlerOK
  <2>1. RunsOnly(p) /\ handler'[p] = Idle
    BY <1>0, <1>7 DEF NotifyChange, Finish, RunsOnly, IInv, TypeOK, Handler, Idle, PCs, Kinds
  <2>2. TypeOK' /\ PlatformOK' /\ StoreOK'
    BY <1>7, <2>0, <2>1 DEF NotifyChange, Cancels, RunsOnly, IInv, TypeOK, PlatformOK, StoreOK,
       AnnouncedOnce, AnnouncedComplete, ValidatedCanceled, Truthful
  <2>3. OneSaver'
    BY <2>1 DEF IInv, OneSaver, RunsOnly, Idle
  <2>4. HandlerOK(p)'
    BY <2>1 DEF HandlerOK, Idle
  <2>5. ASSUME NEW q \in Procs PROVE HandlerOK(q)'
    BY <1>7, <2>1, <2>4, OtherHandlers DEF NotifyChange, RunsOnly, Accumulates
  <2>. QED  BY <2>2, <2>3, <2>5 DEF IInv
<1>. QED  BY <1>1, <1>2, <1>3, <1>4, <1>5, <1>6, <1>7 DEF WebhookStep

LEMMA SyncStepOK ==
    ASSUME IInv, NEW p \in Procs, SyncStep(p)
    PROVE  IInv'
<1> DEFINE h == handler[p]
<1> USE DEF At, Goto, platformVars, storeVars
<1>0. h \in Handler /\ HandlerOK(p)
  BY DEF IInv, TypeOK
<1>1. CASE SyncFetch(p)
  <2>0. /\ h.order \in Orders /\ h.pc = "sync"
        /\ wolt[h.order] \in had[h.order] /\ wolt[h.order] \in WoltStatuses
    BY <1>0, <1>1 DEF SyncFetch, HandlerOK, IInv, PlatformOK, TypeOK
  <2>1. RunsOnly(p) /\ handler'[p] = [h EXCEPT !.snap = wolt[h.order], !.pc = "syncFind"]
    BY <1>0, <1>1, <2>0 DEF SyncFetch, RunsOnly, IInv, TypeOK, Handler, PCs
  <2>2. /\ handler'[p].pc = "syncFind" /\ handler'[p].snap = wolt[h.order]
        /\ handler'[p].order = h.order /\ handler'[p].status = h.status
        /\ handler'[p].after = h.after
    BY <1>0, <2>1 DEF Handler
  <2>3. UNCHANGED <<platformVars, storeVars>>
    BY <1>1 DEF SyncFetch
  <2>4. HandlerOK(p)'
    BY <1>0, <2>0, <2>2, <2>3 DEF HandlerOK, Truthful
  <2>. QED  BY <2>1, <2>2, <2>3, <2>4, LocalStep
<1>2. CASE SyncFind(p)
  <2>0. h.pc = "syncFind" /\ UNCHANGED <<platformVars, storeVars>>
    BY <1>2 DEF SyncFind
  <2>1. CASE Finish(p)
    BY <2>0, <2>1, FinishLocal
  <2>2. CASE h.after # "idle" /\ Return(p)
    <3>1. h.after \in {"notify", "store"}
      BY <1>0, <2>0, <2>2 DEF HandlerOK
    <3>2. handler' = [handler EXCEPT ![p].pc = h.after, ![p].snap = "none", ![p].after = "none"]
      BY <2>2 DEF Return
    <3>3. RunsOnly(p) /\ handler'[p] = [h EXCEPT !.pc = h.after, !.snap = "none", !.after = "none"]
      BY <1>0, <3>1, <3>2 DEF RunsOnly, IInv, TypeOK, Handler, PCs
    <3>4. handler'[p].pc = h.after /\ handler'[p].after = "none"
          /\ handler'[p].order = h.order /\ handler'[p].status = h.status
      BY <1>0, <3>3 DEF Handler
    <3>5. HandlerOK(p)'
      BY <1>0, <2>0, <3>1, <3>4 DEF HandlerOK, Truthful
    <3>. QED  BY <2>0, <3>1, <3>3, <3>4, <3>5, LocalStep
  <2>3. CASE Goto(p, "syncWrite") /\ db[h.order] # NoRow
    <3>1. RunsOnly(p) /\ handler'[p] = [h EXCEPT !.pc = "syncWrite"]
      BY <1>0, <2>3 DEF RunsOnly, IInv, TypeOK, Handler, PCs
    <3>2. HandlerOK(p)'
      BY <1>0, <2>0, <2>3, <3>1 DEF HandlerOK, Handler, Truthful
    <3>. QED  BY <1>0, <2>0, <3>1, <3>2, LocalStep DEF Handler
  <2>. QED  BY <1>2, <2>1, <2>2, <2>3 DEF SyncFind, Return
<1>3. CASE SyncWrite(p)
  <2>0. /\ h.order \in Orders /\ h.pc = "syncWrite" /\ db[h.order] # NoRow
        /\ h.snap \in had[h.order] /\ h.snap \in WoltStatuses
        /\ h.after \in {"idle", "notify", "store"}
    BY <1>0, <1>3 DEF SyncWrite, HandlerOK, IInv, TypeOK
  <2> DEFINE mapped == MapStatus(h.order, h.snap)
             status == IF mapped = Unmapped THEN db[h.order] ELSE mapped
  <2>1. /\ db' = [db EXCEPT ![h.order] = status]
        /\ UNCHANGED <<platformVars, items, announced, validated>>
        /\ Return(p)
    BY <1>3 DEF SyncWrite
  <2>2. status \in OrderStatuses /\ status # NoRow /\ status \in Truthful(h.order)
    BY <2>0, MapStatusType DEF IInv, TypeOK, StoreOK, Truthful, OrderStatuses, NoRow
  <2>3. RunsOnly(p) /\ handler'[p].pc \in {"idle", "notify", "store"}
    <3>1. CASE h.after = "idle"
      BY <2>1, <3>1 DEF Return, Finish, RunsOnly, IInv, TypeOK, Handler, Idle, PCs, Kinds
    <3>2. CASE h.after # "idle"
      BY <1>0, <2>0, <2>1, <3>2 DEF Return, RunsOnly, IInv, TypeOK, Handler, PCs
    <3>. QED  BY <3>1, <3>2
  <2>4. TypeOK' /\ PlatformOK'
    BY <2>0, <2>1, <2>2, <2>3 DEF IInv, TypeOK, PlatformOK, RunsOnly
  <2>5. StoreOK'
    BY <2>0, <2>1, <2>2 DEF IInv, TypeOK, StoreOK, AnnouncedOnce, AnnouncedComplete,
       ValidatedCanceled, Truthful
  <2>6. OneSaver'
    BY <2>3 DEF IInv, OneSaver, RunsOnly
  <2>7. Accumulates
    BY <2>0, <2>1, <2>2 DEF Accumulates, IInv, TypeOK
  <2>8. HandlerOK(p)'
    <3>1. CASE h.after = "idle"
      <4>1. handler'[p] = Idle
        BY <2>1, <3>1 DEF Return, Finish, IInv, TypeOK
      <4>. QED  BY <4>1 DEF HandlerOK, Idle
    <3>2. CASE h.after # "idle"
      <4>1. handler'[p] = [h EXCEPT !.pc = h.after, !.snap = "none", !.after = "none"]
        BY <2>1, <3>2 DEF Return, IInv, TypeOK, Handler
      <4>2. db'[h.order] # NoRow
        BY <2>0, <2>7 DEF Accumulates
      <4>. QED  BY <1>0, <2>0, <2>1, <3>2, <4>1, <4>2 DEF HandlerOK, Handler, Truthful
    <3>. QED  BY <3>1, <3>2
  <2>9. ASSUME NEW q \in Procs PROVE HandlerOK(q)'
    BY <2>1, <2>3, <2>7, <2>8, OtherHandlers DEF RunsOnly
  <2>. QED  BY <2>4, <2>5, <2>6, <2>9 DEF IInv
<1>. QED  BY <1>1, <1>2, <1>3 DEF SyncStep

LEMMA DeviceStepOK ==
    ASSUME IInv, NEW p \in Procs, DeviceStep(p)
    PROVE  IInv'
<1> DEFINE h == handler[p]
           endpoint == Endpoint(h.status, h.row)
<1> USE DEF At, Goto, platformVars, storeVars
<1>0. h \in Handler /\ HandlerOK(p)
  BY DEF IInv, TypeOK
<1>1. CASE ReadOrder(p)
  <2>0. /\ h.order \in Orders /\ h.pc = "read" /\ db[h.order] # NoRow
        /\ db[h.order] \in OrderStatuses /\ UNCHANGED <<platformVars, storeVars>>
    BY <1>0, <1>1 DEF ReadOrder, HandlerOK, IInv, TypeOK
  <2>1. CASE Finish(p)
    BY <2>0, <2>1, FinishLocal
  <2>2. ASSUME NEW row \in OrderStatuses \union {"none"}, NEW next \in {"put", "store"},
               next = "store" => h.status = PickedUp,
               handler' = [handler EXCEPT ![p].row = row, ![p].pc = next]
        PROVE  IInv'
    <3>1. RunsOnly(p)
      BY <1>0, <2>2, ZenonT(30) DEF RunsOnly, IInv, TypeOK, Handler, PCs
    <3>2. /\ handler'[p].pc = next /\ handler'[p].after = h.after
          /\ handler'[p].order = h.order /\ handler'[p].status = h.status
      BY <1>0, <2>2 DEF IInv, TypeOK, Handler
    <3>3. h.status \in OrderStatuses /\ wolt[h.order] # "absent"
      BY <1>0, <2>0 DEF HandlerOK
    <3>4. next = "store" => h.status \in Truthful(h.order)
      BY <2>2 DEF Truthful
    <3>5. HandlerOK(p)'
      <4>1. CASE next = "put"
        BY <1>0, <2>0, <3>2, <3>3, <4>1 DEF HandlerOK, Truthful
      <4>2. CASE next = "store"
        BY <1>0, <2>0, <3>2, <3>3, <3>4, <4>2 DEF HandlerOK, Truthful
      <4>. QED  BY <2>2, <4>1, <4>2
    <3>. QED  BY <2>0, <2>2, <3>1, <3>2, <3>5, LocalStep
  <2>3. CASE h.kind = "update" /\ db[h.order] = "delivered"
    BY <1>1, <2>1, <2>3 DEF ReadOrder
  <2>4. CASE ~ (h.kind = "update" /\ db[h.order] = "delivered") /\ h.status = PickedUp
    <3>1. handler' = [handler EXCEPT ![p].row = "none", ![p].pc = "store"]
      BY <1>1, <2>4 DEF ReadOrder
    <3>. QED  BY <2>2, <2>4, <3>1
  <2>5. CASE ~ (h.kind = "update" /\ db[h.order] = "delivered") /\ h.status # PickedUp
    <3>1. handler' = [handler EXCEPT ![p].row = db[h.order], ![p].pc = "put"]
      BY <1>1, <2>5 DEF ReadOrder
    <3>. QED  BY <2>0, <2>2, <3>1
  <2>. QED  BY <2>3, <2>4, <2>5
<1>2. ASSUME h.pc = "put", Grants(h.order, endpoint),
             Becomes(h.order, Target(endpoint), Hooks(endpoint)), UNCHANGED storeVars,
             RunsOnly(p),
             handler'[p].pc \in {"sync", "eta", "store"}, handler'[p].order = h.order,
             handler'[p].status = h.status,
             handler'[p].pc = "sync" => handler'[p].after = "idle",
             handler'[p].pc # "sync" => handler'[p].after = h.after
      PROVE  IInv'
  <2>0. /\ h.order \in Orders /\ h.status \in OrderStatuses
        /\ h.row \in OrderStatuses \union {"none"} /\ db[h.order] # NoRow
    BY <1>0, <1>2 DEF HandlerOK, Handler
  <2>1. /\ Target(endpoint) \in WoltStatuses
        /\ MapStatus(h.order, Target(endpoint)) = h.status
        /\ Hooks(endpoint) \in SUBSET HookStatuses
        /\ "CANCELED" \in Hooks(endpoint) => Target(endpoint) = "rejected"
    BY <1>2, <2>0, GrantedStatus
  <2>2. /\ wolt' \in [Orders -> WoltStatuses \union {"absent"}]
        /\ had' \in [Orders -> SUBSET WoltStatuses]
        /\ webhooks' \subseteq Notification
        /\ Target(endpoint) \in had'[h.order]
        /\ wolt'[h.order] # "absent"
        /\ \A x \in Orders : had[x] \subseteq had'[x]
        /\ \A x \in Orders : wolt[x] # "absent" => wolt'[x] # "absent"
        /\ PlatformOK'
    BY <1>2, <2>0, <2>1, BecomesStep
  <2>3. TypeOK'
    BY <1>2, <2>2 DEF IInv, TypeOK, RunsOnly
  <2>4. StoreOK'
    BY <1>2, <2>2 DEF IInv, StoreOK, AnnouncedOnce, AnnouncedComplete, ValidatedCanceled,
       Truthful, TypeOK
  <2>5. OneSaver'
    BY <1>2 DEF IInv, OneSaver, RunsOnly
  <2>6. (handler[p].status \in Truthful(handler[p].order))'
    BY <1>2, <2>0, <2>1, <2>2 DEF Truthful, OrderStatuses, Unmapped
  <2>7. h.after = "notify" => (h.status = "CANCELED" => "rejected" \in had'[h.order])
    BY <1>0, <2>0, <2>2 DEF HandlerOK
  <2>8. HandlerOK(p)'
    BY <1>0, <1>2, <2>0, <2>2, <2>6, <2>7 DEF HandlerOK
  <2>9. ASSUME NEW q \in Procs PROVE HandlerOK(q)'
    BY <1>2, <2>2, <2>8, OtherHandlers DEF RunsOnly, Accumulates
  <2>. QED  BY <2>2, <2>3, <2>4, <2>5, <2>9 DEF IInv
<1>3. ASSUME SyncAndThrow(p), h.pc = "put"
      PROVE  /\ RunsOnly(p) /\ handler'[p].pc = "sync" /\ handler'[p].after = "idle"
             /\ handler'[p].order = h.order /\ handler'[p].status = h.status
  BY <1>0, <1>3 DEF SyncAndThrow, RunsOnly, IInv, TypeOK, Handler, PCs
<1>4. ASSUME SyncAndThrow(p), h.pc = "put", UNCHANGED <<platformVars, storeVars>>
      PROVE  IInv'
  <2>1. HandlerOK(p)'
    <3>1. h.order \in Orders /\ wolt[h.order] # "absent" /\ UNCHANGED <<wolt, had, db>>
      BY <1>0, <1>4 DEF HandlerOK
    <3>. QED  BY <1>0, <1>3, <1>4, <3>1 DEF HandlerOK, Truthful
  <2>. QED  BY <1>3, <1>4, <2>1, LocalStep
<1>5. CASE PutGranted(p)
  <2>1. /\ h.pc = "put" /\ Grants(h.order, endpoint)
        /\ Becomes(h.order, Target(endpoint), Hooks(endpoint)) /\ UNCHANGED storeVars
    BY <1>5 DEF PutGranted
  <2>2. PICK step \in {"eta", "store"} :
          handler' = [handler EXCEPT ![p].pc = step, ![p].row = "none"]
    BY <1>5 DEF PutGranted
  <2>3. /\ RunsOnly(p) /\ handler'[p].pc = step /\ handler'[p].order = h.order
        /\ handler'[p].status = h.status /\ handler'[p].after = h.after
    BY <1>0, <2>2, ZenonT(30) DEF RunsOnly, IInv, TypeOK, Handler, PCs
  <2>. QED  BY <1>2, <2>1, <2>3
<1>6. CASE PutRefused(p)
  BY <1>4, <1>6 DEF PutRefused
<1>7. CASE PutFails(p)
  <2>1. CASE UNCHANGED platformVars
    BY <1>4, <1>7, <2>1 DEF PutFails
  <2>2. CASE Grants(h.order, endpoint) /\ Becomes(h.order, Target(endpoint), Hooks(endpoint))
    <3>1. h.pc = "put" /\ SyncAndThrow(p) /\ UNCHANGED storeVars
      BY <1>7 DEF PutFails
    <3>. QED  BY <1>2, <1>3, <2>2, <3>1
  <2>. QED  BY <1>7, <2>1, <2>2 DEF PutFails
<1>8. CASE SyncPickupTime(p)
  <2>0. h.pc = "eta" /\ UNCHANGED <<platformVars, storeVars>>
    BY <1>8 DEF SyncPickupTime
  <2>1. RunsOnly(p) /\ handler'[p].pc \in {"sync", "store"} /\ handler'[p].order = h.order
        /\ handler'[p].status = h.status
        /\ (handler'[p].pc = "sync" => handler'[p].after = "store")
        /\ (handler'[p].pc = "store" => handler'[p].after = h.after)
    BY <1>0, <1>8 DEF SyncPickupTime, RunsOnly, IInv, TypeOK, Handler, PCs
  <2>2. HandlerOK(p)'
    BY <1>0, <2>0, <2>1 DEF HandlerOK, Truthful
  <2>. QED  BY <2>0, <2>1, <2>2, LocalStep
<1>9. CASE StoreStatus(p)
  <2>0. /\ h.order \in Orders /\ h.pc = "store" /\ db[h.order] # NoRow
        /\ wolt[h.order] # "absent" /\ h.status \in Truthful(h.order)
    BY <1>0, <1>9 DEF StoreStatus, HandlerOK
  <2>1. /\ db' = [db EXCEPT ![h.order] = h.status]
        /\ UNCHANGED <<platformVars, items, announced, validated>> /\ Finish(p)
    BY <1>9 DEF StoreStatus
  <2>2. h.status \in OrderStatuses /\ h.status # NoRow
    <3>1. \A s \in had[h.order] :
            MapStatus(h.order, s) \in OrderStatuses \union {Unmapped}
      BY <2>0, MapStatusType DEF IInv, TypeOK
    <3>. QED  BY <2>0, <3>1 DEF Truthful, OrderStatuses, NoRow, PickedUp
  <2>3. RunsOnly(p) /\ handler'[p] = Idle
    BY <2>1 DEF Finish, RunsOnly, IInv, TypeOK, Handler, Idle, PCs, Kinds
  <2>4. TypeOK' /\ PlatformOK'
    BY <2>0, <2>1, <2>2, <2>3 DEF IInv, TypeOK, PlatformOK, RunsOnly
  <2>5. StoreOK'
    BY <2>0, <2>1, <2>2 DEF IInv, TypeOK, StoreOK, AnnouncedOnce, AnnouncedComplete,
       ValidatedCanceled, Truthful
  <2>6. OneSaver'
    BY <2>3 DEF IInv, OneSaver, RunsOnly, Idle
  <2>7. Accumulates
    BY <2>0, <2>1, <2>2 DEF Accumulates, IInv, TypeOK
  <2>8. HandlerOK(p)'
    BY <2>3 DEF HandlerOK, Idle
  <2>9. ASSUME NEW q \in Procs PROVE HandlerOK(q)'
    BY <2>1, <2>3, <2>7, <2>8, OtherHandlers DEF RunsOnly
  <2>. QED  BY <2>4, <2>5, <2>6, <2>9 DEF IInv
<1>. QED  BY <1>1, <1>5, <1>6, <1>7, <1>8, <1>9 DEF DeviceStep

(***************************************************************************)
(* The inductive invariant and the properties it implies.                  *)
(***************************************************************************)

LEMMA HandlerStepOK ==
    ASSUME IInv, NEW p \in Procs, HandlerStep(p)
    PROVE  IInv'
BY WebhookStepOK, SyncStepOK, DeviceStepOK, FinishLocal
   DEF HandlerStep, FetchFails, StatementFails

LEMMA CrashStep ==
    ASSUME IInv, Crash
    PROVE  IInv'
<1> USE DEF Crash, platformVars, storeVars
<1>1. Idle \in Handler /\ Idle.pc = "idle" /\ Idle.after = "none"
  BY DEF Idle, Handler, PCs, Kinds
<1>2. TypeOK' /\ PlatformOK' /\ StoreOK'
  BY <1>1 DEF IInv, TypeOK, PlatformOK, StoreOK, AnnouncedOnce, AnnouncedComplete,
     ValidatedCanceled, Truthful
<1>3. OneSaver'
  BY <1>1 DEF OneSaver
<1>4. ASSUME NEW q \in Procs PROVE HandlerOK(q)'
  BY <1>1 DEF HandlerOK
<1>. QED  BY <1>2, <1>3, <1>4 DEF IInv

LEMMA InitIInv == Init => IInv
<1> SUFFICES ASSUME Init PROVE IInv
  OBVIOUS
<1> USE DEF Init
<1>1. Idle \in Handler /\ Idle.pc = "idle" /\ Idle.after = "none"
  BY DEF Idle, Handler, PCs, Kinds
<1>2. TypeOK
  BY <1>1 DEF TypeOK
<1>3. PlatformOK /\ StoreOK
  BY DEF PlatformOK, StoreOK, AnnouncedOnce, AnnouncedComplete, ValidatedCanceled
<1>4. OneSaver /\ \A p \in Procs : HandlerOK(p)
  BY <1>1 DEF OneSaver, HandlerOK
<1>. QED  BY <1>2, <1>3, <1>4 DEF IInv

LEMMA NextIInv ==
    ASSUME IInv, Next
    PROVE  IInv'
<1>1. CASE \E o \in Orders : Platform(o)
  BY <1>1, PlatformStep
<1>2. CASE \E n \in webhooks : LoseWebhook(n) \/ \E p \in Procs : DeliverWebhook(p, n)
  BY <1>2, LoseStep, DeliverStep
<1>3. CASE \E p \in Procs : HandlerStep(p) \/ \E o \in Orders : Request(p, o)
  BY <1>3, HandlerStepOK, RequestStep
<1>4. CASE Crash
  BY <1>4, CrashStep
<1>. QED  BY <1>1, <1>2, <1>3, <1>4 DEF Next

LEMMA StutterIInv ==
    ASSUME IInv, UNCHANGED vars
    PROVE  IInv'
<1> USE DEF vars, platformVars, storeVars
<1>1. TypeOK' /\ PlatformOK' /\ StoreOK' /\ OneSaver'
  BY DEF IInv, TypeOK, PlatformOK, StoreOK, OneSaver, AnnouncedOnce, AnnouncedComplete,
     ValidatedCanceled, Truthful
<1>2. ASSUME NEW q \in Procs PROVE HandlerOK(q)'
  BY DEF IInv, HandlerOK, Truthful
<1>. QED  BY <1>1, <1>2 DEF IInv

\* IInv holds in every reachable state: facts about an order only accumulate,
\* and each step of a request knows enough of them for the next one.
THEOREM Inductive == Spec => []IInv
<1>1. IInv /\ [Next]_vars => IInv'
  BY NextIInv, StutterIInv
<1>. QED  BY InitIInv, <1>1, PTL DEF Spec

\* Every variable keeps its type: above all, the status column only ever holds
\* a value of OrderStatusEnum, whatever status Wolt answers with.
THEOREM TypeCorrect == Spec => []TypeOK
<1>1. IInv => TypeOK
  BY DEF IInv
<1>. QED  BY Inductive, <1>1, PTL

\* An order is announced at most once, however many of its CREATED
\* notifications are handled at the same time and wherever they fail.
THEOREM AnnouncedOnceCorrect == Spec => []AnnouncedOnce
<1>1. IInv => AnnouncedOnce
  BY DEF IInv, StoreOK
<1>. QED  BY Inductive, <1>1, PTL

\* An announced order has its row and its products.
THEOREM AnnouncedCompleteCorrect == Spec => []AnnouncedComplete
<1>1. IInv => AnnouncedComplete
  BY DEF IInv, StoreOK
<1>. QED  BY Inductive, <1>1, PTL

\* The status column never holds a status that the order has not had at Wolt,
\* "picked up" apart: no refused, failed or overtaken request leaves one.
THEOREM StatusOccurredCorrect == Spec => []StatusOccurred
<1>1. IInv => StatusOccurred
  BY DEF IInv, StoreOK, StatusOccurred, Truthful
<1>. QED  BY Inductive, <1>1, PTL

\* Only canceled preorders are taken off the reminder queue.
THEOREM ValidatedCanceledCorrect == Spec => []ValidatedCanceled
<1>1. IInv => ValidatedCanceled
  BY DEF IInv, StoreOK
<1>. QED  BY Inductive, <1>1, PTL

(***************************************************************************)
(* WoltOrders implements OrderFeed: its variables had, db and announced    *)
(* make a behaviour of the abstract specification.                         *)
(***************************************************************************)

\* Both specifications read the one vocabulary of WoltStatus.
LEMMA SameVocabulary ==
    /\ Feed!NoRow = NoRow /\ Feed!Unmapped = Unmapped /\ Feed!PickedUp = PickedUp
    /\ Feed!WoltStatuses = WoltStatuses
    /\ \A o, s : Feed!MapStatus(o, s) = MapStatus(o, s)
BY DEF Feed!NoRow, NoRow, Feed!Unmapped, Unmapped, Feed!PickedUp, PickedUp,
   Feed!WoltStatuses, WoltStatuses, Feed!MapStatus, MapStatus

\* A step of Wolt is an Occur, whoever caused it.
LEMMA BecomesOccurs ==
    ASSUME NEW o \in Orders, NEW s \in WoltStatuses, NEW hooks,
           Becomes(o, s, hooks), UNCHANGED storeVars
    PROVE  Feed!Occur(o)
BY SameVocabulary DEF Becomes, Feed!Occur, storeVars

\* A row that is written again gets a truthful status, or stays as it is.
LEMMA WriteChanges ==
    ASSUME IInv, NEW o \in Orders, NEW status \in Truthful(o), db[o] # NoRow,
           db' = [db EXCEPT ![o] = status], UNCHANGED <<had, announced>>
    PROVE  Feed!Change(o)
BY SameVocabulary DEF Truthful, Feed!Truthful, Feed!Change

LEMMA FeedWebhookStep ==
    ASSUME IInv, NEW p \in Procs, WebhookStep(p)
    PROVE  [Feed!FeedNext]_Feed!feedVars
<1> DEFINE h == handler[p]
<1> USE DEF At, platformVars, storeVars
<1>0. h \in Handler /\ HandlerOK(p)
  BY DEF IInv, TypeOK
<1>1. CASE SaveWoltOrder(p)
  <2>1. h.order \in Orders /\ h.snap \in had[h.order]
    BY <1>0, <1>1 DEF SaveWoltOrder, HandlerOK
  <2> DEFINE status == MapStatus(h.order, h.snap)
  <2>2. CASE RowAccepted(h.order, status)
    <3>1. /\ db[h.order] = NoRow /\ status # Unmapped
          /\ db' = [db EXCEPT ![h.order] = status] /\ UNCHANGED <<had, announced>>
      BY <1>1, <2>2 DEF SaveWoltOrder, RowAccepted
    <3>2. status \in Feed!Truthful(h.order)
      BY <2>1, <3>1, SameVocabulary DEF Feed!Truthful
    <3>3. Feed!Store(h.order)
      BY <3>1, <3>2, SameVocabulary DEF Feed!Store
    <3>. QED  BY <2>1, <3>3 DEF Feed!FeedNext
  <2>3. CASE ~ RowAccepted(h.order, status)
    BY <1>1, <2>3 DEF SaveWoltOrder, Feed!feedVars
  <2>. QED  BY <2>2, <2>3
<1>2. CASE AnnounceNewOrder(p)
  <2>1. h.order \in Orders /\ db[h.order] # NoRow /\ announced[h.order] = 0
    BY <1>0, <1>2 DEF AnnounceNewOrder, HandlerOK
  <2>2. announced' = [announced EXCEPT ![h.order] = 1] /\ UNCHANGED <<had, db>>
    BY <1>2, <2>1 DEF AnnounceNewOrder
  <2>3. Feed!Announce(h.order)
    BY <2>1, <2>2, SameVocabulary DEF Feed!Announce
  <2>. QED  BY <2>1, <2>3 DEF Feed!FeedNext
<1>3. CASE ~ SaveWoltOrder(p) /\ ~ AnnounceNewOrder(p)
  BY <1>3 DEF WebhookStep, ProcessWoltOrder, PickupEtaMissing, ValidateWoltOrder, SaveProducts,
     NotifyChange, Feed!feedVars
<1>. QED  BY <1>1, <1>2, <1>3

LEMMA FeedSyncStep ==
    ASSUME IInv, NEW p \in Procs, SyncStep(p)
    PROVE  [Feed!FeedNext]_Feed!feedVars
<1> DEFINE h == handler[p]
<1> USE DEF At, platformVars, storeVars
<1>1. CASE SyncWrite(p)
  <2>1. h.order \in Orders /\ h.snap \in had[h.order] /\ db[h.order] # NoRow
    BY <1>1 DEF SyncWrite, IInv, HandlerOK
  <2> DEFINE mapped == MapStatus(h.order, h.snap)
             status == IF mapped = Unmapped THEN db[h.order] ELSE mapped
  <2>2. db' = [db EXCEPT ![h.order] = status] /\ UNCHANGED <<had, announced>>
    BY <1>1 DEF SyncWrite
  <2>3. status \in Truthful(h.order)
    BY <2>1 DEF IInv, StoreOK, Truthful
  <2>4. Feed!Change(h.order)
    BY <2>1, <2>2, <2>3, WriteChanges
  <2>. QED  BY <2>1, <2>4 DEF Feed!FeedNext
<1>2. CASE ~ SyncWrite(p)
  BY <1>2 DEF SyncStep, SyncFetch, SyncFind, Feed!feedVars
<1>. QED  BY <1>1, <1>2

LEMMA FeedDeviceStep ==
    ASSUME IInv, NEW p \in Procs, DeviceStep(p)
    PROVE  [Feed!FeedNext]_Feed!feedVars
<1> DEFINE h == handler[p]
           endpoint == Endpoint(h.status, h.row)
<1> USE DEF At, platformVars, storeVars
<1>0. h \in Handler /\ HandlerOK(p)
  BY DEF IInv, TypeOK
<1>1. ASSUME h.pc = "put", Grants(h.order, endpoint),
             Becomes(h.order, Target(endpoint), Hooks(endpoint)), UNCHANGED storeVars
      PROVE  Feed!FeedNext
  <2>1. h.order \in Orders /\ h.status \in OrderStatuses /\ h.row \in OrderStatuses \union {"none"}
    BY <1>0, <1>1 DEF HandlerOK, Handler
  <2>2. Target(endpoint) \in WoltStatuses
    BY <1>1, <2>1, GrantedStatus
  <2>3. Feed!Occur(h.order)
    BY <1>1, <2>1, <2>2, BecomesOccurs
  <2>. QED  BY <2>1, <2>3 DEF Feed!FeedNext
<1>2. CASE PutGranted(p)
  BY <1>1, <1>2 DEF PutGranted
<1>3. CASE PutFails(p)
  <2>1. CASE UNCHANGED platformVars
    BY <1>3, <2>1 DEF PutFails, Feed!feedVars
  <2>2. CASE Grants(h.order, endpoint) /\ Becomes(h.order, Target(endpoint), Hooks(endpoint))
    BY <1>1, <1>3, <2>2 DEF PutFails
  <2>. QED  BY <1>3, <2>1, <2>2 DEF PutFails
<1>4. CASE StoreStatus(p)
  <2>1. h.order \in Orders /\ db[h.order] # NoRow /\ h.status \in Truthful(h.order)
    BY <1>0, <1>4 DEF StoreStatus, HandlerOK
  <2>2. Feed!Change(h.order)
    BY <1>4, <2>1, WriteChanges DEF StoreStatus
  <2>. QED  BY <2>1, <2>2 DEF Feed!FeedNext
<1>5. CASE ReadOrder(p) \/ PutRefused(p) \/ SyncPickupTime(p)
  BY <1>5 DEF ReadOrder, PutRefused, SyncPickupTime, Feed!feedVars
<1>. QED  BY <1>2, <1>3, <1>4, <1>5 DEF DeviceStep

LEMMA FeedStep ==
    ASSUME IInv, [Next]_vars
    PROVE  [Feed!FeedNext]_Feed!feedVars
<1> USE DEF platformVars, storeVars
<1>1. ASSUME NEW o \in Orders, Platform(o) PROVE Feed!FeedNext
  <2>1. Feed!Occur(o)
    BY <1>1, BecomesOccurs
       DEF Platform, PlaceOrder, CourierDelivers, WoltCancels, WoltRefunds, WoltStatuses
  <2>. QED  BY <2>1 DEF Feed!FeedNext
<1>2. ASSUME NEW p \in Procs, HandlerStep(p) PROVE [Feed!FeedNext]_Feed!feedVars
  BY <1>2, FeedWebhookStep, FeedSyncStep, FeedDeviceStep
     DEF HandlerStep, FetchFails, StatementFails, Feed!feedVars
<1>3. CASE UNCHANGED <<had, db, announced>>
  BY <1>3 DEF Feed!feedVars
<1>4. CASE \E n \in webhooks : LoseWebhook(n) \/ \E p \in Procs : DeliverWebhook(p, n)
  BY <1>3, <1>4 DEF LoseWebhook, DeliverWebhook
<1>5. CASE \E p \in Procs, o \in Orders : Request(p, o)
  BY <1>3, <1>5 DEF Request, RequestReject, RequestUpdate
<1>6. CASE Crash \/ UNCHANGED vars
  BY <1>3, <1>6 DEF Crash, vars
<1>. QED  BY <1>1, <1>2, <1>4, <1>5, <1>6 DEF Next

\* The intake keeps the promise of OrderFeed: stored once, with a status the
\* order has had at Wolt, only changed to such statuses, announced once.
THEOREM Refinement == Spec => FeedSpec
<1>1. Init => Feed!FeedInit
  BY SameVocabulary DEF Init, Feed!FeedInit
<1>2. IInv /\ [Next]_vars => [Feed!FeedNext]_Feed!feedVars
  BY FeedStep
<1>. QED  BY Inductive, <1>1, <1>2, PTL DEF Spec, FeedSpec, Feed!FeedSpec

(***************************************************************************)
(* The database follows Wolt when the requests of an order do not overlap  *)
(* and nothing fails.  A change at Wolt is made by Wolt, and then a        *)
(* notification of it is on its way, or by a request in progress, which    *)
(* writes what it was granted before another one of that order begins.     *)
(***************************************************************************)

Undisturbed == Faults \subseteq {"duplicate"}

\* A notification that will have the row of o synchronised.
SyncPending(o) == \E n \in webhooks : n.order = o /\ n.status # "CREATED"

\* The column may hold this status: it is the last one, or a notification is to come.
Latest(o, status) == status \in {MapStatus(o, wolt[o]), PickedUp} \/ SyncPending(o)

\* The request of p goes on to save the row of o, or to write it again.
Saves(p, o) ==
    /\ handler[p].order = o
    /\ \/ handler[p].pc = "process" /\ handler[p].status = "CREATED"
       \/ handler[p].pc \in {"validate", "create"}
Mends(p, o) ==
    /\ handler[p].order = o
    /\ \/ handler[p].pc = "process" /\ handler[p].status # "CREATED"
       \/ handler[p].pc \in {"sync", "syncFind", "syncWrite", "eta", "store"}

Followed(o) ==
    /\ "refunded" \notin had[o]
    /\ wolt[o] # "absent" =>
         IF db[o] = NoRow
         THEN [order |-> o, status |-> "CREATED"] \in webhooks \/ \E p \in Procs : Saves(p, o)
         ELSE Latest(o, db[o]) \/ \E p \in Procs : Mends(p, o)

\* What a request is about to write is the last status, or a notification is to come.
WritesLatest(p) ==
    LET h == handler[p] IN
    /\ h.pc \in {"validate", "create", "syncFind", "syncWrite"} =>
          h.snap = wolt[h.order] \/ SyncPending(h.order)
    /\ h.pc \in {"eta", "store"} \/ h.after = "store" => Latest(h.order, h.status)

Follows == (\A o \in Orders : Followed(o)) /\ \A p \in Procs : WritesLatest(p)

\* An order no step is about stays followed.
LEMMA StaysFollowed ==
    ASSUME NEW o \in Orders, Followed(o), SyncPending(o) => SyncPending(o)',
           [order |-> o, status |-> "CREATED"] \in webhooks =>
              [order |-> o, status |-> "CREATED"] \in webhooks',
           wolt'[o] = wolt[o], had'[o] = had[o], db'[o] = db[o],
           \A p \in Procs : (Saves(p, o) => Saves(p, o)') /\ (Mends(p, o) => Mends(p, o)')
    PROVE  Followed(o)'
<1>1. Latest(o, db[o]) => Latest(o, db[o])'
  BY DEF Latest
<1>. QED  BY <1>1 DEF Followed

\* The other requests in progress are about other orders.
LEMMA OthersAway ==
    ASSUME NoOverlap, NEW p \in Procs, handler[p].pc # "idle", NEW o, handler[p].order = o
    PROVE  \A q \in Procs \ {p} :
              (handler[q].pc = "idle" \/ handler[q].order # o) /\ ~ Saves(q, o) /\ ~ Mends(q, o)
BY DEF NoOverlap, At, Saves, Mends

\* What another request is about to write stays so as long as its order is left alone.
LEMMA OthersWrite ==
    ASSUME Follows, NEW q \in Procs, handler'[q] = handler[q],
           NEW x, handler[q].order = x,
           wolt'[x] = wolt[x], SyncPending(x) => SyncPending(x)'
    PROVE  WritesLatest(q)'
BY DEF Follows, WritesLatest, Latest

\* A step of a request that Wolt has no part in.
LEMMA OwnStep ==
    ASSUME Follows, NEW p \in Procs, RunsOnly(p), NEW o \in Orders, handler[p].order = o,
           UNCHANGED platformVars,
           \A x \in Orders \ {o} : db'[x] = db[x],
           Followed(o)', WritesLatest(p)'
    PROVE  Follows'
<1>1. ASSUME NEW x \in Orders PROVE Followed(x)'
  <2>1. CASE x = o
    BY <2>1
  <2>2. CASE x # o
    <3>1. \A q \in Procs : (Saves(q, x) => Saves(q, x)') /\ (Mends(q, x) => Mends(q, x)')
      BY <2>2 DEF RunsOnly, Saves, Mends
    <3>2. SyncPending(x) => SyncPending(x)'
      BY DEF platformVars, SyncPending
    <3>. QED  BY <2>2, <3>1, <3>2, StaysFollowed DEF Follows, platformVars
  <2>. QED  BY <2>1, <2>2
<1>2. ASSUME NEW q \in Procs PROVE WritesLatest(q)'
  <2>1. \A x : SyncPending(x) => SyncPending(x)'
    BY DEF platformVars, SyncPending
  <2>2. q # p => handler'[q] = handler[q]
    BY DEF RunsOnly
  <2>. QED  BY <2>1, <2>2, OthersWrite DEF platformVars
<1>. QED  BY <1>1, <1>2 DEF Follows

\* A request that ends owes nothing.
LEMMA FinishFollows ==
    ASSUME IInv, Follows, NEW p \in Procs, NEW o \in Orders, handler[p].order = o,
           Finish(p), UNCHANGED platformVars,
           \A x \in Orders \ {o} : db'[x] = db[x],
           IF db'[o] = NoRow THEN [order |-> o, status |-> "CREATED"] \in webhooks
                             ELSE Latest(o, db'[o])
    PROVE  Follows'
<1>1. handler'[p] = Idle /\ RunsOnly(p)
  BY DEF IInv, TypeOK, Finish, RunsOnly, Handler, Idle, PCs, Kinds
<1>2. WritesLatest(p)'
  BY <1>1 DEF WritesLatest, Idle
<1>3. Latest(o, db'[o]) => Latest(o, db[o])'
  BY DEF Latest, SyncPending, platformVars
<1>4. Followed(o)'
  BY <1>3 DEF Follows, Followed, platformVars
<1>. QED  BY <1>1, <1>2, <1>4, OwnStep

\* The row of an order whose request has nothing to write yet.
LEMMA NothingOwed ==
    ASSUME NoOverlap, IInv, Follows, NEW p \in Procs, handler[p].pc # "idle",
           NEW o \in Orders, handler[p].order = o, ~ Saves(p, o), ~ Mends(p, o)
    PROVE  IF db[o] = NoRow THEN [order |-> o, status |-> "CREATED"] \in webhooks
                            ELSE Latest(o, db[o])
<1>1. wolt[o] # "absent" /\ Followed(o)
  BY DEF IInv, HandlerOK, Follows
<1>2. \A q \in Procs : ~ Saves(q, o) /\ ~ Mends(q, o)
  BY OthersAway
<1>. QED  BY <1>1, <1>2 DEF Followed

\* Another step of a request: what Followed and WritesLatest say after it.
LEMMA GoesOnFollows ==
    ASSUME IInv, Follows, NEW p \in Procs, NEW o \in Orders, handler[p].order = o,
           RunsOnly(p), UNCHANGED <<platformVars, db>>, handler'[p].order = o,
           IF db[o] = NoRow THEN [order |-> o, status |-> "CREATED"] \in webhooks \/ Saves(p, o)'
                            ELSE Latest(o, db[o]) \/ Mends(p, o)',
           WritesLatest(p)'
    PROVE  Follows'
<1>1. Latest(o, db[o]) => Latest(o, db[o])'
  BY DEF Latest, SyncPending, platformVars
<1>2. Followed(o)'
  BY <1>1 DEF Follows, Followed, platformVars
<1>. QED  BY <1>2, OwnStep

\* What was the last status is so as long as Wolt does nothing.
LEMMA LatestStays ==
    ASSUME NEW o, NEW status, UNCHANGED platformVars
    PROVE  (Latest(o, status) <=> Latest(o, status)') /\ (SyncPending(o) <=> SyncPending(o)')
BY DEF Latest, SyncPending, platformVars

(***************************************************************************)
(* The steps of Wolt.                                                      *)
(***************************************************************************)

\* A change at Wolt comes with its notification, or is the request's own.
LEMMA WoltStepFollows ==
    ASSUME Undisturbed, IInv, Follows, NEW o \in Orders, Platform(o)
    PROVE  Follows'
<1>1. PICK s \in WoltStatuses \ {"refunded"}, hook \in HookStatuses :
        /\ Becomes(o, s, {hook}) /\ UNCHANGED <<storeVars, handler>>
        /\ wolt[o] = "absent" <=> hook = "CREATED"
  <2>1. CASE PlaceOrder(o)
    BY <2>1 DEF PlaceOrder, WoltStatuses, HookStatuses
  <2>2. CASE CourierDelivers(o)
    BY <2>2 DEF CourierDelivers, WoltStatuses, HookStatuses
  <2>3. CASE WoltCancels(o)
    BY <2>3 DEF WoltCancels, WoltStatuses, HookStatuses
  <2>. QED  BY <2>1, <2>2, <2>3 DEF Platform, WoltRefunds, Undisturbed
<1> DEFINE n == [order |-> o, status |-> hook]
<1>2. /\ \A x \in Orders \ {o} : wolt'[x] = wolt[x] /\ had'[x] = had[x]
      /\ had'[o] = had[o] \union {s}
      /\ webhooks \subseteq webhooks' /\ n \in webhooks'
      /\ UNCHANGED <<db, handler>>
  BY <1>1 DEF Becomes, IInv, TypeOK, storeVars
<1>3. hook # "CREATED" => SyncPending(o)'
  BY <1>2 DEF SyncPending
<1>4. \A x \in Orders : SyncPending(x) => SyncPending(x)'
  BY <1>2 DEF SyncPending
<1>5. \A x \in Orders : \A q \in Procs : (Saves(q, x) => Saves(q, x)') /\ (Mends(q, x) => Mends(q, x)')
  BY <1>2 DEF Saves, Mends
<1>6. ASSUME NEW x \in Orders PROVE Followed(x)'
  <2>1. CASE x # o
    BY <1>2, <1>4, <1>5, <2>1, StaysFollowed DEF Follows
  <2>2. CASE x = o /\ hook = "CREATED"
    <3>1. db[o] = NoRow
      BY <1>1, <2>2 DEF IInv, StoreOK
    <3>. QED  BY <1>1, <1>2, <2>2, <3>1 DEF Followed, Follows
  <2>3. CASE x = o /\ hook # "CREATED"
    <3>1. wolt[o] # "absent" /\ Followed(o)
      BY <1>1, <2>3 DEF Follows
    <3>2. "refunded" \notin had'[o] /\ \A status : Latest(o, status)'
      BY <1>2, <1>3, <2>3, <3>1 DEF Followed, Latest
    <3>. QED  BY <1>2, <1>5, <2>3, <3>1, <3>2 DEF Followed
  <2>. QED  BY <2>1, <2>2, <2>3
<1>7. ASSUME NEW q \in Procs PROVE WritesLatest(q)'
  <2>1. CASE handler[q].pc = "idle"
    BY <1>2, <2>1 DEF WritesLatest, IInv, HandlerOK
  <2>2. CASE handler[q].pc # "idle"
    <3>1. handler[q].order \in Orders /\ wolt[handler[q].order] # "absent" /\ WritesLatest(q)
      BY <2>2 DEF IInv, HandlerOK, Follows
    <3>2. PICK x \in Orders : x = handler[q].order
      BY <3>1
    <3>3. x = o => SyncPending(x)'
      BY <1>1, <1>3, <3>1, <3>2
    <3>4. x # o => \A status : Latest(x, status) => Latest(x, status)'
      BY <1>2, <1>4 DEF Latest
    <3>5. SyncPending(x)' => \A status : Latest(x, status)'
      BY DEF Latest
    <3>. QED  BY <1>2, <1>4, <3>1, <3>2, <3>3, <3>4, <3>5 DEF WritesLatest
  <2>. QED  BY <2>1, <2>2
<1>. QED  BY <1>6, <1>7 DEF Follows

\* A delivered notification has a request to do what it asks for.
LEMMA DeliverFollows ==
    ASSUME Undisturbed, NoOverlap', IInv, Follows, NEW p \in Procs, NEW n \in webhooks,
           DeliverWebhook(p, n)
    PROVE  Follows'
<1>1. /\ n \in Notification /\ UNCHANGED <<wolt, had, db>>
      /\ webhooks' \subseteq webhooks /\ \A m \in webhooks \ {n} : m \in webhooks'
      /\ handler[p].pc = "idle" /\ \A q \in Procs \ {p} : handler'[q] = handler[q]
      /\ handler'[p] = [Idle EXCEPT !.pc = "process", !.kind = "notification",
                                    !.order = n.order, !.status = n.status]
  BY DEF DeliverWebhook, Start, At, IInv, TypeOK, storeVars
<1>2. \A x \in Orders \ {n.order} : SyncPending(x) => SyncPending(x)'
  BY <1>1 DEF SyncPending
<1>3. ASSUME NEW q \in Procs PROVE WritesLatest(q)'
  <2>1. CASE q = p
    BY <1>1, <2>1 DEF WritesLatest, Idle
  <2>2. CASE q # p /\ handler[q].pc = "idle"
    BY <1>1, <2>2 DEF WritesLatest, IInv, HandlerOK
  <2>3. CASE q # p /\ handler[q].pc # "idle"
    <3>1. handler'[p].pc = "process" /\ handler'[p].order = n.order /\ handler'[q] = handler[q]
      BY <1>1, <2>3 DEF Idle
    <3>2. handler'[q].order # handler'[p].order
      BY <2>3, <3>1 DEF NoOverlap, At
    <3>3. PICK x \in Orders \ {n.order} : handler[q].order = x
      BY <2>3, <3>1, <3>2 DEF IInv, HandlerOK
    <3>. QED  BY <1>1, <1>2, <3>1, <3>3, OthersWrite
  <2>. QED  BY <2>1, <2>2, <2>3
<1>4. ASSUME NEW x \in Orders PROVE Followed(x)'
  <2>1. \A q \in Procs : (Saves(q, x) => Saves(q, x)') /\ (Mends(q, x) => Mends(q, x)')
    BY <1>1 DEF Saves, Mends
  <2>2. CASE n.order # x
    <3>1. [order |-> x, status |-> "CREATED"] # n
      BY <2>2
    <3>. QED  BY <1>1, <1>2, <2>1, <2>2, <3>1, StaysFollowed DEF Follows
  <2>3. CASE n.order = x /\ n.status = "CREATED"
    <3>1. Saves(p, x)'
      BY <1>1, <2>3 DEF Saves, Idle
    <3>2. SyncPending(x) => SyncPending(x)'
      BY <1>1, <2>3 DEF SyncPending
    <3>3. Latest(x, db[x]) => Latest(x, db[x])'
      BY <1>1, <3>2 DEF Latest
    <3>. QED  BY <1>1, <2>1, <3>1, <3>3 DEF Follows, Followed
  <2>4. CASE n.order = x /\ n.status # "CREATED"
    <3>1. Mends(p, x)'
      BY <1>1, <2>4 DEF Mends, Idle
    <3>2. [order |-> x, status |-> "CREATED"] # n
      BY <2>4
    <3>. QED  BY <1>1, <2>1, <3>1, <3>2 DEF Follows, Followed
  <2>. QED  BY <2>2, <2>3, <2>4
<1>. QED  BY <1>3, <1>4 DEF Follows

\* A request of a device begins with nothing to write.
LEMMA RequestFollows ==
    ASSUME IInv, Follows, NEW p \in Procs, NEW o \in Orders, Request(p, o)
    PROVE  Follows'
<1>1. PICK kind \in Kinds, status \in OrderStatuses :
        /\ Start(p, "read", kind, o, status) /\ UNCHANGED <<platformVars, storeVars>>
  BY ConstantsAssumption DEF Request, RequestReject, RequestUpdate, Kinds, OrderStatuses
<1>2. /\ handler[p].pc = "idle" /\ handler'[p].pc = "read" /\ handler'[p].after = "none"
      /\ \A q \in Procs \ {p} : handler'[q] = handler[q]
  BY <1>1 DEF Start, At, IInv, TypeOK, Idle
<1>3. \A x : SyncPending(x) => SyncPending(x)'
  BY <1>1 DEF SyncPending, platformVars
<1>4. ASSUME NEW q \in Procs PROVE WritesLatest(q)'
  <2>1. CASE q = p
    BY <1>2, <2>1 DEF WritesLatest
  <2>2. CASE q # p
    BY <1>1, <1>2, <1>3, <2>2, OthersWrite DEF platformVars
  <2>. QED  BY <2>1, <2>2
<1>5. ASSUME NEW x \in Orders PROVE Followed(x)'
  <2>1. \A q \in Procs : (Saves(q, x) => Saves(q, x)') /\ (Mends(q, x) => Mends(q, x)')
    BY <1>2 DEF Saves, Mends
  <2>. QED  BY <1>1, <1>3, <2>1, StaysFollowed DEF Follows, platformVars, storeVars
<1>. QED  BY <1>4, <1>5 DEF Follows

(***************************************************************************)
(* The steps of a request.                                                 *)
(***************************************************************************)

\* The request of p goes to the given step, and keeps its order and what it was asked.
LEMMA GotoKeeps ==
    ASSUME IInv, NEW p \in Procs, NEW step \in PCs, Goto(p, step)
    PROVE  /\ RunsOnly(p) /\ handler'[p].pc = step
           /\ handler'[p].order = handler[p].order /\ handler'[p].status = handler[p].status
           /\ handler'[p].snap = handler[p].snap /\ handler'[p].after = handler[p].after
BY DEF Goto, RunsOnly, IInv, TypeOK, Handler

LEMMA ReturnKeeps ==
    ASSUME IInv, NEW p \in Procs, Return(p), handler[p].after \in {"notify", "store"}
    PROVE  /\ RunsOnly(p) /\ handler'[p].pc = handler[p].after /\ handler'[p].after = "none"
           /\ handler'[p].order = handler[p].order /\ handler'[p].status = handler[p].status
BY DEF Return, RunsOnly, IInv, TypeOK, Handler, PCs

LEMMA WebhookFollows ==
    ASSUME Undisturbed, NoOverlap, IInv, Follows, NEW p \in Procs, WebhookStep(p)
    PROVE  Follows'
<1> USE DEF At
<1>0. handler[p].pc # "idle"
  BY DEF WebhookStep, ProcessWoltOrder, PickupEtaMissing, ValidateWoltOrder, SaveWoltOrder,
     SaveProducts, AnnounceNewOrder, NotifyChange
<1>1. PICK o \in Orders : handler[p].order = o
  BY <1>0 DEF IInv, HandlerOK
<1>2. handler[p] \in Handler /\ HandlerOK(p) /\ WritesLatest(p) /\ wolt[o] # "absent"
  BY <1>0, <1>1 DEF IInv, TypeOK, Follows, HandlerOK
<1>9. \A q \in Procs \ {p} : ~ Saves(q, o) /\ ~ Mends(q, o)
  BY <1>0, <1>1, OthersAway
<1>3. CASE ProcessWoltOrder(p)
  <2>1. /\ handler[p].pc = "process" /\ UNCHANGED <<platformVars, db>> /\ RunsOnly(p)
        /\ handler'[p].order = o /\ handler'[p].status = handler[p].status
        /\ handler'[p].snap = wolt[o]
        /\ handler'[p].pc = IF handler[p].status = "CREATED" THEN "validate" ELSE "sync"
        /\ handler'[p].after \in {"none", "notify"}
    <3>1. wolt[o] \in WoltStatuses
      BY <1>2 DEF IInv, TypeOK
    <3>. QED  BY <1>1, <1>2, <1>3, <3>1
              DEF ProcessWoltOrder, RunsOnly, IInv, TypeOK, Handler, PCs, storeVars
  <2>2. WritesLatest(p)'
    BY <2>1 DEF WritesLatest, platformVars
  <2>3. CASE handler[p].status = "CREATED"
    <3>1. Saves(p, o)' /\ ~ Mends(p, o)
      BY <2>1, <2>3 DEF Saves, Mends
    <3>2. db[o] # NoRow => Latest(o, db[o])
      BY <1>1, <1>2, <1>9, <3>1 DEF Follows, Followed
    <3>. QED  BY <1>1, <2>1, <2>2, <3>1, <3>2, GoesOnFollows
  <2>4. CASE handler[p].status # "CREATED"
    <3>1. Mends(p, o)' /\ ~ Saves(p, o)
      BY <2>1, <2>4 DEF Saves, Mends
    <3>2. db[o] = NoRow => [order |-> o, status |-> "CREATED"] \in webhooks
      BY <1>1, <1>2, <1>9, <3>1 DEF Follows, Followed
    <3>. QED  BY <1>1, <2>1, <2>2, <3>1, <3>2, GoesOnFollows
  <2>. QED  BY <2>3, <2>4
<1>4. CASE ValidateWoltOrder(p)
  <2>1. /\ handler[p].pc = "validate" /\ UNCHANGED <<platformVars, db>> /\ ~ Mends(p, o)
    BY <1>4 DEF ValidateWoltOrder, storeVars, Mends
  <2>2. db[o] # NoRow => Latest(o, db[o])
    BY <1>1, <1>2, <1>9, <2>1 DEF Follows, Followed
  <2>3. CASE db[o] # NoRow
    BY <1>1, <1>4, <2>1, <2>2, <2>3, FinishFollows DEF ValidateWoltOrder
  <2>4. CASE db[o] = NoRow
    <3>1. Goto(p, "create")
      BY <1>1, <1>4, <2>4 DEF ValidateWoltOrder
    <3>2. Saves(p, o)' /\ WritesLatest(p)' /\ RunsOnly(p) /\ handler'[p].order = o
      BY <1>1, <1>2, <2>1, <3>1, GotoKeeps, LatestStays
         DEF Saves, WritesLatest, PCs, platformVars
    <3>. QED  BY <1>1, <2>1, <2>4, <3>2, GoesOnFollows
  <2>. QED  BY <2>3, <2>4
<1>5. CASE SaveWoltOrder(p)
  <2> DEFINE status == MapStatus(o, handler[p].snap)
  <2>1. /\ handler[p].pc = "create" /\ UNCHANGED platformVars /\ ~ Mends(p, o)
    BY <1>5 DEF SaveWoltOrder, Mends
  <2>2. /\ handler[p].snap \in had[o] /\ had[o] \subseteq WoltStatuses /\ "refunded" \notin had[o]
        /\ handler[p].snap = wolt[o] \/ SyncPending(o)
    BY <1>1, <1>2, <2>1 DEF HandlerOK, IInv, TypeOK, Follows, Followed, WritesLatest
  <2>3. status # Unmapped /\ status # NoRow /\ Latest(o, status)
    BY <2>2, OrderTypeAssumption DEF MapStatus, WoltStatuses, Unmapped, NoRow, Latest
  <2>4. CASE db[o] = NoRow
    <3>1. /\ db' = [db EXCEPT ![o] = status]
          /\ handler' = [handler EXCEPT ![p].pc = "products", ![p].snap = "none"]
      BY <1>1, <1>5, <2>3, <2>4 DEF SaveWoltOrder, RowAccepted
    <3>2. /\ RunsOnly(p) /\ db'[o] = status /\ \A x \in Orders \ {o} : db'[x] = db[x]
          /\ handler'[p].pc = "products" /\ handler'[p].after = handler[p].after
          /\ handler'[p].order = o /\ handler'[p].status = handler[p].status
      BY <1>1, <1>2, <3>1 DEF IInv, TypeOK, Handler, RunsOnly, PCs
    <3>3. WritesLatest(p)'
      BY <1>1, <1>2, <2>1, <3>2, LatestStays DEF WritesLatest
    <3>4. Latest(o, db[o])'
      BY <2>1, <2>3, <3>2 DEF Latest, SyncPending, platformVars
    <3>5. Followed(o)'
      BY <2>1, <2>3, <3>2, <3>4 DEF Follows, Followed, platformVars
    <3>. QED  BY <1>1, <2>1, <3>2, <3>3, <3>5, OwnStep
  <2>5. CASE db[o] # NoRow
    <3>1. Finish(p) /\ UNCHANGED db
      BY <1>1, <1>5, <2>5 DEF SaveWoltOrder, RowAccepted
    <3>2. Latest(o, db[o])
      BY <1>1, <1>2, <1>9, <2>1, <2>5 DEF Follows, Followed
    <3>. QED  BY <1>1, <2>1, <2>5, <3>1, <3>2, FinishFollows
  <2>. QED  BY <2>4, <2>5
<1>6. CASE SaveProducts(p)
  <2>1. /\ handler[p].pc = "products" /\ UNCHANGED <<platformVars, db>>
        /\ ~ Saves(p, o) /\ ~ Mends(p, o)
    BY <1>6 DEF SaveProducts, Saves, Mends
  <2>2. WritesLatest(p)' /\ RunsOnly(p) /\ handler'[p].order = o
    BY <1>1, <1>2, <1>6, <2>1, GotoKeeps, LatestStays DEF SaveProducts, WritesLatest, PCs
  <2>. QED  BY <1>0, <1>1, <2>1, <2>2, NothingOwed, GoesOnFollows
<1>7. CASE AnnounceNewOrder(p) \/ NotifyChange(p)
  <2>1. /\ Finish(p) /\ UNCHANGED <<platformVars, db>> /\ ~ Saves(p, o) /\ ~ Mends(p, o)
    BY <1>7 DEF AnnounceNewOrder, NotifyChange, Saves, Mends
  <2>. QED  BY <1>0, <1>1, <2>1, NothingOwed, FinishFollows
<1>8. ~ PickupEtaMissing(p)
  BY DEF PickupEtaMissing, Undisturbed
<1>. QED  BY <1>3, <1>4, <1>5, <1>6, <1>7, <1>8 DEF WebhookStep

\* The row of o is as the synchronisation wants it, and the caller goes on.
LEMMA ReturnFollows ==
    ASSUME IInv, Follows, NEW p \in Procs, NEW o \in Orders, handler[p].order = o,
           handler[p].pc \in {"syncFind", "syncWrite"}, Return(p), UNCHANGED platformVars,
           \A x \in Orders \ {o} : db'[x] = db[x], db'[o] # NoRow, Latest(o, db'[o])
    PROVE  Follows'
<1>1. /\ handler[p].after \in {"idle", "notify", "store"} /\ WritesLatest(p)
      /\ wolt[o] # "absent" /\ "refunded" \notin had[o]
  BY DEF IInv, HandlerOK, Follows, Followed
<1>2. CASE handler[p].after = "idle"
  BY <1>2, FinishFollows DEF Return
<1>3. CASE handler[p].after \in {"notify", "store"}
  <2>1. /\ RunsOnly(p) /\ handler'[p].pc = handler[p].after /\ handler'[p].after = "none"
        /\ handler'[p].order = o /\ handler'[p].status = handler[p].status
    BY <1>3, ReturnKeeps
  <2>2. WritesLatest(p)'
    BY <1>1, <1>3, <2>1, LatestStays DEF WritesLatest
  <2>3. Latest(o, db[o])'
    BY DEF Latest, SyncPending, platformVars
  <2>4. Followed(o)'
    BY <1>1, <2>3 DEF Followed, platformVars
  <2>. QED  BY <2>1, <2>2, <2>4, OwnStep
<1>. QED  BY <1>1, <1>2, <1>3

LEMMA SyncFollows ==
    ASSUME NoOverlap, IInv, Follows, NEW p \in Procs, SyncStep(p)
    PROVE  Follows'
<1> USE DEF At
<1>0. handler[p].pc \in {"sync", "syncFind", "syncWrite"}
  BY DEF SyncStep, SyncFetch, SyncFind, SyncWrite
<1>1. PICK o \in Orders : handler[p].order = o
  BY <1>0 DEF IInv, HandlerOK
<1>2. /\ handler[p] \in Handler /\ HandlerOK(p) /\ WritesLatest(p) /\ wolt[o] # "absent"
      /\ Mends(p, o) /\ ~ Saves(p, o)
  BY <1>0, <1>1 DEF IInv, TypeOK, Follows, HandlerOK, Mends, Saves
<1>3. db[o] = NoRow => [order |-> o, status |-> "CREATED"] \in webhooks
  BY <1>0, <1>1, <1>2, OthersAway DEF Follows, Followed
<1>4. CASE SyncFetch(p)
  <2>1. /\ UNCHANGED <<platformVars, db>> /\ RunsOnly(p) /\ handler[p].pc = "sync"
        /\ handler'[p].pc = "syncFind" /\ handler'[p].order = o /\ handler'[p].snap = wolt[o]
        /\ handler'[p].status = handler[p].status /\ handler'[p].after = handler[p].after
    <3>1. wolt[o] \in WoltStatuses
      BY <1>2 DEF IInv, TypeOK
    <3>. QED  BY <1>1, <1>2, <1>4, <3>1
              DEF SyncFetch, RunsOnly, IInv, TypeOK, Handler, PCs, storeVars
  <2>2. Mends(p, o)' /\ WritesLatest(p)'
    BY <1>1, <1>2, <2>1, LatestStays DEF Mends, WritesLatest, platformVars
  <2>. QED  BY <1>1, <1>3, <2>1, <2>2, GoesOnFollows
<1>5. CASE SyncFind(p)
  <2>1. handler[p].pc = "syncFind" /\ UNCHANGED <<platformVars, db>>
    BY <1>5 DEF SyncFind, storeVars
  <2>2. CASE db[o] = NoRow
    BY <1>1, <1>3, <1>5, <2>1, <2>2, FinishFollows DEF SyncFind
  <2>3. CASE db[o] # NoRow /\ Return(p) /\ db[o] = PickedUp
    BY <1>1, <2>1, <2>3, ReturnFollows DEF Latest
  <2>4. CASE Goto(p, "syncWrite")
    <3>1. Mends(p, o)' /\ WritesLatest(p)' /\ RunsOnly(p) /\ handler'[p].order = o
      BY <1>1, <1>2, <2>1, <2>4, GotoKeeps, LatestStays DEF Mends, WritesLatest, PCs, platformVars
    <3>. QED  BY <1>1, <1>3, <2>1, <3>1, GoesOnFollows
  <2>. QED  BY <1>1, <1>5, <2>2, <2>3, <2>4 DEF SyncFind
<1>6. CASE SyncWrite(p)
  <2> DEFINE status == MapStatus(o, handler[p].snap)
  <2>1. /\ handler[p].pc = "syncWrite" /\ UNCHANGED platformVars /\ Return(p)
        /\ db' = [db EXCEPT ![o] = IF status = Unmapped THEN @ ELSE status]
    BY <1>1, <1>6 DEF SyncWrite
  <2>2. /\ handler[p].snap \in had[o] /\ had[o] \subseteq WoltStatuses /\ "refunded" \notin had[o]
        /\ handler[p].snap = wolt[o] \/ SyncPending(o)
    BY <1>1, <1>2, <2>1 DEF HandlerOK, IInv, TypeOK, Follows, Followed, WritesLatest
  <2>3. status # Unmapped /\ status # NoRow /\ Latest(o, status)
    BY <2>2, OrderTypeAssumption DEF MapStatus, WoltStatuses, Unmapped, NoRow, Latest
  <2>4. db'[o] = status /\ \A x \in Orders \ {o} : db'[x] = db[x]
    BY <2>1, <2>3 DEF IInv, TypeOK
  <2>. QED  BY <1>1, <2>1, <2>3, <2>4, ReturnFollows
<1>. QED  BY <1>4, <1>5, <1>6 DEF SyncStep

\* A granted request leads Wolt to a status of the column.
LEMMA GrantedNotRefunded ==
    ASSUME NEW o \in Orders, NEW status \in OrderStatuses,
           NEW row \in OrderStatuses \union {"none"}, Grants(o, Endpoint(status, row))
    PROVE  Target(Endpoint(status, row)) # "refunded"
<1>1. MapStatus(o, "refunded") \notin OrderStatuses
  BY DEF MapStatus, OrderStatuses, Unmapped
<1>. QED  BY <1>1, GrantedStatus

LEMMA DeviceFollows ==
    ASSUME Undisturbed, NoOverlap, IInv, Follows, NEW p \in Procs, DeviceStep(p)
    PROVE  Follows'
<1> USE DEF At
<1>0. handler[p].pc \in {"read", "put", "eta", "store"}
  BY DEF DeviceStep, ReadOrder, PutGranted, PutRefused, PutFails, SyncPickupTime, StoreStatus
<1>1. PICK o \in Orders : handler[p].order = o
  BY <1>0 DEF IInv, HandlerOK
<1>2. /\ handler[p] \in Handler /\ HandlerOK(p) /\ WritesLatest(p)
      /\ wolt[o] # "absent" /\ db[o] # NoRow
  BY <1>0, <1>1 DEF IInv, TypeOK, Follows, HandlerOK
<1>3. CASE ReadOrder(p)
  <2>1. /\ handler[p].pc = "read" /\ UNCHANGED <<platformVars, db>>
        /\ ~ Saves(p, o) /\ ~ Mends(p, o)
    BY <1>3 DEF ReadOrder, storeVars, Saves, Mends
  <2>2. Latest(o, db[o])
    BY <1>0, <1>1, <1>2, <2>1, NothingOwed
  <2>3. CASE Finish(p)
    BY <1>1, <1>2, <2>1, <2>2, <2>3, FinishFollows
  <2>4. CASE ~ Finish(p)
    <3>1. PICK next \in {"store", "put"}, row \in OrderStatuses \union {"none"} :
            /\ handler' = [handler EXCEPT ![p].row = row, ![p].pc = next]
            /\ next = "store" => handler[p].status = PickedUp
      <4>1. db[o] \in OrderStatuses
        BY <1>2 DEF IInv, TypeOK
      <4>. QED  BY <1>1, <1>3, <2>4, <4>1 DEF ReadOrder
    <3>2. /\ RunsOnly(p) /\ handler'[p].pc = next /\ handler'[p].order = o
          /\ handler'[p].status = handler[p].status /\ handler'[p].after = handler[p].after
      BY <1>1, <1>2, <3>1, ZenonT(30) DEF RunsOnly, IInv, TypeOK, Handler, PCs
    <3>3. next = "store" => Latest(o, handler[p].status)
      BY <3>1 DEF Latest
    <3>4. WritesLatest(p)'
      BY <1>1, <1>2, <2>1, <3>2, <3>3, LatestStays DEF WritesLatest
    <3>. QED  BY <1>1, <1>2, <2>1, <2>2, <3>2, <3>4, GoesOnFollows
  <2>. QED  BY <2>3, <2>4
<1>4. CASE PutGranted(p)
  <2> DEFINE endpoint == Endpoint(handler[p].status, handler[p].row)
             s == Target(endpoint)
  <2>1. /\ handler[p].pc = "put" /\ Grants(o, endpoint) /\ Becomes(o, s, Hooks(endpoint))
        /\ UNCHANGED db
    BY <1>1, <1>4 DEF PutGranted, storeVars
  <2>2. handler[p].status \in OrderStatuses /\ handler[p].row \in OrderStatuses \union {"none"}
    BY <1>2, <2>1 DEF HandlerOK, Handler
  <2>3. s # "refunded" /\ MapStatus(o, s) = handler[p].status
    BY <2>1, <2>2, GrantedStatus, GrantedNotRefunded
  <2> HIDE DEF endpoint, s
  <2>4. PICK step \in {"eta", "store"} :
          handler' = [handler EXCEPT ![p].pc = step, ![p].row = "none"]
    BY <1>4 DEF PutGranted
  <2>5. /\ RunsOnly(p) /\ handler'[p].pc = step /\ handler'[p].order = o
        /\ handler'[p].status = handler[p].status
    BY <1>1, <1>2, <2>4, ZenonT(30) DEF RunsOnly, IInv, TypeOK, Handler, PCs
  <2>6. /\ \A x \in Orders \ {o} : wolt'[x] = wolt[x] /\ had'[x] = had[x]
        /\ wolt'[o] = s /\ had'[o] = had[o] \union {s} /\ webhooks \subseteq webhooks'
    BY <2>1 DEF Becomes, IInv, TypeOK
  <2>7. \A x \in Orders \ {o} : SyncPending(x) => SyncPending(x)'
    BY <2>6 DEF SyncPending
  <2>8. ASSUME NEW q \in Procs PROVE WritesLatest(q)'
    <3>1. CASE q = p
      BY <2>3, <2>5, <2>6, <3>1 DEF WritesLatest, Latest
    <3>2. CASE q # p /\ handler[q].pc = "idle"
      BY <2>5, <3>2 DEF RunsOnly, WritesLatest, IInv, HandlerOK
    <3>3. CASE q # p /\ handler[q].pc # "idle"
      <4>1. handler[q].order \in Orders \ {o}
        BY <1>0, <1>1, <3>3, OthersAway DEF IInv, HandlerOK
      <4>. QED  BY <2>5, <2>6, <2>7, <3>3, <4>1, OthersWrite DEF RunsOnly
    <3>. QED  BY <3>1, <3>2, <3>3
  <2>9. ASSUME NEW x \in Orders PROVE Followed(x)'
    <3>1. CASE x = o
      <4>1. Mends(p, o)'
        BY <2>5 DEF Mends
      <4>. QED  BY <1>2, <2>1, <2>3, <2>6, <3>1, <4>1 DEF Follows, Followed
    <3>2. CASE x # o
      <4>1. \A q \in Procs : (Saves(q, x) => Saves(q, x)') /\ (Mends(q, x) => Mends(q, x)')
        BY <1>1, <2>5, <3>2 DEF RunsOnly, Saves, Mends
      <4>. QED  BY <2>1, <2>6, <2>7, <3>2, <4>1, StaysFollowed DEF Follows
    <3>. QED  BY <3>1, <3>2
  <2>. QED  BY <2>8, <2>9 DEF Follows
<1>5. CASE PutRefused(p)
  <2>1. /\ handler[p].pc = "put" /\ UNCHANGED <<platformVars, db>> /\ SyncAndThrow(p)
        /\ ~ Saves(p, o) /\ ~ Mends(p, o)
    BY <1>5 DEF PutRefused, storeVars, Saves, Mends
  <2>2. Latest(o, db[o])
    BY <1>0, <1>1, <1>2, <2>1, NothingOwed
  <2>3. /\ RunsOnly(p) /\ handler'[p].pc = "sync" /\ handler'[p].after = "idle"
        /\ handler'[p].order = o
    BY <1>1, <1>2, <2>1 DEF SyncAndThrow, RunsOnly, IInv, TypeOK, Handler, PCs
  <2>4. WritesLatest(p)'
    BY <2>3 DEF WritesLatest
  <2>. QED  BY <1>1, <1>2, <2>1, <2>2, <2>3, <2>4, GoesOnFollows
<1>6. CASE SyncPickupTime(p)
  <2>1. handler[p].pc = "eta" /\ UNCHANGED <<platformVars, db>>
    BY <1>6 DEF SyncPickupTime, storeVars
  <2>2. /\ RunsOnly(p) /\ handler'[p].pc \in {"sync", "store"} /\ handler'[p].order = o
        /\ handler'[p].status = handler[p].status
    BY <1>1, <1>2, <1>6 DEF SyncPickupTime, RunsOnly, IInv, TypeOK, Handler, PCs, Goto
  <2>3. Mends(p, o)' /\ WritesLatest(p)'
    BY <1>1, <1>2, <2>1, <2>2, LatestStays DEF Mends, WritesLatest
  <2>. QED  BY <1>1, <1>2, <2>1, <2>2, <2>3, GoesOnFollows
<1>7. CASE StoreStatus(p)
  <2>1. /\ handler[p].pc = "store" /\ Finish(p) /\ UNCHANGED platformVars
        /\ db' = [db EXCEPT ![o] = handler[p].status]
    BY <1>1, <1>7 DEF StoreStatus
  <2>2. Latest(o, handler[p].status) /\ handler[p].status \in Truthful(o)
    BY <1>1, <1>2, <2>1 DEF WritesLatest, HandlerOK
  <2>3. handler[p].status # NoRow
    <3>1. \A s \in had[o] : MapStatus(o, s) \in OrderStatuses \union {Unmapped}
      BY MapStatusType DEF IInv, TypeOK
    <3>. QED  BY <2>2, <3>1 DEF Truthful, OrderStatuses, NoRow, PickedUp
  <2>4. db'[o] = handler[p].status /\ \A x \in Orders \ {o} : db'[x] = db[x]
    BY <2>1 DEF IInv, TypeOK
  <2>. QED  BY <1>1, <2>1, <2>2, <2>3, <2>4, FinishFollows
<1>8. ~ PutFails(p)
  BY DEF PutFails, Undisturbed
<1>. QED  BY <1>3, <1>4, <1>5, <1>6, <1>7, <1>8 DEF DeviceStep

LEMMA StepFollows ==
    ASSUME Undisturbed, NoOverlap, NoOverlap', IInv, Follows, [Next]_vars
    PROVE  Follows'
<1>1. CASE \E o \in Orders : Platform(o)
  BY <1>1, WoltStepFollows
<1>2. CASE \E n \in webhooks : LoseWebhook(n) \/ \E p \in Procs : DeliverWebhook(p, n)
  BY <1>2, DeliverFollows DEF LoseWebhook, Undisturbed
<1>3. CASE \E p \in Procs : HandlerStep(p) \/ \E o \in Orders : Request(p, o)
  BY <1>3, WebhookFollows, SyncFollows, DeviceFollows, RequestFollows
     DEF HandlerStep, FetchFails, StatementFails, Undisturbed
<1>4. ~ Crash
  BY DEF Crash, Undisturbed
<1>5. CASE UNCHANGED vars
  <2>. USE <1>5 DEF vars, platformVars, storeVars
  <2>1. \A p \in Procs : WritesLatest(p)'
    BY DEF Follows, WritesLatest, Latest, SyncPending
  <2>2. \A o \in Orders : Followed(o)'
    <3>1. ASSUME NEW o \in Orders PROVE SyncPending(o) => SyncPending(o)'
      BY DEF SyncPending
    <3>2. ASSUME NEW o \in Orders, NEW p \in Procs
          PROVE  (Saves(p, o) => Saves(p, o)') /\ (Mends(p, o) => Mends(p, o)')
      BY DEF Saves, Mends
    <3>. QED  BY <3>1, <3>2, StaysFollowed DEF Follows
  <2>. QED  BY <2>1, <2>2 DEF Follows
<1>. QED  BY <1>1, <1>2, <1>3, <1>4, <1>5 DEF Next

\* For any number of orders and of requests in progress: when nothing fails and no two
\* requests of one order overlap, then whatever customers, couriers and devices do and
\* however often webhooks come, a placed order has a row once nothing is in flight, with its
\* status at Wolt or "picked up".  Only an overlap or a failure can leave the row behind
\* (syncWoltOrder, updateOrder).
THEOREM SerialReflectsWoltCorrect ==
    ASSUME Undisturbed
    PROVE  Spec => SerialReflectsWolt
<1>1. Init => Follows
  BY DEF Init, Follows, Followed, WritesLatest, Idle
<1>2. IInv /\ Follows /\ NoOverlap /\ NoOverlap' /\ [Next]_vars => Follows'
  BY StepFollows
<1>3. IInv /\ Follows => DatabaseReflectsWolt
  BY DEF Follows, Followed, DatabaseReflectsWolt, Quiet, At, Saves, Mends, Latest, SyncPending
<1>. QED  BY <1>1, <1>2, <1>3, Inductive, PTL DEF Spec, SerialReflectsWolt
=============================================================================
