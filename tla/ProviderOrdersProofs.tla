------------------------ MODULE ProviderOrdersProofs ------------------------
(***************************************************************************)
(* Proofs about ProviderOrders, for every set of orders, every number of   *)
(* webhooks handled at once, every bound and every choice of what goes     *)
(* wrong.                                                                  *)
(***************************************************************************)
EXTENDS ProviderOrders, TLAPS

(***************************************************************************)
(* The inductive invariant: what holds of the handlers, and of each order. *)
(***************************************************************************)

Of(p, o, pcs) == handler[p].order = o /\ handler[p].pc \in pcs
Synchronising == {"find", "fetch", "write", "show"}

\* A row, a webhook and a handler have statuses of their order, a handler does not
\* get to a step without a row that needs one, and rows stay.
OrderOK(o) ==
    /\ IF status[o] = "absent" THEN had[o] = {} ELSE status[o] \in had[o]
    /\ IF row[o] = NoRow THEN o \notin confirmed
                         ELSE row[o] \in {MapStatus(o, s) : s \in had[o]}
    /\ \A n \in webhooks : n.order = o =>
          /\ n.status \in had[o]
          /\ n.kind = "new" => n.status = FirstStatus(o)
    /\ \A p \in Procs : handler[p].order = o =>
          /\ handler[p].pc # "idle"
          /\ handler[p].status \in had[o] /\ handler[p].carried \in had[o]
          /\ handler[p].pc = "fetchNew" => o \in Foodora
          /\ handler[p].pc \in {"validate", "create"} =>
                o \in Foodora \/ handler[p].status = FirstStatus(o)
          /\ handler[p].pc \in {"announce"} \union Synchronising => o \in Munchi
          /\ handler[p].pc \in {"products", "announce", "fetch", "write"} => row[o] # NoRow

\* An order with a row is past its announcement or has one handler on the way to
\* it; an order without has its webhook or a handler before the row.
AnnounceOK(o) ==
    /\ announced[o] \in {0, 1}
    /\ announced[o] = 1 =>
          /\ row[o] # NoRow /\ o \in items
          /\ \A p \in Procs : ~ Of(p, o, {"products", "announce"})
    /\ \A p, q \in Procs :
          Of(p, o, {"products", "announce"}) /\ Of(q, o, {"products", "announce"}) => p = q
    /\ \A p \in Procs : Of(p, o, {"announce"}) => o \in items
    /\ status[o] # "absent" /\ o \notin cut =>
          IF row[o] = NoRow
          THEN \/ \E p \in Procs : Of(p, o, {"validate", "create"})
               \/ \E n \in webhooks : n.order = o /\ n.kind = "new"
          ELSE announced[o] = 1 \/ \E p \in Procs : Of(p, o, {"products", "announce"})

\* The status the row should have.
Needs(o) == FromOrdering(status[o]) # Unmapped /\ ~ (o \in Preorders /\ status[o] = "Pending")

\* The order will be read again.
Awaits(o) ==
    \/ \E n \in webhooks : n.order = o /\ n.kind = "change" /\ ~ Ignores(n)
    \/ \E p \in Procs : Of(p, o, {"find", "fetch"})

Fresh(p, o) == handler[p].status = status[o] /\ (handler[p].confirm <=> Confirms(o, status[o]))

InSync(o) ==
    /\ row[o] = FromOrdering(status[o])
    /\ o \in confirmed <=> Confirms(o, status[o])

\* At most one synchronisation is about to write, and if the order is not to be
\* read again it writes what holds, or what holds is written.
SyncOK(o) ==
    /\ \A p, q \in Procs : Of(p, o, {"write"}) /\ Of(q, o, {"write"}) => p = q
    /\ Needs(o) /\ ~ Awaits(o) =>
          IF row[o] = NoRow
          THEN /\ status[o] = FirstStatus(o)
               /\ \A p \in Procs : Of(p, o, {"validate", "create"}) => Fresh(p, o)
          ELSE IF \E p \in Procs : Of(p, o, {"write"})
          THEN \A p \in Procs : Of(p, o, {"write"}) => Fresh(p, o)
          ELSE InSync(o)

\* One handler at most, and if no webhook is to come it carries what holds, or
\* the devices have seen what holds.
ShowOK(o) ==
    /\ \A p, q \in Procs : handler[p].order = o /\ handler[q].order = o => p = q
    /\ \A p \in Procs : handler[p].order = o => handler[p].pc \in Synchronising
    /\ (\A n \in webhooks : n.order # o) =>
          IF Busy(o)
          THEN \A p \in Procs : handler[p].order = o => handler[p].carried = status[o]
          ELSE shown[o] \in {NoRow, FromOrdering(status[o])}

OrderInv(o) ==
    /\ OrderOK(o)
    /\ o \in Munchi => AnnounceOK(o)
    /\ o \in Munchi \ stale => SyncOK(o)
    /\ o \in Munchi \ late => ShowOK(o)

IInv ==
    /\ TypeOK
    /\ \A p \in Procs : handler[p].pc # "idle" => handler[p].order \in Orders
    /\ \A o \in Orders : OrderInv(o)

(***************************************************************************)
(* The mapping of the statuses.                                            *)
(***************************************************************************)

LEMMA MappingFacts ==
    /\ \A s \in OrderingStatuses : FromOrdering(s) \in OrderStatuses \union {Unmapped}
    /\ \A s : FromFoodora(s) \in OrderStatuses
    /\ FromOrdering("absent") = Unmapped
    /\ FromOrdering("Preorder") \in OrderStatuses /\ FromOrdering("Pending") \in OrderStatuses
    /\ NoRow \notin OrderStatuses /\ Unmapped \notin OrderStatuses /\ NoRow # Unmapped
BY DEF FromOrdering, FromFoodora, OrderingStatuses, OrderStatuses, Unmapped, NoRow

LEMMA MapStatusFacts ==
    /\ \A o \in Foodora : \A s : MapStatus(o, s) \in OrderStatuses
    /\ \A o \in Munchi : /\ o \notin Foodora
                         /\ FirstStatus(o) \in {"Preorder", "Pending"}
                         /\ MapStatus(o, FirstStatus(o)) \in OrderStatuses
                         /\ \A s : MapStatus(o, s) = FromOrdering(s)
    /\ \A o \in Orders : FirstStatus(o) \in Statuses(o)
    /\ \A o \in Orders : Statuses(o) \subseteq OrderingStatuses \union FoodoraStatuses
    /\ \A o \in Orders : "absent" \notin Statuses(o)
BY OrdersAssumption, MappingFacts
   DEF MapStatus, FirstStatus, Orders, Statuses, OrderingStatuses, FoodoraStatuses

LEMMA StatusTyped ==
    ASSUME NEW o \in Orders, NEW s \in Statuses(o)
    PROVE  MapStatus(o, s) \in OrderStatuses \union {Unmapped}
BY OrdersAssumption, MappingFacts DEF MapStatus, Statuses, Orders

LEMMA ToOrderingTyped ==
    \A o, s : ToOrdering(o, s) \in OrderingStatuses \union {Unmapped}
BY DEF ToOrdering, OrderingStatuses, Unmapped

LEMMA IdleTyped == Idle \in Handler /\ Idle.pc = "idle" /\ Idle.order = "none" /\ Idle.order \notin Orders
BY ConstantsAssumption DEF Idle, Handler

(***************************************************************************)
(* A step is about one order: what holds of the others stays.              *)
(***************************************************************************)

Leaves(x) ==
    /\ status'[x] = status[x] /\ had'[x] = had[x] /\ (x \in prepared' <=> x \in prepared)
    /\ row'[x] = row[x] /\ announced'[x] = announced[x] /\ shown'[x] = shown[x]
    /\ x \in confirmed' <=> x \in confirmed
    /\ x \in items' <=> x \in items
    /\ x \in stale' <=> x \in stale
    /\ x \in late' <=> x \in late
    /\ x \in cut' <=> x \in cut
    /\ \A n \in webhooks' \union webhooks : n.order = x => n \in webhooks' /\ n \in webhooks
    /\ \A p \in Procs : handler'[p].order = x \/ handler[p].order = x => handler'[p] = handler[p]

LEMMA LeftAlone ==
    ASSUME NEW x \in Orders, Leaves(x), OrderInv(x)
    PROVE  OrderInv(x)'
<1>1. OrderOK(x)'
  BY DEF OrderInv, OrderOK, Leaves
<1>2. ASSUME x \in Munchi PROVE AnnounceOK(x)'
  BY <1>2 DEF OrderInv, AnnounceOK, Of, Leaves
<1>3. ASSUME x \in Munchi \ stale' PROVE SyncOK(x)'
  <2>1. SyncOK(x)
    BY <1>3 DEF OrderInv, Leaves
  <2>2. Needs(x)' <=> Needs(x)
    BY DEF Needs, Leaves
  <2>3. Awaits(x)' <=> Awaits(x)
    BY DEF Awaits, Of, Leaves, Ignores
  <2>4. InSync(x)' <=> InSync(x)
    BY DEF InSync, Confirms, Leaves
  <2>5. ASSUME NEW p \in Procs, NEW pcs
        PROVE  /\ Of(p, x, pcs)' <=> Of(p, x, pcs)
               /\ Of(p, x, pcs) => (Fresh(p, x)' <=> Fresh(p, x))
    BY DEF Of, Fresh, Confirms, Leaves
  <2>. QED  BY <2>1, <2>2, <2>3, <2>4, <2>5 DEF SyncOK, Leaves
<1>4. ASSUME x \in Munchi \ late' PROVE ShowOK(x)'
  BY <1>4 DEF OrderInv, ShowOK, Busy, Leaves
<1>. QED  BY <1>1, <1>2, <1>3, <1>4 DEF OrderInv

\* A step of the handler p of the order o.
LEMMA HandlerStep ==
    ASSUME IInv, NEW p \in Procs, NEW o \in Orders, handler[p].order \in {o, "none"},
           NEW h \in Handler, h.order \in {o, "none"},
           handler' = [handler EXCEPT ![p] = h]
    PROVE  /\ handler' \in [Procs -> Handler]
           /\ handler'[p] = h
           /\ \A q \in Procs \ {p} : handler'[q] = handler[q]
           /\ \A x \in Orders \ {o} : \A q \in Procs :
                 handler'[q].order = x \/ handler[q].order = x => handler'[q] = handler[q]
BY ConstantsAssumption DEF IInv, TypeOK

LEMMA OneOrder ==
    ASSUME IInv, NEW o \in Orders, TypeOK', OrderInv(o)',
           \A p \in Procs : handler'[p].pc # "idle" => handler'[p].order \in Orders,
           \A x \in Orders \ {o} : Leaves(x)
    PROVE  IInv'
BY LeftAlone DEF IInv

(***************************************************************************)
(* The steps of the providers and the devices.                             *)
(***************************************************************************)

LEMMA PlaceStep ==
    ASSUME IInv, NEW o \in Orders, Place(o)
    PROVE  IInv'
<1> DEFINE s == FirstStatus(o)
<1> DEFINE n == [kind |-> "new", order |-> o, status |-> s]
<1>1. /\ TypeOK /\ OrderInv(o) /\ status[o] = "absent" /\ had[o] = {}
      /\ s \in Statuses(o) /\ s # "absent" /\ n \in Notification
      /\ UNCHANGED <<prepared, storeVars, deviceVars, handler, historyVars>>
      /\ webhooks' = webhooks \union {n}
  BY MapStatusFacts DEF IInv, OrderInv, OrderOK, Place, Notify, Notification
<1>. USE <1>1 DEF storeVars, deviceVars, historyVars
<1>2. /\ status'[o] = s /\ had'[o] = {s}
      /\ \A x \in Orders : x # o => status'[x] = status[x] /\ had'[x] = had[x]
      /\ TypeOK'
  BY MapStatusFacts DEF TypeOK, Place
<1> HIDE DEF n, s
<1>3. ASSUME NEW x \in Orders \ {o} PROVE Leaves(x)
  BY <1>2 DEF Leaves, n
<1>4. /\ row[o] = NoRow
      /\ \A p \in Procs : handler[p].order # o
      /\ \A m \in webhooks : m.order # o
  BY DEF OrderInv, OrderOK
<1>5. OrderOK(o)'
  BY <1>2, <1>4 DEF OrderInv, OrderOK, n, s
<1>6. ASSUME o \in Munchi PROVE AnnounceOK(o)'
  BY <1>4, <1>6 DEF OrderInv, AnnounceOK, Of, n
<1>7. ASSUME o \in Munchi \ stale' PROVE SyncOK(o)'
  BY <1>2, <1>4, <1>7 DEF OrderInv, SyncOK, Of, s
<1>8. ASSUME o \in Munchi \ late' PROVE ShowOK(o)'
  BY <1>4, <1>8 DEF OrderInv, ShowOK, n
<1>9. OrderInv(o)'
  BY <1>5, <1>6, <1>7, <1>8 DEF OrderInv
<1>. QED  BY <1>2, <1>3, <1>9, OneOrder DEF IInv

\* An order of a provider gets a status it has not had.
LEMMA BecomesStep ==
    ASSUME IInv, NEW o \in Orders, NEW s \in Statuses(o), Becomes(o, s), status[o] # "absent",
           prepared' \in {prepared, prepared \union {o}},
           UNCHANGED <<storeVars, deviceVars, handler, historyVars>>
    PROVE  IInv'
<1> DEFINE n == [kind |-> "change", order |-> o, status |-> s]
<1>1. /\ TypeOK /\ OrderInv(o) /\ s # "absent" /\ n \in Notification
      /\ webhooks' = webhooks \union {n} /\ n.order = o /\ n.kind = "change" /\ n.status = s
  BY MapStatusFacts DEF IInv, Becomes, Notify, Notification
<1>. USE <1>1 DEF storeVars, deviceVars, historyVars
<1> HIDE DEF n
<1>2. /\ status'[o] = s /\ had'[o] = had[o] \union {s}
      /\ \A x \in Orders : x # o => status'[x] = status[x] /\ had'[x] = had[x]
      /\ TypeOK'
  BY MapStatusFacts DEF TypeOK, Becomes
<1>3. ASSUME NEW x \in Orders \ {o} PROVE Leaves(x)
  BY <1>2 DEF Leaves
<1>5. OrderOK(o)'
  BY <1>2 DEF OrderInv, OrderOK
<1>6. ASSUME o \in Munchi PROVE AnnounceOK(o)'
  <2>1. AnnounceOK(o)
    BY <1>6 DEF OrderInv
  <2>. QED  BY <2>1 DEF AnnounceOK, Of
<1>7. ASSUME o \in Munchi \ stale' PROVE SyncOK(o)'
  <2>1. SyncOK(o)
    BY <1>7 DEF OrderInv
  <2>2. Needs(o)' => Awaits(o)'
    BY <1>2 DEF Needs, Awaits, Ignores
  <2>. QED  BY <2>1, <2>2 DEF SyncOK, Of
<1>8. ASSUME o \in Munchi \ late' PROVE ShowOK(o)'
  BY <1>8 DEF OrderInv, ShowOK
<1>9. OrderInv(o)'
  BY <1>5, <1>6, <1>7, <1>8 DEF OrderInv
<1>. QED  BY <1>2, <1>3, <1>9, OneOrder DEF IInv

\* An order of Ordering is given its prepared_in and keeps its status.
LEMMA PreparedStep ==
    ASSUME IInv, NEW o \in Munchi, status[o] # "absent",
           prepared' = prepared \union {o}, Notify(o, "change", status[o]),
           UNCHANGED <<status, had, storeVars, deviceVars, handler, historyVars>>
    PROVE  IInv'
<1> DEFINE n == [kind |-> "change", order |-> o, status |-> status[o]]
<1>1. /\ o \in Orders /\ TypeOK /\ OrderInv(o) /\ status[o] \in had[o] /\ n \in Notification
      /\ webhooks' = webhooks \union {n}
      /\ n.order = o /\ n.kind = "change" /\ n.status = status[o]
  BY DEF IInv, OrderInv, OrderOK, Notify, Notification, Orders, TypeOK
<1>. USE <1>1 DEF storeVars, deviceVars, historyVars
<1> HIDE DEF n
<1>2. TypeOK'
  BY DEF TypeOK
<1>3. ASSUME NEW x \in Orders \ {o} PROVE Leaves(x)
  BY DEF Leaves
<1>5. OrderOK(o)'
  BY DEF OrderInv, OrderOK
<1>6. AnnounceOK(o)'
  <2>1. AnnounceOK(o)
    BY DEF OrderInv
  <2>. QED  BY <2>1 DEF AnnounceOK, Of
<1>7. ASSUME o \in Munchi \ stale' PROVE SyncOK(o)'
  <2>1. SyncOK(o)
    BY <1>7 DEF OrderInv
  <2>2. Needs(o)' => Awaits(o)'
    BY DEF Needs, Awaits, Ignores
  <2>. QED  BY <2>1, <2>2 DEF SyncOK, Of
<1>8. ASSUME o \in Munchi \ late' PROVE ShowOK(o)'
  BY <1>8 DEF OrderInv, ShowOK
<1>9. OrderInv(o)'
  BY <1>5, <1>6, <1>7, <1>8 DEF OrderInv
<1>. QED  BY <1>2, <1>3, <1>9, OneOrder DEF IInv

LEMMA UpdateOrderingStep ==
    ASSUME IInv, NEW o \in Orders, NEW s, UpdateOrdering(o, s)
    PROVE  IInv'
<1> DEFINE t == ToOrdering(o, s)
<1>1. CASE s = "preorder" \/ t = Unmapped
  BY <1>1, PreparedStep DEF UpdateOrdering
<1>2. CASE ~ (s = "preorder" \/ t = Unmapped)
  <2>1. t \in Statuses(o)
    BY <1>2, ToOrderingTyped, OrdersAssumption DEF UpdateOrdering, Statuses, Orders
  <2>. QED  BY <1>2, <2>1, BecomesStep DEF UpdateOrdering
<1>. QED  BY <1>1, <1>2

LEMMA LoseWebhookStep ==
    ASSUME IInv, NEW n \in webhooks, LoseWebhook(n)
    PROVE  IInv'
<1> DEFINE o == n.order
<1>1. /\ o \in Orders /\ TypeOK /\ OrderInv(o) /\ o \in stale' /\ o \in late'
      /\ webhooks' = webhooks \ {n}
      /\ cut' = IF n.kind = "new" THEN cut \union {n.order} ELSE cut
      /\ UNCHANGED <<providerVars, storeVars, deviceVars, handler>>
  BY DEF IInv, TypeOK, Notification, LoseWebhook
<1>. USE <1>1 DEF providerVars, storeVars, deviceVars
<1>2. TypeOK'
  BY DEF TypeOK, LoseWebhook
<1>3. ASSUME NEW x \in Orders \ {o} PROVE Leaves(x)
  BY DEF Leaves, LoseWebhook
<1>5. OrderOK(o)'
  BY DEF OrderInv, OrderOK
<1>6. ASSUME o \in Munchi PROVE AnnounceOK(o)'
  BY <1>6 DEF OrderInv, AnnounceOK, Of
<1>9. OrderInv(o)'
  BY <1>5, <1>6 DEF OrderInv
<1>. QED  BY <1>2, <1>3, <1>9, OneOrder DEF IInv

(***************************************************************************)
(* The steps of the handlers.                                              *)
(***************************************************************************)

LEMMA DeliverStep ==
    ASSUME IInv, NEW p \in Procs, NEW n \in webhooks, Deliver(p, n)
    PROVE  IInv'
<1> DEFINE o == n.order
<1> DEFINE h == IF Step(n) = "idle" THEN Idle
                ELSE [pc |-> Step(n), order |-> o, status |-> n.status,
                      confirm |-> Confirms(o, n.status), carried |-> n.status]
<1>1. /\ TypeOK /\ n \in Notification /\ o \in Orders /\ OrderInv(o)
      /\ handler[p].pc = "idle"
      /\ handler' = [handler EXCEPT ![p] = h]
      /\ webhooks' \in {webhooks, webhooks \ {n}}
      /\ UNCHANGED <<providerVars, storeVars, deviceVars, stale, cut>>
  BY DEF IInv, TypeOK, Notification, Deliver, Handles
<1>. USE <1>1 DEF providerVars, storeVars, deviceVars
<1>2. /\ handler[p].order \notin Orders
      /\ \A x \in Orders : \A pcs : ~ Of(p, x, pcs)
  BY DEF IInv, OrderInv, OrderOK, Of
<1>3. /\ h \in Handler
      /\ IF Step(n) = "idle" THEN h = Idle
         ELSE /\ h.pc = Step(n) /\ h.order = o /\ h.status = n.status /\ h.carried = n.status
              /\ h.confirm = Confirms(o, n.status)
  BY IdleTyped DEF Handler, Notification, Step, Confirms
<1>4. /\ h.pc = "idle" => h.order \notin Orders
      /\ h.pc # "idle" => h.order = o /\ h.status = n.status /\ h.carried = n.status
                          /\ (h.confirm <=> Confirms(o, n.status)) /\ h.pc = Step(n)
      /\ h.pc = IF o \in Foodora THEN "fetchNew"
                ELSE IF n.kind = "new" THEN "validate"
                ELSE IF Ignores(n) THEN "idle" ELSE "find"
  BY <1>3, IdleTyped DEF Step
<1> HIDE DEF h
<1>5. /\ handler' \in [Procs -> Handler] /\ handler'[p] = h
      /\ \A q \in Procs \ {p} : handler'[q] = handler[q]
  BY <1>3 DEF TypeOK
<1>6. TypeOK'
  BY <1>5 DEF TypeOK, Deliver
<1>7. ASSUME NEW x \in Orders \ {o} PROVE Leaves(x)
  BY <1>2, <1>4, <1>5 DEF Leaves, Deliver
<1>8. OrderOK(o)'
  <2>1. OrderOK(o)
    BY DEF OrderInv
  <2>2. h.order = o => /\ h.pc = IF o \in Foodora THEN "fetchNew" ELSE
                                 IF n.kind = "new" THEN "validate" ELSE "find"
                       /\ h.status \in had[o] /\ h.carried \in had[o]
                       /\ n.kind = "new" => h.status = FirstStatus(o)
                       /\ o \in Foodora \/ o \in Munchi
    BY <1>4, <2>1 DEF OrderOK, Orders
  <2>. QED  BY <2>1, <2>2, <1>5 DEF OrderOK, Synchronising
<1>9. ASSUME o \in Munchi PROVE AnnounceOK(o)'
  <2>1. AnnounceOK(o) /\ o \notin Foodora
    BY <1>9, OrdersAssumption DEF OrderInv
  <2>2. \A q \in Procs : Of(q, o, {"products", "announce"})' <=> Of(q, o, {"products", "announce"})
    BY <1>2, <1>4, <1>5, <2>1 DEF Of
  <2>3. \A q \in Procs : Of(q, o, {"announce"})' <=> Of(q, o, {"announce"})
    BY <1>2, <1>4, <1>5, <2>1 DEF Of
  <2>4. \A q \in Procs : Of(q, o, {"validate", "create"}) => Of(q, o, {"validate", "create"})'
    BY <1>2, <1>5 DEF Of
  <2>5. n.kind = "new" => Of(p, o, {"validate", "create"})'
    BY <1>4, <1>5, <2>1 DEF Of
  <2>. QED  BY <2>1, <2>2, <2>3, <2>4, <2>5 DEF AnnounceOK
<1>10. ASSUME o \in Munchi \ stale' PROVE SyncOK(o)'
  <2>1. SyncOK(o) /\ o \notin Foodora
    BY <1>10, OrdersAssumption DEF OrderInv
  <2>2. \A q \in Procs : /\ Of(q, o, {"write"})' <=> Of(q, o, {"write"})
                         /\ Of(q, o, {"write"}) => (Fresh(q, o)' <=> Fresh(q, o))
    BY <1>2, <1>4, <1>5, <2>1 DEF Of, Fresh, Confirms
  <2>3. Awaits(o) => Awaits(o)'
    <3>1. \A q \in Procs : Of(q, o, {"find", "fetch"}) => Of(q, o, {"find", "fetch"})'
      BY <1>2, <1>5 DEF Of
    <3>2. n.kind = "change" /\ ~ Ignores(n) => Of(p, o, {"find", "fetch"})'
      BY <1>4, <1>5, <2>1 DEF Of
    <3>. QED  BY <3>1, <3>2 DEF Awaits, Ignores
  <2>4. \A q \in Procs \ {p} : /\ Of(q, o, {"validate", "create"})' <=> Of(q, o, {"validate", "create"})
                               /\ Of(q, o, {"validate", "create"}) => (Fresh(q, o)' <=> Fresh(q, o))
    BY <1>5 DEF Of, Fresh, Confirms
  <2>5. Of(p, o, {"validate", "create"})' /\ status[o] = FirstStatus(o) => Fresh(p, o)'
    BY <1>4, <1>5, <2>1 DEF Of, Fresh, Confirms, OrderInv, OrderOK
  <2>6. /\ Needs(o)' <=> Needs(o)
        /\ InSync(o)' <=> InSync(o)
    BY DEF Needs, InSync, Confirms
  <2>. QED  BY <2>1, <2>2, <2>3, <2>4, <2>5, <2>6 DEF SyncOK
<1>11. ASSUME o \in Munchi \ late' PROVE ShowOK(o)'
  <2>1. /\ ~ Busy(o) /\ n.status = status[o] /\ Step(n) = "find"
        /\ \A m \in webhooks \ {n} : m.order # o
    BY <1>11 DEF Deliver, Overtakes
  <2>2. \A q \in Procs \ {p} : handler'[q].order # o
    BY <2>1, <1>5 DEF Busy
  <2>3. h.order = o /\ h.pc = "find" /\ h.carried = status[o]
    BY <2>1, <1>3
  <2>. QED  BY <2>2, <2>3, <1>5 DEF Busy, ShowOK, Synchronising
<1>12. OrderInv(o)'
  BY <1>8, <1>9, <1>10, <1>11 DEF OrderInv
<1>. QED  BY <1>4, <1>5, <1>6, <1>7, <1>12, OneOrder DEF IInv

\* The handler p of the order o ends without a trace, as it may: a new order is
\* taken by now, or is one of Foodora.
LEMMA EndsStep ==
    ASSUME IInv, NEW p \in Procs, handler[p].pc \in {"fetchNew", "validate", "create"}, Finish(p),
           handler[p].order \in Foodora \/ row[handler[p].order] # NoRow,
           UNCHANGED <<providerVars, webhooks, storeVars, deviceVars, historyVars>>
    PROVE  IInv'
<1>0. PICK o \in Orders : handler[p].order = o
  BY DEF IInv, FetchNew, Validate, Handles
<1>1. /\ handler[p].order = o /\ TypeOK /\ OrderInv(o)
      /\ handler' = [handler EXCEPT ![p] = Idle]
  BY <1>0 DEF IInv, Finish
<1>. USE <1>1 DEF providerVars, storeVars, deviceVars, historyVars
<1>2. /\ handler' \in [Procs -> Handler]
      /\ handler'[p] = Idle
      /\ \A q \in Procs \ {p} : handler'[q] = handler[q]
      /\ \A x \in Orders \ {o} : \A q \in Procs :
            handler'[q].order = x \/ handler[q].order = x => handler'[q] = handler[q]
  BY <1>1, IdleTyped, HandlerStep
<1>3. TypeOK'
  BY <1>2 DEF TypeOK
<1>4. ASSUME NEW x \in Orders \ {o} PROVE Leaves(x)
  BY <1>2 DEF Leaves
<1>5. OrderOK(o)'
  BY <1>2, IdleTyped DEF OrderInv, OrderOK
<1>6. ASSUME o \in Munchi PROVE AnnounceOK(o)'
  <2>1. AnnounceOK(o) /\ row[o] # NoRow
    BY <1>6, OrdersAssumption DEF OrderInv
  <2>. QED  BY <2>1, <1>2, IdleTyped DEF AnnounceOK, Of
<1>7. ASSUME o \in Munchi \ stale' PROVE SyncOK(o)'
  <2>1. SyncOK(o) /\ row[o] # NoRow
    BY <1>7, OrdersAssumption DEF OrderInv
  <2>2. Awaits(o)' <=> Awaits(o)
    BY <1>2, IdleTyped DEF Awaits, Of, Ignores
  <2>3. \A q \in Procs : /\ Of(q, o, {"write"})' <=> Of(q, o, {"write"})
                         /\ Of(q, o, {"write"}) => (Fresh(q, o)' <=> Fresh(q, o))
    BY <1>2, IdleTyped DEF Of, Fresh, Confirms
  <2>. QED  BY <2>1, <2>2, <2>3 DEF SyncOK, Needs, InSync, Confirms
<1>8. ASSUME o \in Munchi \ late' PROVE ShowOK(o)'
  BY <1>8 DEF OrderInv, ShowOK, Synchronising
<1>9. OrderInv(o)'
  BY <1>5, <1>6, <1>7, <1>8 DEF OrderInv
<1>. QED  BY <1>2, <1>3, <1>4, <1>9, IdleTyped, OneOrder DEF IInv

LEMMA FetchNewStep ==
    ASSUME IInv, NEW p \in Procs, FetchNew(p)
    PROVE  IInv'
<1>0. PICK o \in Orders : handler[p].order = o
  BY DEF IInv, FetchNew, Validate, Handles
<1> DEFINE h == [handler[p] EXCEPT !.pc = "validate", !.status = status[o]]
<1>1. /\ handler[p].order = o /\ TypeOK /\ OrderInv(o) /\ handler[p].pc = "fetchNew" /\ o \in Foodora
      /\ handler[p] \in Handler /\ o \notin Munchi
      /\ UNCHANGED <<providerVars, webhooks, storeVars, deviceVars, historyVars>>
  BY <1>0, OrdersAssumption DEF IInv, FetchNew, Handles, OrderInv, OrderOK, TypeOK
<1>. USE <1>1 DEF providerVars, storeVars, deviceVars, historyVars
<1>2. CASE Finish(p)
  BY <1>2, EndsStep
<1>3. CASE handler' = [handler EXCEPT ![p] = h]
  <2>1. status[o] \in had[o] /\ status[o] \in OrderingStatuses \union FoodoraStatuses
    BY DEF OrderInv, OrderOK, TypeOK
  <2>2. /\ h \in Handler /\ h.order = o /\ h.pc = "validate" /\ h.status = status[o]
        /\ h.carried = handler[p].carried
    BY <2>1 DEF Handler
  <2> HIDE DEF h
  <2>3. /\ handler' \in [Procs -> Handler] /\ handler'[p] = h
        /\ \A q \in Procs \ {p} : handler'[q] = handler[q]
        /\ \A x \in Orders \ {o} : \A q \in Procs :
              handler'[q].order = x \/ handler[q].order = x => handler'[q] = handler[q]
    BY <1>3, <2>2, HandlerStep
  <2>4. TypeOK'
    BY <2>3 DEF TypeOK
  <2>5. ASSUME NEW x \in Orders \ {o} PROVE Leaves(x)
    BY <2>3 DEF Leaves
  <2>6. OrderInv(o)'
    BY <2>1, <2>2, <2>3 DEF OrderInv, OrderOK, Synchronising
  <2>. QED  BY <2>2, <2>3, <2>4, <2>5, <2>6, OneOrder DEF IInv
<1>. QED  BY <1>2, <1>3 DEF FetchNew

LEMMA ValidateStep ==
    ASSUME IInv, NEW p \in Procs, Validate(p)
    PROVE  IInv'
<1>0. PICK o \in Orders : handler[p].order = o
  BY DEF IInv, FetchNew, Validate, Handles
<1> DEFINE h == [handler[p] EXCEPT !.pc = "create"]
<1>1. /\ handler[p].order = o /\ TypeOK /\ OrderInv(o) /\ handler[p].pc = "validate"
      /\ handler[p] \in Handler
      /\ UNCHANGED <<providerVars, webhooks, storeVars, deviceVars, historyVars>>
  BY <1>0 DEF IInv, Validate, Handles, OrderInv, OrderOK, TypeOK
<1>. USE <1>1 DEF providerVars, storeVars, deviceVars, historyVars
<1>2. CASE row[o] # NoRow
  BY <1>2, EndsStep DEF Validate
<1>3. CASE row[o] = NoRow
  <2>2. /\ h \in Handler /\ h.order = o /\ h.pc = "create" /\ h.status = handler[p].status
        /\ h.confirm = handler[p].confirm /\ h.carried = handler[p].carried
        /\ handler' = [handler EXCEPT ![p] = h]
    BY <1>3 DEF Handler, Validate, Go
  <2> HIDE DEF h
  <2>3. /\ handler' \in [Procs -> Handler] /\ handler'[p] = h
        /\ \A q \in Procs \ {p} : handler'[q] = handler[q]
        /\ \A x \in Orders \ {o} : \A q \in Procs :
              handler'[q].order = x \/ handler[q].order = x => handler'[q] = handler[q]
    BY <2>2, HandlerStep
  <2>4. TypeOK'
    BY <2>3 DEF TypeOK
  <2>5. ASSUME NEW x \in Orders \ {o} PROVE Leaves(x)
    BY <2>3 DEF Leaves
  <2>6. OrderOK(o)'
    BY <2>2, <2>3 DEF OrderInv, OrderOK, Synchronising
  <2>7. ASSUME o \in Munchi PROVE AnnounceOK(o)'
    BY <2>2, <2>3, <2>7 DEF OrderInv, AnnounceOK, Of
  <2>8. ASSUME o \in Munchi \ stale' PROVE SyncOK(o)'
    <3>1. SyncOK(o)
      BY <2>8 DEF OrderInv
    <3>2. Awaits(o)' <=> Awaits(o)
      BY <2>2, <2>3 DEF Awaits, Of, Ignores
    <3>. QED  BY <3>1, <3>2, <1>3, <2>2, <2>3 DEF SyncOK, Of, Fresh, Confirms, Needs
  <2>9. ASSUME o \in Munchi \ late' PROVE ShowOK(o)'
    BY <2>9 DEF OrderInv, ShowOK, Synchronising
  <2>10. OrderInv(o)'
    BY <2>6, <2>7, <2>8, <2>9 DEF OrderInv
  <2>. QED  BY <2>2, <2>3, <2>4, <2>5, <2>10, OneOrder DEF IInv
<1>. QED  BY <1>2, <1>3

LEMMA CreateStep ==
    ASSUME IInv, NEW p \in Procs, Create(p)
    PROVE  IInv'
<1> DEFINE h == [handler[p] EXCEPT !.pc = "products"]
<1>0. PICK o \in Orders : handler[p].order = o
  BY DEF IInv, Create, Handles
<1>1. /\ handler[p].order = o /\ TypeOK /\ OrderInv(o) /\ handler[p].pc = "create"
      /\ handler[p] \in Handler
      /\ UNCHANGED <<providerVars, webhooks, items, deviceVars, historyVars>>
  BY <1>0 DEF IInv, Create, Handles, TypeOK
<1>. USE <1>1 DEF providerVars, storeVars, deviceVars, historyVars
<1>2. CASE ~ RowAccepted(o)
  <2>1. o \in Foodora \/ row[o] # NoRow
    BY <1>2 DEF RowAccepted
  <2>. QED  BY <1>2, <2>1, EndsStep DEF Create
<1>3. CASE RowAccepted(o)
  <2>1. /\ row[o] = NoRow
        /\ row' = [row EXCEPT ![o] = Status(p)]
        /\ confirmed' = IF handler[p].confirm THEN confirmed \union {o} ELSE confirmed
        /\ h \in Handler /\ h.order = o /\ h.pc = "products" /\ h.status = handler[p].status
        /\ h.carried = handler[p].carried /\ h.confirm = handler[p].confirm
        /\ handler' = [handler EXCEPT ![p] = h]
    BY <1>3 DEF Create, RowAccepted, Handler, Go
  <2> HIDE DEF h
  <2>2. /\ Status(p) = MapStatus(o, handler[p].status) /\ handler[p].status \in had[o]
        /\ Status(p) \in OrderStatuses
        /\ o \in Munchi => handler[p].status = FirstStatus(o)
    BY MapStatusFacts, OrdersAssumption DEF OrderInv, OrderOK, Status, Orders
  <2>3. /\ handler' \in [Procs -> Handler] /\ handler'[p] = h
        /\ \A q \in Procs \ {p} : handler'[q] = handler[q]
        /\ \A x \in Orders \ {o} : \A q \in Procs :
              handler'[q].order = x \/ handler[q].order = x => handler'[q] = handler[q]
    BY <2>1, HandlerStep
  <2>r. /\ row' \in [Orders -> OrderStatuses \union {NoRow}]
        /\ row'[o] = Status(p) /\ row'[o] # NoRow
        /\ \A x \in Orders \ {o} : row'[x] = row[x]
    BY <2>1, <2>2, MappingFacts DEF TypeOK
  <2>4. TypeOK'
    BY <2>1, <2>r, <2>3 DEF TypeOK
  <2>5. ASSUME NEW x \in Orders \ {o} PROVE Leaves(x)
    BY <2>1, <2>r, <2>3 DEF Leaves
  <2>6. OrderOK(o)'
    <3>1. OrderOK(o)
      BY DEF OrderInv
    <3>. QED  BY <3>1, <2>1, <2>2, <2>r, <2>3 DEF OrderOK, Synchronising
  <2>7. ASSUME o \in Munchi PROVE AnnounceOK(o)'
    <3>1. AnnounceOK(o) /\ OrderOK(o)
      BY <2>7 DEF OrderInv
    <3>2. announced[o] = 0 /\ \A q \in Procs : ~ Of(q, o, {"products", "announce"})
      BY <3>1, <2>1 DEF AnnounceOK, OrderOK, Of
    <3>3. \A q \in Procs : Of(q, o, {"products", "announce"})' <=> q = p
      BY <3>2, <2>1, <2>3 DEF Of
    <3>4. \A q \in Procs : ~ Of(q, o, {"announce"})'
      BY <3>2, <2>1, <2>3 DEF Of
    <3>. QED  BY <3>2, <3>3, <3>4, <2>r DEF AnnounceOK
  <2>8. ASSUME o \in Munchi \ stale' PROVE SyncOK(o)'
    <3>1. SyncOK(o) /\ OrderOK(o) /\ o \notin Foodora
      BY <2>8, OrdersAssumption DEF OrderInv
    <3>2. Awaits(o)' <=> Awaits(o)
      BY <2>1, <2>3 DEF Awaits, Of, Ignores
    <3>3. \A q \in Procs : ~ Of(q, o, {"write"})'
      BY <3>1, <2>1, <2>3 DEF OrderOK, Of
    <3>4. ASSUME Needs(o), ~ Awaits(o) PROVE InSync(o)'
      <4>1. status[o] = FirstStatus(o) /\ Fresh(p, o)
        BY <3>1, <3>4, <2>1 DEF SyncOK, Of
      <4>2. row'[o] = FromOrdering(status[o])
        BY <4>1, <3>1, <2>2, <2>r DEF MapStatus, Fresh
      <4>3. o \notin confirmed
        BY <3>1, <2>1 DEF OrderOK
      <4>. QED  BY <4>1, <4>2, <4>3, <2>1 DEF InSync, Fresh, Confirms
    <3>. QED  BY <3>2, <3>3, <3>4, <2>r DEF SyncOK, Needs
  <2>9. ASSUME o \in Munchi \ late' PROVE ShowOK(o)'
    BY <2>9 DEF OrderInv, ShowOK, Synchronising
  <2>10. OrderInv(o)'
    BY <2>6, <2>7, <2>8, <2>9 DEF OrderInv
  <2>. QED  BY <2>1, <2>3, <2>4, <2>5, <2>10, OneOrder DEF IInv
<1>. QED  BY <1>2, <1>3

LEMMA SaveProductsStep ==
    ASSUME IInv, NEW p \in Procs, SaveProducts(p)
    PROVE  IInv'
<1>0. PICK o \in Orders : handler[p].order = o
  BY DEF IInv, SaveProducts, Handles
<1> DEFINE h == IF o \in Foodora THEN Idle ELSE [handler[p] EXCEPT !.pc = "announce"]
<1>1. /\ handler[p].order = o /\ TypeOK /\ OrderInv(o) /\ handler[p].pc = "products"
      /\ handler[p] \in Handler
      /\ UNCHANGED <<providerVars, webhooks, row, confirmed, deviceVars, historyVars>>
      /\ items' = items \union {o}
      /\ handler' = [handler EXCEPT ![p] = h]
  BY <1>0 DEF IInv, SaveProducts, Handles, TypeOK, Finish, Go
<1>. USE <1>1 DEF providerVars, storeVars, deviceVars, historyVars
<1>2. /\ h \in Handler
      /\ o \in Foodora => h = Idle
      /\ o \notin Foodora => /\ h.order = o /\ h.pc = "announce" /\ h.status = handler[p].status
                             /\ h.carried = handler[p].carried
  BY IdleTyped DEF Handler
<1>a. h.order \in {o, "none"} /\ (h.pc # "idle" => h.order = o) /\ h.pc \in {"idle", "announce"}
  BY <1>2, IdleTyped
<1> HIDE DEF h
<1>3. /\ handler' \in [Procs -> Handler] /\ handler'[p] = h
      /\ \A q \in Procs \ {p} : handler'[q] = handler[q]
      /\ \A x \in Orders \ {o} : \A q \in Procs :
            handler'[q].order = x \/ handler[q].order = x => handler'[q] = handler[q]
  BY <1>2, <1>a, HandlerStep
<1>4. TypeOK'
  BY <1>3 DEF TypeOK
<1>5. ASSUME NEW x \in Orders \ {o} PROVE Leaves(x)
  BY <1>3 DEF Leaves
<1>6. OrderOK(o)'
  <2>1. OrderOK(o) /\ (o \in Munchi \/ o \in Foodora)
    BY DEF OrderInv, Orders
  <2>. QED  BY <2>1, <1>2, <1>3, IdleTyped DEF OrderOK, Synchronising
<1>7. ASSUME o \in Munchi PROVE AnnounceOK(o)'
  <2>1. AnnounceOK(o) /\ OrderOK(o) /\ h.order = o /\ h.pc = "announce"
    BY <1>2, <1>7, OrdersAssumption DEF OrderInv
  <2>2. \A q \in Procs : Of(q, o, {"products", "announce"})' <=> Of(q, o, {"products", "announce"})
    BY <2>1, <1>3 DEF Of
  <2>. QED  BY <2>1, <2>2, <1>3 DEF AnnounceOK, OrderOK, Of
<1>8. ASSUME o \in Munchi \ stale' PROVE SyncOK(o)'
  <2>1. SyncOK(o) /\ OrderOK(o) /\ h.order = o /\ h.pc = "announce"
    BY <1>2, <1>8, OrdersAssumption DEF OrderInv
  <2>2. Awaits(o)' <=> Awaits(o)
    BY <2>1, <1>3 DEF Awaits, Of, Ignores
  <2>3. \A q \in Procs : /\ Of(q, o, {"write"})' <=> Of(q, o, {"write"})
                         /\ Of(q, o, {"write"}) => (Fresh(q, o)' <=> Fresh(q, o))
    BY <2>1, <1>3 DEF Of, Fresh, Confirms
  <2>. QED  BY <2>1, <2>2, <2>3 DEF SyncOK, OrderOK, Needs, InSync, Confirms
<1>9. ASSUME o \in Munchi \ late' PROVE ShowOK(o)'
  BY <1>9 DEF OrderInv, ShowOK, Synchronising
<1>10. OrderInv(o)'
  BY <1>6, <1>7, <1>8, <1>9 DEF OrderInv
<1>. QED  BY <1>a, <1>3, <1>4, <1>5, <1>10, OneOrder DEF IInv

LEMMA AnnounceStep ==
    ASSUME IInv, NEW p \in Procs, Announce(p)
    PROVE  IInv'
<1>0. PICK o \in Orders : handler[p].order = o
  BY DEF IInv, Announce, Handles
<1>1. /\ handler[p].order = o /\ TypeOK /\ OrderInv(o) /\ handler[p].pc = "announce"
      /\ UNCHANGED <<providerVars, webhooks, storeVars, shown, historyVars>>
      /\ announced' = [announced EXCEPT ![o] = @ + 1]
      /\ handler' = [handler EXCEPT ![p] = Idle]
  BY <1>0 DEF IInv, Announce, Handles, TypeOK, Finish
<1>. USE <1>1 DEF providerVars, storeVars, deviceVars, historyVars
<1>2. /\ OrderOK(o) /\ o \in Munchi /\ AnnounceOK(o) /\ row[o] # NoRow /\ o \in items
      /\ announced[o] = 0
      /\ \A q \in Procs \ {p} : ~ Of(q, o, {"products", "announce"})
  BY DEF OrderInv, OrderOK, AnnounceOK, Of
<1>3. /\ handler' \in [Procs -> Handler] /\ handler'[p] = Idle
      /\ \A q \in Procs \ {p} : handler'[q] = handler[q]
      /\ \A x \in Orders \ {o} : \A q \in Procs :
            handler'[q].order = x \/ handler[q].order = x => handler'[q] = handler[q]
  BY IdleTyped, HandlerStep
<1>a. /\ announced' \in [Orders -> Nat] /\ announced'[o] = 1
      /\ \A x \in Orders \ {o} : announced'[x] = announced[x]
  BY <1>2 DEF TypeOK
<1>4. TypeOK'
  BY <1>3, <1>a DEF TypeOK
<1>5. ASSUME NEW x \in Orders \ {o} PROVE Leaves(x)
  BY <1>3, <1>a DEF Leaves
<1>6. OrderOK(o)'
  BY <1>2, <1>3, IdleTyped DEF OrderOK
<1>7. AnnounceOK(o)'
  BY <1>2, <1>3, <1>a, IdleTyped DEF AnnounceOK, Of
<1>8. ASSUME o \in Munchi \ stale' PROVE SyncOK(o)'
  <2>1. SyncOK(o)
    BY <1>8 DEF OrderInv
  <2>2. Awaits(o)' <=> Awaits(o)
    BY <1>3, IdleTyped DEF Awaits, Of, Ignores
  <2>3. \A q \in Procs : /\ Of(q, o, {"write"})' <=> Of(q, o, {"write"})
                         /\ Of(q, o, {"write"}) => (Fresh(q, o)' <=> Fresh(q, o))
    BY <1>3, IdleTyped DEF Of, Fresh, Confirms
  <2>. QED  BY <2>1, <2>2, <2>3, <1>2 DEF SyncOK, Needs, InSync, Confirms
<1>9. ASSUME o \in Munchi \ late' PROVE ShowOK(o)'
  BY <1>9 DEF OrderInv, ShowOK, Synchronising
<1>10. OrderInv(o)'
  BY <1>6, <1>7, <1>8, <1>9 DEF OrderInv
<1>. QED  BY <1>3, <1>4, <1>5, <1>10, IdleTyped, OneOrder DEF IInv

LEMMA FindStep ==
    ASSUME IInv, NEW p \in Procs, Find(p)
    PROVE  IInv'
<1>0. PICK o \in Orders : handler[p].order = o
  BY DEF IInv, Find, Handles
<1> DEFINE pc == IF row[o] = NoRow THEN "show" ELSE "fetch"
<1> DEFINE h == [handler[p] EXCEPT !.pc = pc]
<1>1. /\ handler[p].order = o /\ TypeOK /\ OrderInv(o) /\ handler[p].pc = "find"
      /\ handler[p] \in Handler
      /\ UNCHANGED <<providerVars, webhooks, storeVars, deviceVars, late, cut>>
      /\ stale' = IF row[o] = NoRow THEN stale \union {o} ELSE stale
      /\ handler' = [handler EXCEPT ![p] = h]
  BY <1>0 DEF IInv, Find, Handles, TypeOK, Go
<1>. USE <1>1 DEF providerVars, storeVars, deviceVars
<1>2. /\ h \in Handler /\ h.order = o /\ h.status = handler[p].status
      /\ h.carried = handler[p].carried
      /\ IF row[o] = NoRow THEN h.pc = "show" ELSE h.pc = "fetch"
  BY DEF Handler
<1> HIDE DEF h
<1>3. /\ handler' \in [Procs -> Handler] /\ handler'[p] = h
      /\ \A q \in Procs \ {p} : handler'[q] = handler[q]
      /\ \A x \in Orders \ {o} : \A q \in Procs :
            handler'[q].order = x \/ handler[q].order = x => handler'[q] = handler[q]
  BY <1>2, HandlerStep
<1>4. TypeOK'
  BY <1>3 DEF TypeOK
<1>5. ASSUME NEW x \in Orders \ {o} PROVE Leaves(x)
  BY <1>3 DEF Leaves
<1>6. OrderOK(o)'
  <2>1. OrderOK(o)
    BY DEF OrderInv
  <2>. QED  BY <2>1, <1>2, <1>3 DEF OrderOK, Synchronising
<1>7. ASSUME o \in Munchi PROVE AnnounceOK(o)'
  BY <1>7, <1>2, <1>3 DEF OrderInv, AnnounceOK, Of
<1>8. ASSUME o \in Munchi \ stale' PROVE SyncOK(o)'
  <2>1. SyncOK(o) /\ Of(p, o, {"find", "fetch"})'
    BY <1>8, <1>2, <1>3 DEF OrderInv, Of
  <2>2. Awaits(o)'
    BY <2>1 DEF Awaits
  <2>. QED  BY <2>1, <2>2, <1>2, <1>3, <1>8 DEF SyncOK, Of
<1>9. ASSUME o \in Munchi \ late' PROVE ShowOK(o)'
  BY <1>9, <1>2, <1>3 DEF OrderInv, ShowOK, Synchronising, Busy
<1>10. OrderInv(o)'
  BY <1>6, <1>7, <1>8, <1>9 DEF OrderInv
<1>. QED  BY <1>2, <1>3, <1>4, <1>5, <1>10, OneOrder DEF IInv

LEMMA FetchStep ==
    ASSUME IInv, NEW p \in Procs, Fetch(p)
    PROVE  IInv'
<1>0. PICK o \in Orders : handler[p].order = o
  BY DEF IInv, Fetch, Handles
<1> DEFINE s == status[o]
<1> DEFINE h == [handler[p] EXCEPT !.pc = "write", !.status = s, !.confirm = Confirms(o, s)]
<1>1. /\ handler[p].order = o /\ TypeOK /\ OrderInv(o) /\ handler[p].pc = "fetch"
      /\ handler[p] \in Handler
      /\ UNCHANGED <<providerVars, webhooks, storeVars, deviceVars, late, cut>>
      /\ stale' = IF \E q \in Procs \ {p} : Of(q, o, {"write"})
                  THEN stale \union {o} ELSE stale \ {o}
      /\ handler' = [handler EXCEPT ![p] = h]
  BY <1>0 DEF IInv, Fetch, FetchOrder, Handles, TypeOK, Of
<1>. USE <1>1 DEF providerVars, storeVars, deviceVars
<1>2. /\ OrderOK(o) /\ s \in had[o] /\ s \in OrderingStatuses \union FoodoraStatuses
      /\ row[o] # NoRow /\ o \in Munchi
  BY DEF OrderInv, OrderOK, TypeOK, Synchronising
<1>a. /\ h \in Handler /\ h.order = o /\ h.pc = "write" /\ h.status = status[o]
      /\ (h.confirm <=> Confirms(o, status[o]))
      /\ h.carried = handler[p].carried
  BY <1>2 DEF Handler, Confirms
<1> HIDE DEF h
<1>3. /\ handler' \in [Procs -> Handler] /\ handler'[p] = h
      /\ \A q \in Procs \ {p} : handler'[q] = handler[q]
      /\ \A x \in Orders \ {o} : \A q \in Procs :
            handler'[q].order = x \/ handler[q].order = x => handler'[q] = handler[q]
  BY <1>a, HandlerStep
<1>4. TypeOK'
  BY <1>3 DEF TypeOK
<1>5. ASSUME NEW x \in Orders \ {o} PROVE Leaves(x)
  BY <1>3 DEF Leaves
<1>6. OrderOK(o)'
  BY <1>2, <1>a, <1>3 DEF OrderOK, Synchronising
<1>7. AnnounceOK(o)'
  BY <1>2, <1>a, <1>3 DEF OrderInv, AnnounceOK, Of
<1>8. ASSUME o \in Munchi \ stale' PROVE SyncOK(o)'
  <2>1. \A q \in Procs : Of(q, o, {"write"})' => q = p
    BY <1>8, <1>3 DEF Of
  <2>2. Of(p, o, {"write"})' /\ Fresh(p, o)'
    BY <1>a, <1>3 DEF Of, Fresh, Confirms
  <2>. QED  BY <2>1, <2>2, <1>2 DEF SyncOK
<1>9. ASSUME o \in Munchi \ late' PROVE ShowOK(o)'
  BY <1>9, <1>a, <1>3 DEF OrderInv, ShowOK, Synchronising, Busy
<1>10. OrderInv(o)'
  BY <1>6, <1>7, <1>8, <1>9 DEF OrderInv
<1>. QED  BY <1>a, <1>3, <1>4, <1>5, <1>10, OneOrder DEF IInv

LEMMA WriteStep ==
    ASSUME IInv, NEW p \in Procs, Write(p)
    PROVE  IInv'
<1> DEFINE h == [handler[p] EXCEPT !.pc = "show"]
<1>0. PICK o \in Orders : handler[p].order = o
  BY DEF IInv, Write, Handles
<1>1. /\ handler[p].order = o /\ TypeOK /\ OrderInv(o) /\ handler[p].pc = "write"
      /\ handler[p] \in Handler
      /\ UNCHANGED <<providerVars, webhooks, items, deviceVars, historyVars>>
      /\ row' = [row EXCEPT ![o] = Written(p)]
      /\ confirmed' = IF handler[p].confirm THEN confirmed \union {o} ELSE confirmed \ {o}
      /\ handler' = [handler EXCEPT ![p] = h]
  BY <1>0 DEF IInv, Write, Handles, TypeOK, Go
<1>. USE <1>1 DEF providerVars, storeVars, deviceVars, historyVars
<1>2. /\ OrderOK(o) /\ o \in Munchi /\ o \notin Foodora /\ row[o] # NoRow
      /\ handler[p].status \in had[o] /\ handler[p].status \in Statuses(o)
  BY OrdersAssumption DEF OrderInv, OrderOK, Synchronising, TypeOK
<1>a. /\ h \in Handler /\ h.order = o /\ h.pc = "show" /\ h.status = handler[p].status
      /\ h.carried = handler[p].carried
  BY DEF Handler
<1> HIDE DEF h
<1>b. /\ Status(p) = FromOrdering(handler[p].status)
      /\ Status(p) \in OrderStatuses \union {Unmapped}
      /\ Written(p) \in OrderStatuses
      /\ Written(p) \in {MapStatus(o, s) : s \in had[o]}
      /\ Status(p) # Unmapped => Written(p) = FromOrdering(handler[p].status)
  <2>1. Status(p) = MapStatus(o, handler[p].status) /\ Status(p) \in OrderStatuses \union {Unmapped}
    BY <1>2, StatusTyped DEF Status
  <2>2. row[o] \in OrderStatuses /\ row[o] \in {MapStatus(o, s) : s \in had[o]}
    BY <1>2 DEF OrderOK, TypeOK
  <2>. QED  BY <2>1, <2>2, <1>2 DEF Written, MapStatus
<1>3. /\ handler' \in [Procs -> Handler] /\ handler'[p] = h
      /\ \A q \in Procs \ {p} : handler'[q] = handler[q]
      /\ \A x \in Orders \ {o} : \A q \in Procs :
            handler'[q].order = x \/ handler[q].order = x => handler'[q] = handler[q]
  BY <1>a, HandlerStep
<1>r. /\ row' \in [Orders -> OrderStatuses \union {NoRow}]
      /\ row'[o] = Written(p) /\ row'[o] # NoRow
      /\ \A x \in Orders \ {o} : row'[x] = row[x]
  BY <1>b, MappingFacts DEF TypeOK
<1>4. TypeOK'
  BY <1>3, <1>r DEF TypeOK
<1>5. ASSUME NEW x \in Orders \ {o} PROVE Leaves(x)
  BY <1>3, <1>r DEF Leaves
<1>6. OrderOK(o)'
  BY <1>2, <1>a, <1>b, <1>3, <1>r DEF OrderOK, Synchronising
<1>7. AnnounceOK(o)'
  BY <1>2, <1>a, <1>3, <1>r DEF OrderInv, AnnounceOK, Of
<1>8. ASSUME o \in Munchi \ stale' PROVE SyncOK(o)'
  <2>1. SyncOK(o) /\ Of(p, o, {"write"})
    BY <1>8 DEF OrderInv, Of
  <2>2. Awaits(o)' <=> Awaits(o)
    BY <1>a, <1>3 DEF Awaits, Of, Ignores
  <2>3. \A q \in Procs : ~ Of(q, o, {"write"})'
    BY <2>1, <1>a, <1>3 DEF SyncOK, Of
  <2>4. ASSUME Needs(o), ~ Awaits(o) PROVE InSync(o)'
    <3>1. Fresh(p, o)
      BY <2>1, <2>4, <1>2 DEF SyncOK
    <3>2. row'[o] = FromOrdering(status[o])
      BY <3>1, <2>4, <1>b, <1>r DEF Fresh, Needs
    <3>. QED  BY <3>1, <3>2 DEF InSync, Fresh, Confirms
  <2>. QED  BY <2>2, <2>3, <2>4, <1>r DEF SyncOK, Needs
<1>9. ASSUME o \in Munchi \ late' PROVE ShowOK(o)'
  BY <1>9, <1>a, <1>3 DEF OrderInv, ShowOK, Synchronising, Busy
<1>10. OrderInv(o)'
  BY <1>6, <1>7, <1>8, <1>9 DEF OrderInv
<1>. QED  BY <1>a, <1>3, <1>4, <1>5, <1>10, OneOrder DEF IInv

LEMMA ShowStep ==
    ASSUME IInv, NEW p \in Procs, Show(p)
    PROVE  IInv'
<1>0. PICK o \in Orders : handler[p].order = o
  BY DEF IInv, Show, Handles
<1>1. /\ handler[p].order = o /\ TypeOK /\ OrderInv(o) /\ handler[p].pc = "show"
      /\ handler[p] \in Handler
      /\ UNCHANGED <<providerVars, webhooks, storeVars, announced, historyVars>>
      /\ shown' = [shown EXCEPT ![o] = Shows(p)]
      /\ handler' = [handler EXCEPT ![p] = Idle]
  BY <1>0 DEF IInv, Show, Handles, TypeOK, Finish
<1>. USE <1>1 DEF providerVars, storeVars, deviceVars, historyVars
<1>2. /\ OrderOK(o) /\ o \in Munchi /\ AnnounceOK(o)
      /\ handler[p].carried \in had[o] /\ handler[p].carried \in Statuses(o)
  BY DEF OrderInv, OrderOK, TypeOK, Synchronising
<1>3. /\ handler' \in [Procs -> Handler] /\ handler'[p] = Idle
      /\ \A q \in Procs \ {p} : handler'[q] = handler[q]
      /\ \A x \in Orders \ {o} : \A q \in Procs :
            handler'[q].order = x \/ handler[q].order = x => handler'[q] = handler[q]
  BY IdleTyped, HandlerStep
<1>a. /\ Shows(p) = FromOrdering(handler[p].carried)
      /\ shown' \in [Orders -> OrderStatuses \union {NoRow, Unmapped}] /\ shown'[o] = Shows(p)
      /\ \A x \in Orders \ {o} : shown'[x] = shown[x]
  BY <1>2, StatusTyped, MapStatusFacts DEF Shows, TypeOK
<1>4. TypeOK'
  BY <1>3, <1>a DEF TypeOK
<1>5. ASSUME NEW x \in Orders \ {o} PROVE Leaves(x)
  BY <1>3, <1>a DEF Leaves
<1>6. OrderOK(o)'
  BY <1>2, <1>3, IdleTyped DEF OrderOK
<1>7. AnnounceOK(o)'
  BY <1>2, <1>3, IdleTyped DEF AnnounceOK, Of
<1>8. ASSUME o \in Munchi \ stale' PROVE SyncOK(o)'
  <2>1. SyncOK(o)
    BY <1>8 DEF OrderInv
  <2>2. Awaits(o)' <=> Awaits(o)
    BY <1>3, IdleTyped DEF Awaits, Of, Ignores
  <2>3. \A q \in Procs, pcs \in {{"write"}, {"validate", "create"}} :
           /\ Of(q, o, pcs)' <=> Of(q, o, pcs)
           /\ Of(q, o, pcs) => (Fresh(q, o)' <=> Fresh(q, o))
    BY <1>3, IdleTyped DEF Of, Fresh, Confirms
  <2>. QED  BY <2>1, <2>2, <2>3 DEF SyncOK, Needs, InSync, Confirms
<1>9. ASSUME o \in Munchi \ late' PROVE ShowOK(o)'
  <2>1. ShowOK(o)
    BY <1>9 DEF OrderInv
  <2>2. ~ Busy(o)' /\ \A q \in Procs : handler'[q].order # o
    BY <2>1, <1>3, IdleTyped DEF ShowOK, Busy
  <2>3. (\A n \in webhooks : n.order # o) => handler[p].carried = status[o]
    BY <2>1 DEF ShowOK, Busy
  <2>. QED  BY <2>2, <2>3, <1>a DEF ShowOK
<1>10. OrderInv(o)'
  BY <1>6, <1>7, <1>8, <1>9 DEF OrderInv
<1>. QED  BY <1>3, <1>4, <1>5, <1>10, IdleTyped, OneOrder DEF IInv

\* The handlers H end early.
LEMMA CutShortStep ==
    ASSUME IInv, NEW H \in SUBSET Procs, Ends(H),
           handler' = [p \in Procs |-> IF p \in H THEN Idle ELSE handler[p]],
           UNCHANGED <<providerVars, webhooks, storeVars, deviceVars>>
    PROVE  IInv'
<1>. TypeOK
  BY DEF IInv
<1>. USE DEF providerVars, storeVars, deviceVars
<1>1. \A p \in Procs, o \in Orders : handler[p].order = o => handler[p].pc # "idle"
  BY DEF IInv, OrderInv, OrderOK
<1>2. ASSUME NEW p \in H, handler[p].pc # "idle"
      PROVE  LET o == handler[p].order
             IN  /\ o \in Orders
                 /\ handler[p].pc \in {"find", "fetch", "write"} => o \in stale'
                 /\ handler[p].pc \in Synchronising => o \in late'
                 /\ handler[p].pc \notin Synchronising => o \in cut'
  <2>1. handler[p] \in Handler /\ handler[p].order \in Orders
    BY <1>2 DEF IInv, TypeOK
  <2>. QED  BY <2>1, <1>2 DEF Ends, Synchronising, Handler
<1>3. /\ stale \subseteq stale' /\ late \subseteq late' /\ cut \subseteq cut'
  BY DEF Ends
<1>4. stale' \union late' \union cut' \subseteq Orders
  <2>1. \A p \in H : handler[p].pc # "idle" => handler[p].order \in Orders
    BY DEF IInv
  <2>. QED  BY <2>1 DEF Ends, TypeOK
<1>5. TypeOK'
  BY <1>4, IdleTyped DEF TypeOK
<1>6. \A p \in Procs : handler'[p].pc # "idle" => handler'[p].order \in Orders
  BY IdleTyped DEF IInv
<1>7. ASSUME NEW o \in Orders PROVE OrderInv(o)'
  <2>1. OrderInv(o)
    BY DEF IInv
  <2>2. \A p \in Procs : handler'[p].order = o => p \notin H /\ handler'[p] = handler[p]
    BY IdleTyped
  <2>3. OrderOK(o)'
    BY <2>1, <2>2 DEF OrderInv, OrderOK
  <2>4. ASSUME o \in Munchi PROVE AnnounceOK(o)'
    <3>1. AnnounceOK(o)
      BY <2>1, <2>4 DEF OrderInv
    <3>2. \A p \in Procs : \A pcs : Of(p, o, pcs)' => Of(p, o, pcs)
      BY <2>2 DEF Of
    <3>3. \A p \in Procs : \A pcs \in {{"validate", "create"}, {"products", "announce"}} :
             o \notin cut' /\ Of(p, o, pcs) => Of(p, o, pcs)'
      BY <1>1, <1>2 DEF Of, Synchronising
    <3>. QED  BY <3>1, <3>2, <3>3, <1>3 DEF AnnounceOK
  <2>5. ASSUME o \in Munchi \ stale' PROVE SyncOK(o)'
    <3>1. SyncOK(o)
      BY <2>1, <2>5, <1>3 DEF OrderInv
    <3>2. \A p \in Procs : \A pcs \in {{"find", "fetch"}, {"write"}} : Of(p, o, pcs)' <=> Of(p, o, pcs)
      BY <1>1, <1>2, <2>2, <2>5 DEF Of, Synchronising
    <3>3. \A p \in Procs : \A pcs : Of(p, o, pcs)' => Of(p, o, pcs) /\ (Fresh(p, o)' <=> Fresh(p, o))
      BY <2>2 DEF Of, Fresh, Confirms
    <3>4. Awaits(o)' <=> Awaits(o)
      BY <3>2 DEF Awaits, Ignores
    <3>. QED  BY <3>1, <3>2, <3>3, <3>4 DEF SyncOK, Needs, InSync, Confirms
  <2>6. ASSUME o \in Munchi \ late' PROVE ShowOK(o)'
    <3>1. ShowOK(o)
      BY <2>1, <2>6, <1>3 DEF OrderInv
    <3>2. \A p \in Procs : handler[p].order = o => handler'[p] = handler[p]
      BY <3>1, <1>1, <1>2, <2>6 DEF ShowOK
    <3>. QED  BY <3>1, <3>2, <2>2 DEF ShowOK, Busy
  <2>. QED  BY <2>3, <2>4, <2>5, <2>6 DEF OrderInv
<1>. QED  BY <1>5, <1>6, <1>7 DEF IInv

LEMMA FailsStep ==
    ASSUME IInv, NEW p \in Procs, Fails(p)
    PROVE  IInv'
<1>1. handler' = [q \in Procs |-> IF q \in {p} THEN Idle ELSE handler[q]]
  BY DEF IInv, TypeOK, Fails, Finish
<1>. QED  BY <1>1, CutShortStep DEF Fails

LEMMA CrashStep ==
    ASSUME IInv, Crash
    PROVE  IInv'
<1>1. handler' = [q \in Procs |-> IF q \in Procs THEN Idle ELSE handler[q]]
  BY DEF Crash
<1>. QED  BY <1>1, CutShortStep DEF Crash

(***************************************************************************)
(* The theorems.                                                           *)
(***************************************************************************)

LEMMA InitOK == Init => IInv
<1>. SUFFICES ASSUME Init PROVE IInv
  OBVIOUS
<1>1. TypeOK
  BY IdleTyped DEF Init, TypeOK
<1>2. \A p \in Procs : handler[p] = Idle
  BY DEF Init
<1>3. ASSUME NEW o \in Orders PROVE OrderInv(o)
  <2>1. \A p \in Procs : handler[p].order # o
    BY <1>2, IdleTyped
  <2>2. ~ Needs(o) /\ ~ Busy(o)
    BY <2>1, MappingFacts DEF Init, Needs, Busy
  <2>. QED  BY <2>1, <2>2 DEF Init, OrderInv, OrderOK, AnnounceOK, SyncOK, ShowOK, Of
<1>. QED  BY <1>1, <1>2, <1>3, IdleTyped DEF IInv

LEMMA StepOK == IInv /\ [Next]_vars => IInv'
<1>. SUFFICES ASSUME IInv, [Next]_vars PROVE IInv'
  OBVIOUS
<1>1. ASSUME NEW o \in Orders, Place(o) PROVE IInv'
  BY <1>1, PlaceStep
<1>2. ASSUME NEW o \in Orders, RejectOrdering(o) PROVE IInv'
  <2>1. "rejected" \in Statuses(o)
    BY <1>2, OrdersAssumption DEF RejectOrdering, Statuses, OrderingStatuses
  <2>. QED  BY <1>2, <2>1, BecomesStep DEF RejectOrdering
<1>3. ASSUME NEW o \in Orders, RejectFoodora(o) PROVE IInv'
  <2>1. "order_rejected" \in Statuses(o)
    BY <1>3, ConstantsAssumption DEF RejectFoodora, Statuses, FoodoraStatuses
  <2>. QED  BY <1>3, <2>1, BecomesStep DEF RejectFoodora
<1>4. ASSUME NEW o \in Orders, NEW s \in Drift, DriftTo(o, s) PROVE IInv'
  BY <1>4, BecomesStep DEF DriftTo
<1>5. ASSUME NEW o \in Orders, NEW s \in Requests, UpdateOrdering(o, s) PROVE IInv'
  BY <1>5, UpdateOrderingStep
<1>6. ASSUME NEW n \in webhooks, LoseWebhook(n) PROVE IInv'
  BY <1>6, LoseWebhookStep
<1>7. ASSUME NEW n \in webhooks, NEW p \in Procs, Deliver(p, n) PROVE IInv'
  BY <1>7, DeliverStep
<1>8. ASSUME NEW p \in Procs, Handle(p) PROVE IInv'
  BY <1>8, FetchNewStep, ValidateStep, CreateStep, SaveProductsStep, AnnounceStep,
     FindStep, FetchStep, WriteStep, ShowStep, FailsStep DEF Handle
<1>9. ASSUME Crash PROVE IInv'
  BY <1>9, CrashStep
<1>10. CASE UNCHANGED vars
  <2>. USE <1>10 DEF vars, providerVars, storeVars, deviceVars, historyVars
  <2>1. TypeOK'
    BY DEF IInv, TypeOK
  <2>2. \A x \in Orders : Leaves(x)
    BY DEF Leaves
  <2>. QED  BY <2>1, <2>2, LeftAlone DEF IInv
<1>. QED  BY <1>1, <1>2, <1>3, <1>4, <1>5, <1>6, <1>7, <1>8, <1>9, <1>10 DEF Next

\* The invariant of every order, whatever goes wrong.
THEOREM Inductive == Spec => []IInv
BY InitOK, StepOK, PTL DEF Spec

\* Statuses, rows, webhooks and handlers keep their types, and an order keeps to
\* the vocabulary of its provider.
THEOREM TypeCorrect == Spec => []TypeOK
<1>1. IInv => TypeOK
  BY DEF IInv
<1>. QED  BY <1>1, Inductive, PTL

\* A row only ever has statuses its order has had.
THEOREM StatusOccurredCorrect == Spec => []StatusOccurred
<1>1. IInv => StatusOccurred
  BY DEF IInv, OrderInv, OrderOK, StatusOccurred
<1>. QED  BY <1>1, Inductive, PTL

\* An order of Ordering is announced once its webhook is handled, and once only,
\* with its products, unless its registration was cut short, however often the
\* webhook is repeated (newOrderNotification).
THEOREM AnnouncedOnceCorrect == Spec => []AnnouncedOnce
<1>1. ASSUME IInv, NEW o \in Munchi
      PROVE  /\ announced[o] <= 1
             /\ announced[o] = 1 => row[o] # NoRow /\ o \in items
             /\ status[o] # "absent" /\ Quiet(o) /\ o \notin cut => announced[o] = 1
  <2>1. o \in Orders /\ AnnounceOK(o)
    BY <1>1 DEF IInv, OrderInv, Orders
  <2>2. announced[o] <= 1
    BY <2>1 DEF AnnounceOK
  <2>. QED  BY <2>1, <2>2 DEF AnnounceOK, Quiet, Busy, Of
<1>2. IInv => AnnouncedOnce
  BY <1>1 DEF AnnouncedOnce
<1>. QED  BY <1>2, Inductive, PTL

\* Once the webhooks of an order of Ordering are handled its row has what Ordering
\* has, unless something keeps it behind, however the webhooks were reordered or
\* repeated (changeOrderNotification, syncOrderingOrder).
THEOREM RowReflectsOrderingCorrect == Spec => []RowReflectsOrdering
<1>1. ASSUME IInv, NEW o \in Munchi \ stale, Quiet(o), row[o] # NoRow, Needs(o)
      PROVE  InSync(o)
  <2>1. SyncOK(o)
    BY <1>1 DEF IInv, OrderInv, Orders
  <2>2. ~ Awaits(o) /\ \A p \in Procs : ~ Of(p, o, {"write"})
    BY <1>1 DEF Awaits, Quiet, Busy, Of
  <2>. QED  BY <1>1, <2>1, <2>2 DEF SyncOK
<1>2. IInv => RowReflectsOrdering
  BY <1>1 DEF RowReflectsOrdering, Needs, InSync
<1>. QED  BY <1>2, Inductive, PTL

\* The devices were last shown the status the order has, unless its changes
\* overlapped or one was lost (changeOrderNotification).
THEOREM ShownLastCorrect == Spec => []ShownLast
<1>1. IInv => ShownLast
  BY DEF IInv, OrderInv, Orders, ShowOK, ShownLast, Quiet
<1>. QED  BY <1>1, Inductive, PTL

\* A device that lists the orders with the status it is shown for one of them gets
\* that one (the two halves of mapOrderingStatusToOrderStatus).
THEOREM ListedAsShownCorrect == Spec => []ListedAsShown
<1>1. \A s \in OrderingStatuses \union {"absent"} :
         FromOrdering(s) \in {"pending", "in_progress", "driver_found", "completed", "rejected"}
            => s \in AsksFor({FromOrdering(s)})
  <2>1. /\ "Pending" \in AsksFor({"pending"})
        /\ "AcceptedByBusiness" \in AsksFor({"in_progress"})
        /\ "AcceptedByDriver" \in AsksFor({"driver_found"})
        /\ "PreparationCompleted" \in AsksFor({"completed"})
        /\ "rejected" \in AsksFor({"rejected"})
    BY DEF AsksFor
  <2>2. ASSUME NEW s \in OrderingStatuses \union {"absent"}
        PROVE  \/ FromOrdering(s) \in {"preorder", "delivered", "pick_up_completed_by_driver", Unmapped}
               \/ s = "Pending" /\ FromOrdering(s) = "pending"
               \/ s = "AcceptedByBusiness" /\ FromOrdering(s) = "in_progress"
               \/ s = "AcceptedByDriver" /\ FromOrdering(s) = "driver_found"
               \/ s = "PreparationCompleted" /\ FromOrdering(s) = "completed"
               \/ s = "rejected" /\ FromOrdering(s) = "rejected"
    BY DEF OrderingStatuses, FromOrdering
  <2>. QED  BY <2>1, <2>2 DEF Unmapped
<1>2. TypeOK => ListedAsShown
  BY <1>1, OrdersAssumption DEF TypeOK, ListedAsShown, Statuses, Orders
<1>. QED  BY <1>2, TypeCorrect, PTL
=============================================================================
