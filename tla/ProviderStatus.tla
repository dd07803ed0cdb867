--------------------------- MODULE ProviderStatus ---------------------------
(***************************************************************************)
(* The status vocabularies of Ordering and of Foodora and how the          *)
(* application translates them (provider/ordering/ordering.type.ts,        *)
(* ordering-order-mapper.ts, foodora/foodora-order-mapper.ts).  Statuses   *)
(* the code never tells apart are one value here.                          *)
(***************************************************************************)

CONSTANTS
    Munchi,     \* orders of Ordering, whose provider is called Munchi
    Foodora,    \* orders of Foodora
    Preorders,  \* those of Ordering that were preorders ("status:13")
    Delivered   \* those of Ordering with delivery_type Delivery

Orders == Munchi \union Foodora

ASSUME OrdersAssumption ==
    /\ Munchi \intersect Foodora = {}
    /\ Preorders \union Delivered \subseteq Munchi

\* OrderingOrderStatus.  "rejected" is any member of rejectedStatus, "other" any
\* status no list of the code has.
OrderingStatuses ==
    {"Preorder", "Pending", "AcceptedByBusiness", "AcceptedByDriver",
     "PreparationCompleted", "PickUpCompletedByDriver",
     "DeliveryCompletedByDriver", "PickupCompletedByCustomer", "rejected", "other"}

FoodoraStatuses == {"order_accepted", "order_rejected", "order_picked_up"}

\* OrderStatusEnum.
OrderStatuses ==
    {"pending", "in_progress", "rejected", "completed", "preorder",
     "driver_found", "delivered", "pick_up_completed_by_driver"}

NoRow == "no_row"
Unmapped == "undefined"

\* mapOrderingStatusToOrderStatus, the first half.
FromOrdering(s) ==
    CASE s = "Preorder" -> "preorder"
      [] s = "Pending" -> "pending"
      [] s = "AcceptedByBusiness" -> "in_progress"
      [] s = "AcceptedByDriver" -> "driver_found"
      [] s = "PreparationCompleted" -> "completed"
      [] s = "PickUpCompletedByDriver" -> "pick_up_completed_by_driver"
      [] s \in {"DeliveryCompletedByDriver", "PickupCompletedByCustomer"} -> "delivered"
      [] s = "rejected" -> "rejected"
      [] OTHER -> Unmapped

\* mapFoodoraOrderToOrderResponse
FromFoodora(s) ==
    CASE s = "order_rejected" -> "rejected"
      [] s = "order_picked_up" -> "completed"
      [] OTHER -> "pending"

MapStatus(o, s) == IF o \in Foodora THEN FromFoodora(s) ELSE FromOrdering(s)

\* defaultStatus of OrderingService.updateOrder: the status Ordering is asked
\* for; Unmapped asks for none.
ToOrdering(o, status) ==
    CASE status = "pending" -> "Pending"
      [] status = "in_progress" -> "AcceptedByBusiness"
      [] status = "completed" -> "PreparationCompleted"
      [] status = "pick_up_completed_by_driver" -> "PickUpCompletedByDriver"
      [] status = "delivered" -> IF o \in Delivered THEN "PickUpCompletedByDriver"
                                 ELSE "PickupCompletedByCustomer"
      [] OTHER -> Unmapped

\* Mutation: the statuses asked for are those of the last list.
AsksForRest(S) == IF "pending" \in S THEN {"Pending", "Preorder"} ELSE {"rejected"}

\* mapOrderingStatusToOrderStatus, the second half: the statuses Ordering is
\* asked for when a device lists the orders of the statuses S.
AsksFor(S) ==
    IF "pending" \in S THEN {"Pending", "Preorder"}
    ELSE IF S \intersect {"in_progress", "driver_found"} # {}
         THEN {"AcceptedByBusiness", "AcceptedByDriver"}
    ELSE IF "completed" \in S THEN {"PreparationCompleted"}
    ELSE IF "delivered" \in S THEN {"PickUpCompletedByDriver", "PickupCompletedByCustomer"}
    ELSE {"rejected"}
=============================================================================
