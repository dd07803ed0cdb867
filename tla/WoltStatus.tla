----------------------------- MODULE WoltStatus -----------------------------
(***************************************************************************)
(* The status vocabularies of a Wolt order: the one of the Wolt API, the   *)
(* one of the Order.status column, and the mapping between them            *)
(* (provider/wolt/wolt-order-mapper.ts).  "fetched" and "acknowledged" map *)
(* exactly as "received" does, so the three are one value here.            *)
(***************************************************************************)

CONSTANTS
    Orders,      \* Wolt order ids (Order.orderId)
    OrderType    \* the type of each order: "instant" or "preorder"

ASSUME OrderTypeAssumption == OrderType \in [Orders -> {"instant", "preorder"}]

WoltStatuses ==
    {"received", "production", "ready", "delivered", "rejected", "refunded"}

\* OrderStatusEnum.
OrderStatuses ==
    {"pending", "in_progress", "rejected", "completed", "preorder",
     "driver_found", "delivered", "pick_up_completed_by_driver"}

PickedUp == "pick_up_completed_by_driver"

\* The row of an order that was not saved yet.
NoRow == "no_row"

\* What a status the mapping does not list maps to.
Unmapped == "undefined"

\* orderStatusMapping[woltOrder.order_status].
MapStatus(o, s) ==
    CASE s = "received" /\ OrderType[o] = "instant"  -> "pending"
      [] s = "received" /\ OrderType[o] = "preorder" -> "preorder"
      [] s = "production"                            -> "in_progress"
      [] s = "ready"                                 -> "completed"
      [] s = "delivered"                             -> "delivered"
      [] s = "rejected"                              -> "rejected"
      [] OTHER                                       -> Unmapped
=============================================================================
