SPECIFICATION Spec
CONSTANTS
    o1 = o1
    o2 = o2
    p1 = p1
    p2 = p2
    Orders = {o1}
    OrderType <- OneInstant
    Procs = {p1, p2}
    Delivery = {o1}
    Requests = {"in_progress", "completed", "delivered", "pick_up_completed_by_driver"}
    Faults <- AllFaults
SYMMETRY Symmetry
INVARIANT TypeOK
INVARIANT AnnouncedOnce
INVARIANT AnnouncedComplete
INVARIANT StatusOccurred
PROPERTY FeedSpec
CHECK_DEADLOCK FALSE
