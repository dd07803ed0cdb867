SPECIFICATION Spec
CONSTANTS
    o1 = o1
    o2 = o2
    p1 = p1
    p2 = p2
    Orders = {o1}
    OrderType <- OneInstant
    Procs = {p1, p2}
    Delivery = {}
    Requests = {"preorder", "in_progress", "completed", "delivered", "rejected", "pick_up_completed_by_driver"}
    Faults = {}
INVARIANT DatabaseReflectsWolt
CHECK_DEADLOCK FALSE
