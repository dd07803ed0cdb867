SPECIFICATION Spec
CONSTANTS
    m1 = m1
    m2 = m2
    f1 = f1
    f2 = f2
    p1 = p1
    p2 = p2
    Munchi = {m1, m2}
    Foodora = {f1, f2}
    Preorders = {m1}
    Delivered = {m1}
    Procs = {p1, p2}
    Drift <- Unasked
    Requests <- Asked
    MaxOrders = 1
    MaxStatuses = 3
    MaxWebhooks = 2
    SameId = {f1}
    Known = {f1}
    Faults <- AllFaults
SYMMETRY Symmetry
INVARIANT TypeOK
INVARIANT RowReflectsOrdering
INVARIANT ShownLast
INVARIANT StatusOccurred
INVARIANT AnnouncedOnce
INVARIANT ListedAsShown
CHECK_DEADLOCK FALSE
