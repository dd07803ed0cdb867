SPECIFICATION Spec
CONSTANTS
    o1 = o1
    o2 = o2
    r1 = r1
    r2 = r2
    Orders = {o1, o2}
    Changing = {o1}
    Runs = {r1, r2}
    Batch = 1
    Faults <- AllFaults
SYMMETRY Symmetry
INVARIANT TypeOK
INVARIANT ReminderKept
INVARIANT RemindedOnce
CHECK_DEADLOCK FALSE
