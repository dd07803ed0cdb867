SPECIFICATION Spec
CONSTANTS
    o1 = o1
    p1 = p1
    p2 = p2
    Orders = {o1}
    OrderType <- OnePreorder
    Procs = {p1, p2}
    Delivery = {}
    Requests = {"preorder", "in_progress"}
    Faults = {"duplicate"}
    Ticks = 3
    MonthStarts <- Months
    ServerOffset = 0
    AskedAt <- SecondMonth
    OrderedAt <- Instants
    Lists <- SomeLists
    Histories <- SomeHistories
    Sales <- SomeSales
    MenusShown <- SomeMenusShown
    MenusSent <- SomeMenusSent
INVARIANT LastWeekReachesItsEnd
