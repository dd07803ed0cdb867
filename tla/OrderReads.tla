------------------------------ MODULE OrderReads ------------------------------
(***************************************************************************)
(* What is read of the stored orders: the list a device shows              *)
(* (order/order.service.ts, provider/provider-management.service.ts), the  *)
(* history and the statistics (history/history.service.ts,                 *)
(* history/utils/getTimeRange.ts,                                          *)
(* financial-analytics/financial-analytics.service.ts).                    *)
(*                                                                         *)
(* An instant is a natural number; day 0 is a Monday.  Amounts are whole   *)
(* numbers, names are any values.                                          *)
(***************************************************************************)
EXTENDS Ordered, SequencesExt, FiniteSetsExt

CONSTANTS
    Ticks,          \* the instants of a day that are told apart
    MonthStarts,    \* the first days of the months, 0 among them
    ServerOffset,   \* how far the clock of the server is ahead of UTC
    AskedAt,        \* the instants at which the history is asked for
    OrderedAt,      \* the instants at which an order was created
    Lists,          \* the lists that devices ask for
    Histories,      \* the histories that are asked for
    Sales           \* the sales by product that are asked for

Day(t) == t \div Ticks

\* The calendar has the month of t, the one before and the one after.
InCalendar(t) ==
    /\ \E d \in MonthStarts : 0 < d /\ d <= Day(t)
    /\ \E d \in MonthStarts : Day(t) < d

ASSUME CalendarAssumption ==
    /\ Ticks \in Nat \ {0}
    /\ MonthStarts \subseteq Nat /\ 0 \in MonthStarts
    /\ ServerOffset \in Int
    /\ AskedAt \subseteq Int /\ OrderedAt \subseteq Int
    /\ \A now \in AskedAt : InCalendar(now + ServerOffset)

----------------------------------------------------------------------------
(* The ranges of the history: getTimeRange.ts *)

Days(n) == n * Ticks

StartOfDay(t) == Days(Day(t))
EndOfDay(t) == StartOfDay(t) + Ticks - 1

\* Mutation: the weeks start on Sunday.
StartOfSundayWeek(t) == Days(Day(t) - ((Day(t) + 1) % 7))

\* ISO weeks start on Monday.
StartOfWeek(t) == Days(Day(t) - (Day(t) % 7))

StartOfMonth(t) == Days(Max({d \in MonthStarts : d <= Day(t)}))
EndOfMonth(t) == Days(Min({d \in MonthStarts : d > Day(t)})) - 1

\* The first of a month, a month earlier.
MonthBefore(first) == Days(Max({d \in MonthStarts : Days(d) < first}))

getLastMonthRange(today) ==
    LET first == MonthBefore(StartOfMonth(today)) IN <<first, EndOfMonth(first)>>

\* The end is the START of the seventh day.
getLastWeekRange(today) ==
    LET first == StartOfWeek(today) - Days(7) IN <<first, first + Days(6)>>

getThisWeekRange(today) == <<StartOfWeek(today), StartOfWeek(today) + Days(7) - 1>>

getThisMonthRange(today) == <<StartOfMonth(today), EndOfMonth(today)>>

DateOptions == {"today", "yesterday", "this-week", "last-week", "this-month", "last-month"}

\* The ranges are those of the server's clock, written in UTC.
mapToDate(option, now) ==
    LET today == now + ServerOffset
        range == CASE option = "today" -> <<StartOfDay(today), EndOfDay(today)>>
                   [] option = "yesterday" -> <<StartOfDay(today - Days(1)), EndOfDay(today - Days(1))>>
                   [] option = "this-week" -> getThisWeekRange(today)
                   [] option = "last-week" -> getLastWeekRange(today)
                   [] option = "this-month" -> getThisMonthRange(today)
                   [] option = "last-month" -> getLastMonthRange(today)
    IN  [i \in 1..2 |-> range[i] - ServerOffset]

\* Order.createdAt is a text: an instant as the clock ahead of UTC by an offset shows it.  It
\* is compared, as a text, with the ranges, so its offset counts for nothing.
CreatedAt(t, offset) == t + offset

\* gte and lte of two texts: createdAt ends in an offset ("+00:00"), the ends of a range in "Z".
\* Where both show the same instant, the text with an offset is the lesser one: a sign comes
\* before a letter.  So the first instant of a range is not in it.
InRange(createdAt, range) == range[1] < createdAt /\ createdAt <= range[2]

\* A month starts between two instants.
Parts(d, t, now) == (d <= Day(t)) # (d <= Day(now))

\* The day, week or month that each option names.
IsMeant(option, now, t) ==
    CASE option = "today" -> Day(t) = Day(now)
      [] option = "yesterday" -> Day(t) = Day(now) - 1
      [] option = "this-week" -> Day(t) \div 7 = Day(now) \div 7
      [] option = "last-week" -> Day(t) \div 7 = Day(now) \div 7 - 1
      [] option = "this-month" -> ~ \E d \in MonthStarts : Parts(d, t, now)
      [] option = "last-month" -> \E d \in MonthStarts :
                                     /\ d <= Day(now) /\ Day(t) < d
                                     /\ \A e \in MonthStarts : Parts(e, t, now) => e = d

\* What a range leaves out of the period it is for: the first instant and, of last week, all
\* of Sunday after its own first instant.
IsLeftOut(option, now, t) ==
    \/ ~ IsMeant(option, now, t - 1)
    \/ option = "last-week" /\ Day(t - 1) % 7 = 6

\* A range holds its period but for what is left out, and nothing of another period.
RangesAreMeant ==
    \A now \in AskedAt : \A option \in DateOptions :
      LET range == mapToDate(option, now)
      IN  \A t \in OrderedAt :
            InRange(CreatedAt(t, ServerOffset), range)
              <=> IsMeant(option, now, t) /\ ~ IsLeftOut(option, now, t)

\* The range of last week does not end before an order of that week.
LastWeekIsWhole ==
    \A now \in AskedAt, t \in OrderedAt :
        IsMeant("last-week", now, t)
          => CreatedAt(t, ServerOffset) <= mapToDate("last-week", now)[2]

----------------------------------------------------------------------------
(* The list of a device: ProviderManagmentService.getOrderByStatus.  An order that is listed has *)
(* the times None where there is none. *)

None == 0

Listed == [id : Nat, status : STRING, business : Nat, pickupEta : Nat, deliveryEta : Nat, createdAt : Nat]

ASSUME ListsAssumption ==
    Lists \subseteq [providers : SUBSET STRING, statuses : SUBSET STRING, businesses : SUBSET Nat,
                     munchi : Seq(Listed), rows : Seq(Listed),
                     foodora : [accepted : Seq(Listed), cancelled : Seq(Listed)], now : Nat]

DueTime(order) ==
    IF order.pickupEta # None THEN order.pickupEta
    ELSE IF order.deliveryEta # None THEN order.deliveryEta ELSE order.createdAt

\* Mutation: an order that is late is put at its own time.
getOwnTime(order, now) == DueTime(order)

\* An order that is late counts as one for now.
getSortingTime(order, now) == Max({DueTime(order), now})

\* Array.sort is stable.
sortOrders(orders, now) ==
    LET places == DOMAIN orders
        Time(i) == getSortingTime(orders[i], now)
        Before(i, j) == Time(i) < Time(j) \/ (Time(i) = Time(j) /\ i < j)
        sorted == InOrder(places, {p \in places \X places : Before(p[1], p[2])})
    IN  [k \in 1..Len(orders) |-> orders[sorted[k]]]

\* The rows of Wolt, by id, of the businesses and statuses asked for.
WoltList(rows, statuses, businesses) ==
    Kept(rows, {i \in DOMAIN rows : rows[i].status \in statuses /\ rows[i].business \in businesses})

\* Foodora has two lists, of all restaurants, and only the first one asked for is read.
FoodoraRefuses(statuses) == statuses \intersect {"in_progress", "rejected"} = {}

FoodoraList(lists, statuses) ==
    IF "in_progress" \in statuses THEN lists.accepted ELSE lists.cancelled

\* Ordering's orders come whatever providers are asked for; munchi is its answer.
Gathered(providers, statuses, businesses, munchi, rows, lists) ==
    LET wolt == IF "Wolt" \in providers THEN WoltList(rows, statuses, businesses) ELSE <<>>
        foodora == IF "Foodora" \in providers THEN FoodoraList(lists, statuses) ELSE <<>>
    IN  (munchi \o wolt) \o foodora

ListOrders(providers, statuses, businesses, munchi, rows, lists, now) ==
    IF "Foodora" \in providers /\ FoodoraRefuses(statuses) THEN [fails |-> TRUE, orders |-> <<>>]
    ELSE [fails |-> FALSE,
          orders |-> sortOrders(Gathered(providers, statuses, businesses, munchi, rows, lists), now)]

\* How often x is in a sequence.
Count(seq, x) == Cardinality({i \in DOMAIN seq : seq[i] = x})

Late(seq, now) == {i \in DOMAIN seq : DueTime(seq[i]) <= now}

\* The list has every order asked for, as often as it came (of Foodora, those of one of its lists),
\* the late ones first and as they came, the others by the time they are due; it fails as a whole
\* when Foodora is asked for a status it has no list of.
ListIsInOrder(l) ==
    LET answer == ListOrders(l.providers, l.statuses, l.businesses, l.munchi, l.rows, l.foodora, l.now)
        list == answer.orders
        came == Gathered(l.providers, l.statuses, l.businesses, l.munchi, l.rows, l.foodora)
        OfWolt(x) == "Wolt" \in l.providers /\ x.status \in l.statuses /\ x.business \in l.businesses
        foodora == IF "Foodora" \in l.providers THEN FoodoraList(l.foodora, l.statuses) ELSE <<>>
    IN  IF "Foodora" \in l.providers /\ l.statuses \intersect {"in_progress", "rejected"} = {} THEN answer.fails
        ELSE /\ ~answer.fails
             /\ \A x \in ToSet(list) \union ToSet(l.munchi) \union ToSet(l.rows) \union ToSet(foodora) :
                  Count(list, x) = Count(l.munchi, x) + (IF OfWolt(x) THEN Count(l.rows, x) ELSE 0) + Count(foodora, x)
             /\ Kept(list, Late(list, l.now)) = Kept(came, Late(came, l.now))
             /\ \A i, j \in DOMAIN list :
                  /\ i \in Late(list, l.now) /\ j \notin Late(list, l.now) => i < j
                  /\ i \notin Late(list, l.now) /\ DueTime(list[i]) < DueTime(list[j]) => i < j

----------------------------------------------------------------------------
(* The history: HistoryService.getOrderHistory.  The rows are those of the session's businesses; *)
(* number is the place of an order's number among the texts, pay is None, Cash or another means; *)
(* filter is a function on the filters given. *)

Cash == 1

Row == [id : Nat, number : Nat, status : STRING, provider : STRING, createdAt : Int, pay : Nat, total : Int]

\* Orders may share a number, two providers' orders for one: the database puts them in some order.
BreaksTies(tie, rows) ==
    \A r, s \in rows : tie[r.id] \in Nat /\ (tie[r.id] = tie[s.id] => r = s)

\* That order may be another one for every page asked for.
ASSUME HistoriesAssumption ==
    \A h \in Histories :
      /\ h.rows \subseteq Row /\ IsFiniteSet(h.rows)
      /\ \A page \in 1..(Cardinality(h.rows) + 1) : BreaksTies(h.ties[page], h.rows)
      /\ "payMethod" \notin DOMAIN h.filter
      /\ h.rowPerPage \in Nat \ {0}

\* Mutation: "not cash" as the database understands it, without the rows that say nothing.
PaidByKnown(row, methods) ==
    \/ "Cash" \in methods /\ row.pay = Cash
    \/ "Card" \in methods /\ row.pay \notin {Cash, None}

PaidBy(row, methods) ==
    \/ "Cash" \in methods /\ row.pay = Cash
    \/ "Card" \in methods /\ row.pay # Cash

Given(filter, name, default) == IF name \in DOMAIN filter THEN filter[name] ELSE default

Found(rows, filter, range) ==
    {r \in rows :
       /\ r.status \in Given(filter, "orderStatus", {"delivered", "rejected"})
       /\ r.provider \in Given(filter, "provider", {"Munchi", "Wolt"})
       /\ InRange(r.createdAt, range)
       /\ "payMethod" \in DOMAIN filter => PaidBy(r, filter.payMethod)}

\* The later number first.
Page(found, page, rowPerPage, tie) ==
    LET Before(r, s) == r.number > s.number \/ (r.number = s.number /\ tie[r.id] < tie[s.id])
        all == InOrder(found, {p \in found \X found : Before(p[1], p[2])})
    IN  SubSeq(all, (page - 1) * rowPerPage + 1, Min({page * rowPerPage, Len(all)}))

TotalOf(orders) == SumFunctionOnSet([r \in orders |-> r.total], orders)

analyzeOrderData(orders) ==
    LET rejected == {r \in orders : r.status = "rejected"}
    IN  [totalSales          |-> TotalOf({r \in orders : r.status = "delivered"}),
         totalRejections     |-> Cardinality(rejected),
         totalRejectionValue |-> TotalOf(rejected)]

getOrderHistory(rows, filter, range, page, rowPerPage, tie) ==
    LET found == Found(rows, filter, range)
    IN  [analytics   |-> analyzeOrderData(found),
         totalOrders |-> Cardinality(found),
         orders      |-> Page(found, page, rowPerPage, tie)]

\* The filter with a means of payment.
Paid(filter, method) ==
    [name \in {"payMethod"} \union DOMAIN filter |->
        IF name = "payMethod" THEN {method} ELSE filter[name]]

\* The pages show exactly the orders that the totals are of, each once and none before one with a
\* later number, when the orders' numbers differ or the database breaks ties alike for every page;
\* every page but the last one is full, and what was paid in cash and by card adds up to the whole.
HistoryIsWhole(h) ==
    LET Ask(filter, page) == getOrderHistory(h.rows, filter, h.range, page, h.rowPerPage, h.ties[page])
        found == Found(h.rows, h.filter, h.range)
        whole == Ask(h.filter, 1)
        pages == 1..((whole.totalOrders + h.rowPerPage - 1) \div h.rowPerPage)
        Shown(page) == Ask(h.filter, page).orders
        steady == \/ \A r, s \in found : r.number = s.number => r = s
                  \/ \A p, q \in pages : h.ties[p] = h.ties[q]
        cash == Ask(Paid(h.filter, "Cash"), 1)
        card == Ask(Paid(h.filter, "Card"), 1)
    IN  /\ steady =>
             /\ UNION {ToSet(Shown(page)) : page \in pages} = found
             /\ \A p, q \in pages : \A i \in DOMAIN Shown(p), j \in DOMAIN Shown(q) :
                  p < q \/ (p = q /\ i < j) =>
                    Shown(p)[i] # Shown(q)[j] /\ Shown(p)[i].number >= Shown(q)[j].number
        /\ \A p, q \in pages : p < q => Len(Shown(p)) = h.rowPerPage
        /\ whole.totalOrders = Cardinality(found)
        /\ (\A r \in found : r.status \in {"delivered", "rejected"}) =>
             whole.analytics.totalSales + whole.analytics.totalRejectionValue = TotalOf(found)
        /\ whole.totalOrders = cash.totalOrders + card.totalOrders
        /\ \A total \in {"totalSales", "totalRejections", "totalRejectionValue"} :
             whole.analytics[total] = cash.analytics[total] + card.analytics[total]

----------------------------------------------------------------------------
(* The sales by product: HistoryService.getProductHistory. *)

Line == [name : STRING, price : Int, quantity : Int]

ASSUME SalesAssumption ==
    Sales \subseteq [orders : Seq([provider : STRING, status : STRING, lines : Seq(Line)]), names : Seq(STRING)]

NewEntry(line) ==
    [name |-> line.name, quantity |-> line.quantity, total |-> line.price * line.quantity]

\* Mutation: a product that is known already is counted, not paid for.
addProductCounted(entries, line) ==
    LET known == {i \in DOMAIN entries : entries[i].name = line.name}
    IN  IF known = {} THEN Append(entries, NewEntry(line))
        ELSE [entries EXCEPT ![Min(known)].quantity = @ + line.quantity]

addProduct(entries, line) ==
    LET known == {i \in DOMAIN entries : entries[i].name = line.name}
    IN  IF known = {} THEN Append(entries, NewEntry(line))
        ELSE [entries EXCEPT ![Min(known)].quantity = @ + line.quantity,
                             ![Min(known)].total = @ + line.price * line.quantity]

addOrder(entries, order) == FoldLeft(addProduct, entries, order.lines)

\* The options of a line are stored as "options" and read as "option": none is counted.
analyzeProductData(orders) == FoldLeft(addOrder, <<>>, orders)

\* The places of a provider's delivered orders.
SoldBy(orders, name) == {i \in DOMAIN orders : orders[i].provider = name /\ orders[i].status = "delivered"}

\* One entry for Munchi and one for every provider the business has, of any name.
getProductHistory(orders, providerNames) ==
    LET names == <<"Munchi">> \o providerNames
    IN  [i \in DOMAIN names |->
           [provider |-> names[i], products |-> analyzeProductData(Kept(orders, SoldBy(orders, names[i])))]]

\* The statistics count every product of a provider's delivered orders once, with all that was
\* sold of it and all that was paid for it.
SalesAreCounted(s) ==
    LET LineAt(p) == s.orders[p[1]].lines[p[2]]
    IN  \A sales \in ToSet(getProductHistory(s.orders, s.names)) :
          LET sold == UNION {{i} \X (DOMAIN s.orders[i].lines) : i \in SoldBy(s.orders, sales.provider)}
              Of(name) == {p \in sold : LineAt(p).name = name}
              products == sales.products
          IN  /\ {products[i].name : i \in DOMAIN products} = {LineAt(p).name : p \in sold}
              /\ \A i, j \in DOMAIN products : products[i].name = products[j].name => i = j
              /\ \A i \in DOMAIN products :
                   LET of == Of(products[i].name)
                   IN  /\ products[i].quantity = SumFunctionOnSet([p \in of |-> LineAt(p).quantity], of)
                       /\ products[i].total =
                            SumFunctionOnSet([p \in of |-> LineAt(p).price * LineAt(p).quantity], of)
=============================================================================
