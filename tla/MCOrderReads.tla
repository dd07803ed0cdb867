---------------------------- MODULE MCOrderReads ----------------------------
(***************************************************************************)
(* An instance of WoltOrders for TLC with the reads of its stored orders:  *)
(* two requests of a preorder at a time, and the inputs on which           *)
(* OrderReads and MenuData are checked.                                    *)
(***************************************************************************)
EXTENDS WoltOrders, OrderReads, MenuData, TLC

CONSTANTS o1, p1, p2

OnePreorder == [o \in {o1} |-> "preorder"]

----------------------------------------------------------------------------

\* What these promise is about constants: it is looked at in the initial state alone.
Untouched == wolt = [o \in Orders |-> "absent"]

\* Three months of 31, 28 and 31 days, the first day a Monday.
Months == {0, 31, 59, 90}
Instants == 0..(Days(90) - 1)
SecondMonth == Days(31)..Days(59)

\* On a server whose clock is UTC, the range of an option holds no order of Ordering of another
\* day, week or month than it is for, and every one of it except two kinds that the code leaves
\* out: those created at its very first instant, and those of the Sunday of last week after that
\* Sunday's first instant (history/utils/getTimeRange.ts, history.service.ts getOrderHistory).
RangesCover == Untouched => RangesAreMeant

\* The range of last week reaches to what getTimeRange.ts:15 calls the "End of last week": no order
\* of last week was created after it (history/utils/getTimeRange.ts getLastWeekRange).
LastWeekReachesItsEnd == Untouched => LastWeekIsWhole

ReadTimes == {[pickupEta |-> p, deliveryEta |-> d, createdAt |-> 1] : p \in {None, 1, 4}, d \in {None, 2, 5}}
ListedOrder(t, id, s, b) == t @@ [id |-> id, status |-> s, business |-> b]
Answers == {<<>>} \union {<<ListedOrder(t, 1, "in_progress", 1)>> : t \in ReadTimes}
           \union {<<ListedOrder(t, 1, "in_progress", 1), ListedOrder(u, 2, "in_progress", 1)>> : t, u \in ReadTimes}
WoltRows == {<<ListedOrder(t, 3, s, b)>> : t \in ReadTimes, s \in {"in_progress", "rejected"}, b \in 1..2}
FoodoraLists == {[accepted |-> <<ListedOrder(t, 5, "in_progress", 2)>>,
                  cancelled |-> <<ListedOrder(t, 6, "rejected", 2)>>] :
                    t \in {t \in ReadTimes : t.deliveryEta = None}}
SomeLists == [providers : SUBSET {"Wolt", "Foodora"},
              statuses : {{"in_progress"}, {"rejected", "in_progress"}, {"pending"}}, businesses : {{1}},
              munchi : Answers, rows : WoltRows, foodora : FoodoraLists, now : {3}]

\* The list of a device has every order asked for, as often as it came (of Foodora, those of one of
\* its lists, of whatever restaurant), the late ones first and as they came, the others by the
\* time they are due; it fails as a whole when Foodora is asked for a status it has no list of
\* (provider/provider-management.service.ts getOrderByStatus).
ListInOrder == Untouched => \A l \in Lists : ListIsInOrder(l)

StoredRows == [status : {"delivered", "rejected", "pending"}, provider : {"Munchi", "Wolt", "Foodora"},
               pay : {None, Cash, 2}, createdAt : {1, 3}]
\* Totals by which every sum is told apart.
RowSets == {{[id |-> i, number |-> number[i], total |-> 2 ^ i] @@ s[i] : i \in DOMAIN s} :
              number \in {<<1, 2>>, <<1, 1>>}, s \in BoundedSeq(StoredRows, 2)}
\* The later request finds them in the same order or in the other one.
Ties == {<<<<1, 2>>, <<1, 2>>, <<1, 2>>>>, <<<<1, 2>>, <<2, 1>>, <<1, 2>>>>}
Everything == [orderStatus |-> {"delivered", "rejected"}, provider |-> {"Munchi", "Wolt", "Foodora"}]
Filters == {<<>>, Everything, [provider |-> {"Wolt"}]}
SomeHistories == [rows : RowSets, filter : Filters, range : {<<0, 2>>}, rowPerPage : 1..2,
                  ties : Ties]

\* The pages of the history show exactly the orders its totals are of, each once and by number, as
\* long as the numbers differ or the database breaks ties alike for every page,
\* and what was paid in cash and by card adds up to the whole (history.service.ts getOrderHistory,
\* financial-analytics.service.ts analyzeOrderData).
HistoryAddsUp == Untouched => \A h \in Histories : HistoryIsWhole(h)

SoldLines == {[name |-> "a", price |-> 1, quantity |-> 1], [name |-> "a", price |-> 3, quantity |-> 2],
              [name |-> "b", price |-> 1, quantity |-> 2]}
SoldOrders == [provider : {"Munchi", "Wolt"}, status : {"delivered", "rejected"}, lines : BoundedSeq(SoldLines, 2)]
SomeSales == [orders : {<<first, second>> : first, second \in SoldOrders}, names : {<<>>, <<"Wolt">>}]

\* The statistics count every product of a provider's delivered orders once, with all that was sold
\* of it and all that was paid for it, in every entry (history.service.ts getProductHistory,
\* financial-analytics.service.ts addProduct).
SalesAddUp == Untouched => \A s \in Sales : SalesAreCounted(s)

Listings == [id : 1..2, category : 1..3]
\* A category may be missing in the tree.
Forests == UNION {{p \in [1..n -> 0..2] : \A c \in 1..n : p[c] < c} : n \in 2..3}
FirstMenus == BoundedSeq([id : {1}, products : BoundedSeq(Listings, 2)], 1)
SecondMenus == {<<>>} \union {<<[id |-> 2, products |-> l]>> : l \in BoundedSeq(Listings, 2)}
SomeMenusShown == [menus : {first \o second : first \in FirstMenus, second \in SecondMenus},
                   shared : {<<>>, <<[id |-> 3, products |-> <<[id |-> 1, category |-> 2]>>]>>}, parent : Forests]

\* A device is shown every product its business's menus list, exactly once in each category of the
\* tree, with the menus it is on, and exactly the categories that lead to one
\* (menu/menu-process.service.ts processMenuData).
DevicesSeeTheMenus == Untouched => \A m \in MenusShown : ShowsTheMenus(m)

Options == {[id |-> 1, max |-> n, suboptions |-> s] : n \in 2..3, s \in {<<>>, <<1>>}}
Products == [id : 1..2, enabled : BOOLEAN, extras : BoundedSeq(BoundedSeq(Options, 1), 1)]
SomeMenusSent == {<<[id |-> 1, products |-> p], [id |-> 2, products |-> q]>> :
                    p \in BoundedSeq(Products, 1), q \in BoundedSeq(Products, 2)}

\* Wolt is sent every product of every category with its state, and neither a category nor an
\* option with nothing in it (provider/ordering/ordering-menu-mapper.ts, menu/menu.service.ts).
WoltIsSentTheMenu == Untouched => \A m \in MenusSent : SendsTheMenu(m)
=============================================================================
