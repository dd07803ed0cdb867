----------------------------- MODULE OrderFeed ------------------------------
(***************************************************************************)
(* What the intake of Wolt orders promises a merchant, whatever the        *)
(* network, the database and the process do: an order is stored once, with *)
(* a status it has had at Wolt; its status then only takes values it has   *)
(* had at Wolt (or the one value that exists on the merchant's side alone, *)
(* "picked up by the driver"); and it is announced at most once, after it  *)
(* was stored.  WoltOrders implements this specification.                  *)
(***************************************************************************)
EXTENDS WoltStatus, Naturals

VARIABLES
    had,        \* the statuses each order has had at Wolt so far
    db,         \* the Order.status column, NoRow before the order is stored
    announced   \* how many times the order was announced to the devices

feedVars == <<had, db, announced>>

Truthful(o) == {MapStatus(o, s) : s \in had[o]} \ {Unmapped}

FeedInit ==
    /\ had = [o \in Orders |-> {}]
    /\ db = [o \in Orders |-> NoRow]
    /\ announced = [o \in Orders |-> 0]

\* The order gets a status at Wolt.
Occur(o) ==
    /\ \E s \in WoltStatuses : had' = [had EXCEPT ![o] = @ \union {s}]
    /\ UNCHANGED <<db, announced>>

Store(o) ==
    /\ db[o] = NoRow
    /\ \E status \in Truthful(o) : db' = [db EXCEPT ![o] = status]
    /\ UNCHANGED <<had, announced>>

Change(o) ==
    /\ db[o] # NoRow
    /\ \E status \in Truthful(o) \union {PickedUp} :
          db' = [db EXCEPT ![o] = status]
    /\ UNCHANGED <<had, announced>>

Announce(o) ==
    /\ db[o] # NoRow
    /\ announced[o] = 0
    /\ announced' = [announced EXCEPT ![o] = 1]
    /\ UNCHANGED <<had, db>>

FeedNext ==
    \E o \in Orders : Occur(o) \/ Store(o) \/ Change(o) \/ Announce(o)

FeedSpec == FeedInit /\ [][FeedNext]_feedVars
=============================================================================
