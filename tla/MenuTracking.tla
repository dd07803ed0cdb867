----------------------------- MODULE MenuTracking -----------------------------
(***************************************************************************)
(* The menu of a business follows Ordering's at Wolt: a device asks for a   *)
(* synchronisation at a time (menu/menu.service.ts), one cron job marks the *)
(* rows that are ahead, another synchronises the row whose minute it is     *)
(* (provider/provider-management.service.ts), and syncMenu                  *)
(* (provider/wolt/wolt.service.ts) patches each Wolt venue and calls back   *)
(* into the row.  The row is one per business, its venues may be several.   *)
(*                                                                         *)
(* A menu is one category with one product, and one option with one value.  *)
(* A time is where it stands against the clock: "ahead" (more than a minute *)
(* away), "due" (within the minute) or "passed".  "recent" is a lastUpdated *)
(* of less than woltMenuApiDelayTime (15 minutes) ago.  Both cron jobs read *)
(* ten rows in no order and treat them concurrently, so a firing is here    *)
(* one action per row it reads.  A synchronisation has ended when its job   *)
(* (EVERY_QUARTER) fires again, so a business has one at a time.            *)
(***************************************************************************)
EXTENDS Naturals, Sequences, FiniteSets

CONSTANTS
  Businesses,  \* the businesses of our database
  Providers,   \* Providers[b]: the providers of b in the order of the row, venues of Wolt or not
  Venues,      \* the providers that are venues of Wolt
  Unknown,     \* the providers whose service has no syncMenu (Foodora)
  Edited,      \* the fields of a menu that are edited
  MaxEdits     \* a bound: edits of the menus at Ordering

\* A provider is of one business (BusinessProviders.providerId is unique).
ASSUME MenuTrackingAssumption ==
  /\ Providers \in [Businesses -> Seq(Venues \union Unknown)]
  /\ \A b, c \in Businesses : \A i \in 1..Len(Providers[b]), j \in 1..Len(Providers[c]) :
        Providers[b][i] = Providers[c][j] => b = c
  /\ Edited \subseteq {"category", "product", "option", "value"}
  /\ MaxEdits \in Nat

VARIABLES
  menu,     \* menu[b]: what Ordering has
  venue,    \* venue[v]: what Wolt shows
  row,      \* row[b]: the MenuTracking row of b, or NoRow
  marking,  \* the businesses whose row a marking run is about to update
  run,      \* run[b]: the synchronisation of b that is under way
  edits,    \* the edits so far
  claim,    \* a history: what a reported success says of a venue
  excused   \* a history: the businesses whose row is stranded by a known cause

vars == <<menu, venue, row, marking, run, edits, claim, excused>>

Times == {"ahead", "due", "passed"}
NoRow == [time |-> "none", processing |-> FALSE, onCooldown |-> FALSE, recent |-> FALSE]
Row == [time : Times, processing : BOOLEAN, onCooldown : BOOLEAN, recent : BOOLEAN]
Values == {"on", "off", "unsent"}
NoClaim == [items |-> FALSE, values |-> FALSE]

\* The steps of syncMenu for a venue, and of the cooldown callback it may leave behind it.
MainSteps == {"idle", "items", "options", "success", "cooldown", "later", "gone"}
SideSteps == {"idle", "cooldown", "later", "gone", "done"}
NoJobs == [v \in Venues |-> [main |-> "idle", side |-> "idle"]]
NoRun == [at |-> "idle", items |-> FALSE, values |-> "unsent", claim |-> NoClaim, jobs |-> NoJobs]
Run == [at : {"idle", "menu", "options", "venues"}, items : BOOLEAN, values : Values,
        claim : [items : BOOLEAN, values : BOOLEAN],
        jobs : [Venues -> [main : MainSteps, side : SideSteps]]]

OnOff(enabled) == IF enabled THEN "on" ELSE "off"

\* Mutation: the state of the category is forgotten.
ProductAlone(m) == m.product

\* A product is on sale when it and its category are enabled.
ItemEnabled(m) == m.category /\ m.product
\* The values of a disabled option are not sent at all.
ValueSent(m) == IF m.option THEN OnOff(m.value) ELSE "unsent"

\* forEach calls the services of the providers one after another and a service without
\* syncMenu throws in it, so the venues behind such a provider are never reached.
Reached(b) ==
  {v \in Venues : \E i \in 1..Len(Providers[b]) :
     Providers[b][i] = v /\ \A j \in 1..i : Providers[b][j] \notin Unknown}

Resting(jobs) == \A v \in Venues : jobs[v].main = "idle" /\ jobs[v].side \in {"idle", "done"}
Settled(next) == IF Resting(next.jobs) THEN NoRun ELSE next
InFlight(b) == run[b].at # "idle"

Init ==
  /\ menu \in [Businesses -> {[category |-> TRUE, product |-> TRUE, option |-> TRUE, value |-> TRUE]}]
  /\ venue = [v \in Venues |-> [item |-> TRUE, value |-> "on"]]
  /\ row = [b \in Businesses |-> NoRow]
  /\ marking = {}
  /\ run = [b \in Businesses |-> NoRun]
  /\ edits = 0
  /\ claim = [v \in Venues |-> NoClaim]
  /\ excused = {}

----------------------------------------------------------------------------
(* Ordering and the devices *)

\* A request of a device lands at Ordering (the edits are sent un-awaited, each on its own,
\* and answered "Success" whatever comes of them), or the menu is edited at Ordering itself.
Edit(b, field) ==
  /\ edits < MaxEdits
  /\ menu' = [menu EXCEPT ![b][field] = ~@]
  /\ edits' = edits + 1
  /\ claim' = [v \in Venues |-> IF v \in Reached(b) THEN NoClaim ELSE claim[v]]
  /\ run' = [run EXCEPT ![b].claim = NoClaim]
  /\ UNCHANGED <<venue, row, marking, excused>>

\* createMenuSynchronizationTracking: nothing checks that the time is still ahead.
Request(b, time) ==
  /\ row' = [row EXCEPT ![b] = IF @ = NoRow
                               THEN [time |-> time, processing |-> FALSE, onCooldown |-> FALSE, recent |-> TRUE]
                               ELSE [@ EXCEPT !.time = time]]
  /\ excused' = IF time = "passed" THEN excused \union {b} ELSE excused \ {b}
  /\ UNCHANGED <<menu, venue, marking, run, edits, claim>>

\* The minute of a row passes without a run of the synchronisation having taken it up.
Elapse(b) ==
  /\ row[b].time \in {"ahead", "due"}
  /\ row' = [row EXCEPT ![b].time = IF @ = "ahead" THEN "due" ELSE "passed"]
  /\ excused' = IF row[b].time = "due" /\ ~InFlight(b) THEN excused \union {b} ELSE excused
  /\ UNCHANGED <<menu, venue, marking, run, edits, claim>>

Age(b) ==
  /\ row[b].recent
  /\ row' = [row EXCEPT ![b].recent = FALSE]
  /\ UNCHANGED <<menu, venue, marking, run, edits, claim, excused>>

----------------------------------------------------------------------------
(* processMenuTracking *)

FireMark(b) ==
  /\ row[b].time \in {"ahead", "due"}
  /\ Providers[b] # <<>>
  /\ marking' = marking \union {b}
  /\ UNCHANGED <<menu, venue, row, run, edits, claim, excused>>

\* The mark does not look at the row again: it may come after the synchronisation it announces.
Mark(b) ==
  /\ b \in marking
  /\ marking' = marking \ {b}
  /\ row' = [row EXCEPT ![b].processing = TRUE]
  /\ excused' = IF row[b].time = "passed" THEN excused \union {b} ELSE excused
  /\ UNCHANGED <<menu, venue, run, edits, claim>>

MarkFails(b) ==
  /\ b \in marking
  /\ marking' = marking \ {b}
  /\ UNCHANGED <<menu, venue, row, run, edits, claim, excused>>

----------------------------------------------------------------------------
(* onMenuTracking and ProviderManagmentService.menuTracking *)

FireSync(b) ==
  /\ ~InFlight(b)
  /\ row[b].time = "due"
  /\ run' = [run EXCEPT ![b].at = "menu"]
  /\ UNCHANGED <<menu, venue, row, marking, edits, claim, excused>>

ReadMenu(b) ==
  /\ run[b].at = "menu"
  /\ run' = [run EXCEPT ![b].at = "options", ![b].items = ItemEnabled(menu[b]),
                        ![b].claim.items = TRUE]
  /\ UNCHANGED <<menu, venue, row, marking, edits, claim, excused>>

ReadOptions(b) ==
  /\ run[b].at = "options"
  /\ run' = [run EXCEPT ![b] = Settled(
               [@ EXCEPT !.at = "venues", !.values = ValueSent(menu[b]), !.claim.values = TRUE,
                         !.jobs = [v \in Venues |-> [NoJobs[v] EXCEPT !.main = IF v \in Reached(b) THEN "items" ELSE @]]])]
  /\ excused' = IF Reached(b) = {} THEN excused \union {b} ELSE excused
  /\ UNCHANGED <<menu, venue, row, marking, edits, claim>>

\* The key, the categories or the extras cannot be read: the run ends, the row stays as it is.
ReadFails(b) ==
  /\ run[b].at \in {"menu", "options"}
  /\ run' = [run EXCEPT ![b] = NoRun]
  /\ excused' = excused \union {b}
  /\ UNCHANGED <<menu, venue, row, marking, edits, claim>>

----------------------------------------------------------------------------
(* syncMenu of a venue *)

Goes(b, v, thread, step) ==
  run' = [run EXCEPT ![b] = Settled([@ EXCEPT !.jobs[v][thread] = step])]

\* A request that reaches Wolt unsays what an earlier success said of the venue.
ShowsAt(v, item, value) ==
  /\ venue' = [venue EXCEPT ![v] = [item |-> item, value |-> IF value = "unsent" THEN @.value ELSE value]]
  /\ claim' = [claim EXCEPT ![v] = NoClaim]

PatchItems(b, v) ==
  /\ run[b].jobs[v].main = "items"
  /\ ShowsAt(v, run[b].items, "unsent")
  /\ Goes(b, v, "main", "options")
  /\ UNCHANGED <<menu, row, marking, edits, excused>>

\* editProduct swallows the error, its cooldown callback is not awaited, syncMenu goes on.
\* The answer may be all that was lost.
PatchItemsFails(b, v) ==
  /\ run[b].jobs[v].main = "items"
  /\ \/ ShowsAt(v, run[b].items, "unsent")
     \/ UNCHANGED <<venue, claim>>
  /\ run' = [run EXCEPT ![b].jobs[v] = [main |-> "options", side |-> "cooldown"]]
  /\ UNCHANGED <<menu, row, marking, edits, excused>>

PatchOptions(b, v) ==
  /\ run[b].jobs[v].main = "options"
  /\ ShowsAt(v, venue[v].item, run[b].values)
  /\ Goes(b, v, "main", "success")
  /\ UNCHANGED <<menu, row, marking, edits, excused>>

\* Where syncMenu goes when the options are refused: to the catch.
Refused == "cooldown"

PatchOptionsFails(b, v) ==
  /\ run[b].jobs[v].main = "options"
  /\ \/ ShowsAt(v, venue[v].item, run[b].values)
     \/ UNCHANGED <<venue, claim>>
  /\ Goes(b, v, "main", Refused)
  /\ UNCHANGED <<menu, row, marking, edits, excused>>

\* The credentials of the venue, or the row of the success callback, cannot be read: the catch
\* calls back once more.
StepFails(b, v) ==
  /\ run[b].jobs[v].main \in {"items", "options", "success"}
  /\ Goes(b, v, "main", "cooldown")
  /\ UNCHANGED <<menu, venue, row, marking, edits, claim, excused>>

----------------------------------------------------------------------------
(* menuApiCallBack *)

Succeed(b, v) ==
  /\ run[b].jobs[v].main = "success"
  /\ row' = [row EXCEPT ![b].processing = FALSE, ![b].onCooldown = FALSE, ![b].recent = TRUE]
  /\ excused' = excused \ {b}
  /\ claim' = [claim EXCEPT ![v] = [items  |-> run[b].claim.items /\ run[b].jobs[v].side = "idle",
                                    values |-> run[b].claim.values]]
  /\ Goes(b, v, "main", "idle")
  /\ UNCHANGED <<menu, venue, marking, edits>>

\* The next time is fifteen minutes after the last update, which may be long ago.
ReadTracking(b, v, thread) ==
  /\ run[b].jobs[v][thread] = "cooldown"
  /\ Goes(b, v, thread, IF row[b].recent THEN "later" ELSE "gone")
  /\ UNCHANGED <<menu, venue, row, marking, edits, claim, excused>>

\* Mutation: both end alike.
EndedAlike(thread) == "done"

Ended(thread) == IF thread = "main" THEN "idle" ELSE "done"

\* Mutation: the next time is not written.
CooledDownInPlace(old, step) ==
  [old EXCEPT !.processing = TRUE, !.onCooldown = TRUE, !.recent = TRUE]

\* The row a cooldown callback writes, with the next time computed from what it read.
CooledDown(old, step) ==
  [time |-> IF step = "later" THEN "ahead" ELSE "passed", processing |-> TRUE,
   onCooldown |-> TRUE, recent |-> TRUE]

WriteCooldown(b, v, thread) ==
  /\ run[b].jobs[v][thread] \in {"later", "gone"}
  /\ row' = [row EXCEPT ![b] = CooledDown(@, run[b].jobs[v][thread])]
  /\ excused' = IF run[b].jobs[v][thread] = "gone" THEN excused \union {b} ELSE excused \ {b}
  /\ Goes(b, v, thread, Ended(thread))
  /\ UNCHANGED <<menu, venue, marking, edits, claim>>

CooldownFails(b, v, thread) ==
  /\ run[b].jobs[v][thread] \in {"cooldown", "later", "gone"}
  /\ excused' = excused \union {b}
  /\ Goes(b, v, thread, Ended(thread))
  /\ UNCHANGED <<menu, venue, row, marking, edits, claim>>

----------------------------------------------------------------------------

Crash ==
  /\ marking # {} \/ \E b \in Businesses : InFlight(b)
  /\ marking' = {}
  /\ run' = [b \in Businesses |-> NoRun]
  /\ excused' = excused \union {b \in Businesses : InFlight(b)}
  /\ UNCHANGED <<menu, venue, row, edits, claim>>

Next ==
  \/ \E b \in Businesses :
       \/ \E field \in Edited : Edit(b, field)
       \/ \E time \in Times : Request(b, time)
       \/ Elapse(b) \/ Age(b) \/ FireMark(b) \/ Mark(b) \/ MarkFails(b)
       \/ FireSync(b) \/ ReadMenu(b) \/ ReadOptions(b) \/ ReadFails(b)
       \/ \E v \in Venues :
            \/ PatchItems(b, v) \/ PatchItemsFails(b, v)
            \/ PatchOptions(b, v) \/ PatchOptionsFails(b, v)
            \/ StepFails(b, v) \/ Succeed(b, v)
            \/ \E thread \in {"main", "side"} :
                 ReadTracking(b, v, thread) \/ WriteCooldown(b, v, thread) \/ CooldownFails(b, v, thread)
  \/ Crash

Spec == Init /\ [][Next]_vars

----------------------------------------------------------------------------
(* Properties *)

\* The variables stay in their types.
TypeOK ==
  /\ menu \in [Businesses -> [category : BOOLEAN, product : BOOLEAN, option : BOOLEAN, value : BOOLEAN]]
  /\ venue \in [Venues -> [item : BOOLEAN, value : {"on", "off"}]]
  /\ row \in [Businesses -> Row \union {NoRow}]
  /\ marking \subseteq {b \in Businesses : row[b] # NoRow}
  /\ run \in [Businesses -> Run]
  /\ edits \in 0..MaxEdits
  /\ claim \in [Venues -> [items : BOOLEAN, values : BOOLEAN]]
  /\ excused \subseteq Businesses

\* A synchronisation of a venue that was reported a success has put up at Wolt what Ordering
\* has: until the menu is edited or the venue patched again, the product is on sale at Wolt
\* exactly when it and its category are enabled (unless that very request was the one that
\* failed, which syncMenu does not hear of), and the value shows as Ordering has it, if its
\* option is enabled.  The reads, the two requests and the callback are separate steps, and
\* edits and failures come between them.
SyncedAsOrdered ==
  \A b \in Businesses : \A v \in Reached(b) :
    /\ claim[v].items => venue[v].item = (menu[b].category /\ menu[b].product)
    /\ claim[v].values /\ menu[b].option => venue[v].value = OnOff(menu[b].value)

\* A row that says its business is being processed is waiting for a time to come or for a run
\* that is under way; it is left behind only by the causes the code has: a minute no run fell
\* into, a time asked for too late, a cooldown counted from an update more than fifteen minutes
\* old, a mark that comes after the synchronisation, a business no venue of which is reached,
\* a read or a callback that failed and a crash.
NothingStranded ==
  \A b \in Businesses :
    row[b].processing => row[b].time \in {"ahead", "due"} \/ InFlight(b) \/ b \in excused
=============================================================================
