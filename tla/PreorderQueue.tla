--------------------------- MODULE PreorderQueue ----------------------------
(***************************************************************************)
(* Reminders of preorders.  A device schedules a reminder                  *)
(* (schedule/schedule.service.ts); two intervals of a minute               *)
(* (queue/queue.service.ts) mark the entries that are ahead and remind the *)
(* marked ones whose minute has come; a change at the provider or a        *)
(* rejection takes an entry off the queue again, in a listener nobody      *)
(* waits for.                                                              *)
(*                                                                         *)
(* Time is abstract.  A reminder is more than a minute ahead, in the       *)
(* minute before its time ("near"), in the minute after it ("due") or past *)
(* that.  The intervals fire once in every minute.                         *)
(***************************************************************************)
EXTENDS FiniteSets, Naturals

CONSTANTS
    Orders,     \* the preorders
    Changing,   \* those that change at the provider (a bound of the model)
    Runs,       \* the runs of processingPreorderReminder at once (a bound)
    Batch,      \* how many entries are marked in one minute: 10 in the code
    Faults      \* what goes wrong in this instance, of FaultKinds

FaultKinds ==
    {"api",     \* the order of a reminder cannot be read
     "db",      \* a database statement fails
     "crash"}   \* the process dies and restarts

ASSUME ConstantsAssumption ==
    /\ "none" \notin Orders
    /\ Changing \subseteq Orders
    /\ Batch \in Nat \ {0}
    /\ Faults \subseteq FaultKinds

VARIABLES
    row,        \* its entry in PreorderQueue
    time,       \* how far its reminder is
    fired,      \* the orders in whose present minute the intervals have fired
    marker,     \* the run of remindPreorder: its step
    marking,    \* and the entries it has found
    run,        \* the runs of processingPreorderReminder
    validations,\* the orders of the preorderQueue.validate events being handled
    reminded,   \* history: the reminders sent, by order
    excused,    \* history: the orders whose reminder something has cost
    doubled     \* history: the orders that may be reminded again

queueVars == <<row, time, fired>>
runVars == <<marker, marking, run>>
historyVars == <<reminded, excused, doubled>>
vars == <<queueVars, runVars, validations, historyVars>>

----------------------------------------------------------------------------
(* Types *)

\* The order in a notification of Ordering: a preorder turns "pending" when its
\* time comes.
Statuses == {"preorder", "pending", "over"}
Times == {"unset", "ahead", "near", "due", "past"}

\* left: the entries of the run still to process; item: the one in progress.
Run == [pc : {"idle", "find", "next", "send", "withdraw"},
        left : SUBSET Orders, item : Orders \union {"none"}]
IdleRun == [pc |-> "idle", left |-> {}, item |-> "none"]

Init ==
    /\ row = [o \in Orders |-> "none"]
    /\ time = [o \in Orders |-> "unset"]
    /\ fired = {}
    /\ marker = "idle" /\ marking = {}
    /\ run = [r \in Runs |-> IdleRun]
    /\ validations = {}
    /\ reminded = [o \in Orders |-> 0]
    /\ excused = {} /\ doubled = {}

Queued == {o \in Orders : row[o] = "queued"}
Marked == {o \in Orders : row[o] = "marked"}
InMinute == {o \in Orders : time[o] \in {"near", "due"}}
Holds(r, o) == o \in run[r].left \/ o = run[r].item

----------------------------------------------------------------------------
(* Devices and providers *)

\* setPreOrderReminder.  A reminder that is less than a minute ahead may come
\* too late to be marked.
Enqueue(o, t) ==
    /\ time[o] = "unset"
    /\ time' = [time EXCEPT ![o] = t]
    /\ row' = [row EXCEPT ![o] = "queued"]
    /\ excused' = IF t = "ahead" THEN excused ELSE excused \union {o}
    /\ UNCHANGED <<fired, runVars, validations, reminded, doubled>>

\* The id of the event finds the entry by its providerOrderId.
Emit(o) == validations' = validations \union {o}

\* Mutation: a preorder whose time has come counts as changed.
WithdrawsAlways(s) == TRUE

\* changeOrderNotification returns early for a preorder that is pending.
Withdraws(s) == s # "pending"

\* Ordering notifies of a change; a confirmed preorder is still a preorder.
\* (Of Wolt's notifications a cancellation alone emits the event: WoltOrders,
\* Cancels.)
Change(o, s) ==
    /\ IF Withdraws(s) THEN Emit(o) ELSE UNCHANGED validations
    /\ excused' = IF s = "pending" THEN excused ELSE excused \union {o}
    /\ UNCHANGED <<queueVars, runVars, reminded, doubled>>

\* rejectOrder emits the event before it asks the provider, with the id the
\* device knows: Ordering's own (for a Wolt order the id of our row, which no
\* entry has for its providerOrderId).
Reject(o) ==
    /\ Emit(o)
    /\ excused' = excused \union {o}
    /\ UNCHANGED <<queueVars, runVars, reminded, doubled>>

----------------------------------------------------------------------------
(* Time *)

\* A minute holds one firing.  What slow runs have not reached is late.
Elapse(o) ==
    \/ /\ time[o] = "ahead"
       /\ time' = [time EXCEPT ![o] = "near"]
       /\ UNCHANGED <<fired, excused>>
    \/ /\ time[o] = "near" /\ o \in fired
       /\ time' = [time EXCEPT ![o] = "due"]
       /\ fired' = fired \ {o}
       /\ excused' = IF row[o] = "queued" /\ marker # "idle"
                     THEN excused \union {o} ELSE excused
    \/ /\ time[o] = "due" /\ o \in fired
       /\ time' = [time EXCEPT ![o] = "past"]
       /\ fired' = fired \ {o}
       /\ excused' = IF \E r \in Runs : run[r].pc = "find" \/ Holds(r, o)
                     THEN excused \union {o} ELSE excused

TimePasses(o) ==
    /\ Elapse(o)
    /\ UNCHANGED <<row, runVars, validations, reminded, doubled>>

\* Both intervals fire, whatever earlier runs still do.
Fire(r) ==
    /\ InMinute \intersect fired = {}
    /\ marker = "idle" /\ run[r].pc = "idle"
    /\ fired' = InMinute
    /\ marker' = "find"
    /\ run' = [run EXCEPT ![r].pc = "find"]
    /\ UNCHANGED <<row, time, marking, validations, historyVars>>

----------------------------------------------------------------------------
(* remindPreorder: mark the entries whose time is ahead.                   *)

\* Mutation: the entries of the next minute are left to the next run.
MarkableEarly == {o \in Queued : time[o] = "ahead"}

Markable == {o \in Queued : time[o] \in {"ahead", "near"}}

MarkFind ==
    /\ marker = "find"
    /\ \E S \in SUBSET Markable :
          /\ Cardinality(S) = Batch \/ (S = Markable /\ Cardinality(S) < Batch)
          /\ marking' = S
          /\ marker' = IF S = {} THEN "idle" ELSE "mark"
          /\ excused' = excused \union {o \in Markable \ S : time[o] = "near"}
    /\ UNCHANGED <<queueVars, run, validations, reminded, doubled>>

Mark ==
    /\ marker = "mark"
    /\ row' = [o \in Orders |->
                  IF o \in marking /\ row[o] # "none" THEN "marked" ELSE row[o]]
    /\ marker' = "idle" /\ marking' = {}
    /\ UNCHANGED <<time, fired, run, validations, historyVars>>

----------------------------------------------------------------------------
(* processingPreorderReminder: the marked entries, one after another.      *)

\* Mutation: the finished item is blanked, not cleared.
GoOnBlank(left) == [pc |-> IF left = {} THEN "idle" ELSE "next", left |-> left, item |-> ""]

GoOn(left) == [pc |-> IF left = {} THEN "idle" ELSE "next", left |-> left, item |-> "none"]

RunFind(r) ==
    /\ run[r].pc = "find"
    /\ run' = [run EXCEPT ![r] = GoOn(Marked)]
    /\ doubled' = doubled \union {o \in Marked : \E q \in Runs \ {r} : Holds(q, o)}
    /\ UNCHANGED <<queueVars, marker, marking, validations, reminded, excused>>

\* Mutation: the difference is rounded down, not towards zero.
RoundedDown(o) == time[o] = "near"

\* Less than a minute to the reminder's time, or less than a minute after it.
InWindow(o) == time[o] \in {"near", "due"}

\* processQueueItem, with the entry as the run has read it.
Take(r) ==
    /\ run[r].pc = "next"
    /\ \E o \in run[r].left :
          run' = [run EXCEPT ![r] =
                     IF InWindow(o)
                     THEN [pc |-> "send", left |-> @.left \ {o}, item |-> o]
                     ELSE GoOn(@.left \ {o})]
    /\ UNCHANGED <<queueVars, marker, marking, validations, historyVars>>

\* remindPreOrder returns true, acknowledged or not (module Gateway).
Send(r) ==
    /\ run[r].pc = "send"
    /\ reminded' = [reminded EXCEPT ![run[r].item] = @ + 1]
    /\ run' = [run EXCEPT ![r].pc = "withdraw"]
    /\ UNCHANGED <<queueVars, marker, marking, validations, excused, doubled>>

\* Mutation: the entry of a reminder that was sent stays.
KeepsEntry(o) == UNCHANGED row

\* validatePreorderQueue looks the entry up and deletes it.  One that goes in
\* between fails the delete, which is logged: one step has the same outcome.
Withdraw(o) == row' = [row EXCEPT ![o] = "none"]

\* Awaited by the run.
RunWithdraws(r) ==
    /\ run[r].pc = "withdraw"
    /\ Withdraw(run[r].item)
    /\ run' = [run EXCEPT ![r] = GoOn(@.left)]
    /\ UNCHANGED <<time, fired, marker, marking, validations, historyVars>>

\* As a listener.
Listen(o) ==
    /\ o \in validations
    /\ validations' = validations \ {o}
    /\ Withdraw(o)
    /\ UNCHANGED <<time, fired, runVars, historyVars>>

----------------------------------------------------------------------------
(* Failures *)

\* A reminder in this minute that is lost with its run.
LastChance == {o \in Orders : time[o] = "due" /\ row[o] # "none"}

MarkFails ==
    /\ "db" \in Faults
    /\ marker # "idle"
    /\ marker' = "idle" /\ marking' = {}
    /\ excused' = excused \union {o \in Queued : time[o] = "near"}
    /\ UNCHANGED <<queueVars, run, validations, reminded, doubled>>

\* processingPreorderReminder catches the error of its query.
RunFindFails(r) ==
    /\ "db" \in Faults
    /\ run[r].pc = "find"
    /\ run' = [run EXCEPT ![r] = IdleRun]
    /\ excused' = excused \union LastChance
    /\ UNCHANGED <<queueVars, marker, marking, validations, reminded, doubled>>

\* getOrder throws, or finds no order: retryRemindPreOrder catches it and
\* returns false at its first attempt.  The entry stays for the next minute.
SendFails(r) ==
    /\ "api" \in Faults
    /\ run[r].pc = "send"
    /\ run' = [run EXCEPT ![r] = GoOn(@.left)]
    /\ excused' = excused \union ({run[r].item} \intersect LastChance)
    /\ UNCHANGED <<queueVars, marker, marking, validations, reminded, doubled>>

WithdrawFails(r) ==
    /\ "db" \in Faults
    /\ run[r].pc = "withdraw"
    /\ run' = [run EXCEPT ![r] = GoOn(@.left)]
    /\ doubled' = doubled \union {run[r].item}
    /\ UNCHANGED <<queueVars, marker, marking, validations, reminded, excused>>

ListenFails(o) ==
    /\ "db" \in Faults
    /\ o \in validations
    /\ validations' = validations \ {o}
    /\ UNCHANGED <<queueVars, runVars, historyVars>>

\* The intervals start anew: a minute that has begun may get no firing.
Crash ==
    /\ "crash" \in Faults
    /\ marker # "idle" \/ \E r \in Runs : run[r].pc # "idle"
    /\ marker' = "idle" /\ marking' = {}
    /\ run' = [r \in Runs |-> IdleRun]
    /\ validations' = {}
    /\ \E missed \in SUBSET InMinute : fired' = fired \union missed
    /\ excused' = excused \union LastChance \union {o \in Queued : time[o] = "near"}
    /\ doubled' = doubled \union ({run[r].item : r \in Runs} \ {"none"})
    /\ UNCHANGED <<row, time, reminded>>

----------------------------------------------------------------------------
(* The specification *)

RunStep(r) == RunFind(r) \/ Take(r) \/ Send(r) \/ RunWithdraws(r)
Fault ==
    \/ MarkFails
    \/ \E r \in Runs : RunFindFails(r) \/ SendFails(r) \/ WithdrawFails(r)
    \/ \E o \in Orders : ListenFails(o)
    \/ Crash

Next ==
    \/ \E o \in Changing : Reject(o) \/ \E s \in Statuses : Change(o, s)
    \/ \E o \in Orders :
          \/ \E t \in {"ahead", "near"} : Enqueue(o, t)
          \/ Listen(o)
          \/ TimePasses(o)
    \/ MarkFind \/ Mark
    \/ \E r \in Runs : Fire(r) \/ RunStep(r)
    \/ Fault

Spec == Init /\ [][Next]_vars

----------------------------------------------------------------------------
(* Properties *)

TypeOK ==
    /\ row \in [Orders -> {"none", "queued", "marked"}]
    /\ time \in [Orders -> Times]
    /\ fired \subseteq InMinute
    /\ marker \in {"idle", "find", "mark"} /\ marking \subseteq Orders
    /\ run \in [Runs -> Run]
    /\ validations \subseteq Orders
    /\ reminded \in [Orders -> Nat]
    /\ excused \subseteq Orders /\ doubled \subseteq Orders

\* A reminder whose time has passed was sent, unless something has cost it: it
\* was scheduled within its last minute or left out of a full batch, its order
\* changed or was to be rejected, the runs of its last minute failed, were
\* killed or came too late (remindPreorder and processingPreorderReminder, whose
\* windows of one and of two minutes have to meet).
ReminderKept ==
    \A o \in Orders : time[o] = "past" /\ reminded[o] = 0 => o \in excused

\* A preorder is reminded once, unless runs overlap on it or its entry could
\* not be taken off the queue (processQueueItem).
RemindedOnce == \A o \in Orders : reminded[o] > 1 => o \in doubled
=============================================================================
