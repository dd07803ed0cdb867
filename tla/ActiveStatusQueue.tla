------------------------- MODULE ActiveStatusQueue --------------------------
(***************************************************************************)
(* Closing a business for a while.  A device closes a provider of a        *)
(* business (business/business.service.ts, setOnlineStatusByPublicId) and  *)
(* an entry of the active status queue remembers to open it again; every   *)
(* minute a run of the queue (queue/queue.service.ts, activeBusinessStatus)*)
(* marks the entries whose time has come and opens them one by one.        *)
(*                                                                         *)
(* The queue is written by event listeners nobody waits for: a statement   *)
(* that was sent takes effect at any later moment.  Time is abstract: an   *)
(* entry's time is ahead or has come ("elapsed").                          *)
(***************************************************************************)
EXTENDS FiniteSets, Naturals

CONSTANTS
    Businesses, \* businessPublicId
    Providers,  \* the providers a business can be closed for
    Users,      \* userPublicId
    Manages,    \* the pairs of a user and a business the user works for
    Devices,    \* the requests of devices in progress at once (a bound)
    Runs,       \* the runs of the interval in progress at once (a bound)
    Batch,      \* how many entries a run takes: 10 in the code
    Faults      \* what goes wrong in this instance, of FaultKinds

FaultKinds ==
    {"api",     \* a call of Ordering fails
     "db",      \* a database statement fails
     "crash"}   \* the process dies and restarts

ASSUME ConstantsAssumption ==
    /\ Manages \subseteq Users \X Businesses
    /\ Devices \intersect Runs = {}
    /\ Batch \in Nat \ {0}
    /\ Faults \subseteq FaultKinds

VARIABLES
    open,       \* Business.open or Provider.open, by business and provider
    queue,      \* the table active_status_queue, NoEntry without a row
    pc,         \* the step each worker takes next
    items,      \* the jobs the worker has still to start
    job,        \* the job it has started
    found,      \* the entries a run has found and not marked yet
    sent,       \* the statements of its listeners that are in flight
    abandoned   \* history: the marked entries that no run will handle

workerVars == <<pc, items, job, found>>
vars == <<open, queue, workerVars, sent, abandoned>>

Workers == Devices \union Runs

----------------------------------------------------------------------------
(* Types *)

NoEntry == [provider |-> "none"]
Entry == [user : Users, provider : Providers, elapsed : BOOLEAN, processing : BOOLEAN]

\* The arguments of one setOnlineStatusByPublicId.
Job == [business : Businesses, provider : Providers, user : Users, status : BOOLEAN]
NoJob == [status |-> "none"]

Init ==
    /\ open = [x \in Businesses \X Providers |-> TRUE]
    /\ queue = [b \in Businesses |-> NoEntry]
    /\ pc = [w \in Workers |-> "idle"]
    /\ items = [w \in Workers |-> {}]
    /\ job = [w \in Workers |-> NoJob]
    /\ found = [w \in Workers |-> {}]
    /\ sent = [w \in Workers |-> {}]
    /\ abandoned = {}

----------------------------------------------------------------------------
(* A worker's life *)

Goto(w, step) == pc' = [pc EXCEPT ![w] = step]

\* A worker starts afresh when its listeners are done (a bound of the model:
\* the other workers are what a new request overlaps with).
Ready(w) == pc[w] = "idle" /\ sent[w] = {}

\* An error ends the worker; a run's error leaves the rest of its batch alone.
Abort(w) ==
    /\ Goto(w, "idle")
    /\ items' = [items EXCEPT ![w] = {}]
    /\ job' = [job EXCEPT ![w] = NoJob]
    /\ found' = [found EXCEPT ![w] = {}]

IsMarked(b) == queue[b] # NoEntry /\ queue[b].processing

\* The marked entries that a run has still to open.
Left(w) ==
    {b \in Businesses : w \in Runs /\ IsMarked(b) /\ \E it \in items[w] : it.business = b}

\* POST business/online-status: a duration is required to close.
SetOnlineStatus(d, it) ==
    /\ Ready(d)
    /\ <<it.user, it.business>> \in Manages
    /\ Goto(d, "look")
    /\ items' = [items EXCEPT ![d] = {it}]
    /\ UNCHANGED <<open, queue, job, found, sent, abandoned>>

----------------------------------------------------------------------------
(* activeBusinessStatus: find, mark, open one by one.                      *)

Due == {b \in Businesses :
          queue[b] # NoEntry /\ queue[b].elapsed /\ ~ queue[b].processing}

\* Of the due entries, take: Batch at most, in no particular order.
Takes(S) ==
    /\ S # {} /\ S \subseteq Due
    /\ Cardinality(S) = Batch \/ (S = Due /\ Cardinality(S) < Batch)

FindElapsed(r) ==
    /\ Ready(r)
    /\ \E S \in SUBSET Businesses :
          /\ Takes(S)
          /\ found' = [found EXCEPT ![r] = S]
          /\ items' = [items EXCEPT ![r] =
                {[business |-> b, provider |-> queue[b].provider,
                  user |-> queue[b].user, status |-> TRUE] : b \in S}]
    /\ Goto(r, "mark")
    /\ UNCHANGED <<open, queue, job, sent, abandoned>>

Marked(S) ==
    [b \in Businesses |->
        IF b \in S THEN [queue[b] EXCEPT !.processing = TRUE] ELSE queue[b]]

\* Mutation: all due entries are marked, not the ones that were found.
MarkDue(r) ==
    /\ pc[r] = "mark"
    /\ queue' = Marked(Due)
    /\ found' = [found EXCEPT ![r] = {}]
    /\ Goto(r, "look")
    /\ UNCHANGED <<open, items, job, sent, abandoned>>

Mark(r) ==
    /\ pc[r] = "mark"
    /\ queue' = Marked(found[r])
    /\ found' = [found EXCEPT ![r] = {}]
    /\ Goto(r, "look")
    /\ UNCHANGED <<open, items, job, sent, abandoned>>

----------------------------------------------------------------------------
(* setOnlineStatusByPublicId: look the business up, send the queue's       *)
(* statement, write the status.                                            *)

\* Mutation: opening leaves the queue alone.
SendUpsertOnly(w, it) ==
    sent' = [sent EXCEPT ![w] = IF it.status THEN @ ELSE @ \union {it}]

\* upsert_active_status_queue to close, remove_active_status_queue to open.
Send(w, it) == sent' = [sent EXCEPT ![w] = @ \union {it}]

LookUp(w) ==
    /\ pc[w] = "look"
    /\ \E it \in items[w] :
          /\ items' = [items EXCEPT ![w] = @ \ {it}]
          /\ job' = [job EXCEPT ![w] = it]
          /\ Send(w, it)
    /\ Goto(w, "write")
    /\ UNCHANGED <<open, queue, found, abandoned>>

\* A run goes on with its next item.
NextStep(w) == IF items[w] = {} THEN "idle" ELSE "look"

WriteStatus(w) ==
    /\ pc[w] = "write"
    /\ open' = [open EXCEPT ![<<job[w].business, job[w].provider>>] = job[w].status]
    /\ Goto(w, NextStep(w))
    /\ job' = [job EXCEPT ![w] = NoJob]
    /\ UNCHANGED <<queue, items, found, sent, abandoned>>

----------------------------------------------------------------------------
(* The listeners: a statement in flight takes effect.                      *)

\* The row of a business goes, and the ids that were found name no other row.
Removed(b) ==
    /\ queue' = [queue EXCEPT ![b] = NoEntry]
    /\ found' = [w \in Workers |-> found[w] \ {b}]
    /\ abandoned' = abandoned \ {b}

\* userPublicId is unique: no other entry may belong to the user.
Refused(it) ==
    \E b \in Businesses \ {it.business} :
        queue[b] # NoEntry /\ queue[b].user = it.user

\* Mutation: the listener is given no user.
UpsertedForNobody(it) ==
    queue' = [queue EXCEPT ![it.business] =
                [user |-> "nobody", provider |-> it.provider, elapsed |-> FALSE,
                 processing |-> @ # NoEntry /\ @.processing]]

\* An update leaves the mark of a row as it is.
Upserted(it) ==
    queue' = [queue EXCEPT ![it.business] =
                [user |-> it.user, provider |-> it.provider, elapsed |-> FALSE,
                 processing |-> @ # NoEntry /\ @.processing]]

Upsert(w, it) ==
    /\ it \in sent[w] /\ ~ it.status
    /\ sent' = [sent EXCEPT ![w] = @ \ {it}]
    /\ IF Refused(it) THEN UNCHANGED queue ELSE Upserted(it)
    /\ UNCHANGED <<open, workerVars, abandoned>>

Remove(w, it) ==
    /\ it \in sent[w] /\ it.status
    /\ sent' = [sent EXCEPT ![w] = @ \ {it}]
    /\ Removed(it.business)
    /\ UNCHANGED <<open, pc, items, job>>

----------------------------------------------------------------------------
(* Failures and time *)

LookUpFails(w) ==
    /\ "api" \in Faults
    /\ pc[w] = "look"
    /\ Abort(w)
    /\ abandoned' = abandoned \union Left(w)
    /\ UNCHANGED <<open, queue, sent>>

\* The write fails, or Ordering's editBusiness after it.
WriteFails(w) ==
    /\ pc[w] = "write"
    /\ \/ "db" \in Faults /\ UNCHANGED open
       \/ /\ "api" \in Faults /\ job[w].provider = "Munchi"
          /\ open' = [open EXCEPT ![<<job[w].business, job[w].provider>>] = job[w].status]
    /\ Abort(w)
    /\ abandoned' = abandoned \union Left(w)
    /\ UNCHANGED <<queue, sent>>

MarkFails(r) ==
    /\ "db" \in Faults
    /\ pc[r] = "mark"
    /\ Abort(r)
    /\ UNCHANGED <<open, queue, sent, abandoned>>

\* Nobody sees the listener's error.
ListenerFails(w, it) ==
    /\ "db" \in Faults
    /\ it \in sent[w]
    /\ sent' = [sent EXCEPT ![w] = @ \ {it}]
    /\ abandoned' = abandoned \union (IF it.status THEN {it.business} ELSE {})
    /\ UNCHANGED <<open, queue, workerVars>>

Crash ==
    /\ "crash" \in Faults
    /\ \E w \in Workers : ~ Ready(w)
    /\ pc' = [w \in Workers |-> "idle"]
    /\ items' = [w \in Workers |-> {}]
    /\ job' = [w \in Workers |-> NoJob]
    /\ found' = [w \in Workers |-> {}]
    /\ sent' = [w \in Workers |-> {}]
    /\ abandoned' = {b \in Businesses : IsMarked(b)}
    /\ UNCHANGED <<open, queue>>

Elapse(b) ==
    /\ queue[b] # NoEntry /\ ~ queue[b].elapsed
    /\ queue' = [queue EXCEPT ![b].elapsed = TRUE]
    /\ UNCHANGED <<open, workerVars, sent, abandoned>>

----------------------------------------------------------------------------
(* The specification *)

Step(w) == LookUp(w) \/ WriteStatus(w)
RunStep(r) == FindElapsed(r) \/ Mark(r)
Listen(w) == \E it \in sent[w] : Upsert(w, it) \/ Remove(w, it)

Fault ==
    \/ \E w \in Workers :
          LookUpFails(w) \/ WriteFails(w) \/ \E it \in sent[w] : ListenerFails(w, it)
    \/ \E r \in Runs : MarkFails(r)
    \/ Crash

Next ==
    \/ \E d \in Devices, it \in Job : SetOnlineStatus(d, it)
    \/ \E w \in Workers : Step(w) \/ Listen(w)
    \/ \E r \in Runs : RunStep(r)
    \/ \E b \in Businesses : Elapse(b)
    \/ Fault

Spec == Init /\ [][Next]_vars

\* The interval fires every minute, the process runs every step and every
\* listener to its end, and time passes.
FairSpec ==
    /\ Spec
    /\ \A w \in Workers : WF_vars(Step(w)) /\ WF_vars(Listen(w))
    /\ \A r \in Runs : WF_vars(RunStep(r))
    /\ \A b \in Businesses : WF_vars(Elapse(b))

----------------------------------------------------------------------------
(* Properties *)

TypeOK ==
    /\ open \in [Businesses \X Providers -> BOOLEAN]
    /\ queue \in [Businesses -> Entry \union {NoEntry}]
    /\ pc \in [Workers -> {"idle", "mark", "look", "write"}]
    /\ items \in [Workers -> SUBSET Job]
    /\ job \in [Workers -> Job \union {NoJob}]
    /\ found \in [Workers -> SUBSET Businesses]
    /\ sent \in [Workers -> SUBSET Job]
    /\ abandoned \subseteq Businesses

\* A marked entry is never left behind but by a failure: some run has still to
\* open it, or its removal is on the way (the mark set "to prevent duplicate
\* handling" takes the entry away from every later run).
MarkedIsHandled ==
    \A b \in Businesses : IsMarked(b) =>
        \/ b \in abandoned
        \/ \E r \in Runs : pc[r] \in {"look", "write"} /\ b \in Left(r)
        \/ \E w \in Workers : \E it \in sent[w] : it.status /\ it.business = b

\* No device is closing anything.
Calm ==
    \A w \in Workers :
        /\ \A it \in items[w] \union sent[w] : it.status
        /\ job[w] # NoJob => job[w].status

\* Once the devices stop closing, every entry leaves the queue: none is left
\* out by the batches, the runs that overlap or the order of the listeners
\* (activeBusinessStatus without failures).
QueueDrains ==
    \A b \in Businesses : (queue[b] # NoEntry /\ []Calm) ~> queue[b] = NoEntry

Quiet == \A w \in Workers : Ready(w)

\* With nothing in flight, whatever is closed is queued to open again (the
\* duration is how long "you want it to be offline", business.dto.ts:163).
ClosedIsQueued ==
    Quiet => \A b \in Businesses, v \in Providers :
        ~ open[b, v] => queue[b] # NoEntry /\ queue[b].provider = v
=============================================================================
