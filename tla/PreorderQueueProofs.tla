------------------------ MODULE PreorderQueueProofs ------------------------
(***************************************************************************)
(* Proofs about PreorderQueue, for every set of preorders, every number of *)
(* runs, every batch size and every fault: no reminder is lost and none is *)
(* sent twice but for the causes that the histories record.                *)
(***************************************************************************)
EXTENDS PreorderQueue, TLAPS

(***************************************************************************)
(* The inductive invariant.                                                *)
(***************************************************************************)

\* Run r has still to remind o.
Pends(r, o) == o \in run[r].left \/ (run[r].pc = "send" /\ run[r].item = o)
\* Run r has reminded o and has still to take it off the queue.
Withdrawing(r, o) == run[r].pc = "withdraw" /\ run[r].item = o
Has(r, o) == Pends(r, o) \/ Withdrawing(r, o)

\* A run's step says what it has in hand; a reminder in hand was scheduled.
RunOK(r) ==
    /\ run[r].pc \in {"idle", "find"} => run[r].left = {}
    /\ run[r].pc \in {"send", "withdraw"} =>
          run[r].item \in Orders /\ run[r].item \notin run[r].left
    /\ \A o \in Orders : Has(r, o) => time[o] # "unset"

\* A preorder is scheduled once.
QueueOK ==
    \A o \in Orders : time[o] = "unset" => row[o] = "none" /\ reminded[o] = 0

\* What is known of an order that may not be reminded again: one run has it at
\* most, and a reminder that was sent leaves a row only to the run that is about
\* to delete it.
OnceOK(o) ==
    /\ \A q, r \in Runs : Has(q, o) /\ Has(r, o) => q = r
    /\ reminded[o] <= 1
    /\ reminded[o] = 1 =>
          /\ \A r \in Runs : ~ Pends(r, o)
          /\ row[o] # "none" => \E r \in Runs : Withdrawing(r, o)

\* What is known of a reminder that nothing has cost and that is still to come:
\* its row waits; the mark comes in the minute before its time, a run takes it
\* up in the minute after it.
KeptOK(o) ==
    /\ o \notin validations
    /\ reminded[o] = 0 =>
          /\ time[o] # "unset" => row[o] # "none"
          /\ time[o] = "near" /\ o \in fired /\ row[o] = "queued" =>
                marker = "find" \/ (marker = "mark" /\ o \in marking)
          /\ time[o] = "due" => row[o] = "marked"
          /\ time[o] = "due" /\ o \in fired =>
                \E r \in Runs : run[r].pc = "find" \/ Pends(r, o)
          /\ time[o] # "past"
          /\ \A r \in Runs : ~ Withdrawing(r, o)

IInv ==
    /\ TypeOK /\ QueueOK
    /\ \A r \in Runs : RunOK(r)
    /\ \A o \in Orders : o \notin doubled => OnceOK(o)
    /\ \A o \in Orders : o \notin excused => KeptOK(o)

(***************************************************************************)
(* What a step has to show of an order.                                    *)
(***************************************************************************)

\* The runs have the same orders in hand after a step.
SameHands(x) ==
    \A q \in Runs : /\ Pends(q, x)' <=> Pends(q, x)
                    /\ Withdrawing(q, x)' <=> Withdrawing(q, x)

\* Nobody's hands change with the runs as they are.
LEMMA SameRuns == ASSUME UNCHANGED run, NEW x PROVE SameHands(x)
BY DEF SameHands, Pends, Withdrawing

\* An order that no step reminds stays reminded once, if its row does not come back.
LEMMA OnceStep ==
    ASSUME NEW x \in Orders, OnceOK(x), SameHands(x),
           reminded'[x] = reminded[x],
           reminded[x] = 1 /\ row[x] = "none" => row'[x] = "none"
    PROVE  OnceOK(x)'
BY DEF OnceOK, SameHands, Has

(***************************************************************************)
(* Devices, providers, time and the listeners.                             *)
(***************************************************************************)

\* A preorder is scheduled once, and before any run can have it.
LEMMA EnqueueStep ==
    ASSUME IInv, NEW o \in Orders, NEW t \in {"ahead", "near"}, Enqueue(o, t)
    PROVE  IInv'
<1> USE ConstantsAssumption DEF IInv, TypeOK, Enqueue, Times, queueVars, runVars, historyVars
<1>1. TypeOK'
  BY DEF InMinute, Run, Markable, Queued
<1>2. QueueOK'
  BY DEF QueueOK
<1>3. ASSUME NEW q \in Runs PROVE RunOK(q)'
  BY DEF RunOK, Has, Pends, Withdrawing
<1>4. ASSUME NEW x \in Orders, x \notin doubled' PROVE OnceOK(x)'
  <2>1. OnceOK(x)
    BY <1>4
  <2>2. SameHands(x)
    BY SameRuns DEF runVars
  <2>3. reminded'[x] = reminded[x] /\ (reminded[x] = 1 /\ row[x] = "none" => row'[x] = "none")
    BY DEF QueueOK
  <2>. QED  BY <2>1, <2>2, <2>3, OnceStep
<1>5. ASSUME NEW x \in Orders, x \notin excused' PROVE KeptOK(x)'
  <2>1. KeptOK(x) /\ x \notin excused
    BY <1>5
  <2>2. SameHands(x)
    BY SameRuns DEF runVars
  <2>. QED
    BY <1>5, <2>1, <2>2 DEF KeptOK, SameHands, InMinute, Queued, Markable
<1>. QED  BY <1>1, <1>2, <1>3, <1>4, <1>5

\* The one that withdraws the order excuses it.
LEMMA ChangeStep ==
    ASSUME IInv, NEW o \in Changing, NEW s \in Statuses, Change(o, s)
    PROVE  IInv'
<1> USE ConstantsAssumption DEF IInv, TypeOK, Change, Emit, Withdraws, queueVars, runVars, historyVars
<1>1. TypeOK'
  BY DEF InMinute, Run, Markable, Queued
<1>2. QueueOK'
  BY DEF QueueOK
<1>3. ASSUME NEW q \in Runs PROVE RunOK(q)'
  BY DEF RunOK, Has, Pends, Withdrawing
<1>4. ASSUME NEW x \in Orders, x \notin doubled' PROVE OnceOK(x)'
  <2>1. OnceOK(x)
    BY <1>4
  <2>2. SameHands(x)
    BY SameRuns DEF runVars
  <2>3. reminded'[x] = reminded[x] /\ (reminded[x] = 1 /\ row[x] = "none" => row'[x] = "none")
    BY DEF QueueOK
  <2>. QED  BY <2>1, <2>2, <2>3, OnceStep
<1>5. ASSUME NEW x \in Orders, x \notin excused' PROVE KeptOK(x)'
  <2>1. KeptOK(x) /\ x \notin excused
    BY <1>5
  <2>2. SameHands(x)
    BY SameRuns DEF runVars
  <2>. QED
    BY <1>5, <2>1, <2>2 DEF KeptOK, SameHands, InMinute, Queued, Markable
<1>. QED  BY <1>1, <1>2, <1>3, <1>4, <1>5

\* So does a rejection.
LEMMA RejectStep ==
    ASSUME IInv, NEW o \in Changing, Reject(o)
    PROVE  IInv'
<1> USE ConstantsAssumption DEF IInv, TypeOK, Reject, Emit, queueVars, runVars, historyVars
<1>1. TypeOK'
  BY DEF InMinute, Run, Markable, Queued
<1>2. QueueOK'
  BY DEF QueueOK
<1>3. ASSUME NEW q \in Runs PROVE RunOK(q)'
  BY DEF RunOK, Has, Pends, Withdrawing
<1>4. ASSUME NEW x \in Orders, x \notin doubled' PROVE OnceOK(x)'
  <2>1. OnceOK(x)
    BY <1>4
  <2>2. SameHands(x)
    BY SameRuns DEF runVars
  <2>3. reminded'[x] = reminded[x] /\ (reminded[x] = 1 /\ row[x] = "none" => row'[x] = "none")
    BY DEF QueueOK
  <2>. QED  BY <2>1, <2>2, <2>3, OnceStep
<1>5. ASSUME NEW x \in Orders, x \notin excused' PROVE KeptOK(x)'
  <2>1. KeptOK(x) /\ x \notin excused
    BY <1>5
  <2>2. SameHands(x)
    BY SameRuns DEF runVars
  <2>. QED
    BY <1>5, <2>1, <2>2 DEF KeptOK, SameHands, InMinute, Queued, Markable
<1>. QED  BY <1>1, <1>2, <1>3, <1>4, <1>5

\* A minute ends after its firing: what it has not reached is excused.
LEMMA TimePassesStep ==
    ASSUME IInv, NEW o \in Orders, TimePasses(o)
    PROVE  IInv'
<1> USE DEF IInv, TypeOK, TimePasses, Elapse, Times, queueVars, runVars, historyVars
<1>1. TypeOK'
  BY DEF InMinute, Run, Markable, Queued
<1>2. QueueOK'
  BY DEF QueueOK
<1>3. ASSUME NEW q \in Runs PROVE RunOK(q)'
  BY DEF RunOK, Has, Pends, Withdrawing
<1>4. ASSUME NEW x \in Orders, x \notin doubled' PROVE OnceOK(x)'
  <2>1. OnceOK(x)
    BY <1>4
  <2>2. SameHands(x)
    BY SameRuns DEF runVars
  <2>3. reminded'[x] = reminded[x] /\ (reminded[x] = 1 /\ row[x] = "none" => row'[x] = "none")
    BY DEF QueueOK
  <2>. QED  BY <2>1, <2>2, <2>3, OnceStep
<1>5. ASSUME NEW x \in Orders, x \notin excused' PROVE KeptOK(x)'
  <2>1. KeptOK(x) /\ x \notin excused
    BY <1>5
  <2>2. SameHands(x)
    BY SameRuns DEF runVars
  <2>3. CASE x # o
    BY <2>1, <2>2, <2>3 DEF KeptOK, SameHands
  <2>4. CASE x = o /\ time[o] = "ahead"
    BY <2>1, <2>2, <2>4 DEF KeptOK, SameHands, InMinute
  <2>5. CASE x = o /\ time[o] = "near"
    BY <1>5, <2>1, <2>2, <2>5 DEF KeptOK, SameHands
  <2>6. CASE x = o /\ time[o] = "due"
    <3>1. o \in fired /\ ~ \E r \in Runs : run[r].pc = "find" \/ Holds(r, o)
      BY <1>5, <2>1, <2>6
    <3>2. reminded[o] # 0
      BY <2>1, <2>6, <3>1 DEF KeptOK, Pends, Holds
    <3>. QED  BY <2>1, <2>2, <2>6, <3>2 DEF KeptOK, SameHands
  <2>. QED  BY <2>3, <2>4, <2>5, <2>6
<1>. QED  BY <1>1, <1>2, <1>3, <1>4, <1>5

\* Only an excused order is withdrawn by a listener.
LEMMA ListenStep ==
    ASSUME IInv, NEW o \in Orders, Listen(o)
    PROVE  IInv'
<1> USE ConstantsAssumption DEF IInv, TypeOK, Listen, Withdraw, queueVars, runVars, historyVars
<1>1. TypeOK'
  BY DEF InMinute, Run, Markable, Queued
<1>2. QueueOK'
  BY DEF QueueOK
<1>3. ASSUME NEW q \in Runs PROVE RunOK(q)'
  BY DEF RunOK, Has, Pends, Withdrawing
<1>4. ASSUME NEW x \in Orders, x \notin doubled' PROVE OnceOK(x)'
  <2>1. OnceOK(x)
    BY <1>4
  <2>2. SameHands(x)
    BY SameRuns DEF runVars
  <2>3. reminded'[x] = reminded[x] /\ (reminded[x] = 1 /\ row[x] = "none" => row'[x] = "none")
    BY DEF QueueOK
  <2>. QED  BY <2>1, <2>2, <2>3, OnceStep
<1>5. ASSUME NEW x \in Orders, x \notin excused' PROVE KeptOK(x)'
  <2>1. KeptOK(x) /\ x \notin excused
    BY <1>5
  <2>2. SameHands(x)
    BY SameRuns DEF runVars
  <2>. QED
    BY <1>5, <2>1, <2>2 DEF KeptOK, SameHands, InMinute, Queued, Markable
<1>. QED  BY <1>1, <1>2, <1>3, <1>4, <1>5

\* A listener that fails leaves the row.
LEMMA ListenFailsStep ==
    ASSUME IInv, NEW o \in Orders, ListenFails(o)
    PROVE  IInv'
<1> USE ConstantsAssumption DEF IInv, TypeOK, ListenFails, queueVars, runVars, historyVars
<1>1. TypeOK'
  BY DEF InMinute, Run, Markable, Queued
<1>2. QueueOK'
  BY DEF QueueOK
<1>3. ASSUME NEW q \in Runs PROVE RunOK(q)'
  BY DEF RunOK, Has, Pends, Withdrawing
<1>4. ASSUME NEW x \in Orders, x \notin doubled' PROVE OnceOK(x)'
  <2>1. OnceOK(x)
    BY <1>4
  <2>2. SameHands(x)
    BY SameRuns DEF runVars
  <2>3. reminded'[x] = reminded[x] /\ (reminded[x] = 1 /\ row[x] = "none" => row'[x] = "none")
    BY DEF QueueOK
  <2>. QED  BY <2>1, <2>2, <2>3, OnceStep
<1>5. ASSUME NEW x \in Orders, x \notin excused' PROVE KeptOK(x)'
  <2>1. KeptOK(x) /\ x \notin excused
    BY <1>5
  <2>2. SameHands(x)
    BY SameRuns DEF runVars
  <2>. QED
    BY <1>5, <2>1, <2>2 DEF KeptOK, SameHands, InMinute, Queued, Markable
<1>. QED  BY <1>1, <1>2, <1>3, <1>4, <1>5

(***************************************************************************)
(* The intervals and remindPreorder.                                       *)
(***************************************************************************)

\* What a full batch leaves out in its last minute is excused.
LEMMA MarkFindStep ==
    ASSUME IInv, MarkFind
    PROVE  IInv'
<1> USE ConstantsAssumption DEF IInv, TypeOK, MarkFind, queueVars, runVars, historyVars
<1>1. TypeOK'
  BY DEF InMinute, Run, Markable, Queued
<1>2. QueueOK'
  BY DEF QueueOK
<1>3. ASSUME NEW q \in Runs PROVE RunOK(q)'
  BY DEF RunOK, Has, Pends, Withdrawing
<1>4. ASSUME NEW x \in Orders, x \notin doubled' PROVE OnceOK(x)'
  <2>1. OnceOK(x)
    BY <1>4
  <2>2. SameHands(x)
    BY SameRuns DEF runVars
  <2>3. reminded'[x] = reminded[x] /\ (reminded[x] = 1 /\ row[x] = "none" => row'[x] = "none")
    BY DEF QueueOK
  <2>. QED  BY <2>1, <2>2, <2>3, OnceStep
<1>5. ASSUME NEW x \in Orders, x \notin excused' PROVE KeptOK(x)'
  <2>1. KeptOK(x) /\ x \notin excused
    BY <1>5
  <2>2. SameHands(x)
    BY SameRuns DEF runVars
  <2>. QED
    BY <1>5, <2>1, <2>2 DEF KeptOK, SameHands, InMinute, Queued, Markable
<1>. QED  BY <1>1, <1>2, <1>3, <1>4, <1>5

\* The entries found are marked, those that are still there.
LEMMA MarkStep ==
    ASSUME IInv, Mark
    PROVE  IInv'
<1> USE ConstantsAssumption DEF IInv, TypeOK, Mark, queueVars, runVars, historyVars
<1>1. TypeOK'
  BY DEF InMinute, Run, Markable, Queued
<1>2. QueueOK'
  BY DEF QueueOK
<1>3. ASSUME NEW q \in Runs PROVE RunOK(q)'
  BY DEF RunOK, Has, Pends, Withdrawing
<1>4. ASSUME NEW x \in Orders, x \notin doubled' PROVE OnceOK(x)'
  <2>1. OnceOK(x)
    BY <1>4
  <2>2. SameHands(x)
    BY SameRuns DEF runVars
  <2>3. reminded'[x] = reminded[x] /\ (reminded[x] = 1 /\ row[x] = "none" => row'[x] = "none")
    BY DEF QueueOK
  <2>. QED  BY <2>1, <2>2, <2>3, OnceStep
<1>5. ASSUME NEW x \in Orders, x \notin excused' PROVE KeptOK(x)'
  <2>1. KeptOK(x) /\ x \notin excused
    BY <1>5
  <2>2. SameHands(x)
    BY SameRuns DEF runVars
  <2>. QED
    BY <1>5, <2>1, <2>2 DEF KeptOK, SameHands, InMinute, Queued, Markable
<1>. QED  BY <1>1, <1>2, <1>3, <1>4, <1>5

\* What a run would have marked in its last minute is excused.
LEMMA MarkFailsStep ==
    ASSUME IInv, MarkFails
    PROVE  IInv'
<1> USE ConstantsAssumption DEF IInv, TypeOK, MarkFails, queueVars, runVars, historyVars
<1>1. TypeOK'
  BY DEF InMinute, Run, Markable, Queued
<1>2. QueueOK'
  BY DEF QueueOK
<1>3. ASSUME NEW q \in Runs PROVE RunOK(q)'
  BY DEF RunOK, Has, Pends, Withdrawing
<1>4. ASSUME NEW x \in Orders, x \notin doubled' PROVE OnceOK(x)'
  <2>1. OnceOK(x)
    BY <1>4
  <2>2. SameHands(x)
    BY SameRuns DEF runVars
  <2>3. reminded'[x] = reminded[x] /\ (reminded[x] = 1 /\ row[x] = "none" => row'[x] = "none")
    BY DEF QueueOK
  <2>. QED  BY <2>1, <2>2, <2>3, OnceStep
<1>5. ASSUME NEW x \in Orders, x \notin excused' PROVE KeptOK(x)'
  <2>1. KeptOK(x) /\ x \notin excused
    BY <1>5
  <2>2. SameHands(x)
    BY SameRuns DEF runVars
  <2>. QED
    BY <1>5, <2>1, <2>2 DEF KeptOK, SameHands, InMinute, Queued, Markable
<1>. QED  BY <1>1, <1>2, <1>3, <1>4, <1>5

\* A firing meets every order that is in a minute.
LEMMA FireStep ==
    ASSUME IInv, NEW r \in Runs, Fire(r)
    PROVE  IInv'
<1> USE ConstantsAssumption DEF IInv, TypeOK, Fire, queueVars, runVars, historyVars
<1>1. TypeOK'
  BY DEF InMinute, Run, Markable, Queued
<1>2. QueueOK'
  BY DEF QueueOK
<1>3. ASSUME NEW q \in Runs PROVE RunOK(q)'
  BY DEF RunOK, Has, Pends, Withdrawing
<1>4. ASSUME NEW x \in Orders, x \notin doubled' PROVE OnceOK(x)'
  <2>1. OnceOK(x)
    BY <1>4
  <2>2. SameHands(x)
    BY DEF SameHands, RunOK, Pends, Withdrawing
  <2>3. reminded'[x] = reminded[x] /\ (reminded[x] = 1 /\ row[x] = "none" => row'[x] = "none")
    BY DEF QueueOK
  <2>. QED  BY <2>1, <2>2, <2>3, OnceStep
<1>5. ASSUME NEW x \in Orders, x \notin excused' PROVE KeptOK(x)'
  <2>1. KeptOK(x) /\ x \notin excused
    BY <1>5
  <2>2. SameHands(x)
    BY DEF SameHands, RunOK, Pends, Withdrawing
  <2>. QED
    BY <1>5, <2>1, <2>2 DEF KeptOK, SameHands, InMinute, Queued, Markable
<1>. QED  BY <1>1, <1>2, <1>3, <1>4, <1>5


(***************************************************************************)
(* The runs of processingPreorderReminder.                                 *)
(***************************************************************************)

\* What a run goes on with.
LEMMA GoOnMeans ==
    ASSUME NEW left \in SUBSET Orders
    PROVE  /\ GoOn(left) \in Run /\ GoOn(left).left = left
           /\ GoOn(left).pc \in {"idle", "next"}
           /\ GoOn(left).pc = "idle" => left = {}
BY DEF GoOn, Run

\* A run takes up the marked entries: what another run has of them may be
\* reminded again.
LEMMA RunFindStep ==
    ASSUME IInv, NEW r \in Runs, RunFind(r)
    PROVE  IInv'
<1> USE DEF IInv, TypeOK, RunFind, queueVars
<1>1. /\ run' = [run EXCEPT ![r] = GoOn(Marked)]
      /\ GoOn(Marked) \in Run /\ GoOn(Marked).left = Marked
      /\ GoOn(Marked).pc \in {"idle", "next"}
      /\ GoOn(Marked).pc = "idle" => Marked = {}
  BY GoOnMeans DEF Marked
<1> HIDE DEF RunFind
<1>2. run' \in [Runs -> Run] /\ TypeOK'
  BY <1>1 DEF RunFind, InMinute, Marked
<1>3. \A x \in Orders : Pends(r, x)' <=> row[x] = "marked"
  BY <1>1, <1>2 DEF Pends, Marked
<1>4. \A x \in Orders : ~ Withdrawing(r, x)' /\ ~ Has(r, x)
  BY <1>1, <1>2 DEF RunFind, RunOK, Withdrawing, Has, Pends
<1>5. \A q \in Runs \ {r}, x \in Orders :
         /\ Pends(q, x)' <=> Pends(q, x)
         /\ Withdrawing(q, x)' <=> Withdrawing(q, x)
  BY <1>1 DEF Pends, Withdrawing
<1>6. QueueOK' /\ \A x \in Orders : row[x] = "marked" => time[x] # "unset"
  BY DEF QueueOK, RunFind
<1>7. ASSUME NEW q \in Runs PROVE RunOK(q)'
  <2>1. CASE q = r
    BY <1>1, <1>2, <1>3, <1>4, <1>6, <2>1 DEF RunOK, Has, RunFind
  <2>2. CASE q # r
    BY <1>1, <1>5, <2>2 DEF RunOK, Has, RunFind
  <2>. QED  BY <2>1, <2>2
<1>8. ASSUME NEW x \in Orders, x \notin doubled' PROVE OnceOK(x)'
  <2>1. OnceOK(x)
    BY <1>8 DEF RunFind
  <2>2. row[x] = "marked" => \A q \in Runs \ {r} : ~ Has(q, x)
    BY <1>8 DEF RunFind, Marked, Holds, Has, Pends, Withdrawing
  <2>. QED  BY <1>3, <1>4, <1>5, <2>1, <2>2 DEF OnceOK, Has, RunFind
<1>9. ASSUME NEW x \in Orders, x \notin excused' PROVE KeptOK(x)'
  <2>1. KeptOK(x)
    BY <1>9 DEF RunFind
  <2>. QED  BY <1>1, <1>3, <1>4, <1>5, <2>1 DEF KeptOK, RunFind
<1>. QED  BY <1>2, <1>6, <1>7, <1>8, <1>9

\* The other runs have what they had when run r goes on.
LEMMA OtherRuns ==
    ASSUME run \in [Runs -> Run], NEW r \in Runs, NEW n \in Run,
           run' = [run EXCEPT ![r] = n]
    PROVE  /\ run' \in [Runs -> Run] /\ run'[r] = n
           /\ \A q \in Runs \ {r} :
                 /\ run'[q] = run[q]
                 /\ \A x \in Orders : /\ Pends(q, x)' <=> Pends(q, x)
                                      /\ Withdrawing(q, x)' <=> Withdrawing(q, x)
BY DEF Pends, Withdrawing

\* A run that takes an entry in its window keeps it in hand; one that is not in
\* the window was left alone, and one whose minute it is always is.
LEMMA TakeStep ==
    ASSUME IInv, NEW r \in Runs, Take(r)
    PROVE  IInv'
<1> USE DEF IInv, TypeOK
<1>1. /\ run[r].pc = "next" /\ run[r] \in Run
      /\ UNCHANGED <<row, time, fired, marker, marking, validations, reminded, excused, doubled>>
  BY DEF Take, queueVars, historyVars
<1>2. PICK o \in run[r].left :
        run' = [run EXCEPT ![r] =
                   IF InWindow(o)
                   THEN [pc |-> "send", left |-> run[r].left \ {o}, item |-> o]
                   ELSE GoOn(run[r].left \ {o})]
  BY DEF Take
<1> DEFINE left == run[r].left \ {o}
           sending == [pc |-> "send", left |-> left, item |-> o]
           n == IF InWindow(o) THEN sending ELSE GoOn(left)
<1>3. o \in Orders /\ left \in SUBSET Orders /\ Has(r, o)
  BY <1>1 DEF Run, Has, Pends
<1>4. sending \in Run
  BY <1>3 DEF Run
<1>5. n \in Run /\ run' = [run EXCEPT ![r] = n]
  BY <1>2, <1>3, <1>4, GoOnMeans
<1>6. /\ n.left = left
      /\ n.pc \in {"idle", "next", "send"}
      /\ n.pc = "idle" => left = {}
      /\ n.pc = "send" <=> InWindow(o)
      /\ n.pc = "send" => n.item = o
  BY <1>3, GoOnMeans
<1> HIDE DEF n
<1>7. /\ TypeOK' /\ run'[r] = n
      /\ \A q \in Runs \ {r} : /\ run'[q] = run[q]
                               /\ \A x \in Orders : /\ Pends(q, x)' <=> Pends(q, x)
                                                    /\ Withdrawing(q, x)' <=> Withdrawing(q, x)
  BY <1>1, <1>5, OtherRuns DEF InMinute
<1> HIDE DEF left
<1>8. \A x \in Orders : /\ Pends(r, x)' => Pends(r, x)
                        /\ ~ Withdrawing(r, x) /\ ~ Withdrawing(r, x)'
                        /\ Pends(r, x) /\ time[x] \in {"near", "due"} => Pends(r, x)'
  BY <1>1, <1>3, <1>6, <1>7 DEF Pends, Withdrawing, InWindow, left
<1>9. QueueOK'
  BY <1>1 DEF QueueOK
<1>10. ASSUME NEW q \in Runs PROVE RunOK(q)'
  <2>1. CASE q = r
    BY <1>1, <1>3, <1>6, <1>7, <1>8, <2>1 DEF RunOK, Has, left
  <2>2. CASE q # r
    BY <1>1, <1>7, <2>2 DEF RunOK, Has
  <2>. QED  BY <2>1, <2>2
<1>11. ASSUME NEW x \in Orders, x \notin doubled' PROVE OnceOK(x)'
  <2>1. OnceOK(x)
    BY <1>1, <1>11
  <2>. QED  BY <1>1, <1>7, <1>8, <2>1 DEF OnceOK, Has
<1>12. ASSUME NEW x \in Orders, x \notin excused' PROVE KeptOK(x)'
  <2>1. KeptOK(x)
    BY <1>1, <1>12
  <2>2. \A q \in Runs : run[q].pc = "find" => run'[q].pc = "find"
    BY <1>1, <1>7
  <2>. QED  BY <1>1, <1>7, <1>8, <2>1, <2>2 DEF KeptOK
<1>. QED  BY <1>7, <1>9, <1>10, <1>11, <1>12

\* A reminder is sent by the one run that has it.
LEMMA SendStep ==
    ASSUME IInv, NEW r \in Runs, Send(r)
    PROVE  IInv'
<1> USE DEF IInv, TypeOK
<1> DEFINE o == run[r].item
           n == [run[r] EXCEPT !.pc = "withdraw"]
<1>1. /\ run[r].pc = "send" /\ run[r] \in Run
      /\ UNCHANGED <<row, time, fired, marker, marking, validations, excused, doubled>>
      /\ reminded' = [reminded EXCEPT ![o] = @ + 1]
      /\ run' = [run EXCEPT ![r] = n]
  BY DEF Send, queueVars
<1>2. o \in Orders /\ Pends(r, o)
  BY <1>1 DEF RunOK, Pends
<1>3. n \in Run /\ n.pc = "withdraw" /\ n.left = run[r].left /\ n.item = o
  BY <1>1 DEF Run
<1> HIDE DEF n
<1>4. /\ run' \in [Runs -> Run] /\ run'[r] = n
      /\ \A q \in Runs \ {r} : /\ run'[q] = run[q]
                               /\ \A x \in Orders : /\ Pends(q, x)' <=> Pends(q, x)
                                                    /\ Withdrawing(q, x)' <=> Withdrawing(q, x)
  BY <1>1, <1>3, OtherRuns
<1>5. \A x \in Orders : /\ Withdrawing(r, x)' <=> x = o
                        /\ ~ Withdrawing(r, x)
                        /\ Pends(r, x)' <=> x \in run[r].left
                        /\ Pends(r, x) <=> (x \in run[r].left \/ x = o)
  BY <1>1, <1>3, <1>4 DEF Pends, Withdrawing
<1>6. TypeOK'
  BY <1>1, <1>2, <1>4 DEF InMinute
<1>7. /\ reminded'[o] = reminded[o] + 1
      /\ \A x \in Orders \ {o} : reminded'[x] = reminded[x]
  BY <1>1, <1>2
<1>8. QueueOK'
  BY <1>1, <1>2, <1>7 DEF QueueOK, RunOK, Has
<1>9. ASSUME NEW q \in Runs PROVE RunOK(q)'
  <2>1. CASE q = r
    BY <1>1, <1>2, <1>3, <1>4, <1>5, <2>1 DEF RunOK, Has
  <2>2. CASE q # r
    BY <1>1, <1>4, <2>2 DEF RunOK, Has
  <2>. QED  BY <2>1, <2>2
<1>10. ASSUME NEW x \in Orders, x \notin doubled' PROVE OnceOK(x)'
  <2>1. OnceOK(x)
    BY <1>1, <1>10
  <2>2. CASE x = o
    BY <1>1, <1>2, <1>4, <1>5, <1>7, <2>1, <2>2 DEF OnceOK, Has, RunOK
  <2>3. CASE x # o
    BY <1>1, <1>4, <1>5, <1>7, <2>1, <2>3 DEF OnceOK, Has
  <2>. QED  BY <2>2, <2>3
<1>11. ASSUME NEW x \in Orders, x \notin excused' PROVE KeptOK(x)'
  <2>1. KeptOK(x)
    BY <1>1, <1>11
  <2>2. \A q \in Runs : run[q].pc = "find" => run'[q].pc = "find"
    BY <1>1, <1>4
  <2>3. CASE x = o
    BY <1>1, <1>2, <1>7, <2>1, <2>3 DEF KeptOK
  <2>4. CASE x # o
    BY <1>1, <1>4, <1>5, <1>7, <2>1, <2>2, <2>4 DEF KeptOK
  <2>. QED  BY <2>3, <2>4
<1>. QED  BY <1>6, <1>8, <1>9, <1>10, <1>11

\* A run that is done with an entry, or with its query, and goes on: the entry it
\* has deleted is gone or may be reminded again; the one it has not reminded is
\* excused when its last minute has begun.
LEMMA LetGoStep ==
    ASSUME IInv, NEW r \in Runs, run[r].pc \in {"find", "send", "withdraw"},
           run' = [run EXCEPT ![r] = GoOn(run[r].left)],
           UNCHANGED <<time, fired, marker, marking, validations, reminded>>,
           row' \in [Orders -> {"none", "queued", "marked"}],
           \A x \in Orders : row'[x] = row[x] \/ (row'[x] = "none" /\ Withdrawing(r, x)),
           \A x \in Orders : Withdrawing(r, x) => row'[x] = "none" \/ x \in doubled',
           \A x \in LastChance : run[r].pc = "find" \/ (run[r].pc = "send" /\ run[r].item = x)
                                    => x \in excused',
           excused' \subseteq Orders, excused \subseteq excused',
           doubled' \subseteq Orders, doubled \subseteq doubled'
    PROVE  IInv'
<1> USE DEF IInv, TypeOK
<1> DEFINE n == GoOn(run[r].left)
<1>1. run[r] \in Run /\ run[r].left \in SUBSET Orders
  BY DEF Run
<1>2. /\ n \in Run /\ n.left = run[r].left /\ n.pc \in {"idle", "next"}
      /\ n.pc = "idle" => run[r].left = {}
  BY <1>1, GoOnMeans
<1> HIDE DEF n
<1>3. /\ run' \in [Runs -> Run] /\ run'[r] = n
      /\ \A q \in Runs \ {r} : /\ run'[q] = run[q]
                               /\ \A x \in Orders : /\ Pends(q, x)' <=> Pends(q, x)
                                                    /\ Withdrawing(q, x)' <=> Withdrawing(q, x)
  BY <1>2, OtherRuns DEF n
<1>4. \A x \in Orders : /\ ~ Withdrawing(r, x)'
                        /\ Pends(r, x)' <=> x \in run[r].left
                        /\ Pends(r, x) <=> (x \in run[r].left \/ (run[r].pc = "send" /\ run[r].item = x))
  BY <1>2, <1>3 DEF Pends, Withdrawing
<1>5. TypeOK'
  BY <1>3 DEF InMinute
<1>6. QueueOK'
  BY DEF QueueOK
<1>7. ASSUME NEW q \in Runs PROVE RunOK(q)'
  <2>1. CASE q = r
    BY <1>2, <1>3, <1>4, <2>1 DEF RunOK, Has
  <2>2. CASE q # r
    BY <1>3, <2>2 DEF RunOK, Has
  <2>. QED  BY <2>1, <2>2
<1>8. ASSUME NEW x \in Orders, x \notin doubled' PROVE OnceOK(x)'
  <2>1. OnceOK(x)
    BY <1>8
  <2>. QED  BY <1>3, <1>4, <1>8, <2>1 DEF OnceOK, Has
<1>9. ASSUME NEW x \in Orders, x \notin excused' PROVE KeptOK(x)'
  <2>1. KeptOK(x)
    BY <1>9
  <2>2. reminded[x] = 0 => row'[x] = row[x]
    BY <2>1 DEF KeptOK
  <2>3. ASSUME reminded[x] = 0, time[x] = "due", x \in fired
        PROVE  \E q \in Runs : run'[q].pc = "find" \/ Pends(q, x)'
    <3>1. x \in LastChance
      BY <2>1, <2>3 DEF KeptOK, LastChance
    <3>2. PICK q \in Runs : run[q].pc = "find" \/ Pends(q, x)
      BY <2>1, <2>3 DEF KeptOK
    <3>. QED  BY <1>3, <1>4, <1>9, <3>1, <3>2
  <2>. QED  BY <1>3, <1>4, <2>1, <2>2, <2>3 DEF KeptOK
<1>. QED  BY <1>5, <1>6, <1>7, <1>8, <1>9

\* The entry of a reminder that was sent goes.
LEMMA RunWithdrawsStep ==
    ASSUME IInv, NEW r \in Runs, RunWithdraws(r)
    PROVE  IInv'
<1>1. \A x \in Orders : Withdrawing(r, x) <=> x = run[r].item
  BY DEF RunWithdraws, Withdrawing
<1>. QED  BY <1>1, LetGoStep
          DEF RunWithdraws, Withdraw, historyVars, IInv, TypeOK, RunOK

(***************************************************************************)
(* Failures                                                                *)
(***************************************************************************)

\* A run that fails goes on or ends.
LEMMA RunFailsStep ==
    ASSUME IInv, NEW r \in Runs, RunFindFails(r) \/ SendFails(r) \/ WithdrawFails(r)
    PROVE  IInv'
<1> USE DEF IInv, TypeOK, queueVars
<1>1. CASE RunFindFails(r)
  <2>1. IdleRun = GoOn(run[r].left)
    BY <1>1 DEF RunFindFails, RunOK, IdleRun, GoOn
  <2>2. \A x \in Orders : ~ Withdrawing(r, x)
    BY <1>1 DEF RunFindFails, Withdrawing
  <2>. QED  BY <1>1, <2>1, <2>2, LetGoStep DEF RunFindFails, LastChance
<1>2. CASE SendFails(r)
  <2>1. \A x \in Orders : ~ Withdrawing(r, x)
    BY <1>2 DEF SendFails, Withdrawing
  <2>. QED  BY <1>2, <2>1, LetGoStep DEF SendFails, LastChance
<1>3. CASE WithdrawFails(r)
  <2>1. run[r].item \in Orders /\ \A x \in Orders : Withdrawing(r, x) <=> x = run[r].item
    BY <1>3 DEF WithdrawFails, Withdrawing, RunOK
  <2>. QED  BY <1>3, <2>1, LetGoStep DEF WithdrawFails
<1>. QED  BY <1>1, <1>2, <1>3

\* A crash excuses what its runs had and what the present minute would mark.
LEMMA CrashStep ==
    ASSUME IInv, Crash
    PROVE  IInv'
<1> USE DEF IInv, TypeOK
<1>1. /\ marker' = "idle" /\ marking' = {}
      /\ run' = [r \in Runs |-> IdleRun]
      /\ validations' = {}
      /\ fired \subseteq fired' /\ fired' \subseteq InMinute
      /\ excused' = excused \union LastChance \union {o \in Queued : time[o] = "near"}
      /\ doubled' = doubled \union ({run[r].item : r \in Runs} \ {"none"})
      /\ UNCHANGED <<row, time, reminded>>
  BY DEF Crash
<1>2. IdleRun \in Run /\ IdleRun.pc = "idle" /\ IdleRun.left = {}
  BY DEF IdleRun, Run
<1>3. \A r \in Runs : run'[r] = IdleRun
  BY <1>1
<1>4. \A r \in Runs, x \in Orders : ~ Pends(r, x)' /\ ~ Withdrawing(r, x)'
  BY <1>2, <1>3 DEF Pends, Withdrawing
<1>5. TypeOK'
  BY <1>1, <1>2 DEF InMinute, LastChance, Queued, Run
<1>6. QueueOK' /\ \A r \in Runs : RunOK(r)'
  BY <1>1, <1>2, <1>3, <1>4 DEF QueueOK, RunOK, Has
<1>7. ASSUME NEW x \in Orders, x \notin doubled' PROVE OnceOK(x)'
  <2>1. OnceOK(x)
    BY <1>1, <1>7
  <2>2. \A r \in Runs : ~ Withdrawing(r, x)
    BY <1>1, <1>7, ConstantsAssumption DEF Withdrawing
  <2>. QED  BY <1>1, <1>4, <2>1, <2>2 DEF OnceOK, Has
<1>8. ASSUME NEW x \in Orders, x \notin excused' PROVE KeptOK(x)'
  <2>1. KeptOK(x)
    BY <1>1, <1>8
  <2>. QED  BY <1>1, <1>4, <1>8, <2>1 DEF KeptOK, LastChance, Queued
<1>. QED  BY <1>5, <1>6, <1>7, <1>8

(***************************************************************************)
(* The theorems.                                                           *)
(***************************************************************************)

\* Every reachable state of the queue satisfies IInv.
THEOREM Inductive == Spec => []IInv
<1>1. Init => IInv
  <2> SUFFICES ASSUME Init PROVE IInv
    OBVIOUS
  <2>1. IdleRun \in Run /\ IdleRun.pc = "idle" /\ IdleRun.left = {}
    BY DEF IdleRun, Run
  <2>2. \A r \in Runs, x \in Orders : ~ Pends(r, x) /\ ~ Withdrawing(r, x)
    BY <2>1 DEF Init, Pends, Withdrawing
  <2>3. TypeOK
    BY <2>1 DEF Init, TypeOK, Times, InMinute
  <2>. QED  BY <2>1, <2>2, <2>3 DEF Init, IInv, QueueOK, RunOK, OnceOK, KeptOK, Has
<1>2. IInv /\ [Next]_vars => IInv'
  <2> SUFFICES ASSUME IInv, [Next]_vars PROVE IInv'
    OBVIOUS
  <2>1. ASSUME NEW o \in Changing, Reject(o) \/ \E s \in Statuses : Change(o, s) PROVE IInv'
    BY <2>1, RejectStep, ChangeStep
  <2>2. ASSUME NEW o \in Orders,
               (\E t \in {"ahead", "near"} : Enqueue(o, t)) \/ Listen(o) \/ TimePasses(o)
        PROVE  IInv'
    BY <2>2, EnqueueStep, ListenStep, TimePassesStep
  <2>3. CASE MarkFind \/ Mark
    BY <2>3, MarkFindStep, MarkStep
  <2>4. ASSUME NEW r \in Runs, Fire(r) \/ RunStep(r) PROVE IInv'
    BY <2>4, FireStep, RunFindStep, TakeStep, SendStep, RunWithdrawsStep DEF RunStep
  <2>5. CASE Fault
    BY <2>5, MarkFailsStep, RunFailsStep, ListenFailsStep, CrashStep DEF Fault
  <2>6. CASE UNCHANGED vars
    <3>1. UNCHANGED <<queueVars, runVars, validations, historyVars>>
      BY <2>6 DEF vars
    <3>. QED  BY <3>1 DEF queueVars, runVars, historyVars, IInv, TypeOK, QueueOK, RunOK,
                      OnceOK, KeptOK, Has, Pends, Withdrawing, InMinute
  <2>. QED  BY <2>1, <2>2, <2>3, <2>4, <2>5, <2>6 DEF Next
<1>. QED  BY <1>1, <1>2, PTL DEF Spec

\* Every variable of the queue keeps its type.
THEOREM TypeCorrect == Spec => []TypeOK
<1>1. IInv => TypeOK
  BY DEF IInv
<1>. QED  BY <1>1, Inductive, PTL

\* However many runs there are and however slow, a reminder whose time has passed
\* was sent or lost to a recorded cause (remindPreorder,
\* processingPreorderReminder).
THEOREM ReminderKeptCorrect == Spec => []ReminderKept
<1>1. IInv => ReminderKept
  BY DEF IInv, KeptOK, ReminderKept
<1>. QED  BY <1>1, Inductive, PTL

\* A preorder is reminded twice only if two runs had it or a run failed to delete
\* its entry (processQueueItem).
THEOREM RemindedOnceCorrect == Spec => []RemindedOnce
<1>1. IInv => RemindedOnce
  BY DEF IInv, TypeOK, OnceOK, RemindedOnce
<1>. QED  BY <1>1, Inductive, PTL
=============================================================================
