---------------------- MODULE ActiveStatusQueueProofs ----------------------
(***************************************************************************)
(* Proofs about ActiveStatusQueue, for every set of businesses and users,  *)
(* every number of requests and runs, every batch size and every fault.    *)
(***************************************************************************)
EXTENDS ActiveStatusQueue, TLAPS

(***************************************************************************)
(* The inductive invariant.  That a marked entry is handled rests on what  *)
(* a run has in hand: its items open, and the entries it is about to mark  *)
(* are there and among its items.                                          *)
(***************************************************************************)

\* What the step a worker is at says of its local variables.
WorkerOK(w) ==
    /\ pc[w] = "mark" =>
          \A b \in found[w] : queue[b] # NoEntry /\ \E it \in items[w] : it.business = b
    /\ pc[w] = "write" => job[w] \in Job
    /\ w \in Runs => \A it \in items[w] : it.status

\* The ways a marked entry is handled.
Opens(w, b) ==
    /\ w \in Runs /\ pc[w] \in {"look", "write"}
    /\ \E it \in items[w] : it.business = b
Removes(w, b) == \E it \in sent[w] : it.status /\ it.business = b
Handled(b) ==
    \/ b \in abandoned
    \/ \E w \in Workers : Opens(w, b) \/ Removes(w, b)

IInv ==
    /\ TypeOK
    /\ \A w \in Workers : WorkerOK(w)
    /\ \A b \in Businesses : IsMarked(b) => Handled(b)

LEMMA HandledMeans == IInv => MarkedIsHandled
BY DEF IInv, MarkedIsHandled, Handled, Opens, Removes, Left, Workers

(***************************************************************************)
(* The steps of one worker.                                                *)
(***************************************************************************)

\* What has to be shown of a step that leaves the queue, its listeners and the
\* abandoned entries alone and runs worker w: no entry it opens is forgotten.
LEMMA LocalStep ==
    ASSUME IInv, TypeOK', NEW w \in Workers, WorkerOK(w)',
           UNCHANGED <<queue, sent, abandoned>>,
           \A v \in Workers \ {w} : /\ pc'[v] = pc[v] /\ items'[v] = items[v]
                                    /\ job'[v] = job[v] /\ found'[v] = found[v],
           \A b \in Businesses : IsMarked(b) /\ Opens(w, b) => Handled(b)'
    PROVE  IInv'
<1>1. \A v \in Workers : WorkerOK(v)'
  BY DEF IInv, WorkerOK
<1>2. ASSUME NEW b \in Businesses, IsMarked(b)' PROVE Handled(b)'
  <2>1. IsMarked(b) /\ Handled(b)
    BY <1>2 DEF IInv, IsMarked
  <2>. QED  BY <2>1 DEF Handled, Opens, Removes
<1>. QED  BY <1>1, <1>2 DEF IInv

(***************************************************************************)
(* The steps of the workers.                                               *)
(***************************************************************************)

\* A device's request.
LEMMA SetOnlineStatusStep ==
    ASSUME IInv, NEW d \in Devices, NEW it \in Job, SetOnlineStatus(d, it)
    PROVE  IInv'
<1> USE DEF IInv, TypeOK, SetOnlineStatus, Ready, Goto, Workers
<1>1. TypeOK'
  OBVIOUS
<1>2. d \notin Runs
  BY ConstantsAssumption
<1>3. WorkerOK(d)'
  BY <1>2 DEF WorkerOK
<1>. QED  BY <1>1, <1>2, <1>3, LocalStep DEF Opens

LEMMA FindElapsedStep ==
    ASSUME IInv, NEW r \in Runs, FindElapsed(r)
    PROVE  IInv'
<1> USE DEF IInv, TypeOK, FindElapsed, Ready, Goto, Workers
<1> DEFINE itemOf(b) == [business |-> b, provider |-> queue[b].provider,
                         user |-> queue[b].user, status |-> TRUE]
<1>1. PICK S \in SUBSET Businesses :
        /\ Takes(S)
        /\ found' = [found EXCEPT ![r] = S]
        /\ items' = [items EXCEPT ![r] = {itemOf(b) : b \in S}]
  OBVIOUS
<1>2. \A b \in S : queue[b] # NoEntry /\ queue[b] \in Entry
  BY <1>1 DEF Takes, Due
<1>3. \A b \in S : itemOf(b) \in Job /\ itemOf(b).business = b /\ itemOf(b).status
  BY <1>2 DEF Job, Entry
<1>4. items'[r] = {itemOf(b) : b \in S} /\ found'[r] = S /\ pc'[r] = "mark"
  BY <1>1
<1>5. items'[r] \subseteq Job
  BY <1>3, <1>4
<1>6. TypeOK'
  BY <1>1, <1>5
<1>7. \A b \in S : itemOf(b) \in items'[r]
  BY <1>4
<1>8. \A it \in items'[r] : it.status
  BY <1>3, <1>4
<1>9. WorkerOK(r)'
  <2> HIDE DEF itemOf
  <2>. QED  BY <1>2, <1>3, <1>4, <1>7, <1>8 DEF WorkerOK
<1>. QED  BY <1>1, <1>6, <1>9, LocalStep DEF Opens

\* The entries a run marks are among its items.
LEMMA MarkStep ==
    ASSUME IInv, NEW r \in Runs, Mark(r)
    PROVE  IInv'
<1> USE DEF IInv, TypeOK, Mark, Goto, Workers
<1>1. ASSUME NEW b \in Businesses
      PROVE  /\ queue'[b] \in Entry \union {NoEntry}
             /\ queue'[b] = NoEntry <=> queue[b] = NoEntry
             /\ b \notin found[r] => queue'[b] = queue[b]
  BY ZenonT(30) DEF Marked, Entry, NoEntry, WorkerOK
<1>2. TypeOK'
  BY <1>1 DEF Marked
<1>3. ASSUME NEW w \in Workers PROVE WorkerOK(w)'
  BY <1>1 DEF WorkerOK
<1>4. ASSUME NEW b \in Businesses, IsMarked(b)' PROVE Handled(b)'
  <2>1. CASE b \in found[r]
    <3>1. Opens(r, b)'
      BY <2>1 DEF WorkerOK, Opens
    <3>. QED  BY <3>1 DEF Handled
  <2>2. CASE b \notin found[r]
    <3>1. IsMarked(b) /\ Handled(b)
      BY <1>1, <1>4, <2>2 DEF IsMarked
    <3>. QED  BY <3>1 DEF Handled, Opens, Removes
  <2>. QED  BY <2>1, <2>2
<1>. QED  BY <1>2, <1>3, <1>4

\* A run that starts with an entry has its removal on the way.
LEMMA LookUpStep ==
    ASSUME IInv, NEW w \in Workers, LookUp(w)
    PROVE  IInv'
<1> USE DEF IInv, TypeOK, LookUp, Send, Goto, Workers
<1>1. PICK it \in items[w] :
        /\ items' = [items EXCEPT ![w] = @ \ {it}]
        /\ job' = [job EXCEPT ![w] = it]
        /\ sent' = [sent EXCEPT ![w] = @ \union {it}]
  OBVIOUS
<1>2. TypeOK'
  BY <1>1
<1>3. ASSUME NEW v \in Workers PROVE WorkerOK(v)'
  BY <1>1 DEF WorkerOK
<1>4. ASSUME NEW b \in Businesses, IsMarked(b)' PROVE Handled(b)'
  <2>1. IsMarked(b) /\ Handled(b)
    BY <1>4 DEF IsMarked
  <2>2. Opens(w, b) => Opens(w, b)' \/ Removes(w, b)'
    BY <1>1 DEF Opens, Removes, WorkerOK
  <2>3. \A v \in Workers \ {w} : Opens(v, b) => Opens(v, b)'
    BY <1>1 DEF Opens
  <2>4. \A v \in Workers : Removes(v, b) => Removes(v, b)'
    BY <1>1 DEF Removes
  <2>. QED  BY <2>1, <2>2, <2>3, <2>4 DEF Handled
<1>. QED  BY <1>2, <1>3, <1>4

LEMMA WriteStatusStep ==
    ASSUME IInv, NEW w \in Workers, WriteStatus(w)
    PROVE  IInv'
<1> USE DEF IInv, TypeOK, WriteStatus, Goto, Workers, NextStep
<1>1. job[w] \in Job
  BY DEF WorkerOK
<1>2. open' \in [Businesses \X Providers -> BOOLEAN]
  BY <1>1 DEF Job
<1>3. TypeOK'
  BY <1>2
<1>4. WorkerOK(w)'
  BY DEF WorkerOK
<1>5. \A b \in Businesses : Opens(w, b) => Opens(w, b)'
  BY DEF Opens
<1>. QED  BY <1>3, <1>4, <1>5, LocalStep DEF Handled

(***************************************************************************)
(* The listeners, failures and time.                                       *)
(***************************************************************************)

\* A closing leaves the mark of an entry as it is, and adds none.
LEMMA UpsertStep ==
    ASSUME IInv, NEW w \in Workers, NEW it \in sent[w], Upsert(w, it)
    PROVE  IInv'
<1> USE DEF IInv, TypeOK, Upsert, Upserted, workerVars
<1>1. it \in Job
  OBVIOUS
<1>2. ASSUME NEW b \in Businesses
      PROVE  /\ queue'[b] \in Entry \union {NoEntry}
             /\ queue[b] # NoEntry => queue'[b] # NoEntry
             /\ IsMarked(b)' => IsMarked(b)
  <2> DEFINE e == [user |-> it.user, provider |-> it.provider, elapsed |-> FALSE,
                   processing |-> IsMarked(it.business)]
  <2>1. IsMarked(it.business) \in BOOLEAN
    BY DEF IsMarked, Entry
  <2>2. e \in Entry /\ e # NoEntry /\ (e.processing <=> IsMarked(it.business))
    BY <1>1, <2>1 DEF Entry, Job, NoEntry
  <2>3. queue' = queue \/ queue' = [queue EXCEPT ![it.business] = e]
    BY DEF IsMarked
  <2>. QED
    <3> HIDE DEF e
    <3>. QED  BY <1>1, <2>2, <2>3 DEF IsMarked
<1>3. TypeOK'
  BY <1>2
<1>4. \A v \in Workers : WorkerOK(v)'
  BY <1>2 DEF WorkerOK
<1>5. ASSUME NEW b \in Businesses, IsMarked(b)' PROVE Handled(b)'
  <2>1. Handled(b)
    BY <1>2, <1>5
  <2>. QED  BY <2>1 DEF Handled, Opens, Removes
<1>. QED  BY <1>3, <1>4, <1>5

LEMMA RemoveStep ==
    ASSUME IInv, NEW w \in Workers, NEW it \in sent[w], Remove(w, it)
    PROVE  IInv'
<1> USE DEF IInv, TypeOK, Remove, Removed
<1>1. it \in Job /\ it.business \in Businesses
  BY DEF Job
<1>2. TypeOK'
  BY <1>1
<1>3. \A v \in Workers : WorkerOK(v)'
  BY <1>1 DEF WorkerOK
<1>4. ASSUME NEW b \in Businesses, IsMarked(b)' PROVE Handled(b)'
  <2>1. b # it.business /\ IsMarked(b) /\ Handled(b)
    BY <1>1, <1>4 DEF IsMarked
  <2>. QED  BY <2>1 DEF Handled, Opens, Removes
<1>. QED  BY <1>2, <1>3, <1>4

\* A worker that gives up hands what it has left over to abandoned.
LEMMA AbortStep ==
    ASSUME IInv, NEW w \in Workers, Abort(w),
           open' \in [Businesses \X Providers -> BOOLEAN],
           UNCHANGED <<queue, sent>>,
           abandoned' \subseteq Businesses, abandoned \subseteq abandoned',
           pc[w] # "mark" => Left(w) \subseteq abandoned'
    PROVE  IInv'
<1> USE DEF IInv, TypeOK, Abort, Goto
<1>1. TypeOK'
  OBVIOUS
<1>2. \A v \in Workers : WorkerOK(v)'
  BY DEF WorkerOK
<1>3. ASSUME NEW b \in Businesses, IsMarked(b)' PROVE Handled(b)'
  <2>1. IsMarked(b) /\ Handled(b)
    BY <1>3 DEF IsMarked
  <2>2. Opens(w, b) => b \in abandoned'
    BY <2>1 DEF Opens, Left
  <2>3. \A v \in Workers \ {w} : Opens(v, b) => Opens(v, b)'
    BY DEF Opens
  <2>. QED  BY <2>1, <2>2, <2>3 DEF Handled, Removes
<1>. QED  BY <1>1, <1>2, <1>3

LEMMA ListenerFailsStep ==
    ASSUME IInv, NEW w \in Workers, NEW it \in sent[w], ListenerFails(w, it)
    PROVE  IInv'
<1> USE DEF IInv, TypeOK, ListenerFails, workerVars
<1>1. it \in Job /\ it.business \in Businesses
  BY DEF Job
<1>2. TypeOK'
  BY <1>1
<1>3. \A v \in Workers : WorkerOK(v)'
  BY DEF WorkerOK
<1>4. ASSUME NEW b \in Businesses, IsMarked(b)' PROVE Handled(b)'
  <2>1. IsMarked(b) /\ Handled(b)
    BY <1>4 DEF IsMarked
  <2>2. Removes(w, b) => Removes(w, b)' \/ b \in abandoned'
    BY DEF Removes
  <2>3. \A v \in Workers \ {w} : Removes(v, b) => Removes(v, b)'
    BY DEF Removes
  <2>. QED  BY <2>1, <2>2, <2>3 DEF Handled, Opens
<1>. QED  BY <1>2, <1>3, <1>4

LEMMA FaultStep ==
    ASSUME IInv, Fault
    PROVE  IInv'
<1>1. ASSUME NEW w \in Workers, LookUpFails(w) PROVE IInv'
  BY <1>1, AbortStep DEF LookUpFails, IInv, TypeOK, Left
<1>2. ASSUME NEW w \in Workers, WriteFails(w) PROVE IInv'
  <2>1. job[w] \in Job
    BY <1>2 DEF WriteFails, IInv, WorkerOK
  <2>2. open' \in [Businesses \X Providers -> BOOLEAN]
    BY <1>2, <2>1 DEF WriteFails, IInv, TypeOK, Job
  <2>. QED  BY <1>2, <2>2, AbortStep DEF WriteFails, IInv, TypeOK, Left
<1>3. ASSUME NEW w \in Workers, NEW it \in sent[w], ListenerFails(w, it) PROVE IInv'
  BY <1>3, ListenerFailsStep
<1>4. ASSUME NEW r \in Runs, MarkFails(r) PROVE IInv'
  BY <1>4, AbortStep DEF MarkFails, IInv, TypeOK, Workers
<1>5. ASSUME Crash PROVE IInv'
  BY <1>5 DEF Crash, IInv, TypeOK, WorkerOK, IsMarked, Handled
<1>. QED  BY <1>1, <1>2, <1>3, <1>4, <1>5 DEF Fault

LEMMA ElapseStep ==
    ASSUME IInv, NEW b \in Businesses, Elapse(b)
    PROVE  IInv'
<1> USE DEF IInv, TypeOK, Elapse, workerVars
<1>1. ASSUME NEW c \in Businesses
      PROVE  /\ queue'[c] \in Entry \union {NoEntry}
             /\ queue[c] # NoEntry => queue'[c] # NoEntry
             /\ IsMarked(c)' => IsMarked(c)
  BY DEF Entry, NoEntry, IsMarked
<1>2. TypeOK'
  BY <1>1
<1>3. \A v \in Workers : WorkerOK(v)'
  BY <1>1 DEF WorkerOK
<1>4. ASSUME NEW c \in Businesses, IsMarked(c)' PROVE Handled(c)'
  <2>1. Handled(c)
    BY <1>1, <1>4
  <2>. QED  BY <2>1 DEF Handled, Opens, Removes
<1>. QED  BY <1>2, <1>3, <1>4

(***************************************************************************)
(* The theorems.                                                           *)
(***************************************************************************)

\* Every reachable state of the queue satisfies IInv.
THEOREM Inductive == Spec => []IInv
<1>1. Init => IInv
  BY DEF Init, IInv, TypeOK, WorkerOK, IsMarked
<1>2. IInv /\ [Next]_vars => IInv'
  <2> SUFFICES ASSUME IInv, [Next]_vars PROVE IInv'
    OBVIOUS
  <2>1. ASSUME NEW d \in Devices, NEW it \in Job, SetOnlineStatus(d, it) PROVE IInv'
    BY <2>1, SetOnlineStatusStep
  <2>2. ASSUME NEW w \in Workers, Step(w) PROVE IInv'
    BY <2>2, LookUpStep, WriteStatusStep DEF Step
  <2>3. ASSUME NEW w \in Workers, Listen(w) PROVE IInv'
    BY <2>3, UpsertStep, RemoveStep DEF Listen
  <2>4. ASSUME NEW r \in Runs, RunStep(r) PROVE IInv'
    BY <2>4, FindElapsedStep, MarkStep DEF RunStep
  <2>5. ASSUME NEW b \in Businesses, Elapse(b) PROVE IInv'
    BY <2>5, ElapseStep
  <2>6. CASE UNCHANGED vars
    BY <2>6 DEF vars, workerVars, IInv, TypeOK, WorkerOK, IsMarked, Handled, Opens, Removes
  <2>. QED  BY <2>1, <2>2, <2>3, <2>4, <2>5, <2>6, FaultStep DEF Next
<1>. QED  BY <1>1, <1>2, PTL DEF Spec

\* Every variable of the queue keeps its type (setOnlineStatusByPublicId,
\* activeBusinessStatus).
THEOREM TypeCorrect == Spec => []TypeOK
<1>1. IInv => TypeOK
  BY DEF IInv
<1>. QED  BY <1>1, Inductive, PTL

\* However many runs overlap, whatever fails and in whatever order the listeners
\* come: a marked entry is opened, removed or was abandoned by a failure
\* (activeBusinessStatus).
THEOREM MarkedIsHandledCorrect == Spec => []MarkedIsHandled
BY HandledMeans, Inductive, PTL
=============================================================================
