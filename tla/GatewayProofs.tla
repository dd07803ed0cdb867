--------------------------- MODULE GatewayProofs ----------------------------
(***************************************************************************)
(* Proofs about Gateway, for every set of sockets and rooms and every      *)
(* number of retries: what a call reports, whom it reaches, and that it    *)
(* implements the safety of AckPromise.                                    *)
(***************************************************************************)
EXTENDS Gateway, TLAPS

(***************************************************************************)
(* The inductive invariant.                                                *)
(***************************************************************************)

\* What the program counter of the call says: it counts its attempts, it has a
\* result when it is done and only then.
CallOK ==
    /\ call.attempts <= Retries
    /\ call.attempts = 0 <=> At("idle")
    /\ call.result = "pending" <=> ~ At("done")
    /\ At("delay") => call.attempts < Retries

\* An answer counts as one only when a device has given it.
AnswersOK ==
    /\ call.first = "received" => confirmed
    /\ call.result = "received" => confirmed

\* Who has stayed is a member, and has been sent the event once it is emitted.
\* An empty room is what a call may end on otherwise.
StayedOK ==
    /\ stayed \subseteq Members(Room)
    /\ At("wait") \/ At("done") => stayed \subseteq sent

IInv == TypeOK /\ CallOK /\ AnswersOK /\ StayedOK

(***************************************************************************)
(* The sockets.                                                            *)
(***************************************************************************)

\* A step of a socket leaves the call alone and keeps those who stayed in their
\* room.
LEMMA SocketStep ==
    ASSUME IInv,
           conn' \in [Sockets -> Conns],
           rooms' \in [Sockets -> SUBSET Rooms],
           request' \in [Sockets -> Request \union {NoRequest}],
           stayed' \subseteq stayed, stayed' \subseteq Members(Room)',
           UNCHANGED <<call, sent, confirmed>>
    PROVE  IInv'
BY DEF IInv, TypeOK, CallOK, AnswersOK, StayedOK, At

\* Answering one id of a request leaves a request of its kind, or none.
LEMMA DoneType ==
    ASSUME IInv, NEW s \in Sockets, NEW id \in Ids, Done(s, id), request[s] \in Request
    PROVE  request' \in [Sockets -> Request \union {NoRequest}]
BY DEF IInv, TypeOK, Done, Request

LEMMA SocketStepOK ==
    ASSUME IInv, NEW s \in Sockets,
           \/ Connect(s) \/ Accept(s) \/ Disconnect(s)
           \/ \E kind \in {"join", "leave"}, ids \in SUBSET Ids \ {{}} : Ask(s, kind, ids)
           \/ \E id \in Ids : JoinRoom(s, id) \/ LeaveRoom(s, id)
    PROVE  IInv'
<1> USE DEF IInv, TypeOK, StayedOK, Members, IsConnected, historyVars
<1>1. CASE Connect(s) \/ Accept(s)
  <2>1. conn' \in [Sockets -> Conns]
    BY <1>1 DEF Connect, Accept, Conns
  <2>2. stayed' \subseteq Members(Room)'
    BY <1>1 DEF Connect, Accept
  <2>. QED  BY <1>1, <2>1, <2>2, SocketStep DEF Connect, Accept
<1>2. CASE Disconnect(s)
  <2>1. conn' \in [Sockets -> Conns]
    BY <1>2 DEF Disconnect, Conns
  <2>2. stayed' \subseteq Members(Room)'
    BY <1>2 DEF Disconnect
  <2>. QED  BY <1>2, <2>1, <2>2, SocketStep DEF Disconnect
<1>3. ASSUME NEW kind \in {"join", "leave"}, NEW ids \in SUBSET Ids, Ask(s, kind, ids)
      PROVE  IInv'
  <2>1. request' \in [Sockets -> Request \union {NoRequest}]
    BY <1>3 DEF Ask, Request
  <2>2. stayed' \subseteq Members(Room)'
    BY <1>3 DEF Ask
  <2>. QED  BY <1>3, <2>1, <2>2, SocketStep DEF Ask
<1>4. ASSUME NEW id \in Ids, JoinRoom(s, id) PROVE IInv'
  <2>1. request[s] \in Request
    BY <1>4 DEF JoinRoom, NoRequest
  <2>2. rooms' \in [Sockets -> SUBSET Rooms]
    BY <1>4 DEF JoinRoom
  <2>3. stayed' \subseteq Members(Room)'
    BY <1>4 DEF JoinRoom
  <2>. QED  BY <1>4, <2>1, <2>2, <2>3, DoneType, SocketStep DEF JoinRoom
<1>5. ASSUME NEW id \in Ids, LeaveRoom(s, id) PROVE IInv'
  <2>1. request[s] \in Request
    BY <1>5 DEF LeaveRoom, NoRequest
  <2>2. rooms' \in [Sockets -> SUBSET Rooms]
    BY <1>5 DEF LeaveRoom
  <2>3. stayed' \subseteq Members(Room)'
    BY <1>5 DEF LeaveRoom
  <2>. QED  BY <1>5, <2>1, <2>2, <2>3, DoneType, SocketStep DEF LeaveRoom
<1>. QED  BY <1>1, <1>2, <1>3, <1>4, <1>5

(***************************************************************************)
(* The call.                                                               *)
(***************************************************************************)

\* An attempt that is refused is followed by another one or ends the call.
LEMMA RefuseMeans ==
    ASSUME IInv, ~ At("idle"), ~ At("done")
    PROVE  /\ Refuse \in Call
           /\ Refuse.attempts = call.attempts
           /\ Refuse.first = "none"
           /\ \/ Refuse.pc = "delay" /\ Refuse.result = "pending" /\ call.attempts < Retries
              \/ Refuse.pc = "done" /\ Refuse.result = "failed"
BY ConstantsAssumption DEF IInv, TypeOK, CallOK, Call, Refuse, Retryable, At

\* What a step of the call has to show.
LEMMA CallStep ==
    ASSUME IInv, UNCHANGED socketVars,
           call' \in Call, CallOK', AnswersOK',
           sent' \subseteq Sockets, stayed' \subseteq Members(Room), confirmed' \in BOOLEAN,
           At("wait")' \/ At("done")' => stayed' \subseteq sent'
    PROVE  IInv'
BY DEF IInv, TypeOK, StayedOK, Members, IsConnected, socketVars

LEMMA CallStepOK ==
    ASSUME IInv, Begin \/ Proceed
    PROVE  IInv'
<1> USE ConstantsAssumption DEF IInv, TypeOK, StayedOK
<1>1. Members(Room) \subseteq Sockets
  BY DEF Members
<1>2. CASE Begin
  <2>0. /\ call' \in Call /\ call'.pc = "fetch" /\ call'.attempts = 1
        /\ call'.first = call.first /\ call'.result = call.result
    BY <1>2 DEF Begin, Call
  <2>1. call.result = "pending" /\ CallOK'
    BY <1>2, <2>0 DEF Begin, CallOK, At
  <2>2. AnswersOK' /\ ~ At("wait")' /\ ~ At("done")'
    BY <1>2, <2>0, <2>1 DEF Begin, AnswersOK, At
  <2>. QED  BY <1>1, <1>2, <2>0, <2>1, <2>2, CallStep DEF Begin
<1>3. CASE FetchSockets
  <2>1. UNCHANGED <<socketVars, historyVars>>
    BY <1>3 DEF FetchSockets
  <2>2. CASE Members(Room) = {}
    <3>1. call' = Refuse /\ stayed = {}
      BY <1>3, <2>2 DEF FetchSockets
    <3>2. call' \in Call /\ CallOK' /\ AnswersOK'
      BY <1>3, <2>1, <3>1, RefuseMeans DEF FetchSockets, CallOK, AnswersOK, At, historyVars
    <3>. QED  BY <2>1, <3>1, <3>2, CallStep DEF historyVars
  <2>3. CASE Members(Room) # {}
    <3>1. call' \in Call /\ CallOK' /\ AnswersOK' /\ ~ At("wait")' /\ ~ At("done")'
      BY <1>3, <2>1, <2>3 DEF FetchSockets, Call, CallOK, AnswersOK, At, historyVars
    <3>. QED  BY <2>1, <3>1, CallStep DEF historyVars
  <2>. QED  BY <2>2, <2>3
<1>4. CASE Emit
  <2>1. UNCHANGED <<socketVars, stayed, confirmed>> /\ sent' = sent \union Members(Room)
    BY <1>4 DEF Emit
  <2>2. CASE Members(Room) = {}
    <3>1. call' = Refuse /\ stayed = {}
      BY <1>4, <2>2 DEF Emit
    <3>2. call' \in Call /\ CallOK' /\ AnswersOK'
      BY <1>4, <2>1, <3>1, RefuseMeans DEF Emit, CallOK, AnswersOK, At
    <3>. QED  BY <1>1, <2>1, <3>1, <3>2, CallStep
  <2>3. CASE Members(Room) # {}
    <3>1. /\ call' \in Call /\ call'.pc = "wait" /\ call'.attempts = call.attempts
          /\ call'.first = call.first /\ call'.result = call.result
      BY <1>1, <1>4, <2>3 DEF Emit, Call
    <3>2. CallOK' /\ AnswersOK'
      BY <1>4, <2>1, <3>1 DEF Emit, CallOK, AnswersOK, At
    <3>. QED  BY <1>1, <2>1, <3>1, <3>2, CallStep
  <2>. QED  BY <2>2, <2>3
<1>5. CASE Timeout
  <2>1. call' \in Call /\ CallOK' /\ AnswersOK'
    BY <1>5 DEF Timeout, Call, CallOK, AnswersOK, At, historyVars
  <2>. QED  BY <1>5, <2>1, CallStep DEF Timeout, historyVars
<1>6. CASE Retry
  <2>. DEFINE n == call.attempts + 1
  <2>. call.attempts \in Nat /\ n \in Nat
    BY DEF Call
  <2>. call' = [call EXCEPT !.pc = "fetch", !.attempts = n]
    BY <1>6 DEF Retry
  <2>. HIDE DEF n
  <2>0. /\ call' \in Call /\ call'.pc = "fetch" /\ call'.attempts = n
        /\ call'.first = call.first /\ call'.result = call.result /\ confirmed' = confirmed
    BY <1>6 DEF Retry, Call, historyVars
  <2>. USE DEF n
  <2>1. call' \in Call /\ CallOK' /\ AnswersOK' /\ ~ At("wait")' /\ ~ At("done")'
    BY <1>6, <2>0 DEF Retry, CallOK, AnswersOK, At
  <2>. QED  BY <1>6, <2>1, CallStep DEF Retry, historyVars
<1>. QED  BY <1>2, <1>3, <1>4, <1>5, <1>6 DEF Proceed

\* The last answer decides by the first, which some device has given.
LEMMA AnswerStep ==
    ASSUME IInv, NEW s \in Sockets, NEW answer \in {"received", "invalid"}, Answer(s, answer)
    PROVE  IInv'
<1> USE DEF IInv, TypeOK, StayedOK
<1> DEFINE first == IF call.first = "none" THEN answer ELSE call.first
           rest == call.waiting \ {s}
<1>1. /\ UNCHANGED <<socketVars, sent, stayed>>
      /\ confirmed' = (confirmed \/ answer = "received")
  BY DEF Answer
<1>2. first \in {"received", "invalid"} /\ (first = "received" => confirmed')
  BY <1>1 DEF Call, AnswersOK
<1>3. call' \in Call /\ CallOK' /\ AnswersOK'
  <2>1. CASE rest # {}
    <3>1. call' = [call EXCEPT !.waiting = rest, !.first = first]
      BY <2>1 DEF Answer
    <3>. QED  BY <1>1, <1>2, <3>1 DEF Answer, Call, CallOK, AnswersOK, At
  <2>2. CASE rest = {} /\ Confirms(first)
    <3>1. call' = [call EXCEPT !.waiting = {}, !.first = "none",
                               !.pc = "done", !.result = "received"]
      BY <2>2 DEF Answer
    <3>. QED  BY <1>2, <2>2, <3>1 DEF Answer, Call, CallOK, AnswersOK, At, Confirms
  <2>3. CASE rest = {} /\ ~ Confirms(first)
    <3>1. call' = Refuse
      BY <2>3 DEF Answer
    <3>. QED  BY <1>1, <3>1, RefuseMeans DEF Answer, CallOK, AnswersOK, At
  <2>. QED  BY <2>1, <2>2, <2>3
<1>4. At("wait")
  BY DEF Answer
<1>. QED  BY <1>1, <1>3, <1>4, CallStep

(***************************************************************************)
(* The theorems.                                                           *)
(***************************************************************************)

\* Every reachable state of the gateway satisfies IInv.
THEOREM Inductive == Spec => []IInv
<1>1. Init => IInv
  <2> SUFFICES ASSUME Init PROVE IInv
    OBVIOUS
  <2>1. call \in Call /\ CallOK /\ AnswersOK
    BY ConstantsAssumption DEF Init, Call, NewCall, CallOK, AnswersOK, At
  <2>2. TypeOK /\ StayedOK
    BY <2>1 DEF Init, TypeOK, StayedOK, Conns, NewCall, At
  <2>. QED  BY <2>1, <2>2 DEF IInv
<1>2. IInv /\ [Next]_vars => IInv'
  <2> SUFFICES ASSUME IInv, [Next]_vars PROVE IInv'
    OBVIOUS
  <2>1. CASE UNCHANGED vars
    BY <2>1 DEF vars, socketVars, historyVars, IInv, TypeOK, CallOK, AnswersOK, StayedOK,
                At, Members, IsConnected
  <2>. QED  BY <2>1, SocketStepOK, CallStepOK, AnswerStep DEF Next
<1>. QED  BY <1>1, <1>2, PTL DEF Spec

\* Every variable of the gateway keeps its type.
THEOREM TypeCorrect == Spec => []TypeOK
<1>1. IInv => TypeOK
  BY DEF IInv
<1>. QED  BY <1>1, Inductive, PTL

\* emitWithAcknowledgement reports an event as received only if a device has
\* said so.
THEOREM ReceivedIsTrueCorrect == Spec => []ReceivedIsTrue
<1>1. IInv => ReceivedIsTrue
  BY DEF IInv, AnswersOK, ReceivedIsTrue
<1>. QED  BY <1>1, Inductive, PTL

\* Whoever is in the room for the whole of a call is sent the event, however
\* sockets come and go in between fetchSockets and emit and whatever attempt it
\* ends on.
THEOREM ShownToAllCorrect == Spec => []ShownToAll
<1>1. IInv => ShownToAll
  BY DEF IInv, StayedOK, ShownToAll
<1>. QED  BY <1>1, Inductive, PTL

\* The call implements the safety of AckPromise: every step of the gateway is a
\* further attempt, the one return, or leaves attempts and result alone; with at
\* most Retries attempts and at least one before the return.
THEOREM Refinement == Spec => Promised!Safety
<1>1. Init => Promised!Init
  BY DEF Init, NewCall, Promised!Init
<1>2. IInv /\ [Next]_vars => [Promised!Next]_<<call.attempts, call.result>>
  <2> SUFFICES ASSUME IInv, [Next]_vars
               PROVE  Promised!Next \/ UNCHANGED <<call.attempts, call.result>>
    OBVIOUS
  <2> USE DEF Promised!Next, Promised!Attempt, Promised!Return
  <2>1. call \in Call /\ CallOK
    BY DEF IInv, TypeOK
  <2>2. ASSUME NEW s \in Sockets,
               \/ Connect(s) \/ Accept(s) \/ Disconnect(s)
               \/ \E kind \in {"join", "leave"}, ids \in SUBSET Ids \ {{}} : Ask(s, kind, ids)
               \/ \E id \in Ids : JoinRoom(s, id) \/ LeaveRoom(s, id)
        PROVE  UNCHANGED call
    BY <2>2 DEF Connect, Accept, Disconnect, Ask, JoinRoom, LeaveRoom
  <2>3. CASE Begin
    BY <2>1, <2>3, ConstantsAssumption DEF Begin, Call, CallOK, At
  <2>4. ASSUME FetchSockets \/ Emit PROVE Promised!Next \/ UNCHANGED <<call.attempts, call.result>>
    <3>1. call.result = "pending" /\ call.attempts > 0
      BY <2>1, <2>4 DEF FetchSockets, Emit, At, Call, CallOK
    <3>2. \/ call' = Refuse
          \/ call'.attempts = call.attempts /\ call'.result = call.result
      BY <2>1, <2>4 DEF FetchSockets, Emit, Call
    <3>. QED  BY <2>4, <3>1, <3>2, RefuseMeans DEF FetchSockets, Emit, At
  <2>5. CASE Timeout
    BY <2>1, <2>5 DEF Timeout, Call, CallOK, At
  <2>6. CASE Retry
    BY <2>1, <2>6 DEF Retry, Call, CallOK, At
  <2>7. ASSUME NEW s \in Sockets, NEW answer \in {"received", "invalid"}, Answer(s, answer)
        PROVE  Promised!Next \/ UNCHANGED <<call.attempts, call.result>>
    <3>1. call.result = "pending" /\ call.attempts > 0
      BY <2>1, <2>7 DEF Answer, At, Call, CallOK
    <3>2. \/ call' = Refuse
          \/ call'.attempts = call.attempts /\ call'.result \in {call.result, "received"}
      BY <2>1, <2>7 DEF Answer, Call
    <3>. QED  BY <2>7, <3>1, <3>2, RefuseMeans DEF Answer, At
  <2>8. CASE UNCHANGED vars
    BY <2>8 DEF vars
  <2>. QED  BY <2>2, <2>3, <2>4, <2>5, <2>6, <2>7, <2>8 DEF Next, Proceed
<1>. QED  BY <1>1, <1>2, Inductive, PTL DEF Spec, Promised!Safety
=============================================================================
