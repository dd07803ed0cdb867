------------------------------ MODULE Gateway -------------------------------
(***************************************************************************)
(* A socket gateway (socket/socket.service.ts; socket.base.service.ts and  *)
(* socket.v2.service.ts for the authenticated one): devices connect, join  *)
(* and leave the rooms of their businesses, and the program emits an event *)
(* to a room and waits for the devices' acknowledgement.                   *)
(*                                                                         *)
(* socket.io is external: fetchSockets and emit reach the connected        *)
(* sockets of a room; the callback of an emit runs once, when every socket *)
(* that was sent the event has answered or when the timeout is over.       *)
(***************************************************************************)
EXTENDS Naturals

CONSTANTS
    Sockets,
    Ids,        \* the business ids a device may name
    Rooms,      \* those a business has: its room
    Room,       \* the room of the call of emitWithAcknowledgement
    Retries     \* its parameter retries

ASSUME ConstantsAssumption ==
    /\ Rooms \subseteq Ids
    /\ Room \in Rooms
    /\ Retries \in Nat \ {0}

VARIABLES
    conn,       \* the life of each socket
    rooms,      \* the adapter: the rooms each socket has joined
    request,    \* the join or leave a socket has in progress
    call,       \* the call (calls share nothing but the sockets)
    sent,       \* history: the sockets the event was sent to
    stayed,     \* history: the sockets in the room ever since the call began
    confirmed   \* history: whether a device has confirmed the event

socketVars == <<conn, rooms, request>>
historyVars == <<sent, stayed, confirmed>>
vars == <<socketVars, call, historyVars>>

----------------------------------------------------------------------------
(* Types *)

Conns == {"new", "verifying", "open", "closed"}

Request == [kind : {"join", "leave"}, left : SUBSET Ids]
NoRequest == [kind |-> "none", left |-> {}]

\* waiting: the sockets that have not answered the present attempt; first: the
\* first answer to it.
Call == [pc : {"idle", "fetch", "emit", "wait", "delay", "done"},
         attempts : Nat, waiting : SUBSET Sockets,
         first : {"none", "received", "invalid"},
         result : {"pending", "received", "failed"}]
NewCall == [pc |-> "idle", attempts |-> 0, waiting |-> {}, first |-> "none",
            result |-> "pending"]

Init ==
    /\ conn = [s \in Sockets |-> "new"]
    /\ rooms = [s \in Sockets |-> {}]
    /\ request = [s \in Sockets |-> NoRequest]
    /\ call = NewCall
    /\ sent = {}
    /\ stayed = {}
    /\ confirmed = FALSE

IsConnected(s) == conn[s] \in {"verifying", "open"}

\* The sockets that fetchSockets and emit reach: one that closed while it was
\* joining is in the room for the adapter alone.
Members(r) == {s \in Sockets : IsConnected(s) /\ r \in rooms[s]}

----------------------------------------------------------------------------
(* Connections *)

\* handleConnection of the authenticated gateway asks Ordering for the user;
\* the socket is connected meanwhile.
Connect(s) ==
    /\ conn[s] = "new"
    /\ conn' = [conn EXCEPT ![s] = "verifying"]
    /\ UNCHANGED <<rooms, request, call, historyVars>>

Accept(s) ==
    /\ conn[s] = "verifying"
    /\ conn' = [conn EXCEPT ![s] = "open"]
    /\ UNCHANGED <<rooms, request, call, historyVars>>

\* handleDisconnect: the token is refused; or the device goes.
Disconnect(s) ==
    /\ IsConnected(s)
    /\ conn' = [conn EXCEPT ![s] = "closed"]
    /\ rooms' = [rooms EXCEPT ![s] = {}]
    /\ stayed' = stayed \ {s}
    /\ UNCHANGED <<request, call, sent, confirmed>>

\* handleJoinRooms, handleLeaveRooms: one id after another, a query for each;
\* the socket may be gone by then.
Ask(s, kind, ids) ==
    /\ IsConnected(s) /\ request[s] = NoRequest
    /\ request' = [request EXCEPT ![s] = [kind |-> kind, left |-> ids]]
    /\ UNCHANGED <<conn, rooms, call, historyVars>>

Done(s, id) ==
    LET left == request[s].left \ {id} IN
    request' = [request EXCEPT ![s] =
        IF left = {} THEN NoRequest ELSE [kind |-> @.kind, left |-> left]]

\* Mutation: the business is not looked up first.
JoinAnyRoom(s, id) ==
    /\ request[s].kind = "join" /\ id \in request[s].left
    /\ rooms' = [rooms EXCEPT ![s] = @ \union {id}]
    /\ Done(s, id)
    /\ UNCHANGED <<conn, call, historyVars>>

JoinRoom(s, id) ==
    /\ request[s].kind = "join" /\ id \in request[s].left
    /\ rooms' = [rooms EXCEPT ![s] = @ \union ({id} \intersect Rooms)]
    /\ Done(s, id)
    /\ UNCHANGED <<conn, call, historyVars>>

LeaveRoom(s, id) ==
    /\ request[s].kind = "leave" /\ id \in request[s].left
    /\ rooms' = [rooms EXCEPT ![s] = @ \ {id}]
    /\ stayed' = IF Room = id THEN stayed \ {s} ELSE stayed
    /\ Done(s, id)
    /\ UNCHANGED <<conn, call, sent, confirmed>>

----------------------------------------------------------------------------
(* emitWithAcknowledgement *)

At(step) == call.pc = step

\* The first attempt.
Begin ==
    /\ At("idle")
    /\ call' = [call EXCEPT !.pc = "fetch", !.attempts = 1]
    /\ stayed' = Members(Room)
    /\ UNCHANGED <<socketVars, sent, confirmed>>

\* Mutation: the count is compared before the attempt is counted.
RetriesOneMore(n) == n <= Retries

Retryable(n) == n < Retries

\* A default acknowledgement, not received: the loop goes on or returns it.
Refuse ==
    IF Retryable(call.attempts)
    THEN [call EXCEPT !.pc = "delay", !.waiting = {}, !.first = "none"]
    ELSE [call EXCEPT !.pc = "done", !.waiting = {}, !.first = "none", !.result = "failed"]

\* fetchSockets: without clients nothing is emitted.
FetchSockets ==
    /\ At("fetch")
    /\ call' = IF Members(Room) = {} THEN Refuse
               ELSE [call EXCEPT !.pc = "emit"]
    /\ UNCHANGED <<socketVars, historyVars>>

\* Mutation: sockets still being verified are left out.
EmitToOpen ==
    /\ At("emit")
    /\ sent' = sent \union {s \in Members(Room) : conn[s] = "open"}
    /\ call' = IF Members(Room) = {} THEN Refuse
               ELSE [call EXCEPT !.pc = "wait", !.waiting = Members(Room)]
    /\ UNCHANGED <<socketVars, stayed, confirmed>>

\* The room may be empty by now: the callback then gets no answer at once.
Emit ==
    /\ At("emit")
    /\ sent' = sent \union Members(Room)
    /\ call' = IF Members(Room) = {} THEN Refuse
               ELSE [call EXCEPT !.pc = "wait", !.waiting = Members(Room)]
    /\ UNCHANGED <<socketVars, stayed, confirmed>>

\* Mutation: any answer will do.
AnyAnswer(answer) == TRUE

Confirms(answer) == answer = "received"

\* A device answers.  With the last answer the callback looks at the first.
Answer(s, answer) ==
    LET first == IF call.first = "none" THEN answer ELSE call.first
        rest == call.waiting \ {s}
    IN
    /\ At("wait") /\ s \in call.waiting /\ IsConnected(s)
    /\ confirmed' = (confirmed \/ answer = "received")
    /\ call' = IF rest # {}
               THEN [call EXCEPT !.waiting = rest, !.first = first]
               ELSE IF Confirms(first)
               THEN [call EXCEPT !.waiting = {}, !.first = "none",
                                 !.pc = "done", !.result = "received"]
               ELSE Refuse
    /\ UNCHANGED <<socketVars, sent, stayed>>

\* The rejection leaves the loop: the call returns without another attempt.
Timeout ==
    /\ At("wait")
    /\ call' = [call EXCEPT !.waiting = {}, !.first = "none",
                            !.pc = "done", !.result = "failed"]
    /\ UNCHANGED <<socketVars, historyVars>>

Retry ==
    /\ At("delay")
    /\ call' = [call EXCEPT !.pc = "fetch", !.attempts = @ + 1]
    /\ UNCHANGED <<socketVars, historyVars>>

----------------------------------------------------------------------------
(* The specification *)

\* What the program and the clock do: a call never waits for a device.
Proceed == FetchSockets \/ Emit \/ Timeout \/ Retry

Next ==
    \/ \E s \in Sockets :
          \/ Connect(s) \/ Accept(s) \/ Disconnect(s)
          \/ \E kind \in {"join", "leave"}, ids \in SUBSET Ids \ {{}} : Ask(s, kind, ids)
          \/ \E id \in Ids : JoinRoom(s, id) \/ LeaveRoom(s, id)
    \/ Begin \/ Proceed
    \/ \E s \in Sockets, answer \in {"received", "invalid"} : Answer(s, answer)

Spec == Init /\ [][Next]_vars

\* The process runs every step of a call to its end, and time passes.  Nothing
\* is assumed of the devices.
FairSpec == Spec /\ WF_vars(Proceed)

----------------------------------------------------------------------------
(* Properties *)

TypeOK ==
    /\ conn \in [Sockets -> Conns]
    /\ rooms \in [Sockets -> SUBSET Rooms]
    /\ request \in [Sockets -> Request \union {NoRequest}]
    /\ call \in Call
    /\ sent \subseteq Sockets /\ stayed \subseteq Sockets
    /\ confirmed \in BOOLEAN

\* A call reports an event as received only if a device said so.
ReceivedIsTrue == call.result = "received" => confirmed

\* A device that is in the room from the beginning of a call to its end is sent
\* the event, whoever comes and goes and whatever the others answer.
ShownToAll == At("done") => stayed \subseteq sent

\* The call implements AckPromise.
Promised == INSTANCE AckPromise WITH attempts <- call.attempts, result <- call.result
KeepsPromise == Promised!Promise
=============================================================================
