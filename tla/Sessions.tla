------------------------------ MODULE Sessions ------------------------------
(***************************************************************************)
(* Sessions of the devices (auth/session.service.ts, auth/auth.service.ts) *)
(* and the push notifications their rows address                           *)
(* (notification/notification.service.ts).                                 *)
(*                                                                         *)
(* A device signs in for a session of its own, refreshes its token,        *)
(* reports whether its app is in the foreground and which businesses it    *)
(* follows.  Every request reads rows and writes them in separate          *)
(* statements, and requests of one session or of two run side by side.     *)
(*                                                                         *)
(* Left out: openAppNotificationCount, openAppNotifcationSending and       *)
(* lastAccessTs, which nothing reads but the listings of the CMS, and the  *)
(* access token, which no row knows.                                       *)
(***************************************************************************)
EXTENDS FiniteSets, Naturals

CONSTANTS
    SessionIds,     \* the sessions
    Users,
    UserOf,         \* the user each session is signed in by
    Businesses,
    Devices,        \* ids of OneSignal
    Requests,       \* requests being served at once (a bound of the model)
    MaxToken        \* tokens a session is given (a bound of the model)

ASSUME ConstantsAssumption ==
    /\ UserOf \in [SessionIds -> Users]
    /\ "none" \notin SessionIds \union Devices
    /\ MaxToken \in Nat \ {0}

VARIABLES
    row,        \* the table Session
    owned,      \* the businesses of each user in our database
    held,       \* the refresh token each device holds for its session
    request,    \* the requests being served
    pushed,     \* the devices of the last push
    reported,   \* history: the businesses last reported with success
    unsure,     \* history: the sessions whose device may hold an old token
    mixed,      \* history: the sessions whose reports overlapped or failed
    moved,      \* history: the sessions whose device another one has replaced
    ended       \* history: the sessions somebody has ended

historyVars == <<reported, unsure, mixed, moved, ended>>
vars == <<row, owned, held, request, pushed, historyVars>>

----------------------------------------------------------------------------
(* Types *)

NoRow == [token |-> 0, device |-> "none", businesses |-> {}, online |-> FALSE]
Exists(s) == row[s].token # 0

\* The rows as OneSignal and a report address them.
Row == [token : 0..MaxToken, device : Devices \union {"none"},
        businesses : SUBSET Businesses, online : BOOLEAN]

\* token: presented to a refresh, then answered by it; businesses: reported, the
\* valid ones; device: reported; known: the one of the row when it was read;
\* others: the sessions of the device to be removed.
Request == [pc : {"idle", "refresh", "renew", "answer",
                  "report", "disconnect", "find", "delete", "connect"},
            session : SessionIds \union {"none"}, token : 0..MaxToken,
            businesses : SUBSET Businesses, device : Devices \union {"none"},
            known : Devices \union {"none"}, others : SUBSET SessionIds]

NoRequest == [pc |-> "idle", session |-> "none", token |-> 0, businesses |-> {},
              device |-> "none", known |-> "none", others |-> {}]

Init ==
    /\ row = [s \in SessionIds |-> NoRow]
    /\ owned = [u \in Users |-> {}]
    /\ held = [s \in SessionIds |-> 0]
    /\ request = [q \in Requests |-> NoRequest]
    /\ pushed = {}
    /\ reported = [s \in SessionIds |-> {}]
    /\ unsure = {} /\ mixed = {} /\ moved = {} /\ ended = {}

----------------------------------------------------------------------------
(* Signing in and the businesses of a user *)

\* signIn: a fresh id, a row without a device, two tokens for the app.
SignIn(s) ==
    /\ held[s] = 0
    /\ row' = [row EXCEPT ![s] = [NoRow EXCEPT !.token = 1, !.online = TRUE]]
    /\ held' = [held EXCEPT ![s] = 1]
    /\ UNCHANGED <<owned, request, pushed, historyVars>>

\* businessOwnershipService adds the businesses Ordering returns one by one
\* and removes none.
OwnBusiness(u, b) ==
    /\ b \notin owned[u]
    /\ owned' = [owned EXCEPT ![u] = @ \union {b}]
    /\ UNCHANGED <<row, held, request, pushed, historyVars>>

----------------------------------------------------------------------------
(* Requests *)

Serves(q, pc) == request[q].pc = pc

Begin(q, r) ==
    /\ Serves(q, "idle")
    /\ held[r.session] # 0
    /\ request' = [request EXCEPT ![q] = r]

Go(q, pc) == request' = [request EXCEPT ![q].pc = pc]

\* Mutation: a request that is over keeps its place.
FinishHalf(q) == request' = [request EXCEPT ![q].pc = "done"]

Finish(q) == request' = [request EXCEPT ![q] = NoRequest]

Concurrent(q, s, pcs) == \E p \in Requests \ {q} : request[p].session = s /\ request[p].pc \in pcs

Refreshing == {"refresh", "renew", "answer"}
Reporting == {"report", "disconnect", "find", "delete", "connect"}

\* What the end of a request without an answer costs its session.
CutShort(q) ==
    /\ unsure' = IF Serves(q, "answer") THEN unsure \union {request[q].session} ELSE unsure
    /\ mixed' = IF request[q].pc \in {"find", "delete", "connect"}
                THEN mixed \union {request[q].session} ELSE mixed

\* A statement or a call fails, the connection to the app breaks or the process
\* dies with the request.
Fails(q) ==
    /\ ~ Serves(q, "idle")
    /\ Finish(q)
    /\ CutShort(q)
    /\ UNCHANGED <<row, owned, held, pushed, reported, moved, ended>>

----------------------------------------------------------------------------
(* refreshTokens *)

Refresh(q, s) ==
    /\ Begin(q, [NoRequest EXCEPT !.pc = "refresh", !.session = s, !.token = held[s]])
    /\ unsure' = IF Concurrent(q, s, Refreshing) THEN unsure \union {s} ELSE unsure
    /\ UNCHANGED <<row, owned, held, pushed, reported, mixed, moved, ended>>

\* The hash of the row is the one of the token.
Matches(s, token) == Exists(s) /\ row[s].token = token

VerifyToken(q) ==
    /\ Serves(q, "refresh")
    /\ IF Matches(request[q].session, request[q].token)
       THEN Go(q, "renew") ELSE Finish(q)
    /\ UNCHANGED <<row, owned, held, pushed, historyVars>>

\* Mutation: the answer carries the token that was presented.
RenewKeepsToken(q, s) ==
    /\ row' = [row EXCEPT ![s].token = @ + 1]
    /\ request' = [request EXCEPT ![q].pc = "answer"]

Renew(q, s) ==
    /\ row' = [row EXCEPT ![s].token = @ + 1]
    /\ request' = [request EXCEPT ![q].pc = "answer", ![q].token = row[s].token + 1]

\* The update throws when the row has gone.
WriteToken(q) ==
    LET s == request[q].session
    IN  /\ Serves(q, "renew")
        /\ IF Exists(s)
           THEN row[s].token < MaxToken /\ Renew(q, s)
           ELSE Finish(q) /\ UNCHANGED row
        /\ UNCHANGED <<owned, held, pushed, historyVars>>

AnswerToken(q) ==
    /\ Serves(q, "answer")
    /\ held' = [held EXCEPT ![request[q].session] = request[q].token]
    /\ Finish(q)
    /\ UNCHANGED <<row, owned, pushed, historyVars>>

----------------------------------------------------------------------------
(* reportAppState, setSessionOnlineStatus: the row is read for its being    *)
(* there, which the update would tell as well: one step.                   *)

ReportState(s, on) ==
    /\ Exists(s)
    /\ row' = [row EXCEPT ![s].online = on]
    /\ UNCHANGED <<owned, held, request, pushed, historyVars>>

----------------------------------------------------------------------------
(* reportSelectedBusiness, setBusinessForSession *)

ReportBusinesses(q, s, B, d) ==
    /\ Begin(q, [NoRequest EXCEPT !.pc = "report", !.session = s,
                                  !.businesses = B, !.device = d])
    /\ mixed' = IF Concurrent(q, s, Reporting) THEN mixed \union {s} ELSE mixed
    /\ UNCHANGED <<row, owned, held, pushed, reported, unsure, moved, ended>>

\* Mutation: the reported businesses only have to be some.
AnyBusinesses(s, B) == B \subseteq Businesses

AllOwned(s, B) == B \subseteq owned[UserOf[s]]

ReadSession(q) ==
    LET s == request[q].session
    IN  /\ Serves(q, "report")
        /\ IF Exists(s) /\ AllOwned(s, request[q].businesses)
           THEN request' = [request EXCEPT ![q].pc = "disconnect", ![q].known = row[s].device]
           ELSE Finish(q)
        /\ UNCHANGED <<row, owned, held, pushed, historyVars>>

\* Mutation: the businesses of the last report stay.
DisconnectNone(s) == row

DisconnectAll(s) == [row EXCEPT ![s].businesses = {}]

Disconnect(q) ==
    LET s == request[q].session
    IN  /\ Serves(q, "disconnect")
        /\ IF Exists(s)
           THEN /\ row' = DisconnectAll(s)
                /\ Go(q, "find")
                /\ mixed' = IF Concurrent(q, s, Reporting) THEN mixed ELSE mixed \ {s}
           ELSE Finish(q) /\ UNCHANGED <<row, mixed>>
        /\ UNCHANGED <<owned, held, pushed, reported, unsure, moved, ended>>

Holders(d) == {s \in SessionIds : Exists(s) /\ row[s].device = d}

\* Mutation: the session itself is one of those to go.
AllHolders(s, d) == Holders(d)

OtherHolders(s, d) == Holders(d) \ {s}

FindOthers(q) ==
    LET others == OtherHolders(request[q].session, request[q].device)
    IN  /\ Serves(q, "find")
        /\ request' = [request EXCEPT ![q].others = others,
                                      ![q].pc = IF others = {} THEN "connect" ELSE "delete"]
        /\ UNCHANGED <<row, owned, held, pushed, historyVars>>

\* The rows go, and with them what they are compared with.
Delete(S) ==
    /\ row' = [s \in SessionIds |-> IF s \in S THEN NoRow ELSE row[s]]
    /\ reported' = [s \in SessionIds |-> IF s \in S THEN {} ELSE reported[s]]
    /\ unsure' = unsure \ S /\ mixed' = mixed \ S

DeleteOthers(q) ==
    /\ Serves(q, "delete")
    /\ Delete(request[q].others)
    /\ request' = [request EXCEPT ![q].pc = "connect", ![q].others = {}]
    /\ ended' = ended \union
          (request[q].others \intersect
              ((Holders(request[q].device) \union moved) \ {request[q].session}))
    /\ UNCHANGED <<owned, held, pushed, moved>>

\* Mutation: the device is set on a row that has one.
SetsDeviceAnew(known) == known # "none"

SetsDevice(known) == known = "none"

\* One update connects the businesses and sets the device of a row that had
\* none.  It throws when the row has gone or another one has got the device,
\* which is unique.
Connect(q) ==
    LET s == request[q].session
        B == request[q].businesses
        d == request[q].device
        sets == SetsDevice(request[q].known)
    IN  /\ Serves(q, "connect")
        /\ IF Exists(s) /\ (sets => Holders(d) \subseteq {s})
           THEN /\ row' = [row EXCEPT ![s].device = IF sets THEN d ELSE @,
                                      ![s].businesses = @ \union B]
                /\ reported' = [reported EXCEPT ![s] = B]
                /\ moved' = IF sets /\ row[s].device \notin {"none", d}
                            THEN moved \union {s} ELSE moved
                /\ UNCHANGED mixed
           ELSE /\ mixed' = mixed \union {s}
                /\ UNCHANGED <<row, reported, moved>>
        /\ Finish(q)
        /\ UNCHANGED <<owned, held, pushed, unsure, ended>>

----------------------------------------------------------------------------
(* signOut, deleteUserSessions *)

\* After Ordering; a failure there keeps the session.
SignOut(s) ==
    /\ Exists(s)
    /\ Delete({s})
    /\ ended' = ended \union {s}
    /\ UNCHANGED <<owned, held, request, pushed, moved>>

\* By the CMS, any sessions at all.
DeleteUserSessions(S) ==
    /\ S # {} /\ \A s \in S : Exists(s)
    /\ Delete(S)
    /\ ended' = ended \union S
    /\ UNCHANGED <<owned, held, request, pushed, moved>>

----------------------------------------------------------------------------
(* Push notifications *)

\* One push to the devices of the sessions S, if there are any.
Push(S) ==
    /\ S # {}
    /\ pushed' = {row[s].device : s \in S}
    /\ UNCHANGED <<row, owned, held, request, historyVars>>

\* sendNewOrderNotification, sendPreorderNotification
PushOrder(b) == Push({s \in SessionIds : b \in row[s].businesses})

Offline == {s \in SessionIds : Exists(s) /\ ~ row[s].online}

\* createOpenAppPushNotification asks Ordering for the hours of the businesses
\* its sessions follow, once for each, and ends at one that is not enabled
\* today; otherwise it reminds the devices of the open ones.  What it sends is
\* what it has read: one step.
PushOpenApp ==
    \E hours \in [Businesses -> {"disabled", "closed", "open"}] :
        LET at(s) == {hours[b] : b \in row[s].businesses}
        IN  /\ \A s \in Offline : "disabled" \notin at(s)
            /\ Push({s \in Offline : "open" \in at(s)})

----------------------------------------------------------------------------
(* The specification *)

Serve(q) ==
    \/ VerifyToken(q) \/ WriteToken(q) \/ AnswerToken(q)
    \/ ReadSession(q) \/ Disconnect(q) \/ FindOthers(q) \/ DeleteOthers(q) \/ Connect(q)
    \/ Fails(q)

Ask(q, s) ==
    \/ Refresh(q, s)
    \/ \E B \in SUBSET Businesses, d \in Devices : ReportBusinesses(q, s, B, d)

Next ==
    \/ \E s \in SessionIds :
          \/ SignIn(s) \/ SignOut(s)
          \/ \E on \in BOOLEAN : ReportState(s, on)
    \/ \E u \in Users, b \in Businesses : OwnBusiness(u, b)
    \/ \E q \in Requests : Serve(q) \/ \E s \in SessionIds : Ask(q, s)
    \/ \E S \in SUBSET SessionIds : DeleteUserSessions(S)
    \/ \E b \in Businesses : PushOrder(b)
    \/ PushOpenApp

Spec == Init /\ [][Next]_vars

----------------------------------------------------------------------------
(* Properties *)

Idle(s, pcs) == \A q \in Requests : ~ (request[q].session = s /\ request[q].pc \in pcs)

TypeOK ==
    /\ row \in [SessionIds -> Row]
    /\ owned \in [Users -> SUBSET Businesses]
    /\ held \in [SessionIds -> 0..MaxToken]
    /\ request \in [Requests -> Request]
    /\ reported \in [SessionIds -> SUBSET Businesses]
    /\ unsure \union mixed \union moved \union ended \subseteq SessionIds

\* A device holds the token its row verifies, unless an answer was lost or two
\* refreshes of the session overlapped: refreshTokens writes before it answers
\* and verifies long before it writes.
TokenHeld ==
    \A s \in SessionIds :
        Exists(s) /\ Idle(s, Refreshing) /\ s \notin unsure => held[s] = row[s].token

\* A session follows the businesses it has last reported, whatever other
\* sessions report meanwhile, unless its own reports overlapped or one was cut
\* short (setBusinessForSession, three writes without a transaction).
FollowsReported ==
    \A s \in SessionIds :
        Exists(s) /\ Idle(s, Reporting) /\ s \notin mixed => row[s].businesses = reported[s]

\* A session follows businesses of its user alone: they are checked long before
\* they are connected (setBusinessForSession).
OwnedOnly == \A s \in SessionIds : row[s].businesses \subseteq owned[UserOf[s]]

\* A push has a device to go to: a session follows a business only once it has
\* a device (setBusinessForSession, sendNewOrderNotification).
PushesAddressed == pushed \subseteq Devices

\* A session goes by its own sign-out, by the CMS or by the report of another
\* session for its device, and by nothing else; but for a session whose device
\* has been replaced, which the report for the device it had may still remove
\* (setBusinessForSession, deleteSession, deleteUserSessions).
GoesWhenEnded == \A s \in SessionIds : held[s] # 0 /\ ~ Exists(s) => s \in ended
=============================================================================
