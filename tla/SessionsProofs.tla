--------------------------- MODULE SessionsProofs ---------------------------
(***************************************************************************)
(* Proofs about Sessions, for every set of sessions, users, businesses and *)
(* devices, every number of requests at once and of tokens.                *)
(***************************************************************************)
EXTENDS Sessions, TLAPS

(***************************************************************************)
(* The inductive invariant.                                                *)
(***************************************************************************)

\* A request is of a session that has signed in; what it has checked or read
\* still holds as far as nobody can change it: businesses are only added to an
\* owner, a device may be replaced but not taken away, and a session that is to
\* be removed has the device, has had it or has gone.
RequestOK(q) ==
    LET r == request[q]
    IN  /\ r.pc # "idle" => r.session \in SessionIds /\ held[r.session] # 0
        /\ r.pc \in Refreshing => r.token # 0
        /\ r.pc \in Reporting => r.device \in Devices
        /\ r.pc \in Reporting \ {"report"} =>
              /\ r.businesses \subseteq owned[UserOf[r.session]]
              /\ Exists(r.session) /\ r.known # "none" => row[r.session].device \in Devices
        /\ r.pc = "delete" => \A x \in r.others :
              /\ x # r.session /\ held[x] # 0
              /\ ~ Exists(x) \/ row[x].device = r.device \/ x \in moved

\* A row is one of a session that has signed in, follows businesses of its user
\* and only with a device; it never comes back, and no report outlives it.
RowOK(s) ==
    /\ Exists(s) => held[s] # 0
    /\ held[s] # 0 /\ ~ Exists(s) => s \in ended
    /\ row[s].businesses \subseteq owned[UserOf[s]]
    /\ row[s].businesses # {} => row[s].device \in Devices
    /\ ~ Exists(s) => reported[s] = {}

Of(q, s, pcs) == request[q].session = s /\ request[q].pc \in pcs

AtMostOne(s, pcs) == \A p, q \in Requests : Of(p, s, pcs) /\ Of(q, s, pcs) => p = q

\* One refresh at a time carries the token of the row, and until it has written a
\* new one the device has that too.
TokenOK(s) ==
    /\ AtMostOne(s, Refreshing)
    /\ \A q \in Requests : Of(q, s, Refreshing) =>
          /\ request[q].token = row[s].token
          /\ request[q].pc # "answer" => held[s] = row[s].token
    /\ Idle(s, Refreshing) => held[s] = row[s].token

Emptied == {"find", "delete", "connect"}

\* One report at a time has emptied the row, or has left it as last reported.
ReportOK(s) ==
    /\ AtMostOne(s, Reporting)
    /\ IF Idle(s, Emptied)
       THEN row[s].businesses = reported[s]
       ELSE row[s].businesses = {}

IInv ==
    /\ TypeOK
    /\ pushed \subseteq Devices
    /\ \A q \in Requests : RequestOK(q)
    /\ \A s \in SessionIds : RowOK(s)
    /\ \A s \in SessionIds : Exists(s) /\ s \notin unsure => TokenOK(s)
    /\ \A s \in SessionIds : Exists(s) /\ s \notin mixed => ReportOK(s)

(***************************************************************************)
(* What the steps have in common.                                          *)
(***************************************************************************)

\* What a step leaves to the requests it does not serve.
Persists ==
    /\ \A u \in Users : owned[u] \subseteq owned'[u]
    /\ moved \subseteq moved'
    /\ \A x \in SessionIds : held[x] # 0 =>
          /\ held'[x] # 0
          /\ Exists(x)' =>
                /\ Exists(x)
                /\ row[x].device \in Devices =>
                      row'[x].device = row[x].device
                      \/ (row'[x].device \in Devices /\ x \in moved')

LEMMA RequestPersists ==
    ASSUME TypeOK, Persists, NEW q \in Requests, RequestOK(q), request'[q] = request[q]
    PROVE  RequestOK(q)'
<1> DEFINE r == request[q]
<1>1. r \in Request
  BY DEF TypeOK
<1>2. CASE r.pc = "idle"
  BY <1>2 DEF RequestOK, Refreshing, Reporting
<1>3. CASE r.pc # "idle"
  <2>1. /\ r.session \in SessionIds /\ held[r.session] # 0
        /\ UserOf[r.session] \in Users
    BY <1>3, ConstantsAssumption DEF RequestOK
  <2>2. /\ held'[r.session] # 0
        /\ owned[UserOf[r.session]] \subseteq owned'[UserOf[r.session]]
    BY <2>1 DEF Persists
  <2>3. Exists(r.session)' /\ row[r.session].device \in Devices
          => Exists(r.session) /\ row'[r.session].device \in Devices
    BY <2>1 DEF Persists
  <2>4. Exists(r.session)' => Exists(r.session)
    BY <2>1 DEF Persists
  <2>5. ASSUME r.pc = "delete", NEW x \in r.others
        PROVE  /\ x # r.session /\ held'[x] # 0
               /\ ~ Exists(x)' \/ row'[x].device = r.device \/ x \in moved'
    <3>1. x \in SessionIds /\ r.device \in Devices
      BY <1>1, <2>5 DEF Request, RequestOK, Reporting
    <3>2. /\ x # r.session /\ held[x] # 0
          /\ ~ Exists(x) \/ row[x].device = r.device \/ x \in moved
      BY <2>5 DEF RequestOK
    <3>. QED  BY <3>1, <3>2 DEF Persists
  <2>6. r.pc \in Reporting \ {"report"} => r.businesses \subseteq owned'[UserOf[r.session]]
    BY <2>2 DEF RequestOK
  <2>. QED  BY <2>1, <2>2, <2>3, <2>4, <2>5, <2>6 DEF RequestOK
<1>. QED  BY <1>2, <1>3

LEMMA RequestsTyped ==
    ASSUME TypeOK, NEW q \in Requests, NEW n \in Request,
           request' = [request EXCEPT ![q] = n]
    PROVE  /\ request' \in [Requests -> Request]
           /\ request'[q] = n
           /\ \A p \in Requests \ {q} : request'[p] = request[p]
BY DEF TypeOK

LEMMA NoRequestTyped ==
    /\ NoRequest \in Request
    /\ \A x \in SessionIds : NoRequest.session # x
    /\ NoRequest.pc = "idle"
BY ConstantsAssumption DEF NoRequest, Request

\* A step that begins and ends no refresh of the session x.
KeepsRefreshes(x) ==
    \A p \in Requests :
        /\ Of(p, x, Refreshing)' <=> Of(p, x, Refreshing)
        /\ Of(p, x, Refreshing) =>
              /\ request'[p].token = request[p].token
              /\ request'[p].pc = "answer" <=> request[p].pc = "answer"

LEMMA TokenKept ==
    ASSUME NEW x \in SessionIds, TokenOK(x), KeepsRefreshes(x),
           row'[x].token = row[x].token, held'[x] = held[x]
    PROVE  TokenOK(x)'
BY DEF TokenOK, AtMostOne, KeepsRefreshes, Idle, Of

\* A step that begins no report of the session x and takes none over the point
\* where its row is emptied, or to its end.
KeepsReports(x) ==
    \A p \in Requests :
        /\ Of(p, x, Reporting)' => Of(p, x, Reporting)
        /\ Of(p, x, Emptied)' <=> Of(p, x, Emptied)

LEMMA ReportKept ==
    ASSUME NEW x \in SessionIds, ReportOK(x), KeepsReports(x),
           row'[x].businesses = row[x].businesses, reported'[x] = reported[x]
    PROVE  ReportOK(x)'
BY DEF ReportOK, AtMostOne, KeepsReports, Idle, Of

\* The phase a request is in, as far as the invariant tells phases apart.
SamePhase(m, n) ==
    /\ m.session = n.session /\ m.token = n.token
    /\ \A pcs \in {Refreshing, {"answer"}, Reporting, Emptied} : m.pc \in pcs <=> n.pc \in pcs

LEMMA SamePhaseKeeps ==
    ASSUME TypeOK, NEW q \in Requests, NEW n \in Request,
           request' = [request EXCEPT ![q] = n], SamePhase(request[q], n)
    PROVE  \A x \in SessionIds : KeepsRefreshes(x) /\ KeepsReports(x)
<1>. /\ request'[q] = n
     /\ \A p \in Requests \ {q} : request'[p] = request[p]
  BY RequestsTyped
<1>. QED  BY DEF SamePhase, KeepsRefreshes, KeepsReports, Of

LEMMA UnchangedKeeps ==
    ASSUME UNCHANGED request
    PROVE  \A x \in SessionIds : KeepsRefreshes(x) /\ KeepsReports(x)
BY DEF KeepsRefreshes, KeepsReports, Of

\* A step of the request q that leaves it in the same phase and writes nothing.
LEMMA MoveStep ==
    ASSUME IInv, NEW q \in Requests, NEW n \in Request,
           request' = [request EXCEPT ![q] = n], SamePhase(request[q], n), RequestOK(q)',
           UNCHANGED <<row, owned, held, pushed, historyVars>>
    PROVE  IInv'
<1>. USE DEF historyVars
<1>1. TypeOK /\ TypeOK'
  BY RequestsTyped DEF IInv, TypeOK
<1>2. Persists
  BY DEF Persists, Exists
<1>3. ASSUME NEW p \in Requests PROVE RequestOK(p)'
  BY <1>1, <1>2, RequestPersists, RequestsTyped DEF IInv
<1>4. ASSUME NEW x \in SessionIds PROVE RowOK(x)'
  BY DEF IInv, RowOK, Exists
<1>5. ASSUME NEW x \in SessionIds, Exists(x)', x \notin unsure' PROVE TokenOK(x)'
  BY <1>1, <1>5, TokenKept, SamePhaseKeeps DEF IInv, Exists
<1>6. ASSUME NEW x \in SessionIds, Exists(x)', x \notin mixed' PROVE ReportOK(x)'
  BY <1>1, <1>6, ReportKept, SamePhaseKeeps DEF IInv, Exists
<1>. QED  BY <1>1, <1>3, <1>4, <1>5, <1>6 DEF IInv

\* The end of the request q, which has written nothing in this step.
LEMMA FinishStep ==
    ASSUME IInv, NEW q \in Requests, Finish(q),
           UNCHANGED <<row, owned, held, pushed, reported, moved, ended>>,
           unsure \subseteq unsure', mixed \subseteq mixed',
           unsure' \union mixed' \subseteq SessionIds,
           Exists(request[q].session) =>
               /\ request[q].pc = "answer" => request[q].session \in unsure'
               /\ request[q].pc \in Emptied => request[q].session \in mixed'
    PROVE  IInv'
<1>. /\ TypeOK
     /\ NoRequest \in Request
     /\ request' = [request EXCEPT ![q] = NoRequest]
  BY NoRequestTyped DEF IInv, Finish
<1>1. TypeOK'
  BY RequestsTyped DEF TypeOK
<1>2. Persists
  BY DEF Persists, Exists
<1>a. /\ request'[q] = NoRequest
      /\ \A p \in Requests \ {q} : request'[p] = request[p]
  BY RequestsTyped
<1>3. ASSUME NEW p \in Requests PROVE RequestOK(p)'
  <2>1. CASE p = q
    BY <2>1, <1>a, NoRequestTyped DEF RequestOK, Refreshing, Reporting
  <2>2. CASE p # q
    BY <2>2, <1>a, <1>2, RequestPersists DEF IInv
  <2>. QED  BY <2>1, <2>2
<1>4. ASSUME NEW x \in SessionIds PROVE RowOK(x)'
  BY DEF IInv, RowOK, Exists
<1>b. ASSUME NEW x \in SessionIds, NEW pcs
      PROVE  /\ ~ Of(q, x, pcs)'
             /\ \A p \in Requests \ {q} : Of(p, x, pcs)' <=> Of(p, x, pcs)
  BY <1>a, NoRequestTyped DEF Of
<1>5. ASSUME NEW x \in SessionIds, Exists(x)', x \notin unsure' PROVE TokenOK(x)'
  <2>1. TokenOK(x) /\ Exists(x)
    BY <1>5 DEF IInv, Exists
  <2>2. Of(q, x, Refreshing) => request[q].pc # "answer"
    BY <1>5, <2>1 DEF Of
  <2>. QED  BY <2>1, <2>2, <1>a, <1>b DEF TokenOK, AtMostOne, Idle, Of
<1>6. ASSUME NEW x \in SessionIds, Exists(x)', x \notin mixed' PROVE ReportOK(x)'
  <2>1. ReportOK(x) /\ Exists(x)
    BY <1>6 DEF IInv, Exists
  <2>2. ~ Of(q, x, Emptied)
    BY <1>6, <2>1 DEF Of
  <2>3. KeepsReports(x)
    BY <2>2, <1>b DEF KeepsReports
  <2>. QED  BY <2>1, <2>3, ReportKept
<1>. QED  BY <1>1, <1>3, <1>4, <1>5, <1>6 DEF IInv

\* The rows of the sessions S go, for a reason.
LEMMA DeleteStep ==
    ASSUME IInv, NEW S \in SUBSET SessionIds, Delete(S),
           UNCHANGED <<owned, held, pushed, moved>>,
           ended \subseteq ended', ended' \subseteq SessionIds,
           \A x \in S : Exists(x) => x \in ended',
           request' \in [Requests -> Request],
           \A p \in Requests : RequestOK(p)',
           \A x \in SessionIds : KeepsRefreshes(x) /\ KeepsReports(x)
    PROVE  IInv'
<1>. TypeOK
  BY DEF IInv
<1>1. TypeOK'
  BY ConstantsAssumption DEF TypeOK, Delete, Row, NoRow
<1>2. \A x \in SessionIds : /\ x \in S => row'[x] = NoRow /\ ~ Exists(x)'
                            /\ x \notin S => /\ row'[x] = row[x] /\ (Exists(x)' <=> Exists(x))
                                             /\ reported'[x] = reported[x]
  BY DEF Delete, Exists, NoRow, TypeOK
<1>4. ASSUME NEW x \in SessionIds PROVE RowOK(x)'
  BY <1>2 DEF IInv, RowOK, NoRow, Delete
<1>5. ASSUME NEW x \in SessionIds, Exists(x)', x \notin unsure' PROVE TokenOK(x)'
  <2>. Exists(x) /\ x \notin unsure
    BY <1>2, <1>5 DEF Delete
  <2>. QED  BY <1>2, <1>5, TokenKept DEF IInv
<1>6. ASSUME NEW x \in SessionIds, Exists(x)', x \notin mixed' PROVE ReportOK(x)'
  <2>. Exists(x) /\ x \notin mixed
    BY <1>2, <1>6 DEF Delete
  <2>. QED  BY <1>2, <1>6, ReportKept DEF IInv
<1>. QED  BY <1>1, <1>4, <1>5, <1>6 DEF IInv

LEMMA DeletePersists ==
    ASSUME TypeOK, NEW S \in SUBSET SessionIds, Delete(S), UNCHANGED <<owned, held, moved>>
    PROVE  Persists
<1>. \A x \in SessionIds : row'[x] = IF x \in S THEN NoRow ELSE row[x]
  BY DEF Delete
<1>. QED  BY DEF Persists, Exists, NoRow

(***************************************************************************)
(* The steps.                                                              *)
(***************************************************************************)

LEMMA SignInStep ==
    ASSUME IInv, NEW s \in SessionIds, SignIn(s)
    PROVE  IInv'
<1> DEFINE n == [NoRow EXCEPT !.token = 1, !.online = TRUE]
<1>. TypeOK /\ UNCHANGED <<owned, request, pushed, historyVars>>
  BY DEF IInv, SignIn
<1>. USE DEF historyVars
<1>0. 1 \in 0..MaxToken
  BY ConstantsAssumption
<1>1. /\ n \in Row /\ n.token = 1 /\ n.businesses = {}
      /\ row' = [row EXCEPT ![s] = n] /\ held' = [held EXCEPT ![s] = 1]
  BY <1>0 DEF SignIn, Row, NoRow
<1>2. /\ held[s] = 0 /\ ~ Exists(s)
  BY DEF IInv, RowOK, SignIn
<1> HIDE DEF n
<1>3. /\ row'[s] = n /\ held'[s] = 1
      /\ \A x \in SessionIds \ {s} : row'[x] = row[x] /\ held'[x] = held[x]
  BY <1>1 DEF TypeOK
<1>4. TypeOK'
  BY <1>0, <1>1 DEF TypeOK
<1>5. Persists
  BY <1>2, <1>3 DEF Persists, Exists
<1>6. ASSUME NEW p \in Requests PROVE RequestOK(p)'
  BY <1>5, RequestPersists DEF IInv
<1>7. ASSUME NEW x \in SessionIds PROVE RowOK(x)'
  BY <1>1, <1>3 DEF IInv, RowOK, Exists
<1>8. \A p \in Requests : request[p].pc # "idle" => request[p].session # s
  BY <1>2 DEF IInv, RequestOK
<1>9. ASSUME NEW x \in SessionIds, Exists(x)', x \notin unsure' PROVE TokenOK(x)'
  <2>1. CASE x = s
    BY <2>1, <1>1, <1>3, <1>8 DEF TokenOK, AtMostOne, Of, Idle, Refreshing
  <2>2. CASE x # s
    BY <2>2, <1>3, <1>9, TokenKept, UnchangedKeeps DEF IInv, Exists
  <2>. QED  BY <2>1, <2>2
<1>10. ASSUME NEW x \in SessionIds, Exists(x)', x \notin mixed' PROVE ReportOK(x)'
  <2>1. CASE x = s
    <3>1. reported[s] = {}
      BY <1>2 DEF IInv, RowOK
    <3>. QED  BY <2>1, <3>1, <1>1, <1>3, <1>8 DEF ReportOK, AtMostOne, Of, Idle, Reporting, Emptied
  <2>2. CASE x # s
    BY <2>2, <1>3, <1>10, ReportKept, UnchangedKeeps DEF IInv, Exists
  <2>. QED  BY <2>1, <2>2
<1>. QED  BY <1>4, <1>6, <1>7, <1>9, <1>10 DEF IInv

LEMMA OwnBusinessStep ==
    ASSUME IInv, NEW u \in Users, NEW b \in Businesses, OwnBusiness(u, b)
    PROVE  IInv'
<1>. TypeOK /\ UNCHANGED <<row, held, request, pushed, historyVars>>
  BY DEF IInv, OwnBusiness
<1>. USE DEF historyVars
<1>1. TypeOK' /\ \A v \in Users : owned[v] \subseteq owned'[v]
  BY DEF TypeOK, OwnBusiness
<1>2. Persists
  BY <1>1 DEF Persists, Exists
<1>3. ASSUME NEW p \in Requests PROVE RequestOK(p)'
  BY <1>2, RequestPersists DEF IInv
<1>4. ASSUME NEW x \in SessionIds PROVE RowOK(x)'
  BY <1>1, ConstantsAssumption DEF IInv, RowOK, Exists
<1>5. ASSUME NEW x \in SessionIds, Exists(x)', x \notin unsure' PROVE TokenOK(x)'
  BY <1>5, TokenKept, UnchangedKeeps DEF IInv, Exists
<1>6. ASSUME NEW x \in SessionIds, Exists(x)', x \notin mixed' PROVE ReportOK(x)'
  BY <1>6, ReportKept, UnchangedKeeps DEF IInv, Exists
<1>. QED  BY <1>1, <1>3, <1>4, <1>5, <1>6 DEF IInv

LEMMA ReportStateStep ==
    ASSUME IInv, NEW s \in SessionIds, NEW on \in BOOLEAN, ReportState(s, on)
    PROVE  IInv'
<1>. TypeOK /\ UNCHANGED <<owned, held, request, pushed, historyVars>>
  BY DEF IInv, ReportState
<1>. USE DEF historyVars
<1>1. /\ TypeOK'
      /\ \A x \in SessionIds : /\ row'[x].token = row[x].token
                               /\ row'[x].device = row[x].device
                               /\ row'[x].businesses = row[x].businesses
  BY DEF TypeOK, ReportState, Row
<1>2. Persists
  BY <1>1 DEF Persists, Exists
<1>3. ASSUME NEW p \in Requests PROVE RequestOK(p)'
  BY <1>2, RequestPersists DEF IInv
<1>4. ASSUME NEW x \in SessionIds PROVE RowOK(x)'
  BY <1>1 DEF IInv, RowOK, Exists
<1>5. ASSUME NEW x \in SessionIds, Exists(x)', x \notin unsure' PROVE TokenOK(x)'
  BY <1>1, <1>5, TokenKept, UnchangedKeeps DEF IInv, Exists
<1>6. ASSUME NEW x \in SessionIds, Exists(x)', x \notin mixed' PROVE ReportOK(x)'
  BY <1>1, <1>6, ReportKept, UnchangedKeeps DEF IInv, Exists
<1>. QED  BY <1>1, <1>3, <1>4, <1>5, <1>6 DEF IInv

LEMMA PushStep ==
    ASSUME IInv, NEW S \in SUBSET SessionIds, Push(S),
           \A s \in S : row[s].businesses # {}
    PROVE  IInv'
<1>. TypeOK /\ UNCHANGED <<row, owned, held, request, historyVars>>
  BY DEF IInv, Push
<1>. USE DEF historyVars
<1>1. pushed' \subseteq Devices
  BY DEF IInv, RowOK, Push
<1>2. TypeOK' /\ Persists
  BY DEF TypeOK, Persists, Exists
<1>3. ASSUME NEW p \in Requests PROVE RequestOK(p)'
  BY <1>2, RequestPersists DEF IInv
<1>4. ASSUME NEW x \in SessionIds PROVE RowOK(x)'
  BY DEF IInv, RowOK, Exists
<1>5. ASSUME NEW x \in SessionIds, Exists(x)', x \notin unsure' PROVE TokenOK(x)'
  BY <1>5, TokenKept, UnchangedKeeps DEF IInv, Exists
<1>6. ASSUME NEW x \in SessionIds, Exists(x)', x \notin mixed' PROVE ReportOK(x)'
  BY <1>6, ReportKept, UnchangedKeeps DEF IInv, Exists
<1>. QED  BY <1>1, <1>2, <1>3, <1>4, <1>5, <1>6 DEF IInv

LEMMA DeletedByHandStep ==
    ASSUME IInv, NEW S \in SUBSET SessionIds, Delete(S), ended' = ended \union S,
           UNCHANGED <<owned, held, request, pushed, moved>>
    PROVE  IInv'
<1>1. TypeOK /\ Persists
  BY DeletePersists DEF IInv
<1>2. ASSUME NEW p \in Requests PROVE RequestOK(p)'
  BY <1>1, RequestPersists DEF IInv
<1>3. /\ ended' \subseteq SessionIds
      /\ request' \in [Requests -> Request]
  BY <1>1 DEF TypeOK
<1>. QED  BY <1>1, <1>2, <1>3, DeleteStep, UnchangedKeeps

LEMMA VerifyTokenStep ==
    ASSUME IInv, NEW q \in Requests, VerifyToken(q)
    PROVE  IInv'
<1> DEFINE r == request[q]
<1> DEFINE n == [r EXCEPT !.pc = "renew"]
<1>1. /\ TypeOK /\ r \in Request /\ r.pc = "refresh" /\ RequestOK(q)
      /\ UNCHANGED <<row, owned, held, pushed, historyVars>>
  BY DEF IInv, TypeOK, VerifyToken, Serves
<1>2. CASE Go(q, "renew")
  <2>1. /\ n \in Request /\ request' = [request EXCEPT ![q] = n]
        /\ SamePhase(r, n)
    BY <1>1, <1>2 DEF Go, Request, SamePhase, Refreshing, Reporting, Emptied, TypeOK
  <2>2. RequestOK(q)'
    BY <1>1, <2>1, RequestsTyped DEF RequestOK, Refreshing, Reporting, Request
  <2>. QED  BY <1>1, <2>1, <2>2, MoveStep
<1>3. CASE Finish(q)
  BY <1>1, <1>3, FinishStep DEF historyVars, TypeOK, Emptied
<1>. QED  BY <1>2, <1>3 DEF VerifyToken

LEMMA ReadSessionStep ==
    ASSUME IInv, NEW q \in Requests, ReadSession(q)
    PROVE  IInv'
<1> DEFINE r == request[q]
<1> DEFINE n == [r EXCEPT !.pc = "disconnect", !.known = row[r.session].device]
<1>1. /\ TypeOK /\ r \in Request /\ r.pc = "report" /\ RequestOK(q)
      /\ r.session \in SessionIds /\ held[r.session] # 0 /\ r.device \in Devices
      /\ UNCHANGED <<row, owned, held, pushed, historyVars>>
  BY DEF IInv, TypeOK, ReadSession, Serves, RequestOK, Reporting
<1>2. CASE Exists(r.session) /\ AllOwned(r.session, r.businesses)
  <2>1. /\ n \in Request /\ n.pc = "disconnect" /\ n.session = r.session
        /\ n.businesses = r.businesses /\ n.device = r.device
        /\ n.known = row[r.session].device
        /\ request' = [request EXCEPT ![q] = n] /\ SamePhase(r, n)
    BY <1>1, <1>2 DEF ReadSession, Request, SamePhase, Refreshing, Reporting, Emptied, TypeOK, Row
  <2> HIDE DEF n
  <2>2. RequestOK(q)'
    <3>1. row[r.session].device \in Devices \union {"none"}
      BY <1>1 DEF TypeOK, Row
    <3>. QED  BY <1>1, <1>2, <2>1, <3>1, RequestsTyped
              DEF RequestOK, Refreshing, Reporting, AllOwned, Exists
  <2>. QED  BY <1>1, <2>1, <2>2, MoveStep
<1>3. CASE Finish(q)
  BY <1>1, <1>3, FinishStep DEF historyVars, TypeOK, Emptied
<1>. QED  BY <1>2, <1>3 DEF ReadSession

LEMMA FindOthersStep ==
    ASSUME IInv, NEW q \in Requests, FindOthers(q)
    PROVE  IInv'
<1> DEFINE r == request[q]
<1> DEFINE others == OtherHolders(r.session, r.device)
<1> DEFINE n == [r EXCEPT !.others = others, !.pc = IF others = {} THEN "connect" ELSE "delete"]
<1>1. /\ TypeOK /\ r \in Request /\ r.pc = "find" /\ RequestOK(q)
      /\ r.session \in SessionIds /\ held[r.session] # 0 /\ r.device \in Devices
      /\ UNCHANGED <<row, owned, held, pushed, historyVars>>
  BY DEF IInv, TypeOK, FindOthers, Serves, RequestOK, Reporting
<1>2. /\ others \in SUBSET SessionIds
      /\ \A x \in others : x # r.session /\ held[x] # 0 /\ row[x].device = r.device
  BY DEF OtherHolders, Holders, IInv, RowOK
<1>3. /\ n \in Request /\ n.pc \in {"connect", "delete"} /\ n.session = r.session
      /\ n.businesses = r.businesses /\ n.device = r.device
      /\ n.known = r.known /\ n.others = others
      /\ request' = [request EXCEPT ![q] = n]
  BY <1>1, <1>2 DEF FindOthers, Request, TypeOK
<1>4. SamePhase(r, n)
  BY <1>1 DEF SamePhase, Refreshing, Reporting, Emptied, Request
<1> HIDE DEF n, others
<1>5. RequestOK(q)'
  BY <1>1, <1>2, <1>3, RequestsTyped DEF RequestOK, Refreshing, Reporting, Exists
<1>. QED  BY <1>1, <1>3, <1>4, <1>5, MoveStep

LEMMA FailsStep ==
    ASSUME IInv, NEW q \in Requests, Fails(q)
    PROVE  IInv'
<1>1. /\ TypeOK /\ request[q] \in Request /\ RequestOK(q)
      /\ request[q].pc # "idle" /\ request[q].session \in SessionIds
  BY DEF IInv, TypeOK, Fails, Serves, RequestOK
<1>2. /\ unsure \subseteq unsure' /\ mixed \subseteq mixed'
      /\ unsure' \union mixed' \subseteq SessionIds
      /\ request[q].pc = "answer" => request[q].session \in unsure'
      /\ request[q].pc \in Emptied => request[q].session \in mixed'
  BY <1>1 DEF Fails, CutShort, Serves, Emptied, TypeOK
<1>. QED  BY <1>2, FinishStep DEF Fails

LEMMA RefreshStep ==
    ASSUME IInv, NEW q \in Requests, NEW s \in SessionIds, Refresh(q, s)
    PROVE  IInv'
<1> DEFINE n == [NoRequest EXCEPT !.pc = "refresh", !.session = s, !.token = held[s]]
<1>1. /\ TypeOK /\ request[q].pc = "idle"
      /\ UNCHANGED <<row, owned, held, pushed, reported, mixed, moved, ended>>
  BY DEF IInv, Refresh, Begin, Serves
<1>2. /\ n \in Request /\ n.pc = "refresh" /\ n.session = s /\ n.token = held[s]
      /\ request' = [request EXCEPT ![q] = n] /\ held[s] # 0
  BY <1>1, NoRequestTyped DEF Refresh, Begin, NoRequest, Request, TypeOK
<1> HIDE DEF n
<1>3. /\ request'[q] = n
      /\ \A p \in Requests \ {q} : request'[p] = request[p]
  BY <1>1, <1>2, RequestsTyped
<1>4. TypeOK'
  BY <1>1, <1>2, RequestsTyped DEF TypeOK, Refresh
<1>5. Persists
  BY <1>1 DEF Persists, Exists
<1>6. ASSUME NEW p \in Requests PROVE RequestOK(p)'
  <2>1. CASE p = q
    BY <2>1, <1>1, <1>2, <1>3 DEF RequestOK, Refreshing, Reporting
  <2>2. CASE p # q
    BY <2>2, <1>1, <1>3, <1>5, RequestPersists DEF IInv
  <2>. QED  BY <2>1, <2>2
<1>7. ASSUME NEW x \in SessionIds PROVE RowOK(x)'
  BY <1>1 DEF IInv, RowOK, Exists
<1>8. ASSUME NEW x \in SessionIds, Exists(x)', x \notin unsure' PROVE TokenOK(x)'
  <2>1. Exists(x) /\ x \notin unsure /\ TokenOK(x)
    BY <1>1, <1>8 DEF IInv, Refresh, Exists
  <2>2. CASE x = s
    <3>1. \A p \in Requests \ {q} : ~ Of(p, s, Refreshing)
      BY <2>2, <1>8 DEF Refresh, Concurrent, Of
    <3>2. Idle(s, Refreshing)
      BY <3>1, <1>1 DEF Idle, Of, Refreshing
    <3>3. held[s] = row[s].token
      BY <2>1, <2>2, <3>2 DEF TokenOK
    <3>. QED  BY <2>2, <3>1, <3>3, <1>1, <1>2, <1>3 DEF TokenOK, AtMostOne, Idle, Of, Refreshing
  <2>3. CASE x # s
    <3>1. KeepsRefreshes(x)
      BY <2>3, <1>1, <1>2, <1>3 DEF KeepsRefreshes, Of, Refreshing
    <3>. QED  BY <2>1, <3>1, <1>1, TokenKept
  <2>. QED  BY <2>2, <2>3
<1>9. ASSUME NEW x \in SessionIds, Exists(x)', x \notin mixed' PROVE ReportOK(x)'
  <2>1. ReportOK(x)
    BY <1>1, <1>9 DEF IInv, Exists
  <2>2. KeepsReports(x)
    BY <1>1, <1>2, <1>3 DEF KeepsReports, Of, Reporting, Emptied
  <2>. QED  BY <2>1, <2>2, <1>1, ReportKept
<1>. QED  BY <1>1, <1>4, <1>6, <1>7, <1>8, <1>9 DEF IInv

LEMMA ReportBusinessesStep ==
    ASSUME IInv, NEW q \in Requests, NEW s \in SessionIds,
           NEW B \in SUBSET Businesses, NEW d \in Devices, ReportBusinesses(q, s, B, d)
    PROVE  IInv'
<1> DEFINE n == [NoRequest EXCEPT !.pc = "report", !.session = s, !.businesses = B, !.device = d]
<1>1. /\ TypeOK /\ request[q].pc = "idle"
      /\ UNCHANGED <<row, owned, held, pushed, reported, unsure, moved, ended>>
  BY DEF IInv, ReportBusinesses, Begin, Serves
<1>2. /\ n \in Request /\ n.pc = "report" /\ n.session = s /\ n.device = d
      /\ request' = [request EXCEPT ![q] = n] /\ held[s] # 0
  BY <1>1, NoRequestTyped DEF ReportBusinesses, Begin, NoRequest, Request
<1> HIDE DEF n
<1>3. /\ request'[q] = n
      /\ \A p \in Requests \ {q} : request'[p] = request[p]
  BY <1>1, <1>2, RequestsTyped
<1>4. TypeOK'
  BY <1>1, <1>2, RequestsTyped DEF TypeOK, ReportBusinesses
<1>5. Persists
  BY <1>1 DEF Persists, Exists
<1>6. ASSUME NEW p \in Requests PROVE RequestOK(p)'
  <2>1. CASE p = q
    BY <2>1, <1>1, <1>2, <1>3 DEF RequestOK, Refreshing, Reporting
  <2>2. CASE p # q
    BY <2>2, <1>1, <1>3, <1>5, RequestPersists DEF IInv
  <2>. QED  BY <2>1, <2>2
<1>7. ASSUME NEW x \in SessionIds PROVE RowOK(x)'
  BY <1>1 DEF IInv, RowOK, Exists
<1>8. ASSUME NEW x \in SessionIds, Exists(x)', x \notin unsure' PROVE TokenOK(x)'
  <2>1. TokenOK(x)
    BY <1>1, <1>8 DEF IInv, Exists
  <2>2. KeepsRefreshes(x)
    BY <1>1, <1>2, <1>3 DEF KeepsRefreshes, Of, Refreshing
  <2>. QED  BY <2>1, <2>2, <1>1, TokenKept
<1>9. ASSUME NEW x \in SessionIds, Exists(x)', x \notin mixed' PROVE ReportOK(x)'
  <2>1. Exists(x) /\ x \notin mixed /\ ReportOK(x)
    BY <1>1, <1>9 DEF IInv, ReportBusinesses, Exists
  <2>2. CASE x = s
    <3>1. \A p \in Requests \ {q} : ~ Of(p, s, Reporting)
      BY <2>2, <1>9 DEF ReportBusinesses, Concurrent, Of
    <3>2. Idle(s, Emptied)
      BY <3>1, <1>1 DEF Idle, Of, Reporting, Emptied
    <3>3. row[s].businesses = reported[s]
      BY <2>1, <2>2, <3>2 DEF ReportOK
    <3>. QED  BY <2>2, <3>1, <3>3, <1>1, <1>2, <1>3 DEF ReportOK, AtMostOne, Idle, Of, Reporting, Emptied
  <2>3. CASE x # s
    <3>1. KeepsReports(x)
      BY <2>3, <1>1, <1>2, <1>3 DEF KeepsReports, Of, Reporting, Emptied
    <3>. QED  BY <2>1, <3>1, <1>1, ReportKept
  <2>. QED  BY <2>2, <2>3
<1>. QED  BY <1>1, <1>4, <1>6, <1>7, <1>8, <1>9 DEF IInv

LEMMA WriteTokenStep ==
    ASSUME IInv, NEW q \in Requests, WriteToken(q)
    PROVE  IInv'
<1> DEFINE r == request[q]
<1> DEFINE s == r.session
<1> DEFINE t == row[s].token + 1
<1> DEFINE n == [r EXCEPT !.pc = "answer", !.token = t]
<1>1. /\ TypeOK /\ r \in Request /\ RequestOK(q) /\ r.pc = "renew"
      /\ s \in SessionIds /\ held[s] # 0
      /\ UNCHANGED <<owned, held, pushed, historyVars>>
  BY DEF IInv, TypeOK, RequestOK, WriteToken, Serves
<1>2. CASE ~ Exists(s)
  BY <1>1, <1>2, FinishStep DEF WriteToken, historyVars, TypeOK
<1>3. CASE Exists(s)
  <2>. USE <1>1 DEF historyVars
  <2>1. t \in 0..MaxToken /\ t # 0
    <3>1. row[s].token \in 0..MaxToken /\ row[s].token < MaxToken
      BY <1>3 DEF WriteToken, TypeOK, Row
    <3>. QED  BY <3>1, ConstantsAssumption
  <2>2. /\ n \in Request /\ n.pc = "answer" /\ n.session = s /\ n.token = t
        /\ request' = [request EXCEPT ![q] = n]
    BY <1>3, <2>1 DEF WriteToken, Renew, Request, TypeOK
  <2>3. /\ row' \in [SessionIds -> Row]
        /\ row'[s].token = t
        /\ \A x \in SessionIds : x # s => row'[x].token = row[x].token
        /\ \A x \in SessionIds : /\ Exists(x)' <=> Exists(x)
                                 /\ row'[x].device = row[x].device
                                 /\ row'[x].businesses = row[x].businesses
    BY <1>3, <2>1, SMTT(30) DEF WriteToken, Renew, TypeOK, Row, Exists
  <2> HIDE DEF n, t
  <2>4. /\ request'[q] = n
        /\ \A p \in Requests \ {q} : request'[p] = request[p]
    BY <2>2, RequestsTyped
  <2>5. TypeOK'
    BY <2>2, <2>3, RequestsTyped DEF TypeOK
  <2>6. Persists
    BY <2>3 DEF Persists
  <2>7. ASSUME NEW p \in Requests PROVE RequestOK(p)'
    <3>1. CASE p = q
      BY <3>1, <2>1, <2>2, <2>4 DEF RequestOK, Refreshing, Reporting
    <3>2. CASE p # q
      BY <3>2, <2>4, <2>6, RequestPersists DEF IInv
    <3>. QED  BY <3>1, <3>2
  <2>8. ASSUME NEW x \in SessionIds PROVE RowOK(x)'
    BY <2>3 DEF IInv, RowOK
  <2>9. ASSUME NEW x \in SessionIds, Exists(x)', x \notin unsure' PROVE TokenOK(x)'
    <3>1. TokenOK(x)
      BY <2>3, <2>9 DEF IInv
    <3>2. CASE x = s
      BY <3>1, <3>2, <2>2, <2>3, <2>4 DEF TokenOK, AtMostOne, Idle, Of, Refreshing
    <3>3. CASE x # s
      <4>1. KeepsRefreshes(x)
        BY <3>3, <2>2, <2>4 DEF KeepsRefreshes, Of
      <4>. QED  BY <3>1, <3>3, <4>1, <2>3, TokenKept
    <3>. QED  BY <3>2, <3>3
  <2>10. ASSUME NEW x \in SessionIds, Exists(x)', x \notin mixed' PROVE ReportOK(x)'
    <3>1. ReportOK(x)
      BY <2>3, <2>10 DEF IInv
    <3>2. KeepsReports(x)
      BY <2>2, <2>4 DEF KeepsReports, Of, Reporting, Emptied
    <3>. QED  BY <3>1, <3>2, <2>3, ReportKept
  <2>. QED  BY <2>5, <2>7, <2>8, <2>9, <2>10 DEF IInv
<1>. QED  BY <1>2, <1>3

LEMMA AnswerTokenStep ==
    ASSUME IInv, NEW q \in Requests, AnswerToken(q)
    PROVE  IInv'
<1> DEFINE r == request[q]
<1> DEFINE s == r.session
<1>1. /\ TypeOK /\ r \in Request /\ RequestOK(q) /\ r.pc = "answer"
      /\ s \in SessionIds /\ held[s] # 0 /\ r.token # 0 /\ r.token \in 0..MaxToken
      /\ UNCHANGED <<row, owned, pushed, historyVars>>
      /\ held' = [held EXCEPT ![s] = r.token]
      /\ request' = [request EXCEPT ![q] = NoRequest]
  BY DEF IInv, TypeOK, RequestOK, AnswerToken, Serves, Finish, Request, Refreshing
<1>. USE <1>1 DEF historyVars
<1>2. /\ held' \in [SessionIds -> 0..MaxToken]
      /\ held'[s] = r.token
      /\ \A x \in SessionIds : /\ x # s => held'[x] = held[x]
                               /\ held[x] # 0 => held'[x] # 0
  BY DEF TypeOK
<1>3. /\ request'[q] = NoRequest
      /\ \A p \in Requests \ {q} : request'[p] = request[p]
  BY RequestsTyped, NoRequestTyped
<1>4. TypeOK'
  BY <1>2, RequestsTyped, NoRequestTyped DEF TypeOK
<1>5. Persists
  BY <1>2 DEF Persists, Exists
<1>6. ASSUME NEW p \in Requests PROVE RequestOK(p)'
  <2>1. CASE p = q
    BY <2>1, <1>3, NoRequestTyped DEF RequestOK, Refreshing, Reporting
  <2>2. CASE p # q
    BY <2>2, <1>3, <1>5, RequestPersists DEF IInv
  <2>. QED  BY <2>1, <2>2
<1>7. ASSUME NEW x \in SessionIds PROVE RowOK(x)'
  <2>1. held'[x] # 0 => held[x] # 0
    BY <1>2
  <2>. QED  BY <1>2, <2>1 DEF IInv, RowOK, Exists
<1>8. ASSUME NEW x \in SessionIds, Exists(x)', x \notin unsure' PROVE TokenOK(x)'
  <2>1. TokenOK(x)
    BY <1>8 DEF IInv, Exists
  <2>2. CASE x = s
    <3>1. r.token = row[s].token /\ Of(q, s, Refreshing)
      BY <2>1, <2>2 DEF TokenOK, Of, Refreshing
    <3>2. \A p \in Requests \ {q} : ~ Of(p, x, Refreshing)
      BY <2>1, <2>2, <3>1 DEF TokenOK, AtMostOne
    <3>3. \A p \in Requests : ~ Of(p, x, Refreshing)'
      BY <3>2, <1>3, NoRequestTyped DEF Of
    <3>4. held'[x] = row'[x].token
      BY <2>2, <3>1, <1>2
    <3>. QED  BY <3>3, <3>4 DEF TokenOK, AtMostOne, Idle, Of
  <2>3. CASE x # s
    <3>1. KeepsRefreshes(x)
      BY <2>3, <1>3, NoRequestTyped DEF KeepsRefreshes, Of
    <3>. QED  BY <2>1, <2>3, <3>1, <1>2, TokenKept
  <2>. QED  BY <2>2, <2>3
<1>9. ASSUME NEW x \in SessionIds, Exists(x)', x \notin mixed' PROVE ReportOK(x)'
  <2>1. ReportOK(x)
    BY <1>9 DEF IInv, Exists
  <2>2. KeepsReports(x)
    BY <1>3, NoRequestTyped DEF KeepsReports, Of, Reporting, Emptied
  <2>. QED  BY <2>1, <2>2, ReportKept
<1>. QED  BY <1>4, <1>6, <1>7, <1>8, <1>9 DEF IInv

LEMMA DisconnectStep ==
    ASSUME IInv, NEW q \in Requests, Disconnect(q)
    PROVE  IInv'
<1> DEFINE r == request[q]
<1> DEFINE s == r.session
<1> DEFINE n == [r EXCEPT !.pc = "find"]
<1>1. /\ TypeOK /\ r \in Request /\ RequestOK(q) /\ r.pc = "disconnect"
      /\ s \in SessionIds /\ held[s] # 0
      /\ UNCHANGED <<owned, held, pushed, reported, unsure, moved, ended>>
  BY DEF IInv, TypeOK, RequestOK, Disconnect, Serves
<1>2. CASE ~ Exists(s)
  BY <1>1, <1>2, FinishStep DEF Disconnect, TypeOK, Emptied
<1>3. CASE Exists(s)
  <2>. USE <1>1
  <2>2. /\ n \in Request /\ n.pc = "find" /\ n.session = s /\ n.token = r.token
        /\ n.businesses = r.businesses /\ n.device = r.device /\ n.known = r.known
        /\ request' = [request EXCEPT ![q] = n]
    BY <1>3 DEF Disconnect, Go, Request, TypeOK
  <2>3. /\ row' \in [SessionIds -> Row]
        /\ row'[s].businesses = {}
        /\ \A x \in SessionIds : x # s => row'[x].businesses = row[x].businesses
        /\ \A x \in SessionIds : /\ Exists(x)' <=> Exists(x)
                                 /\ row'[x].token = row[x].token
                                 /\ row'[x].device = row[x].device
    BY <1>3, SMTT(30) DEF Disconnect, DisconnectAll, TypeOK, Row, Exists
  <2> HIDE DEF n
  <2>4. /\ request'[q] = n
        /\ \A p \in Requests \ {q} : request'[p] = request[p]
    BY <2>2, RequestsTyped
  <2>m. /\ mixed' \subseteq SessionIds
        /\ mixed' = IF Concurrent(q, s, Reporting) THEN mixed ELSE mixed \ {s}
    BY <1>3 DEF Disconnect, TypeOK
  <2>5. TypeOK'
    BY <2>2, <2>3, <2>m, RequestsTyped DEF TypeOK
  <2>6. Persists
    BY <2>3 DEF Persists
  <2>7. ASSUME NEW p \in Requests PROVE RequestOK(p)'
    <3>1. CASE p = q
      BY <3>1, <2>2, <2>3, <2>4 DEF RequestOK, Refreshing, Reporting
    <3>2. CASE p # q
      BY <3>2, <2>4, <2>6, RequestPersists DEF IInv
    <3>. QED  BY <3>1, <3>2
  <2>8. ASSUME NEW x \in SessionIds PROVE RowOK(x)'
    <3>1. CASE x = s
      BY <3>1, <1>3, <2>3 DEF RowOK
    <3>2. CASE x # s
      BY <3>2, <2>3 DEF IInv, RowOK
    <3>. QED  BY <3>1, <3>2
  <2>9. ASSUME NEW x \in SessionIds, Exists(x)', x \notin unsure' PROVE TokenOK(x)'
    <3>1. TokenOK(x)
      BY <2>3, <2>9 DEF IInv
    <3>2. KeepsRefreshes(x)
      BY <2>2, <2>4 DEF KeepsRefreshes, Of, Refreshing
    <3>. QED  BY <3>1, <3>2, <2>3, TokenKept
  <2>10. ASSUME NEW x \in SessionIds, Exists(x)', x \notin mixed' PROVE ReportOK(x)'
    <3>1. CASE x = s
      <4>1. AtMostOne(s, Reporting)
        <5>1. CASE Concurrent(q, s, Reporting)
          BY <5>1, <3>1, <2>m, <2>10, <1>3 DEF IInv, ReportOK
        <5>2. CASE ~ Concurrent(q, s, Reporting)
          BY <5>2 DEF Concurrent, AtMostOne, Of
        <5>. QED  BY <5>1, <5>2
      <4>2. \A p \in Requests : Of(p, x, Reporting)' => Of(p, x, Reporting)
        BY <3>1, <2>2, <2>4 DEF Of, Reporting
      <4>3. Of(q, x, Emptied)'
        BY <3>1, <2>2, <2>4 DEF Of, Emptied
      <4>. QED  BY <3>1, <4>1, <4>2, <4>3, <2>3 DEF ReportOK, AtMostOne, Idle, Of
    <3>2. CASE x # s
      <4>1. ReportOK(x)
        BY <3>2, <2>3, <2>m, <2>10 DEF IInv
      <4>2. KeepsReports(x)
        BY <3>2, <2>2, <2>4 DEF KeepsReports, Of
      <4>. QED  BY <3>2, <4>1, <4>2, <2>3, ReportKept
    <3>. QED  BY <3>1, <3>2
  <2>. QED  BY <2>5, <2>7, <2>8, <2>9, <2>10 DEF IInv
<1>. QED  BY <1>2, <1>3

LEMMA DeleteOthersStep ==
    ASSUME IInv, NEW q \in Requests, DeleteOthers(q)
    PROVE  IInv'
<1> DEFINE r == request[q]
<1> DEFINE S == r.others
<1> DEFINE n == [r EXCEPT !.pc = "connect", !.others = {}]
<1>1. /\ TypeOK /\ r \in Request /\ RequestOK(q) /\ r.pc = "delete"
      /\ r.session \in SessionIds /\ held[r.session] # 0 /\ r.device \in Devices
      /\ S \in SUBSET SessionIds
      /\ Delete(S)
      /\ UNCHANGED <<owned, held, pushed, moved>>
  BY DEF IInv, TypeOK, RequestOK, DeleteOthers, Serves, Reporting, Request
<1>. USE <1>1
<1>2. /\ n \in Request /\ n.pc = "connect" /\ n.session = r.session
      /\ n.businesses = r.businesses /\ n.device = r.device /\ n.known = r.known
      /\ request' = [request EXCEPT ![q] = n]
  BY DEF DeleteOthers, Request, TypeOK
<1>3. SamePhase(r, n)
  BY DEF SamePhase, Refreshing, Reporting, Emptied, Request
<1> HIDE DEF n
<1>4. /\ request' \in [Requests -> Request]
      /\ request'[q] = n
      /\ \A p \in Requests \ {q} : request'[p] = request[p]
  BY <1>2, RequestsTyped
<1>5. Persists
  BY DeletePersists
<1>6. ASSUME NEW p \in Requests PROVE RequestOK(p)'
  <2>1. CASE p = q
    <3>a. \A x \in SessionIds : row'[x] = IF x \in S THEN NoRow ELSE row[x]
      BY DEF Delete
    <3>1. row'[r.session].token # 0 => Exists(r.session) /\ row'[r.session] = row[r.session]
      BY <3>a DEF Exists, NoRow
    <3>. QED  BY <2>1, <3>1, <1>2, <1>4 DEF RequestOK, Refreshing, Reporting, Exists
  <2>2. CASE p # q
    BY <2>2, <1>4, <1>5, RequestPersists DEF IInv
  <2>. QED  BY <2>1, <2>2
<1>7. /\ ended \subseteq ended' /\ ended' \subseteq SessionIds
      /\ \A x \in S : Exists(x) => x \in ended'
  BY DEF DeleteOthers, RequestOK, Holders, TypeOK
<1>. QED  BY <1>2, <1>3, <1>4, <1>6, <1>7, SamePhaseKeeps, DeleteStep

LEMMA ConnectStep ==
    ASSUME IInv, NEW q \in Requests, Connect(q)
    PROVE  IInv'
<1> DEFINE r == request[q]
<1> DEFINE s == r.session
<1> DEFINE sets == SetsDevice(r.known)
<1>1. /\ TypeOK /\ r \in Request /\ RequestOK(q) /\ r.pc = "connect"
      /\ s \in SessionIds /\ held[s] # 0 /\ r.device \in Devices
      /\ r.businesses \in SUBSET Businesses /\ UserOf[s] \in Users
      /\ r.businesses \subseteq owned[UserOf[s]]
      /\ UNCHANGED <<owned, held, pushed, unsure, ended>>
      /\ Finish(q)
  BY ConstantsAssumption DEF IInv, TypeOK, RequestOK, Connect, Serves, Reporting, Request
<1>2. CASE ~ (Exists(s) /\ (sets => Holders(r.device) \subseteq {s}))
  BY <1>1, <1>2, FinishStep DEF Connect, TypeOK
<1>3. CASE Exists(s) /\ (sets => Holders(r.device) \subseteq {s})
  <2>. USE <1>1
  <2> DEFINE d == IF sets THEN r.device ELSE row[s].device
  <2>1. /\ row' = [row EXCEPT ![s].device = d, ![s].businesses = @ \union r.businesses]
        /\ reported' = [reported EXCEPT ![s] = r.businesses]
        /\ moved' = IF sets /\ row[s].device \notin {"none", r.device}
                    THEN moved \union {s} ELSE moved
        /\ UNCHANGED mixed
        /\ request' = [request EXCEPT ![q] = NoRequest]
    BY <1>3 DEF Connect, Finish
  <2>2. d \in Devices
    BY <1>3 DEF SetsDevice, RequestOK, Reporting
  <2>3. row[s].device \in Devices =>
            row[s].device = d \/ s \in moved'
    BY <2>1, ConstantsAssumption DEF SetsDevice
  <2> HIDE DEF d
  <2> DEFINE n == [row[s] EXCEPT !.device = d, !.businesses = @ \union r.businesses]
  <2>a. row' = [row EXCEPT ![s] = n]
    BY <2>1 DEF TypeOK
  <2>b. /\ n \in Row /\ n.device = d /\ n.token = row[s].token
        /\ n.businesses = row[s].businesses \union r.businesses
    <3>1. row[s] \in Row
      BY DEF TypeOK
    <3>2. row[s].businesses \union r.businesses \in SUBSET Businesses
      BY <3>1 DEF Row
    <3>. QED  BY <3>1, <3>2, <2>2 DEF Row
  <2> HIDE DEF n
  <2>4. /\ row' \in [SessionIds -> Row]
        /\ row'[s].device = d
        /\ row'[s].businesses = row[s].businesses \union r.businesses
        /\ \A x \in SessionIds : x # s => row'[x] = row[x]
        /\ \A x \in SessionIds : row'[x].token = row[x].token /\ (Exists(x)' <=> Exists(x))
    BY <2>a, <2>b DEF TypeOK, Exists
  <2>5. /\ reported' \in [SessionIds -> SUBSET Businesses]
        /\ reported'[s] = r.businesses
        /\ \A x \in SessionIds : x # s => reported'[x] = reported[x]
        /\ moved \subseteq moved' /\ moved' \subseteq SessionIds
    BY <2>1 DEF TypeOK
  <2>6. /\ request'[q] = NoRequest
        /\ \A p \in Requests \ {q} : request'[p] = request[p]
    BY <2>1, RequestsTyped, NoRequestTyped
  <2>7. TypeOK'
    BY <2>1, <2>4, <2>5, RequestsTyped, NoRequestTyped DEF TypeOK
  <2>8. Persists
    BY <2>2, <2>3, <2>4, <2>5 DEF Persists
  <2>9. ASSUME NEW p \in Requests PROVE RequestOK(p)'
    <3>1. CASE p = q
      BY <3>1, <2>6, NoRequestTyped DEF RequestOK, Refreshing, Reporting
    <3>2. CASE p # q
      BY <3>2, <2>6, <2>8, RequestPersists DEF IInv
    <3>. QED  BY <3>1, <3>2
  <2>10. ASSUME NEW x \in SessionIds PROVE RowOK(x)'
    <3>1. CASE x = s
      BY <3>1, <1>3, <2>2, <2>4 DEF IInv, RowOK
    <3>2. CASE x # s
      BY <3>2, <2>4, <2>5 DEF IInv, RowOK
    <3>. QED  BY <3>1, <3>2
  <2>11. ASSUME NEW x \in SessionIds, Exists(x)', x \notin unsure' PROVE TokenOK(x)'
    <3>1. TokenOK(x)
      BY <2>4, <2>11 DEF IInv
    <3>2. KeepsRefreshes(x)
      BY <2>6, NoRequestTyped DEF KeepsRefreshes, Of, Refreshing
    <3>. QED  BY <3>1, <3>2, <2>4, TokenKept
  <2>12. ASSUME NEW x \in SessionIds, Exists(x)', x \notin mixed' PROVE ReportOK(x)'
    <3>1. ReportOK(x)
      BY <2>1, <2>4, <2>12 DEF IInv
    <3>2. CASE x = s
      <4>1. Of(q, x, Reporting) /\ Of(q, x, Emptied)
        BY <3>2 DEF Of, Reporting, Emptied
      <4>2. row[x].businesses = {}
        BY <3>1, <4>1 DEF ReportOK, Idle, Of
      <4>3. \A p \in Requests \ {q} : ~ Of(p, x, Reporting)
        BY <3>1, <4>1 DEF ReportOK, AtMostOne
      <4>4. \A p \in Requests : ~ Of(p, x, Reporting)' /\ ~ Of(p, x, Emptied)'
        BY <4>3, <2>6, NoRequestTyped DEF Of, Reporting, Emptied
      <4>5. row'[x].businesses = reported'[x]
        BY <3>2, <4>2, <2>4, <2>5
      <4>. QED  BY <4>4, <4>5 DEF ReportOK, AtMostOne, Idle, Of
    <3>3. CASE x # s
      <4>1. KeepsReports(x)
        BY <3>3, <2>6, NoRequestTyped DEF KeepsReports, Of
      <4>. QED  BY <3>1, <3>3, <4>1, <2>4, <2>5, ReportKept
    <3>. QED  BY <3>2, <3>3
  <2>. QED  BY <2>1, <2>7, <2>9, <2>10, <2>11, <2>12 DEF IInv
<1>. QED  BY <1>2, <1>3

(***************************************************************************)
(* The theorems.                                                           *)
(***************************************************************************)

LEMMA InitOK == Init => IInv
<1>. SUFFICES ASSUME Init PROVE IInv
  OBVIOUS
<1>1. NoRow \in Row /\ NoRow.token = 0 /\ NoRow.businesses = {}
  BY ConstantsAssumption DEF NoRow, Row
<1>2. TypeOK
  BY <1>1, NoRequestTyped, ConstantsAssumption DEF Init, TypeOK
<1>3. \A q \in Requests : RequestOK(q)
  BY NoRequestTyped DEF Init, RequestOK, Refreshing, Reporting
<1>4. \A s \in SessionIds : ~ Exists(s) /\ RowOK(s)
  BY <1>1 DEF Init, RowOK, Exists
<1>. QED  BY <1>2, <1>3, <1>4 DEF IInv, Init

LEMMA StepOK == IInv /\ [Next]_vars => IInv'
<1>. SUFFICES ASSUME IInv, [Next]_vars PROVE IInv'
  OBVIOUS
<1>1. ASSUME NEW s \in SessionIds, SignIn(s) PROVE IInv'
  BY <1>1, SignInStep
<1>2. ASSUME NEW s \in SessionIds, SignOut(s) PROVE IInv'
  BY <1>2, DeletedByHandStep DEF SignOut
<1>3. ASSUME NEW s \in SessionIds, NEW on \in BOOLEAN, ReportState(s, on) PROVE IInv'
  BY <1>3, ReportStateStep
<1>4. ASSUME NEW u \in Users, NEW b \in Businesses, OwnBusiness(u, b) PROVE IInv'
  BY <1>4, OwnBusinessStep
<1>5. ASSUME NEW q \in Requests, Serve(q) PROVE IInv'
  BY <1>5, VerifyTokenStep, WriteTokenStep, AnswerTokenStep, ReadSessionStep, DisconnectStep,
     FindOthersStep, DeleteOthersStep, ConnectStep, FailsStep DEF Serve
<1>6. ASSUME NEW q \in Requests, NEW s \in SessionIds, Ask(q, s) PROVE IInv'
  BY <1>6, RefreshStep, ReportBusinessesStep DEF Ask
<1>7. ASSUME NEW S \in SUBSET SessionIds, DeleteUserSessions(S) PROVE IInv'
  BY <1>7, DeletedByHandStep DEF DeleteUserSessions
<1>8. ASSUME NEW b \in Businesses, PushOrder(b) PROVE IInv'
  BY <1>8, PushStep DEF PushOrder
<1>9. CASE PushOpenApp
  <2>. PICK hours \in [Businesses -> {"disabled", "closed", "open"}] :
           Push({s \in Offline : "open" \in {hours[b] : b \in row[s].businesses}})
    BY <1>9 DEF PushOpenApp
  <2> DEFINE S == {s \in Offline : "open" \in {hours[b] : b \in row[s].businesses}}
  <2>1. S \in SUBSET SessionIds /\ \A s \in S : row[s].businesses # {}
    BY DEF Offline
  <2>. QED  BY <2>1, PushStep
<1>10. CASE UNCHANGED vars
  <2>1. TypeOK /\ TypeOK' /\ Persists
    BY <1>10 DEF IInv, TypeOK, Persists, Exists, vars, historyVars
  <2>2. ASSUME NEW p \in Requests PROVE RequestOK(p)'
    BY <1>10, <2>1, RequestPersists DEF IInv, vars
  <2>3. ASSUME NEW x \in SessionIds PROVE RowOK(x)'
    BY <1>10 DEF IInv, RowOK, Exists, vars, historyVars
  <2>4. ASSUME NEW x \in SessionIds, Exists(x)', x \notin unsure' PROVE TokenOK(x)'
    BY <1>10, <2>4, TokenKept, UnchangedKeeps DEF IInv, Exists, vars, historyVars
  <2>5. ASSUME NEW x \in SessionIds, Exists(x)', x \notin mixed' PROVE ReportOK(x)'
    BY <1>10, <2>5, ReportKept, UnchangedKeeps DEF IInv, Exists, vars, historyVars
  <2>. QED  BY <1>10, <2>1, <2>2, <2>3, <2>4, <2>5 DEF IInv, vars, historyVars
<1>. QED  BY <1>1, <1>2, <1>3, <1>4, <1>5, <1>6, <1>7, <1>8, <1>9, <1>10 DEF Next

\* The invariant of the steps of all requests at once.
THEOREM Inductive == Spec => []IInv
BY InitOK, StepOK, PTL DEF Spec

\* Rows, requests and histories keep their types, and a row or a request names a
\* session, a business or a device there is.
THEOREM TypeCorrect == Spec => []TypeOK
<1>1. IInv => TypeOK
  BY DEF IInv
<1>. QED  BY <1>1, Inductive, PTL

\* A device holds the token its row verifies, unless an answer was lost or two
\* refreshes overlapped (refreshTokens), for any number of requests at once.
THEOREM TokenHeldCorrect == Spec => []TokenHeld
<1>1. IInv => TokenHeld
  BY DEF IInv, TokenHeld, TokenOK
<1>. QED  BY <1>1, Inductive, PTL

\* A session follows the businesses it has last reported, whatever the other
\* sessions report meanwhile (setBusinessForSession, three writes without a
\* transaction).
THEOREM FollowsReportedCorrect == Spec => []FollowsReported
<1>1. \A s \in SessionIds : Idle(s, Reporting) => Idle(s, Emptied)
  BY DEF Idle, Reporting, Emptied
<1>2. IInv => FollowsReported
  BY <1>1 DEF IInv, FollowsReported, ReportOK
<1>. QED  BY <1>2, Inductive, PTL

\* A session follows businesses of its user alone, though they are checked long
\* before they are connected (setBusinessForSession).
THEOREM OwnedOnlyCorrect == Spec => []OwnedOnly
<1>1. IInv => OwnedOnly
  BY DEF IInv, OwnedOnly, RowOK
<1>. QED  BY <1>1, Inductive, PTL

\* A push has a device to go to (sendNewOrderNotification, sendPreorderNotification,
\* createOpenAppPushNotification).
THEOREM PushesAddressedCorrect == Spec => []PushesAddressed
<1>1. IInv => PushesAddressed
  BY DEF IInv, PushesAddressed
<1>. QED  BY <1>1, Inductive, PTL

\* A session goes by its own sign-out, by the CMS, or by the report of another
\* session for a device it has or had, with any number of devices
\* (setBusinessForSession, deleteSession, deleteUserSessions).
THEOREM GoesWhenEndedCorrect == Spec => []GoesWhenEnded
<1>1. IInv => GoesWhenEnded
  BY DEF IInv, GoesWhenEnded, RowOK
<1>. QED  BY <1>1, Inductive, PTL
=============================================================================
