--------------------------- MODULE Platform_proofs ---------------------------
(***************************************************************************)
(* Proofs about Platform: for every number of requests, users, sessions,   *)
(* wallets and pages.                                                      *)
(***************************************************************************)
EXTENDS Platform, TLAPS

-----------------------------------------------------------------------------
(* Accounts.  The invariant says of a login or a refresh that has passed    *)
(* its checks what the property says of the session that it will open.      *)

RowSet == [status : Statuses, password : Nat]

\* That NoUser is none of the users plays no part.
Anyone == Users \cup {NoUser}

SessionSet ==
  [user : Anyone, version : Nat, raced : BOOLEAN, revoked : BOOLEAN, expired : BOOLEAN]

Ops == {"none", "login", "refresh", "password", "register"}

Steps ==
  {"unused", "over", "create", "last_login", "revoke", "update", "revoke_all", "find_name",
   "insert"}

RequestSet ==
  [op : Ops, user : Anyone, token : Nat, step : Steps, version : Nat,
   raced : BOOLEAN]

AccountTypes ==
  /\ DOMAIN users \subseteq Anyone
  /\ users \in [DOMAIN users -> RowSet]
  /\ sessions \in Seq(SessionSet)
  /\ request \in [Requests -> RequestSet]

\* Nothing runs before the server is up, and the admin is inserted once.
Quiet ==
  /\ server # "up" => \A r \in Requests : request[r].step \in {"unused", "over"}
  /\ server = "insert" => Admin \notin DOMAIN users

UserSteps == {"revoke", "create", "update", "revoke_all"}

Known ==
  /\ \A t \in DOMAIN sessions : sessions[t].user \in DOMAIN users
  /\ \A r \in Requests : request[r].step \in UserSteps => request[r].user \in DOMAIN users

Excused(u, raced) == raced = TRUE \/ u \in cut \/ ChangeUnderWay(u)

SessionsExcused ==
  \A t \in DOMAIN sessions :
    sessions[t].revoked = FALSE /\ sessions[t].version # users[sessions[t].user].password =>
      Excused(sessions[t].user, sessions[t].raced)

RequestsExcused ==
  \A r \in Requests :
    /\ request[r].step \in {"revoke", "create"}
    /\ request[r].version # users[request[r].user].password
    => Excused(request[r].user, request[r].raced)

AccountInv == AccountTypes /\ Quiet /\ Known /\ SessionsExcused /\ RequestsExcused

LEMMA AccountInit == Init => AccountInv
<1> SUFFICES ASSUME Init PROVE AccountInv
  OBVIOUS
<1>1. \A r \in Requests : request[r] = Unused
  BY DEF Init
<1>2. Unused \in RequestSet /\ Unused.step = "unused"
  BY DEF Unused, Request, RequestSet, Ops, Steps, Anyone
<1>3. DOMAIN users \subseteq Anyone /\ users \in [DOMAIN users -> RowSet]
  BY AccountsAssumption DEF Init, RowSet, Anyone
<1>4. sessions \in Seq(SessionSet) /\ DOMAIN sessions = {}
  BY DEF Init
<1>5. request \in [Requests -> RequestSet]
  BY <1>2 DEF Init
<1> QED
  BY <1>1, <1>2, <1>3, <1>4, <1>5
  DEF Init, AccountTypes, AccountInv, Quiet, Known, SessionsExcused, RequestsExcused, UserSteps

\* A request that takes the step of another program counter: what the invariant needs to know
\* of it when the tables stay as they are.
LEMMA RequestMoves ==
  ASSUME AccountInv, UNCHANGED <<users, sessions>>,
         NEW r \in Requests, NEW q \in RequestSet,
         Now(r, q), server' = server, server = "up",
         \A u : u \in cut => u \in cut',
         request[r].step = "revoke_all" => request[r].user \in cut',
         q.step \in UserSteps => q.user \in DOMAIN users,
         q.step \in {"revoke", "create"} /\ q.version # users[q.user].password
           => q.raced = TRUE \/ q.user \in cut
              \/ \E p \in Requests : p # r /\ request[p].user = q.user /\ At(p, "revoke_all")
  PROVE  AccountInv'
<1>1. request' \in [Requests -> RequestSet] /\ request'[r] = q
      /\ \A p \in Requests : p # r => request'[p] = request[p]
  BY DEF Now, AccountInv, AccountTypes
<1>2. \A u : ChangeUnderWay(u) => ChangeUnderWay(u)' \/ u \in cut'
  BY <1>1 DEF ChangeUnderWay, At
<1>3. \A u, b : Excused(u, b) => Excused(u, b)'
  BY <1>2 DEF Excused
<1>4. AccountTypes' /\ Quiet' /\ Known'
  BY <1>1 DEF AccountInv, AccountTypes, Quiet, Known, UserSteps
<1>5. SessionsExcused'
  BY <1>3 DEF AccountInv, SessionsExcused
<1>6. RequestsExcused'
  <2> SUFFICES ASSUME NEW p \in Requests, request'[p].step \in {"revoke", "create"},
                      request'[p].version # users[request'[p].user].password
               PROVE  Excused(request[p].user, request[p].raced)'
    BY DEF RequestsExcused
  <2>1. CASE p = r
    <3>1. CASE q.raced = TRUE \/ q.user \in cut
      BY <2>1, <3>1, <1>1 DEF Excused
    <3>2. CASE \E o \in Requests : o # r /\ request[o].user = q.user /\ At(o, "revoke_all")
      BY <2>1, <3>2, <1>1 DEF Excused, ChangeUnderWay, At
    <3> QED
      BY <2>1, <3>1, <3>2, <1>1
  <2>2. CASE p # r
    BY <2>2, <1>1, <1>3 DEF AccountInv, RequestsExcused
  <2> QED
    BY <2>1, <2>2
<1> QED
  BY <1>4, <1>5, <1>6 DEF AccountInv

LEMMA Over_ == Over \in RequestSet /\ Over.step = "over"
BY DEF Over, Request, RequestSet, Ops, Steps, Anyone

\* More users may be excused and fewer sessions alive: what then suffices for a step that
\* changes no request.
LEMMA TablesMove ==
  ASSUME AccountInv, UNCHANGED <<request, cut>>,
         DOMAIN users \subseteq DOMAIN users', DOMAIN users' \subseteq Anyone,
         users' \in [DOMAIN users' -> RowSet],
         \A u \in DOMAIN users : users'[u].password = users[u].password,
         sessions' \in Seq(SessionSet), DOMAIN sessions' = DOMAIN sessions,
         \A t \in DOMAIN sessions :
           /\ sessions'[t].user = sessions[t].user
           /\ sessions'[t].version = sessions[t].version
           /\ sessions'[t].raced = sessions[t].raced
           /\ sessions'[t].revoked = FALSE => sessions[t].revoked = FALSE
  PROVE  AccountTypes' /\ Known' /\ SessionsExcused' /\ RequestsExcused'
<1>1. \A u, b : Excused(u, b) => Excused(u, b)'
  BY DEF Excused, ChangeUnderWay, At
<1>2. AccountTypes' /\ Known'
  BY DEF AccountInv, AccountTypes, Known, UserSteps
<1>3. SessionsExcused'
  BY <1>1 DEF AccountInv, SessionsExcused, Known
<1>4. RequestsExcused'
  BY <1>1 DEF AccountInv, RequestsExcused, Known, UserSteps
<1> QED
  BY <1>2, <1>3, <1>4

LEMMA StartKeeps == AccountInv /\ Start => AccountInv'
BY DEF AccountInv, Start, AccountTypes, Quiet, Known, SessionsExcused, RequestsExcused, Excused,
       ChangeUnderWay, At, UserSteps

LEMMA SeedAdminKeeps == AccountInv /\ SeedAdmin => AccountInv'
<1> SUFFICES ASSUME AccountInv, SeedAdmin PROVE AccountInv'
  OBVIOUS
<1> USE AccountsAssumption DEF Anyone
<1>1. CASE /\ server = "insert" /\ Insert(Admin) /\ server' = "activate"
           /\ UNCHANGED <<sessions, request, cut>>
  <2>1. /\ DOMAIN users' = DOMAIN users \cup {Admin}
        /\ users' \in [DOMAIN users' -> RowSet]
        /\ \A u \in DOMAIN users : users'[u] = users[u]
    BY <1>1 DEF Insert, AccountInv, AccountTypes, RowSet, Statuses, Quiet
  <2>2. Quiet'
    BY <1>1 DEF AccountInv, Quiet
  <2> QED
    BY <1>1, <2>1, <2>2, TablesMove DEF AccountInv, AccountTypes
<1>2. CASE /\ server = "activate" /\ SetStatusOf(Admin, "active") /\ server' = "up"
           /\ UNCHANGED <<sessions, request, cut>>
  <2>1. /\ DOMAIN users' = DOMAIN users /\ users' \in [DOMAIN users' -> RowSet]
        /\ \A u \in DOMAIN users : users'[u].password = users[u].password
    BY <1>2 DEF SetStatusOf, AccountInv, AccountTypes, RowSet, Statuses
  <2>2. Quiet'
    BY <1>2 DEF AccountInv, Quiet
  <2> QED
    BY <1>2, <2>1, <2>2, TablesMove DEF AccountInv, AccountTypes
<1> QED
  BY <1>1, <1>2 DEF SeedAdmin

LEMMA CrashKeeps == AccountInv /\ Crash => AccountInv'
<1> SUFFICES ASSUME AccountInv, Crash PROVE AccountInv'
  OBVIOUS
<1>1. \A r \in Requests : request'[r].step \in {"unused", "over"} /\ request'[r] \in RequestSet
  BY Over_ DEF Crash, AccountInv, AccountTypes, Unused, Request, RequestSet, Ops, Steps, Anyone
<1>2. request' \in [Requests -> RequestSet]
  BY <1>1 DEF Crash
<1>3. \A u, b : Excused(u, b) => Excused(u, b)'
  BY DEF Crash, Excused, ChangeUnderWay, At, CutBy
<1>4. SessionsExcused'
  BY <1>3 DEF Crash, AccountInv, SessionsExcused
<1> QED
  BY <1>1, <1>2, <1>4
  DEF Crash, AccountInv, AccountTypes, Quiet, Known, RequestsExcused, UserSteps

LEMMA ExpireKeeps == ASSUME AccountInv, NEW t \in DOMAIN sessions, Expire(t) PROVE AccountInv'
<1> DEFINE new == Session(sessions[t].user, sessions[t].version, sessions[t].raced,
                          sessions[t].revoked, TRUE)
<1>0. /\ sessions[t] \in SessionSet /\ sessions \in Seq(SessionSet)
      /\ sessions' = [sessions EXCEPT ![t] = new]
  BY DEF Expire, AccountInv, AccountTypes
<1>a. /\ new \in SessionSet /\ new.user = sessions[t].user /\ new.version = sessions[t].version
      /\ new.raced = sessions[t].raced /\ new.revoked = sessions[t].revoked
  BY <1>0 DEF Session, SessionSet
<1> HIDE DEF new
<1>1. /\ sessions' \in Seq(SessionSet) /\ DOMAIN sessions' = DOMAIN sessions
      /\ \A i \in DOMAIN sessions :
           /\ sessions'[i].user = sessions[i].user
           /\ sessions'[i].version = sessions[i].version
           /\ sessions'[i].raced = sessions[i].raced
           /\ sessions'[i].revoked = sessions[i].revoked
  BY <1>0, <1>a
<1>2. Quiet'
  BY DEF Expire, AccountInv, Quiet
<1> QED
  BY <1>1, <1>2, TablesMove DEF Expire, AccountInv, AccountTypes

-----------------------------------------------------------------------------
(* The steps of a request.                                                  *)

LEMMA RequestType ==
  ASSUME NEW op \in Ops, NEW u \in Anyone, NEW t \in Nat, NEW step \in Steps,
         NEW version \in Nat, NEW raced \in BOOLEAN
  PROVE  LET q == Request(op, u, t, step, version, raced) IN
         /\ q \in RequestSet
         /\ q.op = op /\ q.user = u /\ q.token = t /\ q.step = step /\ q.version = version
         /\ q.raced = raced
BY DEF Request, RequestSet, Anyone

LEMMA StepToType ==
  ASSUME NEW q \in RequestSet, NEW step \in Steps
  PROVE  LET n == StepTo(q, step) IN
         /\ n \in RequestSet
         /\ n.user = q.user /\ n.step = step /\ n.version = q.version /\ n.raced = q.raced
         /\ n.op = q.op /\ n.token = q.token
BY DEF StepTo, Request, RequestSet

LEMMA LoginKeeps ==
  ASSUME AccountInv, NEW r \in Requests, NEW u \in Users,
         Login(r, u) \/ ChangePassword(r, u) \/ Register(r, u)
  PROVE  AccountInv'
<1> USE AccountsAssumption DEF Fresh, Ops, Steps, UserSteps
<1>0. /\ server = "up" /\ server' = server /\ cut' = cut /\ UNCHANGED <<users, sessions>>
      /\ request[r].step = "unused"
  BY DEF Login, ChangePassword, Register
<1>1. CASE Login(r, u)
  <2>1. u \in DOMAIN users /\ users[u].password \in Nat
    BY <1>1 DEF Login, AccountInv, AccountTypes, RowSet
  <2> DEFINE q == Request("login", u, 0, "create", users[u].password, FALSE)
  <2>2. q \in RequestSet /\ q.user = u /\ q.step = "create" /\ q.version = users[u].password
    BY <2>1 DEF Request, RequestSet, Anyone
  <2>3. Now(r, q)
    BY <1>1 DEF Login
  <2> HIDE DEF q
  <2> QED
    BY <1>0, <2>1, <2>2, <2>3, RequestMoves
<1>2. CASE ChangePassword(r, u)
  <2>1. u \in DOMAIN users /\ users[u].password \in Nat
    BY <1>2 DEF ChangePassword, AccountInv, AccountTypes, RowSet
  <2> DEFINE q == Request("password", u, 0, "update", users[u].password, FALSE)
  <2>2. q \in RequestSet /\ q.user = u /\ q.step = "update"
    BY <2>1 DEF Request, RequestSet, Anyone
  <2>3. Now(r, q)
    BY <1>2 DEF ChangePassword
  <2> HIDE DEF q
  <2> QED
    BY <1>0, <2>1, <2>2, <2>3, RequestMoves
<1>3. CASE Register(r, u)
  <2> DEFINE q == Request("register", u, 0, "find_name", 0, FALSE)
  <2>2. q \in RequestSet /\ q.step = "find_name"
    BY DEF Request, RequestSet, Anyone
  <2>3. Now(r, q)
    BY <1>3 DEF Register
  <2> HIDE DEF q
  <2> QED
    BY <1>0, <2>2, <2>3, RequestMoves
<1> QED
  BY <1>1, <1>2, <1>3

\* The new request stands for the session that it found, which is alive.
LEMMA RefreshKeeps ==
  ASSUME AccountInv, NEW r \in Requests, NEW t \in DOMAIN sessions, Refresh(r, t)
  PROVE  AccountInv'
<1> DEFINE s == sessions[t]
           q == Request("refresh", s.user, t, "revoke", s.version, s.raced)
<1>0. /\ server = "up" /\ server' = server /\ cut' = cut /\ UNCHANGED <<users, sessions>>
      /\ request[r].step = "unused" /\ Now(r, q)
  BY DEF Refresh, Fresh
<1>1. s \in SessionSet /\ t \in Nat /\ s.user \in DOMAIN users
  BY DEF AccountInv, AccountTypes, Known
<1>2. s.user \in Anyone /\ s.version \in Nat /\ s.raced \in BOOLEAN
  BY <1>1 DEF SessionSet
<1>3. s.revoked = FALSE
  <2>1. s.revoked \in BOOLEAN
    BY <1>1 DEF SessionSet
  <2>2. ~s.revoked
    BY DEF Refresh, FindByToken, Live
  <2> QED
    BY <2>1, <2>2
<1>4. /\ q \in RequestSet /\ q.user = s.user /\ q.step = "revoke" /\ q.version = s.version
      /\ q.raced = s.raced
  <2>1. "refresh" \in Ops /\ "revoke" \in Steps
    BY DEF Ops, Steps
  <2>2. q = [op |-> "refresh", user |-> s.user, token |-> t, step |-> "revoke",
             version |-> s.version, raced |-> s.raced]
    BY DEF Request
  <2> HIDE DEF s, q
  <2> QED
    BY <1>1, <1>2, <2>1, <2>2 DEF RequestSet
<1>5. s.version # users[s.user].password => Excused(s.user, s.raced)
  BY <1>3 DEF AccountInv, SessionsExcused
<1> HIDE DEF q, s
<1>6. s.version # users[s.user].password =>
        s.raced = TRUE \/ s.user \in cut
        \/ \E p \in Requests : p # r /\ request[p].user = s.user /\ At(p, "revoke_all")
  BY <1>0, <1>5 DEF Excused, ChangeUnderWay, At
<1> QED
  BY <1>0, <1>1, <1>4, <1>6, RequestMoves

LEMMA QuietSteps ==
  ASSUME AccountInv, NEW r \in Requests, request[r].step \notin {"unused", "over"}
  PROVE  server = "up"
BY DEF AccountInv, Quiet

LEMMA EndingKeeps ==
  ASSUME AccountInv, NEW r \in Requests, SetLastLogin(r) \/ FindName(r) \/ Fail(r)
  PROVE  AccountInv'
<1>0. /\ server' = server /\ UNCHANGED <<users, sessions>>
      /\ request[r].step \notin {"unused", "over"} /\ request[r] \in RequestSet
      /\ \A u \in cut : u \in cut'
      /\ request[r].step = "revoke_all" => request[r].user \in cut'
  BY DEF SetLastLogin, FindName, Fail, At, CutBy, AccountInv, AccountTypes
<1>1. server = "up"
  BY <1>0, QuietSteps
<1>2. CASE Now(r, Over)
  BY <1>0, <1>1, <1>2, Over_, RequestMoves DEF UserSteps
<1>3. CASE GoTo(r, "insert")
  <2> DEFINE q == StepTo(request[r], "insert")
  <2>1. q \in RequestSet /\ q.step = "insert" /\ Now(r, q)
    BY <1>0, <1>3, StepToType DEF GoTo, Steps
  <2> HIDE DEF q
  <2> QED
    BY <1>0, <1>1, <2>1, RequestMoves DEF UserSteps
<1> QED
  BY <1>2, <1>3 DEF SetLastLogin, FindName, Fail

\* login and refresh: the new session is what the request stands for.
LEMMA CreateSessionKeeps ==
  ASSUME AccountInv, NEW r \in Requests, CreateSession(r)
  PROVE  AccountInv'
<1> DEFINE q == request[r]
           new == Session(q.user, q.version, q.raced, FALSE, FALSE)
           n == IF q.op = "login" THEN StepTo(q, "last_login") ELSE Over
           N == Len(sessions) + 1
<1>0. /\ server' = server /\ cut' = cut /\ users' = users
      /\ q.step = "create" /\ q \in RequestSet
      /\ sessions' = Append(sessions, new)
      /\ request' = [request EXCEPT ![r] = n]
  BY DEF CreateSession, At, Open, AccountInv, AccountTypes, GoTo, Now
<1>1. q.user \in DOMAIN users /\ q.user \in Anyone /\ server = "up"
  BY <1>0, QuietSteps DEF AccountInv, AccountTypes, Known, UserSteps
<1>2. /\ new \in SessionSet /\ new.user = q.user /\ new.version = q.version
      /\ new.raced = q.raced
  BY <1>0, <1>1 DEF Session, SessionSet, RequestSet
<1>3. n \in RequestSet /\ n.step \in {"last_login", "over"}
  BY <1>0, StepToType, Over_ DEF Steps
<1>4. q.version # users[q.user].password => Excused(q.user, q.raced)
  BY <1>0 DEF AccountInv, RequestsExcused
<1> HIDE DEF q, new, n
<1>5. /\ sessions \in Seq(SessionSet) /\ N \in Nat
      /\ sessions' \in Seq(SessionSet) /\ DOMAIN sessions' = DOMAIN sessions \cup {N}
      /\ \A t \in DOMAIN sessions : sessions'[t] = sessions[t]
      /\ sessions'[N] = new
  BY <1>0, <1>2 DEF AccountInv, AccountTypes
<1>6. request' \in [Requests -> RequestSet] /\ request'[r] = n
      /\ \A p \in Requests : p # r => request'[p] = request[p]
  BY <1>0, <1>3 DEF AccountInv, AccountTypes
<1>7. \A u, b : Excused(u, b) => Excused(u, b)'
  BY <1>0, <1>6 DEF Excused, ChangeUnderWay, At, q
<1> HIDE DEF N
<1>8. AccountTypes' /\ Quiet' /\ Known'
  BY <1>0, <1>1, <1>2, <1>3, <1>5, <1>6
  DEF AccountInv, AccountTypes, Quiet, Known, UserSteps
<1>9. SessionsExcused'
  BY <1>0, <1>2, <1>4, <1>5, <1>7 DEF AccountInv, SessionsExcused
<1>10. RequestsExcused'
  BY <1>0, <1>3, <1>6, <1>7 DEF AccountInv, RequestsExcused
<1> QED
  BY <1>8, <1>9, <1>10 DEF AccountInv

LEMMA RevokedType ==
  ASSUME NEW s \in SessionSet
  PROVE  /\ Revoked(s) \in SessionSet /\ Revoked(s).user = s.user
         /\ Revoked(s).version = s.version /\ Revoked(s).raced = s.raced
         /\ Revoked(s).revoked = TRUE
BY DEF Revoked, Session, SessionSet

\* The statements of a refresh that is under way and of a logout revoke one session.
LEMMA RevokeOneKeeps ==
  ASSUME AccountInv, NEW r \in Requests, NEW t \in Nat, NEW q \in RequestSet,
         server = "up", UNCHANGED <<server, users, cut>>, Now(r, q),
         request[r].step # "revoke_all",
         sessions' = [sessions EXCEPT ![t] = Revoked(@)],
         \/ q.step = "over"
         \/ /\ q.step = "create" /\ request[r].step = "revoke" /\ q.user = request[r].user
            /\ q.version = request[r].version /\ q.raced = request[r].raced
  PROVE  AccountInv'
<1>1. request' \in [Requests -> RequestSet] /\ request'[r] = q
      /\ \A p \in Requests : p # r => request'[p] = request[p]
  BY DEF Now, AccountInv, AccountTypes
<1>2. /\ sessions' \in Seq(SessionSet) /\ DOMAIN sessions' = DOMAIN sessions
      /\ \A i \in DOMAIN sessions :
           sessions'[i] = sessions[i] \/ sessions'[i] = Revoked(sessions[i])
  <2>1. sessions \in Seq(SessionSet)
    BY DEF AccountInv, AccountTypes
  <2> DEFINE new == Revoked(sessions[t])
  <2>2. t \in DOMAIN sessions => new \in SessionSet
    <3> SUFFICES ASSUME t \in DOMAIN sessions PROVE new \in SessionSet
      OBVIOUS
    <3>1. sessions[t] \in SessionSet
      BY <2>1
    <3> QED
      BY <3>1, RevokedType
  <2>3. sessions' = [sessions EXCEPT ![t] = new]
    OBVIOUS
  <2>4. \A i \in DOMAIN sessions :
          sessions'[i] = sessions[i] \/ sessions'[i] = Revoked(sessions[i])
    BY <2>3
  <2> HIDE DEF new
  <2>5. sessions' \in Seq(SessionSet) /\ DOMAIN sessions' = DOMAIN sessions
    <3>1. CASE t \in DOMAIN sessions
      BY <3>1, <2>1, <2>2, <2>3
    <3>2. CASE t \notin DOMAIN sessions
      <4>1. sessions = [i \in 1 .. Len(sessions) |-> sessions[i]]
        BY <2>1
      <4>2. sessions' = sessions
        BY <3>2, <4>1, <2>3
      <4> QED
        BY <4>2, <2>1
    <3> QED
      BY <3>1, <3>2
  <2> QED
    BY <2>4, <2>5
<1>3. \A u, b : Excused(u, b) => Excused(u, b)'
  BY <1>1 DEF Excused, ChangeUnderWay, At
<1>4. \A i \in DOMAIN sessions :
        /\ sessions'[i].user = sessions[i].user /\ sessions'[i].version = sessions[i].version
        /\ sessions'[i].raced = sessions[i].raced
        /\ sessions'[i].revoked = FALSE => sessions[i].revoked = FALSE
  <2> SUFFICES ASSUME NEW i \in DOMAIN sessions
               PROVE  /\ sessions'[i].user = sessions[i].user
                      /\ sessions'[i].version = sessions[i].version
                      /\ sessions'[i].raced = sessions[i].raced
                      /\ sessions'[i].revoked = FALSE => sessions[i].revoked = FALSE
    OBVIOUS
  <2>1. sessions[i] \in SessionSet
    BY DEF AccountInv, AccountTypes
  <2>2. CASE sessions'[i] = sessions[i]
    BY <2>2
  <2>3. CASE sessions'[i] = Revoked(sessions[i])
    <3>1. /\ Revoked(sessions[i]).user = sessions[i].user
          /\ Revoked(sessions[i]).version = sessions[i].version
          /\ Revoked(sessions[i]).raced = sessions[i].raced
          /\ Revoked(sessions[i]).revoked = TRUE
      BY <2>1, RevokedType, Zenon
    <3> QED
      BY <2>3, <3>1, Zenon
  <2> QED
    BY <1>2, <2>2, <2>3
<1>5. AccountTypes' /\ Quiet' /\ Known'
  BY <1>1, <1>2, <1>4 DEF AccountInv, AccountTypes, Quiet, Known, UserSteps
<1>6. SessionsExcused'
  BY <1>2, <1>3, <1>4 DEF AccountInv, SessionsExcused
<1>7. RequestsExcused'
  BY <1>1, <1>3 DEF AccountInv, RequestsExcused
<1> QED
  BY <1>5, <1>6, <1>7 DEF AccountInv

LEMMA RotateKeeps ==
  ASSUME AccountInv, NEW r \in Requests, Rotate(r)
  PROVE  AccountInv'
<1> DEFINE q == StepTo(request[r], "create")
<1>1. request[r] \in RequestSet /\ request[r].step = "revoke" /\ request[r].token \in Nat
  BY DEF Rotate, At, AccountInv, AccountTypes, RequestSet
<1>2. /\ q \in RequestSet /\ q.step = "create" /\ q.user = request[r].user
      /\ q.version = request[r].version /\ q.raced = request[r].raced
  BY <1>1, StepToType DEF Steps
<1>3. Now(r, q) /\ UNCHANGED <<server, users, cut>> /\ server = "up"
      /\ sessions' = [sessions EXCEPT ![request[r].token] = Revoked(@)]
  BY <1>1, QuietSteps DEF Rotate, GoTo
<1> HIDE DEF q
<1> QED
  BY <1>1, <1>2, <1>3, RevokeOneKeeps

LEMMA LogoutKeeps ==
  ASSUME AccountInv, NEW r \in Requests, NEW t \in DOMAIN sessions, Logout(r, t)
  PROVE  AccountInv'
<1>1. t \in Nat
  BY DEF AccountInv, AccountTypes
<1> QED
  BY <1>1, Over_, RevokeOneKeeps DEF Logout, Fresh

\* From here on the change is under way, which excuses every session of the user.
LEMMA UpdatePasswordKeeps ==
  ASSUME AccountInv, NEW r \in Requests, UpdatePassword(r)
  PROVE  AccountInv'
<1> DEFINE q == StepTo(request[r], "revoke_all")
           u == request[r].user
           row == [status |-> users[u].status, password |-> users[u].password + 1]
<1>0. /\ request[r] \in RequestSet /\ request[r].step = "update" /\ u \in DOMAIN users
      /\ Now(r, q) /\ UNCHANGED <<server, sessions, cut>>
      /\ users' = [users EXCEPT ![u] = row]
  BY DEF UpdatePassword, At, AccountInv, AccountTypes, Known, UserSteps, GoTo
<1>1. server = "up"
  BY <1>0, QuietSteps
<1>2. row \in RowSet
  BY <1>0 DEF AccountInv, AccountTypes, RowSet
<1>3. q \in RequestSet /\ q.user = u /\ q.step = "revoke_all"
  BY <1>0, StepToType DEF Steps
<1> HIDE DEF q, row, u
<1>4. request' \in [Requests -> RequestSet] /\ request'[r] = q
      /\ \A p \in Requests : p # r => request'[p] = request[p]
  BY <1>0, <1>3 DEF Now, AccountInv, AccountTypes
<1>5. /\ DOMAIN users' = DOMAIN users /\ users' \in [DOMAIN users' -> RowSet]
      /\ \A v \in DOMAIN users : v # u => users'[v] = users[v]
  BY <1>0, <1>2 DEF AccountInv, AccountTypes
<1>6. \A v, b : v = u => Excused(v, b)'
  BY <1>3, <1>4 DEF Excused, ChangeUnderWay, At
<1>7. \A v, b : Excused(v, b) => Excused(v, b)'
  BY <1>0, <1>4 DEF Excused, ChangeUnderWay, At
<1>8. AccountTypes' /\ Quiet' /\ Known'
  BY <1>0, <1>1, <1>3, <1>4, <1>5 DEF AccountInv, AccountTypes, Quiet, Known, UserSteps
<1>9. SessionsExcused'
  BY <1>0, <1>5, <1>6, <1>7 DEF AccountInv, SessionsExcused, Known
<1>10. RequestsExcused'
  BY <1>3, <1>4, <1>5, <1>6, <1>7 DEF AccountInv, RequestsExcused, Known, UserSteps
<1> QED
  BY <1>8, <1>9, <1>10 DEF AccountInv

LEMMA RacedType ==
  ASSUME NEW q \in RequestSet
  PROVE  /\ Raced(q) \in RequestSet /\ Raced(q).user = q.user /\ Raced(q).step = q.step
         /\ Raced(q).version = q.version /\ Raced(q).raced = TRUE
BY DEF Raced, Request, RequestSet

\* No session of the user stays alive, and what is about to open one is marked.
LEMMA RevokeAllKeeps ==
  ASSUME AccountInv, NEW r \in Requests, RevokeAll(r)
  PROVE  AccountInv'
<1> DEFINE u == request[r].user
<1>0. /\ request[r].step = "revoke_all" /\ UNCHANGED <<server, users>> /\ cut' = cut \ {u}
      /\ sessions' = [t \in DOMAIN sessions |->
                        IF sessions[t].user = u THEN Revoked(sessions[t]) ELSE sessions[t]]
      /\ request' = [q \in Requests |->
                       IF q = r THEN Over
                       ELSE IF Racing(request[q], u) THEN Raced(request[q]) ELSE request[q]]
  BY DEF RevokeAll, At
<1>1. server = "up"
  BY <1>0, QuietSteps
<1>2. \A t \in DOMAIN sessions : sessions[t] \in SessionSet
  BY DEF AccountInv, AccountTypes
<1>3. \A p \in Requests : request[p] \in RequestSet
  BY DEF AccountInv, AccountTypes
<1> HIDE DEF u
<1>4. /\ sessions' \in Seq(SessionSet) /\ DOMAIN sessions' = DOMAIN sessions
      /\ \A t \in DOMAIN sessions :
           /\ sessions'[t].user = sessions[t].user
           /\ sessions[t].user = u => sessions'[t].revoked = TRUE
           /\ sessions[t].user # u => sessions'[t] = sessions[t]
  <2>1. \A t \in DOMAIN sessions : sessions'[t] \in SessionSet
    BY <1>0, <1>2, RevokedType
  <2>2. sessions \in Seq(SessionSet) /\ DOMAIN sessions = 1 .. Len(sessions)
    BY DEF AccountInv, AccountTypes
  <2>3. sessions' \in Seq(SessionSet) /\ DOMAIN sessions' = DOMAIN sessions
    BY <1>0, <2>1, <2>2
  <2> QED
    BY <1>0, <1>2, <2>3, RevokedType
<1>5. /\ request' \in [Requests -> RequestSet] /\ request'[r] = Over
      /\ \A p \in Requests : p # r =>
           /\ request'[p].user = request[p].user /\ request'[p].step = request[p].step
           /\ request'[p].version = request[p].version
           /\ request'[p].raced = TRUE \/ request'[p].raced = request[p].raced
           /\ request[p].user = u /\ request[p].step \in {"revoke", "create"}
                => request'[p].raced = TRUE
  <2>1. \A p \in Requests : request'[p] \in RequestSet
    BY <1>0, <1>3, RacedType, Over_
  <2> QED
    BY <1>0, <1>3, <2>1, RacedType DEF Racing
<1>6. \A v, b : v # u /\ Excused(v, b) => Excused(v, b)'
  BY <1>0, <1>5 DEF Excused, ChangeUnderWay, At, u
<1>7. AccountTypes' /\ Quiet' /\ Known'
  BY <1>0, <1>1, <1>4, <1>5, Over_ DEF AccountInv, AccountTypes, Quiet, Known, UserSteps
<1>8. SessionsExcused'
  BY <1>0, <1>4, <1>6 DEF AccountInv, SessionsExcused
<1>9. RequestsExcused'
  <2> SUFFICES ASSUME NEW p \in Requests, request'[p].step \in {"revoke", "create"},
                      request'[p].version # users[request'[p].user].password
               PROVE  request'[p].raced = TRUE \/ Excused(request[p].user, request[p].raced)'
    BY <1>0, <1>5, Over_ DEF RequestsExcused, Excused
  <2>1. p # r
    BY <1>5, Over_
  <2>2. CASE request[p].user = u
    BY <1>5, <2>1, <2>2
  <2>3. CASE request[p].user # u
    BY <1>0, <1>5, <1>6, <2>1, <2>3 DEF AccountInv, RequestsExcused
  <2> QED
    BY <2>2, <2>3
<1> QED
  BY <1>7, <1>8, <1>9 DEF AccountInv

\* What is inserted is a user that was not there.
LEMMA InsertUserKeeps ==
  ASSUME AccountInv, NEW r \in Requests, InsertUser(r)
  PROVE  AccountInv'
<1> DEFINE u == request[r].user
<1>0. /\ request[r].step = "insert" /\ Now(r, Over) /\ UNCHANGED <<server, sessions, cut>>
      /\ request[r] \in RequestSet
  BY DEF InsertUser, At, AccountInv, AccountTypes
<1>1. server = "up"
  BY <1>0, QuietSteps
<1>2. CASE UNCHANGED users
  BY <1>0, <1>1, <1>2, Over_, RequestMoves DEF UserSteps
<1>3. CASE u \notin DOMAIN users /\ Insert(u)
  <2>1. /\ DOMAIN users' = DOMAIN users \cup {u} /\ u \in Anyone
        /\ users' \in [DOMAIN users' -> RowSet]
        /\ \A v \in DOMAIN users : users'[v] = users[v]
    BY <1>0, <1>3 DEF Insert, AccountInv, AccountTypes, RowSet, RequestSet, Statuses
  <2> HIDE DEF u
  <2>2. request' \in [Requests -> RequestSet] /\ request'[r] = Over
        /\ \A p \in Requests : p # r => request'[p] = request[p]
    BY <1>0, Over_ DEF Now, AccountInv, AccountTypes
  <2>3. \A v, b : Excused(v, b) => Excused(v, b)'
    BY <1>0, <2>2 DEF Excused, ChangeUnderWay, At
  <2>4. AccountTypes' /\ Quiet' /\ Known'
    BY <1>0, <1>1, <2>1, <2>2, Over_ DEF AccountInv, AccountTypes, Quiet, Known, UserSteps
  <2>5. SessionsExcused'
    BY <1>0, <2>1, <2>3 DEF AccountInv, SessionsExcused, Known
  <2>6. RequestsExcused'
    BY <2>1, <2>2, <2>3, Over_ DEF AccountInv, RequestsExcused, Known, UserSteps
  <2> QED
    BY <2>4, <2>5, <2>6 DEF AccountInv
<1> QED
  BY <1>2, <1>3 DEF InsertUser

LEMMA SetStatusKeeps ==
  ASSUME AccountInv, NEW r \in Requests, NEW u \in Users, NEW s \in Statuses, SetStatus(r, u, s)
  PROVE  AccountInv'
<1>0. /\ request[r].step = "unused" /\ Now(r, Over) /\ UNCHANGED <<server, sessions, cut>>
      /\ SetStatusOf(u, s) /\ server = "up"
  BY DEF SetStatus, Fresh
<1>1. /\ DOMAIN users' = DOMAIN users /\ users' \in [DOMAIN users' -> RowSet]
      /\ \A v \in DOMAIN users : users'[v].password = users[v].password
  BY <1>0 DEF SetStatusOf, AccountInv, AccountTypes, RowSet
<1>2. request' \in [Requests -> RequestSet] /\ request'[r] = Over
      /\ \A p \in Requests : p # r => request'[p] = request[p]
  BY <1>0, Over_ DEF Now, AccountInv, AccountTypes
<1>3. \A v, b : Excused(v, b) => Excused(v, b)'
  BY <1>0, <1>2 DEF Excused, ChangeUnderWay, At
<1>4. AccountTypes' /\ Quiet' /\ Known'
  BY <1>0, <1>1, <1>2, Over_ DEF AccountInv, AccountTypes, Quiet, Known, UserSteps
<1>5. SessionsExcused'
  BY <1>0, <1>1, <1>3 DEF AccountInv, SessionsExcused, Known
<1>6. RequestsExcused'
  BY <1>1, <1>2, <1>3, Over_ DEF AccountInv, RequestsExcused, Known, UserSteps
<1> QED
  BY <1>4, <1>5, <1>6 DEF AccountInv

LEMMA AccountStep == AccountInv /\ [Next]_vars => AccountInv'
<1> SUFFICES ASSUME AccountInv, [Next]_vars PROVE AccountInv'
  OBVIOUS
<1>1. CASE UNCHANGED vars
  BY <1>1 DEF vars, AccountInv, AccountTypes, Quiet, Known, SessionsExcused, RequestsExcused,
              Excused, ChangeUnderWay, At
<1>2. CASE Start \/ SeedAdmin \/ Crash
  BY <1>2, StartKeeps, SeedAdminKeeps, CrashKeeps
<1>3. CASE \E t \in DOMAIN sessions : Expire(t)
  BY <1>3, ExpireKeeps
<1>4. ASSUME NEW r \in Requests, Statement(r) PROVE AccountInv'
  BY <1>4, CreateSessionKeeps, EndingKeeps, RotateKeeps, UpdatePasswordKeeps, RevokeAllKeeps,
     InsertUserKeeps DEF Statement
<1>5. ASSUME NEW r \in Requests, NEW u \in Users,
             Login(r, u) \/ ChangePassword(r, u) \/ Register(r, u)
      PROVE  AccountInv'
  BY <1>5, LoginKeeps
<1>6. ASSUME NEW r \in Requests, NEW t \in DOMAIN sessions, Refresh(r, t) \/ Logout(r, t)
      PROVE  AccountInv'
  BY <1>6, RefreshKeeps, LogoutKeeps
<1>7. ASSUME NEW r \in Requests, NEW u \in Users, NEW s \in Statuses, SetStatus(r, u, s)
      PROVE  AccountInv'
  BY <1>7, SetStatusKeeps
<1> QED
  BY <1>1, <1>2, <1>3, <1>4, <1>5, <1>6, <1>7 DEF Next

LEMMA AccountsImply == AccountInv => PasswordChangeClosesSessions
<1> SUFFICES ASSUME AccountInv, NEW t \in DOMAIN sessions, Live(sessions[t]),
                    sessions[t].version # users[sessions[t].user].password
             PROVE  \/ sessions[t].raced \/ sessions[t].user \in cut
                    \/ ChangeUnderWay(sessions[t].user)
  BY DEF PasswordChangeClosesSessions
<1>1. sessions[t] \in SessionSet
  BY DEF AccountInv, AccountTypes
<1>2. sessions[t].revoked = FALSE
  BY <1>1 DEF Live, SessionSet
<1> QED
  BY <1>2 DEF AccountInv, SessionsExcused, Excused

\* For any number of users, sessions, requests and crashes: a password change closes the
\* sessions of its user, but for the races and the cuts that the property names.
THEOREM PasswordChangeCloses == PlatformSpec => []PasswordChangeClosesSessions
<1>1. PlatformInit => AccountInv
  BY AccountInit DEF PlatformInit
<1>2. AccountInv /\ [PlatformNext]_platformVars => AccountInv'
  BY AccountStep DEF PlatformNext, platformVars, accountVars, vars
<1> QED
  BY <1>1, <1>2, AccountsImply, PTL DEF PlatformSpec

-----------------------------------------------------------------------------
(* Records.  Only wallets are active, a row is inserted once, and a delete  *)
(* under way found its wallet inactive.                                     *)

RecordInv ==
  /\ table \in Rec!Tables
  /\ DOMAIN rows \subseteq born
  /\ table # "wallets" => \A i \in DOMAIN rows : rows[i].active = FALSE
  /\ DOMAIN rowRequest = Requests
  /\ \A r \in Requests : rowRequest[r].step = "write" =>
       /\ rowRequest[r].op = "delete" => rowRequest[r].seen = FALSE
       /\ rowRequest[r].op = "activate" => table = "wallets"

LEMMA RecordInit == Rec!Init => RecordInv
BY DEF Rec!Init, Rec!Row, Rec!Unused, Rec!Request, RecordInv, Rec!Tables

LEMMA InsertRowActive ==
  ASSUME NEW i, i \notin DOMAIN rows, NEW s, Rec!InsertRow(i, s)
  PROVE  /\ DOMAIN rows' = DOMAIN rows \cup {i} /\ born' = born \cup {i}
         /\ rows'[i].active = FALSE
         /\ \A j \in DOMAIN rows : rows'[j] = rows[j]
BY DEF Rec!InsertRow, Rec!Row

LEMMA UpdateActive ==
  ASSUME NEW r \in Requests, Rec!Update(r)
  PROVE  /\ DOMAIN rows' = DOMAIN rows
         /\ \A j \in DOMAIN rows : rows'[j].active = rows[j].active
BY DEF Rec!Update, Rec!Row

LEMMA ActivateActive ==
  ASSUME NEW r \in Requests, Rec!Activate(r)
  PROVE  LET i == rowRequest[r].id IN
         /\ DOMAIN rows' = DOMAIN rows
         /\ \A j \in DOMAIN rows :
              /\ j = i => rows'[j].active = TRUE
              /\ j # i /\ Owner[j] # Owner[i] => rows'[j] = rows[j]
BY DEF Rec!Activate, Rec!Activated, Rec!Deactivated, Rec!Row

LEMMA BeginWrites ==
  ASSUME RecordInv, NEW r \in Requests, NEW op, NEW status, NEW i, Rec!Begin(r, op, status, i)
  PROVE  /\ UNCHANGED <<table, rows, born>>
         /\ DOMAIN rowRequest' = Requests
         /\ \A p \in Requests : p # r => rowRequest'[p] = rowRequest[p]
         /\ rowRequest'[r].op = "delete" => rowRequest'[r].seen = FALSE
         /\ rowRequest'[r].op = "activate" => table = "wallets"
<1> DEFINE seen == Rec!Exists(i) /\ rows[i].active
           q == Rec!Request(op, status, i, "write", seen)
<1>1. q.op = op /\ q.seen = seen
  BY DEF Rec!Request
<1>2. /\ UNCHANGED <<table, rows, born>>
      /\ rowRequest' = [rowRequest EXCEPT ![r] = q]
  BY DEF Rec!Begin, Rec!Now
<1>3. op = "activate" => table = "wallets"
  BY DEF Rec!Begin, Rec!Operations, Rec!Sets, RecordInv, Rec!Tables
<1>4. op = "delete" => seen = FALSE
  <2> SUFFICES ASSUME op = "delete" PROVE ~seen
    OBVIOUS
  <2>1. CASE table = "wallets"
    BY <2>1 DEF Rec!Begin, Rec!Owned, Rec!Check
  <2>2. CASE table # "wallets"
    BY <2>2 DEF Rec!Exists, RecordInv
  <2> QED
    BY <2>1, <2>2
<1> HIDE DEF q, seen
<1> QED
  BY <1>1, <1>2, <1>3, <1>4 DEF RecordInv

LEMMA RecordStep == RecordInv /\ [Rec!Next]_recordVars => RecordInv'
<1> SUFFICES ASSUME RecordInv, [Rec!Next]_recordVars PROVE RecordInv'
  OBVIOUS
<1>1. CASE UNCHANGED recordVars
  BY <1>1 DEF recordVars, RecordInv
<1>2. ASSUME NEW i \in Ids, Rec!Report(i) PROVE RecordInv'
  <2>1. i \notin DOMAIN rows /\ UNCHANGED <<table, rowRequest>>
    BY <1>2 DEF Rec!Report, RecordInv
  <2>2. Rec!InsertRow(i, Rec!FirstStatus[table])
    BY <1>2 DEF Rec!Report
  <2>3. /\ DOMAIN rows' = DOMAIN rows \cup {i} /\ born' = born \cup {i}
        /\ rows'[i].active = FALSE
        /\ \A j \in DOMAIN rows : rows'[j] = rows[j]
    BY <2>1, <2>2, InsertRowActive
  <2> QED
    BY <2>1, <2>3 DEF RecordInv
<1>3. ASSUME NEW r \in Requests,
             \/ Rec!Insert(r) \/ Rec!Update(r) \/ Rec!Delete(r) \/ Rec!Activate(r) \/ Rec!Fail(r)
      PROVE  RecordInv'
  <2>1. table' = table /\ rowRequest' = [rowRequest EXCEPT ![r] = Rec!Over]
    BY <1>3 DEF Rec!Insert, Rec!Update, Rec!Delete, Rec!Activate, Rec!Fail, Rec!Now
  <2>2. /\ DOMAIN rowRequest' = Requests
        /\ \A p \in Requests : rowRequest'[p].step = "write" => rowRequest'[p] = rowRequest[p]
    BY <2>1 DEF Rec!Over, Rec!Request, RecordInv
  <2>3. /\ DOMAIN rows' \subseteq born'
        /\ table # "wallets" => \A i \in DOMAIN rows' : rows'[i].active = FALSE
    <3>1. CASE Rec!Insert(r)
      <4> DEFINE i == rowRequest[r].id
      <4>1. CASE UNCHANGED <<rows, born>>
        BY <4>1 DEF RecordInv
      <4>2. CASE Rec!InsertRow(i, rowRequest[r].status) /\ i \notin DOMAIN rows
        <5>1. /\ DOMAIN rows' = DOMAIN rows \cup {i} /\ born' = born \cup {i}
              /\ rows'[i].active = FALSE
              /\ \A j \in DOMAIN rows : rows'[j] = rows[j]
          BY <4>2, InsertRowActive
        <5> QED
          BY <5>1 DEF RecordInv
      <4> QED
        BY <3>1, <4>1, <4>2 DEF Rec!Insert, RecordInv
    <3>2. CASE Rec!Update(r)
      BY <3>2, UpdateActive DEF Rec!Update, RecordInv
    <3>3. CASE Rec!Delete(r)
      BY <3>3 DEF Rec!Delete, RecordInv
    <3>4. CASE Rec!Activate(r)
      BY <3>4, ActivateActive DEF Rec!Activate, Rec!At, RecordInv
    <3>5. CASE Rec!Fail(r)
      BY <3>5 DEF Rec!Fail, RecordInv
    <3> QED
      BY <1>3, <3>1, <3>2, <3>3, <3>4, <3>5
  <2> QED
    BY <2>1, <2>2, <2>3 DEF RecordInv
<1>4. ASSUME NEW r \in Requests, NEW i \in Ids, Rec!Create(r, i) PROVE RecordInv'
  BY <1>4 DEF Rec!Create, Rec!Now, Rec!Request, RecordInv
<1>5. ASSUME NEW r \in Requests, NEW i \in Ids, NEW op, NEW status, Rec!Begin(r, op, status, i)
      PROVE  RecordInv'
  BY <1>5, BeginWrites DEF RecordInv
<1> QED
  BY <1>1, <1>2, <1>3, <1>4, <1>5 DEF Rec!Next

LostInRaceOnly ==
  \A u \in {Owner[i] : i \in Ids} :
    Rec!HasActive(u) /\ ~Rec!HasActive(u)' =>
      \E r \in Requests : Rec!Outrun(r) /\ rowRequest'[r] = Rec!Over

LEMMA RecordsImply == RecordInv /\ [Rec!Next]_recordVars => LostInRaceOnly \/ UNCHANGED recordVars
<1> SUFFICES ASSUME RecordInv, Rec!Next, NEW u,
                    Rec!HasActive(u), ~Rec!HasActive(u)'
             PROVE  \E r \in Requests : Rec!Outrun(r) /\ rowRequest'[r] = Rec!Over
  BY DEF LostInRaceOnly
<1>1. PICK w \in DOMAIN rows : Owner[w] = u /\ rows[w].active
  BY DEF Rec!HasActive
<1>2. \A i \in DOMAIN rows' : Owner[i] = u => ~rows'[i].active
  BY DEF Rec!HasActive
<1>3. w \in DOMAIN rows' => rows'[w].active # rows[w].active
  BY <1>1, <1>2
<1>4. ASSUME NEW i \in Ids, Rec!Report(i) PROVE FALSE
  BY <1>1, <1>3, <1>4, InsertRowActive DEF Rec!Report, RecordInv
<1>5. ASSUME NEW r \in Requests, Rec!Insert(r) PROVE FALSE
  BY <1>1, <1>3, <1>5, InsertRowActive DEF Rec!Insert, RecordInv
<1>6. ASSUME NEW r \in Requests, Rec!Update(r) PROVE FALSE
  BY <1>1, <1>3, <1>6, UpdateActive
<1>7. ASSUME NEW r \in Requests, Rec!Fail(r) PROVE FALSE
  BY <1>1, <1>3, <1>7 DEF Rec!Fail
<1>8. ASSUME NEW r \in Requests, NEW i \in Ids,
             Rec!Create(r, i) \/ \E op, status : Rec!Begin(r, op, status, i)
      PROVE  FALSE
  BY <1>1, <1>3, <1>8 DEF Rec!Create, Rec!Begin
<1>9. ASSUME NEW r \in Requests, Rec!Delete(r)
      PROVE  Rec!Outrun(r) /\ rowRequest'[r] = Rec!Over
  BY <1>9 DEF Rec!Delete, Rec!At, Rec!Outrun, Rec!Now, RecordInv
<1>10. ASSUME NEW r \in Requests, Rec!Activate(r)
       PROVE  Rec!Outrun(r) /\ rowRequest'[r] = Rec!Over
  <2>1. rowRequest'[r] = Rec!Over /\ Rec!At(r, "write") /\ rowRequest[r].op = "activate"
    BY <1>10 DEF Rec!Activate, Rec!Now, RecordInv
  <2>2. Owner[w] = Owner[rowRequest[r].id]
    BY <1>1, <1>3, <1>10, ActivateActive
  <2>3. rowRequest[r].id \notin DOMAIN rows
    BY <1>1, <1>2, <1>10, <2>2, ActivateActive
  <2> QED
    BY <2>1, <2>3 DEF Rec!Outrun, Rec!Exists
<1> QED
  BY <1>4, <1>5, <1>6, <1>7, <1>8, <1>9, <1>10 DEF Rec!Next

\* For any number of requests, owners and wallets: an owner loses the active wallet only
\* where a delete and an activation of it pass each other.
THEOREM ActiveWalletKept == PlatformSpec => ActiveWalletLostInRaceOnly
<1>1. PlatformInit => RecordInv
  BY RecordInit DEF PlatformInit
<1>2. RecordInv /\ [PlatformNext]_platformVars => RecordInv'
  BY RecordStep DEF PlatformNext, platformVars, recordVars
<1>3. RecordInv /\ [PlatformNext]_platformVars => LostInRaceOnly \/ UNCHANGED recordVars
  BY RecordsImply DEF PlatformNext, platformVars, recordVars
<1>4. RecordInv /\ [PlatformNext]_platformVars => [LostInRaceOnly]_Rec!vars
  BY <1>3 DEF recordVars, Rec!vars
<1> QED
  BY <1>1, <1>2, <1>4, PTL
  DEF PlatformSpec, ActiveWalletLostInRaceOnly, Rec!ActiveWalletLostInRaceOnly, LostInRaceOnly

-----------------------------------------------------------------------------
(* Console.  A page that is connected shows the last status it has read,    *)
(* and what the last writer of the switch has announced is the switch.      *)

IsStatus(i) == events[i].type = "bot_status"

PageShows(c) ==
  \A i \in (client[c].since + 1) .. client[c].read :
    IsStatus(i) /\ (\A j \in (client[c].since + 1) .. client[c].read : IsStatus(j) => j <= i) =>
      client[c].badge = Con!Badge(events[i].running)

PageReads(c) ==
  /\ client[c].since \in Nat /\ client[c].read \in Nat
  /\ client[c].since <= client[c].read /\ client[c].read <= Len(events)
  /\ PageShows(c)

EventSet == [type : {"bot_status", "circuit_breaker"}, running : BOOLEAN, by : Requests]

ConsoleTypes ==
  /\ events \in Seq(EventSet)
  /\ DOMAIN client = Clients /\ DOMAIN command = Requests

ConsoleInv ==
  /\ ConsoleTypes
  /\ \A c \in Clients : client[c].link = "open" => PageReads(c)
  /\ \A i \in DOMAIN events :
       /\ events[i].by \in Requests /\ command[events[i].by][2] = "over"
       /\ IsStatus(i) /\ events[i].by = writer => Con!Badge(events[i].running) = Con!Badge(switch)
  /\ \A r \in Requests :
       command[r][2] = "broadcast" /\ writer = r /\ command[r][1] # "emergency_stop" =>
         Con!Badge(command[r][1] = "start") = Con!Badge(switch)

LEMMA ConsoleInit == Con!Init => ConsoleInv
<1> SUFFICES ASSUME Con!Init PROVE ConsoleInv
  OBVIOUS
<1>1. events \in Seq(EventSet) /\ DOMAIN events = {}
  BY DEF Con!Init
<1>2. \A c \in Clients : client[c].link = "closed"
  BY DEF Con!Init, Con!Client
<1>3. \A r \in Requests : command[r][2] = "unused"
  BY DEF Con!Init
<1> QED
  BY <1>1, <1>2, <1>3 DEF Con!Init, ConsoleInv, ConsoleTypes

\* A request writes the switch: nobody has announced it yet.
LEMMA WriteKeeps ==
  ASSUME ConsoleInv, NEW r \in Requests, NEW op, NEW step, NEW on \in BOOLEAN,
         command[r][2] = "unused", Con!SetSwitch(r, on), Con!Now(r, op, step),
         UNCHANGED <<events, client>>,
         step = "broadcast" => on = (op = "start")
  PROVE  ConsoleInv'
<1>1. /\ DOMAIN command' = Requests /\ command'[r] = <<op, step>>
      /\ \A p \in Requests : p # r => command'[p] = command[p]
  BY DEF Con!Now, ConsoleInv, ConsoleTypes
<1>2. writer' = r /\ switch' = on
  BY DEF Con!SetSwitch
<1>3. \A i \in DOMAIN events : events[i].by # r
  BY DEF ConsoleInv
<1>4. step = "broadcast" => Con!Badge(op = "start") = Con!Badge(on)
  BY DEF Con!Badge
<1>5. \A c \in Clients : PageReads(c) => PageReads(c)'
  BY DEF PageReads, PageShows, IsStatus
<1> QED
  BY <1>1, <1>2, <1>3, <1>4, <1>5 DEF ConsoleInv, ConsoleTypes, IsStatus

\* A request moves on and changes nothing that anyone sees.
LEMMA MoveKeeps ==
  ASSUME ConsoleInv, NEW r \in Requests, NEW op, Con!Now(r, op, "over"),
         UNCHANGED <<switch, writer, events, client>>
  PROVE  ConsoleInv'
<1>1. /\ DOMAIN command' = Requests /\ command'[r] = <<op, "over">>
      /\ \A p \in Requests : p # r => command'[p] = command[p]
  BY DEF Con!Now, ConsoleInv, ConsoleTypes
<1>2. \A c \in Clients : PageReads(c) => PageReads(c)'
  BY DEF PageReads, PageShows, IsStatus
<1> QED
  BY <1>1, <1>2 DEF ConsoleInv, ConsoleTypes, IsStatus

LEMMA AnnounceKeeps ==
  ASSUME ConsoleInv, NEW r \in Requests, Con!Announce(r)
  PROVE  ConsoleInv'
<1> DEFINE op == command[r][1]
           type == IF op = "emergency_stop" THEN "circuit_breaker" ELSE "bot_status"
           on == op = "start"
           e == [type |-> type, running |-> on, by |-> r]
           N == Len(events) + 1
<1>0. /\ command[r][2] = "broadcast" /\ UNCHANGED <<switch, writer, client>>
      /\ events' = Append(events, e) /\ command' = [command EXCEPT ![r] = <<op, "over">>]
  BY DEF Con!Announce, Con!At, Con!Broadcast, Con!Now
<1>1. /\ e \in EventSet /\ e.by = r /\ e.running = on
      /\ e.type = "bot_status" => op # "emergency_stop"
  BY DEF EventSet
<1>2. op # "emergency_stop" /\ writer = r => Con!Badge(on) = Con!Badge(switch)
  BY <1>0 DEF ConsoleInv
<1> HIDE DEF e, on
<1>3. /\ events' \in Seq(EventSet) /\ events'[N] = e /\ Len(events') = N /\ N \in Nat
      /\ DOMAIN events' = DOMAIN events \cup {N} /\ DOMAIN events = 1 .. Len(events)
      /\ \A i \in DOMAIN events : events'[i] = events[i]
  BY <1>0, <1>1 DEF ConsoleInv, ConsoleTypes
<1>4. /\ DOMAIN command' = Requests /\ command'[r][2] = "over"
      /\ \A p \in Requests : p # r => command'[p] = command[p]
  BY <1>0 DEF ConsoleInv, ConsoleTypes
<1>5. ASSUME NEW c \in Clients, PageReads(c) PROVE PageReads(c)'
  <2>1. \A i \in (client[c].since + 1) .. client[c].read : events'[i] = events[i]
    BY <1>3, <1>5 DEF PageReads
  <2>2. \A i \in (client[c].since + 1) .. client[c].read : IsStatus(i)' <=> IsStatus(i)
    BY <2>1 DEF IsStatus
  <2>3. PageShows(c) /\ client' = client
    BY <1>0, <1>5 DEF PageReads
  <2>4. PageShows(c)'
    BY <2>1, <2>2, <2>3 DEF PageShows
  <2> QED
    BY <1>0, <1>3, <1>5, <2>4 DEF PageReads
<1>6. \A i \in DOMAIN events' :
        /\ events'[i].by \in Requests /\ command'[events'[i].by][2] = "over"
        /\ events'[i].type = "bot_status" /\ events'[i].by = writer =>
             Con!Badge(events'[i].running) = Con!Badge(switch)
  BY <1>1, <1>2, <1>3, <1>4 DEF ConsoleInv, IsStatus
<1> QED
  BY <1>0, <1>3, <1>4, <1>5, <1>6 DEF ConsoleInv, ConsoleTypes, IsStatus

LEMMA CrashEmpties == ConsoleInv /\ Con!Crash => ConsoleInv'
<1> SUFFICES ASSUME ConsoleInv, Con!Crash PROVE ConsoleInv'
  OBVIOUS
<1>1. events' \in Seq(EventSet) /\ DOMAIN events' = {}
  BY DEF Con!Crash
<1>2. DOMAIN client' = Clients /\ \A c \in Clients : client'[c].link = "closed"
  BY DEF Con!Crash, Con!Client
<1>3. DOMAIN command' = Requests /\ \A r \in Requests : command'[r][2] # "broadcast"
  BY DEF Con!Crash, Con!At, ConsoleInv, ConsoleTypes
<1> QED
  BY <1>1, <1>2, <1>3 DEF ConsoleInv, ConsoleTypes

\* One page moves: the rest of the invariant is not about it.
LEMMA PageMoves ==
  ASSUME ConsoleInv, NEW c \in Clients, NEW k,
         UNCHANGED <<switch, writer, command, events>>,
         client' = [client EXCEPT ![c] = k],
         k.link = "open" => PageReads(c)'
  PROVE  ConsoleInv'
<1>1. /\ DOMAIN client' = Clients /\ client'[c] = k
      /\ \A d \in Clients : d # c => client'[d] = client[d]
  BY DEF ConsoleInv, ConsoleTypes
<1>2. \A d \in Clients : d # c /\ PageReads(d) => PageReads(d)'
  BY <1>1 DEF PageReads, PageShows, IsStatus
<1> QED
  BY <1>1, <1>2 DEF ConsoleInv, ConsoleTypes, IsStatus

LEMMA LeaveKeeps ==
  ASSUME ConsoleInv, NEW c \in Clients, Con!Leave(c),
         UNCHANGED <<switch, writer, command, events>>
  PROVE  ConsoleInv'
<1> DEFINE k == Con!Client("closed", client[c].since, client[c].read, client[c].badge)
<1>1. k.link = "closed" /\ client' = [client EXCEPT ![c] = k]
  BY DEF Con!Leave, Con!Client
<1> HIDE DEF k
<1> QED
  BY <1>1, PageMoves

LEMMA LoadKeeps ==
  ASSUME ConsoleInv, NEW c \in Clients, Con!Load(c)
  PROVE  ConsoleInv'
<1> DEFINE k == Con!Client("closed", client[c].since, client[c].read, Con!Badge(FALSE))
<1>1. /\ k.link = "closed" /\ client' = [client EXCEPT ![c] = k]
      /\ UNCHANGED <<switch, writer, command, events>>
  BY DEF Con!Load, Con!Client
<1> HIDE DEF k
<1> QED
  BY <1>1, PageMoves

LEMMA ConnectKeeps ==
  ASSUME ConsoleInv, NEW c \in Clients, Con!Connect(c)
  PROVE  ConsoleInv'
<1> DEFINE k == Con!Client("open", Len(events), Len(events), client[c].badge)
<1>1. /\ k.since = Len(events) /\ k.read = Len(events) /\ Len(events) \in Nat
      /\ client' = [client EXCEPT ![c] = k]
      /\ UNCHANGED <<switch, writer, command, events>>
  BY DEF Con!Connect, Con!Client, ConsoleInv, ConsoleTypes
<1> HIDE DEF k
<1>2. client'[c] = k
  BY <1>1 DEF ConsoleInv, ConsoleTypes
<1>3. PageReads(c)'
  BY <1>1, <1>2 DEF PageReads, PageShows
<1> QED
  BY <1>1, <1>3, PageMoves

LEMMA TakeKeeps ==
  ASSUME ConsoleInv, NEW c \in Clients, client[c].link = "open", Con!Waiting(c) > 0,
         Con!Take(c), UNCHANGED <<switch, writer, command, events>>
  PROVE  ConsoleInv'
<1> DEFINE n == client[c].read + 1
           shown == Con!Shown(c, events[n])
           k == Con!Client("open", client[c].since, n, shown)
<1>1. /\ k.since = client[c].since /\ k.read = n /\ k.badge = shown
      /\ client' = [client EXCEPT ![c] = k]
  BY DEF Con!Take, Con!Client
<1>2. /\ client[c].since \in Nat /\ client[c].read \in Nat /\ Len(events) \in Nat
      /\ client[c].since <= client[c].read /\ client[c].read < Len(events) /\ PageShows(c)
  BY DEF ConsoleInv, ConsoleTypes, PageReads, Con!Waiting
<1>3. shown = IF IsStatus(n) THEN Con!Badge(events[n].running) ELSE client[c].badge
  BY DEF Con!Shown, IsStatus
<1> HIDE DEF k, shown
<1>4. client'[c] = k
  BY <1>1 DEF ConsoleInv, ConsoleTypes
<1>5. PageShows(c)'
  <2> SUFFICES ASSUME NEW i \in (client[c].since + 1) .. n, IsStatus(i),
                      \A j \in (client[c].since + 1) .. n : IsStatus(j) => j <= i
               PROVE  shown = Con!Badge(events[i].running)
    BY <1>1, <1>4 DEF PageShows, IsStatus
  <2>1. CASE i = n
    BY <1>3, <2>1
  <2>2. CASE i # n
    <3>1. ~IsStatus(n) /\ i \in (client[c].since + 1) .. client[c].read
      <4>1. i < n /\ n \in (client[c].since + 1) .. n /\ i \in Nat
        BY <1>2, <2>2
      <4>2. ~IsStatus(n)
        BY <1>2, <4>1
      <4> QED
        BY <1>2, <4>1, <4>2
    <3>2. client[c].badge = Con!Badge(events[i].running)
      BY <1>2, <3>1 DEF PageShows
    <3> QED
      BY <1>3, <3>1, <3>2
  <2> QED
    BY <2>1, <2>2
<1>6. PageReads(c)'
  BY <1>1, <1>2, <1>4, <1>5 DEF PageReads
<1> QED
  BY <1>1, <1>6, PageMoves

LEMMA ConsoleStep == ConsoleInv /\ [Con!Next]_consoleVars => ConsoleInv'
<1> SUFFICES ASSUME ConsoleInv, [Con!Next]_consoleVars PROVE ConsoleInv'
  OBVIOUS
<1>1. CASE UNCHANGED consoleVars
  BY <1>1 DEF consoleVars, ConsoleInv, ConsoleTypes, PageReads, PageShows, IsStatus
<1>2. ASSUME NEW r \in Requests, NEW op \in Con!Commands, Con!Command(r, op) PROVE ConsoleInv'
  <2>1. (op = "start") \in BOOLEAN
    OBVIOUS
  <2> QED
    BY <1>2, <2>1, WriteKeeps DEF Con!Command, Con!At
<1>3. ASSUME NEW r \in Requests, NEW op \in {"set", "update"}, NEW on \in BOOLEAN,
             Con!SaveSettings(r, op, on)
      PROVE  ConsoleInv'
  <2> DEFINE step == IF op = "set" THEN "over" ELSE "others"
  <2>1. step # "broadcast"
    OBVIOUS
  <2>2. /\ command[r][2] = "unused" /\ Con!SetSwitch(r, on) /\ Con!Now(r, op, step)
        /\ UNCHANGED <<events, client>>
    BY <1>3 DEF Con!SaveSettings, Con!At
  <2> HIDE DEF step
  <2> QED
    BY <2>1, <2>2, WriteKeeps
<1>4. ASSUME NEW r \in Requests, Con!SaveOthers(r) \/ Con!Fail(r) PROVE ConsoleInv'
  BY <1>4, MoveKeeps DEF Con!SaveOthers, Con!Fail
<1>5. ASSUME NEW c \in Clients, Con!Close(c) \/ Con!Receive(c) PROVE ConsoleInv'
  BY <1>5, LeaveKeeps, TakeKeeps DEF Con!Close, Con!Receive
<1> QED
  BY <1>1, <1>2, <1>3, <1>4, <1>5, AnnounceKeeps, CrashEmpties, LoadKeeps, ConnectKeeps
  DEF Con!Next

LEMMA ConsoleImplies == ConsoleInv => BadgeTellsTheSwitch
<1> SUFFICES ASSUME ConsoleInv, NEW c \in Clients, client[c].link = "open",
                    Con!Waiting(c) = 0, Con!Announced(c)
             PROVE  client[c].badge = Con!Badge(switch)
  BY DEF BadgeTellsTheSwitch, Con!BadgeTellsTheSwitch
<1>1. PageReads(c) /\ DOMAIN events = 1 .. Len(events) /\ Len(events) \in Nat
  BY DEF ConsoleInv, ConsoleTypes
<1>2. client[c].read = Len(events)
  BY <1>1 DEF PageReads, Con!Waiting
<1>3. PICK i \in Con!Statuses(c) :
        events[i].by = writer /\ \A j \in Con!Statuses(c) : j <= i
  BY DEF Con!Announced
<1>4. /\ i \in (client[c].since + 1) .. client[c].read /\ IsStatus(i) /\ i \in DOMAIN events
      /\ \A j \in (client[c].since + 1) .. client[c].read : IsStatus(j) => j <= i
  BY <1>1, <1>2, <1>3 DEF Con!Statuses, IsStatus, PageReads
<1>5. client[c].badge = Con!Badge(events[i].running)
  BY <1>1, <1>4 DEF PageReads, PageShows
<1> QED
  BY <1>3, <1>4, <1>5 DEF ConsoleInv

\* For any number of requests, pages, events and crashes, and any capacity of the channel: the
\* badge of a page that has heard the last announcement is the switch.
THEOREM BadgeTells == PlatformSpec => []BadgeTellsTheSwitch
<1>1. PlatformInit => ConsoleInv
  BY ConsoleInit DEF PlatformInit
<1>2. ConsoleInv /\ [PlatformNext]_platformVars => ConsoleInv'
  BY ConsoleStep DEF PlatformNext, platformVars, consoleVars
<1> QED
  BY <1>1, <1>2, ConsoleImplies, PTL DEF PlatformSpec
=============================================================================
