------------------------------ MODULE Accounts ------------------------------
(***************************************************************************)
(* Users and sessions of the API server: crates/api (handlers/auth.rs,     *)
(* handlers/users.rs, state.rs), crates/auth and the repositories of       *)
(* crates/db they call.                                                    *)
(*                                                                         *)
(* A request is a small program whose statements on the database are       *)
(* steps of their own: other requests run between them, and it may end     *)
(* between them (a database error, the 30 s timeout, a client that hangs   *)
(* up, a crash).  A request that is refused changes nothing and is left    *)
(* out.  A refresh token is the number of its session.  A password is how  *)
(* many changes came before it.  Rows of users are never deleted.          *)
(***************************************************************************)
EXTENDS Naturals, Sequences

CONSTANTS
  Requests,                    \* bound: each is made once
  Users, Admin, NoUser,
  Username,                    \* what a user registers with, besides the email
  Databases,                   \* rows of users an earlier run of the server left
  MaxSessions                  \* bound: sessions opened

Statuses == {"active", "suspended", "pending"}

ASSUME AccountsAssumption ==
  /\ Admin \in Users /\ NoUser \notin Users
  /\ MaxSessions \in Nat
  /\ \A d \in Databases :
       DOMAIN d \subseteq Users /\ d \in [DOMAIN d -> [status : Statuses, password : Nat]]

VARIABLES
  server,                      \* "up", or how far the start has come
  users, sessions,             \* tables
  request,
  cut                          \* users whose last password change ended before its revocation

vars == <<server, users, sessions, request, cut>>

Request(op, u, t, step, version, raced) ==
  [op |-> op, user |-> u, token |-> t, step |-> step, version |-> version, raced |-> raced]

Unused == Request("none", NoUser, 0, "unused", 0, FALSE)

Over == Request("none", NoUser, 0, "over", 0, FALSE)

Init ==
  /\ server = "down"
  /\ users \in Databases
  /\ sessions = << >>
  /\ request = [r \in Requests |-> Unused]
  /\ cut = {}

-----------------------------------------------------------------------------
(* The server's start: a user that is found is left as it is.               *)

Start ==
  /\ server = "down"
  /\ server' = IF Admin \in DOMAIN users THEN "up" ELSE "insert"
  /\ UNCHANGED <<users, sessions, request, cut>>

Insert(u) ==
  users' = [v \in DOMAIN users \cup {u} |->
              IF v = u THEN [status |-> "pending", password |-> 0] ELSE users[v]]

SetStatusOf(u, status) ==
  users' = [users EXCEPT ![u] = [status |-> status, password |-> @.password]]

SeedAdmin ==
  \/ /\ server = "insert"
     /\ Insert(Admin)
     /\ server' = "activate"
     /\ UNCHANGED <<sessions, request, cut>>
  \/ /\ server = "activate"
     /\ SetStatusOf(Admin, "active")
     /\ server' = "up"
     /\ UNCHANGED <<sessions, request, cut>>

\* Requests under way end where they are.
CutBy(rs) == {request[r].user : r \in {q \in rs : request[q].step = "revoke_all"}}

Crash ==
  /\ server # "down"
  /\ server' = "down"
  /\ request' = [r \in Requests |-> IF request[r].step = "unused" THEN Unused ELSE Over]
  /\ cut' = cut \cup CutBy(Requests)
  /\ UNCHANGED <<users, sessions>>

-----------------------------------------------------------------------------
(* Steps of a request.                                                      *)

Fresh(r) == server = "up" /\ request[r].step = "unused"

At(r, step) == request[r].step = step

Now(r, req) == request' = [request EXCEPT ![r] = req]

StepTo(q, step) == Request(q.op, q.user, q.token, step, q.version, q.raced)

GoTo(r, step) == Now(r, StepTo(request[r], step))

Fail(r) ==
  /\ request[r].step \notin {"unused", "over"}
  /\ Now(r, Over)
  /\ cut' = cut \cup CutBy({r})
  /\ UNCHANGED <<server, users, sessions>>

Live(s) == ~s.revoked /\ ~s.expired

\* A session remembers the password its owner gave and whether it raced with a revocation.
Session(u, version, raced, revoked, expired) ==
  [user |-> u, version |-> version, raced |-> raced, revoked |-> revoked, expired |-> expired]

Open(r) ==
  /\ Len(sessions) < MaxSessions
  /\ sessions' = Append(sessions,
       Session(request[r].user, request[r].version, request[r].raced, FALSE, FALSE))

Revoked(s) == Session(s.user, s.version, s.raced, TRUE, s.expired)

Expire(t) ==
  /\ t \in DOMAIN sessions /\ ~sessions[t].expired
  /\ sessions' = [sessions EXCEPT ![t] = Session(@.user, @.version, @.raced, @.revoked, TRUE)]
  /\ UNCHANGED <<server, users, request, cut>>

\* login: find_by_email, the password, the status, issue_pair
Login(r, u) ==
  /\ Fresh(r)
  /\ u \in DOMAIN users /\ users[u].status = "active"
  /\ Now(r, Request("login", u, 0, "create", users[u].password, FALSE))
  /\ UNCHANGED <<server, users, sessions, cut>>

\* sessions.create, of a login and of a refresh
CreateSession(r) ==
  /\ At(r, "create")
  /\ Open(r)
  /\ IF request[r].op = "login" THEN GoTo(r, "last_login") ELSE Now(r, Over)
  /\ UNCHANGED <<server, users, cut>>

SetLastLogin(r) ==
  /\ At(r, "last_login")
  /\ Now(r, Over)
  /\ UNCHANGED <<server, users, sessions, cut>>

\* slip: find_by_token without NOT revoked
FindUnexpired(t) == t \in DOMAIN sessions /\ ~sessions[t].expired

FindByToken(t) == t \in DOMAIN sessions /\ Live(sessions[t])

\* refresh: the token, and the user whatever the status
Refresh(r, t) ==
  /\ Fresh(r)
  /\ FindByToken(t)
  /\ Now(r, Request("refresh", sessions[t].user, t, "revoke", sessions[t].version,
                    sessions[t].raced))
  /\ UNCHANGED <<server, users, sessions, cut>>

\* sessions.revoke; that another request was faster is not looked at
Rotate(r) ==
  /\ At(r, "revoke")
  /\ sessions' = [sessions EXCEPT ![request[r].token] = Revoked(@)]
  /\ GoTo(r, "create")
  /\ UNCHANGED <<server, users, cut>>

Logout(r, t) ==
  /\ Fresh(r)
  /\ t \in DOMAIN sessions
  /\ sessions' = [sessions EXCEPT ![t] = Revoked(@)]
  /\ Now(r, Over)
  /\ UNCHANGED <<server, users, cut>>

\* change_password: find_by_id, the password, the length
ChangePassword(r, u) ==
  /\ Fresh(r)
  /\ u \in DOMAIN users
  /\ Now(r, Request("password", u, 0, "update", users[u].password, FALSE))
  /\ UNCHANGED <<server, users, sessions, cut>>

UpdatePassword(r) ==
  /\ At(r, "update")
  /\ users' = [users EXCEPT ![request[r].user] =
                 [status |-> @.status, password |-> @.password + 1]]
  /\ GoTo(r, "revoke_all")
  /\ UNCHANGED <<server, sessions, cut>>

\* A login or refresh that passed its checks is about to open a session all the same.
Racing(q, u) == q.user = u /\ q.step \in {"revoke", "create"}

Raced(q) == Request(q.op, q.user, q.token, q.step, q.version, TRUE)

RevokeAll(r) ==
  LET u == request[r].user IN
  /\ At(r, "revoke_all")
  /\ sessions' = [t \in DOMAIN sessions |->
                    IF sessions[t].user = u THEN Revoked(sessions[t]) ELSE sessions[t]]
  /\ request' = [q \in Requests |->
                   IF q = r THEN Over
                   ELSE IF Racing(request[q], u) THEN Raced(request[q]) ELSE request[q]]
  /\ cut' = cut \ {u}
  /\ UNCHANGED <<server, users>>

NameTaken(u) == \E v \in DOMAIN users : Username[v] = Username[u]

\* register: find_by_email, find_by_username, and the INSERT, which may still be refused
Register(r, u) ==
  /\ Fresh(r)
  /\ u \notin DOMAIN users
  /\ Now(r, Request("register", u, 0, "find_name", 0, FALSE))
  /\ UNCHANGED <<server, users, sessions, cut>>

FindName(r) ==
  /\ At(r, "find_name")
  /\ IF NameTaken(request[r].user) THEN Now(r, Over) ELSE GoTo(r, "insert")
  /\ UNCHANGED <<server, users, sessions, cut>>

InsertUser(r) ==
  LET u == request[r].user IN
  /\ At(r, "insert")
  /\ IF u \in DOMAIN users \/ NameTaken(u) THEN UNCHANGED users ELSE Insert(u)
  /\ Now(r, Over)
  /\ UNCHANGED <<server, sessions, cut>>

\* users::update
SetStatus(r, u, status) ==
  /\ Fresh(r)
  /\ u \in DOMAIN users
  /\ SetStatusOf(u, status)
  /\ Now(r, Over)
  /\ UNCHANGED <<server, sessions, cut>>

Statement(r) ==
  \/ CreateSession(r) \/ SetLastLogin(r) \/ Rotate(r)
  \/ UpdatePassword(r) \/ RevokeAll(r) \/ FindName(r) \/ InsertUser(r) \/ Fail(r)

Next ==
  \/ Start \/ SeedAdmin \/ Crash
  \/ \E t \in DOMAIN sessions : Expire(t)
  \/ \E r \in Requests :
       \/ Statement(r)
       \/ \E u \in Users : Login(r, u) \/ ChangePassword(r, u) \/ Register(r, u)
       \/ \E t \in DOMAIN sessions : Refresh(r, t) \/ Logout(r, t)
       \/ \E u \in Users, s \in Statuses : SetStatus(r, u, s)

Spec == Init /\ [][Next]_vars

-----------------------------------------------------------------------------
ChangeUnderWay(u) == \E r \in Requests : request[r].user = u /\ At(r, "revoke_all")

\* "Password changed; all sessions revoked" (users.rs:75): no session opened with an older
\* password stays alive, nor any that it is refreshed into, except where a login or a
\* refresh had passed its checks when the sessions were revoked, or the change was cut
\* short between its two statements.
PasswordChangeClosesSessions ==
  \A t \in DOMAIN sessions :
    LET s == sessions[t] IN
    Live(s) /\ s.version # users[s.user].password =>
      s.raced \/ s.user \in cut \/ ChangeUnderWay(s.user)
=============================================================================
