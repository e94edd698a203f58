------------------------------- MODULE Records -------------------------------
(***************************************************************************)
(* The rows that operators keep over the API: wallets, strategies, tokens, *)
(* risk rules and system events (handlers/wallets.rs, strategies.rs,       *)
(* tokens.rs, risk.rs, monitoring.rs, and their repositories).  The tables *)
(* share no statement, so a behaviour is about one of them.                *)
(*                                                                         *)
(* As in module Accounts, a statement is a step, a request may end between *)
(* two, and a refused one is left out.  The rows of a user are named       *)
(* before they are created: a UUID is never used twice.                    *)
(***************************************************************************)
EXTENDS Naturals

CONSTANTS
  Requests,                    \* bound: each is made once
  Ids, Owner, Mint,            \* rows, whose they are, and the mint of a token
  Kept                         \* active wallets that an earlier run left, one of an owner

VARIABLES
  table,
  rows,                        \* the rows there are
  born,                        \* and those there have been
  request

vars == <<table, rows, born, request>>

Tables == {"wallets", "strategies", "tokens", "rules", "events"}

\* The operations that end in one statement on a row, with the status it sets; an update
\* may set any.  No handler creates an event, the rest of the platform does.
Sets ==
  [wallets |-> {<<"update", "locked">>, <<"update", "inactive">>},
   strategies |-> {<<"start", "active">>, <<"pause", "paused">>, <<"update", "active">>},
   tokens |-> {<<"set_status", "disabled">>, <<"update", "active">>},
   rules |-> {<<"update", "disabled">>},
   events |-> {<<"resolve", "resolved">>}]

Operations(t) ==
  Sets[t] \cup (IF t = "events" THEN {} ELSE {<<"delete", "none">>})
          \cup (IF t = "wallets" THEN {<<"activate", "active">>} ELSE {})

FirstStatus ==
  [wallets |-> "inactive", strategies |-> "paused", tokens |-> "active", rules |-> "enabled",
   events |-> "open"]

Row(status, active) == [status |-> status, active |-> active]

NoId == "no id"

Request(op, status, i, step, seen) ==
  [op |-> op, status |-> status, id |-> i, step |-> step, seen |-> seen]

Unused == Request("none", "none", NoId, "unused", FALSE)

Over == Request("none", "none", NoId, "over", FALSE)

Init ==
  /\ table \in Tables
  /\ rows \in {<< >>} \cup
       (IF table = "wallets" THEN {[i \in Kept |-> Row("active", TRUE)]} ELSE {})
  /\ born = DOMAIN rows
  /\ request = [r \in Requests |-> Unused]

-----------------------------------------------------------------------------
Fresh(r) == request[r].step = "unused"

At(r, step) == request[r].step = step

Now(r, req) == request' = [request EXCEPT ![r] = req]

\* the answer of a row that is gone, and of a database error
Fail(r) ==
  /\ request[r].step \notin {"unused", "over"}
  /\ Now(r, Over)
  /\ UNCHANGED <<table, rows, born>>

Exists(i) == i \in DOMAIN rows

InsertRow(i, status) ==
  /\ rows' = [j \in DOMAIN rows \cup {i} |-> IF j = i THEN Row(status, FALSE) ELSE rows[j]]
  /\ born' = born \cup {i}

MintTaken(i) == table = "tokens" /\ \E j \in DOMAIN rows : Mint[j] = Mint[i]

\* tokens::create looks for the mint first; the INSERT of the others is its first statement
Create(r, i) ==
  /\ Fresh(r)
  /\ i \notin born /\ ~MintTaken(i)
  /\ Now(r, Request("create", FirstStatus[table], i, "insert", FALSE))
  /\ UNCHANGED <<table, rows, born>>

\* The unique index refuses a mint that another request has inserted.
Insert(r) ==
  LET i == request[r].id IN
  /\ At(r, "insert")
  /\ i \notin born
  /\ IF MintTaken(i) THEN UNCHANGED <<rows, born>> ELSE InsertRow(i, request[r].status)
  /\ Now(r, Over)
  /\ UNCHANGED table

\* wallets and strategies
Owned == table \in {"wallets", "strategies"}

\* find_by_id, the filter on the owner, and is_active before a delete
Check(op, i) == Exists(i) /\ (table = "wallets" /\ op = "delete" => ~rows[i].active)

Begin(r, op, status, i) ==
  /\ Fresh(r)
  /\ <<op, status>> \in Operations(table)
  /\ Owned => Check(op, i)
  /\ Now(r, Request(op, status, i, "write", Exists(i) /\ rows[i].active))
  /\ UNCHANGED <<table, rows, born>>

\* UPDATE ... WHERE id = $1, which may find nothing; start and pause do not look
Update(r) ==
  LET i == request[r].id IN
  /\ At(r, "write") /\ request[r].op \notin {"delete", "activate"}
  /\ rows' = [j \in DOMAIN rows |-> IF j = i THEN Row(request[r].status, rows[j].active)
                                             ELSE rows[j]]
  /\ Now(r, Over)
  /\ UNCHANGED <<table, born>>

Delete(r) ==
  /\ At(r, "write") /\ request[r].op = "delete"
  /\ rows' = [j \in DOMAIN rows \ {request[r].id} |-> rows[j]]
  /\ Now(r, Over)
  /\ UNCHANGED <<table, born>>

Deactivated(u) == [j \in DOMAIN rows |-> IF Owner[j] = u THEN Row(rows[j].status, FALSE)
                                                         ELSE rows[j]]

Activated(rs, i) == [j \in DOMAIN rs |-> IF j = i THEN Row("active", TRUE) ELSE rs[j]]

\* slip: two statements without a transaction
ActivateInTwo(r) ==
  LET i == request[r].id IN
  /\ request[r].op = "activate"
  /\ \/ /\ At(r, "write")
        /\ rows' = Deactivated(Owner[i])
        /\ Now(r, [request[r] EXCEPT !.step = "switch"])
     \/ /\ At(r, "switch")
        /\ rows' = Activated(rows, i)
        /\ Now(r, Over)
  /\ UNCHANGED <<table, born>>

\* WalletRepository::activate, one transaction: it locks the rows of the user until it
\* commits, and rolls back when it is cut short
Activate(r) ==
  LET i == request[r].id IN
  /\ At(r, "write") /\ request[r].op = "activate"
  /\ rows' = Activated(Deactivated(Owner[i]), i)
  /\ Now(r, Over)
  /\ UNCHANGED <<table, born>>

\* A circuit breaker, an RPC failure: an event, by whoever reports it.
Report(i) ==
  /\ table = "events" /\ i \notin born
  /\ InsertRow(i, FirstStatus[table])
  /\ UNCHANGED <<table, request>>

Next ==
  \/ \E i \in Ids : Report(i)
  \/ \E r \in Requests :
       \/ Insert(r) \/ Update(r) \/ Delete(r) \/ Activate(r) \/ Fail(r)
       \/ \E i \in Ids : Create(r, i) /\ table # "events"
       \/ \E i \in Ids : \E o \in Operations(table) : Begin(r, o[1], o[2], i)

Spec == Init /\ [][Next]_vars

-----------------------------------------------------------------------------
HasActive(u) == \E i \in DOMAIN rows : Owner[i] = u /\ rows[i].active

\* A wallet that was inactive when the handler looked, or that is gone since it looked.
Outrun(r) ==
  /\ At(r, "write")
  /\ \/ request[r].op = "delete" /\ ~request[r].seen
     \/ request[r].op = "activate" /\ ~Exists(request[r].id)

\* Switching wallets never leaves an operator without one, also when it is cut short, and
\* the active wallet is not deleted (wallets.rs:100), unless a delete and an activation of
\* the same wallet pass each other between the check and the statement.
ActiveWalletLostInRaceOnly ==
  [][\A u \in {Owner[i] : i \in Ids} :
       HasActive(u) /\ ~HasActive(u)' =>
         \E r \in Requests : Outrun(r) /\ request'[r] = Over]_vars
=============================================================================
