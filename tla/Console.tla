------------------------------- MODULE Console -------------------------------
(***************************************************************************)
(* The operators' console: the bot's switch in the settings table          *)
(* (handlers/bot.rs, handlers/settings.rs, SettingRepository), the         *)
(* broadcast channel and its WebSocket clients (ws/mod.rs), and the badge  *)
(* that a page shows (frontend/src/app.js).                                *)
(*                                                                         *)
(* As in module Accounts, a statement is a step, a request may end between *)
(* two, and a refused one is left out.  Of the nine settings of the bot    *)
(* only bot.enabled, the switch, matters here.                             *)
(***************************************************************************)
EXTENDS Naturals, Sequences

CONSTANTS
  Requests,                    \* bound: each is made once
  Clients,                     \* pages with a WebSocket
  Capacity                     \* of the broadcast channel

VARIABLES
  switch,                      \* the setting bot.enabled
  writer,                      \* the request that set it last
  request,
  events,                      \* broadcast since the server started
  client

vars == <<switch, writer, request, events, client>>

Commands == {"start", "stop", "emergency_stop"}

NoOne == "no one"

\* updateBotBadge
Badge(running) == IF running THEN "LIVE" ELSE "STOPPED"

Client(link, since, next, badge) == [link |-> link, since |-> since, read |-> next, badge |-> badge]

Init ==
  /\ switch = FALSE /\ writer = NoOne       \* as the migration leaves it
  /\ request = [r \in Requests |-> <<"none", "unused">>]
  /\ events = << >>
  /\ client = [c \in Clients |-> Client("closed", 0, 0, Badge(FALSE))]

-----------------------------------------------------------------------------
At(r, step) == request[r][2] = step

Now(r, op, step) == request' = [request EXCEPT ![r] = <<op, step>>]

SetSwitch(r, on) == switch' = on /\ writer' = r

Broadcast(e) == events' = Append(events, e)

\* bot::command: it sets the switch first
Command(r, op) ==
  /\ At(r, "unused")
  /\ SetSwitch(r, op = "start")
  /\ Now(r, op, "broadcast")
  /\ UNCHANGED <<events, client>>

\* start and stop read the mode, then broadcast; an emergency stop only says why
Announce(r) ==
  /\ At(r, "broadcast")
  /\ Broadcast([type |-> IF request[r][1] = "emergency_stop" THEN "circuit_breaker" ELSE "bot_status",
                running |-> request[r][1] = "start", by |-> r])
  /\ Now(r, request[r][1], "over")
  /\ UNCHANGED <<switch, writer, client>>

\* settings::set of the switch, and settings::update_bot_settings, which sets it first
SaveSettings(r, op, on) ==
  /\ At(r, "unused")
  /\ SetSwitch(r, on)
  /\ Now(r, op, IF op = "set" THEN "over" ELSE "others")
  /\ UNCHANGED <<events, client>>

SaveOthers(r) ==
  /\ At(r, "others")
  /\ Now(r, request[r][1], "over")
  /\ UNCHANGED <<switch, writer, events, client>>

\* The mode or another setting cannot be read or written, or the request is cut off.
Fail(r) ==
  /\ At(r, "broadcast") \/ At(r, "others")
  /\ Now(r, request[r][1], "over")
  /\ UNCHANGED <<switch, writer, events, client>>

-----------------------------------------------------------------------------
(* A client hears what is broadcast after it subscribed; the page keeps its *)
(* badge and connects again 3 s after a close.  A page that is loaded shows *)
(* the bot stopped, whether it is or not.                                   *)

Load(c) ==
  /\ client' = [client EXCEPT ![c] = Client("closed", @.since, @.read, Badge(FALSE))]
  /\ UNCHANGED <<switch, writer, request, events>>

Connect(c) ==
  /\ client[c].link = "closed"
  /\ client' = [client EXCEPT ![c] = Client("open", Len(events), Len(events), @.badge)]
  /\ UNCHANGED <<switch, writer, request, events>>

Leave(c) ==
  client' = [client EXCEPT ![c] = Client("closed", @.since, @.read, @.badge)]

Close(c) ==
  /\ client[c].link = "open"
  /\ Leave(c)
  /\ UNCHANGED <<switch, writer, request, events>>

Waiting(c) == Len(events) - client[c].read

Shown(c, e) == IF e.type = "bot_status" THEN Badge(e.running) ELSE client[c].badge

Take(c) ==
  LET k == client[c] IN
  client' = [client EXCEPT ![c] =
               Client("open", k.since, k.read + 1, Shown(c, events[k.read + 1]))]

\* slip: a receiver that fell behind subscribes again
ReceiveOrSkip(c) ==
  /\ client[c].link = "open" /\ Waiting(c) > 0
  /\ IF Waiting(c) > Capacity THEN client' = [client EXCEPT ![c].read = Len(events)]
                              ELSE Take(c)
  /\ UNCHANGED <<switch, writer, request, events>>

\* send_task: recv gives the oldest event kept; that some were overwritten is an error, which
\* ends the loop and with it the socket
Receive(c) ==
  /\ client[c].link = "open" /\ Waiting(c) > 0
  /\ IF Waiting(c) > Capacity THEN Leave(c) ELSE Take(c)
  /\ UNCHANGED <<switch, writer, request, events>>

\* The server ends: the channel goes with it, the settings stay.
Crash ==
  /\ request' = [r \in Requests |-> IF At(r, "unused") THEN request[r] ELSE <<request[r][1], "over">>]
  /\ events' = << >>
  /\ client' = [c \in Clients |-> Client("closed", 0, 0, client[c].badge)]
  /\ UNCHANGED <<switch, writer>>

Next ==
  \/ Crash
  \/ \E r \in Requests :
       \/ Announce(r) \/ SaveOthers(r) \/ Fail(r)
       \/ \E op \in Commands : Command(r, op)
       \/ \E op \in {"set", "update"}, on \in BOOLEAN : SaveSettings(r, op, on)
  \/ \E c \in Clients : Load(c) \/ Connect(c) \/ Close(c) \/ Receive(c)

Spec == Init /\ [][Next]_vars

-----------------------------------------------------------------------------
Statuses(c) == {i \in DOMAIN events : i > client[c].since /\ events[i].type = "bot_status"}

\* Who set the switch also announced it last.
Announced(c) ==
  \E i \in Statuses(c) : events[i].by = writer /\ \A j \in Statuses(c) : j <= i

\* The badge of a page that is connected and has heard all that was said since (bot.rs:48,
\* app.js:85) is the switch as it is stored, also when it fell behind, lost its connection or
\* the server restarted, unless the switch was last set by who did not announce it (an
\* emergency stop, the settings page, a command cut short) or two announcements crossed.
BadgeTellsTheSwitch ==
  \A c \in Clients :
    client[c].link = "open" /\ Waiting(c) = 0 /\ Announced(c) =>
      client[c].badge = Badge(switch)
=============================================================================
