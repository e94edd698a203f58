------------------------------ MODULE TradeDesk ------------------------------
(***************************************************************************)
(* What the trade loop promises, without saying how: one trade at a time,  *)
(* a route is booked at most once and never sent again after that, nothing *)
(* is begun or sent once trading is halted, a halt is final, and a trade   *)
(* once begun ends.                                                        *)
(*                                                                         *)
(* A trade that reached the chain may go unbooked: the desk gives up on it *)
(* and may send the same route again.  That is all it promises.            *)
(***************************************************************************)
EXTENDS Naturals

CONSTANTS Routes, NoRoute

VARIABLES
  phase,                       \* what the desk is doing
  route,                       \* the route being worked on
  used,                        \* routes booked so far
  sends,                       \* transactions handed to the chain
  trading                      \* "on", or "halted" for good

vars == <<phase, route, used, sends, trading>>

Init ==
  /\ phase = "idle" /\ route = NoRoute
  /\ used = {} /\ sends = 0 /\ trading = "on"

Begin ==
  /\ phase = "idle" /\ trading = "on"
  /\ phase' = "working"
  /\ UNCHANGED <<route, used, sends, trading>>

Choose(r) ==
  /\ phase = "working" /\ route = NoRoute
  /\ r \in Routes \ used
  /\ route' = r
  /\ UNCHANGED <<phase, used, sends, trading>>

Submit ==
  /\ phase = "working" /\ route # NoRoute
  /\ sends' = sends + 1
  /\ phase' = "waiting"
  /\ UNCHANGED <<route, used, trading>>

Book ==
  /\ phase = "waiting"
  /\ used' = used \cup {route}
  /\ trading' \in {"on", "halted"}
  /\ phase' = "idle" /\ route' = NoRoute
  /\ UNCHANGED sends

GiveUp ==
  /\ phase # "idle"
  /\ phase' = "idle" /\ route' = NoRoute
  /\ sends' \in {sends} \cup (IF route # NoRoute /\ phase = "working" THEN {sends + 1} ELSE {})
  /\ UNCHANGED <<used, trading>>

Next == Begin \/ (\E r \in Routes : Choose(r)) \/ Submit \/ Book \/ GiveUp

Spec == Init /\ [][Next]_vars
=============================================================================
