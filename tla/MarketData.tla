----------------------------- MODULE MarketData -----------------------------
(***************************************************************************)
(* The price monitor, the transaction stream and the one task that takes   *)
(* from both: the top of the hot loop of crates/bot/src/main.rs.  A pass   *)
(* takes every batch that waits, then at most one event; an event begins a *)
(* cycle (module TradeLoop) when there are prices and the breaker is       *)
(* closed.  Both channels are bounded and both senders wait when theirs is *)
(* full, so one slow consumer holds up two producers.                      *)
(***************************************************************************)
EXTENDS PriceFeed

CONSTANTS Keys, EventCapacity          \* of EventStream

ASSUME StreamAssumption ==
  /\ Keys \subseteq {"helius", "alchemy"} /\ Keys # {}    \* main refuses to start with none
  /\ EventCapacity \in Nat \ {0}

VARIABLES
  provider, link, delay, events,       \* of EventStream
  loop                                 \* where the hot loop is

streamVars == <<provider, link, delay, events>>

marketVars == <<vars, streamVars, loop>>

Stream == INSTANCE EventStream

-----------------------------------------------------------------------------
\* while let Ok(edges) = jupiter_rx.try_recv()
DrainOne == loop = "drain" /\ Absorb /\ UNCHANGED <<streamVars, loop>>

Drained ==
  /\ loop = "drain" /\ channel = <<>>
  /\ loop' = "event"
  /\ UNCHANGED <<vars, streamVars>>

NoEvent ==
  /\ loop = "event" /\ events = 0
  /\ loop' = "drain"
  /\ UNCHANGED <<vars, streamVars>>

\* slip: events are left in the channel until there are prices
KeepUntilPriced ==
  /\ loop = "event" /\ events > 0
  /\ IF live = NoBatch THEN UNCHANGED streamVars ELSE Stream!TakeEvent
  /\ loop' = "drain"
  /\ UNCHANGED vars

\* the breaker is open, or there are no prices yet
DropEvent ==
  /\ loop = "event" /\ Stream!TakeEvent
  /\ loop' = "drain"
  /\ UNCHANGED vars

BeginCycle ==
  /\ loop = "event" /\ Stream!TakeEvent
  /\ live # NoBatch
  /\ loop' = "cycle"
  /\ UNCHANGED vars

\* TradeLoop shows that every cycle ends
EndCycle ==
  /\ loop = "cycle"
  /\ loop' = "drain"
  /\ UNCHANGED <<vars, streamVars>>

Loop == DrainOne \/ Drained \/ NoEvent \/ DropEvent \/ BeginCycle \/ EndCycle

Monitor == (Round \/ Deliver) /\ UNCHANGED <<streamVars, loop>>

Server == Stream!Socket /\ UNCHANGED <<vars, loop>>

Client == (Stream!Reconnect \/ Stream!Forward) /\ UNCHANGED <<vars, loop>>

MarketInit == Init /\ Stream!Init /\ loop = "drain"

MarketNext == Loop \/ Monitor \/ Server \/ Client

(* Every request of the monitor has a timeout; sends, pauses and the loop run as *)
(* soon as they can.  Nothing is assumed of the server of the stream.  A batch    *)
(* takes the loop microseconds and the monitor two seconds or more, so that the   *)
(* monitor does not keep the loop in the drain for ever.                          *)
Fairness ==
  /\ WF_marketVars(Monitor)
  /\ WF_marketVars(Client)
  /\ WF_marketVars(Loop)
  /\ []<>(loop # "drain")

MarketSpec == MarketInit /\ [][MarketNext]_marketVars /\ Fairness

-----------------------------------------------------------------------------
\* Prices, events and the place of the loop have their types; what is on its way has edges.
MarketTypeOK ==
  /\ TypeOK /\ Stream!TypeOK
  /\ loop \in {"drain", "event", "cycle"}
  /\ loop = "cycle" => live # NoBatch

\* No producer waits for ever: whatever the sources and the server do, the loop takes from
\* both channels, also before the first price and while the breaker is open.
BackPressureEnds ==
  /\ (task = "send") ~> (task # "send")
  /\ (link = "sending") ~> (link # "sending")

\* From some moment on the source s always answers, and every answer has all tokens.
AnswersInFull(s) ==
  <>[][/\ PollFails => source # s
       /\ BothFail => source = s
       /\ \A report \in Reports \ {Tokens} : ~Poll(report) /\ ~FailOver(report)]_vars

\* The feed heals: when one source answers for good, whichever it is and whichever was in
\* use, the loop has prices of the round before at the latest, again and again.
Recovers ==
  (\E s \in Sources : AnswersInFull(s)) =>
    []<>(\A t \in Tokens : live.ages[t] <= 1)
=============================================================================
