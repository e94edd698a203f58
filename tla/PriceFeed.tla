----------------------------- MODULE PriceFeed -----------------------------
(***************************************************************************)
(* The price monitor of crates/ingress/src/jupiter.rs, the bounded channel *)
(* it sends over, and the prices the hot loop took from it last            *)
(* (live_edges of crates/bot/src/main.rs).                                 *)
(*                                                                         *)
(* A price is its age: how many polls began since a source reported it.    *)
(* The edges of a batch are built from the whole cache, so a batch is the  *)
(* ages of the cache at that moment.  The receiver is never dropped: the   *)
(* hot loop has no end.                                                    *)
(***************************************************************************)
EXTENDS Naturals, Sequences, FiniteSets

CONSTANTS
  Tokens, SOL,                 \* the token universe, and the token that prices the others
  Capacity,                    \* of the channel, 64 in the code
  MaxAge                       \* bound: older prices are not told apart

ASSUME FeedAssumption ==
  /\ SOL \in Tokens
  /\ Capacity \in Nat \ {0}
  /\ MaxAge \in Nat \ {0}

VARIABLES
  source,                      \* active_source
  cache,                       \* price_cache
  task,                        \* the await the monitor is in
  batch,                       \* the batch it is sending
  channel,                     \* batches sent and not yet received
  live                         \* live_edges

vars == <<source, cache, task, batch, channel, live>>

Sources == {"jupiter", "coingecko"}

\* No price of the token; as an age, older than any.
Never == MaxAge + 1

Ages == [Tokens -> 0 .. Never]

Older(ages) == [t \in Tokens |-> IF ages[t] < MaxAge THEN ages[t] + 1 ELSE ages[t]]

Priced(ages) == {t \in Tokens : ages[t] # Never}

\* stale tells whether the monitor logged "using STALE CACHE" for the batch
Batch == [ages : Ages, stale : BOOLEAN]

NoBatch == [ages |-> [t \in Tokens |-> Never], stale |-> FALSE]

Aged(b) == [b EXCEPT !.ages = Older(@)]

-----------------------------------------------------------------------------
Other(s) == IF s = "jupiter" THEN "coingecko" ELSE "jupiter"

Learn(ages, report) == [t \in Tokens |-> IF t \in report THEN 0 ELSE ages[t]]

\* build_edges_from_prices makes an edge of each ordered pair of priced tokens
Sendable(ages) == SOL \in Priced(ages) /\ \E t \in Priced(ages) : t # SOL

\* slip: without the check for a price of SOL
HandOverUnpriced(ages, stale) ==
  task' = "send" /\ batch' = [ages |-> ages, stale |-> stale]

\* send the edges of the cache, or skip the round when there are none
HandOver(ages, stale) ==
  IF Sendable(ages)
  THEN task' = "send" /\ batch' = [ages |-> ages, stale |-> stale]
  ELSE task' = "poll" /\ UNCHANGED batch

(* One round of the monitor: the poll of the active source, after a failure  *)
(* that of the other, and the send.                                          *)

BeginRound ==
  /\ task = "poll"
  /\ channel' = [i \in DOMAIN channel |-> Aged(channel[i])]
  /\ live' = Aged(live)
  /\ UNCHANGED source

Reports == (SUBSET Tokens) \ {{}}

Poll(report) ==
  /\ BeginRound
  /\ cache' = Learn(Older(cache), report)
  /\ HandOver(cache', FALSE)

\* slip: the same source again at the next poll
PollFailsAndRetries ==
  /\ BeginRound
  /\ cache' = Older(cache)
  /\ UNCHANGED <<task, batch>>

\* an error, or an answer without a price
PollFails ==
  /\ BeginRound
  /\ cache' = Older(cache)
  /\ task' = "failover"
  /\ UNCHANGED batch

\* slip: the new source is kept and its prices go out with the next poll
FailOverQuietly(report) ==
  /\ task = "failover"
  /\ source' = Other(source)
  /\ cache' = Learn(cache, report)
  /\ task' = "poll"
  /\ UNCHANGED <<batch, channel, live>>

FailOver(report) ==
  /\ task = "failover"
  /\ source' = Other(source)
  /\ cache' = Learn(cache, report)
  /\ HandOver(cache', FALSE)
  /\ UNCHANGED <<channel, live>>

\* slip: the stale cache goes out as any other batch
BothFailSilently ==
  /\ task = "failover"
  /\ HandOver(cache, FALSE)
  /\ UNCHANGED <<source, cache, channel, live>>

\* the active source stays and the cache goes out once more
BothFail ==
  /\ task = "failover"
  /\ HandOver(cache, TRUE)
  /\ UNCHANGED <<source, cache, channel, live>>

\* tx.send waits while the channel is full
Deliver ==
  /\ task = "send"
  /\ Len(channel) < Capacity
  /\ channel' = Append(channel, batch)
  /\ batch' = NoBatch
  /\ task' = "poll"
  /\ UNCHANGED <<source, cache, live>>

\* slip: the newest batch first
AbsorbNewest ==
  /\ channel # <<>>
  /\ live' = channel[Len(channel)]
  /\ channel' = SubSeq(channel, 1, Len(channel) - 1)
  /\ UNCHANGED <<source, cache, task, batch>>

\* jupiter_rx.try_recv in the hot loop
Absorb ==
  /\ channel # <<>>
  /\ live' = Head(channel)
  /\ channel' = Tail(channel)
  /\ UNCHANGED <<source, cache, task, batch>>

Round == PollFails \/ BothFail \/ \E report \in Reports : Poll(report) \/ FailOver(report)

Init ==
  /\ source = "jupiter"
  /\ cache = NoBatch.ages
  /\ task = "poll" /\ batch = NoBatch
  /\ channel = <<>> /\ live = NoBatch

Next == Round \/ Deliver \/ Absorb

Spec == Init /\ [][Next]_vars

-----------------------------------------------------------------------------
\* A batch on its way or in use has a price of SOL and of another token.
TypeOK ==
  /\ source \in Sources
  /\ cache \in Ages
  /\ task \in {"poll", "failover", "send"}
  /\ batch \in Batch /\ (task = "send" => Sendable(batch.ages))
  /\ channel \in Seq({b \in Batch : Sendable(b.ages)}) /\ Len(channel) <= Capacity
  /\ live \in Batch /\ (live = NoBatch \/ Sendable(live.ages))

\* The batch handed over last, wherever it is.
Latest == IF task = "send" THEN batch
          ELSE IF channel # <<>> THEN channel[Len(channel)] ELSE live

\* Whatever the monitor learned is on its way to the loop: on every path through polls,
\* failovers and sends that wait, the batch handed over last holds the prices of the cache.
NothingLost == Sendable(cache) => Latest.ages = cache

\* The loop never gets an older price for a newer one, of any token: not over a switch of
\* sources, not from the stale cache, not while several batches wait in the channel.
LiveNeverGoesBack ==
  [][\A t \in Tokens : live'.ages[t] <= Older(live.ages)[t]]_vars

\* The log tells the truth: it says "using STALE CACHE" exactly for a batch without one
\* price of the round.
StaleIsLogged ==
  task = "send" => (batch.stale <=> \A t \in Tokens : batch.ages[t] # 0)
=============================================================================
