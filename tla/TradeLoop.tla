------------------------------ MODULE TradeLoop ------------------------------
(***************************************************************************)
(* The hot loop of crates/bot/src/main.rs: one task that turns an          *)
(* opportunity into a signed transaction and books what came of it.        *)
(*                                                                         *)
(* The code between two awaits is one step; the chain, the price feed and  *)
(* the clock move between the steps.  A sent transaction has a life of its *)
(* own: it may land after the loop gave up waiting for it, or never.       *)
(*                                                                         *)
(* Only the live branch is modelled: startup refuses simulation_only       *)
(* (main.rs, validate_required_environment).                               *)
(***************************************************************************)
EXTENDS Integers, Sequences, FiniteSets

CONSTANTS
  Paths,                       \* arbitrage cycles the strategy may return
  Hops,                        \* number of edges of each path
  MaxHops,                     \* config.max_hops
  Quotes,                      \* expected_profit_lamports an Ultra order may quote
  Fees,                        \* required_fee_lamports plus tip an order may carry
  InitialBalance,              \* lamports of the operator wallet after startup
  MinBalance,                  \* the minimum enforce_wallet_balance asks for
  MaxConsecutive, Threshold, Half,    \* configuration of the circuit breaker
  OptimizeEvery,               \* OPTIMIZE_EVERY_N_TRADES
  NoTrade, NoOrder,            \* model values: nothing selected, nothing ordered
  MaxSent,                     \* bound: transactions sent in a session
  MaxEvaluated                 \* bound: simulations counted without an optimizer cycle

ASSUME TradeLoopAssumption ==
  /\ MaxHops \in 2 .. 6                              \* RichEngine::new rejects the rest
  /\ Hops \in [Paths -> 2 .. MaxHops + 3]
  /\ NoTrade \notin Paths
  /\ Half \in Nat \ {0} /\ Quotes \subseteq -Half .. Half - 1
  /\ MaxConsecutive \in Nat /\ Threshold \in 0 .. 2 * Half - 1
  /\ Fees \subseteq Nat
  /\ NoOrder \notin [quote : Quotes, fee : Fees]
  /\ InitialBalance \in Nat /\ MinBalance \in Nat
  /\ OptimizeEvery \in Nat \ {0}
  /\ MaxSent \in Nat /\ MaxEvaluated \in Nat

VARIABLES
  pc,                          \* the await the loop is in, "top" between cycles
  prices,                      \* "live" when live_edges is Some and not empty
  trade,                       \* the path being executed
  balance,                     \* wallet_balance as the loop read it
  order,                       \* ultra_order
  submitted,                   \* submitted_path_hashes
  breaker,                     \* the circuit breaker's CircuitInner
  cooldown,                    \* "over" when AdaptiveCooldown::is_ready answers true
  evaluated,                   \* snapshot.trades_evaluated of the self-optimizer
  booked,                      \* transactions booked in P&L and session stats, in order
  pnl,                         \* AtomicPnL
  sent,                        \* chain: every transaction the RPC node accepted
  wallet                       \* chain: the operator's lamports

loopVars == <<pc, prices, trade, balance, order, submitted, breaker, cooldown,
              evaluated, booked, pnl>>
chainVars == <<sent, wallet>>
vars == <<loopVars, chainVars>>

\* What the booked trades quoted, in order.
Quoted == [i \in 1 .. Len(booked) |-> sent[booked[i]].quote]

\* The loop is the only task that trades, so the breaker's own trader state is not needed here.
CB == INSTANCE CircuitBreaker
        WITH Traders <- {"loop"}, Profits <- Quotes, MaxHistory <- MaxSent,
             history <- Quoted,
             pc <- [t \in {"loop"} |-> IF pc = "top" THEN "idle" ELSE "trading"],
             late <- 0

-----------------------------------------------------------------------------
(* The deduplication key.  reconstruct_path names the venue of an edge by    *)
(* its position and the key hashes the venue names of the path.              *)

Dex(i) == CASE i % 3 = 0 -> "Raydium" [] i % 3 = 1 -> "Orca" [] OTHER -> "JupiterV6"

Route(n) == [i \in 1 .. n |-> Dex(i - 1)]

DexPath(p) == Route(Hops[p])

\* slip: a capacity of one
OneEntryCapacity == 1

DedupCapacity == 64

\* slip: the set is read and never written
ForgetKey(keys, key) == keys

Remember(keys, key) ==
  (IF Cardinality(keys) >= DedupCapacity THEN {} ELSE keys) \cup {key}

\* edges[0].from and edges[1].to differ unless the path is there and back
HasDistinctMints(p) == Hops[p] # 2

-----------------------------------------------------------------------------
Status == {"pending", "landed", "failed", "expired"}

Init ==
  /\ pc = "top" /\ prices = "none"
  /\ trade = NoTrade /\ balance = 0 /\ order = NoOrder
  /\ submitted = {} /\ breaker = CB!NewBreaker /\ cooldown = "over"
  /\ evaluated = 0 /\ booked = <<>> /\ pnl = 0
  /\ sent = <<>> /\ wallet = InitialBalance

(* How a cycle ends: `continue` skips the optimizer, falling through runs it. *)

Continue ==
  /\ pc' = "top" /\ trade' = NoTrade /\ order' = NoOrder /\ balance' = 0
  /\ UNCHANGED <<prices, submitted, breaker, booked, pnl>>

\* slip: a cycle subtracts its quota without waiting for it
OptimizeEarly(n) == n - OptimizeEvery

MaybeOptimize(n) == IF n < OptimizeEvery THEN n ELSE 0

\* slip: the outcome is counted and the clock not restarted
CountOutcomeOnly == cooldown' = cooldown

\* record_outcome restarts the cooldown whatever the outcome
RecordOutcome == cooldown' = "running"

-----------------------------------------------------------------------------
\* jupiter_rx.try_recv: the last batch received, never an empty one, replaces the live edges
AbsorbPrices ==
  /\ pc = "top"
  /\ prices' = "live"
  /\ UNCHANGED <<pc, trade, balance, order, submitted, breaker, cooldown, evaluated,
                 booked, pnl, chainVars>>

\* an event arrived, the breaker is closed and there are prices: evaluate the strategy
BeginCycle ==
  /\ pc = "top"
  /\ CB!AllowsTrade(breaker)
  /\ prices = "live"
  /\ pc' = "evaluate"
  /\ UNCHANGED <<prices, trade, balance, order, submitted, breaker, cooldown, evaluated,
                 booked, pnl, chainVars>>

\* the strategy approved nothing: the cycle falls through to the optimizer
NothingApproved ==
  /\ pc = "evaluate"
  /\ Continue
  /\ evaluated' = MaybeOptimize(evaluated)
  /\ UNCHANGED <<cooldown, chainVars>>

\* best of cycle dropped: cooling down, or its key was booked before
DropBest(p) ==
  /\ pc = "evaluate"
  /\ cooldown = "running" \/ DexPath(p) \in submitted
  /\ Continue
  /\ UNCHANGED <<evaluated, cooldown, chainVars>>

Selectable(p) ==
  /\ pc = "evaluate"
  /\ cooldown = "over"
  /\ DexPath(p) \notin submitted
  /\ evaluated < MaxEvaluated
  /\ evaluated' = evaluated + 1                      \* record_simulation

\* pre-simulation or the anomaly detector rejects it, or its mints are equal
RejectBest(p) ==
  /\ Selectable(p)
  /\ Continue
  /\ UNCHANGED <<cooldown, chainVars>>

SelectBest(p) ==
  /\ Selectable(p)
  /\ HasDistinctMints(p)
  /\ trade' = p
  /\ pc' = "balance"
  /\ UNCHANGED <<prices, balance, order, submitted, breaker, cooldown, booked, pnl, chainVars>>

-----------------------------------------------------------------------------
ReadBalance ==
  /\ pc = "balance"
  /\ wallet >= MinBalance                            \* enforce_wallet_balance
  /\ balance' = wallet
  /\ pc' = "order"
  /\ UNCHANGED <<prices, trade, order, submitted, breaker, cooldown, evaluated, booked, pnl,
                 chainVars>>

\* get_balance failed, or the wallet is below the minimum
BalanceRefused ==
  /\ pc = "balance"
  /\ Continue
  /\ UNCHANGED <<evaluated, cooldown, chainVars>>

ReceiveOrder(o) ==
  /\ pc = "order"
  /\ balance >= o.fee
  /\ order' = o
  /\ pc' = "simulate"
  /\ UNCHANGED <<prices, trade, balance, submitted, breaker, cooldown, evaluated, booked, pnl,
                 chainVars>>

\* the order needs more than the balance read before: the cycle ends with no outcome
OrderUnaffordable(o) ==
  /\ pc = "order"
  /\ balance < o.fee
  /\ Continue
  /\ UNCHANGED <<evaluated, cooldown, chainVars>>

\* the order was refused (429 or any other error), the simulation failed, the tip
\* could not be attached, or sendTransaction returned an error
StageFailed ==
  /\ pc \in {"order", "simulate", "send"}
  /\ Continue
  /\ RecordOutcome
  /\ UNCHANGED <<evaluated, chainVars>>

SimulateAndSign ==
  /\ pc = "simulate"
  /\ pc' = "send"
  /\ UNCHANGED <<prices, trade, balance, order, submitted, breaker, cooldown, evaluated,
                 booked, pnl, chainVars>>

\* what the node does with an accepted transaction
Accept ==
  /\ Len(sent) < MaxSent
  /\ sent' = Append(sent, [path |-> trade, quote |-> order.quote, fee |-> order.fee,
                           status |-> "pending"])
  /\ UNCHANGED wallet

Send ==
  /\ pc = "send"
  /\ Accept
  /\ pc' = "confirm"
  /\ UNCHANGED <<prices, trade, balance, order, submitted, breaker, cooldown, evaluated,
                 booked, pnl>>

\* the node accepted the transaction and its answer was lost: for the loop, a failed send
SendReplyLost ==
  /\ pc = "send"
  /\ Accept
  /\ Continue
  /\ RecordOutcome
  /\ UNCHANGED evaluated

-----------------------------------------------------------------------------
\* slip: any answer of the node without an error counts as confirmed
SeenWithoutError(t) == t.status # "failed"

\* the status confirm_transaction accepts: processed without error and confirmed
IsConfirmed(t) == t.status = "landed"

Confirmed ==
  /\ pc = "confirm"
  /\ IsConfirmed(sent[Len(sent)])
  /\ pnl' = pnl + order.quote
  /\ booked' = Append(booked, Len(sent))
  /\ breaker' = CB!AfterTrade(breaker, order.quote)
  /\ submitted' = Remember(submitted, DexPath(trade))
  /\ evaluated' = MaybeOptimize(evaluated)
  /\ pc' = "top" /\ trade' = NoTrade /\ order' = NoOrder /\ balance' = 0
  /\ RecordOutcome
  /\ UNCHANGED <<prices, chainVars>>

\* slip: keep polling until the chain reports an error
PollForever ==
  /\ pc = "confirm"
  /\ sent[Len(sent)].status = "failed"
  /\ Continue
  /\ evaluated' = MaybeOptimize(evaluated)
  /\ RecordOutcome
  /\ UNCHANGED chainVars

\* it failed on chain, 24 polls passed, or one poll returned an RPC error
NotConfirmed ==
  /\ pc = "confirm"
  /\ Continue
  /\ evaluated' = MaybeOptimize(evaluated)
  /\ RecordOutcome
  /\ UNCHANGED chainVars

CooldownElapses ==
  /\ cooldown = "running"
  /\ cooldown' = "over"
  /\ UNCHANGED <<pc, prices, trade, balance, order, submitted, breaker, evaluated, booked,
                 pnl, chainVars>>

-----------------------------------------------------------------------------
(* The chain, until the blockhash of a transaction expires.                  *)

Settle(i, outcome) ==
  /\ sent[i].status = "pending"
  /\ outcome \in {"landed", "failed"} => wallet >= sent[i].fee
  /\ sent' = [sent EXCEPT ![i].status = outcome]
  /\ wallet' = IF outcome = "expired" THEN wallet ELSE wallet - sent[i].fee
  /\ UNCHANGED loopVars

Chain == \E i \in DOMAIN sent : \E outcome \in Status \ {"pending"} : Settle(i, outcome)

Orders == [quote : Quotes, fee : Fees]

Select == \E p \in Paths : DropBest(p) \/ RejectBest(p) \/ SelectBest(p)

Execute ==
  \/ ReadBalance \/ BalanceRefused
  \/ \E o \in Orders : ReceiveOrder(o) \/ OrderUnaffordable(o)
  \/ StageFailed \/ SimulateAndSign \/ Send \/ SendReplyLost
  \/ Confirmed \/ NotConfirmed

Loop == BeginCycle \/ NothingApproved \/ Select \/ Execute

Next == AbsorbPrices \/ Loop \/ CooldownElapses \/ Chain

\* The awaits of a cycle all return: every HTTP client has a timeout.
Fairness == WF_vars(NothingApproved \/ Select \/ Execute)

Spec == Init /\ [][Next]_vars /\ Fairness

-----------------------------------------------------------------------------
Transaction == [path : Paths, quote : Quotes, fee : Fees, status : Status]

TypeOK ==
  /\ pc \in {"top", "evaluate", "balance", "order", "simulate", "send", "confirm"}
  /\ prices \in {"none", "live"} /\ cooldown \in {"running", "over"}
  /\ trade \in Paths \cup {NoTrade}
  /\ order \in Orders \cup {NoOrder}
  /\ balance \in Nat /\ wallet \in Nat /\ evaluated \in Nat
  /\ submitted \subseteq {DexPath(p) : p \in Paths}
  /\ breaker \in CB!Inner
  /\ sent \in Seq(Transaction)
  /\ booked \in Seq(Nat)
  /\ pnl \in Int

Total(amounts) ==
  LET sum[n \in Nat] == IF n = 0 THEN 0 ELSE sum[n - 1] + amounts[n]
  IN  sum[Len(amounts)]

\* The books say only what happened: every booked transaction landed, none is booked
\* twice, they are booked in the order sent, and P&L is the sum of what they quoted.
BooksSound ==
  /\ \A k \in DOMAIN booked :
       /\ booked[k] \in DOMAIN sent
       /\ sent[booked[k]].status = "landed"
       /\ \A j \in 1 .. k - 1 : booked[j] < booked[k]
  /\ pnl = Total(Quoted)

\* The breaker of the loop has tripped exactly when the booked trades, in order, came to
\* one of its limits: no booking bypasses it and no failed trade counts against it.  At
\* the drawdown limit itself it trips, though the documents say "exceed": the run of
\* DrawdownMustExceed (CircuitBreaker) shows that.
HaltedIffBooksReachLimit == CB!OpenIffLimitReached

\* The deduplication set holds exactly the routes of the booked trades, one trade each.
\* Routes are named by position alone, so it never fills, is never cleared, and a session
\* books at most MaxHops + 1 trades, whatever the market offers.
OneBookingPerRoute ==
  /\ submitted = {DexPath(sent[booked[k]].path) : k \in DOMAIN booked}
  /\ Cardinality(submitted) = Len(booked)
  /\ Len(booked) <= MaxHops + 1

Sends == Len(sent') > Len(sent)

\* Once the breaker is open nothing is sent any more in the session, and it stays open:
\* no cycle that passed the check earlier is still on its way to the send.
NothingSentAfterTrip ==
  [][breaker.state = "Open" => ~Sends /\ breaker'.state = "Open"]_vars

\* A route with a booked trade is never sent again.
BookedRouteNotResent ==
  [][Sends => \A k \in DOMAIN booked :
                DexPath(sent'[Len(sent')].path) # DexPath(sent[booked[k]].path)]_vars

\* Two sends are never closer than a cooldown: a send finds the cooldown elapsed, and the
\* cycle that sent cannot end, booked or not, without starting it anew.
SendsArePaced ==
  [][/\ Sends => cooldown = "over"
     /\ (Sends \/ pc = "confirm") /\ pc' = "top" => cooldown' = "running"]_vars

\* The loop is an implementation of the desk of module TradeDesk.
Desk == INSTANCE TradeDesk
          WITH Routes <- {DexPath(p) : p \in Paths}, NoRoute <- <<>>,
               phase <- CASE pc = "top" -> "idle" [] pc = "confirm" -> "waiting"
                          [] OTHER -> "working",
               route <- IF trade = NoTrade THEN <<>> ELSE DexPath(trade),
               used <- submitted, sends <- Len(sent),
               trading <- IF breaker.state = "Open" THEN "halted" ELSE "on"

\* Every step of the loop is a step the desk allows, or none at all.
KeepsDeskPromise == Desk!Spec

\* A cycle always comes to an end, whatever the order API, the RPC node and the chain do.
CycleEnds == (pc # "top") ~> (pc = "top")

-----------------------------------------------------------------------------
(* What comments and documents say of the loop and the code does not do.     *)

\* main.rs:348, "Deduplication set -- prevents sending the same arbitrage path twice".
NoPathSentTwice ==
  \A i, j \in DOMAIN sent : sent[i].path = sent[j].path => i = j
=============================================================================
