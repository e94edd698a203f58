# Formal models of Lendo / APEX, the Solana arbitrage bot

TLA+ models of the bot and its control plane under `src/crates`, model-checked
with TLC and proved with TLAPS. Every definition is translated from the Rust source; `PROJECT.json`
gives, for each, the file and lines it stands for.

## 1. The system

One process, `crates/bot`, trades. A second, `crates/api`, is the control plane
over a PostgreSQL database and a Redis cache. They share no state at run time.

| Part | Source | State | Operations |
|---|---|---|---|
| Hot loop | `bot/src/main.rs` | live edges, wallet balance read, current trade, deduplication set, P&L | absorb prices, evaluate, select, order, simulate, sign, send, confirm, book |
| Circuit breaker | `risk-oracle/src/circuit_breaker.rs` | latch, losing run, total drawdown, behind a mutex | `check_allow_trade`, `record_trade`, `manual_reset` |
| Adaptive cooldown | `jito-handler/src/adaptive_cooldown.rs` | cooldown, streak of 429s, last submit, dead-market pause | `is_ready`, `record_outcome` |
| Self-optimizer | `risk-oracle/src/self_optimizer.rs` | window of results, parameters | `record_simulation`, `record_trade`, `maybe_optimize` |
| RPC client | `jito-handler/src/rpc.rs` | none | balance, simulate, send, confirm by polling |
| Ultra orders | `ingress/src/ultra.rs` | none | request a swap transaction and its quote |
| Strategy | `strategy/`, `core/` | engine parameters | detect negative cycles, score, size, build |
| Pre-simulation | `safety/`, `solana-program/` | counters | integer swap chain and profit guard |
| Anomaly detector | `risk-oracle/src/anomaly.rs` | rolling window | observe a profit |
| Price monitor | `ingress/src/jupiter.rs` | active source, price cache, bounded channel | poll, fail over, send a batch |
| Streams | `ingress/src/helius_ws.rs`, mocks | reconnect delay, bounded channel | connect, parse, forward |
| Orders, loans, bundles | `jito-handler/`, `strategy/solend.rs` | the operator's key; a bundle under way | add the tip to an order, build a loan, sign, post, poll |
| Startup | `bot/src/main.rs` | attempts | check the configuration, the wallet and the node; send a proof transaction |
| Flash loans | `flash-loans/` | none | quote, choose a provider |
| Contract | `smart-contracts/` | config account | pause, arbitrage, withdraw |
| API | `api/` | broadcast channel, WebSocket clients | one handler per route, broadcast of events |
| Auth, db | `auth/`, `db/`, `database/migrations` | users, sessions, wallets, strategies, tokens, risk rules, events, settings | statements |
| Cache | `cache/` | keys with expiry | connected to and not used |
| Frontend | `frontend/` | badge of the bot | shows what the socket says |
| Docker, monitoring | | | outside the models |

How the parts meet. The price monitor and a stream each send to the hot loop
over a bounded channel, which the loop drains with `try_recv`. A stream event
triggers a cycle. A cycle is strictly sequential but awaits, in order, the
strategy (a blocking task), the wallet balance, the Ultra order, the RPC
simulation, the send and the confirmation polls. Between two awaits nothing else
touches the loop's state; the chain, the feed and the clock move meanwhile.
Breaker, cooldown and optimizer are called from the loop at fixed places of the
cycle, and most ways out of a cycle are a `continue` that skips what follows.

What is hard here: the many ways out of a cycle, each of which must leave six
pieces of state consistent; a send whose answer is lost and a transaction that
lands after the loop stopped waiting; checks made several awaits before what
they guard; counters and pauses that depend on long histories; a feedback loop
between the optimizer and what it measures; saturating and reinterpreted
integers; account numbers of a compiled transaction, which move when a key is
put before them; a cycle search that reads routes off predecessors that are not
a tree; and, in the API, handlers of several statements without a transaction,
between which others run and which may be cut short. `PROJECT.json` lists each
hazard at its line.

What makes each part correct:

* hot loop: books say what happened, once; nothing sent after a trip; a booked
  route not sent again; sends paced; every cycle ends;
* breaker: open exactly when the trades came to a limit, latched, small overshoot;
* cooldown: backs off at each refusal, pauses at every tenth, resumes;
* market data: prices reach the loop in the order learned, none is lost, a full
  channel never holds a sender up for ever, an outage heals;
* optimizer: parameters in range, coherent windows, no contradictory moves;
* route search: a promised profit has its cause in the prices as they were cut;
  what is ordered paid in the simulation of the same cycle;
* signers: an order asks for the same after it has its tip, the runtime reads a
  loan as it was meant, a tip buys a run of the swaps, startup leaves the wallet
  solvent and proves itself once;
* control plane: a password change closes the sessions of the old password, an
  operator keeps an active wallet, a page shows the switch as it is stored.

## 2. The modules

| Module | Models | Checked by | Proofs |
|---|---|---|---|
| `CircuitBreaker` | the breaker shared by several tasks | `loop_controls`, `breaker_drawdown` | `CircuitBreaker_proofs` |
| `AdaptiveCooldown` | pacing, in milliseconds | `loop_controls`, `dead_market_pause` | `AdaptiveCooldown_proofs` |
| `SelfOptimizer` | the optimizer and the cycles that feed it | `loop_controls`, `optimizer_window` | `SelfOptimizer_proofs` |
| `Limits` | max, min and clamp, for the two above | `loop_controls` | both |
| `LoopControls` | the three controls of the loop side by side; extends them | `loop_controls` | |
| `TradeLoop` | the hot loop with the chain; uses `CircuitBreaker`'s operators through `INSTANCE` | `trade_loop`, `resend` | `TradeLoop_proofs` |
| `TradeDesk` | what the loop promises, abstractly | as property `KeepsDeskPromise` | refinement in `TradeLoop_proofs` |
| `PriceFeed` | the price monitor, its channel and the loop's prices | `market_data` | `MarketData_proofs` |
| `EventStream` | a transaction stream and its reconnection | `market_data` | `MarketData_proofs` (types) |
| `MarketData` | both, and the top of the hot loop that drains them | `market_data` | `MarketData_proofs` |
| `Elementary` | powers of two and parts of sequences, for the three below | `routes` | `Routes_proofs` |
| `RichEngine` | Bellman-Ford from every token, and reconstruction | `routes` | `Routes_proofs` (walks) |
| `ApexProgram` | swap arithmetic and profit guard of the pre-simulation | `routes` | `Routes_proofs` |
| `Routes` | from a batch of prices to an order; extends both | `routes` | `Routes_proofs` |
| `TipTransfer` | the tip put into a compiled order | `transactions`, `tip_shift` | `Transactions_proofs` |
| `FlashLoanTx` | both builders of a flash loan, and what the runtime reads | `transactions`, `plan_fee` | `Transactions_proofs` |
| `BundleSubmission` | a bundle posted, posted again, polled | `transactions` | `Transactions_proofs` |
| `StartupProof` | the checks of the start and the proof transaction | `transactions` | `Transactions_proofs` |
| `Transactions` | the four side by side, as what the operator's key signs | `transactions`, `tip_shift`, `plan_fee` | `Transactions_proofs` |
| `Accounts` | users and sessions, statement by statement | `platform` | `Platform_proofs` |
| `Records` | rows that operators keep | `platform` | `Platform_proofs` |
| `Console` | the bot's switch, the channel and the pages | `platform` | `Platform_proofs` |
| `Platform` | the three as parts of the API server | `platform` | `Platform_proofs` |

`MC*` modules only give constants their values. Operators whose comment starts
with "slip:" are wrong variants of the operator that follows; nothing uses them.
They are the mutations that show each property can fail.

### CircuitBreaker

`breaker` is `CircuitInner` without the reason text. A method takes the mutex
once, so a method is one step, but `Check(t)` and `Record(t, p)` of one trade
are two, and other tasks run in between. `history` (profits since the last
reset) and `late` (trades recorded after the trip) exist for the properties.
`Half` stands for 2^63: `AsSigned` is `as i64`, `Saturate` is `saturating_sub`,
`NegatedLimit` the negation that wraps at the minimum. The poisoned mutex is
left out: no code panics while holding it.

### AdaptiveCooldown

The constants are the code's. `since` and `pause` are what `last_submit` and
`dead_market_until` are relative to now; both stop at a bound past which the
code no longer tells values apart. The cooldown is cut to whole milliseconds
at each change, the code cuts it when it compares. Jitter is any length in the
ten per cent, `Attempt` is `is_ready` answering true for one of them. `Leave`
is a cycle left with no outcome. `refused` counts 429s in a row for the
properties, independently of the streak the code resets; beyond twenty it goes
round from eleven to twenty (`CountRefusal`).

### SelfOptimizer

`snapshot` is `PerfSnapshot`; `trades_evaluated` is always accepted plus
rejected and is an operator. `params` are the `TradingParams`. Rates are
compared by multiplying instead of dividing, which agrees with the code's `f64`
on the values that arise; the products with 1.10 and 0.95 agree in the range of
`min_profit`. Four kinds of cycle feed it, as in `main.rs`: nothing approved,
simulation rejected, accepted and left at a later stage, traded. The second and
third never reach `maybe_optimize`.

### LoopControls

The loop owns one of each control and tells each what happened; none reads
another. `LoopControls` EXTENDS the three and has a behaviour of one of them,
`control`, while the others stay as the loop created them; so their properties
are checked in one run, and a theorem about one of the specifications is about
what `LoopControls` does with that control. How the gates of the three order a
cycle is `TradeLoop`'s.

### TradeLoop

`pc` is the await the loop is in. `AbsorbPrices` and `BeginCycle` are the top
of the loop; `DropBest`, `RejectBest`, `SelectBest` are the gates up to the
first network call, which run without an await; `ReadBalance` to `NotConfirmed`
are one action for each way an await may return. `sent` and `wallet` belong to
the chain: `Settle` may land, fail or expire a pending transaction at any
moment, whatever the loop is doing, and `SendReplyLost` is a send the node
accepted and the loop counts as failed.

Abstractions: an order is a quote and a fee; the strategy may return any path;
the key of the deduplication set is the sequence of venue names, without the
hash over it (collisions are left out); the cooldown is only over or running
(its timing is in `AdaptiveCooldown`); of the optimizer only the number of
evaluated simulations (the rest is in `SelfOptimizer`). `booked` lists indices
of `sent` and is there for the properties. Only the live branch is modelled:
`validate_required_environment` (`main.rs:899`) refuses to start otherwise.

The venue names follow from the position in the path alone
(`rich_engine.rs:239`), and paths have 2 to `max_hops`+3 edges. So the key says
only how long a path is. This is why `OneBookingPerRoute` can bound a session
by `MaxHops + 1` booked trades: a path there and back is never executed because
its two mints are equal (`main.rs:650`).

### TradeDesk

One trade at a time; a route is booked at most once and not sent after; nothing
begins after a halt; a halt is final. `TradeLoop` implements it with
`phase` from `pc`, `route` the key of the current path, `used` the deduplication
set, `sends` the number of transactions the node accepted, `trading` the latch.
Several steps of the loop (balance, order, simulation, prices, the clock, the
chain) are stuttering steps of the desk.

### PriceFeed

A price is its age in polls, and a batch of edges is the ages of the whole cache
when it was built. `task` is the await the monitor is in: the sleep and poll of
the active source, the poll of the other one, the send. `Poll`, `PollFails`,
`FailOver` and `BothFail` are the four ways a request ends; an answer may list
any tokens. `HandOver` is the code after each: build the edges and send them, or
skip the round when SOL or every other token has no price. `stale` says whether
the code logged "using STALE CACHE". `Deliver` waits while the channel is full.

`active_source` changes in the code after the send of `try_failover` and in the
model before it; nothing reads it in between.

### EventStream

`link` is the await of `connect_and_stream` or the pause after it. An event is
only a trigger, so the channel is a count. `End` is a connection closed by the
server, `Break` any error; only the first makes the pause short again. The Helius
and the Alchemy stream differ in what they subscribe to and are one module.

### MarketData

`loop` is where the hot loop is: in the drain of the price channel, at the event
channel, or in a cycle (`TradeLoop`). One event is taken per pass and dropped when
there are no prices or the breaker is open. `MarketData` extends `PriceFeed` and
takes the actions of `EventStream` through `INSTANCE`.

### RichEngine, ApexProgram, Routes

`Routes` is one pass of the hot loop up to the order: `Absorb` builds the edges
of a batch, `BuildMatrix` numbers tokens and fills the matrix, `Evaluate` is the
strategy, `Select` the best trade, `Simulate` the pre-simulation with its
verdict, `Order` whatever `TradeLoop` does next, after which the optimizer may
ask for another minimum. `RichEngine` keeps the order of the loops, so that
ties and the order of routes are those of the code; `Chain`, `ReconstructPath`
and `Dedup` are `reconstruct_path`. A tenth of the liquidity, the position a trade
takes, is at most the position its profit was scored for (`core/src/rich_engine.rs:24`):
`RoutesAssumption` says so, and the simulation is compared with that profit.

Logarithms are to base 2 and whole, so an exchange rate is a power of two and
the arithmetic of the hops is exact; the code's are natural and `f64`. What this
leaves out is rounding: with a configured minimum of zero a route whose sum of
logarithms is a rounding error may be approved. Then the simulation, whose
minimum is at least 3000 lamports, rejects it. `Confident` is the score of
`gnn_stub.rs` in hundredths, before the sigmoid, against the logit of its
threshold. Edges carry the slot `u64::MAX` (`jupiter.rs`), so none is stale.

All weights of a batch come from one vector of prices, hence the sum around any
walk is zero unless a weight was cut at 2.0. So every profit the strategy
promises is due to tokens whose prices are more than e^2 apart
(`PromiseComesFromClamp`).

### TipTransfer, FlashLoanTx, BundleSubmission, StartupProof, Transactions

`TipTransfer` has a compiled message as a record: keys, header counts, loaded
addresses, instructions as sequences of account numbers. `AttachTip` follows
`attach_jito_tip_and_sign`: find or insert the tip account and the system
program, move the numbers, append the transfer. `OrderSurvivesTip` compares what
the runtime reads (`KeyOf`, `IsWritable`) before and after.

`FlashLoanTx` computes the loan's instructions (`V0Instructions`), the account
table of `build_v0_message_and_sign` with its lookup tables, and the fixed table
of the legacy builder; `Read` is what the runtime makes of either, and
`LoanReadsAsMeant` compares. `Accepted` is the runtime's rule that a program is
called by a static key. A pubkey is a number, ordered as its text.
`Transactions` extends it and so shares its pubkeys.

`BundleSubmission`: `Submit` takes a batch, `BlockhashArrives` signs it and its
tip and builds the bundle, `Accepted`, `Answered` and `PostFails` are the ways a
post ends (in the last the engine may hold the bundle all the same), `Return`
spawns the poll of the status. `held` and `ran` belong to the engine and the
chain. The bot uses the handler only for its tip accounts; `submit` is its
library.

`StartupProof`: the checks in order, then attempts that build, simulate, send
and poll. `sent` and `landed` belong to the chain; an attempt whose reply was
lost may land during a later one.

`Transactions` runs one of the four per behaviour (`desk`), as they share
nothing.

### Accounts, Records, Console, Platform

A request of the API is a record of what it has read and which statement is
next. Reads and checks up to the first write are one action where no other
request could tell the difference; after it, each statement is an action.
`Fail` cuts a request short between two statements (a database error, the 30 s
timeout of `router.rs:77`, a client that hung up: the future is dropped);
`Crash` does so to all. A refused request changes nothing and is left out.

`Accounts`: a session carries the version of the password its owner gave
(`version`), and `raced` if its request had passed its checks when the sessions
were revoked; `cut` holds users whose change ended between its two statements.
These exist for the property, which names both windows. A refresh does not look
at the user's status (`auth.rs:87`), as in the code.

`Records`: one action `Begin` for the check of any operation on a row and one
for each kind of statement; tables differ in `Operations`, `FirstStatus`,
`Owned` and the unique index on mints. `WalletRepository::activate` is one
transaction and one step.

`Console`: `switch` is the setting `bot.enabled`, `events` what was broadcast
since the start, of which the channel keeps the last `Capacity`. `Receive` is
`recv`: a receiver that fell behind gets an error, which ends its socket. The
bot does not read the switch: no part of `crates/bot` opens the database.

`Platform` EXTENDS `Accounts` and takes the others through `INSTANCE`; a
behaviour has the requests of one part, since the parts share no table.

## 3. The runs

| Run | Instance | Shows |
|---|---|---|
| `trade_loop` | five paths of four lengths, quotes -3, -1, 1, two sends, wallet of two fees, breaker limits 2 and 3, window 1 | all properties of the loop, the refinement and liveness; 168,669 states |
| `loop_controls` | one control at a time. Breaker: two tasks, limit 3, drawdown 10, integers of -16..15, five trades between resets. Cooldown: clock ticks of 500 ms, 5.5 s horizon. Optimizer: windows of 3, at most 5 simulations, 4 optimizer cycles, parameters at and beyond every limit | the breaker against the list of its trades; the pacing with the code's constants; ranges, coherence, starvation; 384,403 states |
| `breaker_drawdown` | as `loop_controls`, the breaker | *violated*: the drawdown need not exceed its limit (finding) |
| `dead_market_pause` | as `loop_controls`, the cooldown, 16 s horizon | *violated*: no pause is longer than 5 s, nor follows the eleventh refusal (finding) |
| `optimizer_window` | as `loop_controls`, the optimizer | *violated*: windows grow past their length (finding) |
| `market_data` | two tokens, channels of two batches and one event, ages to 2 | order, loss, truth of the stale log, back-pressure and recovery; 79,576 states |
| `resend` | as `trade_loop` | *violated*: a path can be sent twice (finding) |
| `transactions` | three attempts at startup with wallets on both sides of the limit; messages of one to three keys and up to two loaded addresses; loans with up to two lookup tables; two submissions of a batch | what the key signs; liveness of the start, the handler and its polls |
| `tip_shift` | as `transactions` | *violated*: an order that loads addresses acts on others once it has its tip (finding) |
| `plan_fee` | as `transactions` | *violated*: the fee of a plan is rounded down (finding) |
| `routes` | four tokens, prices 2^0 to 2^4, weights cut at 2, hop limits 2 to 4, three minimums of the optimizer | the cause of a promised profit, the simulation in force; 129,817 states |
| `platform` | four requests, three users of two names, three sessions, three rows of two owners, one page, a channel of one event | the three parts of the API with crashes; 310,318 states |

Why these bounds are enough. Two sends are what it takes for a late landing of
one transaction to meet the booking of the next, a loss to follow a loss, and a
route to come up again. The breaker limits are reachable with two trades, one of
them by drawdown alone (-3) and one by the losing run alone (-1, -1). The wallet
pays two fees and not three, so that `OrderUnaffordable` and `BalanceRefused`
happen. Two sends over paths of four lengths are enough for a set that forgets
to break `OneBookingPerRoute`. Five recorded trades let the losing run be interrupted and begin again, and the
drawdown come to its limit exactly (-9, -1), pass it and reach saturation. A tick of 500 ms divides the pause; coarser time
only merges moments at which `is_ready` gives the same answer, and every jitter
is tried at each. Two batches in the channel, one waiting and one in use are four different
ages of the cache, enough for a wrong order or a lost one; with two tokens an
answer may list one and keep the other's old price. Ages above `MaxAge` rounds
are one age, and `Recovers` needs to tell only one round from more. Up to twenty refusals
in a row and more are told apart, with successes and
failures anywhere between; where a pause of fifteen seconds is asked for, the horizon is
sixteen. Prices 2^4 apart pass the cut of
2 by one pair, by several or by none, and four tokens make routes longer than
the hop limit. Three keys and two loaded addresses give an account number before,
at and after the place of each inserted key; two tables that share an address
are what a wrong numbering confuses. Four requests suffice for a login, two
refreshes or a second login, and a password change that cross; three wallets for a
switch between two of one owner next to another's; one event in the channel for
a page that fell behind. `MaxSent`, `MaxEvaluated`, `MaxCycles`, `MaxHistory`,
`MaxCalls`, `MaxSessions`, `Requests`, `Tick`, `Horizon`, `MaxRefused` and `MaxAge` are the bounds; they restrict how long a behaviour is, not
what a step does. Deadlock is checked in every run but `platform`, where each
request is made once and the server then waits: elsewhere the clock, the feed, a
new batch or a reset can always move. In `platform` requests are symmetric.

## 4. Fairness

* `TradeLoop`: weak fairness of the steps inside a cycle. Every HTTP client is
  built with a timeout (`rpc.rs:137`, `ultra.rs:86`) and the confirmation loop is
  bounded (24 polls), so each await returns, with an answer or an error. Nothing
  is assumed of the feed, of the events that start cycles, or of the chain: a
  transaction may stay pending for ever.
* `AdaptiveCooldown`: weak fairness of the clock only.
* `MarketData`: weak fairness of the monitor (its requests have a timeout of ten
  seconds, `jupiter.rs:31`), of the pauses and sends of the stream, and of the
  loop (a cycle ends by `CycleEnds`). The drain ends again and again: it takes
  microseconds a batch and the monitor sends one every two seconds at most.
  Nothing is assumed of the server of the stream, and of the price sources only
  what `Recovers` names as its premise.
* `Transactions`: weak fairness of `main`'s startup, of the bundle handler and of
  each poll, whose HTTP requests all have timeouts and whose retries are counted.
  Nothing is assumed of the chain or of the block engine.
* The other modules state no liveness: `Routes` is a computation, and what the API
  does next is up to its clients.

## 5. What is proved

For every value of the constants that satisfies the named assumptions
(`BreakerAssumption`, `CooldownAssumption`, `OptimizerAssumption`,
`TradeLoopAssumption`, `FeedAssumption`, `StreamAssumption`,
`SignersAssumption`, `OrdersAssumption`, `LoansAssumption`, `PubkeysAssumption`,
`BatchesAssumption`, `RoutesAssumption`, `AccountsAssumption`):

* `CircuitBreaker_proofs`: `TypeCorrect`, `BoundedOvershoot`, `StaysLatched`.
  The overshoot needs a strengthening that counts: while open, `late` plus the
  tasks still trading is below the number of tasks, since only tasks that began
  before the trip can still record. `OpensAtTheLimit` says the latch is what the
  history calls for. Its invariant, `Summarises`, has one part per field: the losing
  run is the longest one at the end of the history, the drawdown is the saturated
  sum, and the latch is set exactly when some record of the history reached a limit.
  It is stated under `Convertible`, a drawdown limit below 2^63 and no profit of
  `i64::MIN`: beyond those, `as i64` makes the limit (`circuit_breaker.rs:62`) or the
  size of the loss (`:98`) negative, and what is compared is no longer what was meant.
* `AdaptiveCooldown_proofs`: `TypeCorrect`, `ResumesAtFullCooldown`,
  `PausesAreQuiet`, `BacksOff`, `PausesEveryTen`. The invariant ties the streak,
  the 429s in a row, the cooldown grown so far and the pause together: after k
  refusals in a row the cooldown is at least `Grown(k)`, which is 5000 from the
  seventh on, so a pause always begins at the maximum; the refusals in a row are the
  streak or ten more (`RefusedIsStreak`), and a running pause is five seconds from
  the last outcome (`PauseCounts`).
* `SelfOptimizer_proofs`: `ParamsBounded`, `OneWindow`, `SignalsAgree`,
  `StaysStarved`.
* `TradeLoop_proofs`: `TypeCorrect`, `BooksOncePerRoute`, `QuietAfterTrip`,
  `NeverResent`, `Paced`, `ImplementsDesk`. The invariant `IInv` is
  `TypeOK /\ Stage /\ InFlight /\ Books`: what is set at each await (a trade and
  its route, an order, a transaction), that a cycle past the check has a closed
  breaker, an elapsed cooldown and an unbooked route, and that the
  deduplication set is the set of booked routes. `QuietAfterTrip` and
  `NeverResent` are not inductive alone: the check is awaits before the send,
  and `Stage` carries it there. `FewRoutes` counts routes by length, from which
  the set never reaches 64. `BooksAreSound` (P&L is what the booked
  transactions were quoted, each landed and booked once) is about a recursive sum over
  the quotes; the lemma it needs is what one quote more does to it (`TotalAppends`).
  `HaltsAtTheLimit` carries the breaker's own lemmas over through `INSTANCE`: the
  history is the quotes of the booked trades, under the same limits on
  `Threshold` and `Quotes`.
* `MarketData_proofs`: `ImplementsFeed`, `TypeCorrect`, `NoPriceLost`,
  `LogsStale`, `NeverGoesBack`. The composition is shown to implement `PriceFeed`
  first, and the properties of the prices follow from `FeedInv`, which is proved
  of `PriceFeed` alone. Its core is `InOrder`: from the cache over the batches
  in the channel to the loop's prices, ages only grow, token by token. A poll
  ages the whole line at once and freshens its young end; taking a batch moves
  the old end up. Together with `SendsCache` and `NothingNew` (after a failed
  poll nothing is of this round) this is inductive.
* `Transactions_proofs`: `OrderSurvives`, `ProofAffordable`, `ProofIsOne`. The
  first is about every well-formed message: after one insertion or two, each old
  number names what it named (`NumberKept`), the system program either being
  there or not needed by a loaded address, from which the instructions are kept
  (`InstructionsKept`) and the transfer is the tip (`TipPaid`). The second carries
  `WalletKept`: lamports left plus the fees of attempts that may still land.
  `LoansRepaid` follows the builders: budget instructions, the loan, the swap, the
  repayment that names its borrow by number and covers its fee. It assumes
  that what Jupiter returns neither borrows nor repays and that the budget
  instructions can be counted in a byte, the width of that number. `BundlesPay`
  says that what is posted is at least one swap, each determined by its payload
  whatever the call's blockhash, and then one tip (`IsBundle`); and as a bundle lands
  whole and only if nothing of it ran before, each landing adds a swap for its tip
  (`LandingPays`). `LoansReadAsMeant` settles both account tables. The static
  part and what each lookup table loads are lists, sequences that hold each member of
  a set once (`Lists`), and together they hold each account of the loan once
  (`StaticListed`, `LoadsListed`). Read back, a number names the account it was given
  to exactly if the two orders are the same: the builder's, which lays the loads table
  after table, and the runtime's, which takes everything to be written first. They are
  the same as long as no table loads an account to read before another loads one to
  write (`FlattenAligned`); otherwise an account at the first difference is read
  wrongly by an instruction that names it (`OutOfOrder`). The header is read off the
  sizes of four sorted groups (`StaticListed`). It assumes (`PubkeysAssumption`) that
  one loan names at most 256 accounts, since `as u8` takes a number of one, and more
  would not fit a transaction; and, for the legacy table, that what it writes to is
  neither a program nor one of the accounts it lists to read, all of which are
  different accounts of the chain. It does not assume that the tables hold different
  accounts, nor which table a shared one is loaded from (`Homes`).
* `Routes_proofs`: `OrdersPay`, `PromisesComeFromClamps`, `SimulationsOnlyCost`.
  For the first, `MinInForce` (the optimizer never asks for nothing)
  is what makes the test for a zero minimum harmless, and `ProfitableReturns` that
  a profitable verdict implies the guard over the whole route. For the second, the
  predecessors of the search are any function on the tokens, since with negative
  cycles they need not be a tree: `ReconstructedIsClosed` shows that what
  `reconstruct_path` returns is nevertheless closed, and `CyclesAreWalks`
  that its edges join. `WeightOfPrices` gives each uncut weight as a difference of
  two logarithms of prices, so that along a closed walk they cancel
  (`UncutWalkSumsToZero`) and a profit needs a cut weight. For the third,
  `RunningIsBounded` follows the amount hop by hop: it stays below the input times
  the product of the rates, because fees, impact and the whole division only take
  (`HopOnlyCosts`), and that product is the profit the strategy scored.
* `Platform_proofs`: `PasswordChangeCloses`, `ActiveWalletKept`, `BadgeTells`.
  `AccountInv` says of each live session of an old password, and of each request that
  is about to open one, which excuse it has (`SessionsExcused`,
  `RequestsExcused`), and that versions never run ahead of the user's (`Known`).
  `RecordInv` ties what a delete saw to what it may still do. `ConsoleInv` has two
  halves: a page shows the last status it read (`PageReads`), and who wrote the
  switch last announces, or has announced, what he wrote.

Recursion. The library's induction theorems take an operator for the claim, which
the provers used here cannot instantiate. Where a proof has to follow a recursive
function (the steps of a reconstruction, the powers of two, the amount after each
hop), the claim is put as a set of numbers instead: a least number outside it exists because `<` on the naturals is well founded (`WFMin`,
`LeastNatural`), which gives `Induction` for sets. That a recursive function is
what its equation says follows the same way from the functions on its initial
segments (`RecursionExists`, `RecursionStays`; `SumExists` for the breaker's sum).

Only model-checked: liveness (`CycleEnds`, `ReadyAgain`, `BackPressureEnds`,
`Recovers`, `AllEnd`), which needs `ENABLED`.

## 6. What the models showed of the code

Disagreements with a document or a comment, each shown by a run (see "findings"):

* The deduplication set does not prevent sending a path twice (`NoPathSentTwice`).
* The breaker opens at the drawdown limit, where the documents say beyond it
  (`DrawdownMustExceed`). `OpenIffLimitReached` and `HaltedIffBooksReachLimit` have
  the limit as the code has it.
* The dead-market pause never grows to fifteen seconds and does not follow the
  refusals eleven to nineteen, as the streak restarts at ten (`DeadMarketPauses`).
* The optimizer does not adjust every 50 evaluated trades (`AdjustsEveryWindow`).
* An order that loads addresses and does not name the system program acts on other
  accounts once it has its tip, since two keys are inserted and loaded numbers move by
  one (`OrderUnchanged`).
* The fee of a plan is rounded down where its comment says up (`PlanFeeIsCeiling`).

Further disagreements, met while modelling and with no run of their own:

* A loan over two lookup tables is numbered table by table (`flash_tx_v2.rs:394`),
  those to write and then those to read of each, where the runtime takes those to
  write of all tables first: with a table that loads an account to read before another
  that loads one to write, the instructions name other accounts than were meant.
  `LoanReadsAsMeant` holds because it says exactly for which tables the two agree.
* A program that lies in a lookup table is taken from it (`flash_tx_v2.rs:346`, "non-
  signers can be ALT-referenced" at 328), and the runtime, which asks that programs
  are static keys, refuses the loan. That rule is not part of the modelled runtime; it
  does not bear on the numbering.
* The fallback stream ("FALLBACK: If Helius fails, use Alchemy WebSocket",
  `helius_ws.rs:15`) is chosen at the start only (`main.rs:285`), as in `EventStream`'s
  `Init`, and never after a failure.
* The session's loss limit ("Bot halts if total session losses exceed 0.5 SOL",
  `CONFIGURATION.md:59`) is read (`config.rs:140`), logged and compared with nothing;
  it is therefore not a constant of any module.

Met while modelling, and stated by properties that hold:

* A session books at most `max_hops + 1` trades, since keys name venues by
  position and are never forgotten (`OneBookingPerRoute`).
* `min_profit` is at least 3000, so the branch "when min_profit is 0, always
  proceed" (`main.rs:576`) is never taken (`OptimizerTypeOK`); above
  50,000 a step meant to raise it lowers it to the cap.
* Raised above what the market offers in a window with no win, the threshold
  never comes down (`StarvedForGood`).
* A cycle left because the wallet cannot pay the order records no outcome, so
  it does not restart the cooldown (`OrderUnaffordable`); it has sent nothing.
* "Stale cache, always logged clearly" (`jupiter.rs:119`) holds of whole batches
  (`StaleIsLogged`). A source that lists only some tokens is not a failed one: the
  others keep their last price without a line in the log and without failover,
  which is why the premise of `Recovers` asks for full answers.
* The breaker and P&L are fed the quoted profit of an order, not what the
  transaction earned, and nothing of what lands after the loop gave up
  (`BooksSound` is about confirmed trades only).
* Profit promised by the strategy comes from the cut of log weights alone
  (`PromiseComesFromClamp`); the simulation uses the same weights and cannot tell.
* A session survives a password change where a login or a refresh had passed its
  checks, or where the change was cut between its statements
  (`PasswordChangeClosesSessions` names both).
* Two requests on one wallet may leave its owner without an active one: a delete
  that saw it inactive removes it after an activation, or an activation finds it gone
  and has switched the others off (`ActiveWalletLostInRaceOnly`).
* A page loaded while the bot runs shows it stopped; an emergency stop and the
  settings page change the switch without a status, and the settings page always
  sends `enabled: false` (`app.js:593`), so saving settings clears the switch
  (`BadgeTellsTheSwitch` excepts writers that announce nothing).
* An administrator whose creation was cut before its activation stays pending
  through every later start (`SeedAdmin`, `Start`).

## 7. What is not modelled

Left out:

* Numbers: natural logarithms and `f64` rounding of the search and the simulation
  (base 2 instead), the score after its sigmoid, the anomaly window.
* Bytes: encodings, base58/base64, hashes and signatures; the codec of
  `instruction.rs`, which has no caller in the bot and whose `from_bytes` advances 17
  of a hop's 19 bytes; parsing of HTTP answers; the SIMD kernel as such (what it
  computes is modelled).
* Code without a caller: `deep_q.rs`, `path_finder.rs`'s search, `atomic_revert.rs`
  beyond its log line, `TipStrategy::record_outcome`, `tip_calculator.rs`, the cache crate
  (connected to, never used by a handler), the audit repository.
* Code without state: handlers that only read, flash-loan quotes, metrics, roles,
  CORS, the mock sources, the session report.
* The contract under `smart-contracts/`: the bot orders through Jupiter Ultra and
  never calls it; each instruction is an atomic transaction on one account.
* Frontend pages other than the badge, containers and dashboards.
