------------------------------- MODULE Routes -------------------------------
(***************************************************************************)
(* From the prices of a batch to an order: the edges, the price matrix,    *)
(* the search for negative cycles, the strategy's filters, and the         *)
(* simulation of the best route.  crates/ingress/src/jupiter.rs (the edge  *)
(* builder), crates/core, crates/strategy, crates/safety, and the middle   *)
(* of the hot loop of crates/bot/src/main.rs.                              *)
(*                                                                         *)
(* A price is its logarithm to base 2, an integer.  Between two batches    *)
(* the loop keeps the tokens it has numbered; the optimizer may have moved *)
(* the profit it asks for.  What follows an order is TradeLoop's.  Edges   *)
(* carry the slot u64::MAX, so that none is ever skipped as stale.         *)
(***************************************************************************)
EXTENDS RichEngine, ApexProgram

CONSTANTS
  TOKENS,                      \* the universe, a sequence
  Quotes,                      \* sets of priced tokens and their logarithms
  Configs,                     \* [max_hops, min_profit, max_position]
  MIN_PROFIT_FLOOR,            \* of the optimizer
  ActiveMins,                  \* its min_profit_lamports, later on
  MAX_LOG_WEIGHT,              \* and MIN_LOG_WEIGHT is -MAX_LOG_WEIGHT
  LIQUIDITY                    \* liquidity_lamports of every edge of a route

\* The reference position of the engine is what the strategy trades, or more.
ASSUME RoutesAssumption ==
  /\ TOKENS \in Seq(ToSet(TOKENS))
  /\ \A q \in Quotes : DOMAIN q \subseteq ToSet(TOKENS) /\ \A t \in DOMAIN q : q[t] \in Int
  /\ \A c \in Configs : /\ c.max_hops \in 2 .. 6
                        /\ c.min_profit \in Nat /\ c.max_position \in Nat
  /\ MIN_PROFIT_FLOOR \in Nat \ {0}
  /\ \A m \in ActiveMins : m \in Nat /\ m >= MIN_PROFIT_FLOOR
  /\ Infinity \notin Int
  /\ {MAX_LOG_WEIGHT, LIQUIDITY, REF_POSITION_LAMPORTS} \subseteq Nat
  /\ LIQUIDITY \div 10 <= REF_POSITION_LAMPORTS

VARIABLES
  config,
  tokens,                      \* MatrixBuilder's
  active,                      \* self_optimizer.params().min_profit_lamports
  stage,
  quote, batch,                \* the prices live_edges was built from, and live_edges
  matrix, approved, trade, sim

locals == <<quote, batch, matrix, approved, trade, sim>>

vars == <<config, tokens, active, stage, locals>>

None == [none |-> TRUE]

NoMatrix == [n |-> 0, weight |-> << >>]

\* TradingParams::new
NewActive(min) == IF min < MIN_PROFIT_FLOOR THEN MIN_PROFIT_FLOOR ELSE min

Init ==
  /\ config \in Configs
  /\ tokens = << >>
  /\ active = NewActive(config.min_profit)
  /\ stage = "top"
  /\ quote = << >> /\ batch = << >>
  /\ matrix = NoMatrix /\ approved = << >> /\ trade = None /\ sim = None

-----------------------------------------------------------------------------
(* build_edges_from_prices, and MatrixBuilder                               *)

Clamp(w) ==
  IF w > MAX_LOG_WEIGHT THEN MAX_LOG_WEIGHT
  ELSE IF w < -MAX_LOG_WEIGHT THEN -MAX_LOG_WEIGHT ELSE w

LogWeight(q, a, b) == Clamp(q[a] - q[b])

\* an edge of each ordered pair of priced tokens; the venues of a pair differ in name only
BuildEdges(q) ==
  LET priced == Keep(TOKENS, {i \in DOMAIN TOKENS : TOKENS[i] \in DOMAIN q})
      pairs == Pairs(Len(priced))
      edge(a, b) == [from |-> a, to |-> b, log_weight |-> LogWeight(q, a, b)]
  IN [k \in 1 .. Len(pairs) |-> edge(priced[pairs[k][1] + 1], priced[pairs[k][2] + 1])]

RegisterToken(seq, t) == IF Contains(seq, t) THEN seq ELSE Append(seq, t)

RegisterAll(seq, edges) ==
  LET after[k \in 0 .. Len(edges)] ==
        IF k = 0 THEN seq
        ELSE RegisterToken(RegisterToken(after[k - 1], edges[k].from), edges[k].to)
  IN after[Len(edges)]

\* Infinity, unless an edge is written; the last one stays.
Weight(edges, a, b) ==
  LET ks == {k \in DOMAIN edges : edges[k].from = a /\ edges[k].to = b}
  IN IF ks = {} THEN Infinity
     ELSE edges[CHOOSE k \in ks : \A j \in ks : j <= k].log_weight

PriceMatrix(names, edges) ==
  [n |-> Len(names),
   weight |-> [i \in 0 .. Len(names) - 1 |->
                 [j \in 0 .. Len(names) - 1 |-> Weight(edges, names[i + 1], names[j + 1])]]]

-----------------------------------------------------------------------------
(* ArbitrageStrategy                                                        *)

\* GnnOracle::infer against the threshold 0.30, in hundredths of the raw score:
\* every edge brings 4 of liquidity and takes 10, the profit brings up to 50.
Confident(path) ==
  LET paid == IF path.expected_profit < 10000 THEN path.expected_profit ELSE 10000
  IN (50 * paid) \div 10000 - 6 * Len(path.edges) >= -84

Position == LIQUIDITY \div 10

PositionFits == 0 < Position /\ Position <= config.max_position

\* multi_dex.rs: the pool does not depend on the direction
Route(path) ==
  [i \in 1 .. Len(path.edges) |->
     LET e == path.edges[i] IN [dex |-> e.dex, pool |-> {e.from, e.to}]]

\* flash_swap.rs: a floor under the last hop only
Instructions(path) ==
  [i \in 1 .. Len(path.edges) |->
     [dex |-> path.edges[i].dex, amount_in |-> Position,
      min_out |-> IF i = Len(path.edges) THEN Position ELSE 0]]

Approves(path) ==
  Confident(path) /\ path.expected_profit >= config.min_profit /\ PositionFits

Trade(path) ==
  [path |-> path, position |-> Position,
   route |-> Route(path), instructions |-> Instructions(path)]

Strategy(m) ==
  LET found == DetectCycles(m, config.max_hops)
  IN FlattenSeq([i \in 1 .. Len(found) |->
                   IF Approves(found[i]) THEN <<Trade(found[i])>> ELSE << >>])

\* max_by_key: the last of the best
Best(trades) ==
  LET profit(i) == trades[i].path.expected_profit
  IN trades[CHOOSE i \in DOMAIN trades :
              \A j \in DOMAIN trades : \/ profit(j) < profit(i)
                                       \/ profit(j) = profit(i) /\ j <= i]

\* The hops that main hands to the simulation.
SimHops(t) ==
  [i \in 1 .. Len(t.instructions) |->
     [min_out |-> t.instructions[i].min_out,
      fee_bps |-> DexFeeBps(t.path.edges[i].dex),
      log_weight |-> t.path.edges[i].log_weight]]

-----------------------------------------------------------------------------
(* A cycle of the loop.  What it computes on the way is dropped at its end. *)

Drop ==
  /\ stage' = "top"
  /\ quote' = << >> /\ batch' = << >>
  /\ matrix' = NoMatrix /\ approved' = << >> /\ trade' = None /\ sim' = None

\* The price cache of the monitor only grows, and it sends no batch without an edge.
Absorb(q) ==
  /\ stage = "top"
  /\ ToSet(tokens) \subseteq DOMAIN q
  /\ quote' = q
  /\ batch' = BuildEdges(q)
  /\ batch' # << >>
  /\ stage' = "batch"
  /\ UNCHANGED <<config, tokens, active, matrix, approved, trade, sim>>

BuildMatrix ==
  /\ stage = "batch"
  /\ tokens' = RegisterAll(tokens, batch)
  /\ matrix' = PriceMatrix(tokens', batch)
  /\ stage' = "matrix"
  /\ UNCHANGED <<config, active, quote, batch, approved, trade, sim>>

Evaluate ==
  /\ stage = "matrix"
  /\ approved' = Strategy(matrix)
  /\ stage' = "approved"
  /\ UNCHANGED <<config, tokens, active, quote, batch, matrix, trade, sim>>

\* No trade, a panic of the blocking task, a cooldown that still runs, or a route
\* the loop remembers.
PassOver ==
  /\ stage = "approved"
  /\ Drop
  /\ UNCHANGED <<config, tokens, active>>

Select ==
  /\ stage = "approved" /\ approved # << >>
  /\ trade' = Best(approved)
  /\ stage' = "selected"
  /\ UNCHANGED <<config, tokens, active, quote, batch, matrix, approved, sim>>

\* slip: the minimum of the configuration decides whether a failed simulation matters
SimulateByConfig ==
  /\ stage = "selected"
  /\ sim' = SimulateSwap(trade.position, SimHops(trade), active)
  /\ stage' = IF IsProfitable(sim', active) \/ config.min_profit = 0
              THEN "order" ELSE "rejected"
  /\ UNCHANGED <<config, tokens, active, quote, batch, matrix, approved, trade>>

\* Without a minimum in force the simulation would decide nothing.
Simulate ==
  /\ stage = "selected"
  /\ sim' = SimulateSwap(trade.position, SimHops(trade), active)
  /\ stage' = IF IsProfitable(sim', active) \/ active = 0 THEN "order" ELSE "rejected"
  /\ UNCHANGED <<config, tokens, active, quote, batch, matrix, approved, trade>>

Reject ==
  /\ stage = "rejected"
  /\ Drop
  /\ UNCHANGED <<config, tokens, active>>

\* What TradeLoop models, an anomaly included; the optimizer may answer with a new minimum.
Order(min) ==
  /\ stage = "order"
  /\ active' = min
  /\ Drop
  /\ UNCHANGED <<config, tokens>>

Next ==
  \/ \E q \in Quotes : Absorb(q)
  \/ BuildMatrix \/ Evaluate \/ PassOver \/ Select \/ Simulate \/ Reject
  \/ \E m \in ActiveMins : Order(m)

Spec == Init /\ [][Next]_vars

-----------------------------------------------------------------------------
Name(i) == tokens[i + 1]

Clamped(e) == e.log_weight # quote[Name(e.from)] - quote[Name(e.to)]

\* The path comes back to where it starts, over edges of this batch.
ClosedWalk(path) ==
  LET n == Len(path.edges) IN
  /\ n \in 2 .. config.max_hops + 3
  /\ \A i \in 1 .. n :
       /\ path.edges[i].to = path.edges[IF i = n THEN 1 ELSE i + 1].from
       /\ path.edges[i].log_weight = LogWeight(quote, Name(path.edges[i].from), Name(path.edges[i].to))

\* One set of prices has no arbitrage in it: a route that promises a profit owes it to an
\* edge whose ratio of prices was cut to the bounds of a log weight (jupiter.rs:468).  A
\* walk over edges that are not cut never promises any, however the search composed it.
PromiseComesFromClamp ==
  stage = "approved" =>
    \A i \in DOMAIN approved :
       LET path == approved[i].path IN
       /\ ClosedWalk(path)
       /\ path.expected_profit > 0 => \E k \in DOMAIN path.edges : Clamped(path.edges[k])

\* What the loop orders is a route whose simulation returned the position and the minimum
\* in force, though the strategy knows only the configured one, which may be zero, the
\* optimizer moves the other between two cycles, and without one a failed simulation
\* would be ordered (main.rs:545, main.rs:577).
OrderPays ==
  stage = "order" => sim.success /\ ~(sim.final < trade.position + active)

\* Two computations of one profit agree: the simulation runs the hops with fees and floors
\* and never finds more than the sum of logarithms promised, below its cap of five times.
SimulationOnlyCosts ==
  stage = "order" /\ trade.path.expected_profit < 5 * REF_POSITION_LAMPORTS =>
    sim.profit <= trade.path.expected_profit
=============================================================================
